----------------------- MODULE CodeReviewDispatchProof -----------------------
(***************************************************************************)
(* What CodeReviewDispatch keeps for any number of dispatchers, subjects,  *)
(* reviewer runs, retries and faults: its types, one dispatcher at a time, *)
(* an envelope behind every report and behind the subject on record, and   *)
(* that it implements RequestOnce.                                         *)
(***************************************************************************)
EXTENDS CodeReviewDispatch, DispatchEffectProof

ReviewTypes ==
    /\ linear \in Statuses
    /\ announced \union served \union lapsed \subseteq 0..MaxSubject
    /\ runs \in [Run -> RunRecords]

(* A subject is on record, or on a record that may be written, only when   *)
(* its request exists; and there is something to review.                   *)
ActiveIn(st, jb) ==
    /\ \A s \in Subject : st.active = s => Exists(jb, s)
    /\ st.phase = "code_review" => st.subject # 0

ActiveInv ==
    ActiveIn(state, jobs) /\ \A d \in Dispatcher : ActiveIn(disp[d].held, jobs)

(* A dispatcher that has nothing left to do but to recover and to report   *)
(* still holds a record, which handoff writes back with its comment: if it *)
(* is of the stored revision, all it can say beyond the stored one is that *)
(* the dispatcher's own claim is dispatched.                               *)
Leaving == {"recover", "reopen", "resend", "report"}

Late(d, p, st) ==
    p.at \in Leaving =>
        /\ p.held.rev <= st.rev
        /\ p.held.rev = st.rev =>
              \A s \in Subject :
                  \/ Agree(p.held.effect[s], st.effect[s])
                  \/ /\ s = p.subject /\ p.held.effect[s].status = "dispatched"
                     /\ st.effect[s] = [status |-> "dispatching", owner |-> d]

LateInv == state.rev > 0 /\ \A d \in Dispatcher : Late(d, disp[d], state)

Inv == EffectInv /\ ReviewTypes /\ ActiveInv /\ LateInv

----------------------------------------------------------------------------
Grows == \A t \in Subject : Exists(jobs, t) => Exists(jobs', t)

LEMMA ActiveKeeps ==
    ASSUME Inv, NEW d \in Dispatcher, \A e \in Dispatcher \ {d} : disp'[e] = disp[e],
           Grows,
           state' = state \/ ActiveIn(state', jobs'),
           disp'[d].held \in {disp[d].held, state, state', NoState}
             \/ ActiveIn(disp'[d].held, jobs')
    PROVE  ActiveInv'
  <1>1. ActiveIn(state, jobs) /\ ActiveIn(disp[d].held, jobs) /\ ActiveIn(NoState, jobs')
    BY NoStateType DEF Inv, ActiveInv, ActiveIn, Subject, NoState
  <1>2. ActiveIn(state', jobs')
    BY <1>1 DEF ActiveIn, Grows
  <1>3. ActiveIn(disp'[d].held, jobs')
    BY <1>1, <1>2 DEF ActiveIn, Grows
  <1>4. ASSUME NEW e \in Dispatcher \ {d} PROVE ActiveIn(disp'[e].held, jobs')
    BY DEF Inv, ActiveInv, ActiveIn, Grows
  <1> QED BY <1>2, <1>3, <1>4 DEF ActiveInv

(* Where a dispatcher's step leaves the others and what it holds.          *)
LEMMA After ==
    ASSUME Inv, NEW d \in Dispatcher, NEW at, NEW held, NEW o,
           Goes(d, at, held) \/ Ends(d, at, held, o)
    PROVE  disp'[d].held = held /\ \A e \in Dispatcher \ {d} : disp'[e] = disp[e]
  BY Before DEF Inv, EffectInv, Goes, Ends, DispRecords

(* The stored record only gets a higher revision.                          *)
Rises == state' = state \/ (state'.rev \in Nat /\ state'.rev > state.rev)

LEMMA Risen ==
    ASSUME Inv, NEW d \in Dispatcher, NEW next \in WorkflowStates,
           next.rev = disp[d].held.rev, CasWon(d, next)
    PROVE  Rises
  BY Before DEF Inv, CasWon, WorkflowStates, Rises

LEMMA LateKeeps ==
    ASSUME Inv, NEW d \in Dispatcher, \A e \in Dispatcher \ {d} : disp'[e] = disp[e],
           Rises, Late(d, disp'[d], state')
    PROVE  LateInv'
  <1>1. state.rev \in Nat /\ state.rev > 0
    BY Before DEF Inv, WorkflowStates, LateInv
  <1>2. state'.rev > 0
    BY <1>1 DEF Rises
  <1>3. ASSUME NEW e \in Dispatcher \ {d} PROVE Late(e, disp'[e], state')
    <2>1. Late(e, disp[e], state) /\ disp[e].held.rev \in Nat
      BY Before DEF Inv, LateInv, WorkflowStates
    <2> QED BY <1>1, <2>1 DEF Late, Rises
  <1> QED BY <1>2, <1>3 DEF LateInv

(* A step of a dispatcher that goes on with its work, or leaves with the   *)
(* stored record, with none, or with the record it was holding.            *)
LEMMA LateMoves ==
    ASSUME Inv, NEW d \in Dispatcher, NEW at, NEW held, NEW o,
           Goes(d, at, held) \/ Ends(d, at, held, o), Rises,
           \/ at \notin Leaving
           \/ held \in {state', NoState}
           \/ held = disp[d].held /\ disp[d].at \in Leaving \union Writing
    PROVE  LateInv'
  <1>1. /\ disp[d] \in DispRecords /\ disp = [e \in Dispatcher |-> disp[e]]
        /\ disp[d].held.rev \in Nat /\ state.rev \in Nat /\ state.rev > 0
        /\ Late(d, disp[d], state) /\ Fresh(disp[d], state)
    BY Before DEF Inv, EffectInv, Holds, LateInv, WorkflowStates
  <1>2. /\ disp'[d].held = held /\ disp'[d].at = at /\ disp'[d].subject = disp[d].subject
        /\ \A e \in Dispatcher \ {d} : disp'[e] = disp[e]
    <2>1. CASE Goes(d, at, held)
      BY <1>1, <2>1 DEF Goes, DispRecords
    <2>2. CASE Ends(d, at, held, o)
      BY <1>1, <2>2 DEF Ends, DispRecords
    <2> QED BY <2>1, <2>2
  <1>3. state'.rev \in Nat /\ state'.rev > 0
    BY <1>1 DEF Rises
  <1>4. Late(d, disp'[d], state')
    <2>1. CASE at \notin Leaving
      BY <1>2, <2>1 DEF Late
    <2>2. CASE held = state'
      BY <1>2, <1>3, <2>2 DEF Late, Agree
    <2>3. CASE held = NoState
      BY <1>2, <1>3, <2>3, NoStateType DEF Late
    <2>4. CASE held = disp[d].held /\ disp[d].at \in Leaving
      BY <1>1, <1>2, <2>4 DEF Late, Rises
    <2>5. CASE held = disp[d].held /\ disp[d].at \in Writing
      BY <1>1, <1>2, <2>5 DEF Late, Fresh, Rises
    <2> QED BY <2>1, <2>2, <2>3, <2>4, <2>5
  <1> QED BY <1>2, <1>4, LateKeeps

(* A step that changes neither the state nor the envelopes, and leaves the *)
(* dispatcher with what it holds, with the stored state or with none.      *)
LEMMA ActiveMoves ==
    ASSUME Inv, NEW d \in Dispatcher, NEW at, NEW o,
           NEW held \in {disp[d].held, state, NoState},
           Goes(d, at, held) \/ Ends(d, at, held, o), UNCHANGED <<state, jobs>>
    PROVE  ActiveInv'
  <1>1. disp'[d].held = held /\ \A e \in Dispatcher \ {d} : disp'[e] = disp[e]
    BY After
  <1> QED BY <1>1, ActiveKeeps DEF Grows

----------------------------------------------------------------------------
(* The mark puts the subject on record, and its request exists by then.    *)
LEMMA DispatchedMarks ==
    ASSUME Inv, NEW d \in Dispatcher, disp[d].at \in {"mark", "repairMark"}
    PROVE  /\ Marked(d, Dispatched(disp[d].held, disp[d].subject))
           /\ ActiveIn(Dispatched(disp[d].held, disp[d].subject), jobs)
           /\ Dispatched(disp[d].held, disp[d].subject).active = disp[d].subject
           /\ disp[d].subject \in Subject /\ Exists(jobs, disp[d].subject)
  <1> DEFINE s == disp[d].subject
             patched == Patched(disp[d].held, s, "dispatched")
             next == Dispatched(disp[d].held, s)
  <1>1. s \in Subject /\ Exists(jobs, s) /\ disp[d].held \in WorkflowStates
    BY Before DEF Inv, Known
  <1>2. "dispatched" \in EffectStatuses
    BY DEF EffectStatuses
  <1>3. /\ patched \in WorkflowStates /\ patched.rev = disp[d].held.rev
        /\ patched.effect[s].status = "dispatched"
        /\ \A t \in Subject \ {s} : patched.effect[t] = disp[d].held.effect[t]
        /\ patched.phase = disp[d].held.phase /\ patched.subject = disp[d].held.subject
    BY <1>1, <1>2, StateTypes
  <1> HIDE DEF patched
  <1>4. next = [patched EXCEPT !.active = s]
    BY DEF Dispatched, patched
  <1> HIDE DEF next
  <1>5. next \in WorkflowStates /\ next.rev = patched.rev /\ next.effect = patched.effect
        /\ next.active = s /\ next.phase = patched.phase /\ next.subject = patched.subject
    <2>1. s \in 0..MaxSubject
      BY <1>1, SubjectRange
    <2> QED BY <1>3, <1>4, <2>1 DEF WorkflowStates
  <1>6. ActiveIn(next, jobs)
    BY <1>1, <1>3, <1>5 DEF Inv, ActiveInv, ActiveIn
  <1> QED BY <1>1, <1>3, <1>5, <1>6 DEF Marked, next

LEMMA ProtocolKeeps ==
    ASSUME Inv, NEW d \in Dispatcher, Protocol(d)
    PROVE  EffectInv' /\ ActiveInv' /\ OnceStep
  <1> DEFINE marked == Dispatched(disp[d].held, disp[d].subject)
             next == IF disp[d].outcome \in Found THEN "recover" ELSE "report"
  <1>0. EffectInv
    BY DEF Inv
  <1>1. CASE Present(d)
    BY <1>0, <1>1, PresentKeeps, ActiveMoves DEF Present
  <1>2. CASE Block(d)
    <2>1. EffectInv' /\ OnceStep
      BY <1>0, <1>2, BlockKeeps
    <2>2. disp'[d].held = NoState /\ \A e \in Dispatcher \ {d} : disp'[e] = disp[e]
      BY <1>2, After DEF Block
    <2>3. \/ state' = state
          \/ /\ state'.active = disp[d].held.active /\ state'.phase = disp[d].held.phase
             /\ state'.subject = disp[d].held.subject
      <3>1. disp[d].subject \in Subject /\ disp[d].held \in WorkflowStates
            /\ "blocked" \in EffectStatuses
        BY <1>0, <1>2, Before DEF Block, EffectStatuses
      <3>2. /\ Patched(disp[d].held, disp[d].subject, "blocked") \in WorkflowStates
            /\ Patched(disp[d].held, disp[d].subject, "blocked").active = disp[d].held.active
            /\ Patched(disp[d].held, disp[d].subject, "blocked").phase = disp[d].held.phase
            /\ Patched(disp[d].held, disp[d].subject, "blocked").subject = disp[d].held.subject
        BY <3>1, StateTypes
      <3>3. CASE CasLost(d)
        BY <3>3 DEF CasLost
      <3>4. CASE CasWon(d, Patched(disp[d].held, disp[d].subject, "blocked"))
        BY <3>2, <3>4 DEF CasWon, WorkflowStates
      <3> QED BY <1>2, <3>3, <3>4 DEF Block
    <2>4. jobs' = jobs
      BY <1>2 DEF Block
    <2>5. ActiveIn(disp[d].held, jobs)
      BY DEF Inv, ActiveInv
    <2>6. state' = state \/ ActiveIn(state', jobs')
      BY <2>3, <2>4, <2>5 DEF ActiveIn
    <2> QED BY <2>1, <2>2, <2>4, <2>6, ActiveKeeps DEF Grows
  <1>3. CASE Create(d)
    <2>1. EffectInv' /\ OnceStep
      BY <1>0, <1>3, CreateKeeps
    <2>2. disp'[d].held = disp[d].held /\ \A e \in Dispatcher \ {d} : disp'[e] = disp[e]
      BY <1>3, After DEF Create
    <2>3. Grows
      <3>1. NewEnvelope.state # "absent" /\ jobs \in [Subject -> Envelopes]
            /\ disp[d].subject \in Subject
        BY <1>0, <1>3, Before, InitEnvelope, JobTypes DEF Create
      <3> QED BY <1>3, <3>1 DEF Create, Grows, Exists
    <2> QED BY <1>3, <2>1, <2>2, <2>3, ActiveKeeps DEF Create
  <1>4. CASE Send(d)
    BY <1>0, <1>4, SendKeeps, ActiveMoves DEF Send
  <1>5. CASE Repair(d)
    BY <1>0, <1>5, RepairKeeps, ActiveMoves DEF Repair
  <1>6. CASE Reopen(d)
    <2>1. EffectInv' /\ OnceStep
      BY <1>0, <1>6, ReopenKeeps
    <2>2. disp'[d].held = disp[d].held /\ \A e \in Dispatcher \ {d} : disp'[e] = disp[e]
      BY <1>0, <1>6, Before DEF Reopen, EffectInv, DispRecords
    <2>3. Reopened(disp[d].job).state = "pending"
      BY <1>0, Before, JobTypes DEF DispRecords
    <2>4. Grows
      BY <1>0, <1>6, <2>3, Before DEF Reopen, Grows, Exists
    <2> QED BY <1>6, <2>1, <2>2, <2>4, ActiveKeeps DEF Reopen
  <1>7. CASE Mark(d, marked, next)
    <2>1. Marked(d, marked) /\ ActiveIn(marked, jobs) /\ jobs' = jobs
      BY <1>7, DispatchedMarks DEF Mark
    <2>2. EffectInv' /\ OnceStep
      BY <1>0, <1>7, <2>1, MarkKeeps
    <2>3. \/ state' = state
          \/ /\ state'.active = marked.active /\ state'.phase = marked.phase
             /\ state'.subject = marked.subject
      BY <1>7, <2>1 DEF Mark, CasWon, CasLost, Marked, WorkflowStates
    <2>4. /\ disp'[d].held \in {disp[d].held, state', marked}
          /\ \A e \in Dispatcher \ {d} : disp'[e] = disp[e]
      BY <1>7, After DEF Mark
    <2>5. state' = state \/ ActiveIn(state', jobs')
      BY <2>1, <2>3 DEF ActiveIn
    <2> QED BY <2>1, <2>2, <2>4, <2>5, ActiveKeeps DEF Grows
  <1>8. CASE RepairMark(d, marked, "recover")
    <2> DEFINE patched == Patched(disp[d].held, disp[d].subject, "dispatched")
    <2>1. Marked(d, marked) /\ ActiveIn(marked, jobs) /\ jobs' = jobs
      BY <1>8, DispatchedMarks DEF RepairMark
    <2>2. EffectInv' /\ OnceStep
      BY <1>0, <1>8, <2>1, RepairMarkKeeps
    <2>3. \/ state' = state
          \/ /\ state'.active = marked.active /\ state'.phase = marked.phase
             /\ state'.subject = marked.subject
      BY <1>8, <2>1 DEF RepairMark, CasWon, CasLost, Marked, WorkflowStates
    <2>4. /\ disp'[d].held \in {state', patched}
          /\ \A e \in Dispatcher \ {d} : disp'[e] = disp[e]
      BY <1>8, After DEF RepairMark
    <2>5. ActiveIn(patched, jobs')
      <3>1. disp[d].subject \in Subject /\ disp[d].held \in WorkflowStates
            /\ "dispatched" \in EffectStatuses
        BY <1>0, <1>8, Before DEF RepairMark, EffectStatuses
      <3>2. patched.active = disp[d].held.active /\ patched.phase = disp[d].held.phase
            /\ patched.subject = disp[d].held.subject
        BY <3>1, StateTypes
      <3> QED BY <2>1, <3>2 DEF Inv, ActiveInv, ActiveIn
    <2>6. state' = state \/ ActiveIn(state', jobs')
      BY <2>1, <2>3 DEF ActiveIn
    <2> QED BY <2>1, <2>2, <2>4, <2>5, <2>6, ActiveKeeps DEF Grows
  <1>9. CASE Resend(d, "false_duplicate_recovered")
    <2>1. "false_duplicate_recovered" \in Outcomes
      BY DEF Outcomes
    <2> QED BY <1>0, <1>9, <2>1, ResendKeeps, ActiveMoves DEF Resend
  <1> QED BY <1>1, <1>2, <1>3, <1>4, <1>5, <1>6, <1>7, <1>8, <1>9 DEF Protocol

LEMMA StopActive ==
    ASSUME Inv, NEW d \in Dispatcher, Stops(d), UNCHANGED <<state, jobs>>
    PROVE  ActiveInv'
  <1>1. disp'[d].held = NoState /\ \A e \in Dispatcher \ {d} : disp'[e] = disp[e]
    BY IdleType DEF Inv, EffectInv, Stops, Idle
  <1> QED BY <1>1, ActiveKeeps DEF Grows

----------------------------------------------------------------------------
(* Handoff's transition numbers the record one up; no dispatcher's held    *)
(* record is of that revision.                                             *)
LEMMA HandoffStartKeeps ==
    ASSUME Inv, NEW d \in Dispatcher, HandoffStart(d)
    PROVE  EffectInv' /\ ActiveInv' /\ OnceStep
  <1> DEFINE p == Starting("claim", "phase", 1, state')
  <1>0. /\ EffectInv /\ state \in WorkflowStates /\ 1 \in Subject /\ 0 \notin Subject
        /\ state.rev \in Nat /\ state.rev + 1 \in Nat /\ 1 \in 0..MaxSubject
    BY Before, BoundsAssumption DEF Inv, WorkflowStates, Subject
  <1>1. state' = [state EXCEPT !.rev = @ + 1, !.phase = "code_review", !.subject = 1]
        /\ UNCHANGED <<jobs, sent, faults>> /\ disp' = [disp EXCEPT ![d] = p]
    BY DEF HandoffStart
  <1>2. /\ state' \in WorkflowStates /\ state'.rev = state.rev + 1
        /\ state'.effect = state.effect /\ state'.active = state.active
        /\ state'.subject = 1
    <2>1. "code_review" \in Phases
      BY DEF Phases
    <2> QED BY <1>0, <1>1, <2>1 DEF WorkflowStates
  <1>3. /\ p \in DispRecords /\ p.at = "claim" /\ p.subject = 1 /\ p.held = state'
        /\ p.outcome = "none"
    BY <1>0, <1>2, StartingTypes DEF Stages, Modes
  <1> HIDE DEF p
  <1>4. EffectInv' /\ OnceStep
    BY <1>0, <1>1, <1>2, <1>3, StoreKeeps DEF Writing, Owning
  <1>5. ActiveInv'
    <2>1. disp'[d].held = state' /\ \A e \in Dispatcher \ {d} : disp'[e] = disp[e]
      BY <1>0, <1>1, <1>3 DEF EffectInv
    <2>2. ActiveIn(state', jobs')
      BY <1>1, <1>2 DEF Inv, ActiveInv, ActiveIn
    <2> QED BY <1>1, <2>1, <2>2, ActiveKeeps DEF Grows
  <1> QED BY <1>4, <1>5

LEMMA PassStartKeeps ==
    ASSUME Inv, NEW d \in Dispatcher, ReconcileStart(d) \/ PinStart(d)
    PROVE  EffectInv' /\ ActiveInv' /\ OnceStep
  <1>0. /\ EffectInv /\ state \in WorkflowStates
        /\ UNCHANGED <<state, jobs, sent, faults>>
    BY Before DEF Inv, ReconcileStart, PinStart
  <1>1. ASSUME NEW p \in DispRecords, disp' = [disp EXCEPT ![d] = p], p.held = state,
               p.at \in {"claim", "recover"}, p.subject \in Subject,
               p.outcome \in Proving => Exists(jobs, p.subject)
        PROVE  EffectInv' /\ ActiveInv' /\ OnceStep
    <2>1. EffectInv' /\ OnceStep
      BY <1>0, <1>1, StartKeeps DEF Owning, Known
    <2>2. disp'[d].held = state /\ \A e \in Dispatcher \ {d} : disp'[e] = disp[e]
      BY <1>0, <1>1 DEF EffectInv
    <2> QED BY <1>0, <2>1, <2>2, ActiveKeeps DEF Grows
  <1>2. "claim" \in Stages /\ "recover" \in Stages /\ "pass" \in Modes /\ "unblock" \in Modes
        /\ "none" \notin Proving /\ "already_dispatched" \in Outcomes
    BY DEF Stages, Modes, Proving, Found, Outcomes
  <1>3. CASE ReconcileStart(d)
    <2>1. state.subject \in Subject
      BY <1>0, <1>3, SubjectRange DEF ReconcileStart, Inv, ActiveInv, ActiveIn, WorkflowStates
    <2> DEFINE mode == IF linear = "Blocked" THEN "unblock" ELSE "pass"
               p == Starting("claim", mode, state.subject, state)
    <2>2. mode \in Modes /\ state.subject \in 0..MaxSubject
      BY <1>0, <1>2 DEF WorkflowStates
    <2>3. p \in DispRecords /\ p.at = "claim" /\ p.held = state /\ p.subject = state.subject
          /\ p.outcome = "none"
      BY <1>0, <1>2, <2>2, StartingTypes
    <2>4. disp' = [disp EXCEPT ![d] = p]
      BY <1>3 DEF ReconcileStart
    <2> HIDE DEF p
    <2> QED BY <1>1, <1>2, <2>1, <2>3, <2>4
  <1>4. CASE PinStart(d)
    <2>1. PICK s \in {state.subject} \union ({state.active} \ {0}) :
             disp' = [disp EXCEPT ![d] =
                IF Durable(state, s)
                  THEN [Starting("recover", "pass", s, state) EXCEPT !.outcome = "already_dispatched"]
                  ELSE Starting("claim", "pass", s, state)]
      BY <1>4 DEF PinStart
    <2>2. s \in Subject /\ s \in 0..MaxSubject
      BY <1>0, <1>4, <2>1, SubjectRange DEF PinStart, WorkflowStates
    <2>3. CASE Durable(state, s)
      <3> DEFINE q == Starting("recover", "pass", s, state)
                 p == [q EXCEPT !.outcome = "already_dispatched"]
      <3>1. q \in DispRecords /\ q.at = "recover" /\ q.held = state /\ q.subject = s
        BY <1>0, <1>2, <2>2, StartingTypes
      <3>2. p \in DispRecords /\ p.at = "recover" /\ p.held = state /\ p.subject = s
        BY <1>2, <3>1 DEF DispRecords
      <3>3. disp' = [disp EXCEPT ![d] = p]
        BY <2>1, <2>3
      <3>4. Exists(jobs, s)
        BY <1>0, <2>2, <2>3 DEF EffectInv, Stored, Durable
      <3> HIDE DEF p
      <3> QED BY <1>1, <2>2, <3>2, <3>3, <3>4
    <2>4. CASE ~Durable(state, s)
      <3> DEFINE p == Starting("claim", "pass", s, state)
      <3>1. p \in DispRecords /\ p.at = "claim" /\ p.held = state /\ p.subject = s
            /\ p.outcome = "none"
        BY <1>0, <1>2, <2>2, StartingTypes
      <3>2. disp' = [disp EXCEPT ![d] = p]
        BY <2>1, <2>4
      <3> HIDE DEF p
      <3> QED BY <1>1, <1>2, <2>2, <3>1, <3>2
    <2> QED BY <2>3, <2>4
  <1> QED BY <1>3, <1>4

----------------------------------------------------------------------------
(* An attempt.                                                             *)
LEMMA AttemptClaims ==
    ASSUME Inv, NEW d \in Dispatcher, Claim(d)
    PROVE  EffectInv' /\ ActiveInv' /\ OnceStep
  <1> DEFINE s == disp[d].subject
             next == ClaimedBy(disp[d].held, s, d)
  <1>0. /\ EffectInv /\ s \in Subject /\ disp[d].held \in WorkflowStates
        /\ disp[d].at = "claim" /\ ~Taken(disp[d].held, s, d) /\ UNCHANGED <<jobs, sent, faults>>
        /\ \/ CasWon(d, next) /\ Goes(d, "present", state')
           \/ CasLost(d) /\ Goes(d, "lost", disp[d].held)
    BY Before DEF Inv, Claim, MayClaim
  <1>1. ~Durable(disp[d].held, s)
    BY DEF Claim, MayClaim, Refusal
  <1>2. /\ Claiming(d, next) /\ next.active = disp[d].held.active
        /\ next.phase = disp[d].held.phase /\ next.subject = disp[d].held.subject
    <2>1. s \in Subject /\ disp[d].held \in WorkflowStates
      BY <1>0
    <2>2. Claiming(d, next)
      BY <2>1, StateTypes DEF Claiming
    <2> QED BY <2>1, <2>2 DEF ClaimedBy, WorkflowStates
  <1> HIDE DEF next
  <1>3. EffectInv' /\ OnceStep
    BY <1>0, <1>1, <1>2, ClaimKeeps
  <1>4. CASE CasWon(d, next) /\ Goes(d, "present", state')
    <2>1. next \in WorkflowStates
      BY <1>2 DEF Claiming
    <2>2. /\ state'.active = next.active /\ state'.phase = next.phase
          /\ state'.subject = next.subject
      BY <1>4, <2>1 DEF CasWon, WorkflowStates
    <2>3. ActiveIn(state', jobs')
      BY <1>0, <1>2, <2>2 DEF Inv, ActiveInv, ActiveIn
    <2>4. disp'[d].held = state' /\ \A e \in Dispatcher \ {d} : disp'[e] = disp[e]
      BY <1>4, After
    <2> QED BY <1>0, <1>3, <2>3, <2>4, ActiveKeeps DEF Grows
  <1>5. CASE CasLost(d) /\ Goes(d, "lost", disp[d].held)
    BY <1>0, <1>3, <1>5, ActiveMoves DEF CasLost
  <1> QED BY <1>0, <1>4, <1>5

(* The other steps of an attempt leave the state and the envelopes alone.  *)
LEMMA AttemptMoves ==
    ASSUME Inv, NEW d \in Dispatcher,
           UNCHANGED <<state, jobs, sent>>, faults' \in Nat,
           NEW at \in {"lost", "again", "recover", "report"}, NEW o \in Outcomes,
           NEW held \in {disp[d].held, state, NoState}, Moves(d, at, held, o),
           disp[d].at \in {"claim", "lost", "again", "recover", "resend"},
           o \in Proving => Exists(jobs, disp[d].subject)
    PROVE  EffectInv' /\ ActiveInv' /\ OnceStep
  <1>1. EffectInv /\ disp[d].subject \in Subject /\ held \in WorkflowStates
    BY Before, NoStateType DEF Inv
  <1>2. at \in Stages /\ at \notin Owning /\ at \notin Writing /\ at \notin Known
    BY DEF Stages, Owning, Writing, Known
  <1>3. EffectInv'
    BY <1>1, <1>2, Before, WalksTo
  <1>4. OnceStep
    BY OnceStutters DEF Agree
  <1>5. ActiveInv'
    BY ActiveMoves DEF Moves
  <1> QED BY <1>3, <1>4, <1>5

LEMMA RefuseKeeps ==
    ASSUME Inv, NEW d \in Dispatcher, Refuse(d)
    PROVE  EffectInv' /\ ActiveInv' /\ OnceStep
  <1> DEFINE o == Refusal(disp[d].held, disp[d].subject)
             at == IF o \in Found THEN "recover" ELSE "report"
  <1>1. /\ disp[d].at = "claim" /\ UNCHANGED <<state, jobs, sent, faults>> /\ faults \in Nat
        /\ disp[d].subject \in Subject /\ Moves(d, at, disp[d].held, o)
    BY Before DEF Inv, Refuse, Moves
  <1>2. o \in Outcomes /\ (o \in Proving => Durable(disp[d].held, disp[d].subject))
    BY DEF Refusal, Outcomes, Found, Proving
  <1>3. Durable(disp[d].held, disp[d].subject) => Exists(jobs, disp[d].subject)
    BY <1>1 DEF Inv, EffectInv, Holds, HeldBacked, Durable
  <1> HIDE DEF o
  <1> QED BY <1>1, <1>2, <1>3, AttemptMoves

LEMMA LostClaimKeeps ==
    ASSUME Inv, NEW d \in Dispatcher, LostClaim(d)
    PROVE  EffectInv' /\ ActiveInv' /\ OnceStep
  <1> DEFINE s == disp[d].subject
  <1>1. /\ disp[d].at = "lost" /\ UNCHANGED <<state, jobs, sent, faults>>
        /\ s \in Subject /\ disp[d].outcome \in Outcomes /\ faults \in Nat
        /\ (disp[d].outcome \in Proving => Exists(jobs, s))
    BY Before DEF Inv, LostClaim
  <1>2. "already_dispatched" \in Outcomes /\ "request_already_present" \in Outcomes
    BY DEF Outcomes, Found
  <1>3. CASE Durable(state, s)
    <2>1. Exists(jobs, s)
      BY <1>1, <1>3 DEF Inv, EffectInv, Stored, Durable
    <2>2. Moves(d, "recover", state, "already_dispatched")
      BY <1>3 DEF LostClaim, Moves
    <2> QED BY <1>1, <1>2, <2>1, <2>2, AttemptMoves
  <1>4. CASE ~Durable(state, s) /\ Request(s)
    <2>1. Moves(d, "recover", state, "request_already_present") /\ Exists(jobs, s)
      BY <1>4 DEF LostClaim, Moves, Request, Exists
    <2> QED BY <1>1, <1>2, <2>1, AttemptMoves
  <1>5. CASE ~Durable(state, s) /\ ~Request(s)
    <2>1. Moves(d, "again", state, disp[d].outcome)
      BY <1>5 DEF LostClaim, Moves
    <2> QED BY <1>1, <2>1, AttemptMoves
  <1> QED BY <1>3, <1>4, <1>5

(* A retry from the stored record, or the last one given up.               *)
LEMMA RetriesKeep ==
    ASSUME Inv, NEW d \in Dispatcher, disp[d].at \in {"again", "claim"}, Retries(d),
           UNCHANGED <<state, jobs, sent>>, faults' \in Nat
    PROVE  EffectInv' /\ ActiveInv' /\ OnceStep
  <1> DEFINE s == disp[d].subject
             p == [disp[d] EXCEPT !.at = "claim", !.held = state, !.tries = @ + 1]
  <1>1. /\ EffectInv /\ s \in Subject /\ disp[d] \in DispRecords
        /\ (disp[d].outcome \in Proving => Exists(jobs, s))
    BY Before DEF Inv
  <1>2. CASE Ends(d, "report", NoState, "claim_lost")
    <2>1. Moves(d, "report", NoState, "claim_lost") /\ "claim_lost" \in Outcomes \ Proving
      BY <1>2 DEF Moves, Outcomes, Found, Proving
    <2> QED BY <1>1, <2>1, AttemptMoves
  <1>3. CASE disp' = [disp EXCEPT ![d].at = "claim", ![d].held = state, ![d].tries = @ + 1]
    <2>1. disp[d].tries \in Nat /\ disp[d].tries + 1 \in Nat /\ state \in WorkflowStates
      BY <1>1, Before DEF DispRecords
    <2>2. p \in DispRecords /\ p.at = "claim" /\ p.held = state /\ p.subject = s
          /\ p.outcome = disp[d].outcome
      BY <1>1, <2>1 DEF DispRecords, Stages
    <2>3. disp' = [disp EXCEPT ![d] = p]
      BY <1>1, <1>3 DEF EffectInv, DispRecords
    <2> HIDE DEF p
    <2>4. Subjected(p) /\ Backed(p, jobs')
      BY <1>1, <2>2 DEF Subjected, Backed, Known
    <2>5. p.at \notin Owning
      BY <2>2 DEF Owning
    <2>6. EffectInv'
      BY <1>1, <2>2, <2>3, <2>4, <2>5, Before, Walks
    <2>7. OnceStep
      BY <1>1, OnceStutters DEF Agree
    <2>8. disp'[d].held = state /\ \A e \in Dispatcher \ {d} : disp'[e] = disp[e]
      BY <1>1, <2>2, <2>3 DEF EffectInv
    <2> QED BY <1>1, <2>6, <2>7, <2>8, ActiveKeeps DEF Grows
  <1> QED BY <1>2, <1>3 DEF Retries

LEMMA AgainKeeps ==
    ASSUME Inv, NEW d \in Dispatcher, Again(d)
    PROVE  EffectInv' /\ ActiveInv' /\ OnceStep
  <1> DEFINE s == disp[d].subject
             o == Refusal(state, s)
  <1>1. /\ disp[d].at \in {"again", "claim"} /\ UNCHANGED <<state, jobs, sent, faults>>
        /\ EffectInv /\ faults \in Nat
    BY Before DEF Inv, Again, Retrying, MayClaim
  <1>2. Durable(state, s) => Exists(jobs, s)
    BY <1>1, Before DEF EffectInv, Stored, Durable
  <1>3. Request(s) => Exists(jobs, s)
    BY DEF Request, Exists
  <1>4. o \in Outcomes /\ (o \in Proving => Durable(state, s))
    BY DEF Refusal, Outcomes, Found, Proving
  <1>5. {"already_dispatched", "request_already_present"} \subseteq Outcomes
    BY DEF Outcomes, Found
  <1>6. ASSUME NEW x \in {"already_dispatched", o, "request_already_present"},
               Ends(d, "report", state, x), x \in Proving => Exists(jobs, s)
        PROVE  EffectInv' /\ ActiveInv' /\ OnceStep
    BY <1>1, <1>4, <1>5, <1>6, AttemptMoves DEF Moves
  <1> HIDE DEF o
  <1>7. CASE Durable(state, s)
    BY <1>2, <1>6, <1>7 DEF Again
  <1>8. CASE ~Durable(state, s) /\ o # "none"
    BY <1>2, <1>4, <1>6, <1>8 DEF Again, o
  <1>9. CASE ~Durable(state, s) /\ o = "none" /\ Request(s)
    BY <1>3, <1>6, <1>9 DEF Again, o
  <1>10. CASE ~Durable(state, s) /\ o = "none" /\ ~Request(s)
    BY <1>1, <1>10, RetriesKeep DEF Again, o
  <1> QED BY <1>7, <1>8, <1>9, <1>10

LEMMA RecoverKeeps ==
    ASSUME Inv, NEW d \in Dispatcher, Recover(d)
    PROVE  EffectInv' /\ ActiveInv' /\ OnceStep
  <1> DEFINE s == disp[d].subject
             p == [disp[d] EXCEPT !.at = "reopen", !.job = jobs[s]]
  <1>1. /\ disp[d].at = "recover" /\ UNCHANGED <<state, jobs, sent, faults>>
        /\ EffectInv /\ s \in Subject /\ disp[d].outcome \in Outcomes /\ disp[d] \in DispRecords
        /\ (disp[d].outcome \in Proving => Exists(jobs, s))
        /\ jobs[s] \in Envelopes /\ faults \in Nat
    BY Before DEF Inv, Recover
  <1>2. CASE Goes(d, "report", disp[d].held)
    <2>1. Moves(d, "report", disp[d].held, disp[d].outcome)
      BY <1>2 DEF Moves
    <2> QED BY <1>1, <2>1, AttemptMoves
  <1>3. CASE /\ FalseDuplicate(jobs[s])
             /\ disp' = [disp EXCEPT ![d].at = "reopen", ![d].job = jobs[s]]
    <2>1. p \in DispRecords /\ p.at = "reopen" /\ p.held = disp[d].held /\ p.subject = s
          /\ p.outcome = disp[d].outcome
      BY <1>1 DEF DispRecords, Stages
    <2>2. disp' = [disp EXCEPT ![d] = p]
      BY <1>1, <1>3 DEF EffectInv, DispRecords
    <2>3. Exists(jobs, s)
      BY <1>3 DEF FalseDuplicate, Terminal, Exists
    <2> HIDE DEF p
    <2>4. Subjected(p) /\ Backed(p, jobs')
      BY <1>1, <2>1, <2>3 DEF Subjected, Backed
    <2>5. p.at \notin Owning /\ p.at \notin Writing
      BY <2>1 DEF Owning, Writing
    <2>6. EffectInv'
      BY <1>1, <2>1, <2>2, <2>4, <2>5, Before, Walks
    <2>7. OnceStep
      BY <1>1, OnceStutters DEF Agree
    <2>8. disp'[d].held = disp[d].held /\ \A e \in Dispatcher \ {d} : disp'[e] = disp[e]
      BY <1>1, <2>1, <2>2 DEF EffectInv
    <2> QED BY <1>1, <2>6, <2>7, <2>8, ActiveKeeps DEF Grows
  <1> QED BY <1>2, <1>3 DEF Recover

(* Handoff's write of its comment: by LateInv it changes no effect but its *)
(* own claim, which it may turn into a dispatched one.                     *)
LEMMA ReportWrites ==
    ASSUME Inv, NEW d \in Dispatcher, disp[d].at = "report", CasWon(d, disp[d].held), Stops(d),
           UNCHANGED <<jobs, sent, faults>>
    PROVE  EffectInv' /\ ActiveInv' /\ OnceStep
  <1> DEFINE p == [Idle EXCEPT !.at = "done"]
             h == disp[d].held
             s == disp[d].subject
  <1>1. /\ EffectInv /\ h \in WorkflowStates /\ state \in WorkflowStates
        /\ jobs \in [Subject -> Envelopes] /\ sent \in [Subject -> Nat] /\ faults \in Nat
        /\ h.rev = state.rev /\ state.rev \in Nat
    BY Before DEF Inv, CasWon, WorkflowStates
  <1>2. /\ state' \in WorkflowStates /\ state'.rev = state.rev + 1 /\ state'.rev > state.rev
        /\ state'.effect = h.effect /\ state'.active = h.active
        /\ state'.phase = h.phase /\ state'.subject = h.subject
    BY <1>1 DEF CasWon, WorkflowStates
  <1>3. p \in DispRecords /\ p.at = "done" /\ p.held = NoState /\ p.outcome = "none"
    BY IdleType DEF Idle, DispRecords, Stages
  <1>4. disp' = [disp EXCEPT ![d] = p]
    BY DEF Stops
  <1> HIDE DEF p, h
  <1>5. Holds(d, p, state', jobs')
    BY <1>3, NoStateType DEF Holds, Subjected, Backed, HeldBacked, Owns, Fresh, Known, Owning,
       Writing, Proving, Found
  <1>6. \A t \in Subject : h.effect[t].status = "dispatched" => Exists(jobs, t)
    BY <1>1 DEF EffectInv, Holds, HeldBacked, h
  <1>7. \A t \in Subject :
           \/ Agree(h.effect[t], state.effect[t])
           \/ /\ t = s /\ h.effect[t].status = "dispatched"
              /\ state.effect[t] = [status |-> "dispatching", owner |-> d]
    BY <1>1 DEF Inv, LateInv, Late, Leaving, h
  <1>8. ActiveInv'
    <2>1. disp'[d].held = NoState /\ \A e \in Dispatcher \ {d} : disp'[e] = disp[e]
      BY <1>1, <1>3, <1>4 DEF EffectInv
    <2>2. ActiveIn(state', jobs')
      BY <1>2 DEF Inv, ActiveInv, ActiveIn, h
    <2> QED BY <2>1, <2>2, ActiveKeeps DEF Grows
  <1>9. CASE \A t \in Subject : Agree(h.effect[t], state.effect[t])
    <2>1. \A t \in Subject : Agree(state'.effect[t], state.effect[t])
      BY <1>2, <1>9
    <2>2. Unowned(0, d) /\ 0 \notin Subject
      BY <1>1, NoSubjectUnowned
    <2>3. EffectInv'
      BY <1>1, <1>2, <1>4, <1>5, <2>1, <2>2, StepKeeps
    <2>4. OnceStep
      BY <2>1, OnceStutters
    <2> QED BY <1>8, <2>3, <2>4
  <1>10. CASE ~\A t \in Subject : Agree(h.effect[t], state.effect[t])
    <2>1. /\ s \in Subject /\ h.effect[s].status = "dispatched"
          /\ state.effect[s] = [status |-> "dispatching", owner |-> d]
          /\ \A t \in Subject \ {s} : Agree(h.effect[t], state.effect[t])
      BY <1>7, <1>10
    <2>2. Unowned(s, d)
      <3> SUFFICES ASSUME NEW e \in Dispatcher \ {d}, disp[e].at \in Owning, disp[e].subject = s
                   PROVE  FALSE
        BY DEF Unowned
      <3>1. state.effect[s] = [status |-> "dispatching", owner |-> e]
        BY <1>1, OwnerAlone
      <3>2. [status |-> "dispatching", owner |-> d] # [status |-> "dispatching", owner |-> e]
        OBVIOUS
      <3> QED BY <2>1, <3>1, <3>2
    <2>3. Exists(jobs, s) /\ state'.effect[s].status = "dispatched"
          /\ \A t \in Subject \ {s} : Agree(state'.effect[t], state.effect[t])
      BY <1>2, <1>6, <2>1
    <2>4. EffectInv'
      BY <1>1, <1>2, <1>4, <1>5, <2>2, <2>3, StepKeeps
    <2>5. OnceStep
      BY <2>1, <2>3, OnceRecords
    <2> QED BY <1>8, <2>4, <2>5
  <1> QED BY <1>9, <1>10

LEMMA ReportKeeps ==
    ASSUME Inv, NEW d \in Dispatcher, Report(d)
    PROVE  EffectInv' /\ ActiveInv' /\ OnceStep
  <1>1. /\ disp[d].at = "report" /\ Stops(d) /\ UNCHANGED <<jobs, sent, faults>>
        /\ EffectInv /\ faults \in Nat
    BY Before DEF Report, Inv
  <1>2. CASE CasWon(d, disp[d].held)
    BY <1>1, <1>2, ReportWrites
  <1>3. CASE state' = state
    BY <1>1, <1>3, StopKeeps, StopActive
  <1> QED BY <1>2, <1>3 DEF Report, Announce, Conclude, CasLost

LEMMA AttemptKeeps ==
    ASSUME Inv, NEW d \in Dispatcher, Attempt(d)
    PROVE  EffectInv' /\ ActiveInv' /\ OnceStep
  BY RefuseKeeps, AttemptClaims, LostClaimKeeps, AgainKeeps, RecoverKeeps, ReportKeeps DEF Attempt

LEMMA FailureKeeps ==
    ASSUME Inv, NEW d \in Dispatcher, Failure(d)
    PROVE  EffectInv' /\ ActiveInv' /\ OnceStep
  <1>0. EffectInv
    BY DEF Inv
  <1>1. CASE Misread(d)
    BY <1>0, <1>1, MisreadKeeps, ActiveMoves DEF Misread
  <1>2. CASE NoToken(d)
    BY <1>0, <1>2, NoTokenKeeps, ActiveMoves DEF NoToken
  <1>3. CASE Crash(d)
    <2>1. faults' \in Nat
      BY <1>0, <1>3, Before DEF Crash, Fault
    <2> QED BY <1>0, <1>3, <2>1, StopKeeps, StopActive DEF Crash
  <1>4. CASE Throw(d)
    BY <1>0, <1>4, ThrowKeeps, ActiveMoves DEF Throw
  <1>5. CASE MissedRequest(d)
    <2>1. /\ disp[d].at \in {"lost", "again", "claim"} /\ UNCHANGED <<state, jobs, sent>>
          /\ faults' \in Nat
      BY <1>0, <1>5, Before DEF MissedRequest, Retrying, MayClaim, Fault
    <2>2. CASE disp[d].at \in {"again", "claim"} /\ Retries(d)
      BY <2>1, <2>2, RetriesKeep
    <2>3. CASE Goes(d, "again", state)
      <3>1. Moves(d, "again", state, disp[d].outcome) /\ disp[d].outcome \in Outcomes
            /\ (disp[d].outcome \in Proving => Exists(jobs, disp[d].subject))
        BY <1>0, <2>3, Before DEF Moves
      <3> QED BY <2>1, <3>1, AttemptMoves
    <2> QED BY <1>5, <2>2, <2>3 DEF MissedRequest, Retrying, MayClaim
  <1>6. CASE NoTokenLeft(d)
    <2>1. /\ disp[d].at = "resend" /\ UNCHANGED <<state, jobs, sent>> /\ faults' \in Nat
          /\ Moves(d, "report", NoState, "missing_dispatch_token")
          /\ "missing_dispatch_token" \in Outcomes \ Proving
      BY <1>0, <1>6, Before DEF NoTokenLeft, Fault, Moves, Outcomes, Proving, Found
    <2> QED BY <2>1, AttemptMoves
  <1> QED BY <1>1, <1>2, <1>3, <1>4, <1>5, <1>6 DEF Failure

(* What every step leaves a dispatcher with when it leaves.                *)
LEMMA ProtocolLate ==
    ASSUME Inv, NEW d \in Dispatcher, Protocol(d)
    PROVE  LateInv'
  <1> DEFINE s == disp[d].subject
             marked == Dispatched(disp[d].held, s)
             patched == Patched(disp[d].held, s, "dispatched")
             blocked == Patched(disp[d].held, s, "blocked")
             next == IF disp[d].outcome \in Found THEN "recover" ELSE "report"
  <1>0. /\ EffectInv /\ disp[d] \in DispRecords /\ disp[d].held \in WorkflowStates
        /\ disp = [e \in Dispatcher |-> disp[e]] /\ disp[d].held.rev \in Nat
        /\ state.rev \in Nat
        /\ {"dispatched", "blocked"} \subseteq EffectStatuses
    BY Before DEF Inv, EffectInv, WorkflowStates, EffectStatuses
  <1> HIDE DEF marked, patched, blocked, next
  <1>1. CASE Present(d)
    BY <1>1, LateMoves DEF Present, Leaving, Rises
  <1>2. CASE Block(d)
    <2>1. blocked \in WorkflowStates /\ blocked.rev = disp[d].held.rev
      <3>1. s \in Subject /\ "blocked" \in EffectStatuses
        BY <1>0, <1>2, Before DEF Block
      <3> QED BY <1>0, <3>1, StateTypes DEF blocked
    <2>2. Rises
      BY <1>2, <2>1, Risen DEF Block, CasLost, Rises, blocked
    <2> QED BY <1>2, <2>2, LateMoves DEF Block
  <1>3. CASE Create(d)
    BY <1>3, LateMoves DEF Create, Leaving, Rises
  <1>4. CASE Send(d)
    BY <1>4, LateMoves DEF Send, Leaving, Rises
  <1>5. CASE Repair(d)
    BY <1>5, LateMoves DEF Repair, Leaving, Rises
  <1>6. CASE Reopen(d)
    <2>1. /\ disp'[d].held = disp[d].held /\ disp'[d].subject = s /\ disp'[d].at = "resend"
          /\ \A e \in Dispatcher \ {d} : disp'[e] = disp[e]
      BY <1>0, <1>6 DEF Reopen, DispRecords
    <2>2. Late(d, disp[d], state) /\ disp[d].at = "reopen" /\ state' = state
      BY <1>6 DEF Inv, LateInv, Reopen
    <2>3. Late(d, disp'[d], state')
      BY <2>1, <2>2 DEF Late, Leaving
    <2> QED BY <2>1, <2>2, <2>3, LateKeeps DEF Rises
  <1>7. ASSUME disp[d].at \in {"mark", "repairMark"}, NEW at \in Leaving, NEW o,
               NEW held \in {marked, patched}, state' = state,
               Goes(d, at, held) \/ Ends(d, at, held, o)
        PROVE  LateInv'
    <2>1. s \in Subject /\ Marked(d, marked)
      BY <1>7, DispatchedMarks DEF marked
    <2>2. Marked(d, patched)
      BY <1>0, <2>1, StateTypes DEF Marked, patched
    <2>3. /\ held.rev = disp[d].held.rev /\ held.effect[s].status = "dispatched"
          /\ \A t \in Subject \ {s} : held.effect[t] = disp[d].held.effect[t]
      BY <1>7, <2>1, <2>2 DEF Marked
    <2>4. /\ state.effect[s] = [status |-> "dispatching", owner |-> d]
          /\ Fresh(disp[d], state) /\ disp[d].at \in Writing
      BY <1>0, <1>7, OwnerAlone DEF Owning, Writing, EffectInv, Holds
    <2>5. /\ disp'[d].held = held /\ disp'[d].subject = s
          /\ \A e \in Dispatcher \ {d} : disp'[e] = disp[e]
      <3>1. CASE Goes(d, at, held)
        BY <1>0, <3>1 DEF Goes, DispRecords
      <3>2. CASE Ends(d, at, held, o)
        BY <1>0, <3>2 DEF Ends, DispRecords
      <3> QED BY <1>7, <3>1, <3>2
    <2>6. Late(d, disp'[d], state')
      BY <1>7, <2>3, <2>4, <2>5 DEF Late, Fresh
    <2> QED BY <1>7, <2>5, <2>6, LateKeeps DEF Rises
  <1>8. CASE Mark(d, marked, next)
    <2>1. disp[d].at = "mark" /\ next \in Leaving /\ "repair" \notin Leaving
      BY <1>8 DEF Mark, Leaving, next
    <2>2. CASE CasWon(d, marked) /\ Goes(d, next, state')
      <3>1. marked \in WorkflowStates /\ marked.rev = disp[d].held.rev
        BY <2>1, DispatchedMarks DEF Marked, marked
      <3> QED BY <2>2, <3>1, Risen, LateMoves
    <2>3. CASE CasLost(d) /\ Goes(d, next, marked)
      BY <1>7, <2>1, <2>3 DEF CasLost
    <2>4. CASE CasLost(d) /\ Goes(d, "repair", disp[d].held)
      BY <2>1, <2>4, LateMoves DEF CasLost, Rises
    <2> QED BY <1>8, <2>2, <2>3, <2>4 DEF Mark
  <1>9. CASE RepairMark(d, marked, "recover")
    <2>1. disp[d].at = "repairMark" /\ "recover" \in Leaving
      BY <1>9 DEF RepairMark, Leaving
    <2>2. CASE CasWon(d, marked) /\ Ends(d, "recover", state', "request_already_present")
      <3>1. marked \in WorkflowStates /\ marked.rev = disp[d].held.rev
        BY <2>1, DispatchedMarks DEF Marked, marked
      <3> QED BY <2>2, <3>1, Risen, LateMoves
    <2>3. CASE CasLost(d) /\ Ends(d, "recover", patched, "request_already_present")
      BY <1>7, <2>1, <2>3 DEF CasLost
    <2> QED BY <1>9, <2>2, <2>3 DEF RepairMark, patched
  <1>10. CASE Resend(d, "false_duplicate_recovered")
    BY <1>10, LateMoves DEF Resend, Leaving, Rises
  <1> QED BY <1>1, <1>2, <1>3, <1>4, <1>5, <1>6, <1>8, <1>9, <1>10 DEF Protocol, marked, next

(* A dispatcher that starts, stops or retries.                             *)
LEMMA LateSets ==
    ASSUME Inv, NEW d \in Dispatcher, NEW p, disp' = [disp EXCEPT ![d] = p], Rises,
           p.at \in Leaving => p.held = state'
    PROVE  LateInv'
  <1>1. disp'[d] = p /\ \A e \in Dispatcher \ {d} : disp'[e] = disp[e]
    BY DEF Inv, EffectInv
  <1>2. state'.rev \in Nat
    BY Before DEF Inv, WorkflowStates, Rises
  <1>3. Late(d, disp'[d], state')
    BY <1>1, <1>2 DEF Late, Agree
  <1> QED BY <1>1, <1>3, LateKeeps

LEMMA DispatchLate ==
    ASSUME Inv, NEW d \in Dispatcher, Started(d) \/ Dispatch(d) \/ Failure(d)
    PROVE  LateInv'
  <1>0. /\ EffectInv /\ disp[d] \in DispRecords /\ disp[d].held \in WorkflowStates
        /\ disp = [e \in Dispatcher |-> disp[e]] /\ disp[d].held.rev \in Nat
        /\ state \in WorkflowStates /\ state.rev \in Nat /\ NoState \in WorkflowStates
    BY Before, NoStateType DEF Inv, EffectInv, WorkflowStates
  <1>1. Stops(d) /\ Rises => LateInv'
    <2>1. [Idle EXCEPT !.at = "done"].at = "done"
      BY DEF Idle
    <2> QED BY <2>1, LateSets DEF Stops, Leaving
  <1>2. Retries(d) /\ Rises => LateInv'
    <2> DEFINE p == [disp[d] EXCEPT !.at = "claim", !.held = state, !.tries = @ + 1]
    <2>1. p.at = "claim"
      BY <1>0 DEF DispRecords
    <2>2. ASSUME Rises, disp' = [disp EXCEPT ![d].at = "claim", ![d].held = state, ![d].tries = @ + 1]
          PROVE  LateInv'
      <3>1. disp' = [disp EXCEPT ![d] = p]
        BY <1>0, <2>2 DEF DispRecords
      <3> HIDE DEF p
      <3> QED BY <2>1, <2>2, <3>1, LateSets DEF Leaving
    <2>3. Rises /\ Ends(d, "report", NoState, "claim_lost") => LateInv'
      BY LateMoves
    <2> QED BY <2>2, <2>3 DEF Retries
  <1>3. CASE HandoffStart(d)
    <2> DEFINE p == Starting("claim", "phase", 1, state')
    <2>1. p.at = "claim"
      BY DEF Starting, Idle
    <2>2. disp' = [disp EXCEPT ![d] = p]
      BY <1>3 DEF HandoffStart
    <2>3. Rises
      <3>1. state'.rev = state.rev + 1
        BY <1>0, <1>3 DEF HandoffStart, WorkflowStates
      <3> QED BY <1>0, <3>1 DEF Rises
    <2> HIDE DEF p
    <2> QED BY <2>1, <2>2, <2>3, LateSets DEF Leaving
  <1>4. CASE ReconcileStart(d) \/ PinStart(d)
    <2>1. \A at, mode, s : /\ Starting(at, mode, s, state).held = state
                         /\ [Starting(at, mode, s, state) EXCEPT !.outcome = "already_dispatched"].held
                              = state
      BY DEF Starting, Idle
    <2>2. state' = state
      BY <1>4 DEF ReconcileStart, PinStart
    <2>3. ASSUME NEW p, disp' = [disp EXCEPT ![d] = p], p.held = state PROVE LateInv'
      BY <2>2, <2>3, LateSets DEF Rises
    <2>4. CASE ReconcileStart(d)
      BY <2>1, <2>3, <2>4 DEF ReconcileStart
    <2>5. CASE PinStart(d)
      <3>1. PICK s \in {state.subject} \union ({state.active} \ {0}) :
               disp' = [disp EXCEPT ![d] =
                  IF Durable(state, s)
                    THEN [Starting("recover", "pass", s, state) EXCEPT !.outcome = "already_dispatched"]
                    ELSE Starting("claim", "pass", s, state)]
        BY <2>5 DEF PinStart
      <3>2. CASE Durable(state, s)
        BY <2>1, <2>3, <3>1, <3>2
      <3>3. CASE ~Durable(state, s)
        BY <2>1, <2>3, <3>1, <3>3
      <3> QED BY <3>2, <3>3
    <2> QED BY <1>4, <2>4, <2>5
  <1>5. CASE Refuse(d)
    BY <1>5, LateMoves DEF Refuse, Rises, Writing
  <1>6. CASE Claim(d)
    <2> DEFINE next == ClaimedBy(disp[d].held, disp[d].subject, d)
    <2>1. disp[d].subject \in Subject
      BY <1>0, <1>6, Before DEF Claim, MayClaim
    <2>2. next \in WorkflowStates /\ next.rev = disp[d].held.rev
      BY <1>0, <2>1, StateTypes
    <2>3. Rises
      BY <1>6, <2>2, Risen DEF Claim, CasLost, Rises
    <2> QED BY <1>6, <2>3, LateMoves DEF Claim, Leaving
  <1>7. CASE LostClaim(d)
    BY <1>7, LateMoves DEF LostClaim, Rises
  <1>8. CASE Again(d)
    BY <1>2, <1>8, LateMoves DEF Again, Rises
  <1>9. CASE Recover(d)
    <2>1. CASE Goes(d, "report", disp[d].held)
      BY <1>9, <2>1, LateMoves DEF Recover, Leaving, Rises
    <2>2. CASE disp' = [disp EXCEPT ![d].at = "reopen", ![d].job = jobs[disp[d].subject]]
      <3>1. /\ disp'[d].held = disp[d].held /\ disp'[d].subject = disp[d].subject
            /\ \A e \in Dispatcher \ {d} : disp'[e] = disp[e]
        BY <1>0, <2>2 DEF DispRecords
      <3>2. Late(d, disp[d], state) /\ disp[d].at = "recover" /\ state' = state
        BY <1>9 DEF Inv, LateInv, Recover
      <3>3. Late(d, disp'[d], state')
        BY <3>1, <3>2 DEF Late, Leaving
      <3> QED BY <3>1, <3>2, <3>3, LateKeeps DEF Rises
    <2> QED BY <1>9, <2>1, <2>2 DEF Recover
  <1>10. CASE Report(d)
    <2>1. Rises
      BY <1>0, <1>10, Risen DEF Report, Announce, Conclude, CasLost, Rises
    <2> QED BY <1>1, <1>10, <2>1 DEF Report
  <1>11. CASE Protocol(d)
    BY <1>11, ProtocolLate
  <1>12. CASE Misread(d)
    BY <1>12, LateMoves DEF Misread, Leaving, Rises
  <1>13. CASE NoToken(d)
    BY <1>13, LateMoves DEF NoToken, Leaving, Rises
  <1>14. CASE Crash(d)
    BY <1>1, <1>14 DEF Crash, Rises
  <1>15. CASE Throw(d)
    BY <1>15, LateMoves DEF Throw, Leaving, Rises
  <1>16. CASE MissedRequest(d)
    BY <1>2, <1>16, LateMoves DEF MissedRequest, Leaving, Rises
  <1>17. CASE NoTokenLeft(d)
    BY <1>17, LateMoves DEF NoTokenLeft, Rises
  <1> QED BY <1>3, <1>4, <1>5, <1>6, <1>7, <1>8, <1>9, <1>10, <1>11, <1>12, <1>13, <1>14, <1>15,
             <1>16, <1>17 DEF Started, Dispatch, Attempt, Failure

----------------------------------------------------------------------------
(* The reviewers and the other actions change no effect and no dispatcher, *)
(* and an envelope that exists stays.                                      *)
LEMMA Quiet ==
    ASSUME Inv, disp' = disp, sent' \in [Subject -> Nat], faults' = faults,
           jobs' \in [Subject -> Envelopes],
           \A t \in Subject : Exists(jobs', t) <=> Exists(jobs, t),
           \/ state' = state
           \/ /\ state' \in WorkflowStates /\ state'.rev > state.rev
              /\ state'.effect = state.effect /\ state'.active = state.active
              /\ state'.phase = "code_review" => state'.subject # 0
    PROVE  EffectInv' /\ ActiveInv' /\ LateInv' /\ OnceStep
  <1>1. EffectInv /\ state \in WorkflowStates /\ faults \in Nat
    BY Before DEF Inv, EffectInv, Stored
  <1>2. EffectInv' /\ OnceStep
    BY <1>1, QuietKeeps
  <1>3. ActiveInv'
    BY DEF Inv, ActiveInv, ActiveIn
  <1>4. LateInv'
    <2>1. state.rev \in Nat /\ state'.rev \in Nat /\ \A d \in Dispatcher : disp[d].held.rev \in Nat
      BY <1>1, Before DEF WorkflowStates
    <2> QED BY <2>1 DEF Inv, LateInv, Late
  <1> QED BY <1>2, <1>3, <1>4

LEMMA ReviewKeeps ==
    ASSUME Inv, NEW r \in Run, Review(r)
    PROVE  EffectInv' /\ ActiveInv' /\ LateInv' /\ OnceStep
  <1>0. /\ EffectInv /\ state \in WorkflowStates /\ jobs \in [Subject -> Envelopes]
        /\ sent \in [Subject -> Nat] /\ runs[r] \in RunRecords
        /\ state.rev \in Nat /\ state.rev + 1 \in Nat /\ state.rev + 1 > state.rev
    BY DEF Inv, EffectInv, Stored, ReviewTypes, WorkflowStates
  <1>1. CASE StartRun(r)
    <2>1. PICK s \in Subject :
             /\ sent[s] > 0 /\ sent' = [sent EXCEPT ![s] = @ - 1]
             /\ jobs' = [jobs EXCEPT ![s] = Taking(s, r)]
      BY <1>1 DEF StartRun
    <2>2. sent' \in [Subject -> Nat]
      BY <1>0, <2>1
    <2>3. jobs' \in [Subject -> Envelopes] /\ \A t \in Subject : Exists(jobs', t) <=> Exists(jobs, t)
      BY <1>0, <2>1, RunEnvelopes DEF Exists
    <2> QED BY <1>1, <2>2, <2>3, Quiet DEF StartRun
  <1>2. CASE StartOther(r)
    BY <1>0, <1>2, Quiet DEF StartOther
  <1>3. CASE RunElsewhere(r)
    BY <1>0, <1>3, Quiet DEF RunElsewhere
  <1>4. CASE RunPhase(r)
    <2>1. CASE UNCHANGED state
      BY <1>0, <1>4, <2>1, Quiet DEF RunPhase
    <2>2. CASE state' = [state EXCEPT !.rev = @ + 1, !.lease = state.subject, !.phase = "pm_review"]
      <3>1. "pm_review" \in Phases
        BY DEF Phases
      <3>2. /\ state' \in WorkflowStates /\ state'.rev = state.rev + 1
            /\ state'.effect = state.effect /\ state'.active = state.active
            /\ state'.phase = "pm_review"
        BY <1>0, <2>2, <3>1 DEF WorkflowStates
      <3> QED BY <1>0, <1>4, <3>2, Quiet DEF RunPhase
    <2> QED BY <1>4, <2>1, <2>2 DEF RunPhase
  <1>5. CASE RunAgent(r)
    <2>1. CASE UNCHANGED state
      BY <1>0, <1>5, <2>1, Quiet DEF RunAgent
    <2>2. ASSUME NEW phase \in {"pm_review", "code_revision"},
                 state' = [state EXCEPT !.rev = @ + 1, !.lease = 0, !.phase = phase,
                                        !.decided = runs[r].subject]
          PROVE  EffectInv' /\ ActiveInv' /\ LateInv' /\ OnceStep
      <3>1. phase \in Phases /\ runs[r].subject \in 0..MaxSubject /\ 0 \in 0..MaxSubject
        BY <1>0, BoundsAssumption DEF Phases, RunRecords
      <3>2. /\ state' \in WorkflowStates /\ state'.rev = state.rev + 1
            /\ state'.effect = state.effect /\ state'.active = state.active
            /\ state'.phase = phase
        BY <1>0, <2>2, <3>1 DEF WorkflowStates
      <3> QED BY <1>0, <1>5, <3>2, Quiet DEF RunAgent
    <2> QED BY <1>5, <2>1, <2>2 DEF RunAgent
  <1>6. CASE RunEnd(r)
    <2>1. runs[r].result \in Completions
      BY <1>0 DEF RunRecords
    <2>2. jobs' = [s \in Subject |-> IF s = runs[r].job THEN Finished(s, r, runs[r].result)
                                                         ELSE jobs[s]]
      BY <1>6 DEF RunEnd
    <2>3. jobs' \in [Subject -> Envelopes] /\ \A t \in Subject : Exists(jobs', t) <=> Exists(jobs, t)
      BY <1>0, <2>1, <2>2, RunEnvelopes DEF Exists
    <2> QED BY <1>0, <1>6, <2>3, Quiet DEF RunEnd
  <1> QED BY <1>1, <1>2, <1>3, <1>4, <1>5, <1>6 DEF Review

LEMMA ReviseKeeps ==
    ASSUME Inv, Revise
    PROVE  EffectInv' /\ ActiveInv' /\ LateInv' /\ OnceStep
  <1>0. /\ state \in WorkflowStates /\ jobs \in [Subject -> Envelopes]
        /\ sent \in [Subject -> Nat]
        /\ state.rev \in Nat /\ state.rev + 1 \in Nat /\ state.rev + 1 > state.rev
    BY DEF Inv, EffectInv, Stored, WorkflowStates
  <1>1. state.subject + 1 \in 0..MaxSubject /\ state.subject + 1 # 0 /\ "code_review" \in Phases
    <2>1. state.subject \in 0..MaxSubject /\ state.subject < MaxSubject /\ MaxSubject \in Nat
      BY <1>0, BoundsAssumption DEF Revise, WorkflowStates
    <2> QED BY <2>1 DEF Phases
  <1>2. /\ state' \in WorkflowStates /\ state'.rev = state.rev + 1
        /\ state'.effect = state.effect /\ state'.active = state.active
        /\ state'.subject = state.subject + 1
    BY <1>0, <1>1 DEF Revise, WorkflowStates
  <1> QED BY <1>0, <1>1, <1>2, Quiet DEF Revise

----------------------------------------------------------------------------
(* The types of the rest.                                                  *)
LEMMA DispatchTypes ==
    ASSUME Inv, NEW d \in Dispatcher, Started(d) \/ Dispatch(d) \/ Failure(d)
    PROVE  ReviewTypes'
  <1>1. CASE Report(d)
    <2>1. disp[d].subject \in 0..MaxSubject
      BY Before DEF Inv, DispRecords
    <2>2. linear' \in Statuses
      BY <1>1 DEF Report, Announce, Conclude, Inv, ReviewTypes, Statuses
    <2>3. announced' \union served' \union lapsed' \subseteq 0..MaxSubject
      BY <1>1, <2>1 DEF Report, Announce, Conclude, Inv, ReviewTypes, reviewVars
    <2> QED BY <1>1, <2>2, <2>3 DEF Report, Inv, ReviewTypes, reviewVars
  <1>2. CASE UNCHANGED <<linear, announced, reviewVars>>
    BY <1>2 DEF Inv, ReviewTypes, reviewVars
  <1>3. \/ Report(d) \/ UNCHANGED <<linear, announced, reviewVars>>
    BY DEF Started, HandoffStart, ReconcileStart, PinStart, Dispatch, Attempt, Refuse, Claim,
           LostClaim, Again, Recover, Protocol, Failure
  <1> QED BY <1>1, <1>2, <1>3

LEMMA NoRunYetType == NoRunYet \in RunRecords
  BY BoundsAssumption DEF NoRunYet, RunRecords, Completions

LEMMA ReviewerTypes ==
    ASSUME Inv, NEW r \in Run, Review(r)
    PROVE  ReviewTypes'
  <1>0. /\ state \in WorkflowStates /\ runs \in [Run -> RunRecords] /\ linear \in Statuses
        /\ announced \union served \union lapsed \subseteq 0..MaxSubject
        /\ state.subject \in 0..MaxSubject
    BY DEF Inv, EffectInv, Stored, ReviewTypes, WorkflowStates
  <1>1. ASSUME NEW x \in RunRecords, runs' = [runs EXCEPT ![r] = x], linear' \in Statuses,
               announced' \union served' \union lapsed' \subseteq 0..MaxSubject
        PROVE  ReviewTypes'
    BY <1>0, <1>1 DEF ReviewTypes
  <1>2. {"verified_complete", "duplicate_phase_completed", "run_failed"} \subseteq Completions
    BY DEF Completions, RetryableCompletions, FalseDuplicateCompletions
  <1>3. ASSUME NEW result \in Completions
        PROVE  [runs EXCEPT ![r].at = "end", ![r].result = result] \in [Run -> RunRecords]
    BY <1>0 DEF RunRecords
  <1>4. [runs EXCEPT ![r].at = "agent", ![r].subject = state.subject] \in [Run -> RunRecords]
    BY <1>0 DEF RunRecords
  <1>5. CASE StartRun(r)
    <2>1. PICK s \in Subject :
             /\ runs' = [runs EXCEPT ![r] =
                   [NoRunYet EXCEPT !.at = IF TurnedAway(s) THEN "done" ELSE "phase", !.job = s]]
             /\ served' = served \union {s}
      BY <1>5 DEF StartRun
    <2> DEFINE x == [NoRunYet EXCEPT !.at = IF TurnedAway(s) THEN "done" ELSE "phase", !.job = s]
    <2>2. s \in 0..MaxSubject
      BY SubjectRange
    <2>3. x \in RunRecords
      BY <2>2, NoRunYetType DEF RunRecords
    <2> QED BY <1>0, <1>1, <1>5, <2>1, <2>2, <2>3 DEF StartRun
  <1>6. CASE StartOther(r)
    <2>1. [NoRunYet EXCEPT !.at = "phase"] \in RunRecords
      BY NoRunYetType DEF RunRecords
    <2> QED BY <1>0, <1>1, <1>6, <2>1 DEF StartOther
  <1>7. CASE RunElsewhere(r)
    <2>1. [NoRunYet EXCEPT !.at = "done"] \in RunRecords
      BY NoRunYetType DEF RunRecords
    <2>2. runs' \in [Run -> RunRecords]
      BY <1>0, <1>2, <1>7, <1>3, <2>1 DEF RunElsewhere
    <2> QED BY <1>0, <1>7, <2>2 DEF RunElsewhere, ReviewTypes
  <1>8. CASE RunPhase(r)
    <2>1. runs' \in [Run -> RunRecords]
      BY <1>2, <1>8, <1>3, <1>4 DEF RunPhase
    <2> QED BY <1>0, <1>8, <2>1 DEF RunPhase, ReviewTypes
  <1>9. CASE RunAgent(r)
    <2>0. \E result \in {"verified_complete", "run_failed"} :
             runs' = [runs EXCEPT ![r].at = "end", ![r].result = result]
      BY <1>9 DEF RunAgent
    <2>1. runs' \in [Run -> RunRecords]
      BY <1>2, <1>3, <2>0
    <2>2. linear' \in Statuses
      BY <1>0, <1>9 DEF RunAgent, Statuses
    <2> QED BY <1>0, <1>9, <2>1, <2>2 DEF RunAgent, ReviewTypes
  <1>10. CASE RunEnd(r)
    <2>1. [NoRunYet EXCEPT !.at = "done"] \in RunRecords
      BY NoRunYetType DEF RunRecords
    <2> QED BY <1>0, <1>1, <1>10, <2>1 DEF RunEnd
  <1> QED BY <1>5, <1>6, <1>7, <1>8, <1>9, <1>10 DEF Review

----------------------------------------------------------------------------
LEMMA InitInv == Init => Inv /\ Once!Init
  <1> SUFFICES ASSUME Init PROVE Inv /\ Once!Init
    OBVIOUS
  <1>1. /\ state = [NoState EXCEPT !.rev = 1, !.phase = "handoff"]
        /\ NoState \in WorkflowStates /\ NoState.active = 0
    BY NoStateType DEF Init
  <1>2. state \in WorkflowStates /\ state.effect = NoState.effect /\ state.active = 0
        /\ state.phase = "handoff"
    BY <1>1 DEF WorkflowStates, Phases
  <1>3. EffectInv /\ Once!Init
    BY <1>2, InitGives DEF Init
  <1>4. ReviewTypes
    BY NoRunYetType DEF Init, ReviewTypes, Statuses
  <1>5. \A d \in Dispatcher : disp[d].held = NoState
    BY DEF Init, EffectInit, Idle
  <1>6. ActiveInv
    BY <1>1, <1>2, <1>5, SubjectRange DEF ActiveInv, ActiveIn, NoState
  <1>7. LateInv
    <2>1. state.rev = 1 /\ \A d \in Dispatcher : disp[d].at = "idle"
      BY <1>1 DEF Init, EffectInit, Idle, NoState
    <2> QED BY <2>1 DEF LateInv, Late, Leaving
  <1> QED BY <1>3, <1>4, <1>6, <1>7 DEF Inv

LEMMA NextInv == Inv /\ [Next]_vars => Inv' /\ OnceStep
  <1> SUFFICES ASSUME Inv, [Next]_vars PROVE Inv' /\ OnceStep
    OBVIOUS
  <1>1. ASSUME NEW d \in Dispatcher, Started(d) \/ Dispatch(d) \/ Failure(d)
        PROVE  Inv' /\ OnceStep
    <2>1. EffectInv' /\ ActiveInv' /\ OnceStep
      BY <1>1, HandoffStartKeeps, PassStartKeeps, AttemptKeeps, ProtocolKeeps, FailureKeeps
         DEF Started, Dispatch
    <2> QED BY <1>1, <2>1, DispatchLate, DispatchTypes DEF Inv
  <1>2. ASSUME NEW r \in Run, Review(r) PROVE Inv' /\ OnceStep
    BY <1>2, ReviewKeeps, ReviewerTypes DEF Inv
  <1>3. CASE Revise
    <2>1. ReviewTypes'
      BY <1>3 DEF Revise, Inv, ReviewTypes, reviewVars, Statuses
    <2> QED BY <1>3, <2>1, ReviseKeeps DEF Inv
  <1>4. CASE LeaseLapses
    <2>1. EffectInv' /\ ActiveInv' /\ LateInv' /\ OnceStep
      BY <1>4, Quiet DEF LeaseLapses, effectVars, Inv, EffectInv, Stored
    <2>2. state.lease \in 0..MaxSubject
      BY DEF Inv, EffectInv, Stored, WorkflowStates
    <2>3. ReviewTypes'
      BY <1>4, <2>2 DEF LeaseLapses, Inv, ReviewTypes
    <2> QED BY <2>1, <2>3 DEF Inv
  <1>5. CASE UNCHANGED vars
    <2>1. EffectInv' /\ ActiveInv' /\ LateInv' /\ OnceStep
      BY <1>5, Quiet DEF vars, effectVars, Inv, EffectInv, Stored
    <2>2. ReviewTypes'
      BY <1>5 DEF vars, Inv, ReviewTypes, reviewVars
    <2> QED BY <2>1, <2>2 DEF Inv
  <1> QED BY <1>1, <1>2, <1>3, <1>4, <1>5 DEF Next

(* The inductive invariant holds throughout.                               *)
THEOREM Invariance == Spec => []Inv
  BY InitInv, NextInv, PTL DEF Spec

(* Every variable keeps its type.                                          *)
THEOREM TypeCorrect == Spec => []TypeOK
  <1>1. Inv => TypeOK
    BY EffectGives DEF Inv, ReviewTypes, TypeOK
  <1> QED BY <1>1, Invariance, PTL

(* Between a claim and its mark the claim on record is the claimer's own   *)
(* (claimCodeReviewDispatchEffect).                                        *)
THEOREM OneDispatcherCorrect == Spec => []OneDispatcher
  <1>1. Inv => OneDispatcher
    BY EffectGives DEF Inv
  <1> QED BY <1>1, Invariance, PTL

(* What a dispatcher reports as started has an envelope                    *)
(* (isCodeReviewDispatchProven).                                           *)
THEOREM ProvenCorrect == Spec => []ProvenIsRequested
  <1>1. Inv => ProvenIsRequested
    BY EffectGives DEF Inv
  <1> QED BY <1>1, Invariance, PTL

(* So has the subject on record (activeReviewSubjectIdentity), which is    *)
(* what a later attempt can conflict with.                                 *)
THEOREM ActiveCorrect == Spec => []ActiveIsRequested
  <1>1. Inv => ActiveIsRequested
    <2> SUFFICES ASSUME Inv, state.active # 0 PROVE Request(state.active)
      BY DEF ActiveIsRequested
    <2>1. state.active \in Subject
      BY SubjectRange DEF Inv, EffectInv, Stored, WorkflowStates
    <2> QED BY <2>1 DEF Inv, ActiveInv, ActiveIn, Exists, Request
  <1> QED BY <1>1, Invariance, PTL

(* Starting reviews implements RequestOnce: a request is made by nobody    *)
(* but the owner of the claim, recorded only when it exists, and a         *)
(* recorded subject is never claimed again.                                *)
THEOREM Refines == Spec => ImplementsRequestOnce
  <1>1. Init => Once!Init
    BY InitInv
  <1>2. Inv /\ [Next]_vars => [Once!Next]_(Once!vars)
    BY NextInv DEF OnceStep
  <1> QED BY <1>1, <1>2, Invariance, PTL DEF Spec, ImplementsRequestOnce, Once!Spec
=============================================================================
