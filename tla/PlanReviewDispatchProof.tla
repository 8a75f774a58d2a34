----------------------- MODULE PlanReviewDispatchProof -----------------------
(***************************************************************************)
(* What PlanReviewDispatch keeps for any number of dispatchers, plans,     *)
(* reviewer runs, cycles and faults: its types, one dispatcher at a time,  *)
(* an envelope behind every report, that it implements RequestOnce, and    *)
(* that no decision about a plan found on record is accepted once it has   *)
(* been replaced.                                                          *)
(***************************************************************************)
EXTENDS PlanReviewDispatch, DispatchEffectProof

ReviewTypes ==
    linear \in Statuses /\ review \in Reviews /\ runs \in [Run -> RunRecords]

(* The plans that are or were on record.                                   *)
Recorded(st, rv) == (rv.superseded \union {st.subject}) \ {0}

Deciding == {"agent", "decide", "apply"}

(* A run that found its plan on record decides about a plan that is or was *)
(* on record; at the revision it has loaded, or checked, about the one     *)
(* that is.  One that found none there loaded a record without a plan.     *)
Current(run, st, rv) ==
    /\ run.rev <= st.rev
    /\ run.at \in Deciding /\ ~run.decision.found => run.decision.plan \in Recorded(st, rv)
    /\ run.at = "agent" /\ run.rev = st.rev =>
          st.subject = IF run.decision.found THEN 0 ELSE run.decision.plan
    /\ run.at = "apply" /\ run.rev = st.rev /\ ~run.decision.found =>
          run.decision.plan = st.subject

(* There is a plan to review.                                              *)
Planned(st) == st.phase = "plan_review" => st.subject # 0

Inv ==
    /\ EffectInv /\ ReviewTypes /\ Planned(state)
    /\ \A r \in Run : Current(runs[r], state, review)

(* What a write of a dispatcher does to the plan on record: nothing.       *)
Advances ==
    \/ state' = state
    \/ /\ state' \in WorkflowStates /\ state'.rev > state.rev
       /\ state'.subject = state.subject /\ Planned(state')

(* What any write does to it: another one may take its place.              *)
Grows ==
    /\ state' = state \/ (state' \in WorkflowStates /\ state'.rev > state.rev /\ Planned(state'))
    /\ Recorded(state, review) \subseteq Recorded(state', review')

LEMMA AdvanceGrows ==
    ASSUME Advances, review'.superseded = review.superseded
    PROVE  Grows
  BY DEF Advances, Grows, Recorded

LEMMA CurrentStays ==
    ASSUME Inv, Grows, NEW q \in Run
    PROVE  Current(runs[q], state', review')
  <1>1. /\ state.rev \in Nat /\ (state' # state => state'.rev \in Nat)
        /\ Current(runs[q], state, review) /\ runs[q].rev \in Nat
    BY DEF Inv, EffectInv, Stored, Grows, WorkflowStates, ReviewTypes, RunRecords
  <1>2. runs[q].at \in Deciding /\ ~runs[q].decision.found
           => runs[q].decision.plan \in Recorded(state', review')
    BY <1>1 DEF Current, Grows
  <1>3. CASE state' = state
    BY <1>1, <1>2, <1>3 DEF Current
  <1>4. CASE state'.rev > state.rev /\ state' # state
    BY <1>1, <1>2, <1>4 DEF Current
  <1> QED BY <1>3, <1>4 DEF Grows

LEMMA RunsStay ==
    ASSUME Inv, Grows, runs' = runs
    PROVE  Planned(state') /\ \A r \in Run : Current(runs'[r], state', review')
  <1>1. Planned(state')
    BY DEF Inv, Grows
  <1> QED BY <1>1, CurrentStays

(* A write of a dispatcher keeps the plan on record.                       *)
LEMMA WriteAdvances ==
    ASSUME Inv, NEW d \in Dispatcher, disp[d].at \in Writing, NEW s,
           NEW next \in WorkflowStates, CasWon(d, next) \/ CasLost(d),
           next.rev = disp[d].held.rev, next.subject = disp[d].held.subject,
           next.phase = disp[d].held.phase,
           \A t \in Subject \ {s} : Agree(next.effect[t], disp[d].held.effect[t])
    PROVE  Advances
  <1>1. CASE CasLost(d)
    BY <1>1 DEF CasLost, Advances
  <1>2. CASE CasWon(d, next)
    <2>1. /\ state' \in WorkflowStates /\ state'.rev = state.rev + 1
          /\ state'.subject = state.subject /\ state'.phase = state.phase
      BY <1>2, WriteLands DEF Inv
    <2>2. state.rev \in Nat /\ state.subject \in Nat
      BY BoundsAssumption DEF Inv, EffectInv, Stored, WorkflowStates
    <2> QED BY <2>1, <2>2 DEF Advances, Inv, Planned
  <1> QED BY <1>1, <1>2

----------------------------------------------------------------------------
(* The shared steps.                                                       *)
LEMMA PatchMarks ==
    ASSUME EffectInv, NEW d \in Dispatcher, disp[d].subject \in Subject,
           NEW x \in EffectStatuses
    PROVE  LET next == Patched(disp[d].held, disp[d].subject, x) IN
           /\ next \in WorkflowStates /\ next.rev = disp[d].held.rev
           /\ next.subject = disp[d].held.subject /\ next.phase = disp[d].held.phase
           /\ next.effect[disp[d].subject].status = x
           /\ \A t \in Subject \ {disp[d].subject} : next.effect[t] = disp[d].held.effect[t]
  <1>1. disp[d].held \in WorkflowStates
    BY Before
  <1> QED BY <1>1, StateTypes

LEMMA ProtocolKeeps ==
    ASSUME Inv, NEW d \in Dispatcher, Protocol(d)
    PROVE  EffectInv' /\ OnceStep /\ Advances
  <1> DEFINE marked == Patched(disp[d].held, disp[d].subject, "dispatched")
  <1>0. EffectInv /\ "dispatched" \in EffectStatuses /\ "blocked" \in EffectStatuses
    BY DEF Inv, EffectStatuses
  <1>1. CASE Block(d)
    <2>1. disp[d].at \in Writing /\ disp[d].subject \in Subject
      BY <1>0, <1>1, Before DEF Block, Writing, Owning
    <2>2. Advances
      BY <1>0, <1>1, <2>1, PatchMarks, WriteAdvances DEF Block, Agree
    <2> QED BY <1>0, <1>1, <2>2, BlockKeeps
  <1>2. ASSUME disp[d].at \in {"mark", "repairMark"}
        PROVE  /\ Marked(d, marked)
               /\ CasWon(d, marked) \/ CasLost(d) => Advances
    <2>1. disp[d].at \in Writing /\ disp[d].subject \in Subject
      BY <1>0, <1>2, Before DEF Writing, Owning
    <2>2. /\ marked \in WorkflowStates /\ marked.rev = disp[d].held.rev
          /\ marked.subject = disp[d].held.subject /\ marked.phase = disp[d].held.phase
          /\ marked.effect[disp[d].subject].status = "dispatched"
          /\ \A t \in Subject \ {disp[d].subject} : marked.effect[t] = disp[d].held.effect[t]
      BY <1>0, <2>1, PatchMarks
    <2> HIDE DEF marked
    <2> QED BY <1>0, <2>1, <2>2, WriteAdvances DEF Marked, Agree
  <1> HIDE DEF marked
  <1>3. CASE Mark(d, marked, "report")
    BY <1>0, <1>2, <1>3, MarkKeeps DEF Mark
  <1>4. CASE RepairMark(d, marked, "report")
    BY <1>0, <1>2, <1>4, RepairMarkKeeps DEF RepairMark
  <1>5. CASE Resend(d, "unresolved_decision_recovered")
    <2>1. "unresolved_decision_recovered" \in Outcomes
      BY DEF Outcomes
    <2> QED BY <1>0, <1>5, <2>1, ResendKeeps DEF Resend, Advances
  <1>6. CASE Present(d) \/ Create(d) \/ Send(d) \/ Repair(d) \/ Reopen(d)
    <2>1. Advances
      BY <1>6 DEF Advances, Present, Create, Send, Repair, Reopen
    <2> QED BY <1>0, <1>6, <2>1, PresentKeeps, CreateKeeps, SendKeeps, RepairKeeps, ReopenKeeps
  <1> QED BY <1>1, <1>3, <1>4, <1>5, <1>6 DEF Protocol, marked

LEMMA FailureKeeps ==
    ASSUME Inv, NEW d \in Dispatcher, Failure(d)
    PROVE  EffectInv' /\ OnceStep /\ Advances
  <1>0. EffectInv
    BY DEF Inv
  <1>1. Advances
    BY DEF Advances, Failure, Misread, NoToken, Crash, Throw
  <1>2. CASE Crash(d)
    <2>1. faults' \in Nat
      BY <1>0, <1>2, Before DEF Crash, Fault
    <2> QED BY <1>0, <1>1, <1>2, <2>1, StopKeeps DEF Crash
  <1> QED BY <1>0, <1>1, <1>2, MisreadKeeps, NoTokenKeeps, ThrowKeeps DEF Failure

----------------------------------------------------------------------------
(* How a dispatcher starts.                                                *)
LEMMA StartedKeeps ==
    ASSUME Inv, NEW d \in Dispatcher, Started(d)
    PROVE  EffectInv' /\ OnceStep /\ Advances
  <1>0. /\ EffectInv /\ state \in WorkflowStates
        /\ NoState \in WorkflowStates /\ 0 \in 0..MaxSubject
        /\ UNCHANGED <<state, jobs, sent, faults>>
    <2>1. UNCHANGED <<state, jobs, sent, faults>>
      BY DEF Started, PlanStart, ReconcileStart, PinStart
    <2>2. EffectInv /\ state \in WorkflowStates
      BY DEF Inv, EffectInv, Stored
    <2> QED BY <2>1, <2>2, NoStateType, BoundsAssumption
  <1>1. Advances
    BY <1>0 DEF Advances
  <1>2. {"plan", "recover", "claim"} \subseteq Stages /\ {"phase", "pass", "unblock"} \subseteq Modes
        /\ "none" \notin Proving
    BY DEF Stages, Modes, Proving, Found
  <1>3. ASSUME NEW at \in {"plan", "recover", "claim"}, NEW mode \in {"phase", "pass", "unblock"},
               NEW s \in 0..MaxSubject, NEW held \in {state, NoState},
               disp' = [disp EXCEPT ![d] = Starting(at, mode, s, held)],
               at = "claim" => held = state, at # "plan" => s \in Subject
        PROVE  EffectInv' /\ OnceStep
    <2> DEFINE p == Starting(at, mode, s, held)
    <2>1. p \in DispRecords /\ p.at = at /\ p.subject = s /\ p.held = held /\ p.outcome = "none"
      BY <1>0, <1>2, StartingTypes
    <2>2. disp' = [disp EXCEPT ![d] = p]
      BY <1>3
    <2>3. p.at \notin Owning /\ p.at \notin Known /\ (p.at \in Writing => p.at = "claim")
      BY <2>1 DEF Owning, Known, Writing
    <2> HIDE DEF p
    <2> QED BY <1>0, <1>2, <1>3, <2>1, <2>2, <2>3, StartKeeps
  <1>4. CASE PlanStart(d)
    BY <1>0, <1>1, <1>3, <1>4 DEF PlanStart
  <1>5. CASE ReconcileStart(d)
    <2>1. state.subject \in Subject
      BY <1>0, <1>5, SubjectRange DEF ReconcileStart, Inv, Planned, WorkflowStates
    <2>2. state.subject \in 0..MaxSubject
      BY <2>1, SubjectRange
    <2>3. CASE state.agent # 0
      BY <1>0, <1>1, <1>3, <1>5, <2>1, <2>2, <2>3 DEF ReconcileStart
    <2>4. CASE state.agent = 0
      <3> DEFINE mode == IF linear = "Blocked" THEN "unblock" ELSE "pass"
      <3>1. disp' = [disp EXCEPT ![d] = Starting("claim", mode, state.subject, state)]
        BY <1>5, <2>4 DEF ReconcileStart
      <3>2. mode \in {"phase", "pass", "unblock"}
        OBVIOUS
      <3> HIDE DEF mode
      <3> QED BY <1>0, <1>1, <1>3, <2>1, <2>2, <3>1, <3>2
    <2> QED BY <2>3, <2>4
  <1>6. CASE PinStart(d)
    <2>1. state.active \in Subject /\ state.active \in 0..MaxSubject
      BY <1>0, <1>6, SubjectRange DEF PinStart, WorkflowStates
    <2> QED BY <1>0, <1>1, <1>3, <1>6, <2>1 DEF PinStart
  <1> QED BY <1>1, <1>4, <1>5, <1>6 DEF Started

----------------------------------------------------------------------------
(* An attempt.                                                             *)
LEMMA PlanPostKeeps ==
    ASSUME Inv, NEW d \in Dispatcher, PlanPost(d)
    PROVE  EffectInv' /\ OnceStep /\ Advances
  <1> DEFINE s == review.posted + 1
             p == Starting("store", "phase", s, NoState)
  <1>1. /\ EffectInv /\ UNCHANGED <<state, jobs, sent, faults>>
        /\ review.posted \in 0..MaxSubject /\ review.posted < MaxSubject
        /\ review' = [review EXCEPT !.posted = @ + 1]
        /\ review'.posted = s
    BY DEF Inv, ReviewTypes, Reviews, PlanPost
  <1>2. s \in Subject /\ s \in 0..MaxSubject /\ NoState \in WorkflowStates
    BY <1>1, NoStateType, BoundsAssumption DEF Subject
  <1>3. disp' = [disp EXCEPT ![d] = p]
    BY <1>1 DEF PlanPost
  <1> HIDE DEF s
  <1>4. p \in DispRecords /\ p.at = "store" /\ p.subject = s /\ p.held = NoState
        /\ p.outcome = "none"
    BY <1>2, StartingTypes DEF Stages, Modes
  <1> HIDE DEF p
  <1>5. p.at \notin Owning /\ p.at \notin Writing /\ p.at \notin Known /\ p.outcome \notin Proving
    BY <1>4 DEF Owning, Writing, Known, Proving, Found
  <1>6. EffectInv' /\ OnceStep
    BY <1>1, <1>2, <1>3, <1>4, <1>5, StartKeeps
  <1> QED BY <1>1, <1>6 DEF Advances

LEMMA PlanStoreKeeps ==
    ASSUME Inv, NEW d \in Dispatcher, PlanStore(d)
    PROVE  EffectInv' /\ OnceStep /\ Grows /\ review' \in Reviews
  <1> DEFINE s == disp[d].subject
             p == Starting("pending", "phase", s, state')
  <1>0. /\ EffectInv /\ state \in WorkflowStates /\ UNCHANGED <<jobs, sent, faults>>
        /\ state.rev \in Nat /\ state.subject \in 0..MaxSubject
        /\ state' = [state EXCEPT !.rev = @ + 1, !.phase = "plan_review", !.subject = s]
    BY Before DEF Inv, PlanStore, WorkflowStates
  <1>1. s \in Subject
    BY <1>0, Before DEF PlanStore
  <1>2. s \in 0..MaxSubject /\ s # 0 /\ state.rev + 1 > state.rev
        /\ state.rev + 1 \in Nat /\ "plan_review" \in Phases
    BY <1>0, <1>1, SubjectRange DEF Phases
  <1>3. disp' = [disp EXCEPT ![d] = p]
    BY DEF PlanStore
  <1>4. review \in Reviews /\ review' = [review EXCEPT !.superseded = @ \union Replaced(s)]
    BY DEF PlanStore, Inv, ReviewTypes
  <1> HIDE DEF s
  <1>5. /\ state' \in WorkflowStates /\ state'.rev = state.rev + 1 /\ state'.subject = s
        /\ state'.effect = state.effect
    BY <1>0, <1>2 DEF WorkflowStates
  <1>6. p \in DispRecords /\ p.at = "pending" /\ p.subject = s /\ p.held = state'
        /\ p.outcome = "none"
    BY <1>2, <1>5, StartingTypes DEF Stages, Modes
  <1> HIDE DEF p
  <1>7. EffectInv' /\ OnceStep
    BY <1>0, <1>1, <1>3, <1>5, <1>6, StoreKeeps DEF Writing, Owning
  <1>8. Replaced(s) \subseteq Subject
    BY <1>0, SubjectRange DEF Replaced
  <1>9. review' \in Reviews /\ review'.superseded = review.superseded \union Replaced(s)
    BY <1>4, <1>8 DEF Reviews
  <1>10. Recorded(state, review) \subseteq Recorded(state', review')
    BY <1>5, <1>9 DEF Recorded, Replaced
  <1>11. Grows
    BY <1>2, <1>5, <1>10 DEF Grows, Planned
  <1> QED BY <1>7, <1>9, <1>11

LEMMA PlanUnstoredKeeps ==
    ASSUME Inv, NEW d \in Dispatcher, PlanUnstored(d)
    PROVE  EffectInv' /\ OnceStep /\ Advances
  <1>1. /\ EffectInv /\ UNCHANGED <<state, jobs, sent>> /\ disp[d].at = "store"
        /\ Goes(d, "pending", state) /\ disp[d].subject \in Subject
        /\ state \in WorkflowStates /\ disp[d].outcome \in Outcomes
        /\ jobs \in [Subject -> Envelopes] /\ sent \in [Subject -> Nat]
        /\ (disp[d].outcome \in Proving => Exists(jobs, disp[d].subject))
    BY Before DEF Inv, PlanUnstored
  <1>2. faults' \in Nat
    BY Before DEF Inv, PlanUnstored, Fault
  <1>3. "pending" \in Stages /\ "pending" \notin Owning /\ "pending" \notin Known
    BY DEF Stages, Owning, Known
  <1>4. Moves(d, "pending", state, disp[d].outcome)
    BY <1>1 DEF Moves
  <1>5. EffectInv'
    BY <1>1, <1>2, <1>3, <1>4, WalksTo
  <1>6. OnceStep
    BY <1>1, OnceStutters DEF Agree
  <1> QED BY <1>1, <1>5, <1>6 DEF Advances

LEMMA PendKeeps ==
    ASSUME Inv, NEW d \in Dispatcher, Pend(d)
    PROVE  EffectInv' /\ OnceStep /\ Advances
  <1> DEFINE s == disp[d].subject
             e == [disp[d].held.effect[s] EXCEPT
                      !.status = IF @ = "none" THEN "pending" ELSE @]
             next == [disp[d].held EXCEPT !.active = s,
                       !.effect[s].status = IF @ = "none" THEN "pending" ELSE @]
  <1>0. /\ EffectInv /\ s \in Subject /\ disp[d].held \in WorkflowStates
        /\ disp[d].at = "pending" /\ UNCHANGED <<jobs, sent, faults>>
        /\ disp[d].outcome \in Outcomes /\ state \in WorkflowStates
        /\ (disp[d].outcome \in Proving => Exists(jobs, s))
    BY Before DEF Inv, Pend
  <1>1. disp[d].held.effect \in [Subject -> Effects] /\ s \in 0..MaxSubject
    BY <1>0, SubjectRange DEF WorkflowStates
  <1>2. e \in Effects /\ Agree(e, disp[d].held.effect[s])
    BY <1>0, <1>1 DEF Effects, EffectStatuses, Agree, Ready
  <1>3. next = [disp[d].held EXCEPT !.active = s,
                                    !.effect = [disp[d].held.effect EXCEPT ![s] = e]]
    BY <1>0, <1>1 DEF WorkflowStates
  <1> HIDE DEF next, e
  <1>4. /\ next \in WorkflowStates /\ next.rev = disp[d].held.rev
        /\ next.subject = disp[d].held.subject /\ next.phase = disp[d].held.phase
        /\ \A t \in Subject : Agree(next.effect[t], disp[d].held.effect[t])
    BY <1>0, <1>1, <1>2, <1>3 DEF WorkflowStates, Agree
  <1>5. \/ CasWon(d, next) /\ Goes(d, "project", state')
        \/ CasLost(d) /\ Goes(d, "project", next)
    BY DEF Pend, next
  <1>6. /\ disp[d].at \in Writing /\ "project" \in Stages /\ "project" \in Writing
        /\ "project" \notin Owning /\ "project" \notin Known
    BY <1>0 DEF Writing, Owning, Known, Stages
  <1>7. Advances
    BY <1>0, <1>4, <1>5, <1>6, WriteAdvances
  <1>8. CASE CasWon(d, next) /\ Goes(d, "project", state')
    <2> DEFINE p == Left(disp[d], "project", state', disp[d].outcome)
    <2>1. 0 \notin Subject /\ Unowned(0, d)
      BY <1>0, NoSubjectUnowned
    <2>2. /\ state' \in WorkflowStates /\ state'.effect = next.effect
          /\ \A t \in Subject : Agree(state'.effect[t], state.effect[t])
      <3>1. \A t \in Subject \ {0} : Agree(next.effect[t], disp[d].held.effect[t])
        BY <1>4
      <3>2. /\ state' \in WorkflowStates /\ state'.effect = next.effect
            /\ \A t \in Subject \ {0} : Agree(state'.effect[t], state.effect[t])
        BY <1>0, <1>4, <1>6, <1>8, <3>1, WriteLands
      <3> QED BY <2>1, <3>2
    <2>3. /\ p \in DispRecords /\ p.at = "project" /\ p.held = state' /\ p.subject = s
          /\ p.outcome = disp[d].outcome /\ disp' = [disp EXCEPT ![d] = p]
      BY <1>0, <1>6, <1>8, <2>2, Leaves DEF Moves
    <2> HIDE DEF p
    <2>4. Subjected(p) /\ Backed(p, jobs)
      BY <1>0, <1>6, <2>3 DEF Subjected, Backed
    <2>5. EffectInv'
      BY <1>0, <1>4, <1>6, <1>8, <2>1, <2>3, <2>4, Writes
    <2>6. OnceStep
      BY <1>0, <2>2, OnceStutters
    <2> QED BY <1>7, <2>5, <2>6
  <1>9. CASE CasLost(d) /\ Goes(d, "project", next)
    <2> DEFINE p == Left(disp[d], "project", next, disp[d].outcome)
    <2>1. /\ p \in DispRecords /\ p.at = "project" /\ p.held = next /\ p.subject = s
          /\ p.outcome = disp[d].outcome /\ disp' = [disp EXCEPT ![d] = p]
      BY <1>0, <1>4, <1>6, <1>9, Leaves DEF Moves
    <2> HIDE DEF p
    <2>2. state' = state
      BY <1>9 DEF CasLost
    <2>3. Holds(d, disp[d], state, jobs)
      BY <1>0 DEF EffectInv
    <2>4. HeldBacked(p, jobs)
      BY <1>4, <2>1, <2>3 DEF Holds, HeldBacked, Agree, Ready
    <2>5. Subjected(p) /\ Backed(p, jobs) /\ Owns(d, p, state)
      BY <1>0, <1>6, <2>1 DEF Subjected, Backed, Owns
    <2>6. Fresh(p, state)
      BY <1>4, <1>6, <2>1, <2>3 DEF Holds, Fresh, Agree
    <2>7. Holds(d, p, state', jobs')
      BY <1>0, <2>1, <2>2, <2>4, <2>5, <2>6 DEF Holds
    <2>8. EffectInv'
      BY <1>0, <2>1, <2>2, <2>7, Before, StepKeeps
    <2>9. OnceStep
      BY <1>0, <2>2, OnceStutters DEF Agree
    <2> QED BY <1>7, <2>8, <2>9
  <1> QED BY <1>5, <1>8, <1>9

LEMMA ClaimsKeeps ==
    ASSUME Inv, NEW d \in Dispatcher, Claim(d)
    PROVE  EffectInv' /\ OnceStep /\ Advances
  <1> DEFINE s == disp[d].subject
             next == [ClaimedBy(disp[d].held, s, d) EXCEPT !.active = s]
  <1>0. /\ EffectInv /\ s \in Subject /\ disp[d].held \in WorkflowStates
        /\ disp[d].at = "claim" /\ UNCHANGED <<jobs, sent, faults>>
        /\ ~Taken(disp[d].held, s, d) /\ ~Durable(disp[d].held, s)
    BY Before DEF Inv, Claim
  <1>1. \/ CasWon(d, next) /\ Goes(d, "present", state')
        \/ CasLost(d) /\ Goes(d, "lost", NoState)
    BY DEF Claim
  <1>2. /\ ClaimedBy(disp[d].held, s, d) \in WorkflowStates
        /\ ClaimedBy(disp[d].held, s, d).rev = disp[d].held.rev
        /\ ClaimedBy(disp[d].held, s, d).effect[s] = [status |-> "dispatching", owner |-> d]
        /\ \A t \in Subject \ {s} : ClaimedBy(disp[d].held, s, d).effect[t] = disp[d].held.effect[t]
    <2>1. s \in Subject /\ disp[d].held \in WorkflowStates
      BY <1>0
    <2> QED BY <2>1, StateTypes
  <1>3. /\ ClaimedBy(disp[d].held, s, d).subject = disp[d].held.subject
        /\ ClaimedBy(disp[d].held, s, d).phase = disp[d].held.phase
    BY <1>0 DEF ClaimedBy, WorkflowStates
  <1>4. s \in 0..MaxSubject
    BY <1>0, SubjectRange
  <1>5. /\ Claiming(d, next) /\ next \in WorkflowStates /\ next.rev = disp[d].held.rev
        /\ next.subject = disp[d].held.subject /\ next.phase = disp[d].held.phase
    BY <1>2, <1>3, <1>4 DEF Claiming, WorkflowStates
  <1> HIDE DEF next
  <1>6. EffectInv' /\ OnceStep
    BY <1>0, <1>1, <1>5, ClaimKeeps
  <1>7. \A t \in Subject \ {s} : Agree(next.effect[t], disp[d].held.effect[t])
    BY <1>5 DEF Claiming, Agree
  <1>8. disp[d].at \in Writing
    BY <1>0 DEF Writing
  <1>9. Advances
    BY <1>1, <1>5, <1>7, <1>8, WriteAdvances
  <1> QED BY <1>6, <1>9

(* The other steps of an attempt leave the state and the envelopes alone.  *)
LEMMA AttemptMoves ==
    ASSUME Inv, NEW d \in Dispatcher, UNCHANGED <<state, jobs, sent, faults>>,
           NEW at \in {"claim", "report"}, NEW o \in Outcomes,
           NEW held \in {disp[d].held, NoState}, Moves(d, at, held, o),
           disp[d].at \in {"project", "claim", "lost"},
           at = "claim" => disp[d].at = "project" /\ held = disp[d].held,
           o \in Proving => Exists(jobs, disp[d].subject)
    PROVE  EffectInv' /\ OnceStep /\ Advances
  <1>1. EffectInv /\ disp[d].subject \in Subject /\ held \in WorkflowStates
    BY Before, NoStateType DEF Inv
  <1>2. at \in Stages /\ at \notin Owning /\ (at \in Writing => at = "claim") /\ at \notin Known
        /\ "project" \in Writing
    BY DEF Stages, Owning, Writing, Known
  <1>3. EffectInv'
    BY <1>1, <1>2, Before, WalksTo
  <1>4. OnceStep
    BY OnceStutters DEF Agree
  <1> QED BY <1>3, <1>4 DEF Advances

LEMMA RecoverKeeps ==
    ASSUME Inv, NEW d \in Dispatcher, Recover(d)
    PROVE  EffectInv' /\ OnceStep /\ Advances
  <1> DEFINE s == disp[d].subject
             at == CASE jobs[s].state \in {"pending", "claimed"} -> "resend"
                     [] RetryableFailure(jobs[s]) \/ FalseDuplicate(jobs[s]) -> "reopen"
                     [] OTHER -> "report"
             job == IF Terminal(jobs[s]) THEN jobs[s] ELSE NoEnvelope
             p == [disp[d] EXCEPT !.at = at, !.job = job, !.held = NoState]
  <1>1. /\ UNCHANGED <<state, jobs, sent, faults>>
        /\ EffectInv /\ s \in Subject /\ disp[d].outcome \in Outcomes /\ disp[d] \in DispRecords
        /\ (disp[d].outcome \in Proving => Exists(jobs, s))
        /\ jobs[s] \in Envelopes
    BY Before DEF Inv, Recover
  <1>2. at \in {"resend", "reopen", "report"} /\ job \in Envelopes
    BY <1>1, InitEnvelope
  <1>3. at \in {"resend", "reopen"} => Exists(jobs, s)
    BY DEF RetryableFailure, FalseDuplicate, Exists
  <1>4. disp' = [disp EXCEPT ![d].at = at, ![d].job = job, ![d].held = NoState]
    BY DEF Recover
  <1> HIDE DEF at, job
  <1>5. p \in DispRecords /\ p.at = at /\ p.held = NoState /\ p.subject = s
        /\ p.outcome = disp[d].outcome
    BY <1>1, <1>2, NoStateType DEF DispRecords, Stages
  <1>6. disp' = [disp EXCEPT ![d] = p]
    BY <1>1, <1>4 DEF EffectInv, DispRecords
  <1> HIDE DEF p
  <1>7. p.at \notin Owning /\ p.at \notin Writing /\ (p.at \in Known => p.at # "report")
    BY <1>2, <1>5 DEF Owning, Writing, Known
  <1>8. Subjected(p) /\ Backed(p, jobs')
    BY <1>1, <1>2, <1>3, <1>5, <1>7 DEF Subjected, Backed
  <1>9. EffectInv'
    BY <1>1, <1>5, <1>6, <1>7, <1>8, Before, Walks
  <1>10. OnceStep
    BY <1>1, OnceStutters DEF Agree
  <1> QED BY <1>1, <1>9, <1>10 DEF Advances

LEMMA AttemptKeeps ==
    ASSUME Inv, NEW d \in Dispatcher, Attempt(d), ~PlanStore(d)
    PROVE  EffectInv' /\ OnceStep /\ Advances
  <1> DEFINE s == disp[d].subject
  <1>0. EffectInv /\ disp[d].outcome \in Outcomes /\ (disp[d].outcome \in Proving => Exists(jobs, s))
        /\ "already_dispatched" \in Outcomes /\ "claim_lost" \in Outcomes \ Proving
    BY Before DEF Inv, Outcomes, Found, Proving
  <1>1. CASE Project(d)
    BY <1>0, <1>1, AttemptMoves DEF Project, Moves
  <1>2. CASE Refuse(d)
    <2>1. disp[d].at = "claim" /\ UNCHANGED <<state, jobs, sent, faults>> /\ s \in Subject
      BY <1>0, <1>2, Before DEF Refuse
    <2>2. CASE Durable(disp[d].held, s) /\ Ends(d, "report", NoState, "already_dispatched")
      <3>1. Exists(jobs, s)
        BY <2>1, <2>2 DEF Inv, EffectInv, Holds, HeldBacked, Durable
      <3> QED BY <1>0, <2>1, <2>2, <3>1, AttemptMoves DEF Moves
    <2>3. CASE Ends(d, "report", NoState, "claim_lost")
      BY <1>0, <2>1, <2>3, AttemptMoves DEF Moves
    <2> QED BY <1>2, <2>2, <2>3 DEF Refuse
  <1>3. CASE LostClaim(d)
    <2>1. disp[d].at = "lost" /\ UNCHANGED <<state, jobs, sent, faults>> /\ s \in Subject
      BY <1>0, <1>3, Before DEF LostClaim
    <2>2. CASE Durable(state, s)
      <3>1. Exists(jobs, s)
        BY <2>1, <2>2 DEF Inv, EffectInv, Stored, Durable
      <3>2. Moves(d, "report", NoState, "already_dispatched")
        BY <1>3, <2>2 DEF LostClaim, Moves
      <3> QED BY <1>0, <2>1, <3>1, <3>2, AttemptMoves
    <2>3. CASE ~Durable(state, s)
      <3>1. Moves(d, "report", NoState, "claim_lost")
        BY <1>3, <2>3 DEF LostClaim, Moves
      <3> QED BY <1>0, <2>1, <3>1, AttemptMoves
    <2> QED BY <2>2, <2>3
  <1>4. CASE Report(d)
    <2>1. Stops(d) /\ UNCHANGED <<state, jobs, sent, faults>> /\ EffectInv /\ faults \in Nat
      BY <1>4, Before DEF Report, Inv
    <2> QED BY <2>1, StopKeeps DEF Advances
  <1> QED BY <1>1, <1>2, <1>3, <1>4, PlanPostKeeps, PlanUnstoredKeeps, PendKeeps,
            ClaimsKeeps, RecoverKeeps DEF Attempt

LEMMA DispatchKeeps ==
    ASSUME Inv, NEW d \in Dispatcher, Started(d) \/ Dispatch(d) \/ Failure(d)
    PROVE  Inv' /\ OnceStep /\ review'.last = review.last
  <1>1. /\ runs' = runs
        /\ PlanStore(d) \/ PlanPost(d) \/ review' = review
    BY DEF Started, PlanStart, ReconcileStart, PinStart, Dispatch, Attempt, PlanPost, PlanStore,
           PlanUnstored, Pend, Project, Refuse, Claim, LostClaim, Recover, Report, Protocol,
           Failure, reviewVars
  <1>2. review \in Reviews
    BY DEF Inv, ReviewTypes
  <1>3. review'.last = review.last
    BY <1>1, <1>2 DEF PlanStore, PlanPost, Reviews
  <1>4. EffectInv' /\ OnceStep /\ Grows /\ review' \in Reviews
    <2>1. CASE PlanStore(d)
      BY <2>1, PlanStoreKeeps
    <2>2. CASE ~PlanStore(d)
      <3>1. EffectInv' /\ OnceStep /\ Advances
        BY <2>2, StartedKeeps, AttemptKeeps, ProtocolKeeps, FailureKeeps DEF Dispatch
      <3>2. review' \in Reviews /\ review'.superseded = review.superseded
        <4>1. CASE review' = review
          BY <1>2, <4>1
        <4>2. CASE PlanPost(d)
          <5>1. review.posted + 1 \in 0..MaxSubject
            BY <1>2, <4>2, BoundsAssumption DEF PlanPost, Reviews
          <5> QED BY <1>2, <4>2, <5>1 DEF PlanPost, Reviews
        <4> QED BY <1>1, <2>2, <4>1, <4>2
      <3> QED BY <3>1, <3>2, AdvanceGrows
    <2> QED BY <2>1, <2>2
  <1>5. linear' \in Statuses
    <2>1. CASE Report(d)
      BY <2>1 DEF Report, Statuses, Inv, ReviewTypes
    <2>2. linear' = linear \/ linear' \in {"Planning", "Plan Review"} \/ Report(d)
      BY DEF Started, PlanStart, ReconcileStart, PinStart, Dispatch, Attempt, PlanPost, PlanStore,
             PlanUnstored, Pend, Project, Refuse, Claim, LostClaim, Recover, Protocol, Failure
    <2> QED BY <2>1, <2>2 DEF Statuses, Inv, ReviewTypes
  <1>6. ReviewTypes'
    BY <1>1, <1>4, <1>5 DEF Inv, ReviewTypes
  <1>7. Planned(state') /\ \A r \in Run : Current(runs'[r], state', review')
    BY <1>1, <1>4, RunsStay
  <1> QED BY <1>3, <1>4, <1>6, <1>7 DEF Inv, Planned, Current, Recorded

----------------------------------------------------------------------------
(* The reviewers change no effect and no dispatcher, and an envelope that  *)
(* exists stays.                                                           *)
LEMMA ReviewQuiet ==
    ASSUME Inv, disp' = disp, sent' \in [Subject -> Nat], faults' \in Nat,
           jobs' \in [Subject -> Envelopes],
           \A t \in Subject : Exists(jobs', t) <=> Exists(jobs, t),
           \/ state' = state
           \/ /\ state' \in WorkflowStates /\ state'.rev = state.rev + 1
              /\ state'.effect = state.effect /\ Planned(state'),
           Recorded(state, review) \subseteq Recorded(state', review')
    PROVE  EffectInv' /\ OnceStep /\ Grows
  <1>1. EffectInv /\ state \in WorkflowStates
    BY DEF Inv, EffectInv, Stored
  <1>2. state.rev \in Nat
    BY <1>1 DEF WorkflowStates
  <1>3. state' = state \/ state'.rev > state.rev
    BY <1>2
  <1>4. EffectInv' /\ OnceStep
    BY <1>1, <1>3, QuietKeeps
  <1>5. Grows
    BY <1>3 DEF Grows
  <1> QED BY <1>4, <1>5

LEMMA ReviewBefore ==
    ASSUME Inv
    PROVE  /\ EffectInv /\ state \in WorkflowStates /\ jobs \in [Subject -> Envelopes]
           /\ sent \in [Subject -> Nat] /\ faults \in Nat
           /\ state.rev \in Nat /\ state.rev + 1 \in Nat /\ state.subject \in 0..MaxSubject
           /\ runs \in [Run -> RunRecords] /\ review \in Reviews /\ linear \in Statuses
  BY DEF Inv, EffectInv, Stored, ReviewTypes, WorkflowStates

(* Reviewer steps that store nothing.                                      *)
LEMMA StillReview ==
    ASSUME Inv, UNCHANGED <<state, jobs, sent, disp, review>>, faults' \in Nat
    PROVE  EffectInv' /\ OnceStep /\ Grows
  BY ReviewQuiet, ReviewBefore

(* One run goes on with a good record.                                     *)
LEMMA RunMoves ==
    ASSUME Inv, NEW r \in Run, NEW x \in RunRecords, runs' = [runs EXCEPT ![r] = x],
           Current(x, state', review'), EffectInv', Grows, linear' \in Statuses, review' \in Reviews
    PROVE  Inv'
  <1>1. runs \in [Run -> RunRecords]
    BY DEF Inv, ReviewTypes
  <1>2. ReviewTypes'
    BY <1>1 DEF ReviewTypes
  <1>3. \A q \in Run : Current(runs'[q], state', review')
    BY <1>1, CurrentStays
  <1>4. Planned(state')
    BY DEF Inv, Grows, Planned
  <1> QED BY <1>2, <1>3, <1>4 DEF Inv, Planned, Current, Recorded

LEMMA IdleRun ==
    /\ NoRunYet \in RunRecords /\ NoRunYet.rev = 0 /\ NoRunYet.decision = NoDecision
    /\ NoDecision \in Decisions /\ NoDecision.plan = 0
  <1>1. 0 \in 0..MaxSubject /\ 0 \in Nat
    BY BoundsAssumption
  <1>2. NoDecision \in Decisions /\ NoDecision.plan = 0
    BY <1>1 DEF NoDecision, Decisions
  <1> QED BY <1>1, <1>2 DEF NoRunYet, RunRecords, RunStages, Texts, Statuses, Completions

(* A run that has nothing in hand any more.                                *)
LEMMA BareRun ==
    ASSUME Inv, Grows, NEW at \in RunStages \ Deciding, NEW job \in 0..MaxSubject,
           NEW result \in Completions, NEW status \in Statuses
    PROVE  LET x == [NoRunYet EXCEPT !.at = at, !.job = job, !.result = result,
                                     !.status = status]
           IN  x \in RunRecords /\ Current(x, state', review')
  <1> DEFINE x == [NoRunYet EXCEPT !.at = at, !.job = job, !.result = result, !.status = status]
  <1>1. x \in RunRecords /\ x.rev = 0 /\ x.at \notin Deciding
    BY IdleRun DEF RunRecords
  <1>2. state'.rev \in Nat
    BY ReviewBefore DEF Grows, WorkflowStates
  <1> HIDE DEF x
  <1>3. Current(x, state', review')
    BY <1>1, <1>2 DEF Current, Deciding
  <1> QED BY <1>1, <1>3 DEF x

LEMMA ResultsKeeps ==
    ASSUME Inv, NEW r \in Run, NEW result \in Completions, Results(r, result),
           EffectInv', Grows, linear' \in Statuses, review' \in Reviews
    PROVE  Inv'
  <1> DEFINE x == [NoRunYet EXCEPT !.at = "end", !.job = runs[r].job, !.result = result,
                                   !.status = NoRunYet.status]
  <1>1. runs[r].job \in 0..MaxSubject
    BY ReviewBefore DEF RunRecords
  <1>2. NoRunYet.status \in Statuses /\ "end" \in RunStages \ Deciding
    BY IdleRun DEF RunRecords, RunStages, Deciding
  <1>3. x \in RunRecords /\ Current(x, state', review')
    BY <1>1, <1>2, BareRun
  <1>4. x = [NoRunYet EXCEPT !.at = "end", !.job = runs[r].job, !.result = result]
    BY IdleRun DEF RunRecords
  <1>5. runs' = [runs EXCEPT ![r] = x]
    BY <1>4 DEF Results
  <1> QED BY <1>3, <1>5, RunMoves

LEMMA DoneKeeps ==
    ASSUME Inv, NEW r \in Run, NEW at \in {"phase", "done"}, NEW job \in 0..MaxSubject,
           \/ runs' = [runs EXCEPT ![r] = [NoRunYet EXCEPT !.at = at, !.job = job]]
           \/ runs' = [runs EXCEPT ![r] = [NoRunYet EXCEPT !.at = at]],
           EffectInv', Grows, linear' \in Statuses, review' \in Reviews
    PROVE  Inv'
  <1>1. ASSUME NEW j \in 0..MaxSubject,
               runs' = [runs EXCEPT ![r] = [NoRunYet EXCEPT !.at = at, !.job = j]]
        PROVE  Inv'
    <2> DEFINE x == [NoRunYet EXCEPT !.at = at, !.job = j, !.result = NoRunYet.result,
                                     !.status = NoRunYet.status]
    <2>1. NoRunYet.status \in Statuses /\ NoRunYet.result \in Completions
          /\ at \in RunStages \ Deciding
      BY IdleRun DEF RunRecords, RunStages, Deciding
    <2>2. x \in RunRecords /\ Current(x, state', review')
      BY <2>1, BareRun
    <2>3. x = [NoRunYet EXCEPT !.at = at, !.job = j]
      BY IdleRun DEF RunRecords
    <2>4. runs' = [runs EXCEPT ![r] = x]
      BY <1>1, <2>3
    <2> QED BY <2>2, <2>4, RunMoves
  <1>2. NoRunYet.job \in 0..MaxSubject
        /\ [NoRunYet EXCEPT !.at = at] = [NoRunYet EXCEPT !.at = at, !.job = NoRunYet.job]
    BY IdleRun DEF RunRecords
  <1> QED BY <1>1, <1>2

----------------------------------------------------------------------------
(* The reviewers' steps.                                                   *)
NoStaleStep ==
    review'.last # review.last /\ ~review'.last.found => review'.last.plan = state.subject

ReviewerKeeps == Inv' /\ OnceStep /\ NoStaleStep

LEMMA StartRunKeeps ==
    ASSUME Inv, NEW r \in Run, StartRun(r)
    PROVE  ReviewerKeeps
  <1>1. PICK s \in Subject :
           /\ sent[s] > 0 /\ sent' = [sent EXCEPT ![s] = @ - 1]
           /\ jobs' = [jobs EXCEPT ![s] = Taking(s, r)]
           /\ runs' = [runs EXCEPT ![r] =
                 [NoRunYet EXCEPT !.at = IF TurnedAway(s) THEN "done" ELSE "phase", !.job = s]]
    BY DEF StartRun
  <1>2. UNCHANGED <<state, disp, faults, linear, review>>
    BY DEF StartRun
  <1>3. sent' \in [Subject -> Nat]
    BY <1>1, ReviewBefore
  <1>4. jobs' \in [Subject -> Envelopes] /\ \A t \in Subject : Exists(jobs', t) <=> Exists(jobs, t)
    BY <1>1, ReviewBefore, RunEnvelopes DEF Exists
  <1>5. EffectInv' /\ OnceStep /\ Grows
    BY <1>2, <1>3, <1>4, ReviewBefore, ReviewQuiet
  <1>6. s \in 0..MaxSubject
    BY SubjectRange
  <1>7. Inv'
    <2> DEFINE at == IF TurnedAway(s) THEN "done" ELSE "phase"
    <2>1. at \in {"phase", "done"}
      OBVIOUS
    <2>2. runs' = [runs EXCEPT ![r] = [NoRunYet EXCEPT !.at = at, !.job = s]]
      BY <1>1
    <2> HIDE DEF at
    <2> QED BY <1>2, <1>5, <1>6, <2>1, <2>2, ReviewBefore, DoneKeeps
  <1> QED BY <1>2, <1>5, <1>7 DEF ReviewerKeeps, NoStaleStep

(* A step that stores nothing and leaves the run with a result or done.    *)
LEMMA LeavesKeeps ==
    ASSUME Inv, NEW r \in Run, UNCHANGED <<state, jobs, sent, disp, review>>,
           faults' \in Nat, linear' \in Statuses,
           \/ \E result \in Completions : Results(r, result)
           \/ runs' = [runs EXCEPT ![r] = [NoRunYet EXCEPT !.at = "done"]]
    PROVE  ReviewerKeeps
  <1>1. EffectInv' /\ OnceStep /\ Grows /\ review' \in Reviews /\ 0 \in 0..MaxSubject
    BY StillReview, ReviewBefore, BoundsAssumption
  <1>2. CASE \E result \in Completions : Results(r, result)
    BY <1>1, <1>2, ResultsKeeps DEF ReviewerKeeps, NoStaleStep
  <1>3. CASE runs' = [runs EXCEPT ![r] = [NoRunYet EXCEPT !.at = "done"]]
    BY <1>1, <1>3, DoneKeeps DEF ReviewerKeeps, NoStaleStep
  <1> QED BY <1>2, <1>3

LEMMA LeavingRuns ==
    ASSUME Inv, NEW r \in Run,
           RunElsewhere(r) \/ RunShow(r) \/ RunFails(r) \/ RunLost(r)
    PROVE  ReviewerKeeps
  <1>1. {"verified_complete", "duplicate_phase_completed", "run_failed", "run_crash"}
          \subseteq Completions
    BY DEF Completions, RetryableCompletions, FalseDuplicateCompletions
  <1>2. faults' \in Nat
    <2>1. faults' = faults \/ faults' = faults + 1
      BY DEF RunElsewhere, RunShow, RunFails, RunLost, Fault
    <2> QED BY <2>1, ReviewBefore
  <1>3. linear' \in Statuses
    BY ReviewBefore DEF RunElsewhere, RunShow, RunFails, RunLost, RunRecords
  <1>4. \/ \E result \in Completions : Results(r, result)
        \/ runs' = [runs EXCEPT ![r] = [NoRunYet EXCEPT !.at = "done"]]
    <2>1. CASE RunElsewhere(r)
      <3>1. \/ runs' = [runs EXCEPT ![r] = [NoRunYet EXCEPT !.at = "done"]]
            \/ \E result \in {"verified_complete", "duplicate_phase_completed", "run_failed"} :
                  Results(r, result)
        BY <2>1 DEF RunElsewhere
      <3> QED BY <1>1, <3>1
    <2>2. CASE RunShow(r)
      BY <1>1, <2>2 DEF RunShow
    <2>3. CASE RunFails(r)
      BY <1>1, <2>3 DEF RunFails
    <2>4. CASE RunLost(r)
      BY <2>4 DEF RunLost
    <2> QED BY <2>1, <2>2, <2>3, <2>4
  <1>5. UNCHANGED <<state, jobs, sent, disp, review>>
    BY DEF RunElsewhere, RunShow, RunFails, RunLost
  <1> QED BY <1>2, <1>3, <1>4, <1>5, LeavesKeeps

LEMMA RunEndKeeps ==
    ASSUME Inv, NEW r \in Run, RunEnd(r)
    PROVE  ReviewerKeeps
  <1>1. runs[r].result \in Completions /\ jobs \in [Subject -> Envelopes] /\ EffectInv
        /\ 0 \in 0..MaxSubject
    BY ReviewBefore, BoundsAssumption DEF RunRecords
  <1>2. /\ jobs' = [jobs EXCEPT ![runs[r].job] = Finished(runs[r].job, r, runs[r].result)]
        /\ runs' = [runs EXCEPT ![r] = [NoRunYet EXCEPT !.at = "done"]]
        /\ UNCHANGED <<state, sent, disp, faults, linear, review>>
    BY DEF RunEnd
  <1>3. jobs' \in [Subject -> Envelopes] /\ \A t \in Subject : Exists(jobs', t) <=> Exists(jobs, t)
    <2>1. CASE runs[r].job \in Subject
      BY <1>1, <1>2, <2>1, RunEnvelopes DEF Exists
    <2>2. CASE runs[r].job \notin Subject
      BY <1>1, <1>2, <2>2 DEF Exists
    <2> QED BY <2>1, <2>2
  <1>4. EffectInv' /\ OnceStep /\ Grows
    BY <1>2, <1>3, ReviewBefore, ReviewQuiet
  <1>5. Inv'
    BY <1>1, <1>2, <1>4, ReviewBefore, DoneKeeps
  <1> QED BY <1>2, <1>4, <1>5 DEF ReviewerKeeps, NoStaleStep

(* What a run goes on with when it keeps what it has in hand.              *)
LEMMA GoesOn ==
    ASSUME Inv, NEW r \in Run, NEW x \in RunRecords, runs' = [runs EXCEPT ![r] = x],
           Current(x, state, review), UNCHANGED <<state, jobs, sent, disp, faults, linear, review>>
    PROVE  ReviewerKeeps
  <1>1. EffectInv' /\ OnceStep /\ Grows
    BY StillReview, ReviewBefore
  <1> QED BY <1>1, RunMoves, ReviewBefore DEF ReviewerKeeps, NoStaleStep

LEMMA RunPhaseKeeps ==
    ASSUME Inv, NEW r \in Run, RunPhase(r)
    PROVE  ReviewerKeeps
  <1> DEFINE plan == IF state.subject # 0 THEN state.subject ELSE review.posted
             found == state.subject = 0
             decision == [NoDecision EXCEPT !.plan = plan, !.found = found,
                                            !.cycle = review.cycles, !.of = review.posted]
             x == [runs[r] EXCEPT !.at = "agent", !.rev = state.rev, !.decision = decision,
                                  !.agent = state.agent, !.text = review.text,
                                  !.read = review.of]
  <1>1. /\ runs[r] \in RunRecords /\ state.rev \in Nat /\ state.subject \in 0..MaxSubject
        /\ state.agent \in 0..MaxSubject /\ review.cycles \in Nat /\ review.text \in Texts
        /\ review.posted \in 0..MaxSubject /\ review.of \in 0..MaxSubject
    BY ReviewBefore DEF WorkflowStates, Reviews
  <1>2. decision \in Decisions /\ decision.plan = plan /\ decision.found = found
    BY <1>1, IdleRun DEF Decisions
  <1>3. runs' = [runs EXCEPT ![r] = x]
    BY ReviewBefore DEF RunPhase, RunRecords
  <1> HIDE DEF decision
  <1>4. x \in RunRecords /\ x.rev = state.rev /\ x.decision = decision /\ x.at = "agent"
    BY <1>1, <1>2 DEF RunRecords, RunStages
  <1> HIDE DEF x
  <1>5. /\ ~found => plan \in Recorded(state, review)
        /\ state.subject = IF found THEN 0 ELSE plan
    BY DEF Recorded
  <1> HIDE DEF plan, found
  <1>6. Current(x, state, review)
    BY <1>1, <1>2, <1>4, <1>5 DEF Current
  <1> QED BY <1>3, <1>4, <1>6, GoesOn DEF RunPhase

(* The agent's answer becomes a decision about the same plan, at the       *)
(* revision that the run itself has just stored or at the one it had.      *)
LEMMA ReadsKeeps ==
    ASSUME Inv, NEW r \in Run, NEW text, NEW of \in 0..MaxSubject, Reads(r, text, of),
           runs[r].at = "agent", EffectInv', Grows, linear' \in Statuses, review' \in Reviews
    PROVE  Inv'
  <1>0. "run_crash" \in Completions
    BY DEF Completions, RetryableCompletions
  <1>1. CASE Results(r, "run_crash")
    BY <1>0, <1>1, ResultsKeeps
  <1>2. ASSUME NEW verdict \in Verdicts,
               runs' = [runs EXCEPT ![r].at = "decide", ![r].agent = 0, ![r].text = "none",
                                    ![r].read = 0,
                                    ![r].rev = IF Unchanged(r) THEN state'.rev ELSE @,
                                    ![r].decision = [@ EXCEPT !.verdict = verdict, !.of = of]]
        PROVE  Inv'
    <2> DEFINE rev == IF Unchanged(r) THEN state'.rev ELSE runs[r].rev
               decision == [runs[r].decision EXCEPT !.verdict = verdict, !.of = of]
               x == [runs[r] EXCEPT !.at = "decide", !.agent = 0, !.text = "none", !.read = 0,
                                    !.rev = rev, !.decision = decision]
    <2>1. /\ runs[r] \in RunRecords /\ state.rev \in Nat
          /\ Current(runs[r], state, review) /\ runs[r].rev \in Nat /\ 0 \in 0..MaxSubject
          /\ runs[r].decision \in Decisions
      BY ReviewBefore, BoundsAssumption DEF Inv, RunRecords
    <2>2. state'.rev \in Nat /\ state'.rev >= state.rev
      BY <2>1 DEF Grows, WorkflowStates
    <2>3. rev \in Nat /\ rev <= state'.rev
      BY <2>1, <2>2 DEF Current
    <2>4. /\ decision \in Decisions /\ decision.plan = runs[r].decision.plan
          /\ decision.found = runs[r].decision.found
      BY <2>1 DEF Decisions
    <2>5. runs' = [runs EXCEPT ![r] = x]
      BY <1>2, <2>1, ReviewBefore DEF RunRecords, Decisions
    <2> HIDE DEF rev, decision
    <2>6. x \in RunRecords /\ x.rev = rev /\ x.decision = decision /\ x.at = "decide"
      BY <2>1, <2>3, <2>4 DEF RunRecords, RunStages, Texts
    <2> HIDE DEF x
    <2>7. ~decision.found => decision.plan \in Recorded(state', review')
      BY <2>1, <2>4 DEF Current, Deciding, Grows
    <2>8. Current(x, state', review')
      BY <2>3, <2>6, <2>7 DEF Current
    <2> QED BY <2>5, <2>6, <2>8, RunMoves
  <1> QED BY <1>1, <1>2 DEF Reads

(* The plan that goes on record with the agent is the one that is on       *)
(* record, or the first.                                                   *)
LEMMA RunReviewKeeps ==
    ASSUME Inv, NEW r \in Run, RunReview(r)
    PROVE  ReviewerKeeps
  <1> DEFINE plan == runs[r].decision.plan
             of == runs[r].decision.of
  <1>1. /\ plan \in 0..MaxSubject /\ of \in 0..MaxSubject
        /\ state \in WorkflowStates /\ review \in Reviews
        /\ state.rev + 1 \in Nat /\ faults' \in Nat /\ state.active \in 0..MaxSubject
    BY ReviewBefore DEF RunRecords, Decisions, RunReview, Fault, WorkflowStates
  <1>2. PICK text \in Verdicts \union {"unparsed"} :
           /\ IF Unchanged(r)
                THEN /\ state' = [state EXCEPT !.rev = @ + 1, !.agent = plan, !.subject = plan,
                                               !.active = IF @ = 0 THEN plan ELSE @]
                     /\ review' = [review EXCEPT !.text = text, !.of = of]
                ELSE UNCHANGED <<state, review>>
           /\ Reads(r, text, of)
    BY DEF RunReview
  <1>3. UNCHANGED <<jobs, sent, disp, linear>> /\ runs[r].at = "agent"
    BY DEF RunReview
  <1>4. /\ review' \in Reviews /\ review'.last = review.last
        /\ review'.superseded = review.superseded
    BY <1>1, <1>2 DEF Reviews, Texts
  <1>5. Unchanged(r) => state.subject = 0 \/ state.subject = plan
    BY <1>3 DEF Inv, Current, Unchanged
  <1>6. \/ state' = state
        \/ /\ state' \in WorkflowStates /\ state'.rev = state.rev + 1
           /\ state'.effect = state.effect /\ state'.phase = state.phase
           /\ state'.subject = state.subject \/ state.subject = 0
    BY <1>1, <1>2, <1>5 DEF WorkflowStates
  <1>7. Recorded(state, review) \subseteq Recorded(state', review')
    BY <1>4, <1>6 DEF Recorded
  <1>8. Planned(state')
    BY <1>6 DEF Planned, Inv
  <1>9. EffectInv' /\ OnceStep /\ Grows
    BY <1>1, <1>3, <1>6, <1>7, <1>8, ReviewBefore, ReviewQuiet
  <1>10. Inv'
    BY <1>1, <1>2, <1>3, <1>4, <1>9, ReviewBefore, ReadsKeeps
  <1> QED BY <1>4, <1>9, <1>10 DEF ReviewerKeeps, NoStaleStep

LEMMA RunReparseKeeps ==
    ASSUME Inv, NEW r \in Run, RunReparse(r)
    PROVE  ReviewerKeeps
  <1>1. PICK text : Reads(r, text, runs[r].read)
    BY DEF RunReparse
  <1>2. runs[r].read \in 0..MaxSubject /\ runs[r].at = "agent"
    BY ReviewBefore DEF RunRecords, RunReparse
  <1>3. UNCHANGED <<state, jobs, sent, disp, faults, linear, review>>
    BY DEF RunReparse
  <1>4. EffectInv' /\ OnceStep /\ Grows
    BY <1>3, StillReview, ReviewBefore
  <1>5. Inv'
    BY <1>1, <1>2, <1>3, <1>4, ReviewBefore, ReadsKeeps
  <1> QED BY <1>3, <1>4, <1>5 DEF ReviewerKeeps, NoStaleStep

LEMMA ConflictKeeps ==
    ASSUME Inv, NEW r \in Run, Conflict(r), runs[r].at \in Deciding,
           UNCHANGED <<state, jobs, sent, disp, faults, linear, review>>
    PROVE  ReviewerKeeps
  <1>0. "run_failed" \in Completions
    BY DEF Completions
  <1>1. CASE Results(r, "run_failed")
    BY <1>0, <1>1, LeavesKeeps, ReviewBefore
  <1>2. CASE runs' = [runs EXCEPT ![r].at = "decide", ![r].tries = @ + 1, ![r].rev = state.rev]
    <2> DEFINE x == [runs[r] EXCEPT !.at = "decide", !.tries = @ + 1, !.rev = state.rev]
    <2>1. runs[r] \in RunRecords /\ state.rev \in Nat /\ Current(runs[r], state, review)
          /\ runs[r].tries + 1 \in Nat
      BY ReviewBefore DEF Inv, RunRecords
    <2>2. x \in RunRecords /\ x.rev = state.rev /\ x.decision = runs[r].decision
          /\ x.at = "decide"
      BY <2>1 DEF RunRecords, RunStages
    <2>3. runs' = [runs EXCEPT ![r] = x]
      BY <1>2, ReviewBefore DEF RunRecords
    <2> HIDE DEF x
    <2>4. Current(x, state, review)
      BY <2>1, <2>2 DEF Current, Deciding
    <2> QED BY <2>2, <2>3, <2>4, GoesOn
  <1> QED BY <1>1, <1>2 DEF Conflict

(* Only a decision about the plan on record gets to be applied.            *)
LEMMA RunDecideKeeps ==
    ASSUME Inv, NEW r \in Run, RunDecide(r)
    PROVE  ReviewerKeeps
  <1> DEFINE decision == runs[r].decision
  <1>1. UNCHANGED <<state, jobs, sent, disp, faults, linear, review>>
    BY DEF RunDecide
  <1>2. CASE Conflict(r)
    BY <1>1, <1>2, ConflictKeeps DEF RunDecide, Deciding
  <1>3. CASE Results(r, "run_failed")
    <2>1. "run_failed" \in Completions
      BY DEF Completions
    <2> QED BY <1>1, <1>3, <2>1, LeavesKeeps, ReviewBefore
  <1>4. CASE /\ ~Superseded(decision.plan)
             /\ runs' = [runs EXCEPT ![r].at = "apply",
                                     ![r].status = StatusOf(NextPhase(decision))]
    <2> DEFINE status == StatusOf(NextPhase(decision))
               x == [runs[r] EXCEPT !.at = "apply", !.status = status]
    <2>1. runs[r] \in RunRecords /\ Current(runs[r], state, review) /\ runs[r].at = "decide"
      BY ReviewBefore DEF Inv, RunDecide
    <2>7. status \in Statuses
      BY DEF StatusOf, Statuses
    <2>2. runs' = [runs EXCEPT ![r] = x]
      BY <1>4, ReviewBefore DEF RunRecords
    <2> HIDE DEF status
    <2>3. x \in RunRecords /\ x.rev = runs[r].rev /\ x.decision = decision /\ x.at = "apply"
      BY <2>7, <2>1 DEF RunRecords, RunStages
    <2> HIDE DEF x
    <2>5. /\ ~decision.found => decision.plan \in Recorded(state, review)
          /\ decision.plan \notin review.superseded
      BY <1>4, <2>1 DEF Current, Deciding, Superseded
    <2>6. ~decision.found => decision.plan = state.subject
      BY <2>5 DEF Recorded
    <2>4. Current(x, state, review)
      BY <2>1, <2>3, <2>5, <2>6 DEF Current
    <2> QED BY <1>1, <2>2, <2>3, <2>4, GoesOn
  <1> QED BY <1>2, <1>3, <1>4 DEF RunDecide

LEMMA RunApplyKeeps ==
    ASSUME Inv, NEW r \in Run, RunApply(r)
    PROVE  ReviewerKeeps
  <1> DEFINE decision == runs[r].decision
             x == [NoRunYet EXCEPT !.at = "show", !.job = runs[r].job, !.result = NoRunYet.result,
                                   !.status = runs[r].status]
             shows == runs' = [runs EXCEPT ![r] = [NoRunYet EXCEPT !.at = "show",
                                   !.job = runs[r].job, !.status = runs[r].status]]
  <1>0. UNCHANGED <<jobs, sent, disp, faults, linear>>
    BY DEF RunApply
  <1>1. /\ runs[r] \in RunRecords /\ decision \in Decisions /\ runs[r].at = "apply"
        /\ Current(runs[r], state, review) /\ review \in Reviews /\ state \in WorkflowStates
        /\ state.rev + 1 \in Nat
    BY ReviewBefore DEF RunApply, Inv, RunRecords
  <1>2. ASSUME shows, Grows PROVE runs' = [runs EXCEPT ![r] = x] /\ x \in RunRecords
                                     /\ Current(x, state', review')
    <2>1. /\ runs[r].job \in 0..MaxSubject /\ runs[r].status \in Statuses
          /\ NoRunYet.result \in Completions /\ "show" \in RunStages \ Deciding
      BY <1>1, IdleRun DEF RunRecords, RunStages, Deciding
    <2>2. x \in RunRecords /\ Current(x, state', review')
      BY <1>2, <2>1, BareRun
    <2>3. x = [NoRunYet EXCEPT !.at = "show", !.job = runs[r].job, !.status = runs[r].status]
      BY IdleRun DEF RunRecords
    <2> QED BY <1>2, <2>2, <2>3
  <1> HIDE DEF x, shows
  <1>3. CASE Unchanged(r) /\ Accepted(decision) /\ shows
    <2> DEFINE plan == IF decision.found THEN decision.plan ELSE state.subject
    <2>1. decision.plan \in 0..MaxSubject /\ NextPhase(decision) \in Phases
          /\ NextPhase(decision) # "plan_review"
      BY <1>1 DEF Decisions, NextPhase, Phases
    <2>2. plan \in 0..MaxSubject /\ Replaced(plan) \subseteq Subject
      BY <2>1, ReviewBefore, SubjectRange DEF Replaced
    <2>3. /\ state' = [state EXCEPT !.rev = @ + 1, !.decided = decision.plan, !.subject = plan,
                                    !.phase = NextPhase(decision)]
          /\ review' = [review EXCEPT !.last = decision,
                !.superseded = @ \union Replaced(plan),
                !.cycles = IF NextPhase(decision) = "planning_dispatch" THEN @ + 1 ELSE @]
      BY <1>3 DEF Accepted
    <2> HIDE DEF plan
    <2>4. /\ state' \in WorkflowStates /\ state'.rev = state.rev + 1
          /\ state'.effect = state.effect /\ state'.subject = plan
          /\ state'.phase # "plan_review"
      BY <1>1, <2>1, <2>2, <2>3 DEF WorkflowStates
    <2>5. review' \in Reviews /\ review'.last = decision
          /\ review'.superseded = review.superseded \union Replaced(plan)
      <3>1. review.cycles \in Nat /\ review.cycles + 1 \in Nat
        BY <1>1 DEF Reviews
      <3> QED BY <1>1, <2>2, <2>3, <3>1 DEF Reviews
    <2>7. ~decision.found => decision.plan = state.subject
      BY <1>1, <1>3 DEF Current, Unchanged
    <2>8. Recorded(state, review) \subseteq Recorded(state', review')
      BY <2>4, <2>5 DEF Recorded, Replaced
    <2>9. EffectInv' /\ OnceStep /\ Grows
      BY <1>0, <2>4, <2>8, ReviewBefore, ReviewQuiet DEF Planned
    <2>6. Inv'
      BY <1>0, <1>2, <1>3, <2>5, <2>9, ReviewBefore, RunMoves
    <2> QED BY <2>5, <2>6, <2>7, <2>9 DEF ReviewerKeeps, NoStaleStep
  <1>4. CASE UNCHANGED <<state, review>> /\ shows
    <2>1. EffectInv' /\ OnceStep /\ Grows
      BY <1>0, <1>4, StillReview, ReviewBefore
    <2>2. Inv'
      BY <1>0, <1>2, <1>4, <2>1, ReviewBefore, RunMoves
    <2> QED BY <1>4, <2>1, <2>2 DEF ReviewerKeeps, NoStaleStep
  <1>5. CASE UNCHANGED <<state, review>> /\ Conflict(r)
    BY <1>0, <1>1, <1>5, ConflictKeeps DEF Deciding
  <1> QED BY <1>3, <1>4, <1>5 DEF RunApply, shows

----------------------------------------------------------------------------
LEMMA InitInv == Init => Inv /\ Once!Init
  <1> SUFFICES ASSUME Init PROVE Inv /\ Once!Init
    OBVIOUS
  <1>1. /\ state = [NoState EXCEPT !.rev = 1, !.phase = "planning"]
        /\ NoState \in WorkflowStates /\ NoState.active = 0
        /\ NoState.subject = 0
    BY NoStateType DEF Init, NoState
  <1>2. /\ state \in WorkflowStates /\ state.effect = NoState.effect /\ state.active = 0
        /\ state.phase = "planning" /\ state.rev = 1 /\ state.subject = 0
    BY <1>1 DEF WorkflowStates, Phases
  <1>3. EffectInv /\ Once!Init
    BY <1>2, InitGives DEF Init
  <1>4. review \in Reviews
    <2>1. 0 \in 0..MaxSubject /\ 0 \in Nat /\ {} \in SUBSET Subject /\ "none" \in Texts
      BY BoundsAssumption DEF Texts
    <2> QED BY <2>1, IdleRun DEF Init, Reviews
  <1>5. ReviewTypes
    BY <1>4, IdleRun DEF Init, ReviewTypes, Statuses
  <1>6. \A r \in Run : runs[r] = NoRunYet
    BY DEF Init
  <1>7. \A r \in Run : Current(runs[r], state, review)
    <2>1. NoRunYet.at \notin Deciding
      BY DEF NoRunYet, Deciding
    <2>2. Current(NoRunYet, state, review)
      BY <1>2, <2>1, IdleRun DEF Current, Deciding
    <2> QED BY <1>6, <2>2
  <1> QED BY <1>2, <1>3, <1>5, <1>7 DEF Inv, Planned

LEMMA NextInv == Inv /\ [Next]_vars => ReviewerKeeps
  <1> SUFFICES ASSUME Inv, [Next]_vars PROVE ReviewerKeeps
    OBVIOUS
  <1>1. ASSUME NEW d \in Dispatcher, Started(d) \/ Dispatch(d) \/ Failure(d)
        PROVE  ReviewerKeeps
    BY <1>1, DispatchKeeps DEF ReviewerKeeps, NoStaleStep
  <1>2. ASSUME NEW r \in Run, Review(r) PROVE ReviewerKeeps
    BY <1>2, StartRunKeeps, LeavingRuns, RunPhaseKeeps, RunReviewKeeps, RunReparseKeeps,
       RunDecideKeeps, RunApplyKeeps, RunEndKeeps DEF Review
  <1>3. ASSUME UNCHANGED <<effectVars, reviewVars>>, linear' \in Statuses
        PROVE  ReviewerKeeps
    <2>1. UNCHANGED <<state, jobs, sent, disp, faults, review, runs>>
      BY <1>3 DEF effectVars, reviewVars
    <2>2. EffectInv' /\ OnceStep /\ Grows
      BY <2>1, StillReview, ReviewBefore
    <2>3. ReviewTypes'
      BY <1>3, <2>1 DEF Inv, ReviewTypes
    <2>4. Planned(state') /\ \A r \in Run : Current(runs'[r], state', review')
      BY <2>1, <2>2, RunsStay
    <2>5. Inv'
      BY <2>2, <2>3, <2>4 DEF Inv, Planned, Current, Recorded
    <2> QED BY <2>1, <2>2, <2>5 DEF ReviewerKeeps, NoStaleStep
  <1>4. CASE Resume
    BY <1>3, <1>4 DEF Resume, Statuses
  <1>5. CASE UNCHANGED vars
    BY <1>3, <1>5, ReviewBefore DEF vars
  <1> QED BY <1>1, <1>2, <1>4, <1>5 DEF Next

(* The inductive invariant holds throughout.                               *)
THEOREM Invariance == Spec => []Inv
  <1>1. Inv /\ [Next]_vars => Inv'
    BY NextInv DEF ReviewerKeeps
  <1> QED BY <1>1, InitInv, PTL DEF Spec

(* Every variable keeps its type.                                          *)
THEOREM TypeCorrect == Spec => []TypeOK
  <1>1. Inv => TypeOK
    BY EffectGives DEF Inv, ReviewTypes, TypeOK
  <1> QED BY <1>1, Invariance, PTL

(* Between a claim and its mark the claim on record is the claimer's own   *)
(* (claimPlanReviewDispatchEffect).                                        *)
THEOREM OneDispatcherCorrect == Spec => []OneDispatcher
  <1>1. Inv => OneDispatcher
    BY EffectGives DEF Inv
  <1> QED BY <1>1, Invariance, PTL

(* What a dispatcher reports as started, recovered or already present has  *)
(* an envelope (ensurePlanReviewJobDispatched).                            *)
THEOREM ProvenCorrect == Spec => []ProvenIsRequested
  <1>1. Inv => ProvenIsRequested
    BY EffectGives DEF Inv
  <1> QED BY <1>1, Invariance, PTL

(* No decision about a plan that was found on record is accepted for       *)
(* another one ("superseded_plan", evaluateReviewTransition): the run      *)
(* looks its plan up among the superseded ones at the revision it then     *)
(* writes against, which is still the one on record when the write lands.  *)
THEOREM NoStaleDecisionCorrect == Spec => NoStaleDecision
  <1>1. Inv /\ [Next]_vars =>
           [review'.last # review.last /\ ~review'.last.found
               => review'.last.plan = state.subject]_vars
    BY NextInv DEF ReviewerKeeps, NoStaleStep
  <1> QED BY <1>1, Invariance, PTL DEF Spec, NoStaleDecision

(* Starting plan reviews implements RequestOnce: a request is made by      *)
(* nobody but the owner of the claim, recorded only when it exists, and a  *)
(* recorded plan is never claimed again.                                   *)
THEOREM Refines == Spec => ImplementsRequestOnce
  <1>1. Init => Once!Init
    BY InitInv
  <1>2. Inv /\ [Next]_vars => [Once!Next]_(Once!vars)
    BY NextInv DEF ReviewerKeeps, OnceStep
  <1> QED BY <1>1, <1>2, Invariance, PTL DEF Spec, ImplementsRequestOnce, Once!Spec
=============================================================================
