------------------------- MODULE DispatchEffectProof -------------------------
(***************************************************************************)
(* Proofs about DispatchEffect, for the modules that complete it: what     *)
(* every dispatcher holds, that the shared steps keep it, and that they    *)
(* are steps of RequestOnce.  No bound on subjects, dispatchers, runs or   *)
(* faults is assumed, and the branch may have other writers.               *)
(***************************************************************************)
EXTENDS DispatchEffect, TLAPS

(* Outcomes that say the job was started.                                  *)
Proving == Found \union {"dispatched", "false_duplicate_recovered",
                         "unresolved_decision_recovered"}

(* Stages a dispatcher only reaches with its envelope there.               *)
Known == {"send", "mark", "repair", "repairMark", "reopen", "resend"}

(* Stages in which the claim on record is its own.                         *)
Owning == {"present", "create", "send", "mark", "repair", "repairMark", "block"}

(* Stages whose held record may be written.                                *)
Writing == {"pending", "project", "claim"} \union Owning

(* Two records of an effect that make no difference to its owner and to    *)
(* whether it is on record.                                                *)
Ready(e) == e.status \notin {"dispatching", "dispatched"}
Agree(e, f) == e = f \/ (Ready(e) /\ Ready(f))

Exists(jb, s) == jb[s].state # "absent"

(* What dispatcher d, at record p, knows of the state and the envelopes:   *)
(* a held record of the stored revision agrees with the stored one, which  *)
(* is what makes its compare-and-set meaningful.                           *)
Subjected(p) == p.at \notin {"idle", "plan", "report", "done"} => p.subject \in Subject
Backed(p, jb) ==
    p.at \in Known \/ p.outcome \in Proving => p.subject \in Subject /\ Exists(jb, p.subject)
HeldBacked(p, jb) == \A s \in Subject : p.held.effect[s].status = "dispatched" => Exists(jb, s)
Owns(d, p, st) ==
    p.at \in Owning => st.effect[p.subject] = [status |-> "dispatching", owner |-> d]
Fresh(p, st) ==
    p.at \in Writing =>
        /\ p.held.rev <= st.rev
        /\ p.held.rev = st.rev => /\ p.held.subject = st.subject /\ p.held.phase = st.phase
                                  /\ \A s \in Subject : Agree(p.held.effect[s], st.effect[s])

Holds(d, p, st, jb) ==
    /\ p \in DispRecords /\ Subjected(p) /\ Backed(p, jb) /\ HeldBacked(p, jb)
    /\ Owns(d, p, st) /\ Fresh(p, st)

Stored(st, jb) ==
    /\ st \in WorkflowStates /\ jb \in [Subject -> Envelopes]
    /\ \A s \in Subject : st.effect[s].status = "dispatched" => Exists(jb, s)

EffectInv ==
    /\ Stored(state, jobs)
    /\ sent \in [Subject -> Nat] /\ faults \in Nat
    /\ disp = [d \in Dispatcher |-> disp[d]]
    /\ \A d \in Dispatcher : Holds(d, disp[d], state, jobs)

(* A step of RequestOnce, or none.                                         *)
OnceStep == [Once!Next]_(Once!vars)

----------------------------------------------------------------------------
(* Types.                                                                  *)
LEMMA JobTypes ==
    ASSUME NEW e \in Envelopes
    PROVE  /\ NoEnvelope \in Envelopes /\ NewEnvelope \in Envelopes
           /\ NewEnvelope.state = "pending" /\ NoEnvelope.state = "absent"
           /\ Reopened(e) \in Envelopes /\ Reopened(e).state = "pending"
           /\ \A r \in Run : Claimed(e, r) \in Envelopes /\ Claimed(e, r).state = "claimed"
           /\ \A s \in EnvelopeStates, c \in Completions :
                 Terminalized(e, s, c) \in Envelopes /\ Terminalized(e, s, c).state = s
  <1> USE DEF Envelopes
  <1>0. e.rev + 1 \in Nat
    OBVIOUS
  <1>1. NoEnvelope \in Envelopes /\ NoEnvelope.state = "absent"
    BY DEF NoEnvelope, EnvelopeStates, Completions, AckStates, DispatchStates
  <1>2. NewEnvelope \in Envelopes /\ NewEnvelope.state = "pending"
    BY <1>1 DEF NewEnvelope, EnvelopeStates
  <1>3. Reopened(e) \in Envelopes /\ Reopened(e).state = "pending"
    BY <1>0 DEF Reopened, EnvelopeStates, Completions, DispatchStates
  <1>4. \A r \in Run : Claimed(e, r) \in Envelopes /\ Claimed(e, r).state = "claimed"
    BY <1>0 DEF Claimed, EnvelopeStates
  <1>5. \A s \in EnvelopeStates, c \in Completions :
           Terminalized(e, s, c) \in Envelopes /\ Terminalized(e, s, c).state = s
    BY <1>0 DEF Terminalized
  <1> QED BY <1>1, <1>2, <1>3, <1>4, <1>5

LEMMA SubjectRange == \A s : s \in Subject <=> s \in 0..MaxSubject /\ s # 0
  BY BoundsAssumption DEF Subject

LEMMA InitEnvelope == NoEnvelope \in Envelopes /\ NoEnvelope.state = "absent"
  BY DEF Envelopes, NoEnvelope, EnvelopeStates, Completions, AckStates, DispatchStates

LEMMA NoStateType ==
    /\ NoState \in WorkflowStates
    /\ NoState.rev = 0 /\ NoState.active = 0
    /\ \A s \in Subject : NoState.effect[s].status = "none"
  <1>1. [status |-> "none", owner |-> NoOwner] \in Effects
    BY DEF Effects, EffectStatuses
  <1>2. 0 \in 0..MaxSubject /\ 0 \in Nat
    BY BoundsAssumption
  <1> QED BY <1>1, <1>2 DEF NoState, WorkflowStates, Phases

LEMMA IdleType == Idle \in DispRecords
  BY NoStateType, BoundsAssumption, JobTypes DEF Idle, DispRecords, Stages, Modes, Outcomes,
     Envelopes, NoEnvelope, EnvelopeStates, Completions, AckStates, DispatchStates

(* The next records of the state.                                          *)
LEMMA StateTypes ==
    ASSUME NEW st \in WorkflowStates, NEW s \in Subject
    PROVE  /\ \A d \in Dispatcher :
                /\ ClaimedBy(st, s, d) \in WorkflowStates
                /\ ClaimedBy(st, s, d).rev = st.rev /\ ClaimedBy(st, s, d).active = st.active
                /\ ClaimedBy(st, s, d).phase = st.phase /\ ClaimedBy(st, s, d).subject = st.subject
                /\ ClaimedBy(st, s, d).effect[s] = [status |-> "dispatching", owner |-> d]
                /\ \A t \in Subject \ {s} : ClaimedBy(st, s, d).effect[t] = st.effect[t]
           /\ \A x \in EffectStatuses :
                /\ Patched(st, s, x) \in WorkflowStates
                /\ Patched(st, s, x).rev = st.rev /\ Patched(st, s, x).active = st.active
                /\ Patched(st, s, x).phase = st.phase /\ Patched(st, s, x).subject = st.subject
                /\ Patched(st, s, x).effect[s].status = x
                /\ \A t \in Subject \ {s} : Patched(st, s, x).effect[t] = st.effect[t]
  <1>1. st.effect \in [Subject -> Effects]
    BY DEF WorkflowStates
  <1>2. ASSUME NEW e \in Effects
        PROVE  [st EXCEPT !.effect = [st.effect EXCEPT ![s] = e]] \in WorkflowStates
    BY <1>1, <1>2 DEF WorkflowStates
  <1>3. ASSUME NEW d \in Dispatcher
        PROVE  /\ ClaimedBy(st, s, d) \in WorkflowStates
               /\ ClaimedBy(st, s, d).rev = st.rev /\ ClaimedBy(st, s, d).active = st.active
               /\ ClaimedBy(st, s, d).phase = st.phase /\ ClaimedBy(st, s, d).subject = st.subject
               /\ ClaimedBy(st, s, d).effect[s] = [status |-> "dispatching", owner |-> d]
               /\ \A t \in Subject \ {s} : ClaimedBy(st, s, d).effect[t] = st.effect[t]
    <2>1. [status |-> "dispatching", owner |-> d] \in Effects
      BY DEF Effects, EffectStatuses
    <2>2. ClaimedBy(st, s, d)
             = [st EXCEPT !.effect = [st.effect EXCEPT ![s] = [status |-> "dispatching", owner |-> d]]]
      BY <1>1 DEF ClaimedBy, WorkflowStates
    <2> QED BY <1>1, <1>2, <2>1, <2>2 DEF WorkflowStates
  <1>4. ASSUME NEW x \in EffectStatuses
        PROVE  /\ Patched(st, s, x) \in WorkflowStates
               /\ Patched(st, s, x).rev = st.rev /\ Patched(st, s, x).active = st.active
               /\ Patched(st, s, x).phase = st.phase /\ Patched(st, s, x).subject = st.subject
               /\ Patched(st, s, x).effect[s].status = x
               /\ \A t \in Subject \ {s} : Patched(st, s, x).effect[t] = st.effect[t]
    <2> DEFINE e == [st.effect[s] EXCEPT !.status = x]
    <2>1. e \in Effects /\ e.status = x
      BY <1>1 DEF Effects
    <2>2. Patched(st, s, x) = [st EXCEPT !.effect = [st.effect EXCEPT ![s] = e]]
      BY <1>1 DEF Patched, WorkflowStates
    <2> QED BY <1>1, <1>2, <2>1, <2>2 DEF WorkflowStates
  <1> QED BY <1>3, <1>4

----------------------------------------------------------------------------
(* A write lands on the record that is held, numbered one above it, and    *)
(* changes no other subject than the one it is about.                      *)
LEMMA WriteLands ==
    ASSUME EffectInv, NEW d \in Dispatcher, disp[d].at \in Writing, NEW s,
           NEW next \in WorkflowStates, CasWon(d, next),
           next.rev = disp[d].held.rev,
           \A t \in Subject \ {s} : Agree(next.effect[t], disp[d].held.effect[t])
    PROVE  /\ state' \in WorkflowStates /\ state'.rev = state.rev + 1
           /\ disp[d].held.rev = state.rev
           /\ state'.effect = next.effect /\ state'.active = next.active
           /\ state'.subject = next.subject /\ disp[d].held.subject = state.subject
           /\ state'.phase = next.phase /\ disp[d].held.phase = state.phase
           /\ \A t \in Subject \ {s} : Agree(state'.effect[t], state.effect[t])
  <1>1. /\ state \in WorkflowStates /\ disp[d].held.rev = state.rev
        /\ disp[d].held.subject = state.subject /\ disp[d].held.phase = state.phase
        /\ \A t \in Subject : Agree(disp[d].held.effect[t], state.effect[t])
    BY DEF EffectInv, Stored, Holds, Fresh, CasWon
  <1>2. state' = [next EXCEPT !.rev = @ + 1] /\ state.rev \in Nat
    BY <1>1 DEF CasWon, WorkflowStates
  <1>3. state' \in WorkflowStates /\ state'.rev = state.rev + 1 /\ state'.effect = next.effect
        /\ state'.active = next.active /\ state'.subject = next.subject
        /\ state'.phase = next.phase
    BY <1>1, <1>2 DEF WorkflowStates
  <1> QED BY <1>1, <1>3 DEF Agree

(* The other dispatchers keep what they know when a step takes nothing     *)
(* they own and withdraws no envelope.                                     *)
Unowned(s, d) == \A e \in Dispatcher \ {d} : disp[e].at \in Owning => disp[e].subject # s

LEMMA OthersKeep ==
    ASSUME EffectInv, NEW d \in Dispatcher, NEW s,
           \/ state' = state
           \/ /\ state'.rev \in Nat /\ state'.rev > state.rev
              /\ Unowned(s, d)
              /\ \A t \in Subject \ {s} : Agree(state'.effect[t], state.effect[t]),
           \A t \in Subject : Exists(jobs, t) => Exists(jobs', t),
           NEW e \in Dispatcher \ {d}, disp'[e] = disp[e]
    PROVE  Holds(e, disp'[e], state', jobs')
  <1> DEFINE p == disp[e]
  <1>0. Holds(e, p, state, jobs) /\ state \in WorkflowStates
    BY DEF EffectInv, Stored
  <1>1. p \in DispRecords /\ Subjected(p)
    BY <1>0 DEF Holds
  <1>2. Backed(p, jobs') /\ HeldBacked(p, jobs')
    BY <1>0 DEF Holds, Backed, HeldBacked
  <1>3. Owns(e, p, state')
    <2> SUFFICES ASSUME p.at \in Owning
                 PROVE  state'.effect[p.subject] = [status |-> "dispatching", owner |-> e]
      BY DEF Owns
    <2>1. /\ p.subject \in Subject
          /\ state.effect[p.subject] = [status |-> "dispatching", owner |-> e]
      BY <1>0 DEF Holds, Subjected, Owns, Owning
    <2> QED BY <2>1 DEF Agree, Ready, Unowned
  <1>4. Fresh(p, state')
    <2>1. state.rev \in Nat /\ p.held.rev \in Nat
      BY <1>0, <1>1 DEF DispRecords, WorkflowStates
    <2> QED BY <1>0, <2>1 DEF Holds, Fresh
  <1> QED BY <1>1, <1>2, <1>3, <1>4 DEF Holds

(* So a step of d keeps the invariant if it leaves d with what it should   *)
(* know.                                                                   *)
LEMMA StepKeeps ==
    ASSUME EffectInv, NEW d \in Dispatcher, NEW s, NEW p,
           \/ state' = state
           \/ /\ state' \in WorkflowStates /\ state'.rev > state.rev
              /\ Unowned(s, d)
              /\ \A t \in Subject \ {s} : Agree(state'.effect[t], state.effect[t])
              /\ s \in Subject /\ state'.effect[s].status = "dispatched" => Exists(jobs', s),
           jobs' \in [Subject -> Envelopes],
           \A t \in Subject : Exists(jobs, t) => Exists(jobs', t),
           disp' = [disp EXCEPT ![d] = p],
           Holds(d, p, state', jobs'),
           sent' \in [Subject -> Nat], faults' \in Nat
    PROVE  EffectInv'
  <1>1. state \in WorkflowStates /\ \A t \in Subject :
            state.effect[t].status = "dispatched" => Exists(jobs, t)
    BY DEF EffectInv, Stored
  <1>2. Stored(state', jobs')
    BY <1>1 DEF Stored, Agree, Ready
  <1>3. disp' = [e \in Dispatcher |-> disp'[e]] /\ disp'[d] = p
        /\ \A e \in Dispatcher \ {d} : disp'[e] = disp[e]
    BY DEF EffectInv
  <1>4. state' = state \/ state'.rev \in Nat
    BY DEF WorkflowStates
  <1>5. ASSUME NEW e \in Dispatcher \ {d} PROVE Holds(e, disp'[e], state', jobs')
    BY <1>3, <1>4, <1>5, OthersKeep
  <1>6. \A e \in Dispatcher : Holds(e, disp'[e], state', jobs')
    BY <1>3, <1>5
  <1> QED BY <1>2, <1>3, <1>6 DEF EffectInv

LEMMA NoSubjectUnowned ==
    ASSUME EffectInv, NEW d \in Dispatcher
    PROVE  0 \notin Subject /\ Unowned(0, d)
  <1>1. \A e \in Dispatcher : disp[e].at \in Owning => disp[e].subject \in Subject
    BY DEF EffectInv, Holds, Subjected, Owning
  <1> QED BY <1>1, SubjectRange DEF Unowned

(* An owner is alone with its subject.                                     *)
LEMMA OwnerAlone ==
    ASSUME EffectInv, NEW d \in Dispatcher, disp[d].at \in Owning
    PROVE  /\ disp[d].subject \in Subject
           /\ state.effect[disp[d].subject] = [status |-> "dispatching", owner |-> d]
           /\ Unowned(disp[d].subject, d)
  <1>1. \A e \in Dispatcher : disp[e].at \in Owning =>
           /\ disp[e].subject \in Subject
           /\ state.effect[disp[e].subject] = [status |-> "dispatching", owner |-> e]
    BY DEF EffectInv, Holds, Subjected, Owns, Owning
  <1>2. ASSUME NEW e \in Dispatcher \ {d}, disp[e].at \in Owning,
               disp[e].subject = disp[d].subject
        PROVE  FALSE
    <2>1. state.effect[disp[d].subject] = [status |-> "dispatching", owner |-> d]
      BY <1>1
    <2>2. state.effect[disp[d].subject] = [status |-> "dispatching", owner |-> e]
      BY <1>1, <1>2
    <2>3. [status |-> "dispatching", owner |-> d] # [status |-> "dispatching", owner |-> e]
      BY <1>2
    <2> QED BY <2>1, <2>2, <2>3
  <1> QED BY <1>1, <1>2 DEF Unowned

(* Steps that change no effect.                                            *)
LEMMA QuietKeeps ==
    ASSUME EffectInv, disp' = disp,
           state' \in WorkflowStates, state'.effect = state.effect,
           state' = state \/ state'.rev > state.rev,
           jobs' \in [Subject -> Envelopes],
           \A t \in Subject : Exists(jobs', t) <=> Exists(jobs, t),
           sent' \in [Subject -> Nat], faults' \in Nat
    PROVE  EffectInv' /\ OnceStep
  <1>1. Stored(state', jobs')
    BY DEF EffectInv, Stored
  <1>2. ASSUME NEW d \in Dispatcher PROVE Holds(d, disp'[d], state', jobs')
    <2>0. Holds(d, disp[d], state, jobs) /\ state \in WorkflowStates
      BY DEF EffectInv, Stored
    <2>1. state.rev \in Nat /\ state'.rev \in Nat /\ disp[d].held.rev \in Nat
      BY <2>0 DEF Holds, DispRecords, WorkflowStates
    <2>2. Backed(disp[d], jobs') /\ HeldBacked(disp[d], jobs')
      BY <2>0 DEF Holds, Backed, HeldBacked
    <2>3. Owns(d, disp[d], state') /\ Fresh(disp[d], state')
      BY <2>0, <2>1 DEF Holds, Owns, Fresh
    <2> QED BY <2>0, <2>2, <2>3 DEF Holds
  <1>3. EffectInv'
    BY <1>1, <1>2 DEF EffectInv
  <1>4. UNCHANGED Once!vars
    BY DEF Once!vars, Durable, Request, Exists
  <1> QED BY <1>3, <1>4 DEF OnceStep

----------------------------------------------------------------------------
(* A step that leaves the stored state alone.                              *)
LEMMA Walks ==
    ASSUME EffectInv, NEW d \in Dispatcher, NEW p \in DispRecords,
           disp' = [disp EXCEPT ![d] = p], state' = state,
           jobs' \in [Subject -> Envelopes],
           \A t \in Subject : Exists(jobs, t) => Exists(jobs', t),
           sent' \in [Subject -> Nat], faults' \in Nat,
           Subjected(p), Backed(p, jobs'),
           p.held \in {disp[d].held, NoState, state} \/ HeldBacked(p, jobs'),
           p.at \in Owning => disp[d].at \in Owning /\ p.subject = disp[d].subject,
           p.at \in Writing => \/ p.held = state
                               \/ p.held = disp[d].held /\ disp[d].at \in Writing
    PROVE  EffectInv'
  <1>0. Holds(d, disp[d], state, jobs) /\ Stored(state, jobs)
    BY DEF EffectInv
  <1>1. HeldBacked(p, jobs')
    BY <1>0, NoStateType DEF Holds, HeldBacked, Stored
  <1>2. Owns(d, p, state')
    BY <1>0 DEF Holds, Owns
  <1>3. Fresh(p, state')
    <2>1. state.rev \in Nat
      BY <1>0 DEF Stored, WorkflowStates
    <2> QED BY <1>0, <2>1 DEF Holds, Fresh, Agree
  <1> QED BY <1>1, <1>2, <1>3, StepKeeps DEF Holds

(* A step whose write lands.                                               *)
LEMMA Writes ==
    ASSUME EffectInv, NEW d \in Dispatcher, disp[d].at \in Writing, NEW s,
           NEW next \in WorkflowStates, CasWon(d, next), next.rev = disp[d].held.rev,
           \A t \in Subject \ {s} : Agree(next.effect[t], disp[d].held.effect[t]),
           Unowned(s, d),
           s \in Subject /\ next.effect[s].status = "dispatched" => Exists(jobs, s),
           jobs' = jobs, sent' = sent, faults' = faults,
           NEW p \in DispRecords, disp' = [disp EXCEPT ![d] = p],
           Subjected(p), Backed(p, jobs),
           p.held \in {state', NoState} \/ HeldBacked(p, jobs),
           p.at \in Owning => /\ p.subject = s
                              /\ next.effect[s] = [status |-> "dispatching", owner |-> d],
           p.at \in Writing => p.held = state'
    PROVE  EffectInv'
  <1>0. Holds(d, disp[d], state, jobs) /\ Stored(state, jobs)
        /\ sent \in [Subject -> Nat] /\ faults \in Nat
    BY DEF EffectInv
  <1>1. /\ state' \in WorkflowStates /\ state'.rev = state.rev + 1
        /\ state'.effect = next.effect
        /\ \A t \in Subject \ {s} : Agree(state'.effect[t], state.effect[t])
    BY WriteLands
  <1>2. state.rev \in Nat /\ state'.rev > state.rev
    BY <1>0, <1>1 DEF Stored, WorkflowStates
  <1>3. \A t \in Subject : state'.effect[t].status = "dispatched" => Exists(jobs, t)
    BY <1>0, <1>1 DEF Stored, Agree, Ready
  <1>4. HeldBacked(p, jobs')
    BY <1>3, NoStateType DEF HeldBacked
  <1>5. Owns(d, p, state')
    BY <1>1 DEF Owns
  <1>6. Fresh(p, state')
    BY <1>1, <1>2 DEF Fresh, Agree
  <1>7. Holds(d, p, state', jobs')
    BY <1>4, <1>5, <1>6 DEF Holds
  <1> QED BY <1>0, <1>1, <1>2, <1>3, <1>7, StepKeeps DEF Stored

----------------------------------------------------------------------------
(* The steps of RequestOnce.                                               *)
LEMMA OnceStutters ==
    ASSUME \A t \in Subject : Agree(state'.effect[t], state.effect[t]),
           \A t \in Subject : Exists(jobs', t) <=> Exists(jobs, t)
    PROVE  OnceStep
  <1>1. [s \in Subject |-> IF state.effect[s].status = "dispatching"
                             THEN state.effect[s].owner ELSE NoOwner]'
          = [s \in Subject |-> IF state.effect[s].status = "dispatching"
                                 THEN state.effect[s].owner ELSE NoOwner]
    BY DEF Agree, Ready
  <1>2. {s \in Subject : Request(s)}' = {s \in Subject : Request(s)}
    BY DEF Exists, Request
  <1>3. {s \in Subject : Durable(state, s)}' = {s \in Subject : Durable(state, s)}
    BY DEF Agree, Ready, Durable
  <1> QED BY <1>1, <1>2, <1>3 DEF OnceStep, Once!vars

LEMMA OnceClaims ==
    ASSUME NEW s \in Subject, NEW d \in Dispatcher,
           \A t \in Subject \ {s} : Agree(state'.effect[t], state.effect[t]),
           \A t \in Subject : Exists(jobs', t) <=> Exists(jobs, t),
           state'.effect[s] = [status |-> "dispatching", owner |-> d],
           Ready(state.effect[s]) \/ state.effect[s] = state'.effect[s]
    PROVE  OnceStep
  <1>1. CASE state.effect[s] = state'.effect[s]
    BY <1>1, OnceStutters DEF Agree
  <1>2. CASE Ready(state.effect[s])
    <2>0. state'.effect[s].status = "dispatching" /\ state'.effect[s].owner = d
      OBVIOUS
    <2>1. [t \in Subject |-> IF state.effect[t].status = "dispatching"
                               THEN state.effect[t].owner ELSE NoOwner]'
            = [[t \in Subject |-> IF state.effect[t].status = "dispatching"
                                    THEN state.effect[t].owner ELSE NoOwner] EXCEPT ![s] = d]
      BY <1>2, <2>0 DEF Agree, Ready
    <2>2. {t \in Subject : Request(t)}' = {t \in Subject : Request(t)}
      BY DEF Exists, Request
    <2>3. {t \in Subject : Durable(state, t)}' = {t \in Subject : Durable(state, t)}
      BY <1>2 DEF Agree, Ready, Durable
    <2>4. Once!Claim(s, d)
      BY <1>2, <2>1, <2>2, <2>3 DEF Once!Claim, Ready, Durable
    <2> QED BY <2>4 DEF OnceStep, Once!Next
  <1> QED BY <1>1, <1>2

LEMMA OnceGivesUp ==
    ASSUME NEW s \in Subject,
           \A t \in Subject \ {s} : Agree(state'.effect[t], state.effect[t]),
           \A t \in Subject : Exists(jobs', t) <=> Exists(jobs, t),
           state.effect[s].status # "dispatched", Ready(state'.effect[s])
    PROVE  OnceStep
  <1>1. [t \in Subject |-> IF state.effect[t].status = "dispatching"
                             THEN state.effect[t].owner ELSE NoOwner]'
          = [[t \in Subject |-> IF state.effect[t].status = "dispatching"
                                  THEN state.effect[t].owner ELSE NoOwner] EXCEPT ![s] = NoOwner]
    BY DEF Agree, Ready
  <1>2. {t \in Subject : Request(t)}' = {t \in Subject : Request(t)}
    BY DEF Exists, Request
  <1>3. {t \in Subject : Durable(state, t)}' = {t \in Subject : Durable(state, t)}
    BY DEF Agree, Ready, Durable
  <1>4. Once!GiveUp(s)
    BY <1>1, <1>2, <1>3 DEF Once!GiveUp, Durable
  <1> QED BY <1>4 DEF OnceStep, Once!Next

LEMMA OnceMakes ==
    ASSUME NEW s \in Subject, NEW d \in Dispatcher, state' = state,
           state.effect[s] = [status |-> "dispatching", owner |-> d],
           ~Exists(jobs, s), Exists(jobs', s),
           \A t \in Subject \ {s} : Exists(jobs', t) <=> Exists(jobs, t)
    PROVE  OnceStep
  <1>1. {t \in Subject : Request(t)}' = {t \in Subject : Request(t)} \union {s}
    BY DEF Exists, Request
  <1>2. Once!Make(s)
    BY <1>1, NoOwnerAssumption DEF Once!Make, Exists, Request, Durable
  <1> QED BY <1>2 DEF OnceStep, Once!Next

LEMMA OnceRecords ==
    ASSUME NEW s \in Subject,
           \A t \in Subject \ {s} : Agree(state'.effect[t], state.effect[t]),
           \A t \in Subject : Exists(jobs', t) <=> Exists(jobs, t),
           Exists(jobs, s), state'.effect[s].status = "dispatched"
    PROVE  OnceStep
  <1>1. [t \in Subject |-> IF state.effect[t].status = "dispatching"
                             THEN state.effect[t].owner ELSE NoOwner]'
          = [[t \in Subject |-> IF state.effect[t].status = "dispatching"
                                  THEN state.effect[t].owner ELSE NoOwner] EXCEPT ![s] = NoOwner]
    BY DEF Agree, Ready
  <1>2. {t \in Subject : Request(t)}' = {t \in Subject : Request(t)}
    BY DEF Exists, Request
  <1>3. {t \in Subject : Durable(state, t)}' = {t \in Subject : Durable(state, t)} \union {s}
    BY DEF Agree, Ready, Durable
  <1>4. Once!Record(s)
    BY <1>1, <1>2, <1>3 DEF Once!Record, Exists, Request
  <1> QED BY <1>4 DEF OnceStep, Once!Next

----------------------------------------------------------------------------
(* The record a dispatcher goes on with.                                   *)
Left(p, at, held, outcome) == [p EXCEPT !.at = at, !.held = held, !.outcome = outcome]

Moves(d, at, held, o) ==
    Ends(d, at, held, o) \/ (Goes(d, at, held) /\ o = disp[d].outcome)

LEMMA Leaves ==
    ASSUME EffectInv, NEW d \in Dispatcher,
           NEW at \in Stages, NEW held \in WorkflowStates, NEW o \in Outcomes
    PROVE  /\ Left(disp[d], at, held, o) \in DispRecords
           /\ Left(disp[d], at, held, o).at = at
           /\ Left(disp[d], at, held, o).held = held
           /\ Left(disp[d], at, held, o).outcome = o
           /\ Left(disp[d], at, held, o).subject = disp[d].subject
           /\ Moves(d, at, held, o) => disp' = [disp EXCEPT ![d] = Left(disp[d], at, held, o)]
  <1>1. disp[d] \in DispRecords /\ disp = [e \in Dispatcher |-> disp[e]]
    BY DEF EffectInv, Holds
  <1>2. ASSUME Ends(d, at, held, o)
        PROVE  disp' = [disp EXCEPT ![d] = Left(disp[d], at, held, o)]
    BY <1>1, <1>2 DEF Ends, Left
  <1>3. ASSUME Goes(d, at, held), o = disp[d].outcome
        PROVE  disp' = [disp EXCEPT ![d] = Left(disp[d], at, held, o)]
    <2>1. [[disp[d] EXCEPT !.at = at] EXCEPT !.held = held] = Left(disp[d], at, held, o)
      BY <1>1, <1>3 DEF Left, DispRecords
    <2> QED BY <1>1, <1>3, <2>1 DEF Goes
  <1> QED BY <1>1, <1>2, <1>3 DEF Left, DispRecords, Moves

(* What a dispatcher knows before a step.                                  *)
LEMMA Before ==
    ASSUME EffectInv, NEW d \in Dispatcher
    PROVE  /\ disp[d] \in DispRecords /\ disp[d].held \in WorkflowStates
           /\ disp[d].outcome \in Outcomes
           /\ disp[d].at \notin {"idle", "plan", "report", "done"} => disp[d].subject \in Subject
           /\ disp[d].at \in Known \/ disp[d].outcome \in Proving
                => disp[d].subject \in Subject /\ Exists(jobs, disp[d].subject)
           /\ state \in WorkflowStates /\ jobs \in [Subject -> Envelopes]
           /\ sent \in [Subject -> Nat] /\ faults \in Nat
  BY DEF EffectInv, Stored, Holds, Subjected, Backed, DispRecords

LEMMA WalksTo ==
    ASSUME EffectInv, NEW d \in Dispatcher,
           NEW at \in Stages, NEW held \in WorkflowStates, NEW o \in Outcomes,
           Moves(d, at, held, o), state' = state,
           jobs' \in [Subject -> Envelopes],
           \A t \in Subject : Exists(jobs, t) => Exists(jobs', t),
           sent' \in [Subject -> Nat], faults' \in Nat,
           at \notin {"idle", "plan", "report", "done"} => disp[d].subject \in Subject,
           at \in Known \/ o \in Proving
             => disp[d].subject \in Subject /\ Exists(jobs', disp[d].subject),
           \/ held \in {disp[d].held, NoState, state}
           \/ \A t \in Subject : held.effect[t].status = "dispatched" => Exists(jobs', t),
           at \in Owning => disp[d].at \in Owning,
           at \in Writing => held = state \/ (held = disp[d].held /\ disp[d].at \in Writing)
    PROVE  EffectInv'
  <1> DEFINE p == Left(disp[d], at, held, o)
  <1>1. /\ p \in DispRecords /\ p.at = at /\ p.held = held /\ p.outcome = o
        /\ p.subject = disp[d].subject /\ disp' = [disp EXCEPT ![d] = p]
    BY Leaves
  <1> HIDE DEF p
  <1>2. Subjected(p) /\ Backed(p, jobs')
    BY <1>1 DEF Subjected, Backed
  <1>3. p.held \in {disp[d].held, NoState, state} \/ HeldBacked(p, jobs')
    BY <1>1 DEF HeldBacked
  <1> QED BY <1>1, <1>2, <1>3, Walks

LEMMA WritesTo ==
    ASSUME EffectInv, NEW d \in Dispatcher, disp[d].at \in Writing, disp[d].subject \in Subject,
           NEW next \in WorkflowStates, CasWon(d, next), next.rev = disp[d].held.rev,
           \A t \in Subject \ {disp[d].subject} :
               Agree(next.effect[t], disp[d].held.effect[t]),
           Unowned(disp[d].subject, d),
           next.effect[disp[d].subject].status = "dispatched" => Exists(jobs, disp[d].subject),
           jobs' = jobs, sent' = sent, faults' = faults,
           NEW at \in Stages, NEW held \in WorkflowStates, NEW o \in Outcomes,
           Moves(d, at, held, o),
           at \in Known \/ o \in Proving => Exists(jobs, disp[d].subject),
           \/ held \in {state', NoState}
           \/ \A t \in Subject : held.effect[t].status = "dispatched" => Exists(jobs, t),
           at \in Owning =>
               next.effect[disp[d].subject] = [status |-> "dispatching", owner |-> d],
           at \in Writing => held = state'
    PROVE  EffectInv'
  <1> DEFINE p == Left(disp[d], at, held, o)
  <1>1. /\ p \in DispRecords /\ p.at = at /\ p.held = held /\ p.outcome = o
        /\ p.subject = disp[d].subject /\ disp' = [disp EXCEPT ![d] = p]
    BY Leaves
  <1> HIDE DEF p
  <1>2. Subjected(p) /\ Backed(p, jobs)
    BY <1>1 DEF Subjected, Backed
  <1>3. p.held \in {state', NoState} \/ HeldBacked(p, jobs)
    BY <1>1 DEF HeldBacked
  <1> QED BY <1>1, <1>2, <1>3, Writes

----------------------------------------------------------------------------
(* The shared steps, one lemma each.                                       *)
LEMMA PresentKeeps ==
    ASSUME EffectInv, NEW d \in Dispatcher, Present(d)
    PROVE  EffectInv' /\ OnceStep
  <1>1. /\ disp[d].at = "present" /\ UNCHANGED <<state, jobs, sent, faults>>
        /\ disp[d].subject \in Subject
    BY Before DEF Present
  <1>2. OnceStep
    BY <1>1, OnceStutters DEF Agree
  <1>3. CASE Request(disp[d].subject)
    <2>1. Moves(d, "mark", disp[d].held, "request_already_present")
      BY <1>3 DEF Present, Moves
    <2>2. Exists(jobs, disp[d].subject)
      BY <1>3 DEF Request, Exists
    <2> QED BY <1>1, <1>2, <2>1, <2>2, Before, WalksTo
            DEF Stages, Outcomes, Found, Known, Owning, Writing
  <1>4. CASE ~Request(disp[d].subject)
    <2>1. Moves(d, "create", disp[d].held, disp[d].outcome)
      BY <1>4 DEF Present, Moves
    <2> QED BY <1>1, <1>2, <2>1, Before, WalksTo DEF Stages, Known, Owning, Writing
  <1> QED BY <1>3, <1>4

LEMMA MisreadKeeps ==
    ASSUME EffectInv, NEW d \in Dispatcher, Misread(d)
    PROVE  EffectInv' /\ OnceStep
  <1>1. /\ disp[d].at \in {"present", "repair"} /\ UNCHANGED <<state, jobs, sent>>
        /\ disp[d].subject \in Subject /\ faults' \in Nat
    BY Before DEF Misread, Fault
  <1>2. OnceStep
    BY <1>1, OnceStutters DEF Agree
  <1>3. CASE disp[d].at = "present"
    <2>1. Moves(d, "create", disp[d].held, disp[d].outcome)
      BY <1>3 DEF Misread, Moves
    <2> QED BY <1>1, <1>2, <1>3, <2>1, Before, WalksTo DEF Stages, Known, Owning, Writing
  <1>4. CASE disp[d].at = "repair"
    <2>1. Moves(d, "report", state, disp[d].outcome)
      BY <1>4 DEF Misread, Moves
    <2>2. Exists(jobs, disp[d].subject)
      BY <1>4, Before DEF Known
    <2> QED BY <1>1, <1>2, <2>1, <2>2, Before, WalksTo
            DEF Stages, Owning, Writing
  <1> QED BY <1>1, <1>3, <1>4

LEMMA NoTokenKeeps ==
    ASSUME EffectInv, NEW d \in Dispatcher, NoToken(d)
    PROVE  EffectInv' /\ OnceStep
  <1>1. /\ disp[d].at = "create" /\ UNCHANGED <<state, jobs, sent>>
        /\ disp[d].subject \in Subject /\ faults' \in Nat
        /\ Moves(d, "block", disp[d].held, disp[d].outcome)
    BY Before DEF NoToken, Fault, Moves
  <1>2. OnceStep
    BY <1>1, OnceStutters DEF Agree
  <1> QED BY <1>1, <1>2, Before, WalksTo DEF Stages, Known, Owning, Writing

LEMMA BlockKeeps ==
    ASSUME EffectInv, NEW d \in Dispatcher, Block(d)
    PROVE  EffectInv' /\ OnceStep
  <1> DEFINE s == disp[d].subject
             next == Patched(disp[d].held, s, "blocked")
  <1>1. /\ s \in Subject /\ Unowned(s, d) /\ disp[d].at \in Owning /\ disp[d].at \in Writing
        /\ state.effect[s] = [status |-> "dispatching", owner |-> d]
        /\ "report" \notin Writing \union Owning \union Known
        /\ "missing_dispatch_token" \in Outcomes \ Proving /\ "report" \in Stages
    BY OwnerAlone DEF Block, Owning, Writing, Known, Outcomes, Proving, Found, Stages
  <1>2. /\ next \in WorkflowStates /\ next.rev = disp[d].held.rev
        /\ next.effect[s].status = "blocked"
        /\ \A t \in Subject \ {s} : next.effect[t] = disp[d].held.effect[t]
    <2>1. "blocked" \in EffectStatuses /\ disp[d].held \in WorkflowStates
      BY Before DEF EffectStatuses
    <2> QED BY <1>1, <2>1, StateTypes
  <1>3. Moves(d, "report", NoState, "missing_dispatch_token") /\ UNCHANGED <<jobs, sent, faults>>
    BY DEF Block, Moves
  <1> HIDE DEF next
  <1>4. CASE CasWon(d, next)
    <2>1. EffectInv'
      BY <1>1, <1>2, <1>3, <1>4, NoStateType, WritesTo DEF Agree
    <2>2. /\ state'.effect = next.effect
          /\ \A t \in Subject \ {s} : Agree(state'.effect[t], state.effect[t])
      BY <1>1, <1>2, <1>4, WriteLands DEF Agree
    <2>3. Ready(state'.effect[s]) /\ state.effect[s].status # "dispatched"
      BY <1>1, <1>2, <2>2 DEF Ready
    <2>4. OnceStep
      BY <1>1, <1>3, <2>2, <2>3, OnceGivesUp DEF Exists
    <2> QED BY <2>1, <2>4
  <1>5. CASE CasLost(d)
    <2>1. state' = state
      BY <1>5 DEF CasLost
    <2>2. OnceStep
      BY <1>3, <2>1, OnceStutters DEF Agree
    <2> QED BY <1>1, <1>3, <2>1, <2>2, Before, NoStateType, WalksTo
  <1> QED BY <1>4, <1>5 DEF Block, next

LEMMA CreateKeeps ==
    ASSUME EffectInv, NEW d \in Dispatcher, Create(d)
    PROVE  EffectInv' /\ OnceStep
  <1> DEFINE s == disp[d].subject
  <1>1. /\ s \in Subject /\ disp[d].at = "create" /\ disp[d].at \in Owning /\ disp[d].at \in Writing
        /\ state.effect[s] = [status |-> "dispatching", owner |-> d]
        /\ UNCHANGED <<state, sent, faults>>
    BY OwnerAlone DEF Create, Owning, Writing
  <1>2. CASE Request(s)
    <2>1. OnceStep
      BY <1>1, <1>2, OnceStutters DEF Create, Agree
    <2>2. Moves(d, "mark", disp[d].held, "dispatched") /\ jobs' = jobs
      BY <1>2 DEF Create, Moves
    <2> QED BY <1>1, <1>2, <2>1, <2>2, Before, WalksTo
            DEF Request, Exists, Stages, Outcomes, Found
  <1>3. CASE ~Request(s)
    <2>1. Moves(d, "send", disp[d].held, disp[d].outcome)
          /\ jobs' = [jobs EXCEPT ![s] = NewEnvelope]
      BY <1>3 DEF Create, Moves
    <2>2. NewEnvelope \in Envelopes /\ NewEnvelope.state = "pending"
      BY <1>1, Before, JobTypes
    <2>3. /\ jobs' \in [Subject -> Envelopes] /\ Exists(jobs', s)
          /\ \A t \in Subject \ {s} : Exists(jobs', t) <=> Exists(jobs, t)
      BY <1>1, <2>1, <2>2, Before DEF Exists
    <2>4. ~Exists(jobs, s)
      BY <1>3 DEF Request, Exists
    <2>5. OnceStep
      BY <1>1, <2>3, <2>4, OnceMakes
    <2>6. "send" \in Stages /\ \A t \in Subject : Exists(jobs, t) => Exists(jobs', t)
      BY <2>3 DEF Stages
    <2> QED BY <1>1, <2>1, <2>3, <2>5, <2>6, Before, WalksTo
  <1> QED BY <1>2, <1>3

LEMMA SendKeeps ==
    ASSUME EffectInv, NEW d \in Dispatcher, Send(d)
    PROVE  EffectInv' /\ OnceStep
  <1>1. /\ disp[d].at = "send" /\ UNCHANGED <<state, jobs, faults>>
        /\ Moves(d, "mark", disp[d].held, "dispatched")
        /\ disp[d].subject \in Subject /\ Exists(jobs, disp[d].subject)
    BY Before DEF Send, Moves, Known
  <1>2. sent' \in [Subject -> Nat]
    BY <1>1, Before DEF Send
  <1>3. OnceStep
    BY <1>1, OnceStutters DEF Agree
  <1> QED BY <1>1, <1>2, <1>3, Before, WalksTo
          DEF Stages, Outcomes, Found, Known, Owning, Writing

(* `marked` is a record to mark the effect with.                           *)
Marked(d, marked) ==
    /\ marked \in WorkflowStates /\ marked.rev = disp[d].held.rev
    /\ marked.effect[disp[d].subject].status = "dispatched"
    /\ \A t \in Subject \ {disp[d].subject} : marked.effect[t] = disp[d].held.effect[t]

(* What a mark leaves behind, written or not.                              *)
LEMMA MarkedBacked ==
    ASSUME EffectInv, NEW d \in Dispatcher, disp[d].subject \in Subject,
           Exists(jobs, disp[d].subject), NEW marked, Marked(d, marked)
    PROVE  \A t \in Subject : marked.effect[t].status = "dispatched" => Exists(jobs, t)
  BY DEF EffectInv, Holds, HeldBacked, Marked

LEMMA MarkWritten ==
    ASSUME EffectInv, NEW d \in Dispatcher, disp[d].at \in {"mark", "repairMark"},
           NEW marked, Marked(d, marked), CasWon(d, marked),
           UNCHANGED <<jobs, sent, faults>>,
           NEW at \in {"recover", "report"}, NEW o \in Outcomes, NEW held \in {state', marked},
           Moves(d, at, held, o)
    PROVE  EffectInv' /\ OnceStep
  <1> DEFINE s == disp[d].subject
  <1>1. /\ s \in Subject /\ Unowned(s, d) /\ disp[d].at \in Writing /\ Exists(jobs, s)
        /\ at \notin Writing \union Owning \union Known /\ at \in Stages
    BY OwnerAlone, Before DEF Owning, Writing, Known, Stages
  <1>2. /\ marked \in WorkflowStates /\ marked.rev = disp[d].held.rev
        /\ marked.effect[s].status = "dispatched"
        /\ \A t \in Subject \ {s} : Agree(marked.effect[t], disp[d].held.effect[t])
    BY DEF Marked, Agree
  <1>3. /\ state' \in WorkflowStates /\ state'.effect = marked.effect
        /\ \A t \in Subject \ {s} : Agree(state'.effect[t], state.effect[t])
    BY <1>1, <1>2, WriteLands
  <1>4. OnceStep
    BY <1>1, <1>2, <1>3, OnceRecords
  <1>5. \A t \in Subject : marked.effect[t].status = "dispatched" => Exists(jobs, t)
    BY <1>1, MarkedBacked
  <1>6. held \in WorkflowStates /\ (held = state' \/ held = marked)
    BY <1>2, <1>3
  <1>7. EffectInv'
    BY <1>1, <1>2, <1>5, <1>6, WritesTo
  <1> QED BY <1>4, <1>7

LEMMA MarkKeeps ==
    ASSUME EffectInv, NEW d \in Dispatcher, NEW marked, Marked(d, marked),
           NEW next \in {"recover", "report"}, Mark(d, marked, next)
    PROVE  EffectInv' /\ OnceStep
  <1>1. /\ disp[d].at = "mark" /\ UNCHANGED <<jobs, sent, faults>>
        /\ disp[d].subject \in Subject /\ Exists(jobs, disp[d].subject)
        /\ disp[d].outcome \in Outcomes
    BY Before DEF Mark, Known
  <1>2. CASE CasWon(d, marked) /\ Goes(d, next, state')
    <2>1. Moves(d, next, state', disp[d].outcome)
      BY <1>2 DEF Moves
    <2> QED BY <1>1, <1>2, <2>1, MarkWritten
  <1>3. CASE CasLost(d) /\ disp[d].outcome = "request_already_present" /\ Goes(d, next, marked)
    <2>1. Moves(d, next, marked, disp[d].outcome) /\ state' = state
      BY <1>3 DEF Moves, CasLost
    <2>2. marked \in WorkflowStates /\ \A t \in Subject :
              marked.effect[t].status = "dispatched" => Exists(jobs, t)
      BY <1>1, MarkedBacked DEF Marked
    <2>3. OnceStep
      BY <1>1, <2>1, OnceStutters DEF Agree
    <2> QED BY <1>1, <2>1, <2>2, <2>3, Before, WalksTo DEF Stages, Owning, Writing
  <1>4. CASE CasLost(d) /\ Goes(d, "repair", disp[d].held)
    <2>1. Moves(d, "repair", disp[d].held, disp[d].outcome) /\ state' = state
      BY <1>4 DEF Moves, CasLost
    <2>2. OnceStep
      BY <1>1, <2>1, OnceStutters DEF Agree
    <2> QED BY <1>1, <2>1, <2>2, Before, WalksTo DEF Stages, Owning, Writing
  <1> QED BY <1>2, <1>3, <1>4 DEF Mark

LEMMA RepairKeeps ==
    ASSUME EffectInv, NEW d \in Dispatcher, Repair(d)
    PROVE  EffectInv' /\ OnceStep
  <1>1. /\ disp[d].at = "repair" /\ UNCHANGED <<state, jobs, sent, faults>>
        /\ disp[d].subject \in Subject /\ Exists(jobs, disp[d].subject)
        /\ Moves(d, "repairMark", state, disp[d].outcome)
    BY Before DEF Repair, Known, Moves
  <1>2. OnceStep
    BY <1>1, OnceStutters DEF Agree
  <1> QED BY <1>1, <1>2, Before, WalksTo DEF Stages, Owning, Writing

LEMMA RepairMarkKeeps ==
    ASSUME EffectInv, NEW d \in Dispatcher, NEW marked, Marked(d, marked),
           NEW next \in {"recover", "report"}, RepairMark(d, marked, next)
    PROVE  EffectInv' /\ OnceStep
  <1> DEFINE patched == Patched(disp[d].held, disp[d].subject, "dispatched")
  <1>1. /\ disp[d].at = "repairMark" /\ UNCHANGED <<jobs, sent, faults>>
        /\ disp[d].subject \in Subject /\ Exists(jobs, disp[d].subject)
        /\ "request_already_present" \in Outcomes
    BY Before DEF RepairMark, Known, Outcomes, Found
  <1>2. CASE CasWon(d, marked) /\ Ends(d, next, state', "request_already_present")
    <2>1. Moves(d, next, state', "request_already_present")
      BY <1>2 DEF Moves
    <2> QED BY <1>1, <1>2, <2>1, MarkWritten
  <1>3. CASE CasLost(d) /\ Ends(d, next, patched, "request_already_present")
    <2>1. Moves(d, next, patched, "request_already_present") /\ state' = state
      BY <1>3 DEF CasLost, Moves
    <2>2. Marked(d, patched)
      <3>1. disp[d].held \in WorkflowStates /\ "dispatched" \in EffectStatuses
        BY Before DEF EffectStatuses
      <3> QED BY <1>1, <3>1, StateTypes DEF Marked
    <2> HIDE DEF patched
    <2>3. patched \in WorkflowStates /\ \A t \in Subject :
              patched.effect[t].status = "dispatched" => Exists(jobs, t)
      BY <1>1, <2>2, MarkedBacked DEF Marked
    <2>4. OnceStep
      BY <1>1, <2>1, OnceStutters DEF Agree
    <2> QED BY <1>1, <2>1, <2>3, <2>4, Before, WalksTo DEF Stages, Owning, Writing
  <1> QED BY <1>2, <1>3 DEF RepairMark

(* A dispatcher that is lost, or has reported.                             *)
LEMMA StopKeeps ==
    ASSUME EffectInv, NEW d \in Dispatcher, Stops(d), UNCHANGED <<state, jobs, sent>>,
           faults' \in Nat
    PROVE  EffectInv' /\ OnceStep
  <1> DEFINE p == [Idle EXCEPT !.at = "done"]
  <1>1. /\ p \in DispRecords /\ p.at = "done" /\ p.held = NoState /\ p.outcome = "none"
    BY IdleType DEF Idle, DispRecords, Stages
  <1>2. disp' = [disp EXCEPT ![d] = p]
    BY DEF Stops
  <1> HIDE DEF p
  <1>3. Subjected(p) /\ Backed(p, jobs')
    BY <1>1 DEF Subjected, Backed, Known, Proving, Found
  <1>4. p.at \notin Writing \union Owning
    BY <1>1 DEF Writing, Owning
  <1>5. OnceStep
    BY OnceStutters DEF Agree
  <1> QED BY <1>1, <1>2, <1>3, <1>4, <1>5, Before, Walks

LEMMA ThrowKeeps ==
    ASSUME EffectInv, NEW d \in Dispatcher, Throw(d)
    PROVE  EffectInv' /\ OnceStep
  <1>1. UNCHANGED <<state, jobs, sent>> /\ faults' \in Nat
    BY Before DEF Throw, Fault
  <1>2. OnceStep
    BY <1>1, OnceStutters DEF Agree
  <1>3. "report" \in Stages \ (Known \union Owning \union Writing) /\ "threw" \in Outcomes \ Proving
    BY DEF Stages, Known, Owning, Writing, Outcomes, Proving, Found
  <1>4. ASSUME NEW o \in Outcomes, o \in Proving => o = disp[d].outcome,
               NEW held \in {disp[d].held, NoState}, Moves(d, "report", held, o)
        PROVE  EffectInv'
    BY <1>1, <1>3, <1>4, Before, NoStateType, WalksTo
  <1>5. CASE Goes(d, "report", disp[d].held)
    BY <1>2, <1>4, <1>5, Before DEF Moves
  <1>6. CASE Ends(d, "report", NoState, "threw")
    BY <1>2, <1>3, <1>4, <1>6 DEF Moves
  <1> QED BY <1>5, <1>6 DEF Throw

LEMMA ReopenKeeps ==
    ASSUME EffectInv, NEW d \in Dispatcher, Reopen(d)
    PROVE  EffectInv' /\ OnceStep
  <1> DEFINE s == disp[d].subject
             p == [disp[d] EXCEPT !.at = "resend", !.job = NoEnvelope]
  <1>1. /\ disp[d].at = "reopen" /\ UNCHANGED <<state, sent, faults>>
        /\ s \in Subject /\ Exists(jobs, s) /\ disp[d].job \in Envelopes
    BY Before DEF Reopen, Known, DispRecords
  <1>2. /\ Reopened(disp[d].job) \in Envelopes /\ Reopened(disp[d].job).state = "pending"
        /\ NoEnvelope \in Envelopes
    BY <1>1, JobTypes
  <1>3. jobs' = jobs \/ jobs' = [jobs EXCEPT ![s] = Reopened(disp[d].job)]
    BY DEF Reopen
  <1>4. jobs' \in [Subject -> Envelopes] /\ \A t \in Subject : Exists(jobs', t) <=> Exists(jobs, t)
    BY <1>1, <1>2, <1>3, Before DEF Exists
  <1>5. OnceStep
    BY <1>1, <1>4, OnceStutters DEF Agree
  <1>6. p \in DispRecords /\ p.at = "resend" /\ p.held = disp[d].held /\ p.subject = s
        /\ p.outcome = disp[d].outcome
    BY <1>2, Before DEF DispRecords, Stages
  <1>7. disp' = [disp EXCEPT ![d] = p]
    BY Before DEF Reopen, EffectInv, DispRecords
  <1> HIDE DEF p
  <1>8. Subjected(p) /\ Backed(p, jobs') /\ p.at \notin Owning /\ p.at \notin Writing
    BY <1>1, <1>4, <1>6 DEF Subjected, Backed, Owning, Writing
  <1> QED BY <1>1, <1>4, <1>5, <1>6, <1>7, <1>8, Before, Walks

LEMMA ResendKeeps ==
    ASSUME EffectInv, NEW d \in Dispatcher, NEW o \in Outcomes, Resend(d, o)
    PROVE  EffectInv' /\ OnceStep
  <1>1. /\ UNCHANGED <<state, jobs, faults>> /\ Moves(d, "report", disp[d].held, o)
        /\ disp[d].subject \in Subject /\ Exists(jobs, disp[d].subject)
    BY Before DEF Resend, Moves, Known
  <1>2. sent' \in [Subject -> Nat]
    BY <1>1, Before DEF Resend
  <1>3. OnceStep
    BY <1>1, OnceStutters DEF Agree
  <1> QED BY <1>1, <1>2, <1>3, Before, WalksTo DEF Stages, Owning, Writing

(* `next` is a record to claim the subject with.                           *)
Claiming(d, next) ==
    /\ next \in WorkflowStates /\ next.rev = disp[d].held.rev
    /\ next.effect[disp[d].subject] = [status |-> "dispatching", owner |-> d]
    /\ \A t \in Subject \ {disp[d].subject} : next.effect[t] = disp[d].held.effect[t]

(* The claim: nobody else owns the subject if the write lands.             *)
LEMMA ClaimKeeps ==
    ASSUME EffectInv, NEW d \in Dispatcher, disp[d].at = "claim",
           ~Taken(disp[d].held, disp[d].subject, d), ~Durable(disp[d].held, disp[d].subject),
           NEW next, Claiming(d, next), NEW held \in {disp[d].held, NoState},
           \/ CasWon(d, next) /\ Goes(d, "present", state')
           \/ CasLost(d) /\ Goes(d, "lost", held),
           UNCHANGED <<jobs, sent, faults>>
    PROVE  EffectInv' /\ OnceStep
  <1> DEFINE s == disp[d].subject
  <1>1. s \in Subject /\ disp[d].at \in Writing
    BY Before DEF Writing
  <1>2. /\ next \in WorkflowStates /\ next.rev = disp[d].held.rev
        /\ next.effect[s].status = "dispatching" /\ next.effect[s].owner = d
        /\ next.effect[s] = [status |-> "dispatching", owner |-> d]
        /\ \A t \in Subject \ {s} : next.effect[t] = disp[d].held.effect[t]
    BY DEF Claiming
  <1>3. CASE CasWon(d, next) /\ Goes(d, "present", state')
    <2>1. disp[d].held.rev = state.rev /\ Agree(disp[d].held.effect[s], state.effect[s])
      BY <1>1, <1>3 DEF EffectInv, Holds, Fresh, CasWon
    <2>2. \/ Ready(state.effect[s])
          \/ state.effect[s].status = "dispatching" /\ state.effect[s].owner = d
      BY <2>1 DEF Agree, Ready, Taken, Durable
    <2>3. Unowned(s, d)
      <3> SUFFICES ASSUME NEW e \in Dispatcher \ {d}, disp[e].at \in Owning, disp[e].subject = s
                   PROVE  FALSE
        BY DEF Unowned
      <3>1. state.effect[s] = [status |-> "dispatching", owner |-> e]
        BY OwnerAlone
      <3>2. state.effect[s].status = "dispatching" /\ state.effect[s].owner = e
        BY <3>1
      <3> QED BY <2>2, <3>2 DEF Ready
    <2>4. /\ state' \in WorkflowStates /\ state'.effect = next.effect
          /\ \A t \in Subject \ {s} : Agree(state'.effect[t], state.effect[t])
      BY <1>1, <1>2, <1>3, WriteLands DEF Agree
    <2>5. Moves(d, "present", state', disp[d].outcome)
      BY <1>3 DEF Moves
    <2>6. EffectInv'
      BY <1>1, <1>2, <1>3, <2>3, <2>4, <2>5, Before, WritesTo DEF Agree, Stages, Known
    <2>7. Ready(state.effect[s]) \/ state.effect[s] = state'.effect[s]
      <3>1. state.effect[s] \in Effects
        BY <1>1, Before DEF WorkflowStates
      <3> QED BY <1>2, <2>2, <2>4, <3>1 DEF Effects
    <2>8. OnceStep
      BY <1>1, <1>2, <2>4, <2>7, OnceClaims DEF Exists
    <2> QED BY <2>6, <2>8
  <1>4. CASE CasLost(d) /\ Goes(d, "lost", held)
    <2>1. state' = state /\ Moves(d, "lost", held, disp[d].outcome) /\ held \in WorkflowStates
      BY <1>4, Before, NoStateType DEF CasLost, Moves
    <2>2. OnceStep
      BY <2>1, OnceStutters DEF Agree
    <2> QED BY <1>1, <2>1, <2>2, Before, WalksTo DEF Stages, Known, Owning, Writing
  <1> QED BY <1>3, <1>4

(* A dispatcher that stores a transition of its own, whatever record there *)
(* is, and goes on from what it stored.                                    *)
LEMMA StoreKeeps ==
    ASSUME EffectInv, NEW d \in Dispatcher, NEW p \in DispRecords,
           disp' = [disp EXCEPT ![d] = p], UNCHANGED <<jobs, sent, faults>>,
           state' \in WorkflowStates, state'.rev = state.rev + 1, state'.effect = state.effect,
           p.held = state', p.at \in Writing \ Owning, p.subject \in Subject, p.outcome = "none"
    PROVE  EffectInv' /\ OnceStep
  <1>0. /\ state.rev \in Nat /\ 0 \notin Subject
        /\ jobs \in [Subject -> Envelopes] /\ sent \in [Subject -> Nat] /\ faults \in Nat
    BY Before, SubjectRange DEF WorkflowStates
  <1>1. \A t \in Subject : state'.effect[t].status = "dispatched" => Exists(jobs', t)
    BY DEF EffectInv, Stored
  <1>2. p.at \notin Known /\ p.outcome \notin Proving
    BY DEF Writing, Owning, Known, Proving, Found
  <1>3. Subjected(p) /\ Backed(p, jobs') /\ HeldBacked(p, jobs')
    BY <1>1, <1>2 DEF Subjected, Backed, HeldBacked
  <1>4. Owns(d, p, state') /\ Fresh(p, state')
    BY <1>0 DEF Owns, Fresh, Agree
  <1>5. Unowned(0, d)
    BY NoSubjectUnowned
  <1>6. state'.rev > state.rev /\ Holds(d, p, state', jobs')
    BY <1>0, <1>3, <1>4 DEF Holds
  <1>7. EffectInv'
    BY <1>0, <1>5, <1>6, StepKeeps DEF Agree
  <1>8. OnceStep
    BY OnceStutters DEF Agree
  <1> QED BY <1>7, <1>8

(* A dispatcher that starts, from the stored state or from none.           *)
LEMMA StartKeeps ==
    ASSUME EffectInv, NEW d \in Dispatcher, NEW p \in DispRecords,
           disp' = [disp EXCEPT ![d] = p],
           UNCHANGED <<state, jobs, sent, faults>>,
           p.held \in {state, NoState}, p.at \notin Owning,
           p.at \in Writing => p.held = state,
           p.at \notin {"idle", "plan", "report", "done"} => p.subject \in Subject,
           p.at \in Known \/ p.outcome \in Proving
             => p.subject \in Subject /\ Exists(jobs, p.subject)
    PROVE  EffectInv' /\ OnceStep
  <1>1. OnceStep
    BY OnceStutters DEF Agree
  <1>2. Subjected(p) /\ Backed(p, jobs')
    BY DEF Subjected, Backed
  <1> QED BY <1>1, <1>2, Before, Walks

LEMMA StartingTypes ==
    ASSUME NEW at \in Stages, NEW mode \in Modes, NEW s \in 0..MaxSubject,
           NEW held \in WorkflowStates
    PROVE  /\ Starting(at, mode, s, held) \in DispRecords
           /\ Starting(at, mode, s, held).at = at
           /\ Starting(at, mode, s, held).subject = s
           /\ Starting(at, mode, s, held).held = held
           /\ Starting(at, mode, s, held).outcome = "none"
  BY IdleType DEF Starting, Idle, DispRecords

LEMMA InitGives ==
    ASSUME EffectInit, state \in WorkflowStates, state.effect = NoState.effect
    PROVE  EffectInv /\ Once!Init
  <1>1. \A s \in Subject : state.effect[s].status = "none"
    BY NoStateType
  <1>2. Stored(state, jobs) /\ sent \in [Subject -> Nat] /\ faults \in Nat
    BY <1>1, InitEnvelope DEF EffectInit, Stored
  <1>3. /\ Idle \in DispRecords /\ Idle.at = "idle" /\ Idle.held = NoState
        /\ Idle.outcome = "none"
    BY IdleType DEF Idle
  <1>4. ASSUME NEW d \in Dispatcher PROVE Holds(d, disp[d], state, jobs)
    BY <1>3, NoStateType DEF EffectInit, Holds, Subjected, Backed, HeldBacked, Owns, Fresh,
       Known, Owning, Writing, Proving, Found
  <1>5. EffectInv
    BY <1>2, <1>4 DEF EffectInv, EffectInit
  <1>6. Once!Init
    BY <1>1, InitEnvelope DEF Once!Init, EffectInit, Durable, Request
  <1> QED BY <1>5, <1>6

(* The invariant gives what the runs check.                                *)
LEMMA EffectGives ==
    ASSUME EffectInv
    PROVE  EffectTypeOK /\ OneDispatcher /\ ProvenIsRequested
  <1>1. EffectTypeOK
    BY DEF EffectInv, Stored, Holds, EffectTypeOK
  <1>2. OneDispatcher
    BY OwnerAlone DEF OneDispatcher, Dispatching, Owning
  <1>3. ProvenIsRequested
    BY Before DEF ProvenIsRequested, Proving, Exists, Request
  <1> QED BY <1>1, <1>2, <1>3

(* What a run makes of an envelope.                                        *)
LEMMA RunEnvelopes ==
    ASSUME EffectInv, NEW s \in Subject, NEW r \in Run
    PROVE  /\ Taking(s, r) \in Envelopes
           /\ Taking(s, r).state = "absent" <=> jobs[s].state = "absent"
           /\ \A result \in Completions :
                 /\ Finished(s, r, result) \in Envelopes
                 /\ Finished(s, r, result).state = "absent" <=> jobs[s].state = "absent"
  <1>1. jobs[s] \in Envelopes
    BY DEF EffectInv, Stored
  <1>2. Claimed(jobs[s], r) \in Envelopes /\ Claimed(jobs[s], r).state = "claimed"
    BY <1>1, JobTypes
  <1>3. /\ Taking(s, r) \in Envelopes
        /\ Taking(s, r).state = "absent" <=> jobs[s].state = "absent"
    BY <1>1, <1>2 DEF Taking
  <1>4. ASSUME NEW result \in Completions
        PROVE  /\ Finished(s, r, result) \in Envelopes
               /\ Finished(s, r, result).state = "absent" <=> jobs[s].state = "absent"
    <2>1. \A x \in {"completed", "failed"} :
             /\ Terminalized(Taking(s, r), x, result) \in Envelopes
             /\ Terminalized(Taking(s, r), x, result).state = x
      BY <1>3, JobTypes DEF EnvelopeStates
    <2> QED BY <1>3, <2>1 DEF Finished
  <1> QED BY <1>3, <1>4
=============================================================================
