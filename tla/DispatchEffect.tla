---------------------------- MODULE DispatchEffect ----------------------------
(***************************************************************************)
(* Starting the job of a workflow phase once per subject.  Several         *)
(* processes may find that the job of a subject has to be started; the     *)
(* workflow state holds, per subject, a dispatch effect that one of them   *)
(* claims by compare-and-set before it creates the job-request envelope    *)
(* and sends the repository_dispatch event, and marks afterwards.  The     *)
(* files code-review-dispatch-effect.ts and plan-review-dispatch-effect.ts *)
(* of src/workflow/ hold one copy of this protocol each; this module has   *)
(* what they share.                                                        *)
(***************************************************************************)
EXTENDS JobEnvelope

CONSTANTS
    Dispatcher,   \* processes that may start a job: their ownerGeneration
    NoOwner,      \* an effect nobody has claimed
    MaxSubject,   \* subjects in the order the issue gets to them
    Contention,   \* the branch of the state files has other writers: 409
    MaxFaults     \* processes lost, and API calls that fail

ASSUME NoOwnerAssumption == NoOwner \notin Dispatcher
ASSUME BoundsAssumption == MaxSubject \in Nat \ {0} /\ MaxFaults \in Nat
ASSUME ContentionAssumption == Contention \in BOOLEAN

VARIABLES
    state,        \* the stored WorkflowStateRecord
    jobs,         \* per subject: the stored envelope of its request id
    sent,         \* per subject: dispatch events that no run has started for
    disp,         \* per dispatcher: its stage and what it holds
    faults        \* faults so far

effectVars == <<state, jobs, sent, disp, faults>>

Subject == 1..MaxSubject

Phases == {"none", "handoff", "planning", "code_review", "plan_review",
           "code_revision", "pm_review", "implementation_dispatch", "planning_dispatch",
           "blocked"}
EffectStatuses == {"none", "pending", "dispatching", "dispatched", "blocked"}
Effects == [status : EffectStatuses, owner : Dispatcher \union {NoOwner}]

(* The fields the dispatchers and the reviewers go by: `subject` is the    *)
(* artifact on record, `active` the subject on record for the phase,       *)
(* `decided` the subject of the last accepted decision, `lease` the one    *)
(* whose reviewer holds the run lease, `agent` the one whose reviewer's    *)
(* agent id is on record; 0 is null.  The refusals of the code look at     *)
(* acceptedReviewSubjects first, a field that nothing writes: no process   *)
(* ever ends as decision_already_accepted.                                 *)
WorkflowStates ==
    [rev : Nat, phase : Phases, subject : 0..MaxSubject, effect : [Subject -> Effects],
     active : 0..MaxSubject, decided : 0..MaxSubject,
     lease : 0..MaxSubject, agent : 0..MaxSubject]

NoState ==
    [rev |-> 0, phase |-> "none", subject |-> 0,
     effect |-> [s \in Subject |-> [status |-> "none", owner |-> NoOwner]],
     active |-> 0, decided |-> 0, lease |-> 0, agent |-> 0]

----------------------------------------------------------------------------
(* The effect record (state/side-effects.ts).                              *)
Durable(s, subject) == s.effect[subject].status = "dispatched"

(* Variant: whoever comes finds the claim free.                            *)
Taken_Never(s, subject, d) == s.effect[subject].owner = d /\ FALSE

(* A claim is owned by a process, and there is no way to tell from it that *)
(* the process is gone.                                                    *)
Taken(s, subject, d) ==
    s.effect[subject].status = "dispatching" /\ s.effect[subject].owner # d

(* Variant: the subject is on record as soon as it is claimed.             *)
ClaimedBy_OnRecord(s, subject, d) ==
    [s EXCEPT !.effect[subject] = [status |-> "dispatching", owner |-> d], !.active = subject]

ClaimedBy(s, subject, d) ==
    [s EXCEPT !.effect[subject] = [status |-> "dispatching", owner |-> d]]

Patched(s, subject, status) == [s EXCEPT !.effect[subject].status = status]

Request(subject) == jobs[subject].state # "absent"

----------------------------------------------------------------------------
(* A dispatcher.  `held` is the state it goes by, `job` the envelope it    *)
(* has loaded to reopen, `outcome` what it will report.                    *)
Stages == {"idle", "plan", "store", "pending", "project", "claim", "lost", "again", "present", "create",
           "send", "mark", "repair", "repairMark", "block", "recover", "reopen",
           "resend", "report", "done"}
Found == {"already_dispatched", "request_already_present"}
Outcomes == Found \union
    {"none", "dispatched", "missing_dispatch_token", "claim_lost", "conflicting_subject",
     "reviewer_already_active", "false_duplicate_recovered",
     "unresolved_decision_recovered", "threw"}
Modes == {"none", "phase", "pass", "unblock"}

DispRecords ==
    [at : Stages, mode : Modes, subject : 0..MaxSubject, held : WorkflowStates,
     tries : Nat, job : Envelopes, outcome : Outcomes]

Idle == [at |-> "idle", mode |-> "none", subject |-> 0, held |-> NoState,
         tries |-> 0, job |-> NoEnvelope, outcome |-> "none"]

Starting(at, mode, subject, held) ==
    [Idle EXCEPT !.at = at, !.mode = mode, !.subject = subject, !.held = held]

Goes(d, at, held) == disp' = [disp EXCEPT ![d].at = at, ![d].held = held]
Ends(d, at, held, outcome) ==
    disp' = [disp EXCEPT ![d].at = at, ![d].held = held, ![d].outcome = outcome]
Stops(d) == disp' = [disp EXCEPT ![d] = [Idle EXCEPT !.at = "done"]]

Working(d) == disp[d].at \notin {"idle", "done"}

(* Variant: the write does not look at the revision it replaces.           *)
CasWon_Blind(d, next) == state' = [next EXCEPT !.rev = state.rev + 1]

(* casBump.                                                                *)
CasWon(d, next) ==
    disp[d].held.rev = state.rev /\ state' = [next EXCEPT !.rev = @ + 1]
CasLost(d) == (disp[d].held.rev # state.rev \/ Contention) /\ UNCHANGED state

Fault == faults < MaxFaults /\ faults' = faults + 1

----------------------------------------------------------------------------
(* The steps from the claim to the mark, which only its owner takes.       *)

(* Is the envelope there already?  A load that throws counts as no.        *)
Present(d) ==
    /\ disp[d].at = "present"
    /\ IF Request(disp[d].subject)
         THEN Ends(d, "mark", disp[d].held, "request_already_present")
         ELSE Goes(d, "create", disp[d].held)
    /\ UNCHANGED <<state, jobs, sent, faults>>

Misread(d) ==
    /\ disp[d].at \in {"present", "repair"} /\ Request(disp[d].subject) /\ Fault
    /\ IF disp[d].at = "present" THEN Goes(d, "create", disp[d].held)
                                 ELSE Goes(d, "report", state)
    /\ UNCHANGED <<state, jobs, sent>>

(* No dispatch token in the environment.                                   *)
NoToken(d) ==
    /\ disp[d].at = "create" /\ Fault
    /\ Goes(d, "block", disp[d].held)
    /\ UNCHANGED <<state, jobs, sent>>

Block(d) ==
    /\ disp[d].at = "block"
    /\ CasWon(d, Patched(disp[d].held, disp[d].subject, "blocked")) \/ CasLost(d)
    /\ Ends(d, "report", NoState, "missing_dispatch_token")
    /\ UNCHANGED <<jobs, sent, faults>>

(* Variant: what put-if-absent answers is not looked at.                   *)
Create_AllDuplicates(d) ==
    /\ disp[d].at = "create"
    /\ Ends(d, "mark", disp[d].held, "dispatched")
    /\ LET s == disp[d].subject IN
       jobs' = [jobs EXCEPT ![s] = IF Request(s) THEN @ ELSE NewEnvelope]
    /\ UNCHANGED <<state, sent, faults>>

(* Variant: a create that fails is not noticed.                            *)
Create_Unchecked(d) ==
    /\ disp[d].at = "create"
    /\ Ends(d, "mark", disp[d].held, "dispatched")
    /\ UNCHANGED <<state, jobs, sent, faults>>

(* createEnvelopeAndDispatch: put-if-absent, and an envelope that is there *)
(* by then is a duplicate, for which nothing is sent.                      *)
Create(d) ==
    /\ disp[d].at = "create"
    /\ LET s == disp[d].subject IN
       IF Request(s)
         THEN Ends(d, "mark", disp[d].held, "dispatched") /\ UNCHANGED jobs
         ELSE Goes(d, "send", disp[d].held) /\ jobs' = [jobs EXCEPT ![s] = NewEnvelope]
    /\ UNCHANGED <<state, sent, faults>>

Send(d) ==
    /\ disp[d].at = "send"
    /\ sent' = [sent EXCEPT ![disp[d].subject] = @ + 1]
    /\ Ends(d, "mark", disp[d].held, "dispatched")
    /\ UNCHANGED <<state, jobs, faults>>

(* `marked` is the held state with the effect dispatched.  For an envelope *)
(* that was there already it does not matter whether the write lands.      *)
Mark(d, marked, next) ==
    /\ disp[d].at = "mark"
    /\ \/ CasWon(d, marked) /\ Goes(d, next, state')
       \/ /\ CasLost(d)
          /\ IF disp[d].outcome = "request_already_present"
               THEN Goes(d, next, marked) ELSE Goes(d, "repair", disp[d].held)
    /\ UNCHANGED <<jobs, sent, faults>>

(* The mark was lost: reload the state, and the envelope as the proof.     *)
Repair(d) ==
    /\ disp[d].at = "repair" /\ Request(disp[d].subject)
    /\ Goes(d, "repairMark", state)
    /\ UNCHANGED <<state, jobs, sent, faults>>

RepairMark(d, marked, next) ==
    /\ disp[d].at = "repairMark"
    /\ \/ CasWon(d, marked) /\ Ends(d, next, state', "request_already_present")
       \/ /\ CasLost(d)
          /\ Ends(d, next, Patched(disp[d].held, disp[d].subject, "dispatched"),
                  "request_already_present")
    /\ UNCHANGED <<jobs, sent, faults>>

Crash(d) ==
    /\ Working(d) /\ Fault
    /\ Stops(d)
    /\ UNCHANGED <<state, jobs, sent>>

(* An API call throws.  What recovery throws is swallowed, and the outcome *)
(* that led to it stands.                                                  *)
Throw(d) ==
    /\ Working(d) /\ disp[d].at # "report" /\ Fault
    /\ IF disp[d].at \in {"recover", "reopen", "resend"}
         THEN Goes(d, "report", disp[d].held)
         ELSE Ends(d, "report", NoState, "threw")
    /\ UNCHANGED <<state, jobs, sent>>

(* compareAndSet of the reopened envelope; reopen*ForRetry returns the     *)
(* record it meant to store, stored or not.                                *)
Reopen(d) ==
    /\ disp[d].at = "reopen"
    /\ LET s == disp[d].subject IN
       \/ CasMatches(jobs[s], disp[d].job) /\ jobs' = [jobs EXCEPT ![s] = Reopened(disp[d].job)]
       \/ (~CasMatches(jobs[s], disp[d].job) \/ Contention) /\ UNCHANGED jobs
    /\ disp' = [disp EXCEPT ![d].at = "resend", ![d].job = NoEnvelope]
    /\ UNCHANGED <<state, sent, faults>>

(* redispatchJobRequestById.                                               *)
Resend(d, outcome) ==
    /\ disp[d].at = "resend"
    /\ sent' = [sent EXCEPT ![disp[d].subject] = @ + 1]
    /\ Ends(d, "report", disp[d].held, outcome)
    /\ UNCHANGED <<state, jobs, faults>>

----------------------------------------------------------------------------
(* A run for a job claims its envelope: a finished one lets it pass, and   *)
(* one that another run has claimed turns it away.  What it ends with is   *)
(* stored if the claim is its own by then.  (JobRuns has all of this.)     *)
Taking(s, r) == IF jobs[s].state = "pending" THEN Claimed(jobs[s], r) ELSE jobs[s]
TurnedAway(s) == jobs[s].state = "claimed"

Finished(s, r, result) ==
    LET e == Taking(s, r) IN
    IF e.state = "claimed" /\ e.claim = r
      THEN Terminalized(e, IF result \in {"verified_complete", "duplicate_phase_completed"}
                             THEN "completed" ELSE "failed", result)
      ELSE e

----------------------------------------------------------------------------
EffectInit ==
    /\ jobs = [s \in Subject |-> NoEnvelope]
    /\ sent = [s \in Subject |-> 0]
    /\ disp = [d \in Dispatcher |-> Idle]
    /\ faults = 0

EffectTypeOK ==
    /\ state \in WorkflowStates
    /\ jobs \in [Subject -> Envelopes]
    /\ sent \in [Subject -> Nat]
    /\ disp \in [Dispatcher -> DispRecords]
    /\ faults \in Nat

----------------------------------------------------------------------------
(* Between its claim and its mark a dispatcher is alone with its subject,  *)
(* and the claim on record is its own: no retry, lost write or second      *)
(* process gets past a claim (claimCodeReviewDispatchEffect, "Another      *)
(* owner already claimed").                                                *)
Dispatching == {"present", "create", "send", "mark", "repair", "block"}

OneDispatcher ==
    \A d \in Dispatcher :
        disp[d].at \in Dispatching =>
            state.effect[disp[d].subject] = [status |-> "dispatching", owner |-> d]

(* A dispatcher that reports the job as started has left its envelope      *)
(* behind, whatever writes it lost on the way ("durably proven",           *)
(* isCodeReviewDispatchProven).                                            *)
ProvenIsRequested ==
    \A d \in Dispatcher :
        disp[d].outcome \in Found \union {"dispatched", "false_duplicate_recovered",
                                          "unresolved_decision_recovered"}
            => Request(disp[d].subject)

(* What all of this promises: RequestOnce, where an effect that is being   *)
(* dispatched is the claim of its owner.                                   *)
Once == INSTANCE RequestOnce
            WITH owner     <- [s \in Subject |-> IF state.effect[s].status = "dispatching"
                                                   THEN state.effect[s].owner ELSE NoOwner],
                 requested <- {s \in Subject : Request(s)},
                 recorded  <- {s \in Subject : Durable(state, s)}

ImplementsRequestOnce == Once!Spec
=============================================================================
