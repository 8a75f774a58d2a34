-------------------------- MODULE CodeReviewDispatch --------------------------
(***************************************************************************)
(* Starting the code review of one issue (ensureCodeReviewJobDispatched).  *)
(* Dispatchers are the handoff run that ends the implementation            *)
(* (src/runner/phases/handoff.ts), again when an operator sends the        *)
(* blocked issue back, and the passes of harness:reconcile-workflow        *)
(* (src/runner/workflow-reconcile.ts), scheduled or pinned to the phase.   *)
(* The reviewers they start, and those a status change starts, are here    *)
(* with what the dispatchers see of them; CodeReviewLoop has their races.  *)
(* Handoff's transition clears the implementation's lease in the same      *)
(* write, so there is none left for the dispatchers to clear.              *)
(***************************************************************************)
EXTENDS DispatchEffect

CONSTANTS
    Handoff,      \* the dispatchers that are handoff runs
    MaxRetries    \* CODE_REVIEW_DISPATCH_MAX_CLAIM_RETRIES

ASSUME HandoffAssumption == Handoff \subseteq Dispatcher
ASSUME RetriesAssumption == MaxRetries \in Nat

VARIABLES
    linear,       \* the issue's status
    announced,    \* subjects of the comments that say "Code Review is starting"
    runs,         \* reviewer runs
    served,       \* subjects a reviewer run has started for
    lapsed        \* subjects whose lease has passed its 45 minutes

reviewVars == <<runs, served, lapsed>>
vars == <<effectVars, linear, announced, reviewVars>>

Statuses == {"PR Open", "Code Review", "Code Revision", "PM Review", "Blocked"}

Active(s, subject) == s.lease = subject /\ subject \notin lapsed
Conflicting(s, subject) == s.active \notin {0, subject}

(* What ends an attempt before it claims, in the code's order.             *)
Refusal(s, subject) ==
    CASE Active(s, subject)      -> "reviewer_already_active"
      [] Conflicting(s, subject) -> "conflicting_subject"
      [] Durable(s, subject)     -> "already_dispatched"
      [] OTHER                   -> "none"

Dispatched(s, subject) == [Patched(s, subject, "dispatched") EXCEPT !.active = subject]

(* isCodeReviewDispatchProven.                                             *)
Proven == Found \union {"dispatched", "reviewer_already_active", "false_duplicate_recovered"}

----------------------------------------------------------------------------
(* Handoff stores its transition and goes on from the record it stored; an *)
(* operator may send a blocked issue back to it.                           *)
HandoffStart(d) ==
    /\ d \in Handoff /\ disp[d].at = "idle"
    /\ linear \in {"PR Open", "Blocked"} /\ state.subject \in {0, 1}
    /\ state' = [state EXCEPT !.rev = @ + 1, !.phase = "code_review", !.subject = 1]
    /\ disp' = [disp EXCEPT ![d] = Starting("claim", "phase", 1, state')]
    /\ UNCHANGED <<jobs, sent, faults, linear, announced, reviewVars>>

(* A scheduled pass: the durable phase is code review, and the subject of  *)
(* its artifact has no live lease.                                         *)
ReconcileStart(d) ==
    /\ d \notin Handoff /\ disp[d].at = "idle"
    /\ state.phase = "code_review" /\ linear \in {"Code Review", "Blocked"}
    /\ ~Active(state, state.subject)
    /\ disp' = [disp EXCEPT ![d] =
                   Starting("claim", IF linear = "Blocked" THEN "unblock" ELSE "pass",
                            state.subject, state)]
    /\ UNCHANGED <<state, jobs, sent, faults, linear, announced, reviewVars>>

(* A pass pinned to the phase takes the subject on record first, a pass    *)
(* pinned to a subject takes the one of the artifact; a durable effect     *)
(* only makes it look for a false duplicate to reopen.                     *)
PinStart(d) ==
    /\ d \notin Handoff /\ disp[d].at = "idle" /\ state.subject # 0
    /\ \E s \in {state.subject} \union ({state.active} \ {0}) :
          /\ ~Active(state, s)
          /\ disp' = [disp EXCEPT ![d] =
                IF Durable(state, s)
                  THEN [Starting("recover", "pass", s, state) EXCEPT !.outcome = "already_dispatched"]
                  ELSE Starting("claim", "pass", s, state)]
    /\ UNCHANGED <<state, jobs, sent, faults, linear, announced, reviewVars>>

(* attemptDispatchOnce.  What it finds already there goes to recovery.     *)
Refuse(d) ==
    /\ disp[d].at = "claim"
    /\ LET o == Refusal(disp[d].held, disp[d].subject) IN
       /\ o # "none"
       /\ Ends(d, IF o \in Found THEN "recover" ELSE "report", disp[d].held, o)
    /\ UNCHANGED <<state, jobs, sent, faults, linear, announced, reviewVars>>

MayClaim(d) ==
    /\ disp[d].at = "claim" /\ Refusal(disp[d].held, disp[d].subject) = "none"

Claim(d) ==
    /\ MayClaim(d) /\ ~Taken(disp[d].held, disp[d].subject, d)
    /\ \/ CasWon(d, ClaimedBy(disp[d].held, disp[d].subject, d)) /\ Goes(d, "present", state')
       \/ CasLost(d) /\ Goes(d, "lost", disp[d].held)
    /\ UNCHANGED <<jobs, sent, faults, linear, announced, reviewVars>>

(* The claim's write was lost: look for someone else's result.             *)
LostClaim(d) ==
    /\ disp[d].at = "lost"
    /\ LET s == disp[d].subject IN
       CASE Durable(state, s) -> Ends(d, "recover", state, "already_dispatched")
         [] ~Durable(state, s) /\ Request(s) -> Ends(d, "recover", state, "request_already_present")
         [] OTHER -> Goes(d, "again", state)
    /\ UNCHANGED <<state, jobs, sent, faults, linear, announced, reviewVars>>

(* After claim_lost: reload, look again, and retry from the state loaded.  *)
Retrying(d) == disp[d].at = "again" \/ (MayClaim(d) /\ Taken(disp[d].held, disp[d].subject, d))

Retries(d) ==
    IF disp[d].tries = MaxRetries THEN Ends(d, "report", NoState, "claim_lost")
    ELSE disp' = [disp EXCEPT ![d].at = "claim", ![d].held = state, ![d].tries = @ + 1]

Again(d) ==
    /\ Retrying(d)
    /\ LET s == disp[d].subject
           o == Refusal(state, s)
       IN
       IF Durable(state, s) THEN Ends(d, "report", state, "already_dispatched")
       ELSE IF o # "none" THEN Ends(d, "report", state, o)
       ELSE IF Request(s) THEN Ends(d, "report", state, "request_already_present")
       ELSE Retries(d)
    /\ UNCHANGED <<state, jobs, sent, faults, linear, announced, reviewVars>>

(* The loads of the envelope after a lost claim that throw count as no.    *)
MissedRequest(d) ==
    /\ LET s == disp[d].subject IN
       /\ \/ disp[d].at = "lost" /\ ~Durable(state, s) /\ Goes(d, "again", state)
          \/ Retrying(d) /\ Refusal(state, s) = "none" /\ Retries(d)
       /\ Request(s)
    /\ Fault
    /\ UNCHANGED <<state, jobs, sent>>

(* recoverFalseDuplicateCodeReviewDispatch.                                *)
Recover(d) ==
    /\ disp[d].at = "recover"
    /\ LET s == disp[d].subject IN
       IF ~Active(disp[d].held, s) /\ FalseDuplicate(jobs[s])
         THEN disp' = [disp EXCEPT ![d].at = "reopen", ![d].job = jobs[s]]
         ELSE Goes(d, "report", disp[d].held)
    /\ UNCHANGED <<state, jobs, sent, faults, linear, announced, reviewVars>>

(* With the envelope reopened there is no token to send its event with.    *)
NoTokenLeft(d) ==
    /\ disp[d].at = "resend" /\ Fault
    /\ Ends(d, "report", NoState, "missing_dispatch_token")
    /\ UNCHANGED <<state, jobs, sent>>

(* Handoff announces the review only when the request is proven, writes    *)
(* that it has to the state it was left with, stored or not, and sets the  *)
(* status; what is on record as announced is not announced again.          *)
Announce(d) ==
    /\ disp[d].mode = "phase" /\ disp[d].outcome \in Proven
    /\ \/ CasWon(d, disp[d].held) \/ CasLost(d)
       \/ disp[d].subject \in announced /\ UNCHANGED state
    /\ linear' = "Code Review" /\ announced' = announced \union {disp[d].subject}

(* It blocks the issue otherwise; a pass that found the issue blocked sets *)
(* the status back.                                                        *)
Conclude(d) ==
    /\ disp[d].mode # "phase" \/ disp[d].outcome \notin Proven
    /\ linear' = CASE disp[d].mode = "phase" -> "Blocked"
                   [] disp[d].mode = "unblock"
                        /\ disp[d].outcome \in Found \union {"dispatched"} -> "Code Review"
                   [] OTHER -> linear
    /\ UNCHANGED <<state, announced>>

Report(d) ==
    /\ disp[d].at = "report"
    /\ Announce(d) \/ Conclude(d)
    /\ Stops(d)
    /\ UNCHANGED <<jobs, sent, faults, reviewVars>>

Started(d) == HandoffStart(d) \/ ReconcileStart(d) \/ PinStart(d)

Attempt(d) == Refuse(d) \/ Claim(d) \/ LostClaim(d) \/ Again(d) \/ Recover(d) \/ Report(d)

Protocol(d) ==
    /\ \/ Present(d) \/ Block(d) \/ Create(d) \/ Send(d) \/ Repair(d) \/ Reopen(d)
       \/ Mark(d, Dispatched(disp[d].held, disp[d].subject),
               IF disp[d].outcome \in Found THEN "recover" ELSE "report")
       \/ RepairMark(d, Dispatched(disp[d].held, disp[d].subject), "recover")
       \/ Resend(d, "false_duplicate_recovered")
    /\ UNCHANGED <<linear, announced, reviewVars>>

Failure(d) ==
    /\ Misread(d) \/ MissedRequest(d) \/ NoToken(d) \/ NoTokenLeft(d) \/ Crash(d) \/ Throw(d)
    /\ UNCHANGED <<linear, announced, reviewVars>>

----------------------------------------------------------------------------
(* Reviewer runs.  Those of one job follow each other (the concurrency     *)
(* group of run-harness).                                                  *)
RunRecords ==
    [at : {"idle", "phase", "agent", "end", "done"}, job : 0..MaxSubject,
     subject : 0..MaxSubject, result : Completions]

NoRunYet == [at |-> "idle", job |-> 0, subject |-> 0, result |-> "none"]

StartRun(r) ==
    /\ runs[r].at = "idle"
    /\ \E s \in Subject :
          /\ sent[s] > 0 /\ sent' = [sent EXCEPT ![s] = @ - 1]
          /\ \A q \in Run : runs[q].at \in {"phase", "agent", "end"} => runs[q].job # s
          /\ jobs' = [jobs EXCEPT ![s] = Taking(s, r)]
          /\ runs' = [runs EXCEPT ![r] =
                [NoRunYet EXCEPT !.at = IF TurnedAway(s) THEN "done" ELSE "phase", !.job = s]]
          /\ served' = served \union {s}
    /\ UNCHANGED <<state, disp, faults, linear, announced, lapsed>>

(* A status change to Code Review starts one through another envelope.     *)
StartOther(r) ==
    /\ runs[r].at = "idle" /\ linear = "Code Review"
    /\ runs' = [runs EXCEPT ![r] = [NoRunYet EXCEPT !.at = "phase"]]
    /\ served' = served \union {state.subject}
    /\ UNCHANGED <<state, jobs, sent, disp, faults, linear, announced, lapsed>>

(* resolve-route goes by the issue's status: while it is not Code Review   *)
(* the run does another phase, or none, and then leaves its claim behind.  *)
RunElsewhere(r) ==
    /\ runs[r].at = "phase" /\ linear # "Code Review"
    /\ IF linear \in {"PR Open", "Code Revision"}
         THEN \E result \in {"verified_complete", "duplicate_phase_completed", "run_failed"} :
                 runs' = [runs EXCEPT ![r].at = "end", ![r].result = result]
         ELSE runs' = [runs EXCEPT ![r] = [NoRunYet EXCEPT !.at = "done"]]
    /\ UNCHANGED <<state, jobs, sent, disp, faults, linear, announced, served, lapsed>>

(* The phase's eligibility gate and its claim: a subject with a decision   *)
(* or with a lease, lapsed or not, is a duplicate.                         *)
RunPhase(r) ==
    /\ runs[r].at = "phase" /\ linear = "Code Review"
    /\ LET s == state.subject IN
       IF state.decided = s \/ state.lease = s
         THEN /\ runs' = [runs EXCEPT ![r].at = "end", ![r].result = "duplicate_phase_completed"]
              /\ UNCHANGED state
         ELSE /\ state' = [state EXCEPT !.rev = @ + 1, !.lease = s, !.phase = "pm_review"]
              /\ runs' = [runs EXCEPT ![r].at = "agent", ![r].subject = s]
    /\ UNCHANGED <<jobs, sent, disp, faults, linear, announced, served, lapsed>>

(* A decision is stored and shown, or the run fails and leaves its lease.  *)
RunAgent(r) ==
    /\ runs[r].at = "agent"
    /\ \/ \E phase \in {"pm_review", "code_revision"} :
             /\ state' = [state EXCEPT !.rev = @ + 1, !.lease = 0, !.phase = phase,
                                       !.decided = runs[r].subject]
             /\ linear' = IF phase = "pm_review" THEN "PM Review" ELSE "Code Revision"
             /\ runs' = [runs EXCEPT ![r].at = "end", ![r].result = "verified_complete"]
       \/ /\ runs' = [runs EXCEPT ![r].at = "end", ![r].result = "run_failed"]
          /\ UNCHANGED <<state, linear>>
    /\ UNCHANGED <<jobs, sent, disp, faults, announced, served, lapsed>>

RunEnd(r) ==
    /\ runs[r].at = "end"
    /\ jobs' = [s \in Subject |-> IF s = runs[r].job THEN Finished(s, r, runs[r].result) ELSE jobs[s]]
    /\ runs' = [runs EXCEPT ![r] = [NoRunYet EXCEPT !.at = "done"]]
    /\ UNCHANGED <<state, sent, disp, faults, linear, announced, served, lapsed>>

(* A reviser's new commit is a new subject; the status change is what      *)
(* starts its review.                                                      *)
Revise ==
    /\ state.phase = "code_revision" /\ linear = "Code Revision"
    /\ state.subject < MaxSubject
    /\ state' = [state EXCEPT !.rev = @ + 1, !.phase = "code_review", !.subject = @ + 1]
    /\ linear' = "Code Review"
    /\ UNCHANGED <<jobs, sent, disp, faults, announced, reviewVars>>

LeaseLapses ==
    /\ state.lease # 0 /\ state.lease \notin lapsed
    /\ lapsed' = lapsed \union {state.lease}
    /\ UNCHANGED <<effectVars, linear, announced, runs, served>>

Review(r) ==
    \/ StartRun(r) \/ StartOther(r) \/ RunElsewhere(r)
    \/ RunPhase(r) \/ RunAgent(r) \/ RunEnd(r)

----------------------------------------------------------------------------
Init ==
    /\ EffectInit
    /\ state = [NoState EXCEPT !.rev = 1, !.phase = "handoff"]
    /\ linear = "PR Open" /\ announced = {}
    /\ runs = [r \in Run |-> NoRunYet] /\ served = {} /\ lapsed = {}

Dispatch(d) == Attempt(d) \/ Protocol(d)

Next ==
    \/ \E d \in Dispatcher : Started(d) \/ Dispatch(d) \/ Failure(d)
    \/ \E r \in Run : Review(r)
    \/ Revise
    \/ LeaseLapses

Spec == Init /\ [][Next]_vars

(* A process that is running takes its next step.                          *)
FairSpec == Spec /\ \A d \in Dispatcher : WF_vars(Dispatch(d))

TypeOK ==
    /\ EffectTypeOK
    /\ linear \in Statuses
    /\ announced \union served \union lapsed \subseteq 0..MaxSubject
    /\ runs \in [Run -> RunRecords]

(* The subject on record is one whose request is on record too, so that    *)
(* what conflicts with it conflicts with a real request                    *)
(* (activeReviewSubjectIdentity).                                          *)
ActiveIsRequested == state.active # 0 => Request(state.active)

(* Handoff leaves a job behind: when nothing fails, its event is sent,     *)
(* unless a reviewer has come first.                                       *)
HandoffStartsReview ==
    [](faults = 0) =>
        (state.phase = "code_review" /\ state.subject = 1 ~> sent[1] > 0 \/ 1 \in served)
=============================================================================
