----------------------------- MODULE JobEnvelope -----------------------------
(***************************************************************************)
(* The job-request envelope: the durable record, one JSON file per request *)
(* on the state branch, that carries a unit of work from the process that  *)
(* asks for it to the GitHub Actions run that does it.  This module holds  *)
(* the record and the pure "next record" functions of                      *)
(* src/workflow/job-request/ (create, claim, terminalize, reopen, expire,  *)
(* acknowledge, dispatch bookkeeping).  Who applies them, and when, is in  *)
(* JobRuns, JobRequest and MergeDispatch.                                  *)
(***************************************************************************)
EXTENDS Naturals

CONSTANTS
    Run,          \* GITHUB_RUN_IDs: the claim identities of the GHA runs
    NoRun         \* claimIdentity = null

ASSUME NoRunAssumption == NoRun \notin Run

EnvelopeStates == {"absent", "pending", "claimed", "completed", "failed", "expired"}

(* completionState: null, or one of the classes the code tells apart.  The *)
(* last two kinds of failure stand for the retryable and the final ones.   *)
RetryableCompletions == {"doctor_checks_failed", "stale_prephase_claim", "run_crash"}
FalseDuplicateCompletions == {"duplicate_phase_completed"}
Completions == {"none", "verified_complete", "run_failed"}
                 \union RetryableCompletions \union FalseDuplicateCompletions

AckStates == {"none", "attempted", "confirmed"}
DispatchStates == {"none", "attempted", "confirmed"}

(* The record.  `ack` and `dispatch` are each one field: the stamps of     *)
(* attemptedAt and confirmedAt are only ever set in that order.            *)
Envelopes ==
    [state : EnvelopeStates, claim : Run \union {NoRun}, done : Completions,
     ack : AckStates, dispatch : DispatchStates, rev : Nat]

NoEnvelope ==
    [state |-> "absent", claim |-> NoRun, done |-> "none",
     ack |-> "none", dispatch |-> "none", rev |-> 0]

NewEnvelope == [NoEnvelope EXCEPT !.state = "pending"]

Terminal(e) == e.state \in {"completed", "failed"}

(* Every writer builds its record from one it holds, and numbers it one    *)
(* above that one.                                                         *)
Claimed(e, r) ==
    [e EXCEPT !.state = "claimed", !.claim = r, !.rev = @ + 1]

(* Variant: the two arguments swapped.                                     *)
Terminalized_Swapped(e, state, completion) ==
    [e EXCEPT !.state = completion, !.done = state, !.rev = @ + 1]

Terminalized(e, state, completion) ==
    [e EXCEPT !.state = state, !.done = completion, !.rev = @ + 1]

Expired(e) == [e EXCEPT !.state = "expired", !.rev = @ + 1]

Reopened(e) ==
    [e EXCEPT !.state = "pending", !.claim = NoRun, !.done = "none",
              !.dispatch = "none", !.rev = @ + 1]

AckPatched(e, ack) == [e EXCEPT !.ack = ack, !.rev = @ + 1]

DispatchPatched(e, dispatch) == [e EXCEPT !.dispatch = dispatch, !.rev = @ + 1]

(* Variants: the class of the completion is not looked at.                 *)
RetryableFailure_AnyTerminal(e) == Terminal(e)
FalseDuplicate_AnyCompletion(e) == e.state = "completed"

(* Which terminal records reconcile may put back to pending.               *)
RetryableFailure(e) ==
    /\ e.state = "failed"
    /\ e.done \in RetryableCompletions \union {"none"}

FalseDuplicate(e) ==
    e.state = "completed" /\ e.done \in FalseDuplicateCompletions

(* A claim that reconcile takes for one whose run died before its phase.   *)
StalePrePhaseClaim(e, activeAgentOrLease) ==
    e.state = "claimed" /\ ~activeAgentOrLease /\ e.done = "none"

(* Variant: a write that does not look at the revision.                    *)
CasMatches_Blind(stored, expected) == stored.state # "absent"

(* compareAndSet against the stored record `stored`: the write lands only  *)
(* on the revision it names, through the blob sha it loaded.               *)
CasMatches(stored, expected) ==
    stored.state # "absent" /\ stored.rev = expected.rev
=============================================================================
