------------------------------- MODULE JobRuns -------------------------------
(***************************************************************************)
(* The GitHub Actions runs that serve one job-request envelope             *)
(* (.github/workflows/harness-auto-runner.yml).  A run goes through up to  *)
(* seven steps that each call claimJobRequest with the run's id; every     *)
(* call is a load followed by a compare-and-set, in a process of its own,  *)
(* so any other actor may move the envelope between the two.  Between the  *)
(* claims come doctor, the phase itself, and the steps that terminalize    *)
(* the envelope, which look at its state and never at who claimed it.      *)
(***************************************************************************)
EXTENDS JobEnvelope

CONSTANTS
    MergeJob,     \* TRUE: job run-merge; FALSE: job run-harness
    AckRequired,  \* ack.ackRequired: TRUE for webhook envelopes only
    Contention,   \* other envelopes are written to the same branch: a PUT may get 409
    Cancels       \* runs may be cancelled or lost

ASSUME ModeAssumption == {MergeJob, AckRequired, Contention, Cancels} \subseteq BOOLEAN

VARIABLES
    env,          \* the stored envelope
    late,         \* the clock has passed expiresAt
    sent,         \* repository_dispatch events not yet turned into a run
    runs          \* per run: where it is, and the record it last loaded

runVars == <<env, late, sent, runs>>

ClaimStages == {"gate", "route", "start", "recheck", "reroute", "harness", "finalize"}
WorkStages == {"queued", "doctor", "doctorFail", "ack", "phase", "terminalize"}
Stages == ClaimStages \union WorkStages \union {"idle", "done"}
Steps == {"load", "cas", "reload", "expire"}

(* `result` is the completion that a run is still to report.               *)
RunRecords ==
    [at : Stages, step : Steps, seen : Envelopes, result : Completions]

At(stage) == [at |-> stage, step |-> "load", seen |-> NoEnvelope, result |-> "none"]
Reporting(stage, result) == [At(stage) EXCEPT !.result = result]

(* A run whose report was refused, or that was lost before it made one,    *)
(* ends with it.                                                           *)
Unreported(r) == runs[r].at = "done" /\ runs[r].result # "none"

(* Stages inside the job that holds the request's concurrency group.       *)
JobStages == {"start", "doctor", "doctorFail", "recheck", "reroute", "harness",
              "ack", "phase", "finalize", "terminalize"}

GroupBusy == \E r \in Run : runs[r].at \in JobStages

(* Where a run goes when its claim step succeeds.  After the two route     *)
(* steps resolve-route decides, from the issue's live status, should_run.  *)
Next1(stage) ==
    CASE stage = "gate"     -> {"route"}
      [] stage = "route"    -> {"queued", "done"}
      [] stage = "start"    -> {"doctor"}
      [] stage = "recheck"  -> {"reroute"}
      [] stage = "reroute"  -> {"harness", "done"}
      [] stage = "harness"  -> {"ack"}
      [] stage = "finalize" -> {"terminalize"}

(* run-harness keeps at most one run waiting: a newer one cancels it.      *)
(* run-merge has `queue: max`.                                             *)
Moved(r, record) ==
    IF record.at = "queued" /\ ~MergeJob
      THEN [q \in Run |-> CASE q = r -> record
                            [] q # r /\ runs[q].at = "queued" -> At("done")
                            [] OTHER -> runs[q]]
      ELSE [runs EXCEPT ![r] = record]

Proceed(r) ==
    \E stage \in Next1(runs[r].at) : runs' = Moved(r, Reporting(stage, runs[r].result))

(* The stages at whose failure, and at whose cancellation, the finalize    *)
(* step still runs.  In run-merge it asks only that doctor has not failed, *)
(* in run-harness that the route was resolved again.                       *)
Finalized(stage) ==
    \/ stage \in {"harness", "ack", "phase"}
    \/ MergeJob /\ stage \in {"start", "doctor"}

(* A claim that throws ends the job, or leads to the finalize step, which  *)
(* finds no manifest and writes one of a crash.                            *)
Reject(r) ==
    runs' = [runs EXCEPT ![r] =
        IF Finalized(runs[r].at) THEN Reporting("finalize", "run_crash")
                                 ELSE Reporting("done", runs[r].result)]

(* compareAndSet of `next`, built from the record `e`: won or lost.        *)
CasWon(e, next) == CasMatches(env, e) /\ env' = next
CasLost(e) == (~CasMatches(env, e) \/ Contention) /\ UNCHANGED env

----------------------------------------------------------------------------
(* A dispatch event reaches Actions, or an operator re-dispatches by hand  *)
(* a request id that an earlier run shows.                                 *)
StartFromEvent(r) ==
    /\ runs[r].at = "idle" /\ sent > 0
    /\ sent' = sent - 1
    /\ runs' = [runs EXCEPT ![r] = At("gate")]
    /\ UNCHANGED <<env, late>>

StartByHand(r) ==
    /\ runs[r].at = "idle"
    /\ \E q \in Run : runs[q].at # "idle"
    /\ runs' = [runs EXCEPT ![r] = At("gate")]
    /\ UNCHANGED <<env, late, sent>>

(* The concurrency group admits one queued run at a time.                  *)
EnterJob(r) ==
    /\ runs[r].at = "queued" /\ ~GroupBusy
    /\ runs' = [runs EXCEPT ![r] = At("start")]
    /\ UNCHANGED <<env, late, sent>>

(* claimJobRequest: load and decide.  Expiry is looked at first, in any    *)
(* state; completed and failed are a no-op that the caller takes for       *)
(* success.                                                                *)
ClaimLoad(r) ==
    /\ runs[r].at \in ClaimStages /\ runs[r].step = "load"
    /\ \/ /\ env.state # "absent" /\ late
          /\ runs' = [runs EXCEPT ![r].step = "expire", ![r].seen = env]
       \/ /\ ~late /\ env.state = "pending"
          /\ runs' = [runs EXCEPT ![r].step = "cas", ![r].seen = env]
       \/ /\ ~late
          /\ Terminal(env) \/ (env.state = "claimed" /\ env.claim = r)
          /\ Proceed(r)
       \/ /\ \/ env.state = "absent"
             \/ ~late /\ env.state = "expired"
             \/ ~late /\ env.state = "claimed" /\ env.claim # r
          /\ Reject(r)
    /\ UNCHANGED <<env, late, sent>>

ClaimCas(r) ==
    /\ runs[r].at \in ClaimStages /\ runs[r].step = "cas"
    /\ \/ CasWon(runs[r].seen, Claimed(runs[r].seen, r)) /\ Proceed(r)
       \/ /\ CasLost(runs[r].seen)
          /\ runs' = [runs EXCEPT ![r].step = "reload", ![r].seen = NoEnvelope]
    /\ UNCHANGED <<late, sent>>

(* Variant: any claim will do after a lost race.                           *)
ClaimReload_AnyClaim(r) ==
    /\ runs[r].at \in ClaimStages /\ runs[r].step = "reload"
    /\ IF env.state = "claimed" THEN Proceed(r) ELSE Reject(r)
    /\ UNCHANGED <<env, late, sent>>

(* After a lost race only the caller's own claim is good news; a pending   *)
(* envelope is reported as claimed by someone else too.                    *)
ClaimReload(r) ==
    /\ runs[r].at \in ClaimStages /\ runs[r].step = "reload"
    /\ IF env.state = "claimed" /\ env.claim = r THEN Proceed(r) ELSE Reject(r)
    /\ UNCHANGED <<env, late, sent>>

(* markExpired writes over whatever state it loaded and ignores a lost     *)
(* race; the claim throws either way.                                      *)
ClaimExpire(r) ==
    /\ runs[r].at \in ClaimStages /\ runs[r].step = "expire"
    /\ CasWon(runs[r].seen, Expired(runs[r].seen)) \/ CasLost(runs[r].seen)
    /\ Reject(r)
    /\ UNCHANGED <<late, sent>>

(* Doctor, and the step after it that writes the dispatch metadata, which  *)
(* may fail as well.                                                       *)
Doctor(r) ==
    /\ runs[r].at = "doctor"
    /\ \E next \in {Reporting("doctorFail", "doctor_checks_failed"),
                    At(IF MergeJob THEN "harness" ELSE "recheck"),
                    IF MergeJob THEN Reporting("finalize", "run_crash") ELSE At("done")} :
           runs' = [runs EXCEPT ![r] = next]
    /\ UNCHANGED <<env, late, sent>>

(* Variant: only an unclaimed envelope is failed.                          *)
DoctorFailLoad_OnlyPending(r) ==
    /\ runs[r].at = "doctorFail" /\ runs[r].step = "load"
    /\ runs' = [runs EXCEPT ![r] =
                   IF env.state = "pending" THEN [@ EXCEPT !.step = "cas", !.seen = env]
                                            ELSE At("done")]
    /\ UNCHANGED <<env, late, sent>>

(* harness:fail-job-request after a failed doctor, then finalize-harness-  *)
(* run with exit code 1 if that succeeded (the step runs under bash -e).   *)
DoctorFailLoad(r) ==
    /\ runs[r].at = "doctorFail" /\ runs[r].step = "load"
    /\ runs' = [runs EXCEPT ![r] =
                   IF env.state = "claimed" THEN [@ EXCEPT !.step = "cas", !.seen = env]
                                            ELSE At("done")]
    /\ UNCHANGED <<env, late, sent>>

DoctorFailCas(r) ==
    /\ runs[r].at = "doctorFail" /\ runs[r].step = "cas"
    /\ LET next == Terminalized(runs[r].seen, "failed", "doctor_checks_failed") IN
       \/ /\ CasWon(runs[r].seen, next)
          /\ runs' = [runs EXCEPT ![r] = Reporting("terminalize", "run_crash")]
       \/ /\ CasLost(runs[r].seen)
          /\ runs' = [runs EXCEPT ![r] = Reporting("done", runs[r].result)]
    /\ UNCHANGED <<late, sent>>

(* The runner's fallback acknowledgement.  A lost first write is ignored   *)
(* and the second one is numbered from the record that never landed.       *)
AckLoad(r) ==
    /\ runs[r].at = "ack" /\ runs[r].step = "load"
    /\ runs' = [runs EXCEPT ![r] =
                   IF AckRequired /\ env.state # "absent" /\ env.ack # "confirmed"
                     THEN [@ EXCEPT !.step = "cas", !.seen = env]
                     ELSE At("phase")]
    /\ UNCHANGED <<env, late, sent>>

AckAttempt(r) ==
    /\ runs[r].at = "ack" /\ runs[r].step = "cas"
    /\ LET next == AckPatched(runs[r].seen, "attempted") IN
       /\ CasWon(runs[r].seen, next) \/ CasLost(runs[r].seen)
       /\ runs' = [runs EXCEPT ![r].step = "reload", ![r].seen = next]
    /\ UNCHANGED <<late, sent>>

AckConfirm(r) ==
    /\ runs[r].at = "ack" /\ runs[r].step = "reload"
    /\ \E ack \in {"attempted", "confirmed"} :
           CasWon(runs[r].seen, AckPatched(runs[r].seen, ack)) \/ CasLost(runs[r].seen)
    /\ runs' = [runs EXCEPT ![r] = At("phase")]
    /\ UNCHANGED <<late, sent>>

(* Variant: a phase that crashes skips the finalize step.                  *)
Phase_CrashSkipsFinalize(r) ==
    /\ runs[r].at = "phase"
    /\ \E result \in {"verified_complete", "run_crash"} :
           runs' = [runs EXCEPT ![r] =
               IF result = "run_crash" THEN At("done") ELSE Reporting("finalize", result)]
    /\ UNCHANGED <<env, late, sent>>

(* The phase: its manifest's errorClassification, or the exit code, is     *)
(* what finalize will write.                                               *)
Phase(r) ==
    /\ runs[r].at = "phase"
    /\ \E result \in {"verified_complete", "duplicate_phase_completed", "run_crash", "run_failed"} :
           runs' = [runs EXCEPT ![r] = Reporting("finalize", result)]
    /\ UNCHANGED <<env, late, sent>>

(* terminalizeJobRequest: completeJobRequest or failJobRequest, neither of *)
(* which asks whose claim it is.                                           *)
TerminalizeLoad(r) ==
    /\ runs[r].at = "terminalize" /\ runs[r].step = "load"
    /\ runs' = [runs EXCEPT ![r] =
                   IF env.state = "claimed" THEN [@ EXCEPT !.step = "cas", !.seen = env]
                                            ELSE At("done")]
    /\ UNCHANGED <<env, late, sent>>

TerminalizeCas(r) ==
    /\ runs[r].at = "terminalize" /\ runs[r].step = "cas"
    /\ LET result == runs[r].result
           state == IF result \in {"verified_complete", "duplicate_phase_completed"}
                      THEN "completed" ELSE "failed"
       IN \/ /\ CasWon(runs[r].seen, Terminalized(runs[r].seen, state, result))
             /\ runs' = [runs EXCEPT ![r] = At("done")]
          \/ /\ CasLost(runs[r].seen)
             /\ runs' = [runs EXCEPT ![r] = Reporting("done", result)]
    /\ UNCHANGED <<late, sent>>

(* The runner dies; or the job is cancelled or timed out, and the finalize *)
(* step still runs, with exit code 1 and the manifest it finds or makes.   *)
Cancel(r) ==
    /\ Cancels
    /\ \/ /\ runs[r].at \notin {"idle", "done"}
          /\ runs' = [runs EXCEPT ![r] = Reporting("done", "run_crash")]
       \/ /\ Finalized(runs[r].at)
          /\ \E result \in {"run_crash", "run_failed"} :
                 runs' = [runs EXCEPT ![r] = Reporting("finalize", result)]
    /\ UNCHANGED <<env, late, sent>>

Expire ==
    /\ ~late /\ late' = TRUE
    /\ UNCHANGED <<env, sent, runs>>

RunClaims(r) == ClaimLoad(r) \/ ClaimCas(r) \/ ClaimReload(r) \/ ClaimExpire(r)
RunAcks(r) == AckLoad(r) \/ AckAttempt(r) \/ AckConfirm(r)
RunEnds(r) == DoctorFailLoad(r) \/ DoctorFailCas(r) \/ TerminalizeLoad(r) \/ TerminalizeCas(r)

RunStep(r) ==
    EnterJob(r) \/ RunClaims(r) \/ Doctor(r) \/ RunAcks(r) \/ Phase(r) \/ RunEnds(r)

RunInit ==
    /\ env = NoEnvelope /\ late = FALSE /\ sent = 0
    /\ runs = [r \in Run |-> At("idle")]

RunTypeOK ==
    /\ env \in Envelopes /\ late \in BOOLEAN /\ sent \in Nat
    /\ runs \in [Run -> RunRecords]
=============================================================================
