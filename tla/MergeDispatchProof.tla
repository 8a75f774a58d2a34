------------------------- MODULE MergeDispatchProof --------------------------
(***************************************************************************)
(* Proofs about MergeDispatch, for any number of passes and runs and       *)
(* whichever writes are refused: the type invariant; that completed work   *)
(* stays; and that a confirmed dispatch was sent since the envelope was    *)
(* created or last failed.  Passes number what they hold                   *)
(* from writes that never landed, so a pass may meet a stored envelope of  *)
(* the revision it holds and other contents: the invariant says which.     *)
(***************************************************************************)
EXTENDS MergeDispatch, TLAPS

----------------------------------------------------------------------------
(* Every next-record function yields an envelope.                          *)
LEMMA EnvelopeTypes ==
    ASSUME NEW e \in Envelopes
    PROVE  /\ NoEnvelope \in Envelopes
           /\ NewEnvelope \in Envelopes
           /\ \A r \in Run : Claimed(e, r) \in Envelopes
           /\ \A s \in EnvelopeStates, d \in Completions : Terminalized(e, s, d) \in Envelopes
           /\ Expired(e) \in Envelopes
           /\ Reopened(e) \in Envelopes
           /\ \A a \in AckStates : AckPatched(e, a) \in Envelopes
           /\ \A d \in DispatchStates : DispatchPatched(e, d) \in Envelopes
  <1> USE DEF Envelopes
  <1>0. e.rev + 1 \in Nat
    OBVIOUS
  <1>1. NoEnvelope \in Envelopes /\ NewEnvelope \in Envelopes
    BY DEF NoEnvelope, NewEnvelope, EnvelopeStates, Completions, AckStates, DispatchStates
  <1>2. \A r \in Run : Claimed(e, r) \in Envelopes
    BY <1>0 DEF Claimed, EnvelopeStates
  <1>3. \A s \in EnvelopeStates, d \in Completions : Terminalized(e, s, d) \in Envelopes
    BY <1>0 DEF Terminalized
  <1>4. Expired(e) \in Envelopes
    BY <1>0 DEF Expired, EnvelopeStates
  <1>5. Reopened(e) \in Envelopes
    BY <1>0 DEF Reopened, EnvelopeStates, Completions, DispatchStates
  <1>6. \A a \in AckStates : AckPatched(e, a) \in Envelopes
    BY <1>0 DEF AckPatched
  <1>7. \A d \in DispatchStates : DispatchPatched(e, d) \in Envelopes
    BY <1>0 DEF DispatchPatched
  <1> QED BY <1>1, <1>2, <1>3, <1>4, <1>5, <1>6, <1>7

(* A run's record at the start of a stage, with or without a result.       *)
LEMMA RunRecordTypes ==
    ASSUME NEW stage \in Stages, NEW d \in Completions
    PROVE  At(stage) \in RunRecords /\ Reporting(stage, d) \in RunRecords
  <1>1. NoEnvelope \in Envelopes
    BY DEF Envelopes, NoEnvelope, EnvelopeStates, Completions, AckStates, DispatchStates
  <1>2. "none" \in Completions /\ "load" \in Steps
    BY DEF Completions, Steps
  <1> QED BY <1>1, <1>2 DEF At, Reporting, RunRecords

(* The two ways a claim step ends keep the runs well typed.                *)
LEMMA ClaimEndTypes ==
    ASSUME RunTypeOK, NEW r \in Run, runs[r].at \in ClaimStages, Proceed(r) \/ Reject(r)
    PROVE  runs' \in [Run -> RunRecords]
  <1>1. runs \in [Run -> RunRecords] /\ runs[r].result \in Completions
    BY DEF RunTypeOK, RunRecords
  <1>2. At("done") \in RunRecords
    BY RunRecordTypes DEF Stages, Completions
  <1>3. CASE Reject(r)
    <2>1. Reporting("finalize", "run_crash") \in RunRecords
      BY RunRecordTypes DEF Stages, ClaimStages, Completions, RetryableCompletions
    <2>2. Reporting("done", runs[r].result) \in RunRecords
      BY <1>1, RunRecordTypes DEF Stages
    <2> QED BY <1>1, <1>3, <2>1, <2>2 DEF Reject
  <1>4. CASE Proceed(r)
    <2>1. PICK stage \in Next1(runs[r].at) :
              runs' = Moved(r, Reporting(stage, runs[r].result))
      BY <1>4 DEF Proceed
    <2>2. stage \in Stages
      BY <2>1 DEF Next1, ClaimStages, Stages, WorkStages
    <2>3. Reporting(stage, runs[r].result) \in RunRecords
      BY <1>1, <2>2, RunRecordTypes
    <2> QED BY <1>1, <1>2, <2>1, <2>3 DEF Moved
  <1> QED BY <1>3, <1>4

(* Setting the step and the record a run holds keeps it well typed.        *)
LEMMA HoldTypes ==
    ASSUME RunTypeOK, NEW r \in Run, NEW step \in Steps, NEW e \in Envelopes
    PROVE  /\ [runs EXCEPT ![r].step = step, ![r].seen = e] \in [Run -> RunRecords]
           /\ [runs EXCEPT ![r] = [@ EXCEPT !.step = step, !.seen = e]] \in [Run -> RunRecords]
  BY DEF RunTypeOK, RunRecords

(* A compareAndSet, won or lost, leaves an envelope.                       *)
LEMMA CasTypes ==
    ASSUME env \in Envelopes, NEW e, NEW next \in Envelopes, CasWon(e, next) \/ CasLost(e)
    PROVE  env' \in Envelopes
  BY DEF CasWon, CasLost

(* The steps of the runs keep the runs' part of the type invariant.        *)
LEMMA RunStepTypes ==
    ASSUME RunTypeOK, NEW r \in Run,
           StartFromEvent(r) \/ RunStep(r) \/ Cancel(r)
    PROVE  RunTypeOK'
  <1> USE DEF RunTypeOK
  <1>0. /\ runs[r] \in RunRecords /\ runs[r].seen \in Envelopes
        /\ runs[r].result \in Completions
    BY DEF RunRecords
  <1>a. \A stage \in Stages : [runs EXCEPT ![r] = At(stage)] \in [Run -> RunRecords]
    BY RunRecordTypes DEF Completions
  <1>b. \A stage \in Stages, d \in Completions :
            [runs EXCEPT ![r] = Reporting(stage, d)] \in [Run -> RunRecords]
    BY RunRecordTypes
  <1>c. NoEnvelope \in Envelopes
    BY EnvelopeTypes
  <1>d. \A step \in Steps, e \in Envelopes :
            [runs EXCEPT ![r].step = step, ![r].seen = e] \in [Run -> RunRecords]
    BY HoldTypes
  <1>1. CASE StartFromEvent(r)
    BY <1>1, <1>a DEF StartFromEvent, Stages, ClaimStages
  <1>3. CASE EnterJob(r)
    BY <1>3, <1>a DEF EnterJob, Stages, ClaimStages
  <1>4. CASE ClaimLoad(r)
    <2>1. runs' \in [Run -> RunRecords]
      <3>1. \A step \in {"expire", "cas"} :
                [runs EXCEPT ![r].step = step, ![r].seen = env] \in [Run -> RunRecords]
        BY <1>d DEF Steps
      <3>2. runs[r].at \in ClaimStages
        BY <1>4 DEF ClaimLoad
      <3>3. Proceed(r) \/ Reject(r) => runs' \in [Run -> RunRecords]
        BY <3>2, ClaimEndTypes
      <3> QED BY <1>4, <3>1, <3>3 DEF ClaimLoad
    <2> QED BY <1>4, <2>1 DEF ClaimLoad
  <1>5. CASE ClaimCas(r)
    <2>1. runs' \in [Run -> RunRecords]
      <3>1. [runs EXCEPT ![r].step = "reload", ![r].seen = NoEnvelope] \in [Run -> RunRecords]
        BY <1>c, <1>d DEF Steps
      <3>2. runs[r].at \in ClaimStages
        BY <1>5 DEF ClaimCas
      <3>3. Proceed(r) => runs' \in [Run -> RunRecords]
        BY <3>2, ClaimEndTypes
      <3> QED BY <1>5, <3>1, <3>3 DEF ClaimCas
    <2>2. env' \in Envelopes
      BY <1>5, <1>0, EnvelopeTypes, CasTypes DEF ClaimCas
    <2> QED BY <1>5, <2>1, <2>2 DEF ClaimCas
  <1>6. CASE ClaimReload(r)
    <2>1. runs' \in [Run -> RunRecords]
      BY <1>6, ClaimEndTypes DEF ClaimReload
    <2> QED BY <1>6, <2>1 DEF ClaimReload
  <1>7. CASE ClaimExpire(r)
    <2>1. runs' \in [Run -> RunRecords]
      BY <1>7, ClaimEndTypes DEF ClaimExpire
    <2>2. env' \in Envelopes
      BY <1>7, <1>0, EnvelopeTypes, CasTypes DEF ClaimExpire
    <2> QED BY <1>7, <2>1, <2>2 DEF ClaimExpire
  <1>8. CASE Doctor(r)
    <2>1. {"doctorFail", "harness", "recheck", "finalize", "done"} \subseteq Stages
            /\ {"doctor_checks_failed", "run_crash"} \subseteq Completions
      BY DEF Stages, ClaimStages, WorkStages, Completions, RetryableCompletions
    <2>2. runs' \in [Run -> RunRecords]
      BY <1>8, <1>a, <1>b, <2>1 DEF Doctor
    <2> QED BY <1>8, <2>2 DEF Doctor
  <1>9. CASE DoctorFailLoad(r)
    <2>1. runs' \in [Run -> RunRecords]
      BY <1>9, <1>a, HoldTypes DEF DoctorFailLoad, Steps, Stages
    <2> QED BY <1>9, <2>1 DEF DoctorFailLoad
  <1>10. CASE DoctorFailCas(r)
    <2>1. runs' \in [Run -> RunRecords]
      <3>1. {"terminalize", "done"} \subseteq Stages /\ "run_crash" \in Completions
        BY DEF Stages, WorkStages, Completions, RetryableCompletions
      <3>2. \/ runs' = [runs EXCEPT ![r] = Reporting("terminalize", "run_crash")]
            \/ runs' = [runs EXCEPT ![r] = Reporting("done", runs[r].result)]
        BY <1>10 DEF DoctorFailCas
      <3> QED BY <3>1, <3>2, <1>0, <1>b
    <2>2. env' \in Envelopes
      <3>1. Terminalized(runs[r].seen, "failed", "doctor_checks_failed") \in Envelopes
        BY <1>0, EnvelopeTypes DEF EnvelopeStates, Completions, RetryableCompletions
      <3> QED BY <1>10, <3>1, CasTypes DEF DoctorFailCas
    <2> QED BY <1>10, <2>1, <2>2 DEF DoctorFailCas
  <1>11. CASE AckLoad(r)
    <2>1. runs' \in [Run -> RunRecords]
      BY <1>11, <1>a, HoldTypes DEF AckLoad, Steps, Stages, WorkStages
    <2> QED BY <1>11, <2>1 DEF AckLoad
  <1>12. CASE AckAttempt(r)
    <2>1. AckPatched(runs[r].seen, "attempted") \in Envelopes
      BY <1>0, EnvelopeTypes DEF AckStates
    <2>2. runs' \in [Run -> RunRecords]
      BY <1>12, <2>1, HoldTypes DEF AckAttempt, Steps
    <2>3. env' \in Envelopes
      BY <1>12, <2>1, CasTypes DEF AckAttempt
    <2> QED BY <1>12, <2>2, <2>3 DEF AckAttempt
  <1>13. CASE AckConfirm(r)
    <2>1. \A ack \in {"attempted", "confirmed"} : AckPatched(runs[r].seen, ack) \in Envelopes
      BY <1>0, EnvelopeTypes DEF AckStates
    <2>2. env' \in Envelopes
      BY <1>13, <2>1, CasTypes DEF AckConfirm
    <2> QED BY <1>13, <1>a, <2>2 DEF AckConfirm, Stages, WorkStages
  <1>14. CASE Phase(r)
    <2>1. PICK result \in {"verified_complete", "duplicate_phase_completed",
                           "run_crash", "run_failed"} :
              runs' = [runs EXCEPT ![r] = Reporting("finalize", result)]
      BY <1>14 DEF Phase
    <2>2. result \in Completions /\ "finalize" \in Stages
      BY DEF Stages, ClaimStages, Completions, RetryableCompletions, FalseDuplicateCompletions
    <2>3. runs' \in [Run -> RunRecords]
      BY <1>b, <2>1, <2>2
    <2> QED BY <1>14, <2>3 DEF Phase
  <1>15. CASE TerminalizeLoad(r)
    <2>1. runs' \in [Run -> RunRecords]
      BY <1>15, <1>a, HoldTypes DEF TerminalizeLoad, Steps, Stages
    <2> QED BY <1>15, <2>1 DEF TerminalizeLoad
  <1>16. CASE TerminalizeCas(r)
    <2>1. \A s \in {"completed", "failed"} :
              Terminalized(runs[r].seen, s, runs[r].result) \in Envelopes
      BY <1>0, EnvelopeTypes DEF EnvelopeStates
    <2>2. env' \in Envelopes
      BY <1>16, <2>1, CasTypes DEF TerminalizeCas
    <2>3. "done" \in Stages
      BY DEF Stages
    <2>4. runs' \in [Run -> RunRecords]
      BY <1>16, <1>0, <1>a, <1>b, <2>3 DEF TerminalizeCas
    <2> QED BY <1>16, <2>2, <2>4 DEF TerminalizeCas
  <1>17. CASE Cancel(r)
    <2>1. {"done", "finalize"} \subseteq Stages /\ {"run_crash", "run_failed"} \subseteq Completions
      BY DEF Stages, ClaimStages, Completions, RetryableCompletions
    <2>2. runs' \in [Run -> RunRecords]
      BY <1>17, <1>b, <2>1 DEF Cancel
    <2> QED BY <1>17, <2>2 DEF Cancel
  <1> QED
    BY <1>1, <1>3, <1>4, <1>5, <1>6, <1>7, <1>8, <1>9, <1>10, <1>11, <1>12, <1>13, <1>14, <1>15, <1>16, <1>17
    DEF RunStep, RunClaims, RunAcks, RunEnds

LEMMA InitTypes == Init => TypeOK
  <1>1. NoEnvelope \in Envelopes
    BY DEF Envelopes, NoEnvelope, EnvelopeStates, Completions, AckStates, DispatchStates
  <1>2. At("idle") \in RunRecords
    BY RunRecordTypes DEF Stages, Completions
  <1> SUFFICES ASSUME Init PROVE TypeOK
    OBVIOUS
  <1>3. env \in Envelopes /\ sent \in Nat /\ accepted \in Nat
    BY <1>1 DEF Init, RunInit
  <1>4. late \in BOOLEAN
    BY Zenon DEF Init, RunInit
  <1>5. runs \in [Run -> RunRecords]
    BY <1>2 DEF Init, RunInit
  <1>6. recs \in [Reconciler -> [step : RecSteps, held : Envelopes]]
    BY <1>1 DEF Init, RecAt, RecSteps
  <1> QED BY <1>3, <1>4, <1>5, <1>6 DEF TypeOK, RunTypeOK

(* Where a pass goes, and with what.                                       *)
LEMMA GotoTypes ==
    ASSUME TypeOK, NEW c \in Reconciler, NEW step \in RecSteps, NEW e \in Envelopes,
           Goto(c, step, e) \/ Stop(c)
    PROVE  /\ recs' \in [Reconciler -> [step : RecSteps, held : Envelopes]]
           /\ \A d \in Reconciler \ {c} : recs'[d] = recs[d]
           /\ recs'[c] = RecAt(step, e) \/ recs'[c] = RecAt("done", NoEnvelope)
  <1>1. NoEnvelope \in Envelopes /\ "done" \in RecSteps
    BY EnvelopeTypes DEF RecSteps
  <1>2. RecAt(step, e) \in [step : RecSteps, held : Envelopes]
          /\ RecAt("done", NoEnvelope) \in [step : RecSteps, held : Envelopes]
    BY <1>1 DEF RecAt
  <1> QED BY <1>2 DEF TypeOK, Goto, Stop

(* What a pass leaves of the other passes, and of the types.               *)
LEMMA PassTypes ==
    ASSUME TypeOK, NEW c \in Reconciler, Pass(c) \/ Crash(c)
    PROVE  TypeOK' /\ \A d \in Reconciler \ {c} : recs'[d] = recs[d]
  <1> DEFINE Rest == recs' \in [Reconciler -> [step : RecSteps, held : Envelopes]]
                       /\ \A d \in Reconciler \ {c} : recs'[d] = recs[d]
  <1>0. /\ env \in Envelopes /\ recs[c].held \in Envelopes /\ accepted \in Nat /\ sent \in Nat
        /\ NoEnvelope \in Envelopes /\ NewEnvelope \in Envelopes
    BY EnvelopeTypes DEF TypeOK, RunTypeOK
  <1>a. \A step \in RecSteps, e \in Envelopes : Goto(c, step, e) => Rest
    BY GotoTypes
  <1>b. Stop(c) => Rest
    BY <1>0, GotoTypes DEF RecSteps
  <1> HIDE DEF Rest
  <1>1. CASE EarlyReturn(c)
    BY <1>1, <1>b DEF EarlyReturn, TypeOK, RunTypeOK, runVars, Rest
  <1>2. CASE Load(c)
    <2>1. Decide(c, env) => Rest
      BY <1>0, <1>a, <1>b DEF Decide, DecideDispatch, RecSteps
    <2>2. Goto(c, "create", NoEnvelope) => Rest
      BY <1>0, <1>a DEF RecSteps
    <2> QED BY <1>2, <1>b, <2>1, <2>2 DEF Load, TypeOK, RunTypeOK, runVars, Rest
  <1>3. CASE CreateMerge(c)
    <2>1. Rest /\ env' \in Envelopes
      BY <1>3, <1>0, <1>a DEF CreateMerge, RecSteps
    <2> QED BY <1>3, <2>1 DEF CreateMerge, TypeOK, RunTypeOK, Rest
  <1>4. CASE StaleLoad(c) \/ FailLoad(c) \/ ReopenLoad(c) \/ AttemptLost(c)
    <2>1. Rest
      BY <1>4, <1>0, <1>a, <1>b DEF StaleLoad, FailLoad, ReopenLoad, AttemptLost, RecSteps
    <2> QED BY <1>4, <2>1
            DEF StaleLoad, FailLoad, ReopenLoad, AttemptLost, TypeOK, RunTypeOK, runVars, Rest
  <1>5. CASE FailCas(c)
    <2>1. Terminalized(recs[c].held, "failed", "stale_prephase_claim") \in Envelopes
      BY <1>0, EnvelopeTypes DEF EnvelopeStates, Completions, RetryableCompletions
    <2>2. Rest /\ env' \in Envelopes /\ accepted' \in Nat
      BY <1>5, <2>1, <1>0, <1>a, <1>b, CasTypes DEF FailCas, CountFromFailure, RecSteps
    <2> QED BY <1>5, <2>2 DEF FailCas, TypeOK, RunTypeOK, Rest
  <1>6. CASE ReopenCas(c)
    <2>1. Reopened(recs[c].held) \in Envelopes
      BY <1>0, EnvelopeTypes
    <2>2. Rest /\ env' \in Envelopes
      BY <1>6, <2>1, <1>0, <1>a, CasTypes DEF ReopenCas, RecSteps
    <2> QED BY <1>6, <2>2 DEF ReopenCas, TypeOK, RunTypeOK, Rest
  <1>7. CASE Attempt(c)
    <2>1. DispatchPatched(recs[c].held, "attempted") \in Envelopes
      BY <1>0, EnvelopeTypes DEF DispatchStates
    <2>2. Rest /\ env' \in Envelopes
      BY <1>7, <2>1, <1>0, <1>a, CasTypes DEF Attempt, RecSteps
    <2> QED BY <1>7, <2>2 DEF Attempt, TypeOK, RunTypeOK, Rest
  <1>8. CASE Dispatch(c)
    <2>1. Rest /\ sent' \in Nat /\ accepted' \in Nat
      BY <1>8, <1>0, <1>a, <1>b DEF Dispatch, RecSteps
    <2> QED BY <1>8, <2>1 DEF Dispatch, TypeOK, RunTypeOK, Rest
  <1>9. CASE Confirm(c)
    <2>1. DispatchPatched(recs[c].held, "confirmed") \in Envelopes
      BY <1>0, EnvelopeTypes DEF DispatchStates
    <2>2. Rest /\ env' \in Envelopes
      BY <1>9, <2>1, <1>0, <1>b, CasTypes DEF Confirm
    <2> QED BY <1>9, <2>2 DEF Confirm, TypeOK, RunTypeOK, Rest
  <1>10. CASE Crash(c)
    BY <1>10, <1>b DEF Crash, TypeOK, RunTypeOK, runVars, Rest
  <1> QED
    BY <1>1, <1>2, <1>3, <1>4, <1>5, <1>6, <1>7, <1>8, <1>9, <1>10
    DEF Pass, Looks, Writes

LEMMA NextTypes == TypeOK /\ [Next]_vars => TypeOK'
  <1> SUFFICES ASSUME TypeOK, [Next]_vars PROVE TypeOK'
    OBVIOUS
  <1>1. ASSUME NEW c \in Reconciler, Pass(c) \/ Crash(c) PROVE TypeOK'
    BY <1>1, PassTypes
  <1>2. ASSUME NEW r \in Run, Serve(r) PROVE TypeOK'
    <2>1. RunTypeOK'
      BY <1>2, RunStepTypes DEF Serve, TypeOK
    <2> QED BY <1>2, <2>1 DEF Serve, CountFromFailure, TypeOK
  <1>3. CASE Late
    BY <1>3 DEF Late, Expire, TypeOK, RunTypeOK
  <1>4. CASE UNCHANGED vars
    BY <1>4 DEF vars, runVars, TypeOK, RunTypeOK
  <1> QED BY <1>1, <1>2, <1>3, <1>4 DEF Next

(* Envelope, runs and passes always hold well-formed records, with any     *)
(* number of passes and runs, and with lost writes and cancellation.       *)
THEOREM TypeCorrect == Spec => []TypeOK
  BY InitTypes, NextTypes, PTL DEF Spec

----------------------------------------------------------------------------
(* From here on merge envelopes ask for no acknowledgement.                *)
Open(e) == e.state \in {"pending", "expired"}
Unended(e) == e.state \notin {"absent", "completed", "failed"}

(* A run's loaded record is the stored one or out of date for good.        *)
RunInv(r) ==
    /\ runs[r].at = "ack" => runs[r].step = "load"
    /\ runs[r].step \in {"cas", "expire"} =>
         /\ env.state # "absent"
         /\ runs[r].seen.rev <= env.rev
         /\ runs[r].seen.rev = env.rev => runs[r].seen = env
    /\ runs[r].step = "cas" =>
         IF runs[r].at \in ClaimStages THEN runs[r].seen.state = "pending"
                                       ELSE runs[r].seen.state = "claimed"

(* `h` is numbered from a record that was stored: n writes above a failed  *)
(* one, or fewer above an open one.  It may be numbered above the stored   *)
(* envelope, when those writes did not land; and as long as the stored one *)
(* has not passed it, no phase can have completed since that record.       *)
Numbered(n, h) ==
    /\ h.rev <= env.rev + n
    /\ h.rev = env.rev + n => env.state = "failed"
    /\ h.rev + 1 = env.rev + n => Open(env)
    /\ h.rev + 2 = env.rev + n => Unended(env)

(* What a pass holds, and what the stored envelope can be by then.         *)
RecInv(c) ==
    LET h == recs[c].held  step == recs[c].step IN
    /\ step \notin {"load", "create", "decide", "done"} => env.state # "absent"
    /\ step \in {"failCas", "reopenCas"} =>
         h.rev <= env.rev /\ (h.rev = env.rev => h = env)
    /\ step = "failCas" => h.state = "claimed"
    /\ step = "reopenCas" => Numbered(0, h)
    /\ step \in {"attempt", "lost", "dispatch", "confirm"} => Open(h)
    /\ step = "attempt" => Numbered(1, h)
    /\ step \in {"lost", "dispatch", "confirm"} => Numbered(2, h)

IInv ==
    /\ TypeOK
    /\ \A r \in Run : RunInv(r)
    /\ \A c \in Reconciler : RecInv(c)

(* What every write does to the stored envelope.                           *)
Written ==
    /\ env.state # "absent" /\ env'.state # "absent" /\ env'.rev = env.rev + 1
    /\ Open(env) => Unended(env')
    /\ env.state = "failed" => Open(env')
    /\ env.state = "completed" => env'.state = "expired" /\ env'.done = env.done

(* A step of the system changes the stored envelope by one write, by its   *)
(* creation, or not at all.                                                *)
Created == env.state = "absent" /\ env' = NewEnvelope
Changes == UNCHANGED env \/ Written \/ Created

LEMMA Revisions ==
    ASSUME TypeOK
    PROVE  /\ env.rev \in Nat /\ accepted \in Nat
           /\ \A r \in Run : runs[r].seen.rev \in Nat /\ runs[r].seen \in Envelopes
           /\ \A c \in Reconciler : recs[c].held.rev \in Nat /\ recs[c].held \in Envelopes
BY DEF TypeOK, RunTypeOK, RunRecords, Envelopes

LEMMA OtherRun ==
    ASSUME TypeOK, NEW q \in Run, RunInv(q), Changes,
           runs'[q] = runs[q] \/ runs'[q].step = "load"
    PROVE  RunInv(q)'
<1>1. CASE runs'[q].step = "load"
  BY <1>1 DEF RunInv
<1>2. CASE runs'[q] = runs[q]
  <2>1. runs[q].step \in {"cas", "expire"} =>
            /\ env'.state # "absent"
            /\ runs[q].seen.rev <= env'.rev
            /\ runs[q].seen.rev = env'.rev => runs[q].seen = env'
    BY Revisions DEF RunInv, Changes, Written, Created
  <2> QED BY <1>2, <2>1 DEF RunInv
<1> QED BY <1>1, <1>2

LEMMA OtherPass ==
    ASSUME TypeOK, NEW c \in Reconciler, RecInv(c), Changes, recs'[c] = recs[c]
    PROVE  RecInv(c)'
<1>1. CASE UNCHANGED env
  BY <1>1 DEF RecInv, Numbered
<1>2. CASE Written
  <2>1. \A n \in Nat : Numbered(n, recs[c].held) => Numbered(n, recs[c].held)'
    <3>1. recs[c].held.rev \in Nat /\ env.rev \in Nat
      BY Revisions
    <3>2. ASSUME NEW n \in Nat, Numbered(n, recs[c].held) PROVE Numbered(n, recs[c].held)'
      <4> DEFINE h == recs[c].held
      <4>1. h' = h
        OBVIOUS
      <4> QED BY <1>2, <3>1, <3>2, <4>1 DEF Written, Numbered
    <3> QED BY <3>2
  <2>2. recs[c].step \in {"failCas", "reopenCas"} =>
            recs[c].held.rev <= env'.rev /\ recs[c].held.rev # env'.rev
    BY <1>2, Revisions DEF RecInv, Written
  <2> QED BY <1>2, <2>1, <2>2 DEF RecInv, Written
<1>3. CASE Created
  <2>1. recs[c].step \in {"load", "create", "decide", "done"}
    BY <1>3 DEF Created, RecInv
  <2> QED BY <2>1 DEF RecInv
<1> QED BY <1>1, <1>2, <1>3 DEF Changes

----------------------------------------------------------------------------
(* A run that begins another stage, or stops.                              *)
LEMMA Begins ==
    ASSUME TypeOK, NEW r \in Run, runs[r].at \in ClaimStages, Proceed(r) \/ Reject(r)
    PROVE  \A q \in Run : runs'[q] = runs[q] \/ runs'[q].step = "load"
<1>0. runs \in [Run -> RunRecords]
  BY DEF TypeOK, RunTypeOK
<1>1. CASE Reject(r)
  BY <1>0, <1>1 DEF Reject, Reporting, At
<1>2. CASE Proceed(r)
  BY <1>0, <1>2 DEF Proceed, Moved, Reporting, At
<1> QED BY <1>1, <1>2

(* A run's step, on the envelope and on the runs.                          *)
LEMMA RunKeeps ==
    ASSUME ~AckRequired, IInv, NEW r \in Run, StartFromEvent(r) \/ RunStep(r) \/ Cancel(r)
    PROVE  /\ UNCHANGED env \/ Written
           /\ env'.dispatch = env.dispatch
           /\ env'.state \notin {"failed", "expired"} => env.state \notin {"failed", "expired"}
           /\ \A q \in Run : RunInv(q)'
<1> DEFINE Restarts == \A q \in Run : runs'[q] = runs[q] \/ runs'[q].step = "load"
           Kept == /\ UNCHANGED env \/ Written
                   /\ env'.dispatch = env.dispatch
                   /\ env'.state \notin {"failed", "expired"} =>
                          env.state \notin {"failed", "expired"}
<1>0. /\ TypeOK /\ RunInv(r) /\ runs \in [Run -> RunRecords]
      /\ runs[r].seen \in Envelopes /\ env \in Envelopes
  BY Revisions DEF IInv, TypeOK, RunTypeOK
<1>a. Kept /\ Restarts => Kept /\ \A q \in Run : RunInv(q)'
  BY <1>0, OtherRun DEF IInv, Changes
<1>b. ASSUME Kept, RunInv(r)', \A q \in Run \ {r} : runs'[q] = runs[q]
      PROVE  Kept /\ \A q \in Run : RunInv(q)'
  BY <1>0, <1>b, OtherRun DEF IInv, Changes
<1>c. ASSUME NEW stage, NEW d, runs' = [runs EXCEPT ![r] = At(stage)]
               \/ runs' = [runs EXCEPT ![r] = Reporting(stage, d)]
      PROVE  Restarts
  BY <1>0, <1>c DEF Reporting, At
<1>d. runs[r].step = "cas" \/ runs[r].step = "expire" =>
          (CasMatches(env, runs[r].seen) => runs[r].seen = env)
  BY <1>0 DEF RunInv, CasMatches
<1> HIDE DEF Restarts
<1>1. CASE StartFromEvent(r)
  BY <1>1, <1>a, <1>c DEF StartFromEvent
<1>2. CASE EnterJob(r)
  BY <1>2, <1>a, <1>c DEF EnterJob
<1>3. CASE ClaimLoad(r)
  <2>1. CASE Proceed(r) \/ Reject(r)
    BY <1>0, <1>3, <2>1, <1>a, Begins DEF ClaimLoad, Restarts
  <2>2. CASE \E step \in {"expire", "cas"} :
                 /\ runs' = [runs EXCEPT ![r].step = step, ![r].seen = env]
                 /\ env.state # "absent" /\ (step = "cas" => env.state = "pending")
    <3>1. PICK step \in {"expire", "cas"} :
                 /\ runs' = [runs EXCEPT ![r].step = step, ![r].seen = env]
                 /\ env.state # "absent" /\ (step = "cas" => env.state = "pending")
      BY <2>2
    <3>2. /\ runs'[r].at = runs[r].at /\ runs'[r].step = step /\ runs'[r].seen = env
          /\ \A q \in Run \ {r} : runs'[q] = runs[q]
      BY <1>0, <3>1 DEF RunRecords
    <3>3. env' = env /\ runs[r].at \in ClaimStages /\ env.rev \in Nat
      BY <1>0, <1>3, Revisions DEF ClaimLoad
    <3>4. RunInv(r)'
      BY <3>1, <3>2, <3>3 DEF RunInv, ClaimStages
    <3> QED BY <3>2, <3>3, <3>4, <1>b
  <2>3. QED
    BY <1>3, <2>1, <2>2 DEF ClaimLoad
<1>4. CASE ClaimCas(r)
  <2>1. CASE CasWon(runs[r].seen, Claimed(runs[r].seen, r)) /\ Proceed(r)
    <3>1. runs[r].seen = env /\ env.state = "pending" /\ env' = Claimed(env, r)
      BY <1>0, <1>4, <2>1, <1>d DEF ClaimCas, CasWon, RunInv
    <3>2. Kept
      BY <1>0, <3>1 DEF Claimed, Written, Open, Unended, Envelopes
    <3> QED BY <1>0, <1>4, <2>1, <3>2, <1>a, Begins DEF ClaimCas, Restarts
  <2>2. CASE UNCHANGED env /\ runs' = [runs EXCEPT ![r].step = "reload", ![r].seen = NoEnvelope]
    <3>1. /\ runs'[r].at = runs[r].at /\ runs'[r].step = "reload"
          /\ \A q \in Run \ {r} : runs'[q] = runs[q]
      BY <1>0, <2>2 DEF RunRecords
    <3>2. RunInv(r)'
      BY <1>4, <3>1 DEF RunInv, ClaimCas, ClaimStages
    <3> QED BY <2>2, <3>1, <3>2, <1>b
  <2> QED BY <1>4, <2>1, <2>2 DEF ClaimCas, CasLost
<1>5. CASE ClaimReload(r)
  BY <1>0, <1>5, <1>a, Begins DEF ClaimReload, Restarts
<1>6. CASE ClaimExpire(r)
  <2>1. Kept
    <3>1. CASE CasWon(runs[r].seen, Expired(runs[r].seen))
      <4>1. env.state # "absent" /\ env' = Expired(env)
        BY <1>0, <1>6, <3>1, <1>d DEF ClaimExpire, CasWon, RunInv
      <4> QED BY <1>0, <4>1 DEF Expired, Written, Open, Unended, Envelopes
    <3> QED BY <1>6, <3>1 DEF ClaimExpire, CasLost
  <2> QED BY <1>0, <1>6, <2>1, <1>a, Begins DEF ClaimExpire, Restarts
<1>7. CASE Doctor(r)
  BY <1>7, <1>a, <1>c DEF Doctor
<1>8. CASE DoctorFailLoad(r) \/ TerminalizeLoad(r)
  <2>1. CASE env.state = "claimed"
    <3>1. /\ runs'[r].at = runs[r].at /\ runs'[r].step = "cas" /\ runs'[r].seen = env
          /\ \A q \in Run \ {r} : runs'[q] = runs[q]
      BY <1>0, <1>8, <2>1 DEF DoctorFailLoad, TerminalizeLoad, RunRecords
    <3>2. env' = env /\ env.rev \in Nat /\ runs[r].at \notin ClaimStages \union {"ack"}
      BY <1>0, <1>8, Revisions DEF DoctorFailLoad, TerminalizeLoad, ClaimStages
    <3>3. RunInv(r)'
      BY <2>1, <3>1, <3>2 DEF RunInv
    <3> QED BY <3>1, <3>2, <3>3, <1>b
  <2>2. CASE env.state # "claimed"
    BY <1>8, <2>2, <1>a, <1>c DEF DoctorFailLoad, TerminalizeLoad
  <2> QED BY <2>1, <2>2
<1>9. CASE DoctorFailCas(r) \/ TerminalizeCas(r)
  <2>1. Restarts
    <3>1. CASE DoctorFailCas(r)
      BY <3>1, <1>c DEF DoctorFailCas
    <3>2. CASE TerminalizeCas(r)
      BY <3>2, <1>c DEF TerminalizeCas
    <3> QED BY <1>9, <3>1, <3>2
  <2>2. runs[r].step = "cas" /\ runs[r].seen.state = "claimed"
    BY <1>0, <1>9 DEF DoctorFailCas, TerminalizeCas, RunInv, ClaimStages
  <2>3. UNCHANGED env \/ \E s, d : env' = Terminalized(env, s, d) /\ env.state = "claimed"
                                     /\ s \in {"completed", "failed"}
    <3>1. CASE DoctorFailCas(r)
      BY <1>d, <2>2, <3>1 DEF DoctorFailCas, CasWon, CasLost
    <3>2. CASE TerminalizeCas(r)
      BY <1>d, <2>2, <3>2 DEF TerminalizeCas, CasWon, CasLost
    <3> QED BY <1>9, <3>1, <3>2
  <2>4. Kept
    BY <1>0, <2>3 DEF Terminalized, Written, Open, Envelopes
  <2> QED BY <2>1, <2>4, <1>a
<1>10. CASE RunAcks(r)
  <2>1. AckLoad(r)
    BY <1>0, <1>10 DEF RunAcks, AckAttempt, AckConfirm, RunInv
  <2> QED BY <2>1, <1>a, <1>c DEF AckLoad
<1>11. CASE Phase(r)
  BY <1>11, <1>a, <1>c DEF Phase
<1>12. CASE Cancel(r)
  BY <1>12, <1>a, <1>c DEF Cancel
<1> QED
  BY <1>1, <1>2, <1>3, <1>4, <1>5, <1>6, <1>7, <1>8, <1>9, <1>10, <1>11, <1>12
  DEF RunStep, RunClaims, RunEnds

----------------------------------------------------------------------------
(* A pass's step, on the envelope and on the pass.                         *)
LEMMA PassKeeps ==
    ASSUME IInv, NEW c \in Reconciler, Pass(c) \/ Crash(c)
    PROVE  Changes /\ RecInv(c)'
<1> DEFINE h == recs[c].held
           Ends == recs'[c].step = "done"
<1>0. /\ TypeOK /\ RecInv(c)
      /\ env \in Envelopes /\ env.rev \in Nat /\ h \in Envelopes /\ h.rev \in Nat
  BY Revisions DEF IInv, TypeOK, RunTypeOK
<1>a. ASSUME NEW step, NEW e, Goto(c, step, e)
      PROVE  recs'[c].step = step /\ recs'[c].held = e
  BY <1>0, <1>a DEF Goto, RecAt, TypeOK
<1>b. Stop(c) => Ends
  BY <1>0 DEF Stop, RecAt, TypeOK
<1>c. Ends => RecInv(c)'
  BY DEF RecInv
<1>1. CASE EarlyReturn(c) \/ Crash(c)
  BY <1>1, <1>b, <1>c DEF EarlyReturn, Crash, runVars, Changes
<1>2. CASE Load(c)
  <2>0. env' = env
    BY <1>2 DEF Load, runVars
  <2>1. CASE env.state = "absent"
    <3>1. recs'[c].step \in {"create", "done"}
      BY <1>2, <2>1, <1>a, <1>b DEF Load
    <3> QED BY <2>0, <3>1 DEF RecInv, Changes
  <2>2. CASE env.state # "absent"
    <3>1. \/ Ends
          \/ recs'[c].step \in {"staleLoad", "reopenLoad"}
          \/ recs'[c].step = "attempt" /\ recs'[c].held = env /\ Open(env)
      BY <1>0, <1>2, <2>2, <1>a, <1>b
         DEF Load, Decide, DecideDispatch, Open, Envelopes, EnvelopeStates
    <3>2. RecInv(c)'
      BY <1>0, <1>c, <2>0, <2>2, <3>1 DEF RecInv, Numbered
    <3> QED BY <2>0, <3>2 DEF Changes
  <2> QED BY <2>1, <2>2
<1>3. CASE CreateMerge(c)
  <2>1. CASE env.state = "absent" /\ env' = NewEnvelope /\ Goto(c, "attempt", NewEnvelope)
    <3>1. recs'[c].step = "attempt" /\ recs'[c].held = NewEnvelope
      BY <2>1, <1>a
    <3>2. NewEnvelope.state = "pending" /\ NewEnvelope.rev = 0
      BY DEF NewEnvelope, NoEnvelope
    <3> QED BY <2>1, <3>1, <3>2 DEF RecInv, Open, Numbered, Changes, Created
  <2>2. CASE Goto(c, "decide", NoEnvelope) /\ UNCHANGED env
    BY <2>2, <1>a DEF RecInv, Changes
  <2> QED BY <1>3, <2>1, <2>2 DEF CreateMerge
<1>4. CASE StaleLoad(c) \/ FailLoad(c) \/ ReopenLoad(c)
  <2>1. env.state # "absent" /\ UNCHANGED env
    BY <1>0, <1>4 DEF StaleLoad, FailLoad, ReopenLoad, RecInv, runVars
  <2>2. \/ Ends
        \/ recs'[c].step = "failLoad"
        \/ recs'[c].step = "failCas" /\ recs'[c].held = env /\ env.state = "claimed"
        \/ recs'[c].step = "reopenCas" /\ recs'[c].held = env /\ env.state = "failed"
    BY <1>4, <1>a, <1>b DEF StaleLoad, FailLoad, ReopenLoad, RetryableFailure
  <2>3. RecInv(c)'
    BY <1>0, <1>c, <2>1, <2>2 DEF RecInv, Numbered
  <2> QED BY <2>1, <2>3 DEF Changes
<1>5. CASE FailCas(c)
  <2>1. CASE CasWon(h, Terminalized(h, "failed", "stale_prephase_claim"))
                /\ Goto(c, "reopenLoad", NoEnvelope)
    <3>1. env.state = "claimed" /\ env' = Terminalized(env, "failed", "stale_prephase_claim")
      BY <1>0, <1>5, <2>1 DEF FailCas, RecInv, CasWon, CasMatches
    <3>2. Written
      BY <1>0, <3>1 DEF Terminalized, Written, Open, Envelopes
    <3>3. recs'[c].step = "reopenLoad"
      BY <2>1, <1>a
    <3> QED BY <3>2, <3>3 DEF RecInv, Changes, Written
  <2>2. CASE CasLost(h) /\ Stop(c)
    BY <2>2, <1>b, <1>c DEF CasLost, Changes
  <2> QED BY <1>5, <2>1, <2>2 DEF FailCas
<1>6. CASE ReopenCas(c)
  <2> DEFINE next == Reopened(h)
  <2>1. recs'[c].step = "attempt" /\ recs'[c].held = next
    BY <1>6, <1>a DEF ReopenCas
  <2>2. next.rev = h.rev + 1 /\ next.state = "pending"
    BY <1>0 DEF Reopened, Envelopes
  <2>3. CASE CasWon(h, next)
    <3>1. h.rev = env.rev /\ env.state = "failed" /\ env' = next
      BY <1>0, <1>6, <2>3 DEF ReopenCas, RecInv, Numbered, CasWon, CasMatches
    <3>2. Written
      BY <1>0, <2>2, <3>1 DEF Written, Open
    <3>3. RecInv(c)'
      BY <1>0, <2>1, <2>2, <3>1 DEF RecInv, Numbered, Open
    <3> QED BY <3>2, <3>3 DEF Changes
  <2>4. CASE CasLost(h)
    <3>1. env' = env /\ env.state # "absent" /\ Numbered(0, h)
      BY <1>0, <1>6, <2>4 DEF CasLost, ReopenCas, RecInv
    <3>2. Numbered(1, next) /\ Open(next)
      BY <1>0, <2>2, <3>1 DEF Numbered, Open
    <3>3. RecInv(c)'
      BY <2>1, <3>1, <3>2 DEF RecInv, Numbered
    <3> QED BY <3>1, <3>3 DEF Changes
  <2> QED BY <1>6, <2>3, <2>4 DEF ReopenCas
<1>7. CASE Attempt(c)
  <2> DEFINE next == DispatchPatched(h, "attempted")
  <2>1. next.rev = h.rev + 1 /\ next.state = h.state /\ Open(next)
    BY <1>0, <1>7 DEF Attempt, DispatchPatched, Envelopes, RecInv, Open
  <2>2. env.state # "absent" /\ Numbered(1, h)
    BY <1>0, <1>7 DEF Attempt, RecInv
  <2>3. recs'[c].step \in {"dispatch", "lost"} /\ recs'[c].held = next
    BY <1>7, <1>a DEF Attempt
  <2>4. CASE CasWon(h, next)
    <3>1. env.rev = h.rev /\ Open(env) /\ env' = next
      BY <1>0, <2>2, <2>4 DEF Numbered, CasWon, CasMatches
    <3>2. Written
      BY <1>0, <2>1, <3>1 DEF Written, Open, Unended
    <3>3. RecInv(c)'
      BY <1>0, <2>1, <2>3, <3>1 DEF RecInv, Numbered, Open, Unended
    <3> QED BY <3>2, <3>3 DEF Changes
  <2>5. CASE CasLost(h)
    <3>1. env' = env
      BY <2>5 DEF CasLost
    <3>2. Numbered(2, next)
      BY <1>0, <2>1, <2>2 DEF Numbered
    <3>3. RecInv(c)'
      BY <2>1, <2>2, <2>3, <3>1, <3>2 DEF RecInv, Numbered
    <3> QED BY <3>1, <3>3 DEF Changes
  <2> QED BY <1>7, <2>4, <2>5 DEF Attempt
<1>8. CASE AttemptLost(c) \/ Dispatch(c)
  <2>1. env' = env /\ recs[c].step \in {"lost", "dispatch"}
    BY <1>8 DEF AttemptLost, Dispatch, runVars
  <2>2. Ends \/ (recs'[c].step \in {"dispatch", "confirm"} /\ recs'[c].held = h)
    BY <1>8, <1>a, <1>b DEF AttemptLost, Dispatch
  <2>3. RecInv(c)'
    BY <1>0, <1>c, <2>1, <2>2 DEF RecInv, Numbered
  <2> QED BY <2>1, <2>3 DEF Changes
<1>9. CASE Confirm(c)
  <2> DEFINE next == DispatchPatched(h, "confirmed")
  <2>1. RecInv(c)'
    BY <1>9, <1>b, <1>c DEF Confirm
  <2>2. CASE CasWon(h, next)
    <3>1. env.rev = h.rev /\ Unended(env) /\ Open(h) /\ env' = next
      BY <1>0, <1>9, <2>2 DEF Confirm, RecInv, Numbered, CasWon, CasMatches
    <3>2. next.rev = h.rev + 1 /\ next.state = h.state
      BY <1>0 DEF DispatchPatched, Envelopes
    <3>3. Written
      BY <1>0, <3>1, <3>2 DEF Written, Open, Unended
    <3> QED BY <2>1, <3>3 DEF Changes
  <2>3. CASE CasLost(h)
    BY <2>1, <2>3 DEF CasLost, Changes
  <2> QED BY <1>9, <2>2, <2>3 DEF Confirm
<1> QED
  BY <1>1, <1>2, <1>3, <1>4, <1>5, <1>6, <1>7, <1>8, <1>9 DEF Pass, Looks, Writes

----------------------------------------------------------------------------
LEMMA InvInit == Init => IInv
<1> SUFFICES ASSUME Init PROVE IInv
  OBVIOUS
<1>1. TypeOK
  BY InitTypes
<1>2. \A r \in Run : RunInv(r)
  BY DEF Init, RunInit, RunInv, At
<1>3. \A c \in Reconciler : RecInv(c)
  BY DEF Init, RecInv, RecAt
<1> QED BY <1>1, <1>2, <1>3 DEF IInv

(* A pass leaves the runs alone.                                           *)
LEMMA PassLeavesRuns ==
    ASSUME NEW c \in Reconciler, Pass(c) \/ Crash(c)
    PROVE  UNCHANGED runs
BY DEF Pass, Looks, Writes, EarlyReturn, Load, StaleLoad, FailLoad, ReopenLoad,
       AttemptLost, CreateMerge, FailCas, ReopenCas, Attempt, Confirm, Dispatch,
       Crash, runVars

LEMMA InvNext ==
    ASSUME ~AckRequired, IInv, [Next]_vars
    PROVE  IInv' /\ Changes
<1>0. TypeOK /\ TypeOK'
  BY NextTypes DEF IInv
<1>1. ASSUME NEW c \in Reconciler, Pass(c) \/ Crash(c) PROVE IInv' /\ Changes
  <2>1. Changes /\ RecInv(c)' /\ UNCHANGED runs
    BY <1>1, PassKeeps, PassLeavesRuns
  <2>2. \A d \in Reconciler \ {c} : RecInv(d)'
    BY <1>0, <1>1, <2>1, PassTypes, OtherPass DEF IInv
  <2>3. \A r \in Run : RunInv(r)'
    BY <1>0, <2>1, OtherRun DEF IInv
  <2> QED BY <1>0, <2>1, <2>2, <2>3 DEF IInv
<1>2. ASSUME NEW r \in Run, Serve(r) PROVE IInv' /\ Changes
  <2>1. Changes /\ \A q \in Run : RunInv(q)'
    BY <1>2, RunKeeps DEF Serve, Changes
  <2>2. UNCHANGED recs
    BY <1>2 DEF Serve
  <2>3. \A c \in Reconciler : RecInv(c)'
    BY <1>0, <2>1, <2>2, OtherPass DEF IInv
  <2> QED BY <1>0, <2>1, <2>3 DEF IInv
<1>3. CASE Late \/ UNCHANGED vars
  <2>1. UNCHANGED <<env, runs, recs>>
    BY <1>3 DEF Late, Expire, vars, runVars
  <2> QED BY <1>0, <2>1 DEF IInv, RunInv, RecInv, Numbered, Changes
<1> QED BY <1>1, <1>2, <1>3 DEF Next

(* No pass, however stale what it holds, and although a refused write to   *)
(* the branch leaves it numbering from records that never landed, rewrites *)
(* a completed merge (dispatchMergeReconcileJob,                           *)
(* reopenFailedJobRequestForRetry).                                        *)
THEOREM CompletedRemains ==
    ASSUME ~AckRequired
    PROVE  Spec => CompletedStays
<1> DEFINE Stays == env.state = "completed" =>
                       env'.state \in {"completed", "expired"} /\ env'.done = env.done
<1>1. Init => IInv
  BY InvInit
<1>2. IInv /\ [Next]_vars => IInv'
  BY InvNext
<1>3. IInv /\ [Next]_vars => [Stays]_vars
  <2> SUFFICES ASSUME IInv, Next PROVE Stays
    OBVIOUS
  <2>1. Changes
    BY InvNext
  <2> QED BY <2>1 DEF Changes, Written, Created
<1> QED BY <1>1, <1>2, <1>3, PTL DEF Spec, CompletedStays

----------------------------------------------------------------------------
(* A pass that is still to confirm has had its dispatch accepted since the *)
(* last failure, or what it would write on has been written over.  For a   *)
(* failure is written on a claimed envelope, which is numbered above all   *)
(* that passes hold by then, what never landed included.                   *)
SentInv(c) ==
    recs[c].step = "confirm" => accepted > 0 \/ recs[c].held.rev < env.rev

SInv ==
    /\ IInv
    /\ ConfirmedWasSent
    /\ \A c \in Reconciler : SentInv(c)

(* The count grows, or is taken from a failure on.                         *)
Counted == accepted' \in Nat /\ (accepted' >= accepted \/ CountFromFailure)

LEMMA OtherSent ==
    ASSUME TypeOK, NEW c \in Reconciler, RecInv(c), SentInv(c), Changes, recs'[c] = recs[c],
           Counted
    PROVE  SentInv(c)'
<1>0. /\ env \in Envelopes /\ env.rev \in Nat /\ accepted \in Nat /\ recs[c].held.rev \in Nat
  BY Revisions DEF TypeOK, RunTypeOK
<1>1. (env'.rev \in Nat /\ env'.rev >= env.rev) \/ recs[c].step # "confirm"
  BY <1>0 DEF Changes, Written, Created, RecInv
<1>2. CASE accepted' >= accepted
  BY <1>0, <1>1, <1>2 DEF SentInv, Counted
<1>3. CASE CountFromFailure /\ env.state # "failed" /\ env'.state = "failed"
  <2>1. Written
    BY <1>3 DEF Changes, Created, NewEnvelope, NoEnvelope
  <2>2. ~Open(env)
    BY <1>3, <2>1 DEF Written, Unended
  <2>3. recs[c].step = "confirm" => recs[c].held.rev <= env.rev
    BY <1>0, <1>3, <2>2 DEF RecInv, Numbered
  <2> QED BY <1>0, <2>1, <2>3 DEF SentInv, Written
<1>4. CASE CountFromFailure /\ ~(env.state # "failed" /\ env'.state = "failed")
  BY <1>0, <1>1, <1>4 DEF SentInv, CountFromFailure
<1> QED BY <1>2, <1>3, <1>4 DEF Counted

LEMMA PassSent ==
    ASSUME SInv, NEW c \in Reconciler, Pass(c) \/ Crash(c)
    PROVE  Counted /\ SentInv(c)' /\ ConfirmedWasSent'
<1> DEFINE h == recs[c].held
           Idle == recs'[c].step # "confirm"
<1>0. /\ TypeOK /\ RecInv(c) /\ SentInv(c) /\ ConfirmedWasSent
      /\ env \in Envelopes /\ env.rev \in Nat /\ h \in Envelopes /\ h.rev \in Nat
      /\ accepted \in Nat
  BY Revisions DEF SInv, IInv, TypeOK, RunTypeOK
<1>a. ASSUME NEW step, NEW e, Goto(c, step, e)
      PROVE  recs'[c].step = step /\ recs'[c].held = e
  BY <1>0, <1>a DEF Goto, RecAt, TypeOK
<1>b. Stop(c) => Idle
  BY <1>0 DEF Stop, RecAt, TypeOK
<1>c. Idle => SentInv(c)'
  BY DEF SentInv
<1>d. UNCHANGED <<env, accepted>> => Counted /\ ConfirmedWasSent'
  BY <1>0 DEF ConfirmedWasSent, Counted
<1>e. UNCHANGED accepted => Counted
  BY <1>0 DEF Counted
<1>1. CASE EarlyReturn(c) \/ Crash(c)
  BY <1>1, <1>b, <1>c, <1>d DEF EarlyReturn, Crash, runVars
<1>2. CASE Looks(c)
  <2>1. UNCHANGED <<env, accepted>>
    BY <1>2 DEF Looks, Load, StaleLoad, FailLoad, ReopenLoad, AttemptLost, runVars
  <2>2. Idle
    <3>1. \A step \in RecSteps \ {"confirm"}, e \in {NoEnvelope, env, h} : Goto(c, step, e) => Idle
      BY <1>a
    <3>2. {"create", "staleLoad", "failLoad", "failCas", "reopenLoad", "reopenCas",
           "attempt", "dispatch"} \subseteq RecSteps
      BY DEF RecSteps
    <3> HIDE DEF Idle
    <3> QED BY <1>2, <1>b, <3>1, <3>2
       DEF Looks, Load, Decide, DecideDispatch, StaleLoad, FailLoad, ReopenLoad, AttemptLost
  <2> QED BY <2>1, <2>2, <1>c, <1>d
<1>3. CASE CreateMerge(c)
  <2>1. UNCHANGED accepted /\ Idle
    BY <1>3, <1>a DEF CreateMerge
  <2>2. ConfirmedWasSent'
    <3>1. NewEnvelope.dispatch = "none"
      BY DEF NewEnvelope, NoEnvelope
    <3> QED BY <1>0, <1>3, <2>1, <3>1 DEF CreateMerge, ConfirmedWasSent
  <2> QED BY <2>1, <2>2, <1>c, <1>e
<1>4. CASE FailCas(c)
  <2>1. CountFromFailure /\ Idle
    BY <1>4, <1>a, <1>b DEF FailCas
  <2>2. accepted' \in Nat
    BY <1>0, <2>1 DEF CountFromFailure
  <2>3. ConfirmedWasSent'
    <3>1. CASE env'.state = "failed"
      BY <3>1 DEF ConfirmedWasSent
    <3>2. CASE UNCHANGED env
      BY <1>0, <2>1, <3>2 DEF ConfirmedWasSent, CountFromFailure
    <3>3. Terminalized(h, "failed", "stale_prephase_claim").state = "failed"
      BY <1>0 DEF Terminalized, Envelopes
    <3> QED BY <1>4, <3>1, <3>2, <3>3 DEF FailCas, CasWon, CasLost
  <2> QED BY <2>1, <2>2, <2>3, <1>c DEF Counted
<1>5. CASE ReopenCas(c)
  <2>1. Idle /\ UNCHANGED accepted
    BY <1>5, <1>a DEF ReopenCas
  <2>2. Reopened(h).dispatch = "none"
    BY <1>0 DEF Reopened, Envelopes
  <2>3. ConfirmedWasSent'
    BY <1>0, <1>5, <2>1, <2>2 DEF ReopenCas, CasWon, CasLost, ConfirmedWasSent
  <2> QED BY <2>1, <2>3, <1>c, <1>e
<1>6. CASE Attempt(c)
  <2>1. Idle /\ UNCHANGED accepted
    BY <1>6, <1>a DEF Attempt
  <2>2. DispatchPatched(h, "attempted").dispatch = "attempted"
    BY <1>0 DEF DispatchPatched, Envelopes
  <2>3. ConfirmedWasSent'
    BY <1>0, <1>6, <2>1, <2>2 DEF Attempt, CasWon, CasLost, ConfirmedWasSent
  <2> QED BY <2>1, <2>3, <1>c, <1>e
<1>7. CASE Dispatch(c)
  <2>1. CASE accepted' = accepted + 1
    BY <1>0, <1>7, <2>1 DEF Dispatch, SentInv, ConfirmedWasSent, Counted
  <2>2. CASE Stop(c) /\ UNCHANGED accepted
    BY <1>7, <2>2, <1>b, <1>c, <1>d DEF Dispatch
  <2> QED BY <1>7, <2>1, <2>2 DEF Dispatch
<1>8. CASE Confirm(c)
  <2>1. Idle /\ UNCHANGED accepted
    BY <1>8, <1>b DEF Confirm
  <2>2. ConfirmedWasSent'
    <3>1. CasMatches(env, h) => accepted > 0
      BY <1>0, <1>8 DEF Confirm, SentInv, CasMatches
    <3> QED BY <1>0, <1>8, <2>1, <3>1 DEF Confirm, CasWon, CasLost, ConfirmedWasSent
  <2> QED BY <2>1, <2>2, <1>c, <1>e
<1> QED BY <1>1, <1>2, <1>3, <1>4, <1>5, <1>6, <1>7, <1>8 DEF Pass, Writes

(* A dispatch that an open envelope shows as confirmed was accepted since  *)
(* the envelope was created or last failed, whichever writes are refused,  *)
(* so that a later pass may rely on it (dispatchMergeReconcileJob).        *)
THEOREM ConfirmedSent ==
    ASSUME ~AckRequired
    PROVE  Spec => []ConfirmedWasSent
<1>1. Init => SInv
  BY InvInit DEF SInv, Init, RunInit, ConfirmedWasSent, NoEnvelope, SentInv, RecAt
<1>2. SInv /\ [Next]_vars => SInv'
  <2> SUFFICES ASSUME SInv, [Next]_vars PROVE SInv'
    OBVIOUS
  <2>0. IInv /\ TypeOK /\ IInv' /\ Changes
    BY InvNext DEF SInv, IInv
  <2>1. ASSUME NEW c \in Reconciler, Pass(c) \/ Crash(c) PROVE SInv'
    <3>1. Counted /\ SentInv(c)' /\ ConfirmedWasSent'
      BY <2>1, PassSent
    <3>2. \A d \in Reconciler \ {c} : SentInv(d)'
      BY <2>0, <2>1, <3>1, PassTypes, OtherSent DEF SInv, IInv
    <3> QED BY <2>0, <3>1, <3>2 DEF SInv
  <2>2. ASSUME NEW r \in Run, Serve(r) PROVE SInv'
    <3>1. /\ env'.dispatch = env.dispatch
          /\ env'.state \notin {"failed", "expired"} => env.state \notin {"failed", "expired"}
      BY <2>0, <2>2, RunKeeps DEF Serve
    <3>2. CountFromFailure /\ UNCHANGED recs /\ accepted' \in Nat
      BY <2>0, <2>2 DEF Serve, TypeOK, IInv
    <3>3. \A c \in Reconciler : SentInv(c)'
      BY <2>0, <3>2, OtherSent DEF SInv, IInv, Counted
    <3>4. ConfirmedWasSent'
      BY <3>1, <3>2 DEF SInv, ConfirmedWasSent, CountFromFailure
    <3> QED BY <2>0, <3>3, <3>4 DEF SInv
  <2>3. CASE Late \/ UNCHANGED vars
    <3>1. UNCHANGED <<env, recs, accepted>>
      BY <2>3 DEF Late, Expire, vars, runVars
    <3> QED BY <2>0, <3>1 DEF SInv, ConfirmedWasSent, SentInv
  <2> QED BY <2>1, <2>2, <2>3 DEF Next
<1>3. SInv => ConfirmedWasSent
  BY DEF SInv
<1> QED BY <1>1, <1>2, <1>3, PTL DEF Spec
=============================================================================
