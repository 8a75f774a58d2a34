--------------------------- MODULE JobRequestProof ---------------------------
(***************************************************************************)
(* Proofs about JobRequest, for any number of runs and creators: the type  *)
(* invariant; that the creators of an envelope send one dispatch between   *)
(* them; for an envelope that no reconciler reopens, that one run works on *)
(* it and only that run ends its claim; and that the envelope keeps to     *)
(* EnvelopeLifecycle: wholly, reopened or not, if it asks for no           *)
(* acknowledgement, and but for an expiry undone if it does.               *)
(***************************************************************************)
EXTENDS JobRequest, TLAPS

----------------------------------------------------------------------------
(* Every next-record function yields an envelope.                          *)
LEMMA EnvelopeTypes ==
    ASSUME NEW e \in Envelopes
    PROVE  /\ NoEnvelope \in Envelopes
           /\ NewEnvelope \in Envelopes
           /\ \A r \in Run : Claimed(e, r) \in Envelopes
           /\ \A s \in EnvelopeStates, d \in Completions : Terminalized(e, s, d) \in Envelopes
           /\ Expired(e) \in Envelopes
           /\ Reopened(e) \in Envelopes
           /\ \A a \in AckStates : AckPatched(e, a) \in Envelopes
  <1> USE DEF Envelopes
  <1>0. e.rev + 1 \in Nat
    OBVIOUS
  <1>1. NoEnvelope \in Envelopes /\ NewEnvelope \in Envelopes
    BY DEF NoEnvelope, NewEnvelope, EnvelopeStates, Completions, AckStates, DispatchStates
  <1>2. \A r \in Run : Claimed(e, r) \in Envelopes
    BY <1>0 DEF Claimed, EnvelopeStates
  <1>3. \A s \in EnvelopeStates, d \in Completions : Terminalized(e, s, d) \in Envelopes
    BY <1>0 DEF Terminalized
  <1>4. Expired(e) \in Envelopes
    BY <1>0 DEF Expired, EnvelopeStates
  <1>5. Reopened(e) \in Envelopes
    BY <1>0 DEF Reopened, EnvelopeStates, Completions, DispatchStates
  <1>6. \A a \in AckStates : AckPatched(e, a) \in Envelopes
    BY <1>0 DEF AckPatched
  <1> QED BY <1>1, <1>2, <1>3, <1>4, <1>5, <1>6

(* A run's record at the start of a stage, with or without a result.       *)
LEMMA RunRecordTypes ==
    ASSUME NEW stage \in Stages, NEW d \in Completions
    PROVE  At(stage) \in RunRecords /\ Reporting(stage, d) \in RunRecords
  <1>1. NoEnvelope \in Envelopes
    BY DEF Envelopes, NoEnvelope, EnvelopeStates, Completions, AckStates, DispatchStates
  <1>2. "none" \in Completions /\ "load" \in Steps
    BY DEF Completions, Steps
  <1> QED BY <1>1, <1>2 DEF At, Reporting, RunRecords

(* The two ways a claim step ends keep the runs well typed.                *)
LEMMA ClaimEndTypes ==
    ASSUME RunTypeOK, NEW r \in Run, runs[r].at \in ClaimStages, Proceed(r) \/ Reject(r)
    PROVE  runs' \in [Run -> RunRecords]
  <1>1. runs \in [Run -> RunRecords] /\ runs[r].result \in Completions
    BY DEF RunTypeOK, RunRecords
  <1>2. At("done") \in RunRecords
    BY RunRecordTypes DEF Stages, Completions
  <1>3. CASE Reject(r)
    <2>1. Reporting("finalize", "run_crash") \in RunRecords
      BY RunRecordTypes DEF Stages, ClaimStages, Completions, RetryableCompletions
    <2>2. Reporting("done", runs[r].result) \in RunRecords
      BY <1>1, RunRecordTypes DEF Stages
    <2> QED BY <1>1, <1>3, <2>1, <2>2 DEF Reject
  <1>4. CASE Proceed(r)
    <2>1. PICK stage \in Next1(runs[r].at) :
              runs' = Moved(r, Reporting(stage, runs[r].result))
      BY <1>4 DEF Proceed
    <2>2. stage \in Stages
      BY <2>1 DEF Next1, ClaimStages, Stages, WorkStages
    <2>3. Reporting(stage, runs[r].result) \in RunRecords
      BY <1>1, <2>2, RunRecordTypes
    <2> QED BY <1>1, <1>2, <2>1, <2>3 DEF Moved
  <1> QED BY <1>3, <1>4

(* Setting the step and the record a run holds keeps it well typed.        *)
LEMMA HoldTypes ==
    ASSUME RunTypeOK, NEW r \in Run, NEW step \in Steps, NEW e \in Envelopes
    PROVE  /\ [runs EXCEPT ![r].step = step, ![r].seen = e] \in [Run -> RunRecords]
           /\ [runs EXCEPT ![r] = [@ EXCEPT !.step = step, !.seen = e]] \in [Run -> RunRecords]
  BY DEF RunTypeOK, RunRecords

(* A compareAndSet, won or lost, leaves an envelope.                       *)
LEMMA CasTypes ==
    ASSUME env \in Envelopes, NEW e, NEW next \in Envelopes, CasWon(e, next) \/ CasLost(e)
    PROVE  env' \in Envelopes
  BY DEF CasWon, CasLost

(* The steps of the runs keep the runs' part of the type invariant.        *)
LEMMA RunStepTypes ==
    ASSUME RunTypeOK, NEW r \in Run,
           StartFromEvent(r) \/ StartByHand(r) \/ RunStep(r) \/ Cancel(r)
    PROVE  RunTypeOK'
  <1> USE DEF RunTypeOK
  <1>0. /\ runs[r] \in RunRecords /\ runs[r].seen \in Envelopes
        /\ runs[r].result \in Completions
    BY DEF RunRecords
  <1>a. \A stage \in Stages : [runs EXCEPT ![r] = At(stage)] \in [Run -> RunRecords]
    BY RunRecordTypes DEF Completions
  <1>b. \A stage \in Stages, d \in Completions :
            [runs EXCEPT ![r] = Reporting(stage, d)] \in [Run -> RunRecords]
    BY RunRecordTypes
  <1>c. NoEnvelope \in Envelopes
    BY EnvelopeTypes
  <1>d. \A step \in Steps, e \in Envelopes :
            [runs EXCEPT ![r].step = step, ![r].seen = e] \in [Run -> RunRecords]
    BY HoldTypes
  <1>1. CASE StartFromEvent(r)
    BY <1>1, <1>a DEF StartFromEvent, Stages, ClaimStages
  <1>2. CASE StartByHand(r)
    BY <1>2, <1>a DEF StartByHand, Stages, ClaimStages
  <1>3. CASE EnterJob(r)
    BY <1>3, <1>a DEF EnterJob, Stages, ClaimStages
  <1>4. CASE ClaimLoad(r)
    <2>1. runs' \in [Run -> RunRecords]
      <3>1. \A step \in {"expire", "cas"} :
                [runs EXCEPT ![r].step = step, ![r].seen = env] \in [Run -> RunRecords]
        BY <1>d DEF Steps
      <3>2. runs[r].at \in ClaimStages
        BY <1>4 DEF ClaimLoad
      <3>3. Proceed(r) \/ Reject(r) => runs' \in [Run -> RunRecords]
        BY <3>2, ClaimEndTypes
      <3> QED BY <1>4, <3>1, <3>3 DEF ClaimLoad
    <2> QED BY <1>4, <2>1 DEF ClaimLoad
  <1>5. CASE ClaimCas(r)
    <2>1. runs' \in [Run -> RunRecords]
      <3>1. [runs EXCEPT ![r].step = "reload", ![r].seen = NoEnvelope] \in [Run -> RunRecords]
        BY <1>c, <1>d DEF Steps
      <3>2. runs[r].at \in ClaimStages
        BY <1>5 DEF ClaimCas
      <3>3. Proceed(r) => runs' \in [Run -> RunRecords]
        BY <3>2, ClaimEndTypes
      <3> QED BY <1>5, <3>1, <3>3 DEF ClaimCas
    <2>2. env' \in Envelopes
      BY <1>5, <1>0, EnvelopeTypes, CasTypes DEF ClaimCas
    <2> QED BY <1>5, <2>1, <2>2 DEF ClaimCas
  <1>6. CASE ClaimReload(r)
    <2>1. runs' \in [Run -> RunRecords]
      BY <1>6, ClaimEndTypes DEF ClaimReload
    <2> QED BY <1>6, <2>1 DEF ClaimReload
  <1>7. CASE ClaimExpire(r)
    <2>1. runs' \in [Run -> RunRecords]
      BY <1>7, ClaimEndTypes DEF ClaimExpire
    <2>2. env' \in Envelopes
      BY <1>7, <1>0, EnvelopeTypes, CasTypes DEF ClaimExpire
    <2> QED BY <1>7, <2>1, <2>2 DEF ClaimExpire
  <1>8. CASE Doctor(r)
    <2>1. {"doctorFail", "harness", "recheck", "finalize", "done"} \subseteq Stages
            /\ {"doctor_checks_failed", "run_crash"} \subseteq Completions
      BY DEF Stages, ClaimStages, WorkStages, Completions, RetryableCompletions
    <2>2. runs' \in [Run -> RunRecords]
      BY <1>8, <1>a, <1>b, <2>1 DEF Doctor
    <2> QED BY <1>8, <2>2 DEF Doctor
  <1>9. CASE DoctorFailLoad(r)
    <2>1. runs' \in [Run -> RunRecords]
      BY <1>9, <1>a, HoldTypes DEF DoctorFailLoad, Steps, Stages
    <2> QED BY <1>9, <2>1 DEF DoctorFailLoad
  <1>10. CASE DoctorFailCas(r)
    <2>1. runs' \in [Run -> RunRecords]
      <3>1. {"terminalize", "done"} \subseteq Stages /\ "run_crash" \in Completions
        BY DEF Stages, WorkStages, Completions, RetryableCompletions
      <3>2. \/ runs' = [runs EXCEPT ![r] = Reporting("terminalize", "run_crash")]
            \/ runs' = [runs EXCEPT ![r] = Reporting("done", runs[r].result)]
        BY <1>10 DEF DoctorFailCas
      <3> QED BY <3>1, <3>2, <1>0, <1>b
    <2>2. env' \in Envelopes
      <3>1. Terminalized(runs[r].seen, "failed", "doctor_checks_failed") \in Envelopes
        BY <1>0, EnvelopeTypes DEF EnvelopeStates, Completions, RetryableCompletions
      <3> QED BY <1>10, <3>1, CasTypes DEF DoctorFailCas
    <2> QED BY <1>10, <2>1, <2>2 DEF DoctorFailCas
  <1>11. CASE AckLoad(r)
    <2>1. runs' \in [Run -> RunRecords]
      BY <1>11, <1>a, HoldTypes DEF AckLoad, Steps, Stages, WorkStages
    <2> QED BY <1>11, <2>1 DEF AckLoad
  <1>12. CASE AckAttempt(r)
    <2>1. AckPatched(runs[r].seen, "attempted") \in Envelopes
      BY <1>0, EnvelopeTypes DEF AckStates
    <2>2. runs' \in [Run -> RunRecords]
      BY <1>12, <2>1, HoldTypes DEF AckAttempt, Steps
    <2>3. env' \in Envelopes
      BY <1>12, <2>1, CasTypes DEF AckAttempt
    <2> QED BY <1>12, <2>2, <2>3 DEF AckAttempt
  <1>13. CASE AckConfirm(r)
    <2>1. \A ack \in {"attempted", "confirmed"} : AckPatched(runs[r].seen, ack) \in Envelopes
      BY <1>0, EnvelopeTypes DEF AckStates
    <2>2. env' \in Envelopes
      BY <1>13, <2>1, CasTypes DEF AckConfirm
    <2> QED BY <1>13, <1>a, <2>2 DEF AckConfirm, Stages, WorkStages
  <1>14. CASE Phase(r)
    <2>1. PICK result \in {"verified_complete", "duplicate_phase_completed",
                           "run_crash", "run_failed"} :
              runs' = [runs EXCEPT ![r] = Reporting("finalize", result)]
      BY <1>14 DEF Phase
    <2>2. result \in Completions /\ "finalize" \in Stages
      BY DEF Stages, ClaimStages, Completions, RetryableCompletions, FalseDuplicateCompletions
    <2>3. runs' \in [Run -> RunRecords]
      BY <1>b, <2>1, <2>2
    <2> QED BY <1>14, <2>3 DEF Phase
  <1>15. CASE TerminalizeLoad(r)
    <2>1. runs' \in [Run -> RunRecords]
      BY <1>15, <1>a, HoldTypes DEF TerminalizeLoad, Steps, Stages
    <2> QED BY <1>15, <2>1 DEF TerminalizeLoad
  <1>16. CASE TerminalizeCas(r)
    <2>1. \A s \in {"completed", "failed"} :
              Terminalized(runs[r].seen, s, runs[r].result) \in Envelopes
      BY <1>0, EnvelopeTypes DEF EnvelopeStates
    <2>2. env' \in Envelopes
      BY <1>16, <2>1, CasTypes DEF TerminalizeCas
    <2>3. "done" \in Stages
      BY DEF Stages
    <2>4. runs' \in [Run -> RunRecords]
      BY <1>16, <1>0, <1>a, <1>b, <2>3 DEF TerminalizeCas
    <2> QED BY <1>16, <2>2, <2>4 DEF TerminalizeCas
  <1>17. CASE Cancel(r)
    <2>1. {"done", "finalize"} \subseteq Stages /\ {"run_crash", "run_failed"} \subseteq Completions
      BY DEF Stages, ClaimStages, Completions, RetryableCompletions
    <2>2. runs' \in [Run -> RunRecords]
      BY <1>17, <1>b, <2>1 DEF Cancel
    <2> QED BY <1>17, <2>2 DEF Cancel
  <1> QED
    BY <1>1, <1>2, <1>3, <1>4, <1>5, <1>6, <1>7, <1>8, <1>9, <1>10, <1>11, <1>12, <1>13,
       <1>14, <1>15, <1>16, <1>17
    DEF RunStep, RunClaims, RunAcks, RunEnds

LEMMA InitTypes == Init => TypeOK
  <1>1. NoEnvelope \in Envelopes
    BY DEF Envelopes, NoEnvelope, EnvelopeStates, Completions, AckStates, DispatchStates
  <1>2. At("idle") \in RunRecords
    BY RunRecordTypes DEF Stages, Completions
  <1>3. Init => RunTypeOK
    <2> SUFFICES ASSUME Init PROVE RunTypeOK
      OBVIOUS
    <2>1. env \in Envelopes /\ sent \in Nat
      BY <1>1 DEF Init, RunInit
    <2>2. late \in BOOLEAN
      BY Zenon DEF Init, RunInit
    <2>3. runs \in [Run -> RunRecords]
      BY <1>2 DEF Init, RunInit
    <2> QED BY <2>1, <2>2, <2>3 DEF RunTypeOK
  <1>4. /\ [step |-> "load", held |-> NoEnvelope] \in [step : CreatorSteps, held : Envelopes]
        /\ [step |-> "load", held |-> NoEnvelope] \in [step : ReopenerSteps, held : Envelopes]
    BY <1>1 DEF CreatorSteps, ReopenerSteps
  <1> QED BY <1>3, <1>4 DEF Init, TypeOK

LEMMA NextTypes == TypeOK /\ [Next]_vars => TypeOK'
  <1> SUFFICES ASSUME TypeOK, [Next]_vars PROVE TypeOK'
    OBVIOUS
  <1>0. NoEnvelope \in Envelopes /\ NewEnvelope \in Envelopes
    BY EnvelopeTypes DEF TypeOK, RunTypeOK
  <1>1. ASSUME NEW c \in Creator, Create(c) PROVE TypeOK'
    <2>0. creators[c].held \in Envelopes
      BY DEF TypeOK
    <2>1. \A ack \in {"attempted", "confirmed"} : AckPatched(creators[c].held, ack) \in Envelopes
      BY <2>0, EnvelopeTypes DEF AckStates
    <2>2. CASE CreatorLoad(c)
      BY <2>2 DEF CreatorLoad, TypeOK, RunTypeOK, runVars, CreatorSteps
    <2>3. CASE CreatorCreate(c)
      <3>1. creators' \in [Creator -> [step : CreatorSteps, held : Envelopes]]
        BY <2>3, <1>0 DEF CreatorCreate, TypeOK, CreatorSteps
      <3>2. env' \in Envelopes
        BY <2>3, <1>0 DEF CreatorCreate, TypeOK, RunTypeOK
      <3> QED BY <2>3, <3>1, <3>2 DEF CreatorCreate, TypeOK, RunTypeOK
    <2>4. CASE CreatorAckAttempt(c)
      <3>1. env' \in Envelopes
        BY <2>4, <2>1, CasTypes DEF CreatorAckAttempt, TypeOK, RunTypeOK
      <3> QED BY <2>4, <2>1, <3>1 DEF CreatorAckAttempt, TypeOK, RunTypeOK, CreatorSteps
    <2>5. CASE CreatorAckConfirm(c)
      <3>1. env' \in Envelopes
        BY <2>5, <2>1, CasTypes DEF CreatorAckConfirm, TypeOK, RunTypeOK
      <3> QED BY <2>5, <1>0, <3>1 DEF CreatorAckConfirm, TypeOK, RunTypeOK, CreatorSteps
    <2>6. CASE CreatorDispatch(c)
      BY <2>6, <1>0 DEF CreatorDispatch, TypeOK, RunTypeOK, CreatorSteps
    <2>7. CASE CreatorCrash(c)
      BY <2>7, <1>0 DEF CreatorCrash, TypeOK, RunTypeOK, runVars, CreatorSteps
    <2> QED BY <1>1, <2>2, <2>3, <2>4, <2>5, <2>6, <2>7 DEF Create
  <1>2. ASSUME NEW p \in Reopener, Reopen(p) PROVE TypeOK'
    <2>0. reopeners[p].held \in Envelopes /\ env \in Envelopes
      BY DEF TypeOK, RunTypeOK
    <2>1. CASE ReopenLoad(p)
      BY <2>0, <2>1, <1>0 DEF ReopenLoad, TypeOK, RunTypeOK, runVars, ReopenerSteps
    <2>2. CASE ReopenCas(p)
      <3>1. env' \in Envelopes
        BY <2>0, <2>2, EnvelopeTypes, CasTypes DEF ReopenCas
      <3> QED BY <2>2, <1>0, <3>1 DEF ReopenCas, TypeOK, RunTypeOK, ReopenerSteps
    <2>3. CASE ReopenRedispatch(p)
      BY <2>3 DEF ReopenRedispatch, TypeOK, RunTypeOK, ReopenerSteps
    <2>4. CASE ReopenCrash(p)
      BY <2>4, <1>0 DEF ReopenCrash, TypeOK, RunTypeOK, runVars, ReopenerSteps
    <2> QED BY <1>2, <2>1, <2>2, <2>3, <2>4 DEF Reopen
  <1>3. ASSUME NEW r \in Run, Serve(r) PROVE TypeOK'
    BY <1>3, RunStepTypes DEF Serve, TypeOK
  <1>4. CASE Late
    BY <1>4 DEF Late, Expire, TypeOK, RunTypeOK
  <1>5. CASE UNCHANGED vars
    BY <1>5 DEF vars, runVars, TypeOK, RunTypeOK
  <1> QED BY <1>1, <1>2, <1>3, <1>4, <1>5 DEF Next

(* The envelope, the runs and the processes always hold well-formed        *)
(* records, with any number of runs, creators and reopeners.               *)
THEOREM TypeCorrect == Spec => []TypeOK
  BY InitTypes, NextTypes, PTL DEF Spec

----------------------------------------------------------------------------
(* From here on: an envelope that no reconciler reopens, which is every    *)
(* envelope but those of code review.                                      *)
(*                                                                         *)
(* The strengthening.  The owner can do nothing more to the envelope than, *)
(* once, end its claim.                                                    *)
Ended(e, rs) == e.claim \in Run /\ rs[e.claim].at \in {"terminalize", "done"}

(* Revisions only grow, so a record that was loaded is the stored one or   *)
(* is out of date for good.                                                *)
LoadedInv(r, e, rs) ==
    rs[r].step \in {"cas", "expire"} =>
        /\ rs[r].seen.rev <= e.rev
        /\ rs[r].seen.rev = e.rev => rs[r].seen = e

(* What a run holds follows from the step it is at.                        *)
SeenInv(r, rs) ==
    rs[r].step = "cas" =>
        /\ rs[r].at \in ClaimStages => rs[r].seen.state = "pending"
        /\ rs[r].at \in {"doctorFail", "terminalize"} => rs[r].seen.state = "claimed"

(* Claims are never given back, so being past the gate means owning the    *)
(* envelope, or having found it terminal after its owner was through.      *)
GateInv(r, e, rs) ==
    rs[r].at \notin {"idle", "gate", "done"} =>
        /\ e.state \notin {"absent", "pending"}
        /\ e.claim = r \/ Ended(e, rs)
        /\ e.state = "claimed" => e.claim = r

(* An acknowledging run may write blindly, but never another claim than    *)
(* the stored one, nor a claim of its own that is over.                    *)
AckInv(r, e, rs) ==
    rs[r].at = "ack" /\ rs[r].step # "load" =>
        /\ rs[r].seen.claim = e.claim
        /\ rs[r].seen.state \in {"claimed", "completed", "failed", "expired"}
        /\ rs[r].seen.state = "claimed" => rs[r].seen.claim = r
        /\ Terminal(rs[r].seen) => Ended(e, rs)

RunInv(r, e, rs) ==
    LoadedInv(r, e, rs) /\ SeenInv(r, rs) /\ GateInv(r, e, rs) /\ AckInv(r, e, rs)

OwnerInv ==
    /\ env.state \in {"absent", "pending"} => env.claim = NoRun
    /\ Terminal(env) => Ended(env, runs)

(* Until the creator has sent its dispatch it is alone with the envelope.  *)
AllIdle == \A r \in Run : runs[r] = At("idle")

CreatorInv ==
    /\ env.state = "absent" => sent = 0 /\ AllIdle
    /\ \A c \in Creator : ToDispatch(c) =>
         /\ env.state = "pending" /\ sent = 0 /\ AllIdle
         /\ \A d \in Creator \ {c} : ~ToDispatch(d)
    /\ \A c \in Creator : creators[c].step \in {"ackAttempt", "ackConfirm"} =>
         creators[c].held.state = "pending" /\ creators[c].held.claim = NoRun

Inv == (\A r \in Run : RunInv(r, env, runs)) /\ OwnerInv /\ CreatorInv

IInv == TypeOK /\ Inv

LEMMA InvInit == Init => Inv
  BY DEF Init, RunInit, Inv, RunInv, LoadedInv, SeenInv, GateInv, AckInv, OwnerInv, CreatorInv,
         AllIdle, ToDispatch, At, NoEnvelope, Terminal

(* What the other runs may do while one moves: nothing, or be cancelled by *)
(* it in the queue.                                                        *)
OthersStay(r) ==
    \A q \in Run \ {r} : runs'[q] = runs[q] \/ runs'[q] = At("done")

(* An ended owner stays ended through a move of r.                         *)
LEMMA EndedStays ==
    ASSUME NEW r \in Run, OthersStay(r), env'.claim = env.claim,
           runs[r].at \in {"terminalize", "done"} => runs'[r].at \in {"terminalize", "done"},
           Ended(env, runs)
    PROVE  Ended(env', runs')
  BY DEF Ended, OthersStay, At

(* A step of a run that leaves the envelope alone keeps Inv when it keeps  *)
(* the run's own part of it, and a first step needs an envelope to exist.  *)
LEMMA RunMoves ==
    ASSUME IInv, NEW r \in Run, OthersStay(r), env' = env, UNCHANGED creators,
           sent' \in Nat, sent' <= sent,
           runs[r].at \in {"terminalize", "done"} => runs'[r].at \in {"terminalize", "done"},
           runs[r].at = "idle" => sent > 0 \/ ~AllIdle,
           RunInv(r, env, runs')
    PROVE  Inv'
  <1>1. Ended(env, runs) => Ended(env', runs')
    BY EndedStays
  <1>2. ASSUME NEW q \in Run PROVE RunInv(q, env', runs')
    <2>1. CASE q = r
      BY <2>1
    <2>2. CASE q # r /\ runs'[q] = At("done")
      BY <2>2 DEF RunInv, LoadedInv, SeenInv, GateInv, AckInv, At
    <2>3. CASE q # r /\ runs'[q] = runs[q]
      <3>1. RunInv(q, env, runs)
        BY DEF IInv, Inv
      <3> QED BY <1>1, <2>3, <3>1 DEF RunInv, LoadedInv, SeenInv, GateInv, AckInv
    <2> QED BY <2>1, <2>2, <2>3 DEF OthersStay
  <1>3. OwnerInv'
    BY <1>1 DEF IInv, Inv, OwnerInv
  <1>4. env.state # "absent" /\ \A c \in Creator : ~ToDispatch(c)
    <2>1. ~(sent = 0 /\ AllIdle)
      BY DEF AllIdle, At
    <2> QED BY <2>1 DEF IInv, Inv, CreatorInv
  <1>5. CreatorInv'
    BY <1>4 DEF CreatorInv, ToDispatch, IInv, Inv
  <1> QED BY <1>2, <1>3, <1>5 DEF Inv

(* A step of a run that writes the envelope.                               *)
LEMMA RunWrites ==
    ASSUME IInv, NEW r \in Run, OthersStay(r), UNCHANGED creators,
           runs[r].at # "idle", env.state # "absent", env'.rev = env.rev + 1,
           env'.state \notin {"absent", "pending"},
           env'.claim = env.claim \/ (env.state = "pending" /\ env'.claim = r),
           env'.state = "claimed" =>
               env'.claim = r /\ runs[r].at \notin {"terminalize", "done"},
           Terminal(env') => Ended(env', runs'),
           runs[r].at \in {"terminalize", "done"} => runs'[r].at \in {"terminalize", "done"},
           RunInv(r, env', runs')
    PROVE  Inv'
  <1>0. env.rev \in Nat /\ \A q \in Run : runs[q].seen.rev \in Nat
    BY DEF IInv, TypeOK, RunTypeOK, RunRecords, Envelopes
  <1>1. ASSUME NEW q \in Run PROVE RunInv(q, env', runs')
    <2>1. CASE q = r
      BY <2>1
    <2>2. CASE q # r /\ runs'[q] = At("done")
      BY <2>2 DEF RunInv, LoadedInv, SeenInv, GateInv, AckInv, At
    <2>3. CASE q # r /\ runs'[q] = runs[q]
      <3>1. LoadedInv(q, env, runs) /\ SeenInv(q, runs) /\ GateInv(q, env, runs)
              /\ AckInv(q, env, runs)
        BY DEF IInv, Inv, RunInv
      <3>2. LoadedInv(q, env', runs')
        BY <1>0, <2>3, <3>1 DEF LoadedInv
      <3>3. SeenInv(q, runs')
        BY <2>3, <3>1 DEF SeenInv
      <3>4. GateInv(q, env', runs')
        <4> SUFFICES ASSUME runs[q].at \notin {"idle", "gate", "done"}
                     PROVE  /\ env'.claim = q \/ Ended(env', runs')
                            /\ env'.state = "claimed" => env'.claim = q
          BY <2>3 DEF GateInv
        <4>1. env.state \notin {"absent", "pending"} /\ (env.claim = q \/ Ended(env, runs))
          BY <3>1 DEF GateInv
        <4>2. env'.claim = env.claim
          BY <4>1
        <4>3. Ended(env, runs) => Ended(env', runs')
          BY <4>2, EndedStays
        <4>4. env'.state = "claimed" => env'.claim = q
          BY <4>1, <4>2 DEF Ended
        <4> QED BY <4>1, <4>2, <4>3, <4>4
      <3>5. AckInv(q, env', runs')
        <4> SUFFICES ASSUME runs[q].at = "ack", runs[q].step # "load"
                     PROVE  /\ runs[q].seen.claim = env'.claim
                            /\ Terminal(runs[q].seen) => Ended(env', runs')
          BY <2>3, <3>1 DEF AckInv
        <4>1. env'.claim = env.claim
          BY <3>1 DEF GateInv
        <4> QED BY <3>1, <4>1, EndedStays DEF AckInv
      <3> QED BY <3>2, <3>3, <3>4, <3>5 DEF RunInv
    <2> QED BY <2>1, <2>2, <2>3 DEF OthersStay
  <1>2. OwnerInv'
    BY DEF OwnerInv
  <1>3. \A c \in Creator : ~ToDispatch(c)
    BY DEF IInv, Inv, CreatorInv, AllIdle, At
  <1>4. CreatorInv'
    BY <1>3 DEF CreatorInv, ToDispatch
  <1> QED BY <1>1, <1>2, <1>4 DEF Inv

----------------------------------------------------------------------------
(* A run that holds no record only has to satisfy GateInv.                 *)
LEMMA FreshRun ==
    ASSUME NEW r, NEW e, NEW rs, rs[r].step = "load", GateInv(r, e, rs)
    PROVE  RunInv(r, e, rs)
  BY DEF RunInv, LoadedInv, SeenInv, AckInv

(* A run past the gate that moves on and leaves the envelope alone keeps   *)
(* GateInv.                                                                *)
LEMMA GateStays ==
    ASSUME IInv, NEW r \in Run, OthersStay(r), PastGate(r),
           runs[r].at = "terminalize" => runs'[r].at \in {"terminalize", "done"}
    PROVE  GateInv(r, env, runs')
  <1>1. GateInv(r, env, runs)
    BY DEF IInv, Inv, RunInv
  <1>2. Ended(env, runs) => Ended(env, runs')
    BY DEF Ended, OthersStay, At, PastGate
  <1> QED BY <1>1, <1>2 DEF GateInv, PastGate

(* How the two ends of a claim step move the run.                          *)
LEMMA ClaimEnds ==
    ASSUME TypeOK, NEW r \in Run, runs[r].at \in ClaimStages, Proceed(r) \/ Reject(r)
    PROVE  /\ OthersStay(r)
           /\ runs'[r].step = "load"
           /\ Reject(r) => runs'[r].at = "done" \/ runs[r].at \in {"start", "harness"}
           /\ runs[r].at \notin {"terminalize", "done", "idle"}
  <1>0. runs \in [Run -> RunRecords]
    BY DEF TypeOK, RunTypeOK
  <1>1. CASE Reject(r)
    BY <1>0, <1>1 DEF Reject, Finalized, OthersStay, Reporting, At, ClaimStages
  <1>2. CASE Proceed(r)
    <2>1. PICK stage \in Next1(runs[r].at) :
              runs' = Moved(r, Reporting(stage, runs[r].result))
      BY <1>2 DEF Proceed
    <2>2. OthersStay(r) /\ runs'[r] = Reporting(stage, runs[r].result)
      BY <1>0, <2>1 DEF Moved, OthersStay
    <2>3. ~Reject(r) \/ runs'[r].at = "done" \/ runs[r].at \in {"start", "harness"}
      BY <1>0 DEF Reject, Finalized, Reporting, At, ClaimStages
    <2> QED BY <2>2, <2>3 DEF Reporting, At, ClaimStages
  <1> QED BY <1>1, <1>2

(* A stored envelope that matches a loaded record is that record.          *)
LEMMA WonIsCurrent ==
    ASSUME IInv, NEW r \in Run, runs[r].step \in {"cas", "expire"}, NEW next,
           CasWon(runs[r].seen, next)
    PROVE  runs[r].seen = env /\ env' = next /\ env.state # "absent"
  BY DEF CasWon, CasMatches, IInv, Inv, RunInv, LoadedInv

LEMMA ClaimLoadInv ==
    ASSUME IInv, NEW r \in Run, ClaimLoad(r), UNCHANGED creators
    PROVE  Inv'
  <1>0. /\ TypeOK /\ runs \in [Run -> RunRecords] /\ runs[r].at \in ClaimStages
        /\ env' = env /\ sent' = sent /\ sent \in Nat
    BY DEF ClaimLoad, IInv, TypeOK, RunTypeOK
  <1>1. CASE \E step \in {"cas", "expire"} :
               /\ step = "cas" => env.state = "pending"
               /\ runs' = [runs EXCEPT ![r].step = step, ![r].seen = env]
    <2>1. PICK step \in {"cas", "expire"} :
               /\ step = "cas" => env.state = "pending"
               /\ runs' = [runs EXCEPT ![r].step = step, ![r].seen = env]
      BY <1>1
    <2>2. OthersStay(r) /\ runs'[r].step = step /\ runs'[r].seen = env
            /\ runs'[r].at = runs[r].at
      BY <1>0, <2>1 DEF OthersStay, RunRecords
    <2>3. GateInv(r, env, runs')
      <3>1. CASE PastGate(r)
        BY <1>0, <2>2, <3>1, GateStays DEF ClaimStages
      <3>2. CASE ~PastGate(r)
        BY <2>2, <3>2 DEF PastGate, GateInv
      <3> QED BY <3>1, <3>2
    <2>4. RunInv(r, env, runs')
      <3>1. env.rev \in Nat
        BY DEF IInv, TypeOK, RunTypeOK, Envelopes
      <3> QED BY <1>0, <2>1, <2>2, <2>3, <3>1
              DEF RunInv, LoadedInv, SeenInv, AckInv, ClaimStages
    <2> QED BY <1>0, <2>2, <2>4, RunMoves DEF ClaimStages
  <1>2. CASE Proceed(r) /\ (Terminal(env) \/ (env.state = "claimed" /\ env.claim = r))
    <2>1. OthersStay(r) /\ runs'[r].step = "load"
            /\ runs[r].at \notin {"terminalize", "done", "idle"}
      BY <1>0, <1>2, ClaimEnds
    <2>2. Terminal(env) => Ended(env, runs')
      BY <1>0, <2>1, EndedStays DEF IInv, Inv, OwnerInv
    <2>3. GateInv(r, env, runs')
      BY <1>2, <2>2 DEF GateInv, Terminal
    <2> QED BY <1>0, <2>1, <2>3, FreshRun, RunMoves
  <1>3. CASE Reject(r)
    <2>1. OthersStay(r) /\ runs'[r].step = "load"
            /\ (runs'[r].at = "done" \/ runs[r].at \in {"start", "harness"})
            /\ runs[r].at \notin {"terminalize", "done", "idle"}
      BY <1>0, <1>3, ClaimEnds
    <2>2. GateInv(r, env, runs')
      BY <2>1, GateStays DEF GateInv, PastGate
    <2> QED BY <1>0, <2>1, <2>2, FreshRun, RunMoves
  <1> QED BY <1>1, <1>2, <1>3 DEF ClaimLoad

LEMMA ClaimCasInv ==
    ASSUME IInv, NEW r \in Run, ClaimCas(r), UNCHANGED creators
    PROVE  Inv'
  <1>0. /\ TypeOK /\ runs \in [Run -> RunRecords] /\ runs[r].at \in ClaimStages
        /\ sent' = sent /\ sent \in Nat /\ runs[r].step = "cas" /\ env \in Envelopes
    BY DEF ClaimCas, IInv, TypeOK, RunTypeOK
  <1>1. CASE CasWon(runs[r].seen, Claimed(runs[r].seen, r)) /\ Proceed(r)
    <2>1. runs[r].seen = env /\ env' = Claimed(env, r) /\ env.state = "pending"
      BY <1>0, <1>1, WonIsCurrent DEF IInv, Inv, RunInv, SeenInv
    <2>2. OthersStay(r) /\ runs'[r].step = "load"
            /\ runs[r].at \notin {"terminalize", "done", "idle"}
      BY <1>0, <1>1, ClaimEnds
    <2>3. env'.state = "claimed" /\ env'.claim = r /\ env'.rev = env.rev + 1
      BY <1>0, <2>1 DEF Claimed, Envelopes
    <2>4. RunInv(r, env', runs')
      BY <2>2, <2>3, FreshRun DEF GateInv
    <2> QED BY <2>1, <2>2, <2>3, <2>4, RunWrites DEF Terminal
  <1>2. CASE /\ UNCHANGED env
             /\ runs' = [runs EXCEPT ![r].step = "reload", ![r].seen = NoEnvelope]
    <2>1. OthersStay(r) /\ runs'[r].step = "reload" /\ runs'[r].at = runs[r].at
      BY <1>0, <1>2 DEF OthersStay, RunRecords
    <2>2. GateInv(r, env, runs')
      BY <1>0, <2>1, GateStays DEF ClaimStages, PastGate, GateInv
    <2>3. RunInv(r, env, runs')
      BY <1>0, <2>1, <2>2 DEF RunInv, LoadedInv, SeenInv, AckInv, ClaimStages
    <2>4. runs[r].at \notin {"terminalize", "done", "idle"} /\ sent' \in Nat /\ sent' <= sent
      BY <1>0 DEF ClaimStages
    <2> QED BY <1>2, <2>1, <2>3, <2>4, RunMoves
  <1> QED BY <1>1, <1>2 DEF ClaimCas, CasLost

LEMMA ClaimReloadInv ==
    ASSUME IInv, NEW r \in Run, ClaimReload(r), UNCHANGED creators
    PROVE  Inv'
  <1>0. /\ TypeOK /\ runs[r].at \in ClaimStages /\ env' = env
        /\ sent' = sent /\ sent \in Nat
        /\ Reject(r) \/ (Proceed(r) /\ env.state = "claimed" /\ env.claim = r)
    BY DEF ClaimReload, IInv, TypeOK, RunTypeOK
  <1>1. OthersStay(r) /\ runs'[r].step = "load"
          /\ (Reject(r) => runs'[r].at = "done" \/ runs[r].at \in {"start", "harness"})
          /\ runs[r].at \notin {"terminalize", "done", "idle"}
    BY <1>0, ClaimEnds
  <1>2. GateInv(r, env, runs')
    BY <1>0, <1>1, GateStays DEF GateInv, PastGate
  <1> QED BY <1>0, <1>1, <1>2, FreshRun, RunMoves

LEMMA ClaimExpireInv ==
    ASSUME IInv, NEW r \in Run, ClaimExpire(r), UNCHANGED creators
    PROVE  Inv'
  <1>0. /\ TypeOK /\ runs[r].at \in ClaimStages /\ Reject(r) /\ env \in Envelopes
        /\ sent' = sent /\ sent \in Nat /\ runs[r].step = "expire"
    BY DEF ClaimExpire, IInv, TypeOK, RunTypeOK
  <1>1. OthersStay(r) /\ runs'[r].step = "load"
          /\ (runs'[r].at = "done" \/ runs[r].at \in {"start", "harness"})
          /\ runs[r].at \notin {"terminalize", "done", "idle"}
    BY <1>0, ClaimEnds
  <1>2. GateInv(r, env, runs')
    BY <1>1, GateStays DEF GateInv, PastGate
  <1>3. CASE UNCHANGED env
    BY <1>0, <1>1, <1>2, <1>3, FreshRun, RunMoves
  <1>4. CASE CasWon(runs[r].seen, Expired(runs[r].seen))
    <2>1. env' = Expired(env) /\ env.state # "absent"
      BY <1>0, <1>4, WonIsCurrent
    <2>2. env'.state = "expired" /\ env'.claim = env.claim /\ env'.rev = env.rev + 1
      BY <1>0, <2>1 DEF Expired, Envelopes
    <2>3. RunInv(r, env', runs')
      BY <1>1, <1>2, <2>2, FreshRun DEF GateInv, Ended
    <2> QED BY <1>1, <2>1, <2>2, <2>3, RunWrites DEF Terminal
  <1> QED BY <1>3, <1>4 DEF ClaimExpire, CasLost

(* Steps that start a stage of a run past its gate and touch nothing else. *)
LEMMA StageStarts ==
    ASSUME IInv, NEW r \in Run, UNCHANGED <<env, sent, creators>>, NEW stage, NEW d,
           \/ runs' = [runs EXCEPT ![r] = At(stage)]
           \/ runs' = [runs EXCEPT ![r] = Reporting(stage, d)],
           stage = "done" \/ (PastGate(r) /\ runs[r].at # "terminalize"),
           runs[r].at # "idle"
    PROVE  Inv'
  <1>1. runs \in [Run -> RunRecords] /\ sent \in Nat
    BY DEF IInv, TypeOK, RunTypeOK
  <1>2. OthersStay(r) /\ runs'[r].at = stage /\ runs'[r].step = "load"
    BY <1>1 DEF OthersStay, Reporting, At
  <1>3. GateInv(r, env, runs')
    BY <1>2, GateStays DEF GateInv, PastGate
  <1>4. RunInv(r, env, runs')
    BY <1>2, <1>3, FreshRun
  <1>5. runs[r].at \in {"terminalize", "done"} => runs'[r].at \in {"terminalize", "done"}
    BY <1>2 DEF PastGate
  <1> QED BY <1>1, <1>2, <1>4, <1>5, RunMoves

(* A terminalizing step that loads the claimed envelope.                   *)
LEMMA ClaimedLoaded ==
    ASSUME IInv, NEW r \in Run, UNCHANGED <<env, sent, creators>>,
           runs[r].at \in {"doctorFail", "terminalize"}, env.state = "claimed",
           runs' = [runs EXCEPT ![r] = [@ EXCEPT !.step = "cas", !.seen = env]]
    PROVE  Inv'
  <1>1. runs \in [Run -> RunRecords] /\ sent \in Nat /\ env.rev \in Nat
    BY DEF IInv, TypeOK, RunTypeOK, Envelopes
  <1>2. OthersStay(r) /\ runs'[r].at = runs[r].at /\ runs'[r].step = "cas" /\ runs'[r].seen = env
    BY <1>1 DEF OthersStay, RunRecords
  <1>3. GateInv(r, env, runs')
    BY <1>2, GateStays DEF PastGate
  <1>4. RunInv(r, env, runs')
    BY <1>1, <1>2, <1>3 DEF RunInv, LoadedInv, SeenInv, AckInv, ClaimStages
  <1>5. /\ runs[r].at # "idle" /\ sent' \in Nat /\ sent' <= sent
        /\ runs[r].at \in {"terminalize", "done"} => runs'[r].at \in {"terminalize", "done"}
    BY <1>1, <1>2
  <1> QED BY <1>2, <1>4, <1>5, RunMoves

(* A terminalizing write that lands: it ends the writer's own claim.       *)
LEMMA TerminalizeLands ==
    ASSUME IInv, NEW r \in Run, UNCHANGED creators,
           runs[r].at \in {"doctorFail", "terminalize"}, runs[r].step = "cas",
           NEW state \in {"completed", "failed"}, NEW d, NEW record,
           CasWon(runs[r].seen, Terminalized(runs[r].seen, state, d)),
           runs' = [runs EXCEPT ![r] = record], record.step = "load",
           record.at \in {"terminalize", "done"}
    PROVE  Inv' /\ env.claim = r
  <1>1. runs \in [Run -> RunRecords] /\ env \in Envelopes
    BY DEF IInv, TypeOK, RunTypeOK
  <1>2. /\ env' = Terminalized(env, state, d) /\ env.state = "claimed" /\ env.claim = r
    BY WonIsCurrent DEF IInv, Inv, RunInv, SeenInv, GateInv
  <1>3. env'.state = state /\ env'.claim = r /\ env'.rev = env.rev + 1
    BY <1>1, <1>2 DEF Terminalized, Envelopes
  <1>4. OthersStay(r) /\ runs'[r] = record
    BY <1>1 DEF OthersStay
  <1>5. RunInv(r, env', runs')
    BY <1>3, <1>4, FreshRun DEF GateInv
  <1>6. Ended(env', runs')
    BY <1>3, <1>4 DEF Ended
  <1> QED BY <1>2, <1>3, <1>4, <1>5, <1>6, RunWrites

LEMMA RunEndsInv ==
    ASSUME IInv, NEW r \in Run, RunEnds(r), UNCHANGED creators
    PROVE  Inv' /\ (env.state = "claimed" /\ Terminal(env') => env.claim = r)
  <1>1. CASE DoctorFailLoad(r)
    BY <1>1, ClaimedLoaded, StageStarts DEF DoctorFailLoad, PastGate, Terminal
  <1>2. CASE TerminalizeLoad(r)
    BY <1>2, ClaimedLoaded, StageStarts DEF TerminalizeLoad, PastGate, Terminal
  <1>3. CASE DoctorFailCas(r)
    <2>1. Reporting("terminalize", "run_crash").step = "load"
            /\ Reporting("terminalize", "run_crash").at = "terminalize"
      BY DEF Reporting, At
    <2>2. CASE UNCHANGED env /\ runs' = [runs EXCEPT ![r] = Reporting("done", runs[r].result)]
      BY <1>3, <2>2, StageStarts DEF DoctorFailCas, Terminal
    <2> QED BY <1>3, <2>1, <2>2, TerminalizeLands DEF DoctorFailCas, CasLost
  <1>4. CASE TerminalizeCas(r)
    <2>1. At("done").step = "load" /\ At("done").at = "done"
      BY DEF At
    <2>2. CASE UNCHANGED env
      <3>1. runs' = [runs EXCEPT ![r] = At("done")]
              \/ runs' = [runs EXCEPT ![r] = Reporting("done", runs[r].result)]
        BY <1>4 DEF TerminalizeCas
      <3> QED BY <1>4, <2>2, <3>1, StageStarts DEF TerminalizeCas, Terminal
    <2>3. CASE ~UNCHANGED env
      <3>1. PICK state \in {"completed", "failed"} :
                CasWon(runs[r].seen, Terminalized(runs[r].seen, state, runs[r].result))
        BY <1>4, <2>3 DEF TerminalizeCas, CasLost
      <3>2. runs' = [runs EXCEPT ![r] = At("done")]
        BY <1>4, <2>3 DEF TerminalizeCas, CasLost
      <3> QED BY <1>4, <2>1, <3>1, <3>2, TerminalizeLands DEF TerminalizeCas
    <2> QED BY <2>2, <2>3
  <1> QED BY <1>1, <1>2, <1>3, <1>4 DEF RunEnds

LEMMA AckLoadInv ==
    ASSUME IInv, NEW r \in Run, AckLoad(r), UNCHANGED creators
    PROVE  Inv'
  <1>0. /\ runs \in [Run -> RunRecords] /\ sent \in Nat /\ env.rev \in Nat
        /\ env' = env /\ sent' = sent /\ runs[r].at = "ack"
    BY DEF AckLoad, IInv, TypeOK, RunTypeOK, Envelopes
  <1>1. CASE runs' = [runs EXCEPT ![r] = At("phase")]
    BY <1>0, <1>1, StageStarts DEF PastGate
  <1>2. CASE runs' = [runs EXCEPT ![r] = [@ EXCEPT !.step = "cas", !.seen = env]]
    <2>1. OthersStay(r) /\ runs'[r].at = "ack" /\ runs'[r].step = "cas" /\ runs'[r].seen = env
      BY <1>0, <1>2 DEF OthersStay, RunRecords
    <2>2. GateInv(r, env, runs')
      BY <1>0, <2>1, GateStays DEF PastGate
    <2>3. Terminal(env) => Ended(env, runs')
      <3>1. Terminal(env) => Ended(env, runs)
        BY DEF IInv, Inv, OwnerInv
      <3> QED BY <1>0, <2>1, <3>1, EndedStays
    <2>4. env \in Envelopes
      BY DEF IInv, TypeOK, RunTypeOK
    <2>5. AckInv(r, env, runs')
      BY <2>1, <2>2, <2>3, <2>4 DEF AckInv, GateInv, Envelopes, EnvelopeStates
    <2>6. RunInv(r, env, runs')
      BY <1>0, <2>1, <2>2, <2>5 DEF RunInv, LoadedInv, SeenInv, ClaimStages
    <2>7. runs[r].at \notin {"terminalize", "done", "idle"} /\ sent' \in Nat /\ sent' <= sent
      BY <1>0
    <2> QED BY <1>0, <2>1, <2>6, <2>7, RunMoves
  <1> QED BY <1>1, <1>2 DEF AckLoad

(* An acknowledgement write that lands, blind or not.                      *)
LEMMA AckLands ==
    ASSUME IInv, NEW r \in Run, UNCHANGED creators, runs[r].at = "ack", runs[r].step # "load",
           NEW ack \in AckStates, CasWon(runs[r].seen, AckPatched(runs[r].seen, ack)),
           OthersStay(r),
           \/ runs'[r].at = "phase" /\ runs'[r].step = "load"
           \/ runs'[r].at = "ack" /\ runs'[r].step = "reload" /\ runs'[r].seen = env'
    PROVE  Inv'
  <1>1. /\ runs \in [Run -> RunRecords] /\ env \in Envelopes /\ runs[r].seen \in Envelopes
    BY DEF IInv, TypeOK, RunTypeOK, RunRecords
  <1>2. /\ env.state # "absent" /\ env.rev = runs[r].seen.rev
        /\ env' = AckPatched(runs[r].seen, ack)
    BY DEF CasWon, CasMatches
  <1>3. /\ env'.rev = env.rev + 1 /\ env'.claim = runs[r].seen.claim
        /\ env'.state = runs[r].seen.state
    BY <1>1, <1>2 DEF AckPatched, Envelopes
  <1>4. AckInv(r, env, runs) /\ GateInv(r, env, runs)
    BY DEF IInv, Inv, RunInv
  <1>5. /\ env'.claim = env.claim /\ env'.state \in {"claimed", "completed", "failed", "expired"}
        /\ env'.state = "claimed" => env'.claim = r
        /\ Terminal(env') => Ended(env, runs)
    BY <1>3, <1>4 DEF AckInv, Terminal
  <1>6. Ended(env, runs) => Ended(env', runs')
    BY <1>5, EndedStays
  <1>7. GateInv(r, env', runs')
    BY <1>4, <1>5, <1>6 DEF GateInv
  <1>8. RunInv(r, env', runs')
    <2>1. CASE runs'[r].step = "load"
      BY <1>7, <2>1, FreshRun
    <2>2. CASE runs'[r].at = "ack" /\ runs'[r].step = "reload" /\ runs'[r].seen = env'
      BY <1>5, <1>6, <1>7, <2>2 DEF RunInv, LoadedInv, SeenInv, AckInv
    <2> QED BY <2>1, <2>2
  <1> QED BY <1>2, <1>3, <1>5, <1>6, <1>8, RunWrites

LEMMA AckAttemptInv ==
    ASSUME IInv, NEW r \in Run, AckAttempt(r), UNCHANGED creators
    PROVE  Inv'
  <1> DEFINE next == AckPatched(runs[r].seen, "attempted")
  <1>0. /\ runs \in [Run -> RunRecords] /\ sent \in Nat /\ runs[r].seen \in Envelopes
        /\ sent' = sent /\ runs[r].at = "ack" /\ runs[r].step = "cas"
    BY DEF AckAttempt, IInv, TypeOK, RunTypeOK, RunRecords
  <1>1. /\ OthersStay(r) /\ runs'[r].at = "ack" /\ runs'[r].step = "reload"
        /\ runs'[r].seen = next
    BY <1>0 DEF AckAttempt, OthersStay, RunRecords
  <1>2. CASE CasWon(runs[r].seen, next)
    <2>1. env' = next
      BY <1>2 DEF CasWon
    <2> QED BY <1>0, <1>1, <1>2, <2>1, AckLands DEF AckStates
  <1>3. CASE UNCHANGED env
    <2>1. next.state = runs[r].seen.state /\ next.claim = runs[r].seen.claim
      BY <1>0 DEF AckPatched, Envelopes
    <2>2. AckInv(r, env, runs)
      BY DEF IInv, Inv, RunInv
    <2>3. Ended(env, runs) => Ended(env, runs')
      BY <1>0, <1>1, <1>3, EndedStays
    <2>4. AckInv(r, env, runs')
      BY <1>0, <1>1, <2>1, <2>2, <2>3 DEF AckInv, Terminal
    <2>5. GateInv(r, env, runs')
      BY <1>0, <1>1, GateStays DEF PastGate
    <2>6. RunInv(r, env, runs')
      BY <1>1, <2>4, <2>5 DEF RunInv, LoadedInv, SeenInv
    <2>7. runs[r].at \notin {"terminalize", "done", "idle"} /\ sent' \in Nat /\ sent' <= sent
      BY <1>0
    <2> QED BY <1>1, <1>3, <2>6, <2>7, RunMoves
  <1> QED BY <1>2, <1>3 DEF AckAttempt, CasLost

LEMMA AckConfirmInv ==
    ASSUME IInv, NEW r \in Run, AckConfirm(r), UNCHANGED creators
    PROVE  Inv'
  <1>0. /\ runs \in [Run -> RunRecords] /\ sent' = sent
        /\ runs[r].at = "ack" /\ runs[r].step = "reload"
        /\ runs' = [runs EXCEPT ![r] = At("phase")]
    BY DEF AckConfirm, IInv, TypeOK, RunTypeOK
  <1>1. OthersStay(r) /\ runs'[r].at = "phase" /\ runs'[r].step = "load"
    BY <1>0 DEF OthersStay, At
  <1>2. CASE UNCHANGED env
    BY <1>0, <1>2, StageStarts DEF PastGate
  <1>3. CASE ~UNCHANGED env
    <2>1. PICK ack \in {"attempted", "confirmed"} :
              CasWon(runs[r].seen, AckPatched(runs[r].seen, ack))
      BY <1>3 DEF AckConfirm, CasLost
    <2> QED BY <1>0, <1>1, <2>1, AckLands DEF AckStates
  <1> QED BY <1>2, <1>3

LEMMA StartsInv ==
    ASSUME IInv, NEW r \in Run, StartFromEvent(r) \/ StartByHand(r), UNCHANGED creators
    PROVE  Inv'
  <1>0. /\ runs \in [Run -> RunRecords] /\ sent \in Nat /\ env' = env
        /\ runs[r].at = "idle" /\ runs' = [runs EXCEPT ![r] = At("gate")]
    BY DEF StartFromEvent, StartByHand, IInv, TypeOK, RunTypeOK
  <1>1. /\ OthersStay(r) /\ runs'[r].at = "gate" /\ runs'[r].step = "load"
    BY <1>0 DEF OthersStay, At
  <1>2. RunInv(r, env, runs')
    BY <1>1, FreshRun DEF GateInv
  <1>3. (sent > 0 \/ ~AllIdle) /\ sent' \in Nat /\ sent' <= sent
    BY <1>0 DEF StartFromEvent, StartByHand, AllIdle, At
  <1> QED BY <1>0, <1>1, <1>2, <1>3, RunMoves

LEMMA RunInvStep ==
    ASSUME IInv, NEW r \in Run, UNCHANGED creators,
           StartFromEvent(r) \/ StartByHand(r) \/ RunStep(r) \/ Cancel(r)
    PROVE  Inv'
  <1>1. CASE EnterJob(r)
    BY <1>1, StageStarts DEF EnterJob, PastGate
  <1>2. CASE Doctor(r)
    <2>1. PICK stage \in {"doctorFail", "harness", "recheck", "finalize", "done"}, d \in Completions :
              \/ runs' = [runs EXCEPT ![r] = At(stage)]
              \/ runs' = [runs EXCEPT ![r] = Reporting(stage, d)]
      BY <1>2 DEF Doctor, Completions, RetryableCompletions
    <2> QED BY <1>2, <2>1, StageStarts DEF Doctor, PastGate
  <1>3. CASE Phase(r)
    BY <1>3, StageStarts DEF Phase, PastGate
  <1>4. CASE Cancel(r)
    <2>1. CASE runs' = [runs EXCEPT ![r] = Reporting("done", "run_crash")] /\ runs[r].at # "idle"
      BY <1>4, <2>1, StageStarts DEF Cancel
    <2>2. CASE Finalized(runs[r].at) /\ \E result \in {"run_crash", "run_failed"} :
                   runs' = [runs EXCEPT ![r] = Reporting("finalize", result)]
      <3>1. PICK result \in {"run_crash", "run_failed"} :
                   runs' = [runs EXCEPT ![r] = Reporting("finalize", result)]
        BY <2>2
      <3> QED BY <1>4, <2>2, <3>1, StageStarts DEF Cancel, Finalized, PastGate
    <2> QED BY <1>4, <2>1, <2>2 DEF Cancel
  <1>5. CASE RunClaims(r)
    BY <1>5, ClaimLoadInv, ClaimCasInv, ClaimReloadInv, ClaimExpireInv DEF RunClaims
  <1>6. CASE RunAcks(r)
    BY <1>6, AckLoadInv, AckAttemptInv, AckConfirmInv DEF RunAcks
  <1>7. CASE RunEnds(r)
    BY <1>7, RunEndsInv
  <1> QED BY <1>1, <1>2, <1>3, <1>4, <1>5, <1>6, <1>7, StartsInv DEF RunStep

----------------------------------------------------------------------------
(* Runs that have not started put no condition on the envelope.            *)
LEMMA IdleRuns ==
    ASSUME AllIdle, UNCHANGED runs
    PROVE  AllIdle' /\ \A r \in Run : RunInv(r, env', runs')
  BY DEF AllIdle, RunInv, LoadedInv, SeenInv, GateInv, AckInv, At

(* A creator's step never disturbs a run.                                  *)
LEMMA CreatorKeeps ==
    ASSUME IInv, NEW c \in Creator, Create(c)
    PROVE  UNCHANGED runs /\ (env' # env => AllIdle)
  <1>1. IInv => (env.state = "absent" => AllIdle) /\ (ToDispatch(c) => AllIdle)
    BY DEF IInv, Inv, CreatorInv
  <1> QED BY <1>1
      DEF Create, CreatorLoad, CreatorCreate, CreatorAckAttempt, CreatorAckConfirm,
          CreatorDispatch, CreatorCrash, ToDispatch, runVars

LEMMA CreatorInvStep ==
    ASSUME IInv, NEW c \in Creator, Create(c)
    PROVE  Inv'
  <1>0. /\ creators \in [Creator -> [step : CreatorSteps, held : Envelopes]]
        /\ env \in Envelopes /\ sent \in Nat
    BY DEF IInv, TypeOK, RunTypeOK
  <1>1. UNCHANGED runs /\ (env' # env => AllIdle)
    BY CreatorKeeps
  <1>2. \A r \in Run : RunInv(r, env', runs')
    <2>1. CASE env' = env
      BY <1>1, <2>1 DEF IInv, Inv, RunInv, LoadedInv, SeenInv, GateInv, AckInv, Ended
    <2>2. CASE AllIdle
      BY <1>1, <2>2, IdleRuns
    <2> QED BY <1>1, <2>1, <2>2
  <1>3. CreatorInv
    BY DEF IInv, Inv
  <1>4. OwnerInv' /\ CreatorInv'
    <2>1. CASE CreatorLoad(c) \/ CreatorCrash(c)
      <3>1. /\ UNCHANGED <<env, sent, runs>>
            /\ \A d \in Creator : creators'[d] = creators[d]
                 \/ (d = c /\ creators'[d].step \in {"create", "done"})
        BY <1>0, <2>1 DEF CreatorLoad, CreatorCrash, runVars
      <3>2. OwnerInv'
        BY <3>1 DEF IInv, Inv, OwnerInv, Ended
      <3> QED BY <1>3, <3>1, <3>2 DEF CreatorInv, ToDispatch, AllIdle
    <2>2. CASE CreatorCreate(c) /\ ~UNCHANGED env
      <3>0. env.state = "absent"
        BY <2>2 DEF CreatorCreate
      <3>1. /\ env' = NewEnvelope /\ sent' = sent
            /\ \A d \in Creator \ {c} : creators'[d] = creators[d]
            /\ creators'[c].held = NewEnvelope
        BY <1>0, <2>2 DEF CreatorCreate
      <3>2. NewEnvelope.state = "pending" /\ NewEnvelope.claim = NoRun
        BY DEF NewEnvelope, NoEnvelope
      <3>3. sent = 0 /\ AllIdle /\ AllIdle' /\ \A d \in Creator : ~ToDispatch(d)
        BY <1>1, <1>3, <3>0, IdleRuns DEF CreatorInv
      <3>4. OwnerInv'
        BY <3>1, <3>2 DEF OwnerInv, Terminal
      <3>5. CreatorInv'
        BY <3>1, <3>2, <3>3 DEF CreatorInv, ToDispatch
      <3> QED BY <3>4, <3>5
    <2>3. CASE CreatorCreate(c) /\ UNCHANGED env
      <3>1. /\ UNCHANGED <<env, sent, runs>>
            /\ \A d \in Creator : creators'[d] = creators[d]
                 \/ (d = c /\ creators'[d].step = "done")
        <4>1. ~(env.state = "absent" /\ env' = NewEnvelope)
          BY <2>3 DEF NewEnvelope, NoEnvelope
        <4> QED BY <1>0, <2>3, <4>1 DEF CreatorCreate
      <3>2. OwnerInv'
        BY <3>1 DEF IInv, Inv, OwnerInv, Ended
      <3> QED BY <1>3, <3>1, <3>2 DEF CreatorInv, ToDispatch, AllIdle
    <2>4. CASE CreatorAckAttempt(c) \/ CreatorAckConfirm(c)
      <3>1. /\ env.state = "pending" /\ sent = 0 /\ AllIdle
            /\ \A d \in Creator \ {c} : ~ToDispatch(d)
            /\ creators[c].held.state = "pending" /\ creators[c].held.claim = NoRun
            /\ creators[c].held \in Envelopes
        BY <1>0, <1>3, <2>4 DEF CreatorInv, ToDispatch, CreatorAckAttempt, CreatorAckConfirm
      <3>2. \A ack : /\ AckPatched(creators[c].held, ack).state = "pending"
                     /\ AckPatched(creators[c].held, ack).claim = NoRun
        BY <3>1 DEF AckPatched, Envelopes
      <3>3. env.claim = NoRun
        BY <3>1 DEF IInv, Inv, OwnerInv
      <3>4. env'.state = "pending" /\ env'.claim = NoRun /\ sent' = sent
        BY <2>4, <3>1, <3>2, <3>3
        DEF CreatorAckAttempt, CreatorAckConfirm, CasWon, CasLost
      <3>5. /\ \A d \in Creator \ {c} : creators'[d] = creators[d]
            /\ creators'[c].step \in {"ackAttempt", "ackConfirm"} =>
                 creators'[c].held.state = "pending" /\ creators'[c].held.claim = NoRun
        BY <1>0, <2>4, <3>2 DEF CreatorAckAttempt, CreatorAckConfirm
      <3>6. AllIdle'
        BY <1>1, <3>1, IdleRuns
      <3>7. OwnerInv'
        BY <3>4 DEF OwnerInv, Terminal
      <3>8. CreatorInv'
        BY <3>1, <3>4, <3>5, <3>6 DEF CreatorInv, ToDispatch
      <3> QED BY <3>7, <3>8
    <2>5. CASE CreatorDispatch(c)
      <3>1. /\ env.state = "pending" /\ \A d \in Creator \ {c} : ~ToDispatch(d)
        BY <1>3, <2>5 DEF CreatorInv, ToDispatch, CreatorDispatch
      <3>2. /\ env' = env /\ creators'[c].step = "done"
            /\ \A d \in Creator \ {c} : creators'[d] = creators[d]
        BY <1>0, <2>5 DEF CreatorDispatch
      <3>3. OwnerInv'
        BY <1>1, <3>2 DEF IInv, Inv, OwnerInv, Ended
      <3>4. CreatorInv'
        BY <3>1, <3>2 DEF CreatorInv, ToDispatch
      <3> QED BY <3>3, <3>4
    <2> QED BY <2>1, <2>2, <2>3, <2>4, <2>5 DEF Create
  <1> QED BY <1>2, <1>4 DEF Inv

LEMMA InvNext ==
    ASSUME Reopener = {}
    PROVE  IInv /\ [Next]_vars => IInv'
  <1> SUFFICES ASSUME IInv, [Next]_vars PROVE Inv'
    BY NextTypes DEF IInv
  <1>1. ASSUME NEW c \in Creator, Create(c) PROVE Inv'
    BY <1>1, CreatorInvStep
  <1>2. ASSUME NEW r \in Run, Serve(r) PROVE Inv'
    BY <1>2, RunInvStep DEF Serve
  <1>3. CASE UNCHANGED <<env, sent, runs, creators>>
    BY <1>3 DEF IInv, Inv, RunInv, LoadedInv, SeenInv, GateInv, AckInv, Ended, OwnerInv,
                CreatorInv, ToDispatch, AllIdle
  <1> QED BY <1>1, <1>2, <1>3 DEF Next, Late, Expire, vars, runVars

(* Of all the runs started for an envelope, however many dispatches, hand- *)
(* started reruns, lost writes, cancellations and blind acknowledgements   *)
(* there are, only the one that claimed it gets past its first claim while *)
(* it is claimed (claim.ts, the workflow's claim steps).                   *)
THEOREM ExclusiveClaim ==
    ASSUME Reopener = {}
    PROVE  Spec => []ClaimExclusive
  <1>1. Init => IInv
    BY InitTypes, InvInit DEF IInv
  <1>2. IInv /\ [Next]_vars => IInv'
    BY InvNext
  <1>3. IInv => ClaimExclusive
    BY DEF IInv, Inv, RunInv, GateInv, ClaimExclusive, PastGate
  <1> QED BY <1>1, <1>2, <1>3, PTL DEF Spec

(* The writes of a run that end a claim: its last write, or the blind      *)
(* write of an acknowledgement, which only the owner is there to make.     *)
LEMMA RunEndsOwnClaim ==
    ASSUME IInv, NEW r \in Run, Serve(r), env.state = "claimed", Terminal(env')
    PROVE  env.claim = r /\ \A q \in Run \ {r} : runs'[q] = runs[q]
  <1>0. runs \in [Run -> RunRecords] /\ runs[r].seen \in Envelopes /\ UNCHANGED creators
    BY DEF IInv, TypeOK, RunTypeOK, RunRecords, Serve
  <1>1. env' # env
    BY DEF Terminal
  <1>2. CASE RunEnds(r)
    <2>1. env.claim = r
      BY <1>0, <1>2, RunEndsInv
    <2> QED BY <1>0, <1>2, <2>1
        DEF RunEnds, DoctorFailLoad, DoctorFailCas, TerminalizeLoad, TerminalizeCas
  <1>3. CASE RunAcks(r)
    <2>1. GateInv(r, env, runs) /\ runs[r].at = "ack"
      BY <1>3 DEF IInv, Inv, RunInv, RunAcks, AckLoad, AckAttempt, AckConfirm
    <2> QED BY <1>0, <1>3, <2>1 DEF GateInv, RunAcks, AckLoad, AckAttempt, AckConfirm
  <1>4. CASE RunClaims(r)
    <2>1. \/ env' = Claimed(runs[r].seen, r)
          \/ env' = Expired(runs[r].seen)
      BY <1>1, <1>4
      DEF RunClaims, ClaimLoad, ClaimCas, ClaimReload, ClaimExpire, CasWon, CasLost
    <2>2. env'.state \in {"claimed", "expired"}
      BY <1>0, <2>1 DEF Claimed, Expired, Envelopes
    <2> QED BY <2>2 DEF Terminal
  <1>5. CASE StartFromEvent(r) \/ StartByHand(r) \/ EnterJob(r) \/ Doctor(r) \/ Phase(r)
               \/ Cancel(r)
    BY <1>1, <1>5 DEF StartFromEvent, StartByHand, EnterJob, Doctor, Phase, Cancel
  <1> QED BY <1>2, <1>3, <1>4, <1>5 DEF Serve, RunStep

(* The envelope is completed or failed by the run whose claim it is, even  *)
(* though terminalize.ts does not ask.                                     *)
THEOREM ClaimEndedByOwner ==
    ASSUME Reopener = {}
    PROVE  Spec => OwnerTerminalizes
  <1> DEFINE Ends == env.state = "claimed" /\ Terminal(env') =>
                         \A r \in Run : runs'[r] # runs[r] => r = env.claim
  <1>1. Init => IInv
    BY InitTypes, InvInit DEF IInv
  <1>2. IInv /\ [Next]_vars => IInv'
    BY InvNext
  <1>3. IInv /\ [Next]_vars => [Ends]_vars
    <2> SUFFICES ASSUME IInv, Next PROVE Ends
      OBVIOUS
    <2>1. ASSUME NEW c \in Creator, Create(c) PROVE Ends
      BY <2>1, CreatorKeeps
    <2>2. ASSUME NEW r \in Run, Serve(r) PROVE Ends
      BY <2>2, RunEndsOwnClaim
    <2>3. CASE Late
      BY <2>3 DEF Late, Expire
    <2> QED BY <2>1, <2>2, <2>3 DEF Next
  <1> HIDE DEF Ends
  <1>4. Spec => [][Ends]_vars
    BY <1>1, <1>2, <1>3, PTL DEF Spec
  <1> QED BY <1>4 DEF Ends, OwnerTerminalizes

----------------------------------------------------------------------------
(* From here on: envelopes that ask for no acknowledgement, reopened or    *)
(* not.  Every writer then writes on a record it loaded itself.            *)
Results == Lifecycle!Successes \union Lifecycle!Failures

(* What a run holds is the stored record or out of date, and what it is to *)
(* report is known when it reports.                                        *)
Serves(r, e, rs) ==
    /\ LoadedInv(r, e, rs) /\ SeenInv(r, rs)
    /\ rs[r].step \in {"cas", "expire"} => e.state # "absent"
    /\ ~AckRequired /\ rs[r].at = "ack" => rs[r].step = "load"
    /\ rs[r].at \in {"finalize", "terminalize"} => rs[r].result \in Results

Reopens(p, e, ps) ==
    ps[p].step = "cas" =>
        /\ e.state # "absent" /\ FalseDuplicate(ps[p].held)
        /\ ps[p].held.rev <= e.rev
        /\ ps[p].held.rev = e.rev => ps[p].held = e

HeldInv ==
    /\ \A r \in Run : Serves(r, env, runs)
    /\ \A p \in Reopener : Reopens(p, env, reopeners)
    /\ env.state = "absent" => env = NoEnvelope

(* A write, on a record that is stored, and what EnvelopeLifecycle makes   *)
(* of it.                                                                  *)
Writes ==
    /\ env.state # "absent" /\ env'.state # "absent" /\ env'.rev = env.rev + 1
    /\ [Lifecycle!Next]_(Lifecycle!lifecycle)

Creates == env = NoEnvelope /\ env' = NewEnvelope

Changes == UNCHANGED env \/ Writes \/ Creates

LEMMA ChangesRefine ==
    ASSUME Changes
    PROVE  [Lifecycle!Next]_(Lifecycle!lifecycle)
  <1>1. CASE UNCHANGED env
    BY <1>1 DEF Lifecycle!lifecycle
  <1>2. CASE Creates
    BY <1>2 DEF Creates, NewEnvelope, NoEnvelope, Lifecycle!Next, Lifecycle!Create
  <1> QED BY <1>1, <1>2 DEF Changes, Writes

LEMMA Held ==
    ASSUME TypeOK
    PROVE  /\ env \in Envelopes /\ env.rev \in Nat /\ runs \in [Run -> RunRecords]
           /\ \A r \in Run : runs[r].seen \in Envelopes /\ runs[r].seen.rev \in Nat
           /\ \A p \in Reopener : reopeners[p].held \in Envelopes /\ reopeners[p].held.rev \in Nat
  BY DEF TypeOK, RunTypeOK, RunRecords, Envelopes

(* A run that stays, or stops, while the envelope changes.                 *)
LEMMA RunStays ==
    ASSUME TypeOK, NEW q \in Run, Serves(q, env, runs), Changes,
           runs'[q] = runs[q] \/ runs'[q] = At("done")
    PROVE  Serves(q, env', runs')
  <1>1. CASE runs'[q] = At("done")
    BY <1>1 DEF Serves, LoadedInv, SeenInv, At
  <1>2. CASE runs'[q] = runs[q]
    <2>1. runs[q].step \in {"cas", "expire"} =>
              /\ env'.state # "absent"
              /\ runs[q].seen.rev <= env'.rev
              /\ runs[q].seen.rev = env'.rev => runs[q].seen = env'
      BY Held DEF Serves, LoadedInv, Changes, Writes, Creates, NoEnvelope
    <2> QED BY <1>2, <2>1 DEF Serves, LoadedInv, SeenInv
  <1> QED BY <1>1, <1>2

LEMMA ReopenerStays ==
    ASSUME TypeOK, NEW p \in Reopener, Reopens(p, env, reopeners), Changes,
           reopeners'[p] = reopeners[p]
    PROVE  Reopens(p, env', reopeners')
  BY Held DEF Reopens, Changes, Writes, Creates, NoEnvelope

(* A run that begins a stage needs only a result where it reports one.     *)
LEMMA Begins ==
    ASSUME NEW r, NEW e, NEW rs, rs[r].step = "load",
           rs[r].at \in {"finalize", "terminalize"} => rs[r].result \in Results
    PROVE  Serves(r, e, rs)
  BY DEF Serves, LoadedInv, SeenInv

LEMMA ClaimBegins ==
    ASSUME TypeOK, NEW r \in Run, Serves(r, env, runs), runs[r].at \in ClaimStages,
           Proceed(r) \/ Reject(r)
    PROVE  OthersStay(r) /\ Serves(r, env', runs')
  <1>1. runs \in [Run -> RunRecords] /\ OthersStay(r) /\ runs'[r].step = "load"
    BY Held, ClaimEnds
  <1>2. CASE Reject(r)
    <2>1. "run_crash" \in Results
      BY DEF Results, Lifecycle!Failures, Lifecycle!RetryableCompletions
    <2>2. runs'[r].at \in {"finalize", "terminalize"} => runs'[r].result = "run_crash"
      BY <1>1, <1>2 DEF Reject, Reporting, At
    <2> QED BY <1>1, <2>1, <2>2, Begins
  <1>3. CASE Proceed(r)
    <2>1. PICK stage \in Next1(runs[r].at) :
              runs' = Moved(r, Reporting(stage, runs[r].result))
      BY <1>3 DEF Proceed
    <2>2. runs'[r].at = stage /\ runs'[r].result = runs[r].result
      BY <1>1, <2>1 DEF Moved, Reporting, At
    <2>3. stage \in {"finalize", "terminalize"} => runs[r].at = "finalize"
      BY <2>1 DEF Next1, ClaimStages
    <2>4. runs'[r].at \in {"finalize", "terminalize"} => runs'[r].result \in Results
      BY <2>2, <2>3 DEF Serves
    <2> QED BY <1>1, <2>4, Begins
  <1> QED BY <1>2, <1>3

(* A run's write lands on the record it holds.                             *)
LEMMA WonOnHeld ==
    ASSUME NEW r \in Run, Serves(r, env, runs), runs[r].step \in {"cas", "expire"},
           NEW next, CasWon(runs[r].seen, next)
    PROVE  runs[r].seen = env /\ env.state # "absent" /\ env' = next
  BY DEF CasWon, CasMatches, Serves, LoadedInv

(* The next-record functions of a run take steps of EnvelopeLifecycle.     *)
LEMMA WritesOf ==
    ASSUME TypeOK, env.state # "absent", NEW r \in Run
    PROVE  /\ env.state = "pending" /\ env' = Claimed(env, r) => Writes
           /\ env' = Expired(env) => Writes
           /\ \A s, d : /\ env.state = "claimed" /\ env' = Terminalized(env, s, d)
                        /\ \/ s = "completed" /\ d \in Lifecycle!Successes
                           \/ s = "failed" /\ d \in Lifecycle!Failures
                        => Writes
  <1>0. env \in Envelopes
    BY Held
  <1>1. ASSUME env.state = "pending", env' = Claimed(env, r) PROVE Writes
    <2>1. Lifecycle!Claim(r)
      BY <1>0, <1>1 DEF Claimed, Envelopes, Lifecycle!Claim
    <2> QED BY <1>0, <1>1, <2>1 DEF Writes, Claimed, Envelopes, Lifecycle!Next
  <1>2. ASSUME env' = Expired(env) PROVE Writes
    <2>1. env'.state = "expired" /\ env'.claim = env.claim /\ env'.done = env.done
              /\ env'.rev = env.rev + 1
      BY <1>0, <1>2 DEF Expired, Envelopes
    <2> QED BY <2>1 DEF Writes, Lifecycle!Next, Lifecycle!Expire, Lifecycle!lifecycle
  <1>3. ASSUME NEW s, NEW d, env.state = "claimed", env' = Terminalized(env, s, d),
               \/ s = "completed" /\ d \in Lifecycle!Successes
               \/ s = "failed" /\ d \in Lifecycle!Failures
        PROVE  Writes
    <2>1. /\ env'.state = s /\ env'.claim = env.claim /\ env'.done = d
          /\ env'.rev = env.rev + 1
      BY <1>0, <1>3 DEF Terminalized, Envelopes
    <2> QED BY <1>3, <2>1 DEF Writes, Lifecycle!Next, Lifecycle!Complete, Lifecycle!Fail
  <1> QED BY <1>1, <1>2, <1>3

(* A run's step changes the envelope by one write or not at all, and what  *)
(* it holds afterwards is as HeldInv says.                                 *)
LEMMA RunServes ==
    ASSUME TypeOK, NEW r \in Run, Serves(r, env, runs), RunStep(r),
           RunAcks(r) => ~AckRequired
    PROVE  (UNCHANGED env \/ Writes) /\ OthersStay(r) /\ Serves(r, env', runs')
  <1> DEFINE Kept == UNCHANGED env \/ Writes
  <1>0. /\ runs \in [Run -> RunRecords] /\ runs[r] \in RunRecords
        /\ env \in Envelopes /\ env.rev \in Nat
    BY Held
  <1>a. ASSUME NEW stage \in {"start", "doctorFail", "recheck", "harness", "phase", "done"},
               runs' = [runs EXCEPT ![r] = At(stage)]
        PROVE  OthersStay(r) /\ Serves(r, env', runs')
    <2>1. runs'[r].at = stage /\ runs'[r].step = "load"
      BY <1>0, <1>a DEF At
    <2> QED BY <1>0, <1>a, <2>1, Begins DEF OthersStay
  <1>d. ASSUME NEW stage, NEW d \in Results,
               runs' = [runs EXCEPT ![r] = Reporting(stage, d)]
        PROVE  OthersStay(r) /\ Serves(r, env', runs')
    <2>1. runs'[r].step = "load" /\ runs'[r].result = d
      BY <1>0, <1>d DEF Reporting, At
    <2> QED BY <1>0, <1>d, <2>1, Begins DEF OthersStay
  <1>e. ASSUME NEW stage \in {"doctorFail", "done"}, NEW d,
               runs' = [runs EXCEPT ![r] = Reporting(stage, d)]
        PROVE  OthersStay(r) /\ Serves(r, env', runs')
    <2>1. runs'[r].at = stage /\ runs'[r].step = "load"
      BY <1>0, <1>e DEF Reporting, At
    <2> QED BY <1>0, <1>e, <2>1, Begins DEF OthersStay
  <1>b. ASSUME NEW step \in {"cas", "expire"},
               runs' = [runs EXCEPT ![r] = [runs[r] EXCEPT !.step = step, !.seen = env]],
               env.state # "absent", UNCHANGED env, runs[r].at # "ack",
               step = "cas" /\ runs[r].at \in ClaimStages => env.state = "pending",
               step = "cas" /\ runs[r].at \in {"doctorFail", "terminalize"} => env.state = "claimed"
        PROVE  OthersStay(r) /\ Serves(r, env', runs')
    <2>1. /\ runs'[r].at = runs[r].at /\ runs'[r].step = step /\ runs'[r].seen = env
          /\ runs'[r].result = runs[r].result
          /\ \A q \in Run \ {r} : runs'[q] = runs[q]
      BY <1>0, <1>b DEF RunRecords
    <2> QED BY <1>0, <1>b, <2>1 DEF Serves, LoadedInv, SeenInv, OthersStay
  <1>c. "run_crash" \in Results /\ {"verified_complete", "duplicate_phase_completed",
            "run_crash", "run_failed", "doctor_checks_failed"} \subseteq Results
    BY DEF Results, Lifecycle!Successes, Lifecycle!Failures,
           Lifecycle!RetryableCompletions, Lifecycle!FalseDuplicateCompletions
  <1>1. CASE EnterJob(r)
    BY <1>1, <1>a DEF EnterJob
  <1>2. CASE ClaimLoad(r)
    <2>1. runs[r].at \in ClaimStages /\ runs[r].at # "ack" /\ UNCHANGED env
      BY <1>2 DEF ClaimLoad, ClaimStages
    <2>2. CASE Proceed(r) \/ Reject(r)
      BY <2>1, <2>2, ClaimBegins
    <2>3. CASE \E step \in {"cas", "expire"} :
                 /\ runs' = [runs EXCEPT ![r].step = step, ![r].seen = env]
                 /\ env.state # "absent" /\ (step = "cas" => env.state = "pending")
      <3>1. runs[r].at \notin {"doctorFail", "terminalize"}
        BY <2>1 DEF ClaimStages
      <3> QED BY <2>1, <2>3, <3>1, <1>b
    <2> QED BY <1>2, <2>2, <2>3 DEF ClaimLoad
  <1>3. CASE ClaimCas(r)
    <2>0. runs[r].at \in ClaimStages /\ runs[r].step = "cas" /\ runs[r].seen.state = "pending"
      BY <1>3 DEF ClaimCas, Serves, SeenInv
    <2>1. CASE CasWon(runs[r].seen, Claimed(runs[r].seen, r)) /\ Proceed(r)
      <3>1. Writes
        BY <2>0, <2>1, WonOnHeld, WritesOf
      <3> QED BY <2>0, <2>1, <3>1, ClaimBegins
    <2>2. CASE UNCHANGED env /\ runs' = [runs EXCEPT ![r].step = "reload", ![r].seen = NoEnvelope]
      <3>1. /\ runs'[r].at = runs[r].at /\ runs'[r].step = "reload"
            /\ runs'[r].result = runs[r].result
            /\ \A q \in Run \ {r} : runs'[q] = runs[q]
        BY <1>0, <2>2 DEF RunRecords
      <3>2. runs[r].at # "ack"
        BY <2>0 DEF ClaimStages
      <3> QED BY <2>2, <3>1, <3>2 DEF Serves, LoadedInv, SeenInv, OthersStay
    <2> QED BY <1>3, <2>1, <2>2 DEF ClaimCas, CasLost
  <1>4. CASE ClaimReload(r)
    BY <1>4, ClaimBegins DEF ClaimReload
  <1>5. CASE ClaimExpire(r)
    <2>1. Kept
      BY <1>5, WonOnHeld, WritesOf DEF ClaimExpire, CasLost
    <2> QED BY <1>5, <2>1, ClaimBegins DEF ClaimExpire
  <1>6. CASE Doctor(r)
    <2>1. PICK next \in {Reporting("doctorFail", "doctor_checks_failed"), At("harness"),
                         At("recheck"), Reporting("finalize", "run_crash"), At("done")} :
              runs' = [runs EXCEPT ![r] = next]
      BY <1>6 DEF Doctor
    <2> QED BY <1>6, <2>1, <1>a, <1>c, <1>d, <1>e DEF Doctor
  <1>7. CASE DoctorFailLoad(r) \/ TerminalizeLoad(r)
    <2>1. UNCHANGED env /\ runs[r].at \in {"doctorFail", "terminalize"}
      BY <1>7 DEF DoctorFailLoad, TerminalizeLoad
    <2>2. CASE env.state = "claimed"
      <3>1. runs' = [runs EXCEPT ![r] = [@ EXCEPT !.step = "cas", !.seen = env]]
        BY <1>7, <2>2 DEF DoctorFailLoad, TerminalizeLoad
      <3> QED BY <2>1, <2>2, <3>1, <1>b DEF ClaimStages
    <2>3. CASE env.state # "claimed"
      <3>1. runs' = [runs EXCEPT ![r] = At("done")]
        BY <1>7, <2>3 DEF DoctorFailLoad, TerminalizeLoad
      <3> QED BY <2>1, <3>1, <1>a
    <2> QED BY <2>2, <2>3
  <1>8. CASE DoctorFailCas(r)
    <2>0. runs[r].step = "cas" /\ runs[r].seen.state = "claimed"
      BY <1>8 DEF DoctorFailCas, Serves, SeenInv
    <2>1. Kept
      <3>1. "doctor_checks_failed" \in Lifecycle!Failures
        BY DEF Lifecycle!Failures, Lifecycle!RetryableCompletions
      <3>2. \/ CasWon(runs[r].seen, Terminalized(runs[r].seen, "failed", "doctor_checks_failed"))
            \/ UNCHANGED env
        BY <1>8 DEF DoctorFailCas, CasLost
      <3> QED BY <2>0, <3>1, <3>2, WonOnHeld, WritesOf
    <2>2. OthersStay(r) /\ Serves(r, env', runs')
      BY <1>8, <1>c, <1>d, <1>e DEF DoctorFailCas
    <2> QED BY <2>1, <2>2
  <1>9. CASE TerminalizeCas(r)
    <2>0. /\ runs[r].step = "cas" /\ runs[r].seen.state = "claimed"
          /\ runs[r].result \in Results
      BY <1>9 DEF TerminalizeCas, Serves, SeenInv
    <2>1. Kept
      <3> DEFINE result == runs[r].result
                 state == IF result \in {"verified_complete", "duplicate_phase_completed"}
                            THEN "completed" ELSE "failed"
      <3>1. \/ state = "completed" /\ result \in Lifecycle!Successes
            \/ state = "failed" /\ result \in Lifecycle!Failures
        BY <2>0 DEF Results, Lifecycle!Successes, Lifecycle!Failures,
                    Lifecycle!RetryableCompletions, Lifecycle!FalseDuplicateCompletions
      <3>2. CasWon(runs[r].seen, Terminalized(runs[r].seen, state, result)) \/ UNCHANGED env
        BY <1>9 DEF TerminalizeCas, CasLost
      <3> HIDE DEF result, state
      <3> QED BY <2>0, <3>1, <3>2, WonOnHeld, WritesOf
    <2>2. OthersStay(r) /\ Serves(r, env', runs')
      BY <1>9, <1>a, <1>e DEF TerminalizeCas
    <2> QED BY <2>1, <2>2
  <1>10. CASE RunAcks(r)
    <2>1. UNCHANGED env /\ runs' = [runs EXCEPT ![r] = At("phase")]
      BY <1>10 DEF RunAcks, AckLoad, AckAttempt, AckConfirm, Serves
    <2> QED BY <2>1, <1>a
  <1>11. CASE Phase(r)
    BY <1>11, <1>c, <1>d DEF Phase
  <1> QED
    BY <1>1, <1>2, <1>3, <1>4, <1>5, <1>6, <1>7, <1>8, <1>9, <1>10, <1>11
    DEF RunStep, RunClaims, RunEnds

(* So do a run's start and its end.                                        *)
LEMMA RunTurns ==
    ASSUME TypeOK, NEW r \in Run, StartFromEvent(r) \/ StartByHand(r) \/ Cancel(r)
    PROVE  UNCHANGED env /\ OthersStay(r) /\ Serves(r, env', runs')
  <1>0. runs \in [Run -> RunRecords]
    BY Held
  <1>1. runs'[r].step = "load" /\ OthersStay(r)
    BY <1>0 DEF StartFromEvent, StartByHand, Cancel, Reporting, At, OthersStay
  <1>2. runs'[r].at \in {"finalize", "terminalize"} => runs'[r].result \in {"run_crash", "run_failed"}
    BY <1>0 DEF StartFromEvent, StartByHand, Cancel, Reporting, At
  <1>3. {"run_crash", "run_failed"} \subseteq Results
    BY DEF Results, Lifecycle!Failures, Lifecycle!RetryableCompletions
  <1> QED BY <1>1, <1>2, <1>3, Begins DEF StartFromEvent, StartByHand, Cancel

LEMMA HeldInit == Init => HeldInv
  BY DEF Init, RunInit, HeldInv, Serves, Reopens, LoadedInv, SeenInv, At, NoEnvelope

LEMMA HeldServe ==
    ASSUME ~AckRequired, TypeOK, HeldInv, NEW r \in Run, Serve(r)
    PROVE  Changes /\ HeldInv'
  <1>1. /\ UNCHANGED env \/ Writes
        /\ OthersStay(r) /\ Serves(r, env', runs')
    BY RunServes, RunTurns DEF Serve, HeldInv
  <1>2. \A q \in Run : Serves(q, env', runs')
    BY <1>1, RunStays DEF HeldInv, OthersStay, Changes
  <1>3. \A p \in Reopener : Reopens(p, env', reopeners')
    BY <1>1, ReopenerStays DEF HeldInv, Serve, Changes
  <1> QED BY <1>1, <1>2, <1>3 DEF HeldInv, Changes, Writes

LEMMA HeldCreate ==
    ASSUME ~AckRequired, TypeOK, HeldInv, NEW c \in Creator, Create(c),
           \A d \in Creator : creators[d].step \notin {"ackAttempt", "ackConfirm"}
    PROVE  /\ Changes /\ HeldInv'
           /\ \A d \in Creator : creators'[d].step \notin {"ackAttempt", "ackConfirm"}
  <1>0. creators \in [Creator -> [step : CreatorSteps, held : Envelopes]]
    BY DEF TypeOK
  <1>1. Changes /\ UNCHANGED <<runs, reopeners>>
    BY DEF Create, CreatorLoad, CreatorCreate, CreatorAckAttempt, CreatorAckConfirm,
           CreatorDispatch, CreatorCrash, runVars, Changes, Creates, HeldInv
  <1>2. HeldInv'
    <2>1. \A q \in Run : Serves(q, env', runs')
      BY <1>1, RunStays DEF HeldInv
    <2>2. \A p \in Reopener : Reopens(p, env', reopeners')
      BY <1>1, ReopenerStays DEF HeldInv
    <2> QED BY <1>1, <2>1, <2>2 DEF HeldInv, Changes, Writes, Creates, NewEnvelope, NoEnvelope
  <1>3. \A d \in Creator : creators'[d].step \notin {"ackAttempt", "ackConfirm"}
    BY <1>0 DEF Create, CreatorLoad, CreatorCreate, CreatorAckAttempt, CreatorAckConfirm,
                CreatorDispatch, CreatorCrash
  <1> QED BY <1>1, <1>2, <1>3

(* Only what may be undone is reopened, since the record that was judged   *)
(* is the one the write lands on.                                          *)
LEMMA HeldReopen ==
    ASSUME TypeOK, HeldInv, NEW p \in Reopener, Reopen(p)
    PROVE  Changes /\ HeldInv'
  <1>0. /\ reopeners \in [Reopener -> [step : ReopenerSteps, held : Envelopes]]
        /\ env \in Envelopes /\ env.rev \in Nat /\ Reopens(p, env, reopeners)
        /\ UNCHANGED runs
    BY Held DEF TypeOK, HeldInv, Reopen, ReopenLoad, ReopenCas, ReopenRedispatch, ReopenCrash, runVars
  <1>1. UNCHANGED env \/ Writes
    <2>1. CASE ReopenCas(p) /\ env' # env
      <3>1. env' = Reopened(env) /\ FalseDuplicate(env) /\ env.state # "absent"
        BY <1>0, <2>1 DEF ReopenCas, CasWon, CasLost, CasMatches, Reopens
      <3>2. /\ env'.state = "pending" /\ env'.claim = NoRun /\ env'.done = "none"
            /\ env'.rev = env.rev + 1
        BY <1>0, <3>1 DEF Reopened, Envelopes
      <3> QED BY <3>1, <3>2 
        DEF Writes, FalseDuplicate, FalseDuplicateCompletions, Lifecycle!Next,
            Lifecycle!Reopen, Lifecycle!FalseDuplicateCompletions
    <2> QED BY <2>1 DEF Reopen, ReopenLoad, ReopenRedispatch, ReopenCrash, runVars
  <1>2. Reopens(p, env', reopeners')
    <2>1. CASE ReopenLoad(p)
      BY <1>0, <2>1 DEF ReopenLoad, Reopens, runVars
    <2>2. CASE ~ReopenLoad(p)
      <3>1. reopeners'[p].step # "cas"
        BY <1>0, <2>2 DEF Reopen, ReopenCas, ReopenRedispatch, ReopenCrash
      <3> QED BY <3>1 DEF Reopens
    <2> QED BY <2>1, <2>2
  <1>3. \A q \in Reopener \ {p} : reopeners'[q] = reopeners[q]
    BY <1>0 DEF Reopen, ReopenLoad, ReopenCas, ReopenRedispatch, ReopenCrash
  <1>4. \A q \in Reopener : Reopens(q, env', reopeners')
    BY <1>1, <1>2, <1>3, ReopenerStays DEF HeldInv, Changes
  <1>5. \A q \in Run : Serves(q, env', runs')
    BY <1>0, <1>1, RunStays DEF HeldInv, Changes
  <1> QED BY <1>1, <1>4, <1>5 DEF HeldInv, Changes, Writes

NoAcks == \A c \in Creator : creators[c].step \notin {"ackAttempt", "ackConfirm"}

LEMMA HeldNext ==
    ASSUME ~AckRequired
    PROVE  TypeOK /\ HeldInv /\ NoAcks /\ [Next]_vars => Changes /\ HeldInv' /\ NoAcks'
  <1> SUFFICES ASSUME TypeOK, HeldInv, NoAcks, [Next]_vars
               PROVE  Changes /\ HeldInv' /\ NoAcks'
    OBVIOUS
  <1>1. ASSUME NEW c \in Creator, Create(c) PROVE Changes /\ HeldInv' /\ NoAcks'
    BY <1>1, HeldCreate DEF NoAcks
  <1>2. ASSUME NEW p \in Reopener, Reopen(p) PROVE Changes /\ HeldInv' /\ NoAcks'
    <2>1. UNCHANGED creators
      BY <1>2 DEF Reopen, ReopenLoad, ReopenCas, ReopenRedispatch, ReopenCrash
    <2> QED BY <1>2, <2>1, HeldReopen DEF NoAcks
  <1>3. ASSUME NEW r \in Run, Serve(r) PROVE Changes /\ HeldInv' /\ NoAcks'
    BY <1>3, HeldServe DEF NoAcks, Serve
  <1>4. CASE UNCHANGED <<env, runs, creators, reopeners>>
    BY <1>4 DEF Changes, HeldInv, NoAcks, Serves, Reopens, LoadedInv, SeenInv
  <1> QED BY <1>1, <1>2, <1>3, <1>4 DEF Next, Late, Expire, vars, runVars

(* However claims, crashes, lost writes, expiry and reopenings interleave, *)
(* the stored envelope takes only the steps of EnvelopeLifecycle: verified *)
(* work is never reopened, a claim never replaced or erased, and nothing   *)
(* leaves `expired` (compareAndSet, claim.ts, reopenFalseDuplicate...).    *)
THEOREM Implements ==
    ASSUME ~AckRequired
    PROVE  Spec => ImplementsLifecycle
  <1>1. Init => Lifecycle!Init
    BY DEF Init, RunInit, NoEnvelope, Lifecycle!Init
  <1>2. Init => TypeOK /\ HeldInv /\ NoAcks
    BY InitTypes, HeldInit DEF Init, NoAcks
  <1>3. TypeOK /\ [Next]_vars => TypeOK'
    BY NextTypes
  <1>4. TypeOK /\ HeldInv /\ NoAcks /\ [Next]_vars => HeldInv' /\ NoAcks'
    BY HeldNext
  <1>5. TypeOK /\ HeldInv /\ NoAcks /\ [Next]_vars => [Lifecycle!Next]_(Lifecycle!lifecycle)
    BY HeldNext, ChangesRefine
  <1> QED BY <1>1, <1>2, <1>3, <1>4, <1>5, PTL DEF Spec, ImplementsLifecycle, Lifecycle!Spec

----------------------------------------------------------------------------
(* From here on: envelopes that are never reopened, acknowledged or not.   *)
(* The blind write of an acknowledgement is then numbered from a record    *)
(* that says of the envelope what is still true, but for its expiry.       *)

(* What an envelope was when it expired, once it had been claimed.         *)
Ending(d) ==
    CASE d = "none"                 -> "claimed"
      [] d \in Lifecycle!Successes  -> "completed"
      [] OTHER                      -> "failed"

ExpiryUndone ==
    /\ env.state = "expired" /\ env'.state = Ending(env.done)
    /\ UNCHANGED <<env.claim, env.done>>

(* What the stored envelope does when nobody reopens it: the steps of      *)
(* EnvelopeLifecycle, and that an acknowledgement writes over an expiry    *)
(* what the envelope was before it (acknowledge.ts).                       *)
AcknowledgedLifecycle ==
    [][Lifecycle!Next \/ ExpiryUndone]_(Lifecycle!lifecycle)

EndInv ==
    /\ env.state \in {"absent", "pending"} => env.done = "none"
    /\ env.state \in {"claimed", "completed", "failed"} => env.state = Ending(env.done)

(* A run that got past the gate without the claim found the work done, and *)
(* what an acknowledging run holds was so when it loaded it.               *)
DoneInv(r, e, rs) ==
    /\ rs[r].at \notin {"idle", "gate", "done"} /\ e.claim # r => e.done # "none"
    /\ rs[r].at = "ack" /\ rs[r].step # "load" =>
         rs[r].seen.done = e.done /\ rs[r].seen.state \in {"expired", Ending(e.done)}

AckedInv ==
    /\ IInv /\ EndInv
    /\ \A r \in Run : Serves(r, env, runs) /\ DoneInv(r, env, runs)
    /\ \A c \in Creator : creators[c].step \in {"ackAttempt", "ackConfirm"} =>
         creators[c].held.done = "none"

(* One step of AcknowledgedLifecycle.                                      *)
AckedStep == [Lifecycle!Next \/ ExpiryUndone]_(Lifecycle!lifecycle)

LEMMA EndStays ==
    ASSUME EndInv, [Lifecycle!Next]_(Lifecycle!lifecycle)
    PROVE  EndInv'
  <1> USE DEF EndInv, Ending, Lifecycle!Successes, Lifecycle!Failures,
              Lifecycle!RetryableCompletions, Lifecycle!FalseDuplicateCompletions
  <1>1. CASE UNCHANGED Lifecycle!lifecycle
    BY <1>1 DEF Lifecycle!lifecycle
  <1>2. CASE Lifecycle!Create \/ (\E r \in Run : Lifecycle!Claim(r)) \/ Lifecycle!Reopen \/ Lifecycle!Expire
    BY <1>2 DEF Lifecycle!Create, Lifecycle!Claim, Lifecycle!Reopen, Lifecycle!Expire
  <1>3. CASE Lifecycle!Complete
    BY <1>3 DEF Lifecycle!Complete
  <1>4. CASE Lifecycle!Fail
    BY <1>4 DEF Lifecycle!Fail
  <1> QED BY <1>1, <1>2, <1>3, <1>4 DEF Lifecycle!Next

(* A run that is and stays past the gate without the claim.                *)
LEMMA GateDone ==
    ASSUME IInv, IInv', NEW q \in Run, DoneInv(q, env, runs), PastGate(q),
           runs'[q].at \notin {"idle", "gate", "done"}, env'.claim # q,
           [Lifecycle!Next]_(Lifecycle!lifecycle)
    PROVE  env'.done # "none"
  <1>0. GateInv(q, env, runs) /\ GateInv(q, env', runs')
    BY DEF IInv, Inv, RunInv
  <1>1. env.state \notin {"absent", "pending"} /\ env'.state # "pending"
    BY <1>0 DEF GateInv, PastGate
  <1>2. CASE UNCHANGED Lifecycle!lifecycle \/ Lifecycle!Expire
    BY <1>2 DEF DoneInv, PastGate, Lifecycle!lifecycle, Lifecycle!Expire
  <1>3. CASE Lifecycle!Complete \/ Lifecycle!Fail
    BY <1>3 DEF Lifecycle!Complete, Lifecycle!Fail, Lifecycle!Successes, Lifecycle!Failures,
                Lifecycle!RetryableCompletions, Lifecycle!FalseDuplicateCompletions
  <1> QED
    BY <1>1, <1>2, <1>3
    DEF Lifecycle!Next, Lifecycle!Create, Lifecycle!Claim, Lifecycle!Reopen

(* A run that is past the gate when the envelope takes a step.             *)
LEMMA DoneStays ==
    ASSUME IInv, IInv', EndInv, NEW q \in Run, DoneInv(q, env, runs), runs'[q] = runs[q],
           [Lifecycle!Next]_(Lifecycle!lifecycle)
    PROVE  DoneInv(q, env', runs')
  <1> SUFFICES ASSUME PastGate(q) PROVE DoneInv(q, env', runs')
    BY DEF DoneInv, PastGate
  <1>0. /\ GateInv(q, env, runs) /\ GateInv(q, env', runs') /\ OwnerInv'
        /\ AckInv(q, env, runs)
    BY DEF IInv, Inv, RunInv
  <1>1. env.state \notin {"absent", "pending"} /\ env'.state # "pending"
    BY <1>0 DEF GateInv, PastGate
  <1>2. CASE UNCHANGED Lifecycle!lifecycle \/ Lifecycle!Expire
    BY <1>2 DEF DoneInv, Lifecycle!lifecycle, Lifecycle!Expire
  <1>3. CASE Lifecycle!Complete \/ Lifecycle!Fail
    <2>1. /\ env.state = "claimed" /\ Terminal(env') /\ env'.claim = env.claim
          /\ env'.done # "none"
      BY <1>3 DEF Lifecycle!Complete, Lifecycle!Fail, Terminal, Lifecycle!Successes,
                  Lifecycle!Failures, Lifecycle!RetryableCompletions,
                  Lifecycle!FalseDuplicateCompletions
    <2>2. env.claim = q
      BY <1>0, <2>1 DEF GateInv, PastGate
    <2>3. Ended(env', runs')
      BY <1>0, <2>1 DEF OwnerInv
    <2>4. runs'[q].at # "ack"
      BY <2>1, <2>2, <2>3 DEF Ended
    <2> QED BY <2>1, <2>4 DEF DoneInv
  <1> QED
    BY <1>1, <1>2, <1>3
    DEF Lifecycle!Next, Lifecycle!Create, Lifecycle!Claim, Lifecycle!Reopen

(* A run passes the gate with the claim, or finds the work done.           *)
LEMMA PassesGate ==
    ASSUME TypeOK, NEW r \in Run, ~PastGate(r), RunStep(r), runs'[r].at \notin {"idle", "gate", "done"}
    PROVE  env'.claim = r \/ (UNCHANGED env /\ Terminal(env))
  <1>0. runs \in [Run -> RunRecords] /\ runs[r].seen \in Envelopes
    BY Held
  <1>1. runs[r].at = "gate" /\ RunClaims(r)
    BY DEF PastGate, RunStep, EnterJob, RunClaims, ClaimLoad, ClaimCas, ClaimReload, ClaimExpire,
           ClaimStages, Doctor, RunAcks, AckLoad, AckAttempt, AckConfirm, Phase, RunEnds,
           DoctorFailLoad, DoctorFailCas, TerminalizeLoad, TerminalizeCas
  <1>2. Reject(r) => runs'[r].at = "done"
    BY <1>0, <1>1 DEF Reject, Finalized, Reporting, At
  <1>3. CASE ClaimLoad(r)
    <2>1. \A step : runs' = [runs EXCEPT ![r].step = step, ![r].seen = env] => runs'[r].at = "gate"
      BY <1>0, <1>1 DEF RunRecords
    <2> QED BY <1>2, <1>3, <2>1 DEF ClaimLoad
  <1>4. CASE ClaimCas(r)
    <2>1. runs' = [runs EXCEPT ![r].step = "reload", ![r].seen = NoEnvelope] => runs'[r].at = "gate"
      BY <1>0, <1>1 DEF RunRecords
    <2>2. Claimed(runs[r].seen, r).claim = r
      BY <1>0 DEF Claimed, Envelopes
    <2> QED BY <1>4, <2>1, <2>2 DEF ClaimCas, CasWon
  <1>5. CASE ClaimReload(r) \/ ClaimExpire(r)
    BY <1>2, <1>5 DEF ClaimReload, ClaimExpire
  <1> QED BY <1>1, <1>3, <1>4, <1>5 DEF RunClaims

(* No step but an acknowledgement's leaves a run in the middle of one.     *)
LEMMA AckBegins ==
    ASSUME TypeOK, NEW r \in Run, RunStep(r) \/ StartFromEvent(r) \/ StartByHand(r) \/ Cancel(r),
           ~RunAcks(r), runs'[r].at = "ack"
    PROVE  runs'[r].step = "load"
  <1>0. runs \in [Run -> RunRecords]
    BY Held
  <1>1. CASE RunClaims(r)
    <2>1. runs[r].at \in ClaimStages /\ runs[r].at # "ack"
      BY <1>1 DEF RunClaims, ClaimLoad, ClaimCas, ClaimReload, ClaimExpire, ClaimStages
    <2>2. Proceed(r) \/ Reject(r) => runs'[r].step = "load"
      BY <2>1, ClaimEnds
    <2>3. \A step, e : runs' = [runs EXCEPT ![r].step = step, ![r].seen = e] => runs'[r].at # "ack"
      BY <1>0, <2>1 DEF RunRecords
    <2> QED BY <1>1, <2>2, <2>3 DEF RunClaims, ClaimLoad, ClaimCas, ClaimReload, ClaimExpire
  <1>2. CASE RunEnds(r)
    <2>1. runs[r].at \in {"doctorFail", "terminalize"}
      BY <1>2 DEF RunEnds, DoctorFailLoad, DoctorFailCas, TerminalizeLoad, TerminalizeCas
    <2>2. \A e : runs' = [runs EXCEPT ![r] = [@ EXCEPT !.step = "cas", !.seen = e]]
                   => runs'[r].at # "ack"
      BY <1>0, <2>1 DEF RunRecords
    <2>3. \A stage, d : \/ runs' = [runs EXCEPT ![r] = At(stage)]
                        \/ runs' = [runs EXCEPT ![r] = Reporting(stage, d)]
                       => runs'[r].step = "load"
      BY <1>0 DEF Reporting, At
    <2>4. CASE DoctorFailLoad(r) \/ TerminalizeLoad(r)
      BY <2>2, <2>3, <2>4 DEF DoctorFailLoad, TerminalizeLoad
    <2>5. CASE DoctorFailCas(r) \/ TerminalizeCas(r)
      BY <2>3, <2>5 DEF DoctorFailCas, TerminalizeCas
    <2> QED BY <1>2, <2>4, <2>5 DEF RunEnds
  <1> QED BY <1>0, <1>1, <1>2 DEF RunStep, EnterJob, Doctor, Phase, StartFromEvent, StartByHand,
                                  Cancel, Reporting, At

(* An acknowledgement.                                                     *)
LEMMA AckedByRun ==
    ASSUME AckedInv, IInv', NEW r \in Run, RunAcks(r), UNCHANGED creators
    PROVE  AckedStep /\ AckedInv'
  <1>0. /\ IInv /\ TypeOK /\ EndInv /\ runs \in [Run -> RunRecords] /\ runs[r].seen \in Envelopes
        /\ env \in Envelopes /\ DoneInv(r, env, runs) /\ runs[r].at = "ack"
        /\ GateInv(r, env, runs) /\ AckInv(r, env, runs) /\ LoadedInv(r, env, runs)
    BY Held DEF AckedInv, IInv, Inv, RunInv, RunAcks, AckLoad, AckAttempt, AckConfirm
  <1>1. env.state \in {"expired", Ending(env.done)}
    BY <1>0 DEF EndInv, GateInv, Envelopes, EnvelopeStates
  <1>2. \A ack : /\ AckPatched(runs[r].seen, ack).state = runs[r].seen.state
                 /\ AckPatched(runs[r].seen, ack).claim = runs[r].seen.claim
                 /\ AckPatched(runs[r].seen, ack).done = runs[r].seen.done
    BY <1>0 DEF AckPatched, Envelopes
  <1>3. /\ UNCHANGED <<env.claim, env.done>> /\ env'.state \in {"expired", Ending(env.done)}
        /\ \/ runs'[r].at = "phase" /\ runs'[r].step = "load"
           \/ /\ runs'[r].at = "ack" /\ runs'[r].seen.done = env.done
              /\ runs'[r].seen.state \in {"expired", Ending(env.done)}
        /\ \A q \in Run \ {r} : runs'[q] = runs[q]
    <2>1. CASE AckLoad(r)
      BY <1>0, <1>1, <2>1 DEF AckLoad, At, RunRecords
    <2>2. CASE AckAttempt(r)
      <3>1. /\ runs'[r].at = "ack" /\ runs'[r].seen = AckPatched(runs[r].seen, "attempted")
            /\ \A q \in Run \ {r} : runs'[q] = runs[q]
        BY <1>0, <2>2 DEF AckAttempt, RunRecords
      <3>2. runs[r].seen.done = env.done /\ runs[r].seen.state \in {"expired", Ending(env.done)}
              /\ runs[r].seen.claim = env.claim
        BY <1>0, <2>2 DEF DoneInv, AckInv, AckAttempt
      <3>3. env' = env \/ env' = AckPatched(runs[r].seen, "attempted")
        BY <2>2 DEF AckAttempt, CasWon, CasLost
      <3>4. UNCHANGED <<env.claim, env.done>> /\ env'.state \in {"expired", Ending(env.done)}
        BY <1>1, <1>2, <3>2, <3>3
      <3>5. /\ runs'[r].seen.done = env.done
            /\ runs'[r].seen.state \in {"expired", Ending(env.done)}
        BY <1>2, <3>1, <3>2
      <3> QED BY <3>1, <3>4, <3>5
    <2>3. CASE AckConfirm(r)
      <3>1. runs'[r].at = "phase" /\ runs'[r].step = "load" /\ \A q \in Run \ {r} : runs'[q] = runs[q]
        BY <1>0, <2>3 DEF AckConfirm, At
      <3>2. runs[r].seen.done = env.done /\ runs[r].seen.state \in {"expired", Ending(env.done)}
              /\ runs[r].seen.claim = env.claim
        BY <1>0, <2>3 DEF DoneInv, AckInv, AckConfirm
      <3> QED BY <1>1, <1>2, <2>3, <3>1, <3>2 DEF AckConfirm, CasWon, CasLost
    <2> QED BY <2>1, <2>2, <2>3 DEF RunAcks, AckLoad
  <1>4. Ending(env.done) \notin {"absent", "pending", "expired"}
    BY DEF Ending
  <1>5. AckedStep
    BY <1>1, <1>3, <1>4 DEF AckedStep, ExpiryUndone, Lifecycle!Next, Lifecycle!Expire, Lifecycle!lifecycle
  <1>6. EndInv'
    BY <1>3, <1>4 DEF EndInv
  <1>7. \A q \in Run : DoneInv(q, env', runs')
    <2>1. DoneInv(r, env', runs')
      BY <1>0, <1>3 DEF DoneInv
    <2>2. \A q \in Run \ {r} : DoneInv(q, env', runs')
      BY <1>3 DEF AckedInv, DoneInv
    <2> QED BY <2>1, <2>2
  <1>8. \A q \in Run : Serves(q, env', runs')
    <2>1. AckRequired \/ UNCHANGED env
      BY DEF AckedInv, Serves, RunAcks, AckLoad, AckAttempt, AckConfirm
    <2>2. env'.state # "absent"
      BY <1>3, <1>4
    <2>3. \A q \in Run : LoadedInv(q, env', runs') /\ SeenInv(q, runs')
      BY DEF IInv, Inv, RunInv
    <2>4. ~AckRequired => runs'[r].step = "load"
      BY <1>0 DEF AckedInv, Serves, RunAcks, AckLoad, AckAttempt, AckConfirm, At
    <2> QED BY <1>3, <2>2, <2>3, <2>4 DEF AckedInv, Serves
  <1> QED BY <1>5, <1>6, <1>7, <1>8 DEF AckedInv

LEMMA AckedServe ==
    ASSUME AckedInv, IInv', NEW r \in Run, Serve(r)
    PROVE  AckedStep /\ AckedInv'
  <1>0. TypeOK /\ IInv /\ EndInv /\ UNCHANGED creators
    BY DEF AckedInv, IInv, Serve
  <1>1. CASE RunAcks(r)
    BY <1>0, <1>1, AckedByRun
  <1>2. CASE ~RunAcks(r)
    <2>1. (UNCHANGED env \/ Writes) /\ OthersStay(r) /\ Serves(r, env', runs')
      BY <1>0, <1>2, RunServes, RunTurns DEF Serve, AckedInv
    <2>2. [Lifecycle!Next]_(Lifecycle!lifecycle) /\ Changes
      BY <2>1, ChangesRefine DEF Changes
    <2>3. EndInv'
      BY <1>0, <2>2, EndStays
    <2>4. \A q \in Run : Serves(q, env', runs')
      BY <1>0, <2>1, <2>2, RunStays DEF AckedInv, OthersStay
    <2>5. ASSUME NEW q \in Run PROVE DoneInv(q, env', runs')
      <3>1. CASE runs'[q] = runs[q]
        BY <1>0, <2>2, <3>1, DoneStays DEF AckedInv
      <3>2. CASE runs'[q] = At("done")
        BY <3>2 DEF DoneInv, At
      <3>3. CASE q = r
        <4>1. runs'[r].at = "ack" => runs'[r].step = "load"
          BY <1>0, <1>2, AckBegins DEF Serve
        <4>2. ASSUME runs'[r].at \notin {"idle", "gate", "done"}, env'.claim # r
              PROVE  env'.done # "none"
          <5>1. CASE PastGate(r)
            BY <1>0, <2>2, <4>2, <5>1, GateDone DEF AckedInv
          <5>2. CASE ~PastGate(r)
            <6>1. RunStep(r)
              <7>1. runs \in [Run -> RunRecords]
                BY <1>0, Held
              <7> QED BY <4>2, <5>2, <7>1
                     DEF Serve, StartFromEvent, StartByHand, Cancel, Finalized, Reporting, At, PastGate
            <6>2. UNCHANGED env /\ Terminal(env)
              BY <1>0, <4>2, <5>2, <6>1, PassesGate
            <6>3. Ending("none") = "claimed"
              BY DEF Ending, Lifecycle!Successes, Lifecycle!FalseDuplicateCompletions
            <6> QED BY <1>0, <6>2, <6>3 DEF EndInv, Terminal
          <5> QED BY <5>1, <5>2
        <4> QED BY <3>3, <4>1, <4>2 DEF DoneInv
      <3> QED BY <2>1, <3>1, <3>2, <3>3 DEF OthersStay
    <2> QED BY <1>0, <2>2, <2>3, <2>4, <2>5 DEF AckedInv, AckedStep
  <1> QED BY <1>1, <1>2

(* A creator, which is alone with the envelope.                            *)
LEMMA AckedCreate ==
    ASSUME AckedInv, IInv', NEW c \in Creator, Create(c)
    PROVE  AckedStep /\ AckedInv'
  <1>0. /\ TypeOK /\ IInv /\ EndInv /\ UNCHANGED runs /\ (env' # env => AllIdle)
        /\ creators \in [Creator -> [step : CreatorSteps, held : Envelopes]]
        /\ env \in Envelopes
    BY CreatorKeeps DEF AckedInv, IInv, TypeOK, RunTypeOK
  <1>1. \A d \in Creator \ {c} : creators'[d] = creators[d]
    BY <1>0 DEF Create, CreatorLoad, CreatorCreate, CreatorAckAttempt, CreatorAckConfirm,
                CreatorDispatch, CreatorCrash
  <1>2. NewEnvelope.state = "pending" /\ NewEnvelope.claim = NoRun /\ NewEnvelope.done = "none"
    BY DEF NewEnvelope, NoEnvelope
  <1>3. /\ \/ UNCHANGED env
           \/ Lifecycle!Create
           \/ env.state = "pending" /\ UNCHANGED Lifecycle!lifecycle
        /\ creators'[c].step \in {"ackAttempt", "ackConfirm"} => creators'[c].held.done = "none"
    <2>1. CASE CreatorLoad(c) \/ CreatorCrash(c) \/ CreatorDispatch(c)
      BY <1>0, <2>1 DEF CreatorLoad, CreatorCrash, CreatorDispatch, runVars
    <2>2. CASE CreatorCreate(c)
      <3>1. CASE ~UNCHANGED env
        <4>1. env' = NewEnvelope /\ creators'[c].held = NewEnvelope /\ env.state = "absent"
          BY <1>0, <2>2, <3>1 DEF CreatorCreate
        <4>2. env.claim = NoRun /\ env.done = "none"
          BY <1>0, <4>1 DEF EndInv, IInv, Inv, OwnerInv
        <4> QED BY <1>2, <3>1, <4>1, <4>2 DEF Lifecycle!Create
      <3>2. CASE UNCHANGED env
        <4>1. ~(env.state = "absent" /\ env' = NewEnvelope)
          BY <1>2, <3>2
        <4> QED BY <1>0, <2>2, <3>2, <4>1 DEF CreatorCreate
      <3> QED BY <3>1, <3>2
    <2>3. CASE CreatorAckAttempt(c) \/ CreatorAckConfirm(c)
      <3>1. /\ env.state = "pending" /\ creators[c].held.done = "none"
            /\ creators[c].held.state = "pending" /\ creators[c].held.claim = NoRun
            /\ creators[c].held \in Envelopes
        BY <1>0, <2>3 DEF AckedInv, IInv, Inv, CreatorInv, ToDispatch, CreatorAckAttempt,
                          CreatorAckConfirm
      <3>2. env.claim = NoRun /\ env.done = "none"
        BY <1>0, <3>1 DEF EndInv, IInv, Inv, OwnerInv
      <3>3. \A ack : LET next == AckPatched(creators[c].held, ack) IN
                next.state = "pending" /\ next.claim = NoRun /\ next.done = "none"
        BY <3>1 DEF AckPatched, Envelopes
      <3>4. UNCHANGED env
               \/ \E ack : env' = AckPatched(creators[c].held, ack)
        BY <2>3 DEF CreatorAckAttempt, CreatorAckConfirm, CasWon, CasLost
      <3>5. creators'[c].step = "dispatch"
               \/ \E ack : creators'[c].held = AckPatched(creators[c].held, ack)
        BY <1>0, <2>3 DEF CreatorAckAttempt, CreatorAckConfirm
      <3> QED BY <3>1, <3>2, <3>3, <3>4, <3>5 DEF Lifecycle!lifecycle
    <2> QED BY <2>1, <2>2, <2>3 DEF Create
  <1>4. [Lifecycle!Next]_(Lifecycle!lifecycle)
    BY <1>3 DEF Lifecycle!Next, Lifecycle!lifecycle
  <1>5. EndInv'
    BY <1>0, <1>4, EndStays
  <1>6. \A q \in Run : DoneInv(q, env', runs')
    BY <1>0, <1>4, DoneStays DEF AckedInv
  <1>7. \A q \in Run : Serves(q, env', runs')
    <2>1. CASE UNCHANGED env
      BY <1>0, <2>1 DEF AckedInv, Serves, LoadedInv, SeenInv
    <2>2. CASE AllIdle
      BY <1>0, <2>2 DEF AllIdle, At, Serves, LoadedInv, SeenInv
    <2> QED BY <1>0, <2>1, <2>2
  <1> QED BY <1>1, <1>3, <1>4, <1>5, <1>6, <1>7 DEF AckedInv, AckedStep

(* An envelope that nobody reopens, which the bridge, its runs and crashes *)
(* may leave acknowledged by blind writes, keeps to its lifecycle but for  *)
(* one step: such a write may undo an expiry, and then puts back the very  *)
(* claim or result that had expired (acknowledge.ts, markExpired).         *)
THEOREM AcknowledgedImplements ==
    ASSUME Reopener = {}
    PROVE  Spec => Lifecycle!Init /\ AcknowledgedLifecycle
  <1>1. Init => Lifecycle!Init
    BY DEF Init, RunInit, NoEnvelope, Lifecycle!Init
  <1>2. Init => AckedInv
    <2>1. Init => IInv
      BY InitTypes, InvInit DEF IInv
    <2> QED BY <2>1 DEF Init, RunInit, AckedInv, EndInv, Serves, DoneInv, LoadedInv, SeenInv, At,
                        NoEnvelope
  <1>3. AckedInv /\ [Next]_vars => AckedStep /\ AckedInv'
    <2> SUFFICES ASSUME AckedInv, [Next]_vars PROVE AckedStep /\ AckedInv'
      OBVIOUS
    <2>0. IInv'
      BY InvNext DEF AckedInv
    <2>1. ASSUME NEW c \in Creator, Create(c) PROVE AckedStep /\ AckedInv'
      BY <2>0, <2>1, AckedCreate
    <2>2. ASSUME NEW r \in Run, Serve(r) PROVE AckedStep /\ AckedInv'
      BY <2>0, <2>2, AckedServe
    <2>3. CASE UNCHANGED <<env, runs, creators>>
      BY <2>0, <2>3 DEF AckedInv, EndInv, Serves, DoneInv, LoadedInv, SeenInv, AckedStep,
                        Lifecycle!lifecycle
    <2> QED BY <2>1, <2>2, <2>3 DEF Next, Late, Expire, vars, runVars
  <1> QED BY <1>1, <1>2, <1>3, PTL DEF Spec, AcknowledgedLifecycle, AckedStep

----------------------------------------------------------------------------
(* From here on: any envelope, acknowledged and reopened or not.  Creators *)
(* are alone with it until one of them has sent the dispatch: no run has   *)
(* started, so nothing can have been completed for a reconciler to reopen. *)
DispatchInv ==
    /\ env.state = "absent" => sent = 0 /\ AllIdle
    /\ AllIdle => /\ env.state \in {"absent", "pending"}
                  /\ \A p \in Reopener : reopeners[p].step \in {"load", "done"}
    /\ \A c \in Creator : ToDispatch(c) =>
         /\ env.state # "absent" /\ sent = 0 /\ AllIdle
         /\ \A d \in Creator \ {c} : ~ToDispatch(d)
    /\ \A c \in Creator : creators[c].step \in {"ackAttempt", "ackConfirm"} =>
         creators[c].held.state = "pending"
    /\ \A r \in Run : runs[r].at = "ack" /\ runs[r].step # "load" =>
         runs[r].seen.state # "absent"

LEMMA DispatchInvCreate ==
    ASSUME TypeOK, DispatchInv, NEW c \in Creator, Create(c)
    PROVE  DispatchInv'
  <1>0. /\ creators \in [Creator -> [step : CreatorSteps, held : Envelopes]]
        /\ env \in Envelopes /\ sent \in Nat /\ UNCHANGED <<runs, reopeners>>
    BY DEF TypeOK, RunTypeOK, Create, CreatorLoad, CreatorCreate, CreatorAckAttempt,
           CreatorAckConfirm, CreatorDispatch, CreatorCrash, runVars
  <1>1. AllIdle' <=> AllIdle
    BY <1>0 DEF AllIdle
  <1>2. CASE CreatorLoad(c) \/ CreatorCrash(c) \/ (CreatorCreate(c) /\ UNCHANGED env)
    <2>0. ~(env.state = "absent" /\ env' = NewEnvelope) \/ ~UNCHANGED env
      BY DEF NewEnvelope, NoEnvelope
    <2>1. /\ UNCHANGED <<env, sent>>
          /\ \A d \in Creator : creators'[d] = creators[d]
               \/ (d = c /\ creators'[d].step \in {"create", "done"})
      BY <1>0, <1>2, <2>0 DEF CreatorLoad, CreatorCrash, CreatorCreate, runVars
    <2> QED BY <1>0, <1>1, <2>1 DEF DispatchInv, ToDispatch
  <1>3. CASE CreatorCreate(c) /\ ~UNCHANGED env
    <2>0. env.state = "absent"
      BY <1>3 DEF CreatorCreate
    <2>1. /\ env' = NewEnvelope /\ sent' = sent /\ creators'[c].held = NewEnvelope
          /\ \A d \in Creator \ {c} : creators'[d] = creators[d]
      BY <1>0, <1>3 DEF CreatorCreate
    <2>2. NewEnvelope.state = "pending"
      BY DEF NewEnvelope, NoEnvelope
    <2>3. sent = 0 /\ AllIdle /\ \A d \in Creator : ~ToDispatch(d)
      BY <2>0 DEF DispatchInv
    <2> QED BY <1>0, <1>1, <2>1, <2>2, <2>3 DEF DispatchInv, ToDispatch
  <1>4. CASE CreatorAckAttempt(c) \/ CreatorAckConfirm(c)
    <2>1. /\ env.state # "absent" /\ sent = 0 /\ AllIdle
          /\ \A d \in Creator \ {c} : ~ToDispatch(d)
          /\ creators[c].held.state = "pending" /\ creators[c].held \in Envelopes
      BY <1>0, <1>4 DEF DispatchInv, ToDispatch, CreatorAckAttempt, CreatorAckConfirm
    <2>2. \A ack : AckPatched(creators[c].held, ack).state = "pending"
      BY <2>1 DEF AckPatched, Envelopes
    <2>3. env.state = "pending"
      BY <2>1 DEF DispatchInv
    <2>4. env'.state = "pending" /\ sent' = sent
      BY <1>4, <2>2, <2>3 DEF CreatorAckAttempt, CreatorAckConfirm, CasWon, CasLost
    <2>5. /\ \A d \in Creator \ {c} : creators'[d] = creators[d]
          /\ creators'[c].step \in {"ackAttempt", "ackConfirm"} =>
               creators'[c].held.state = "pending"
      BY <1>0, <1>4, <2>2 DEF CreatorAckAttempt, CreatorAckConfirm
    <2> QED BY <1>0, <1>1, <2>1, <2>4, <2>5 DEF DispatchInv, ToDispatch
  <1>5. CASE CreatorDispatch(c)
    <2>1. env.state # "absent" /\ \A d \in Creator \ {c} : ~ToDispatch(d)
      BY <1>5 DEF DispatchInv, ToDispatch, CreatorDispatch
    <2>2. /\ env' = env /\ creators'[c].step = "done"
          /\ \A d \in Creator \ {c} : creators'[d] = creators[d]
      BY <1>0, <1>5 DEF CreatorDispatch
    <2> QED BY <1>0, <1>1, <2>1, <2>2 DEF DispatchInv, ToDispatch
  <1> QED BY <1>2, <1>3, <1>4, <1>5 DEF Create

(* A reconciler that has found something to reopen acts after some run.    *)
LEMMA DispatchInvReopen ==
    ASSUME TypeOK, DispatchInv, NEW p \in Reopener, Reopen(p)
    PROVE  DispatchInv'
  <1>0. /\ reopeners \in [Reopener -> [step : ReopenerSteps, held : Envelopes]]
        /\ env \in Envelopes /\ sent \in Nat /\ UNCHANGED <<runs, creators>>
    BY DEF TypeOK, RunTypeOK, Reopen, ReopenLoad, ReopenCas, ReopenRedispatch, ReopenCrash,
           runVars
  <1>1. /\ AllIdle' <=> AllIdle
        /\ \A q \in Reopener \ {p} : reopeners'[q] = reopeners[q]
    BY <1>0 DEF AllIdle, Reopen, ReopenLoad, ReopenCas, ReopenRedispatch, ReopenCrash
  <1>2. CASE ReopenLoad(p)
    <2>1. /\ UNCHANGED <<env, sent>>
          /\ reopeners'[p].step \in {"load", "done"} \/ FalseDuplicate(env)
      BY <1>0, <1>2 DEF ReopenLoad, runVars
    <2>2. AllIdle => ~FalseDuplicate(env)
      BY DEF DispatchInv, FalseDuplicate
    <2> QED BY <1>0, <1>1, <2>1, <2>2 DEF DispatchInv, ToDispatch
  <1>3. CASE ReopenCas(p) \/ ReopenRedispatch(p) \/ ReopenCrash(p)
    <2>1. ~AllIdle /\ \A c \in Creator : ~ToDispatch(c)
      BY <1>3 DEF DispatchInv, ReopenCas, ReopenRedispatch, ReopenCrash
    <2>2. env.state # "absent"
      BY <2>1 DEF DispatchInv
    <2>3. env'.state # "absent"
      <3>1. reopeners[p].held \in Envelopes
        BY <1>0
      <3>2. Reopened(reopeners[p].held).state = "pending"
        BY <3>1 DEF Reopened, Envelopes
      <3> QED BY <1>3, <2>2, <3>2
          DEF ReopenCas, ReopenRedispatch, ReopenCrash, CasWon, CasLost, runVars
    <2> QED BY <1>0, <1>1, <2>1, <2>3 DEF DispatchInv, ToDispatch
  <1> QED BY <1>2, <1>3 DEF Reopen

(* A run's step writes an envelope that exists.                            *)
LEMMA RunLeavesEnvelope ==
    ASSUME RunTypeOK, NEW r \in Run, env.state # "absent",
           StartFromEvent(r) \/ StartByHand(r) \/ RunStep(r) \/ Cancel(r),
           runs[r].at = "ack" /\ runs[r].step # "load" => runs[r].seen.state # "absent"
    PROVE  env'.state # "absent"
  <1>0. runs[r].seen \in Envelopes
    BY DEF RunTypeOK, RunRecords
  <1>1. /\ Claimed(runs[r].seen, r).state = "claimed"
        /\ Expired(runs[r].seen).state = "expired"
        /\ \A s, d : Terminalized(runs[r].seen, s, d).state = s
        /\ \A ack : AckPatched(runs[r].seen, ack).state = runs[r].seen.state
    BY <1>0 DEF Claimed, Expired, Terminalized, AckPatched, Envelopes
  <1>2. CASE UNCHANGED env
    BY <1>2
  <1>3. CASE ClaimCas(r) \/ ClaimExpire(r)
    BY <1>1, <1>3 DEF ClaimCas, ClaimExpire, CasWon, CasLost
  <1>4. CASE AckAttempt(r) \/ AckConfirm(r)
    BY <1>1, <1>4 DEF AckAttempt, AckConfirm, CasWon, CasLost
  <1>5. CASE DoctorFailCas(r) \/ TerminalizeCas(r)
    BY <1>1, <1>5 DEF DoctorFailCas, TerminalizeCas, CasWon, CasLost
  <1> QED BY <1>2, <1>3, <1>4, <1>5
      DEF StartFromEvent, StartByHand, Cancel, RunStep, EnterJob, RunClaims, ClaimLoad,
          ClaimReload, Doctor, RunAcks, AckLoad, Phase, RunEnds, DoctorFailLoad, TerminalizeLoad

(* A run that has moved has started, and its acknowledgement is of an      *)
(* envelope it has seen.                                                   *)
LEMMA RunAdvances ==
    ASSUME TypeOK, NEW r \in Run, env.state # "absent",
           StartFromEvent(r) \/ StartByHand(r) \/ RunStep(r) \/ Cancel(r),
           runs[r].at = "ack" /\ runs[r].step # "load" => runs[r].seen.state # "absent"
    PROVE  /\ OthersStay(r) /\ runs'[r].at # "idle"
           /\ runs'[r].at = "ack" /\ runs'[r].step # "load" => runs'[r].seen.state # "absent"
  <1>0. /\ runs \in [Run -> RunRecords] /\ runs[r].seen \in Envelopes
        /\ "idle" \notin ClaimStages /\ "ack" \notin ClaimStages
    BY DEF TypeOK, RunTypeOK, RunRecords, ClaimStages
  <1>a. ASSUME runs[r].at # "idle", env.state # "absent",
               runs' = [runs EXCEPT ![r] = [runs[r] EXCEPT !.step = "cas", !.seen = env]]
        PROVE  OthersStay(r) /\ runs'[r].at # "idle" /\ runs'[r].seen.state # "absent"
    BY <1>0, <1>a DEF OthersStay, RunRecords
  <1>1. CASE StartFromEvent(r) \/ StartByHand(r) \/ Cancel(r) \/ EnterJob(r) \/ Doctor(r) \/ Phase(r)
    BY <1>0, <1>1
    DEF StartFromEvent, StartByHand, Cancel, EnterJob, Doctor, Phase, OthersStay, Reporting, At
  <1>2. ASSUME runs[r].at \in ClaimStages, Proceed(r) \/ Reject(r)
        PROVE  OthersStay(r) /\ runs'[r].at # "idle" /\ runs'[r].step = "load"
    <2>1. OthersStay(r) /\ runs'[r].step = "load"
      BY <1>2, ClaimEnds
    <2>2. CASE Reject(r)
      BY <1>0, <2>1, <2>2 DEF Reject, Reporting, At
    <2>3. CASE Proceed(r)
      <3>1. PICK stage \in Next1(runs[r].at) :
                runs' = Moved(r, Reporting(stage, runs[r].result))
        BY <2>3 DEF Proceed
      <3>2. runs'[r].at = stage
        BY <1>0, <3>1 DEF Moved, Reporting, At
      <3>3. stage # "idle"
        BY <1>2, <3>1 DEF Next1, ClaimStages
      <3> QED BY <2>1, <3>2, <3>3
    <2> QED BY <1>2, <2>1, <2>2, <2>3
  <1>3. CASE RunClaims(r)
    <2>1. runs[r].at \in ClaimStages
      BY <1>3 DEF RunClaims, ClaimLoad, ClaimCas, ClaimReload, ClaimExpire
    <2>2. \/ Proceed(r) \/ Reject(r)
          \/ \E step \in Steps, e \in {env, NoEnvelope} :
                 runs' = [runs EXCEPT ![r].step = step, ![r].seen = e]
      BY <1>3 DEF RunClaims, ClaimLoad, ClaimCas, ClaimReload, ClaimExpire, Steps
    <2>3. CASE \E step \in Steps, e \in {env, NoEnvelope} :
                  runs' = [runs EXCEPT ![r].step = step, ![r].seen = e]
      <3>1. runs'[r].at = runs[r].at /\ \A q \in Run \ {r} : runs'[q] = runs[q]
        BY <1>0, <2>3 DEF RunRecords
      <3> QED BY <1>0, <2>1, <3>1 DEF OthersStay
    <2> QED BY <1>2, <2>1, <2>2, <2>3
  <1>4. CASE RunAcks(r)
    <2>1. CASE AckLoad(r)
      <3>1. \/ runs' = [runs EXCEPT ![r] = At("phase")]
            \/ runs' = [runs EXCEPT ![r] = [runs[r] EXCEPT !.step = "cas", !.seen = env]]
        BY <2>1 DEF AckLoad
      <3>2. runs[r].at = "ack"
        BY <2>1 DEF AckLoad
      <3>3. CASE runs' = [runs EXCEPT ![r] = At("phase")]
        BY <1>0, <3>3 DEF OthersStay, At
      <3> QED BY <1>a, <3>1, <3>2, <3>3
    <2>2. CASE AckAttempt(r)
      <3> DEFINE next == AckPatched(runs[r].seen, "attempted")
      <3>1. runs' = [runs EXCEPT ![r].step = "reload", ![r].seen = next]
        BY <2>2 DEF AckAttempt
      <3>2. runs[r].at = "ack" /\ runs[r].seen.state # "absent"
        BY <2>2 DEF AckAttempt
      <3>3. next.state # "absent"
        BY <1>0, <3>2 DEF AckPatched, Envelopes
      <3> HIDE DEF next
      <3> QED BY <1>0, <3>1, <3>2, <3>3 DEF OthersStay, RunRecords
    <2>3. CASE AckConfirm(r)
      BY <1>0, <2>3 DEF AckConfirm, OthersStay, At
    <2> QED BY <1>4, <2>1, <2>2, <2>3 DEF RunAcks
  <1>5. CASE RunEnds(r)
    <2>1. runs[r].at \in {"doctorFail", "terminalize"}
      BY <1>5 DEF RunEnds, DoctorFailLoad, DoctorFailCas, TerminalizeLoad, TerminalizeCas
    <2>2. \/ runs' = [runs EXCEPT ![r] = At("done")]
          \/ runs' = [runs EXCEPT ![r] = [runs[r] EXCEPT !.step = "cas", !.seen = env]]
          \/ \E stage \in {"terminalize", "done"}, d \in Completions :
                 runs' = [runs EXCEPT ![r] = Reporting(stage, d)]
      <3>1. "run_crash" \in Completions /\ runs[r].result \in Completions
        BY DEF Completions, RetryableCompletions, TypeOK, RunTypeOK, RunRecords
      <3> QED BY <1>5, <3>1 DEF RunEnds, DoctorFailLoad, DoctorFailCas, TerminalizeLoad, TerminalizeCas
    <2>3. CASE \/ runs' = [runs EXCEPT ![r] = At("done")]
               \/ \E stage \in {"terminalize", "done"}, d \in Completions :
                      runs' = [runs EXCEPT ![r] = Reporting(stage, d)]
      BY <1>0, <2>3 DEF OthersStay, Reporting, At
    <2> QED BY <1>a, <2>1, <2>2, <2>3
  <1> QED BY <1>1, <1>3, <1>4, <1>5 DEF RunStep

LEMMA DispatchInvServe ==
    ASSUME TypeOK, DispatchInv, NEW r \in Run, Serve(r)
    PROVE  DispatchInv'
  <1>1. /\ StartFromEvent(r) \/ StartByHand(r) \/ RunStep(r) \/ Cancel(r)
        /\ UNCHANGED <<creators, reopeners>>
    BY DEF Serve
  <1>2. ~(sent = 0 /\ AllIdle)
    <2>1. CASE StartFromEvent(r)
      BY <2>1 DEF StartFromEvent
    <2>2. CASE StartByHand(r)
      BY <2>2 DEF StartByHand, AllIdle, At
    <2>3. CASE RunStep(r) \/ Cancel(r)
      <3>1. runs[r].at # "idle"
        BY <2>3 DEF RunStep, Cancel, Finalized, EnterJob, RunClaims, ClaimLoad, ClaimCas, ClaimReload,
                    ClaimExpire, Doctor, RunAcks, AckLoad, AckAttempt, AckConfirm, Phase, RunEnds,
                    DoctorFailLoad, DoctorFailCas, TerminalizeLoad, TerminalizeCas, ClaimStages
      <3> QED BY <3>1 DEF AllIdle, At
    <2> QED BY <1>1, <2>1, <2>2, <2>3
  <1>3. env.state # "absent" /\ \A c \in Creator : ~ToDispatch(c)
    BY <1>2 DEF DispatchInv
  <1>4. /\ OthersStay(r) /\ runs'[r].at # "idle"
        /\ runs'[r].at = "ack" /\ runs'[r].step # "load" => runs'[r].seen.state # "absent"
    BY <1>1, <1>3, RunAdvances DEF DispatchInv
  <1>5. env'.state # "absent"
    BY <1>1, <1>3, RunLeavesEnvelope DEF TypeOK, DispatchInv
  <1>6. ~AllIdle'
    BY <1>4 DEF AllIdle, At
  <1>7. \A q \in Run : runs'[q].at = "ack" /\ runs'[q].step # "load" =>
            runs'[q].seen.state # "absent"
    BY <1>4 DEF DispatchInv, OthersStay, At
  <1> QED BY <1>1, <1>3, <1>5, <1>6, <1>7 DEF DispatchInv, ToDispatch

LEMMA DispatchInvNext == TypeOK /\ DispatchInv /\ [Next]_vars => DispatchInv'
  <1> SUFFICES ASSUME TypeOK, DispatchInv, [Next]_vars PROVE DispatchInv'
    OBVIOUS
  <1>1. ASSUME NEW c \in Creator, Create(c) PROVE DispatchInv'
    BY <1>1, DispatchInvCreate
  <1>2. ASSUME NEW p \in Reopener, Reopen(p) PROVE DispatchInv'
    BY <1>2, DispatchInvReopen
  <1>3. ASSUME NEW r \in Run, Serve(r) PROVE DispatchInv'
    BY <1>3, DispatchInvServe
  <1>4. CASE UNCHANGED <<env, sent, runs, creators, reopeners>>
    BY <1>4 DEF DispatchInv, ToDispatch, AllIdle
  <1> QED BY <1>1, <1>2, <1>3, <1>4 DEF Next, Late, Expire, vars, runVars

(* The creators, however many deliveries of the request there are and      *)
(* whoever reopens its envelope later, send at most one dispatch between   *)
(* them, before any run has started (createEnvelopeAndDispatch).           *)
THEOREM SingleDispatch == Spec => []OneDispatch
  <1>1. Init => TypeOK /\ DispatchInv
    BY InitTypes DEF Init, RunInit, DispatchInv, AllIdle, ToDispatch, At, NoEnvelope
  <1>2. TypeOK /\ DispatchInv /\ [Next]_vars => (TypeOK /\ DispatchInv)'
    BY NextTypes, DispatchInvNext
  <1>3. DispatchInv => OneDispatch
    BY DEF DispatchInv, AllIdle, OneDispatch, At
  <1> QED BY <1>1, <1>2, <1>3, PTL DEF Spec
=============================================================================
