------------------------------ MODULE JobRequest ------------------------------
(***************************************************************************)
(* The life of one deterministic job-request envelope, from the processes  *)
(* that ask for it (createEnvelopeAndDispatch: webhook deliveries and the  *)
(* harness's own handoffs, several of which may carry the same request     *)
(* id), through the runs that serve it (JobRuns), to the reconcilers that  *)
(* reopen it when it was completed as a duplicate by mistake.              *)
(***************************************************************************)
EXTENDS JobRuns

CONSTANTS
    Creator,      \* processes that ask for this envelope
    Reopener      \* reconcilers that may recover a false duplicate

VARIABLES
    creators,     \* per creator: its next step, and the record it holds
    reopeners     \* per reopener: its next step, and the record it loaded

vars == <<runVars, creators, reopeners>>

CreatorSteps == {"load", "create", "ackAttempt", "ackConfirm", "dispatch", "done"}
ReopenerSteps == {"load", "cas", "redispatch", "done"}

----------------------------------------------------------------------------
(* createEnvelopeAndDispatch.  Whoever finds the envelope already there    *)
(* returns `duplicate` and dispatches nothing.                             *)
CreatorLoad(c) ==
    /\ creators[c].step = "load"
    /\ creators' = [creators EXCEPT ![c].step =
                        IF env.state = "absent" THEN "create" ELSE "done"]
    /\ UNCHANGED <<runVars, reopeners>>

(* Variant: already_exists is not told from success.                       *)
CreatorCreate_IgnoresExists(c) ==
    /\ creators[c].step = "create"
    /\ env' = IF env.state = "absent" THEN NewEnvelope ELSE env
    /\ creators' = [creators EXCEPT ![c] =
          [step |-> IF AckRequired THEN "ackAttempt" ELSE "dispatch", held |-> NewEnvelope]]
    /\ UNCHANGED <<late, sent, runs, reopeners>>

(* The PUT without a sha: only one of several can make the file.  A PUT    *)
(* refused because of another file is taken for already_exists as well.    *)
CreatorCreate(c) ==
    /\ creators[c].step = "create"
    /\ \/ /\ env.state = "absent"
          /\ env' = NewEnvelope
          /\ creators' = [creators EXCEPT ![c] =
                [step |-> IF AckRequired THEN "ackAttempt" ELSE "dispatch",
                 held |-> NewEnvelope]]
       \/ /\ env.state # "absent" \/ Contention
          /\ creators' = [creators EXCEPT ![c].step = "done"]
          /\ UNCHANGED env
    /\ UNCHANGED <<late, sent, runs, reopeners>>

(* attemptJobRequestAcknowledgement, from the bridge.                      *)
CreatorAckAttempt(c) ==
    /\ creators[c].step = "ackAttempt"
    /\ LET next == AckPatched(creators[c].held, "attempted") IN
       /\ CasWon(creators[c].held, next) \/ CasLost(creators[c].held)
       /\ creators' = [creators EXCEPT ![c] = [step |-> "ackConfirm", held |-> next]]
    /\ UNCHANGED <<late, sent, runs, reopeners>>

CreatorAckConfirm(c) ==
    /\ creators[c].step = "ackConfirm"
    /\ \E ack \in {"attempted", "confirmed"} :
           CasWon(creators[c].held, AckPatched(creators[c].held, ack))
             \/ CasLost(creators[c].held)
    /\ creators' = [creators EXCEPT ![c] = [step |-> "dispatch", held |-> NoEnvelope]]
    /\ UNCHANGED <<late, sent, runs, reopeners>>

(* repository_dispatch: it is accepted, or the call throws.                *)
CreatorDispatch(c) ==
    /\ creators[c].step = "dispatch"
    /\ sent' \in {sent, sent + 1}
    /\ creators' = [creators EXCEPT ![c] = [step |-> "done", held |-> NoEnvelope]]
    /\ UNCHANGED <<env, late, runs, reopeners>>

CreatorCrash(c) ==
    /\ creators[c].step \notin {"load", "done"}
    /\ creators' = [creators EXCEPT ![c] = [step |-> "done", held |-> NoEnvelope]]
    /\ UNCHANGED <<runVars, reopeners>>

----------------------------------------------------------------------------
(* recoverFalseDuplicateCodeReviewDispatch: reopen, then redispatch, even  *)
(* when the reopening write was lost.                                      *)
ReopenLoad(p) ==
    /\ reopeners[p].step = "load" /\ env.state # "absent"
    /\ reopeners' = [reopeners EXCEPT ![p] =
                        IF FalseDuplicate(env) THEN [step |-> "cas", held |-> env]
                                               ELSE [step |-> "done", held |-> NoEnvelope]]
    /\ UNCHANGED <<runVars, creators>>

ReopenCas(p) ==
    /\ reopeners[p].step = "cas"
    /\ CasWon(reopeners[p].held, Reopened(reopeners[p].held)) \/ CasLost(reopeners[p].held)
    /\ reopeners' = [reopeners EXCEPT ![p] = [step |-> "redispatch", held |-> NoEnvelope]]
    /\ UNCHANGED <<late, sent, runs, creators>>

ReopenRedispatch(p) ==
    /\ reopeners[p].step = "redispatch"
    /\ sent' \in {sent, sent + 1}
    /\ reopeners' = [reopeners EXCEPT ![p].step = "done"]
    /\ UNCHANGED <<env, late, runs, creators>>

ReopenCrash(p) ==
    /\ reopeners[p].step \in {"cas", "redispatch"}
    /\ reopeners' = [reopeners EXCEPT ![p] = [step |-> "done", held |-> NoEnvelope]]
    /\ UNCHANGED <<runVars, creators>>

----------------------------------------------------------------------------
Init ==
    /\ RunInit
    /\ creators = [c \in Creator |-> [step |-> "load", held |-> NoEnvelope]]
    /\ reopeners = [p \in Reopener |-> [step |-> "load", held |-> NoEnvelope]]

Create(c) ==
    CreatorLoad(c) \/ CreatorCreate(c) \/ CreatorAckAttempt(c)
      \/ CreatorAckConfirm(c) \/ CreatorDispatch(c) \/ CreatorCrash(c)

Reopen(p) == ReopenLoad(p) \/ ReopenCas(p) \/ ReopenRedispatch(p) \/ ReopenCrash(p)

Serve(r) ==
    /\ StartFromEvent(r) \/ StartByHand(r) \/ RunStep(r) \/ Cancel(r)
    /\ UNCHANGED <<creators, reopeners>>

Late == Expire /\ UNCHANGED <<creators, reopeners>>

Next ==
    \/ \E c \in Creator : Create(c)
    \/ \E p \in Reopener : Reopen(p)
    \/ \E r \in Run : Serve(r)
    \/ Late

Spec == Init /\ [][Next]_vars

(* Scheduling: the steps of a run follow one another until it ends, and    *)
(* Actions starts a queued job once its group is free.                     *)
FairSpec == Spec /\ \A r \in Run : WF_vars(RunStep(r) /\ UNCHANGED <<creators, reopeners>>)

TypeOK ==
    /\ RunTypeOK
    /\ creators \in [Creator -> [step : CreatorSteps, held : Envelopes]]
    /\ reopeners \in [Reopener -> [step : ReopenerSteps, held : Envelopes]]

----------------------------------------------------------------------------
(* A run that is past its first claim and meets a claimed envelope is the  *)
(* one that claimed it: of the runs that two dispatches start, one works   *)
(* on the envelope (claim.ts, workflow steps "Claim job request").  True   *)
(* of envelopes that are never reopened.                                   *)
PastGate(r) == runs[r].at \notin {"idle", "gate", "done"}

ClaimExclusive ==
    \A r \in Run : PastGate(r) /\ env.state = "claimed" => env.claim = r

(* The envelope's claim is brought to its end by the run that holds it,    *)
(* although completeJobRequest and failJobRequest never ask who calls.     *)
OwnerTerminalizes ==
    [][ env.state = "claimed" /\ Terminal(env') =>
            \A r \in Run : runs'[r] # runs[r] => r = env.claim ]_vars

(* Duplicate deliveries of one request send at most one repository_dispatch*)
(* between them: while a creator is still to send it, no other creator is  *)
(* and none has been sent (createEnvelopeAndDispatch, `duplicate`).        *)
ToDispatch(c) == creators[c].step \in {"ackAttempt", "ackConfirm", "dispatch"}

OneDispatch ==
    \A c \in Creator : ToDispatch(c) =>
        /\ sent = 0
        /\ \A d \in Creator \ {c} : ~ToDispatch(d)
        /\ \A r \in Run : runs[r].at = "idle"

(* Whatever the interleaving of claims, lost writes and late writers, the  *)
(* stored envelope only takes the steps of EnvelopeLifecycle: verified or  *)
(* unretryable work is never reopened, a claim is never replaced or erased,*)
(* nothing leaves `expired`.                                               *)
Lifecycle == INSTANCE EnvelopeLifecycle
                WITH state <- env.state, owner <- env.claim, completion <- env.done

ImplementsLifecycle == Lifecycle!Spec

(* Work that was done is recorded: the envelope of a run that executes the *)
(* phase reaches an end, whichever way the phase ended, unless the run is  *)
(* lost or the one write it makes is refused (step "Finalize harness run").*)
WorkIsRecorded ==
    \A r \in Run :
        runs[r].at = "phase" /\ env.state = "claimed" /\ env.claim = r
            ~> Terminal(env) \/ env.state = "expired" \/ Unreported(r)

(* "Pre-phase Doctor failure must terminalize the claim (not leave it      *)
(* indefinitely claimed)", harness-auto-runner.yml:246: it does, unless    *)
(* the run is lost or its one write refused.                               *)
DoctorFailureReleases ==
    \A r \in Run :
        runs[r].at = "doctorFail"
            ~> env.claim # r \/ env.state # "claimed" \/ Unreported(r)
=============================================================================
