---------------------------- MODULE MergeDispatch ----------------------------
(***************************************************************************)
(* The merge envelope: one deterministic request per merge subject, that   *)
(* every reconcile pass looks at again (dispatchMergeReconcileJob, called  *)
(* by workflow-reconcile and the merge reconcile command).  Reconcilers    *)
(* create it, send its repository_dispatch, and when its claim looks stale *)
(* or its failure retryable, fail it, reopen it and send another; the runs *)
(* it starts (JobRuns, job run-merge) claim and terminalize it meanwhile.  *)
(* No caller passes hasActiveAgentOrLease, so it is FALSE here.            *)
(***************************************************************************)
EXTENDS JobRuns

CONSTANTS
    Reconciler    \* reconcile passes over this merge subject

VARIABLES
    recs,         \* per reconciler: its next step, and the record it holds
    accepted      \* dispatches GitHub accepted since the envelope was created or last failed

vars == <<runVars, recs, accepted>>

RecSteps == {"load", "create", "decide", "staleLoad", "failLoad", "failCas",
             "reopenLoad", "reopenCas", "attempt", "lost", "dispatch", "confirm", "done"}

RecAt(step, held) == [step |-> step, held |-> held]
Stop(c) == recs' = [recs EXCEPT ![c] = RecAt("done", NoEnvelope)]
Goto(c, step, held) == recs' = [recs EXCEPT ![c] = RecAt(step, held)]

(* Bookkeeping: what was accepted before a failure does not count after it.*)
CountFromFailure ==
    accepted' = IF env.state # "failed" /\ env'.state = "failed" THEN 0 ELSE accepted

(* The tail of dispatchMergeReconcileJob: a record already dispatched, or  *)
(* pending with a dispatch attempted, is left alone.                       *)
InFlight(e) ==
    e.dispatch = "confirmed" \/ (e.state = "pending" /\ e.dispatch = "attempted")

DecideDispatch(c, e) ==
    IF InFlight(e) THEN Stop(c) ELSE Goto(c, "attempt", e)

----------------------------------------------------------------------------
Decide(c, e) ==
    CASE e.state = "completed" -> Stop(c)
      [] e.state = "claimed"   -> Goto(c, "staleLoad", NoEnvelope)
      [] e.state = "failed"    -> Goto(c, "reopenLoad", NoEnvelope)
      [] OTHER                 -> DecideDispatch(c, e)

Load(c) ==
    /\ recs[c].step \in {"load", "decide"}
    /\ \/ env.state # "absent" /\ Decide(c, env)
       \/ env.state = "absent" /\ recs[c].step = "load" /\ Goto(c, "create", NoEnvelope)
       \/ env.state = "absent" /\ recs[c].step = "decide" /\ Stop(c)
    /\ UNCHANGED <<runVars, accepted>>

(* Before it loads anything a pass may find the pull request merged, or a  *)
(* token or repository setting missing.  A dry run fails and reopens like  *)
(* any other pass, and stops where it would create the envelope or write   *)
(* the attempt; so does a pass whose call there throws.                    *)
EarlyReturn(c) ==
    /\ recs[c].step \in {"load", "create", "attempt"}
    /\ Stop(c)
    /\ UNCHANGED <<runVars, accepted>>

(* createJobRequest; on already_exists the envelope is loaded again, and   *)
(* a PUT refused because of another file is taken for already_exists too.  *)
CreateMerge(c) ==
    /\ recs[c].step = "create"
    /\ \/ env.state = "absent" /\ env' = NewEnvelope /\ Goto(c, "attempt", NewEnvelope)
       \/ /\ env.state # "absent" \/ Contention
          /\ Goto(c, "decide", NoEnvelope) /\ UNCHANGED env
    /\ UNCHANGED <<late, sent, runs, accepted>>

(* failStalePrePhaseClaim: load, judge; failJobRequest: load, write.       *)
StaleLoad(c) ==
    /\ recs[c].step = "staleLoad"
    /\ IF StalePrePhaseClaim(env, FALSE) THEN Goto(c, "failLoad", NoEnvelope) ELSE Stop(c)
    /\ UNCHANGED <<runVars, accepted>>

FailLoad(c) ==
    /\ recs[c].step = "failLoad"
    /\ IF env.state = "claimed" THEN Goto(c, "failCas", env) ELSE Stop(c)
    /\ UNCHANGED <<runVars, accepted>>

FailCas(c) ==
    /\ recs[c].step = "failCas"
    /\ \/ /\ CasWon(recs[c].held, Terminalized(recs[c].held, "failed", "stale_prephase_claim"))
          /\ Goto(c, "reopenLoad", NoEnvelope)
       \/ CasLost(recs[c].held) /\ Stop(c)
    /\ CountFromFailure
    /\ UNCHANGED <<late, sent, runs>>

(* reopenFailedJobRequestForRetry: a lost write is returned as if it had   *)
(* landed.                                                                 *)
ReopenLoad(c) ==
    /\ recs[c].step = "reopenLoad"
    /\ IF RetryableFailure(env) THEN Goto(c, "reopenCas", env) ELSE Stop(c)
    /\ UNCHANGED <<runVars, accepted>>

ReopenCas(c) ==
    /\ recs[c].step = "reopenCas"
    /\ LET next == Reopened(recs[c].held) IN
       /\ CasWon(recs[c].held, next) \/ CasLost(recs[c].held)
       /\ Goto(c, "attempt", next)
    /\ UNCHANGED <<late, sent, runs, accepted>>

(* The attempt is written before the dispatch.  A loser looks again, and   *)
(* gives up only if the winner has got past its own attempt.               *)
Attempt(c) ==
    /\ recs[c].step = "attempt"
    /\ LET next == DispatchPatched(recs[c].held, "attempted") IN
       \/ CasWon(recs[c].held, next) /\ Goto(c, "dispatch", next)
       \/ CasLost(recs[c].held) /\ Goto(c, "lost", next)
    /\ UNCHANGED <<late, sent, runs, accepted>>

AttemptLost(c) ==
    /\ recs[c].step = "lost"
    /\ IF env.dispatch = "confirmed" \/ env.state \in {"claimed", "completed"}
         THEN Stop(c)
         ELSE Goto(c, "dispatch", recs[c].held)
    /\ UNCHANGED <<runVars, accepted>>

(* repository_dispatch: accepted; or it throws, and the pass ends there.   *)
Dispatch(c) ==
    /\ recs[c].step = "dispatch"
    /\ \/ /\ sent' = sent + 1 /\ accepted' = accepted + 1
          /\ Goto(c, "confirm", recs[c].held)
       \/ Stop(c) /\ UNCHANGED <<sent, accepted>>
    /\ UNCHANGED <<env, late, runs>>

(* Variant: a refused confirmation is made again on the record met there.  *)
Confirm_Renumbered(c) ==
    /\ recs[c].step = "confirm"
    /\ env' = DispatchPatched(env, "confirmed")
    /\ Stop(c)
    /\ UNCHANGED <<late, sent, runs, accepted>>

(* The confirmation is numbered from the attempt, whether or not that      *)
(* landed, and a lost one is forgotten.                                    *)
Confirm(c) ==
    /\ recs[c].step = "confirm"
    /\ CasWon(recs[c].held, DispatchPatched(recs[c].held, "confirmed")) \/ CasLost(recs[c].held)
    /\ Stop(c)
    /\ UNCHANGED <<late, sent, runs, accepted>>

Crash(c) ==
    /\ Cancels
    /\ recs[c].step \notin {"load", "done"}
    /\ Stop(c)
    /\ UNCHANGED <<runVars, accepted>>

Writes(c) == FailCas(c) \/ ReopenCas(c) \/ Attempt(c) \/ Confirm(c)
Looks(c) == Load(c) \/ StaleLoad(c) \/ FailLoad(c) \/ ReopenLoad(c) \/ AttemptLost(c)
Pass(c) == EarlyReturn(c) \/ Looks(c) \/ CreateMerge(c) \/ Writes(c) \/ Dispatch(c)

----------------------------------------------------------------------------
Init ==
    /\ RunInit
    /\ recs = [c \in Reconciler |-> RecAt("load", NoEnvelope)]
    /\ accepted = 0

Serve(r) ==
    /\ StartFromEvent(r) \/ RunStep(r) \/ Cancel(r)
    /\ CountFromFailure
    /\ UNCHANGED recs

Late == Expire /\ UNCHANGED <<recs, accepted>>

Next ==
    \/ \E c \in Reconciler : Pass(c) \/ Crash(c)
    \/ \E r \in Run : Serve(r)
    \/ Late

Spec == Init /\ [][Next]_vars

TypeOK ==
    /\ RunTypeOK
    /\ recs \in [Reconciler -> [step : RecSteps, held : Envelopes]]
    /\ accepted \in Nat

----------------------------------------------------------------------------
(* An open envelope that says its dispatch is confirmed has had a dispatch *)
(* accepted since it was created or last failed, whichever writes were     *)
(* refused: no late confirmation by a pass that began before the failure   *)
(* lands on the reopened envelope, where every later pass would believe it *)
(* and dispatch nothing more (dispatch-merge-reconcile.ts:264).            *)
ConfirmedWasSent ==
    env.dispatch = "confirmed" /\ env.state \notin {"failed", "expired"} => accepted > 0

(* Verified work stays: no pass reopens or rewrites a completed merge, and *)
(* only expiry moves it (dispatch-merge-reconcile.ts:233).                 *)
CompletedStays ==
    [][env.state = "completed" =>
           env'.state \in {"completed", "expired"} /\ env'.done = env.done]_vars

(* "True when a claimed envelope has no evidence of an in-progress agent   *)
(* and is safe for reconcile to terminalize/retry", claim.ts:228-229: the  *)
(* claim of a run that is executing its phase is not ended by anyone else. *)
LiveClaimKept ==
    [][ \A r \in Run :
          env.state = "claimed" /\ env.claim = r /\ runs[r].at = "phase"
            /\ runs'[r] = runs[r]
          => env'.state \in {"claimed", "expired"} ]_vars
=============================================================================
