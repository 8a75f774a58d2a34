------------------------------ MODULE MergePhase ------------------------------
(***************************************************************************)
(* The merge phase of one issue with one pull request (executeMergePhase). *)
(* A run is let through by the route step of its workflow, waits for the   *)
(* merge concurrency group, and then goes by what it reads itself: status  *)
(* and comments at its start, the pull request twice before the merge and  *)
(* once after it.  A workflow run that fails or breaks off is followed by  *)
(* the step that finalizes it.  Runs from a shell have no route, no group  *)
(* and no such step.  The product manager approves and withdraws, people   *)
(* merge by hand, and the base branch moves on meanwhile.  A run or its    *)
(* whole job can be lost, and Linear or GitHub can refuse a call, at every *)
(* step.                                                                   *)
(***************************************************************************)
EXTENDS Naturals

CONSTANTS
    Queued,       \* runs of the workflow, in the concurrency group
    Shells,       \* runs started from a shell
    RepairLimit,  \* MAX_REPAIR_FAILURES_PER_ISSUE
    MaxNotes      \* bound on the comments of each kind that are counted

Runs == Queued \cup Shells

ASSUME NotesAssumption ==
    RepairLimit \in Nat /\ MaxNotes \in Nat /\ MaxNotes > RepairLimit

VARIABLES
    status,       \* the issue's Linear status
    pr,           \* the pull request: its mergeable state, or merged
    completions,  \* merge completion comments on the issue
    failures,     \* a merge error comment is on the issue
    repairs,      \* repair_failed comments on the issue
    run,          \* per run: its next step and what it holds
    overlapped,   \* two runs have worked on the issue side by side
    misled,       \* a refused merge was taken for an earlier one, and not looked at again
    cut           \* a failure that the issue need not show

notes == <<completions, failures, repairs>>
faults == <<overlapped, misled, cut>>
vars == <<status, pr, notes, run, faults>>

(* "merged" stands for Merged to Dev and Merged / Deployed.                *)
Statuses == {"pm_review", "ready", "merging", "merged", "blocked"}
PullStates == {"clean", "behind", "blocked", "merged"}

RunSteps == {"idle", "queued", "comments", "enter", "inspect", "checks", "repair",
             "agent", "merge", "post", "claim", "publish", "finish", "error", "block",
             "finalize", "stop"}

RunRecords == [step : RunSteps, force : BOOLEAN, saw : Statuses, marker : BOOLEAN,
               repairs : Nat, entered : BOOLEAN, merged : BOOLEAN,
               recovery : BOOLEAN, owns : BOOLEAN]

Idle == [step |-> "idle", force |-> FALSE, saw |-> "pm_review", marker |-> FALSE,
         repairs |-> 0, entered |-> FALSE, merged |-> FALSE,
         recovery |-> FALSE, owns |-> FALSE]

Working(r) == run[r].step \notin {"idle", "queued"}
Counted(n) == IF n < MaxNotes THEN n + 1 ELSE n

(* findMergeMarkerForPrUrl: any harness comment whose footer has phase     *)
(* merge, a run id and the url.  The error comment of a failed merge is    *)
(* given the same footer.                                                  *)
Marker == completions > 0 \/ failures

Eligible(s, force) == s = "ready" \/ (force /\ s = "merging")

(* Variant: a marked merge is announced again.                             *)
Verdict_Again(marker, merged, s, force) ==
    CASE marker \/ merged -> "recovery"
      [] ~marker /\ ~merged /\ s = "merged" -> "skip"
      [] ~marker /\ ~merged /\ s # "merged" ->
             IF Eligible(s, force) THEN "proceed" ELSE "wrong_status"

(* Variant: the status is not looked at.                                   *)
Verdict_AnyStatus(marker, merged, s, force) ==
    CASE marker /\ merged -> "skip"
      [] ~marker /\ s = "merged" -> "skip"
      [] OTHER -> "recovery"

(* checkMergeIdempotency.                                                  *)
Verdict(marker, merged, s, force) ==
    CASE marker /\ merged -> "skip"
      [] marker /\ ~merged -> "recovery"
      [] ~marker /\ s = "merged" -> "skip"
      [] ~marker /\ s # "merged" /\ merged -> "recovery"
      [] ~marker /\ s # "merged" /\ ~merged ->
             IF Eligible(s, force) THEN "proceed" ELSE "wrong_status"

----------------------------------------------------------------------------
End(r) == run' = [run EXCEPT ![r] = Idle]
Goto(r, step) == run' = [run EXCEPT ![r].step = step]

(* A run that takes the pull request for merged, with all it still needs.  *)
Done(h) == [Idle EXCEPT !.step = "post", !.saw = h.saw, !.entered = h.entered,
                        !.recovery = h.recovery, !.merged = TRUE]

(* The job of a failed run goes on to finalize it; owns says whether its   *)
(* manifest, or the lack of one, makes Merging a status of that run.       *)
Failed(r, owns) ==
    run' = [run EXCEPT ![r] =
        IF r \in Queued THEN [Idle EXCEPT !.step = "finalize", !.owns = owns] ELSE Idle]

(* A run that ends like this may leave the issue as it found it.           *)
Untold(r, h) == r \in Shells \/ ~h.entered

(* Variant: every failure blocks the issue.                                *)
Caught_Always(r, h, linear) ==
    IF ~(h.merged /\ linear)
      THEN run' = [run EXCEPT ![r] = [h EXCEPT !.step = "error"]]
      ELSE Failed(r, TRUE)

(* The catch block, for a run that holds h.  After a merge, a failed write *)
(* to Linear leaves the issue at Merging and a recovery artifact in the    *)
(* run's directory; any other failure after the issue was moved to Merging *)
(* is commented on and blocks it.                                          *)
Caught(r, h, linear) ==
    IF h.entered /\ ~(h.merged /\ linear)
      THEN run' = [run EXCEPT ![r] =
               [Idle EXCEPT !.step = "error", !.saw = h.saw, !.entered = TRUE]]
      ELSE Failed(r, h.saw = "merging" \/ (h.merged /\ linear))

Fail(r) == Caught(r, run[r], FALSE) /\ UNCHANGED faults
Refused(r, h) ==
    Caught(r, h, TRUE) /\ cut' = (cut \/ Untold(r, h)) /\ UNCHANGED <<overlapped, misled>>

----------------------------------------------------------------------------
(* evaluateMergeReconcile in the route step; the pull request may not be   *)
(* readable there.                                                         *)
Route(r, force, sees) ==
    /\ r \in Queued /\ run[r].step = "idle"
    /\ Verdict(Marker, sees /\ pr = "merged", status, force) # "skip"
    /\ Eligible(status, force)
    /\ run' = [run EXCEPT ![r] = [Idle EXCEPT !.step = "queued", !.force = force]]
    /\ UNCHANGED <<status, pr, notes, faults>>

Invoke(r, force) ==
    /\ r \in Shells /\ run[r].step = "idle"
    /\ run' = [run EXCEPT ![r] = [Idle EXCEPT !.step = "queued", !.force = force]]
    /\ UNCHANGED <<status, pr, notes, faults>>

(* Doctor and runPreflight, under the concurrency group harness-merge.     *)
(* What is forced matters for an issue at Merging only (Eligible).         *)
Start(r) ==
    /\ run[r].step = "queued"
    /\ r \in Queued => \A q \in Queued : ~Working(q)
    /\ \/ /\ run' = [run EXCEPT ![r].step = "comments", ![r].saw = status,
                           ![r].force = @ /\ status = "merging"]
          /\ UNCHANGED cut
       \/ Failed(r, TRUE) /\ cut' = TRUE
    /\ overlapped' = (overlapped \/ \E q \in Runs : Working(q))
    /\ UNCHANGED <<status, pr, notes, misled>>

(* Lists the comments; the first idempotency check takes the pull request  *)
(* for open.                                                               *)
Comments(r) ==
    /\ run[r].step = "comments"
    /\ \/ /\ IF Verdict(Marker, FALSE, run[r].saw, run[r].force) = "skip"
               THEN End(r)
               ELSE run' = [run EXCEPT ![r] =
                        [@ EXCEPT !.step = IF run[r].saw = "ready" THEN "enter" ELSE "inspect",
                                  !.marker = Marker, !.repairs = repairs]]
          /\ UNCHANGED faults
       \/ Refused(r, run[r])
    /\ UNCHANGED <<status, pr, notes>>

(* To Merging, and the start comment.  A write to Linear may take effect   *)
(* and be answered with an error, here and below.                          *)
Enter(r) ==
    /\ run[r].step = "enter"
    /\ LET entered == [run[r] EXCEPT !.entered = TRUE] IN
       \/ /\ status' = "merging"
          /\ run' = [run EXCEPT ![r] = [entered EXCEPT !.step = "inspect"]]
          /\ UNCHANGED faults
       \/ status' = "merging" /\ Refused(r, entered)
       \/ status' \in {status, "merging"} /\ Refused(r, run[r])
    /\ UNCHANGED <<pr, notes>>

(* Variant: a merged pull request is a duplicate whoever announced it.     *)
Inspect_SkipsMerged(r) ==
    /\ run[r].step = "inspect"
    /\ LET merged == pr = "merged"
           verdict == Verdict(run[r].marker, merged, run[r].saw, run[r].force)
       IN IF merged \/ verdict \in {"skip", "wrong_status"}
            THEN End(r)
            ELSE run' = [run EXCEPT ![r] =
                     [@ EXCEPT !.step = "checks", !.recovery = verdict = "recovery"]]
    /\ UNCHANGED <<status, pr, notes, faults>>

(* The first inspection, and the second idempotency check.                 *)
Inspect(r) ==
    /\ run[r].step = "inspect"
    /\ LET merged == pr = "merged"
           verdict == Verdict(run[r].marker, merged, run[r].saw, run[r].force)
           held == [run[r] EXCEPT !.merged = merged, !.recovery = verdict = "recovery"]
       IN \/ verdict = "skip" /\ End(r) /\ UNCHANGED faults
          \/ verdict = "wrong_status" /\ Caught(r, held, FALSE) /\ UNCHANGED faults
          \/ /\ verdict \in {"recovery", "proceed"}
             /\ run' = [run EXCEPT ![r] =
                    IF merged THEN Done(held) ELSE [held EXCEPT !.step = "checks"]]
             /\ UNCHANGED faults
          \/ Fail(r)
    /\ UNCHANGED <<status, pr, notes>>

----------------------------------------------------------------------------
(* Variant: one repair more than the limit.                                *)
Checks_OneMore(r) ==
    /\ run[r].step = "checks"
    /\ \/ /\ pr \in {"clean", "merged"}
          /\ Goto(r, "merge") /\ UNCHANGED faults
       \/ /\ pr = "behind" /\ run[r].repairs <= RepairLimit
          /\ Goto(r, "repair") /\ UNCHANGED faults
       \/ Fail(r)
    /\ UNCHANGED <<status, pr, notes>>

(* The checks have passed, a draft is marked ready, the pull request is    *)
(* inspected again; a branch that is behind or dirty is to be repaired.    *)
Checks(r) ==
    /\ run[r].step = "checks"
    /\ \/ /\ pr \in {"clean", "merged"}
          /\ Goto(r, "merge") /\ UNCHANGED faults
       \/ /\ pr = "behind" /\ run[r].repairs < RepairLimit
          /\ Goto(r, "repair") /\ UNCHANGED faults
       \/ Fail(r)
    /\ UNCHANGED <<status, pr, notes>>

RepairFailed(r) ==
    /\ repairs' \in {repairs, Counted(repairs)}
    /\ Fail(r)
    /\ UNCHANGED <<status, completions, failures>>

RepairDone(r) ==
    /\ pr' = "clean"
    /\ Goto(r, "merge")
    /\ UNCHANGED <<status, notes, faults>>

(* update-branch; a 422, or a branch that is dirty after it, is for the    *)
(* repair agent.  The branch may be repaired and its checks fail.          *)
Repair(r) ==
    /\ run[r].step = "repair"
    /\ \/ pr = "behind" /\ RepairDone(r)
       \/ Goto(r, "agent") /\ UNCHANGED <<status, pr, notes, faults>>
       \/ RepairFailed(r) /\ (UNCHANGED pr \/ (pr = "behind" /\ pr' = "clean"))

RepairAgent(r) ==
    /\ run[r].step = "agent"
    /\ \/ pr \in {"clean", "behind"} /\ RepairDone(r)
       \/ RepairFailed(r) /\ (UNCHANGED pr \/ (pr = "behind" /\ pr' = "clean"))

(* mergePullRequest.  A 409 counts as a merge, although GitHub also gives  *)
(* one when the head has moved and the pull request is open; a merge whose *)
(* answer is lost does not.                                                *)
Merge(r) ==
    /\ run[r].step = "merge"
    /\ \/ /\ pr \in {"clean", "merged"} /\ pr' = "merged"
          /\ run' = [run EXCEPT ![r] = Done(run[r])]
          /\ UNCHANGED faults
       \/ /\ pr # "merged" /\ UNCHANGED pr
          /\ run' = [run EXCEPT ![r] = Done(run[r])]
          /\ misled' = (misled \/ ~run[r].entered) /\ UNCHANGED <<overlapped, cut>>
       \/ pr = "clean" /\ pr' = "merged" /\ Fail(r)
       \/ UNCHANGED pr /\ Fail(r)
    /\ UNCHANGED <<status, notes>>

(* Variant: the merge request is believed.                                 *)
Post_Unchecked(r) ==
    /\ run[r].step = "post"
    /\ \/ /\ Goto(r, IF run[r].entered \/ run[r].recovery THEN "publish" ELSE "claim")
          /\ UNCHANGED faults
       \/ Fail(r)
    /\ UNCHANGED <<status, pr, notes>>

(* The inspection after the merge falls back on the one before it.  Only a *)
(* run that has moved the issue to Merging itself fails when it shows the  *)
(* pull request open.  A production deployment may be required, and not be *)
(* found.                                                                  *)
Post(r) ==
    /\ run[r].step = "post"
    /\ \/ /\ pr = "merged" \/ ~run[r].entered
          /\ Goto(r, IF run[r].entered \/ run[r].recovery THEN "publish" ELSE "claim")
          /\ UNCHANGED faults
       \/ Fail(r)
    /\ UNCHANGED <<status, pr, notes>>

(* A forced run moves the issue to Merging only here.                      *)
Claim(r) ==
    /\ run[r].step = "claim"
    /\ \/ /\ status' = "merging"
          /\ run' = [run EXCEPT ![r].step = "publish", ![r].entered = TRUE]
          /\ UNCHANGED faults
       \/ status' \in {status, "merging"} /\ Refused(r, run[r])
    /\ UNCHANGED <<pr, notes>>

(* postCompletionAndTransition: the completion comment, then the status.   *)
Publish(r) ==
    /\ run[r].step = "publish"
    /\ \/ completions' = Counted(completions) /\ Goto(r, "finish") /\ UNCHANGED faults
       \/ completions' \in {completions, Counted(completions)} /\ Refused(r, run[r])
    /\ UNCHANGED <<status, pr, failures, repairs>>

Finish(r) ==
    /\ run[r].step = "finish"
    /\ \/ status' = "merged" /\ End(r) /\ UNCHANGED faults
       \/ status' \in {status, "merged"} /\ Refused(r, run[r])
    /\ UNCHANGED <<pr, notes>>

ReportError(r) ==
    /\ run[r].step = "error"
    /\ \/ failures' = TRUE /\ Goto(r, "block") /\ UNCHANGED faults
       \/ /\ failures' \in {failures, TRUE} /\ Failed(r, TRUE)
          /\ cut' = (cut \/ Untold(r, run[r])) /\ UNCHANGED <<overlapped, misled>>
    /\ UNCHANGED <<status, pr, completions, repairs>>

(* Variant: the status of a failure is not one of the workflow's.           *)
Block_Failed(r) ==
    /\ run[r].step = "block"
    /\ Failed(r, run[r].saw = "merging")
    /\ status' = "failed"
    /\ UNCHANGED <<pr, notes, faults>>

Block(r) ==
    /\ run[r].step = "block"
    /\ \/ status' = "blocked" /\ Failed(r, run[r].saw = "merging") /\ UNCHANGED cut
       \/ /\ status' \in {status, "blocked"} /\ Failed(r, TRUE)
          /\ cut' = (cut \/ Untold(r, run[r]))
    /\ UNCHANGED <<pr, notes, overlapped, misled>>

(* finalizeFailedHarnessRun: an issue still at Merging, where the run put  *)
(* it or died, is to be blocked.                                           *)
Finalize(r) ==
    /\ run[r].step = "finalize"
    /\ \/ /\ IF run[r].owns /\ status = "merging" THEN Goto(r, "stop") ELSE End(r)
          /\ UNCHANGED cut
       \/ End(r) /\ cut' = TRUE
    /\ UNCHANGED <<status, pr, notes, overlapped, misled>>

Stop(r) ==
    /\ run[r].step = "stop"
    /\ End(r)
    /\ \/ status' = "blocked" /\ UNCHANGED cut
       \/ status' \in {status, "blocked"} /\ cut' = TRUE
    /\ UNCHANGED <<pr, notes, overlapped, misled>>

(* The job is lost or, while still queued, cancelled.                      *)
LostJob(r) ==
    /\ run[r].step # "idle"
    /\ End(r)
    /\ cut' = TRUE
    /\ UNCHANGED <<status, pr, notes, overlapped, misled>>

(* The merge step crashes, times out or is cancelled, and writes no        *)
(* manifest; its job still finalizes it.                                   *)
Crash(r) ==
    /\ r \in Queued /\ run[r].step \notin {"idle", "queued", "finalize", "stop"}
    /\ Failed(r, TRUE)
    /\ cut' = (cut \/ Untold(r, run[r]))
    /\ UNCHANGED <<status, pr, notes, overlapped, misled>>

----------------------------------------------------------------------------
(* People and the repository.                                              *)
Approve ==
    /\ status \in {"pm_review", "blocked"}
    /\ status' = "ready"
    /\ UNCHANGED <<pr, notes, run, faults>>

Withdraw ==
    /\ status = "ready"
    /\ status' = "pm_review"
    /\ UNCHANGED <<pr, notes, run, faults>>

(* The base branch or the head is pushed to, or the pull request is merged *)
(* by hand.  A closed one is a pull request that GitHub refuses.           *)
BranchesMove ==
    /\ pr # "merged"
    /\ pr' \in PullStates
    /\ UNCHANGED <<status, notes, run, faults>>

----------------------------------------------------------------------------
Init ==
    /\ status = "pm_review"
    /\ pr = "clean"
    /\ completions = 0 /\ failures = FALSE /\ repairs = 0
    /\ run = [r \in Runs |-> Idle]
    /\ overlapped = FALSE /\ misled = FALSE /\ cut = FALSE

Begin(r) ==
    \/ \E force, sees \in BOOLEAN : Route(r, force, sees)
    \/ \E force \in BOOLEAN : Invoke(r, force)

Work(r) ==
    \/ Comments(r) \/ Enter(r) \/ Inspect(r) \/ Checks(r) \/ Repair(r)
    \/ RepairAgent(r) \/ Merge(r) \/ Post(r) \/ Claim(r) \/ Publish(r)
    \/ Finish(r) \/ ReportError(r) \/ Block(r) \/ Finalize(r) \/ Stop(r)

Next ==
    \/ \E r \in Runs : Begin(r) \/ Start(r) \/ Work(r) \/ LostJob(r) \/ Crash(r)
    \/ Approve \/ Withdraw \/ BranchesMove

(* Scheduled reconcile passes keep sending the run of an issue that is     *)
(* Ready to Merge, its turn in the group comes, and a run that is not lost *)
(* goes on.                                                                *)
Fairness ==
    /\ \A r \in Queued : /\ WF_vars(\E sees \in BOOLEAN : Route(r, FALSE, sees))
                         /\ WF_vars(Start(r))
    /\ \A r \in Runs : WF_vars(Work(r))

Spec == Init /\ [][Next]_vars /\ Fairness

----------------------------------------------------------------------------
TypeOK ==
    /\ status \in Statuses
    /\ pr \in PullStates
    /\ completions \in 0..MaxNotes /\ failures \in BOOLEAN /\ repairs \in 0..MaxNotes
    /\ run \in [Runs -> RunRecords]
    /\ overlapped \in BOOLEAN /\ misled \in BOOLEAN /\ cut \in BOOLEAN

(* An issue says it is merged only when its pull request is: whichever     *)
(* calls failed, and however runs and people overlapped.  A merge that     *)
(* GitHub refuses with a 409 for another reason does not show it as merged *)
(* either, unless the run had not moved the issue to Merging itself: that  *)
(* run skips the check after the merge.                                    *)
ShownIsMerged == status = "merged" => pr = "merged" \/ misled

(* One completion comment, also when the run that posted it was lost or    *)
(* never learnt that it had; only runs side by side can post two, or a run *)
(* after one that announced a merge there was not.                         *)
OneCompletion == completions > 1 => overlapped \/ misled

(* No run takes an issue that is shown as merged back to Merging or        *)
(* Blocked; only runs side by side can.                                    *)
MergedStays == [][status = "merged" /\ status' # "merged" => overlapped]_vars

(* Repairs that fail are counted over runs by their comments, and the      *)
(* runs stop at the limit.                                                 *)
RepairsEnd == repairs > RepairLimit => overlapped

(* A run that finds no comment of an earlier merge run on the issue merges *)
(* an open pull request only when it is approved: it read Ready to Merge   *)
(* itself once its turn had come, or was forced on an issue at Merging.    *)
Merges(r) == run[r].step = "merge" /\ pr # "merged" /\ pr' = "merged" /\ run'[r] # run[r]
UnmarkedMergeIsApproved ==
    [][\A r \in Runs :
          Merges(r) => run[r].marker \/ Eligible(run[r].saw, run[r].force)]_vars

(* "PM Review (no Ready to Merge) | wrong_status" and "PM must manually    *)
(* move issue PM Review to Ready to Merge before running merge"            *)
(* (docs/milestones/m6-merge-phase.md): every merge is of an approved one. *)
MergeIsApproved ==
    [][\A r \in Runs : Merges(r) => Eligible(run[r].saw, run[r].force)]_vars

(* An approved issue without a merge comment does not stay at Ready to     *)
(* Merge or Merging, also when the run that took it fails, crashes or is   *)
(* refused by Linear: it is merged, blocked or withdrawn, unless a job was *)
(* lost, a run from a shell or a finalization failed, or a run failed      *)
(* before it could move the issue.                                         *)
ApprovedIsSettled ==
    status = "ready" /\ ~Marker
      ~> status \in {"merged", "blocked", "pm_review"} \/ cut
=============================================================================
