# p-dev harness runner: TLA+ models, checks and proofs

The repository is a TypeScript harness that turns a Linear issue into a merged
pull request. Linear webhooks reach a small bridge; the bridge and the runner
write *job-request envelopes* to a GitHub branch and send `repository_dispatch`;
GitHub Actions jobs claim an envelope and run one *phase* (planning, plan
review, implementation, handoff, code review, code revision, revision, merge,
...), most of which start a Cursor agent; a phase ends by moving a durable
*workflow state record* (another file on a GitHub branch), the issue's Linear
status and the pull request. All paths below are relative to the repository
root.

Every one of these processes may run twice, may lose a write to another one, and
may be cancelled between two API calls. The models are about that: what two
runs, deliveries or reconcile passes do to one envelope or one workflow state.

## Inventory

### State and who writes it

| State | Where | Written by |
|---|---|---|
| Job-request envelope (`status`, `claim`, `revision`, dispatch fields) | one file per request on the envelope branch; compare-and-set on blob sha and revision | bridge, runner jobs, merge reconcile |
| Workflow state record (`currentPhase`, `reviewLease`, `reviewDecisions`, `cycles`, `implementationArtifact`, `lastTransitionIdentity`, dispatch effects, `revision`) | one file per issue on the state branch; same compare-and-set with up to `DEFAULT_WORKFLOW_STATE_MAX_RETRIES` (3) tries | every phase, reconcile |
| Issue status, comments, labels | Linear | phases, people; last write wins |
| Branch and pull request | GitHub | agents, merge phases |
| Agent runs | Cursor | phases; outlive the job that started them |
| Production completion, builder thread, provenance records | files on branches or in `logDirectory` | merge and sync phases, implementation, launches |

### Components

| Component | Source | State and operations | What makes it correct | Here |
|---|---|---|---|---|
| Envelope store and claim protocol | `src/workflow/job-request/{store,claim,create,acknowledge,types}.ts` | envelope: create, claim, complete, fail, reclaim, reopen, expire, acknowledge | one claim at a time; a claim is ended by its owner or explicitly reopened; every write follows the lifecycle | `JobEnvelope`, `JobRequest`, `EnvelopeLifecycle` |
| Creation and dispatch | `dispatch-opaque.ts` | create, dispatch, duplicate outcomes | a request delivered twice is dispatched once | `JobRequest` |
| Runner workflow | `.github/workflows/harness-auto-runner.yml`, `src/workflow/finalize-harness-run.ts` | gate, run-harness and run-merge jobs, doctor, claim, finalize, concurrency cancellation | a run past its claim owns the envelope; a failed doctor leaves no claim; outcomes are recorded | `JobRuns` |
| Merge reconcile dispatch | `dispatch-merge-reconcile.ts` | reopen, attempt, send, confirm | no second dispatch of one attempt; a confirmed dispatch was sent; a live claim is kept | `MergeDispatch` |
| Workflow state and its compare-and-set | `src/workflow/state/*.ts` | load, claim, lease, transition, retry | no lost update; a lease is respected | `CodeReviewLoop` (the fields of this loop) |
| Code review and code revision | `src/runner/phases/code-{review,revision}.ts` | claim, agent, decision, push, artifact, status | one decision per artifact, about that artifact; cycle limit; only reviewed code reaches PM Review; the issue shows the decision | `CodeReviewLoop`, `ReviewCycle` |
| Transition engine and definition | `src/workflow/transition-engine.ts`, `definition/*.ts` | the phase graph, evidence checks, cycle limits | every phase reachable and left; optional phases skipped consistently; failures end in blocked | the branches of the two review loops |
| Dispatch effects | `src/workflow/{code-review,plan-review,implementation}-dispatch-effect.ts`, `state/side-effects.ts` | pending, dispatching, dispatched, completed, blocked, with owner claims | one owner between claim and mark; what is reported as started was requested | `DispatchEffect`, `CodeReviewDispatch`, `PlanReviewDispatch`, `RequestOnce`; the implementation copy is planned |
| Workflow reconcile | `src/runner/workflow-reconcile.ts`, `reconcile-health.ts` | recovery of stuck phases, scheduled or pinned to an issue | idempotent; undoes no progress | the merge, code review and plan review branches |
| Planning and plan review | `src/runner/phases/{planning,plan-review}.ts` | plan on record, dispatch of its review, reviewer agent, reparse, repair, decision, status | a decision is about the plan on record, and its reviewer has read that plan | `PlanReviewDispatch` |
| Implementation, PM revision, builder thread | `src/runner/phases/{implementation,revision}.ts`, `builder-thread*` | agent reuse | an agent is not reused for work it did not do | planned |
| Failure finalization | `src/runner/failure-finalization.ts` | blocks the issue of a failed run | an issue left in progress is blocked, and no other one | `MergePhase` for merge runs, `JobRuns` for the envelope |
| Handoff | `src/runner/phases/handoff.ts` | transition, dispatch of the review, announcement | the review it announces starts | `CodeReviewLoop`, `CodeReviewDispatch` |
| Production sync and production completion | `src/runner/phases/production-sync.ts`, `production-sync-candidates.ts`, `src/workflow/state/production-completion*.ts`, `.github/workflows/harness-reconcile-production.yml` | completion record with seven effects; a pass per listed issue | recorded effects took place, none is lost or made twice, the issue moves only with a deployment, a live merge is shown | `ProductionSync` |
| Merge phase, integration repair | `src/runner/phases/{merge,integration-repair}.ts`, `idempotency.ts`, `merge-reconcile.ts` | route, marker checks, repair, merge, completion comment, status | an issue shown as merged is merged; announced once; only what is approved is merged; a failure is shown | `MergePhase` |
| Webhook bridge, Linear, GitHub, Cursor clients | `src/webhook`, `src/linear`, `src/github`, `src/cursor` | stateless adapters | | as the environment of the models |
| Setup, GUI, evaluation, observability, provenance, prompts, skills, models, config, CLI, preview, product, fixtures | rest of `src/`, `apps/`, `scripts/` | local or append-only | | not modelled: no state shared with the protocols above |

PROJECT.json lists the same components with their status, and the hazards of
the code with the line where each bites.

### How the parts interact

    Linear webhook -> bridge -> envelope (create) -> repository_dispatch
                                   |                        |
                                   v                        v
          reconcile pass -> envelope (reopen, attempt) -> Actions gate job
                                                            |
                                                            v
                 run-harness / run-merge: claim envelope -> doctor -> phase
                                                                      |
       workflow state <-- load, claim lease, agent, apply transition --+
       Linear status  <-- comment, setStatus --------------------------+
       pull request   <-- agent pushes --------------------------------+
                                                            |
                                                            v
                                          envelope (completed / failed)

The phases of one issue:

    backlog -> planning_dispatch -> planning -> plan_review -> implementation_dispatch
    implementation_dispatch -> implementation -> handoff -> code_review
    code_review -> pm_review | code_revision -> code_review   (at most 4 cycles)
    pm_review -> engineering_review | revision_dispatch -> revision -> code_review
    engineering_review -> merge_dispatch -> merge -> merged_to_dev | merged_deployed
    any failure -> blocked

### What is hard here

- Two processes act on one record loaded earlier by each: claims, reopenings,
  leases, decisions, dispatch attempts (interleaving, stale state).
- Most conclusions are drawn from a load and acted on by a later write
  (atomicity), and some writes are *blind*: they go on after a refused
  compare-and-set with the revision the refused write would have produced.
- 409 also comes from writers of other files on the same branch: a refused write
  says nothing about this record. Workflow state is written with three tries, an
  envelope with one.
- A run is cancelled by its concurrency group, by the six-hour limit or by an
  operator between any two calls; its agent keeps working.
- A repository_dispatch is accepted and its run starts late, or never.
- Linear's status is set after the durable state, by an unguarded last-write-wins
  call, and is what starts the next phase.

## The models

### JobEnvelope, JobRuns, JobRequest, EnvelopeLifecycle

`JobEnvelope` holds the envelope and the pure functions of `claim.ts`,
`create.ts` and `acknowledge.ts` on a record. An envelope is a record of its
status, claim owner, completion, revision, acknowledgement and dispatch;
`CasMatches` is the check of `compareAndSet` in `store.ts`: a write takes effect only if
the stored revision is the expected one, and the model keeps the record a writer
*holds* apart from the one stored (`CasWon`, `CasLost` in `JobRuns`).

`JobRuns` is the runner workflow, one action per step that touches the envelope:
gate load, claim load, claim compare-and-set, reload, doctor, acknowledgement,
re-check, phase, the finalize step's second claim and its terminal write. The
finalize step runs whenever its condition in the workflow says so (`Finalized`): in
run-merge also after a rejected claim, a cancellation before doctor ended or a
dispatch-metadata step that failed, in run-harness only once the route was
resolved again. `Cancel` ends a run between any two steps, with or without that step.
A run whose only report was refused, or that was lost before it made one, ends
`Unreported`. `JobRequest` composes it with *creators*
(`createEnvelopeAndDispatch`: find, create, send, with its duplicate outcomes) and
*reopeners* (the code that reopens a false duplicate). `EnvelopeLifecycle` is the
abstract specification: pending -> claimed -> completed | failed, the claim
owner fixed while claimed, reopening only from a completion that proves nothing
was done, and no way back from expired; the detailed one implements it through a refinement
mapping that hides revisions, runs and acknowledgement.

Constants: `Run`, `Creator`, `Reopener` (who acts), `AckRequired` (the handshake
is on), `MergeJob` (the run-merge job rather than run-harness), `Contention`
(writers of other files make a write fail with 409), `Cancels`.

### MergeDispatch

`dispatchMergeReconcileJob` step by step for several reconcile passes over one
merge envelope: load, stale-claim failure (two loads), reopening, attempt,
`repository_dispatch`, confirmation, and the runs of `JobRuns` that serve what
was sent. A pass that throws, or that makes a dry run, ends where it would create
the envelope or write its attempt (`EarlyReturn`). `accepted` counts the dispatches
GitHub took since the envelope was created or last failed. A run started by hand is
left out here to bound the state space; it is part of `JobRequest`.

### CodeReviewLoop, ReviewCycle

The workflow state record's fields for this loop, the issue's status, the head
of the pull request and, per run, its stage and what it holds. A reviewer run
(`code-review.ts`): start from the status, load, eligibility gate, claim through
`applyWorkflowTransition`, inspection of the pull request, agent, decision,
status. A reviser run (`code-revision.ts`): load, agent, push, inspection,
transition, status. Both use the same model of `applyWorkflowTransition`: each
try loads, rebuilds the next state, judges lease, duplicate and evidence, and
writes on the loaded revision; a refused write is tried again up to `MaxTries`.
A failed pull-request inspection falls back to the artifact (`Inspected`).
`ReviewCycle` is the abstract specification: every decision is about the code on
record and each code is decided once, the cycle counter moves once per revision
asked for and stops at its limit, and code is only replaced after a revision
was asked for.

A commit number stands for PR, head sha and diff hash; an artifact is a commit
and the generation that made it. The agent is one action with a usable or
unusable answer. `Crash` loses a run anywhere and leaves its lease.

Constants: `Reviewer`, `Reviser`, `MaxCycles` (4 in the code), `MaxTries` (3 in the
code), `Contention`, `MaxCrashes` (a budget, only to bound the runs),
`Stalls`. `Stalls = FALSE` is a timing assumption that the code makes without
checking: an agent turn, minutes long, outlasts the few API calls that other
runs were in the middle of when it began, and a lease does not expire between
another run's load and its claim. With `Stalls = TRUE` neither holds, and then
two agents can review one artifact; the lease and the freshness of decisions
still hold, and are checked and proved without the assumption.

### RequestOnce, DispatchEffect, CodeReviewDispatch

Handoff, planning and reconcile start a review through a *dispatch effect* in the
workflow state: `pending`, then claimed by an owner (`dispatching`), then
`dispatched` with the id of its job request. `DispatchEffect` holds what the two
review copies of this protocol share: the effect with its claim and mark, the
compare-and-set of the state, the envelope as the owner finds or creates it, the
throwing calls, the repair of a lost mark, the recovery of a false duplicate, and
the claim of the envelope by a run. `CodeReviewDispatch` adds
`ensureCodeReviewJobDispatched` with its retries, the three callers (handoff, the
scheduled pass and the pinned pass of workflow reconcile), the handoff's report
to the issue, the reviewer runs and the revision that makes a second subject. Every
load of an envelope may fail and then counts as no envelope (`Misread` when the owner
has claimed, `MissedRequest` after a lost claim); the dispatch token may be missing when
the owner comes to send, or after a false duplicate was reopened (`NoTokenLeft`);
and handoff's announcement is written to the state as well, a write that may be refused
(`Announce`). `RequestOnce` is the abstract specification: a subject is claimed by one owner at
a time, and recorded as requested only by that owner, with its job there.

Left out: the retry delays; a process restart keeps nothing of a dispatcher, so
a retry by the same caller is a new dispatcher. A lost owner keeps its claim
(`claimedAt` never expires), and `activeReviewSubjectIdentity` is never cleared:
both are in the model because they are in the code.

Constants: `Dispatcher` (handoffs and passes), `Run`, `MaxSubject`, `MaxRetries`
(code: 3), `MaxFaults` (calls that throw and processes that are lost), `NoOwner`.

### PlanReviewDispatch

The same protocol in its plan review copy, around the planning run that makes a
plan (start, store, pending, claim, send, mark, report), and the reviewer run:
start from the status, load, agent or reparse of the agent on record, repair
turn, decision through `applyWorkflowTransition` with its reload on conflict,
status. Planner slots are used again for the next plan, so the number of plans is
bounded by `MaxSubject` alone. A plan is posted as a comment (`PlanPost`) before it is
stored with its transition (`PlanStore`); when that is refused or throws, planning
goes on to the pending effect and the dispatch all the same (`PlanUnstored`), so a
plan may have a reviewer and not be on record. The reviewer makes its decision out to
the plan on record, or to that of the newest comment when there is none; what its agent
reads is the newest comment either way. An accepted decision puts a plan from a
comment on record (`Accepted`). That the agent reads the newest comment assumes that
Linear lists the oldest first: `plan-review.ts:299` turns the list around and takes the
first match, while `recover-plan-artifact.ts:31` goes by creation time and expects
lists that are newest first, where the agent would read the oldest plan.
Left out: execution policies, workflows without
plan review, `acceptedReviewSubjects` (read and never written), and the maximum of
attempts (not reachable with the cycle limit).

### ProductionSync

One pass of `executeProductionSyncForIssue` per process: fetch the issue, list
its comments, load the record and decide whether to proceed, prove the
promotion, then walk through `Program`, the order in which the code persists
states, projects effects and verifies the deployment. An effect is two steps, the
call and the persist, so that a pass can be lost in between. `Base` is
`mutateProductionCompletionCas`: the mutation goes on top of the record that is
stored when the compare-and-set succeeds, not of the one the pass read. Passes in
`Jobs` share the concurrency group `harness-production-sync` (the
`production_promoted` job and the 20-minute reconcile) and take only issues at
the integration status; a pass in `Shells` is `p-dev sync-production` by hand, may
overlap any other, and may be forced. Any pass may be dry: it persists states,
and makes no effect.

The environment promotes by merge or by squash, deploys, configures the provider,
rewinds the production branch, and moves the issue. `MaxUpsets` bounds everything
that disturbs the schedule. One merge of one issue; the marker, when it names a
commit, names the merge commit of the pull request, so two completion identities
suffice (`Ids`); evaluation is enabled, so a score is a call that can fail;
evidence fields and the run's manifest are left out.

### MergePhase

`executeMergePhase` step by step for the runs of one issue with one pull request.
A run of the workflow is let through by the route step (`Route`,
`evaluateMergeReconcile`), waits for the group `harness-merge-*` (`Start`), reads
status and comments once, moves the issue to Merging (`Enter`), inspects the pull
request (`Inspect`, with the second idempotency check), waits for the checks,
repairs a branch that is behind (`Repair` by update-branch, `RepairAgent` by an
agent), merges, inspects again (`Post`), posts the completion comment (`Publish`)
and sets the status (`Finish`). `Verdict` is `checkMergeIdempotency`. `Caught` is the
catch block: a failure after the issue was moved is commented on (`ReportError`)
and blocks it (`Block`); a Linear failure after the merge leaves only a recovery
artifact in the run's directory, which nothing in the code reads. A failed run of the workflow is then finalized
(`Finalize`, `Stop`: `finalizeFailedHarnessRun` blocks an issue that the run, by its
manifest or for want of one, left at Merging); `Crash` ends the merge step alone,
`LostJob` the whole job. A run in `Shells` is `harness:run` by hand: no route, no
group, no finalization.

Every call to Linear or GitHub may be refused, and the merge request may take
effect without an answer; every comment and every status may be set by a call that
throws. A merge request refused with 409 counts as an earlier merge, whatever its
reason (`merge-result.ts:16`): a run that moved the issue to Merging looks at the pull
request again and fails if it is open, any other run is `misled`. Around the runs a person approves and withdraws, the branches move, and
the pull request may be merged by hand. Left out: which commit is merged, the
production deployment (one more way to fail), previews, the run status comment,
several pull requests per issue, and the merge source comment that names the
pull request. One kind of merged status stands for both.

Constants: `Queued` (one slot stands for all runs of the group one after the
other, since a run keeps nothing when it has ended), `Shells`, `RepairLimit`
(3 in the code), `MaxNotes` (where the comments of a kind stop being counted).

## What TLC checks

| Run | Instance | Question | Result |
|---|---|---|---|
| job_request_webhook | 3 runs, 2 deliveries, contention, cancellation | `ClaimExclusive`, `OneDispatch`, `OwnerTerminalizes`, `TypeOK` | hold |
| job_request_reopen | 2 runs, 1 creator, 2 reopeners, contention, cancellation, fair | `ImplementsLifecycle`: every write, by anybody, is a step of the lifecycle; `WorkIsRecorded`, `DoctorFailureReleases` | hold |
| merge_dispatch | 3 reconcile passes, 1 run, contention, cancellation | `ConfirmedWasSent`, `CompletedStays`, `TypeOK` | hold |
| merge_live_claim | 2 passes, 2 runs | `LiveClaimKept` | violated, finding 1 |
| code_review | 3 reviewers, 2 revisers, 5 crashes, no stalls | `OneAgentPerArtifact`, `ImplementsReviewCycle`, `LeaseKept`, `DecisionIsCurrent`, `TypeOK` | hold |
| review_decision_lost | 3 reviewers, 1 reviser, 1 crash, fair | `DecisionShown` | violated, finding 2 |
| code_review_dispatch | 1 handoff, 1 pass, 2 runs, 2 subjects, 1 retry, 2 faults, fair | `OneDispatcher`, `ProvenIsRequested`, `ActiveIsRequested`, `ImplementsRequestOnce`, `HandoffStartsReview`, `TypeOK` | hold |
| plan_review | 1 planner, 1 pass, 2 runs, 2 plans, 1 cycle, 1 fault | `OneDispatcher`, `ProvenIsRequested`, `ImplementsRequestOnce`, `NoStaleDecision`, `TypeOK` | hold |
| plan_reviewed_twice | 2 planners, 2 runs, no fault | `DecisionIsAboutPlan` | violated, finding 3 |
| production_sync | 1 pass of the group at a time, 1 from a shell, 2 upsets, fair | `RecordedIsProjected`, `CompletedIsComplete`, `SecondCommentNeedsOverlap`, `EffectsKept`, `ShownIsDeployed`, `LiveIsShown`, `TypeOK` | hold |
| merge_phase | 1 run of the group at a time, 1 from a shell, 1 repair, fair | `ShownIsMerged`, `OneCompletion`, `RepairsEnd`, `MergedStays`, `UnmarkedMergeIsApproved`, `ApprovedIsSettled`, `TypeOK` | hold |
| merge_unapproved | 1 run of the group at a time | `MergeIsApproved` | violated, finding 4 |

Why the bounds are enough. The protocols compare one stored record with one
held record, so an error needs a writer, a rival that writes in between and,
where owners are compared, a third that follows: three runs and two creators or
reopeners cover each pair and its successor. Where refused writes and lost
runs make the instance large, the number of runs goes down and the actors that
the question is about stay: two reopeners for the lifecycle, three passes for the
confirmation of a dispatch (two runs and three passes, seven million states, and
three runs and one reopener give the same answers). In the review loop a cycle limit of
1 already separates "below the limit" from "at the limit"; two revisers let one
replace what the other built, and three reviewers let one decide while another
waits and a third follows the crash of the first. In the dispatch models one
handoff (or planner) and one pass race for one effect, and a second subject (or
plan) meets what the first left behind; every error found with three dispatchers
or three faults is found with these. In production sync one slot of the group
stands for all its passes, since they never overlap and keep nothing; two upsets
let a shell pass overlap and one of the two be lost, or a pass be lost and a
person move the issue. In the merge phase a slot of the group is used again and
again, with no bound on faults, approvals or pushes; the run from a shell is the
one that can overlap. A repair limit of 1 separates "below" from "at", and two
counted comments separate one from more. Revisions are not bounded:
runs are finite, so their writes are. Runs are interchangeable, and the safety
runs of the job, merge and plan models use that symmetry; the liveness runs do not.
Every cfg switches the deadlock check off since the system stops when its runs
have ended.

Some limits of the checked properties are worth knowing. `ClaimExclusive` and
`OwnerTerminalizes` are claims about envelopes that are never reopened: after a
reopening the first owner may still be running, and `transitionJobRequest` does
not compare owners. `WorkIsRecorded` and `DoctorFailureReleases` are checked with
refused writes, cancelled and lost runs, and excuse just two things: a run that was
lost, and the one write of its report being refused (`Unreported`). Then the work is
not recorded and the claim stays, because neither `finalize-harness-run.ts:30` nor
`fail-job-request.ts` tries again. `ConfirmedWasSent` speaks of open envelopes: a failed
or expired one may keep an old confirmation, and reopening clears it.
`ShownIsMerged` and `OneCompletion` except what follows a run that was `misled` by a
409; `NoStaleDecision` excepts decisions of a reviewer that found no plan on record.
`UnmarkedMergeIsApproved` is about runs that find no comment of an earlier merge run;
for the others it is false, which is finding 4. `OneAgentPerArtifact` tells artifacts apart by head and
generation. The subject that the code's lease names is the head alone, and "one
agent per subject" is false: a reviser whose inspection fails stores the head it
set out from as a new generation, so with three overlapping revisers an older
head can become current again and get a second reviewer while the agent of the
first still works. Likewise "PM Review shows only reviewed code" holds
with one reviser and not with two, so the abstract `ReviewCycle` allows a
revision whenever one has ever been asked for.

Fairness. The runs with liveness assume weak fairness of each process's own
steps: Actions schedules a job's steps one after the other, an agent ends or
times out, and a dispatcher goes from call to call (`WF` on each run, dispatcher
and pass). `ProductionSync` adds strong fairness of the scheduled start: the
20-minute schedule of `harness-reconcile-production.yml` asks for a pass again
and again, and gets the concurrency group at some of the times at which it is free and the
issue is listed; weak fairness would say nothing, since other passes of the group take it
in between. `MergePhase` assumes that a run of the group at work goes on, that its
turn comes (`Start`), and that the route of an issue at Ready to Merge is taken
again: the scheduled reconcile dispatches it until it has moved. Its liveness
property `ApprovedIsSettled` excuses what no code can settle, a lost job, a
run from a shell that ends at a failure, or a finalization that fails itself
(`cut`). Nothing is assumed of cancellation, crashes, expiry, reopeners,
people, deployments or new deliveries: none of these is ever owed.

### Findings

1. `claim.ts:238`: `isStalePrePhaseClaim` needs evidence of a live agent that neither
   caller passes, so a claim whose run is executing the merge is failed,
   reopened and dispatched again; the comment at 228-229 says it is safe.
2. `code-review.ts:1079`: the decision is stored without the pending side effects that
   `docs/decisions/0007-modular-workflow-state-machine.md:26` promises; a run lost
   before the status is set leaves the issue in Code Review for good.
3. `plan-review.ts:477`: the reviewer of the next plan resumes the agent of the plan
   before and can read its old answer as a decision about the new plan, where
   `docs/decisions/0007-modular-workflow-state-machine.md:130` promises a fresh agent.
4. `idempotency.ts:429`: the error comment of a failed merge carries the footer of a
   merge marker, so the next run "recovers" past every status check and merges a
   pull request whose approval was withdrawn while it waited for the group
   (`docs/milestones/m6-merge-phase.md:143` promises `wrong_status`).

More disagreements were met and are recorded as hazards, without a run of their
own:

- `acknowledge.ts:95` goes on with the record of a refused write, so its second
  write can undo an expiry (`ImplementsLifecycle` fails with `AckRequired`; that it can
  do no more is `AcknowledgedImplements`);
- `dispatch-merge-reconcile.ts:314` sends a second `repository_dispatch` when the
  winner of the attempt has not confirmed yet;
- `dispatch-opaque.ts:96`: an envelope whose event was never sent counts as proof, so
  a handoff that is repeated announces a review ("Only now is it truthful ...",
  `handoff.ts:1004`) that nothing has started;
- `production-sync-candidates.ts:101`: a pass lost after the status transition leaves
  a record that no reconcile lists again, where
  `docs/production-sync-automation.md:132-133` says to re-run reconcile;
- `merge-result.ts:16`: any 409 counts as "already merged", also the one GitHub gives for
  a head that has moved. A run that did not move the issue to Merging itself (a forced
  or a recovering one) skips the check at `merge.ts:1047`, announces the open pull
  request as merged and sets the status; a later run merges it and announces it again;
- `dispatch-merge-reconcile.ts:347` and `finalize-harness-run.ts:30` write once: a 409 caused
  by another envelope loses a confirmation, or the outcome of a run;
- `merge.ts:722`: after a failed merge whose pull request is merged by then, a
  re-approved issue is moved to Merging and the run ends as a duplicate, which
  leaves it there; so does a forced run after one that was lost between the
  completion comment and the status. `ApprovedIsSettled` is therefore about
  issues without a marker;
- `docs/integration-repair.md:64` has a run cancelled while Merging recovered by a
  forced run, but the finalize step (`failure-finalization.ts:347`) has moved the issue
  to Blocked, where a forced run is refused. The same step blocks the issue of a
  merged pull request after a Linear failure.

## What TLAPS proves

All theorems hold for every value of the constants under the named assumptions,
and TLC evaluates those assumptions on each run.

`JobRequestProof`, for any runs and creators and for lost writes and
cancellation anywhere:

- `TypeCorrect`: `Spec => []TypeOK`;
- `SingleDispatch`: the invariant `OneDispatch`, for any reopeners too;
- `ExclusiveClaim`, `ClaimEndedByOwner`: the invariant and the action property of the
  webhook run about claims, without reopeners (`Reopener = {}`);
- `Implements`, `AcknowledgedImplements`: the lifecycle, see below.

`SingleDispatch` rests on `DispatchInv`: until a creator has sent the dispatch no run
has started, so nothing has been completed and no reopener has anything to
write; and the creator that made the envelope is the only one to send. The two
theorems about claims need more. Their invariant adds that a run past the gate owns the
envelope or its owner has ended it (`GateInv`, `OwnerInv`); that a held record has
a revision at most the stored one, and is the stored record when they are equal
(`LoadedInv`, `SeenInv`: this is what makes the compare-and-set meaningful); that a
blind acknowledgement can only write the claim that is there (`AckInv`); and
that a creator is alone with its envelope until it dispatches (`CreatorInv`).
After a reopening these are false, as said above.

`Implements` proves the refinement of the reopen run, `Spec => ImplementsLifecycle`,
for any creators, runs and reopeners, contention and cancellation included, on
envelopes that ask for no acknowledgement (`~AckRequired`: a blind acknowledgement
would write a record its run never loaded). Its invariant (`HeldInv`) is that every
writer holds the stored record or one that is out of date, that a reopener holds
one it may undo, and that a run which reports has something to report; each step
is then one lifecycle step on the stored record, the creation, or nothing.

With acknowledgements the refinement is false (an expiry can be undone), and
`AcknowledgedImplements` says that this is all: without reopeners,
`Spec => Lifecycle!Init /\ AcknowledgedLifecycle`, where every step is one of the
lifecycle or `ExpiryUndone`, which puts back the very claim or result that had
expired. On top of the invariant for claims it needs that what an acknowledging
run holds has the stored completion and a status that goes with it, or an
expiry (`DoneInv`), since the only other run that could have changed the
completion meanwhile is its owner, which is the run itself; and that whoever
passed the gate without the claim found the work done.

`CodeReviewLoopProof`, for any reviewers, revisers and limits, with contention
and stalls allowed (`RunsAssumption`, `LimitsAssumption`, `ModesAssumption`):

- `TypeCorrect`: `Spec => []TypeOK`;
- `LeasesKept`: an unexpired lease is ended by its owner alone;
- `DecisionsAreCurrent`: every stored decision is about the artifact on record at
  that moment, although the reviewer judged an artifact loaded before its agent
  ran;
- `OneReviewPerArtifact`: the invariant `OneAgentPerArtifact`, when `~Stalls`;
- `FollowsReviewCycle`: the refinement `ImplementsReviewCycle`, when `~Stalls`.

The invariant relates what a run holds to what is stored: its revision and
expected revision are at most the stored one; the artifact it holds is the stored
one or one whose generation was superseded (`Known`, since a generation never
returns); at a claim's write on the stored revision the lease is not a foreign
live one (`ClaimJudged`); at a decision's write on the stored revision its
generation is not superseded (`DecisionJudged`). The last two say that what was
judged on a load still holds at a write that succeeds.

The last two theorems hold under the timing assumption of the run and have an
invariant of their own on top (`LeaseInv`). A reviewer that has not claimed and a
generation that is not stored yet are named nowhere (`ClaimsAreNew`,
`RevisionsAreNew`). A reviewer at work on the artifact on record holds its lease, and
the artifact is undecided (`LeaseOfReview`), so a run that loads now is shut out
(`Gated`). What is left are the runs that loaded before: for each of them on its way
to a claim nothing has been decided since (`SeesLatest`), and the review it would
duplicate has its agent still at work on a live lease taken after that load
(`Overtaken`), so its claim is refused. Hence the reviewer that stores a decision is
the only one of its artifact and finds it undecided, which is the guard `Fresh` of
`ReviewCycle`; and a reviser is only there after a revision was asked for (`RevisionAsked`).

`DispatchEffectProof` holds the lemmas both dispatch models share, from
`NoOwnerAssumption`; its invariant says of the effect and each dispatcher who
claims what: the owner on record is the one dispatcher between claim and mark,
and a state it holds at the stored revision is the stored state.
`CodeReviewDispatchProof` and `PlanReviewDispatchProof` rest on it and prove, for
any dispatchers, subjects or plans, runs, retries and faults
(`BoundsAssumption`, `ContentionAssumption`; `PlannerAssumption` and
`CyclesAssumption` for plans):

- `TypeCorrect`, `OneDispatcherCorrect`, `ProvenCorrect`, and `ActiveCorrect` for code
  review: the invariants of the runs;
- `NoStaleDecisionCorrect`: no decision about a plan found on record is accepted for
  another one - what a reviewer judged on a load still holds at a write on that
  revision. A plan that was once on record is on record or superseded for good
  (`Recorded`, `Grows`), and a run that is to decide holds one of those, the one on
  record if nothing was written since (`Current`);
- `Refines`: both protocols implement `RequestOnce`. For code review this needs to know
  what a handoff holds when it writes again after its mark (`LateInv`): at the stored
  revision, the stored effects but for its own, which it may hold as dispatched
  where the stored one is still claimed by it.

`ProductionSyncProof`, for any passes and any number of upsets
(`UpsetsAssumption`, `NoRecordAssumption`):

- `TypeCorrect`, `RecordedTookPlace`, `CompletedHasAll`, `OneComment`: the invariants of
  the run;
- `EffectsStay`, `ShownAsDeployed`: its action properties.

The invariant says of each pass what it owes: the effects it holds took place
(`Sound`); those before its place in `Program` are in the record it holds, and
past the verification the deployment is there (`Placed`); what it holds is in the
stored record (`Kept`); and without overlap a pass that listed no comment is the
only one that can post (`Lists`, `Alone`). `Placed` and `Kept` need one completion
identity or passes that never overlapped (`Single`): an unmarked merge has two
identities, and a pass that blocks under the second replaces the record of the
first.

`MergePhaseProof`, for any runs of the group and from shells and any repair limit
(`NotesAssumption`):

- `TypeCorrect`, `ShownAsMerged`, `CompletedOnce`, `RepairsStop`: the invariants of the
  run;
- `MergedRemains`, `UnmarkedApproved`: its action properties.

The invariant says that the fields of a run belong together (`Sound`: one past
its checks has a verdict that let it through); that a run which takes the pull
request for merged is right, or is `misled`, or moved the issue to Merging and has
still to look again (`Fits`), since nothing unmerges it; and that while no two runs have overlapped,
what a run read of completions, repairs and status still holds (`Current`), since
only runs write them and `Alone` leaves one at work. `ShownIsMerged` and
`UnmarkedMergeIsApproved` need no such condition on overlaps.

`MergeDispatchProof`, for any passes and runs:

- `TypeCorrect`: `Spec => []TypeOK`, acknowledgements and refused writes included;
- `CompletedRemains`, `ConfirmedSent`: the action property `CompletedStays` and the
  invariant `ConfirmedWasSent`, for envelopes that ask for no acknowledgement, as merge
  envelopes do (`~AckRequired`), whichever writes are refused.

A pass numbers what it holds from writes that may never have landed, so it can
meet a stored envelope with the revision it holds and other contents, or hold a
revision that is not stored yet; "same revision, same envelope" is not an
invariant here. The invariant counts instead how far a pass can have numbered
ahead: at most one write above a failed envelope when it is about to attempt, at
most two after that (`Numbered`, `RecInv`). A completion is at least three writes
above a failed envelope and two above an open one, so a stored envelope that has
the revision a pass holds is not a completed one. Each step is one write, the
creation, or nothing (`Changes`), and what a run holds is the stored envelope or
out of date (`RunInv`). `ConfirmedSent` adds that a pass which is still to confirm has
had a dispatch accepted since the last failure, or holds less than the stored
revision (`SentInv`): a failure is written on a claimed envelope, whose number is above
all that a pass can hold by then.

Only model-checked: the liveness properties (`WorkIsRecorded`,
`DoctorFailureReleases`, `HandoffStartsReview`, `LiveIsShown`, `ApprovedIsSettled`),
which are beyond this prover. Every invariant, action property and refinement of
a passing run is also a theorem. Not
provable with the installed provers at all: liveness under fairness, ENABLED, and
what a recursive definition computes for every input.

## Plan

Done: the envelope protocol, the merge dispatch, the code review loop, the two
review dispatches with planning and plan review, production sync, the merge phase
with integration repair and failure finalization, and their proofs. Next, in this
order:

1. `WorkflowDefinition`: the phase graph with optional phases as functions, checked
   against a reference closure; `TransitionEngine` over it.
2. The implementation and PM revision phases: the third copy of the dispatch
   effect, the builder thread, the finalization of their runs.
3. Composition of handoff, dispatch effect, envelope and review loop: a handed-off
   pull request is reviewed or the issue says why not.

Theorems to come: what of the claim survives a reopening (which runs may still be
at work on the envelope), and what `OneAgentPerArtifact` becomes when agents may
stall.

Not modelled and not planned: setup, GUI, evaluation, observability, prompts and
configuration share no state with the protocols; the text of prompts, comments
and answers is seen only as usable or not; the clients of Linear, GitHub and
Cursor are seen through what their callers do with a result.
