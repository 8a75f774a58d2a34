--------------------------- MODULE ProductionSync ---------------------------
(***************************************************************************)
(* Production sync of one merged issue (executeProductionSyncForIssue): a  *)
(* pass proves that the merge reached the production branch and that a     *)
(* READY deployment contains it, then projects seven effects to Langfuse   *)
(* and Linear and records each in the production-completion record before  *)
(* it goes on.  The passes of the concurrency group harness-production-sync *)
(* (dispatch and the 20 minute schedule) run one at a time; a pass started *)
(* from a shell may overlap them.  A pass can be lost, or an API call can  *)
(* throw, at every step; people move the issue meanwhile.                  *)
(*                                                                         *)
(* A persist (mutateProductionCompletionCas) is one step: its mutation is  *)
(* applied to the record the winning compare-and-set replaces, so only the *)
(* last of its tries has an effect; exhausted tries are a failure.         *)
(***************************************************************************)
EXTENDS Naturals, Sequences

CONSTANTS
    Jobs,         \* passes of the concurrency group
    Shells,       \* passes started from a shell
    MaxUpsets,    \* bound on what disturbs the schedule: passes from a shell,
                  \* passes lost or stopped by an API call that throws, moves of
                  \* the issue by people, the production branch dropping the merge
    NoRecord      \* no production-completion record is stored yet

Passes == Jobs \cup Shells

ASSUME UpsetsAssumption == MaxUpsets \in Nat

VARIABLES
    record,       \* the stored production-completion record
    status,       \* the issue's Linear status
    comments,     \* production comments on the issue
    projected,    \* effects that have taken place in Langfuse and Linear
    promotion,    \* how the merge stands to the production branch
    ready,        \* a READY deployment contains the merge
    verifier,     \* the provider is Vercel and its token is there
    marked,       \* the merge comment names the merge commit
    pass,         \* per pass: its next step and what it holds
    overlapped,   \* two passes have run side by side
    upsets        \* disturbances so far

linear == <<status, comments, projected>>
github == <<promotion, ready, verifier, marked>>
counts == <<overlapped, upsets>>
vars == <<record, linear, github, pass, counts>>

Scores == {"langfuse_promoted_to_main", "langfuse_production_deployment_started",
           "langfuse_production_deployment_ready", "langfuse_production_verified",
           "langfuse_delivery_outcome"}
Effects == Scores \cup {"linear_production_comment", "linear_status_transition"}
States == {"promotion_proof_pending", "promotion_proven", "deployment_verified",
           "linear_projection_pending", "langfuse_projection_pending",
           "completed", "blocked"}
Statuses == {"integration", "production", "elsewhere"}

(* Completion identities that differ in their merge sha: the merge commit, *)
(* or, for an unsupported promotion of an unmarked merge, another commit.  *)
Ids == {"merge", "diagnostic"}
Records == [id : Ids, state : States, done : SUBSET Effects]
ASSUME NoRecordAssumption == NoRecord \notin Records

Fresh(id) == [id |-> id, state |-> "promotion_proof_pending", done |-> {}]

Resolved(r, id) == IF r # NoRecord /\ r.id = id THEN r ELSE Fresh(id)
Complete(r) == r.state = "completed" /\ Effects \subseteq r.done

(* The steps of a pass whose merge is proven: a state to persist, an       *)
(* effect to project, or one of the two checks.                            *)
Program == <<"promotion_proven", "configured",
             "langfuse_promoted_to_main", "langfuse_production_deployment_started",
             "verify",
             "langfuse_production_deployment_ready",
             "deployment_verified", "linear_projection_pending",
             "linear_production_comment", "linear_status_transition",
             "langfuse_projection_pending",
             "langfuse_production_verified", "langfuse_delivery_outcome",
             "completed">>

VerifyStep == 5

PassSteps == {"idle", "fetch", "list", "load", "prove", "run", "save", "blocked"}
Idle == [pc |-> "idle", at |-> 1, dry |-> FALSE, force |-> FALSE,
         status |-> "integration", listed |-> 0, held |-> NoRecord]

Op(p) == Program[pass[p].at]
Running(p, ops) == pass[p].pc = "run" /\ Op(p) \in ops
Todo(p, ops) == Running(p, ops) /\ Op(p) \notin pass[p].held.done

End(p) == pass' = [pass EXCEPT ![p] = Idle]
Goto(p, pc) == pass' = [pass EXCEPT ![p].pc = pc]
Continue(p, r) ==
    pass' = [pass EXCEPT ![p].pc = "run", ![p].at = @ + 1, ![p].held = r]
Advance(p) == Continue(p, pass[p].held)

(* Variant: writes back what the pass read.                               *)
Base_Held(p) == pass[p].held

(* mutateProductionCompletionCas: the record stored now, or the pass's own *)
(* one where none of this identity is stored.                              *)
Base(p) == IF record # NoRecord /\ record.id = pass[p].held.id
             THEN record ELSE pass[p].held
WithState(r, s) == [r EXCEPT !.state = s]
WithEffect(r, k) == [r EXCEPT !.done = @ \cup {k}]

Upset == upsets < MaxUpsets /\ upsets' = upsets + 1

Init ==
    /\ record = NoRecord
    /\ status = "integration" /\ comments = 0 /\ projected = {}
    /\ promotion = "none" /\ ready = FALSE
    /\ verifier \in BOOLEAN /\ marked \in BOOLEAN
    /\ pass = [p \in Passes |-> Idle]
    /\ overlapped = FALSE
    /\ upsets = 0

----------------------------------------------------------------------------
(* listProductionSyncIssueKeysForRepo.                                     *)
Listed == status = "integration"

(* A pass of the group waits for the other passes of the group, takes only *)
(* issues listed at the integration status, and is never forced.           *)
Begin(p, dry, force) ==
    /\ pass[p].pc = "idle"
    /\ p \in Jobs => /\ \A q \in Jobs : pass[q].pc = "idle"
                     /\ Listed /\ ~force
    /\ pass' = [pass EXCEPT ![p] = [Idle EXCEPT !.pc = "fetch", !.dry = dry, !.force = force]]
    /\ overlapped' = (overlapped \/ \E q \in Passes : pass[q].pc # "idle")
    /\ IF p \in Jobs THEN UNCHANGED upsets ELSE Upset
    /\ UNCHANGED <<record, linear, github>>

Fetch(p) ==
    /\ pass[p].pc = "fetch"
    /\ pass' = [pass EXCEPT ![p].pc = "list", ![p].status = status]
    /\ UNCHANGED <<record, linear, github, counts>>

List(p) ==
    /\ pass[p].pc = "list"
    /\ pass' = [pass EXCEPT ![p].pc = "load", ![p].listed = comments]
    /\ UNCHANGED <<record, linear, github, counts>>

(* decideProductionSyncGate; the identity of an unmarked merge is not      *)
(* known before the proof, and no record has it.                           *)
Proceeds(p, r) ==
    \/ pass[p].force
    \/ pass[p].status = "integration"
    \/ pass[p].status = "production" /\ ~Complete(r)

(* Variant: a production comment alone ends the pass.                      *)
Load_MarkerSkips(p) ==
    /\ pass[p].pc = "load"
    /\ IF pass[p].listed = 0 /\ Proceeds(p, Resolved(record, "merge"))
         THEN pass' = [pass EXCEPT ![p].pc = "prove", ![p].held = record]
         ELSE End(p)
    /\ UNCHANGED <<record, linear, github, counts>>

Load(p) ==
    /\ pass[p].pc = "load"
    /\ IF Proceeds(p, IF marked THEN Resolved(record, "merge") ELSE Fresh("merge"))
         THEN pass' = [pass EXCEPT ![p].pc = "prove", ![p].held = record]
         ELSE End(p)
    /\ UNCHANGED <<record, linear, github, counts>>

(* resolvePromotionProof: a squash shows as commits that name the issue    *)
(* but do not contain the merge.                                           *)
Proven == promotion = "merged"
Unsupported == promotion = "squashed"

Prove(p) ==
    /\ pass[p].pc = "prove"
    /\ LET seed == Resolved(pass[p].held, "merge")
           other == Resolved(pass[p].held, IF marked THEN "merge" ELSE "diagnostic")
       IN \/ /\ Proven /\ Proceeds(p, seed)
             /\ pass' = [pass EXCEPT ![p].pc = "run", ![p].held = seed]
          \/ /\ Unsupported
             /\ pass' = [pass EXCEPT ![p].pc = "blocked", ![p].held = other]
          \/ /\ ~Unsupported /\ ~(Proven /\ Proceeds(p, seed))
             /\ End(p)
    /\ UNCHANGED <<record, linear, github, counts>>

----------------------------------------------------------------------------
(* withProductionState(blocked): the pass ends as skipped.                 *)
Block(p) ==
    /\ pass[p].pc = "blocked"
    /\ record' = WithState(Base(p), "blocked")
    /\ End(p)
    /\ UNCHANGED <<linear, github, counts>>

(* Variant: the last state is a step like the others.                      *)
SetState_RunsOn(p) ==
    /\ Running(p, States)
    /\ record' = WithState(Base(p), Op(p))
    /\ Continue(p, record')
    /\ UNCHANGED <<linear, github, counts>>

SetState(p) ==
    /\ Running(p, States)
    /\ record' = WithState(Base(p), Op(p))
    /\ IF pass[p].at = Len(Program)
         THEN End(p)
         ELSE Continue(p, record')
    /\ UNCHANGED <<linear, github, counts>>

(* A dry pass skips the two scores that come before the verification.      *)
Configured(p) ==
    /\ Running(p, {"configured"})
    /\ CASE ~verifier                -> Goto(p, "blocked")
         [] verifier /\ pass[p].dry  -> pass' = [pass EXCEPT ![p].at = VerifyStep]
         [] verifier /\ ~pass[p].dry -> Advance(p)
    /\ UNCHANGED <<record, linear, github, counts>>

(* verifyVercelProductionDeployment: a READY deployment contains the merge *)
(* and the production branch still does.                                   *)
Deployed == ready /\ promotion = "merged"

(* Variant: promotion alone counts as deployed.                            *)
Verify_Promoted(p) ==
    /\ Running(p, {"verify"})
    /\ IF promotion = "merged"
         THEN IF pass[p].dry THEN End(p) ELSE Advance(p)
         ELSE Goto(p, "blocked")
    /\ UNCHANGED <<record, linear, github, counts>>

Verify(p) ==
    /\ Running(p, {"verify"})
    /\ IF Deployed
         THEN IF pass[p].dry THEN End(p) ELSE Advance(p)
         ELSE Goto(p, "blocked")
    /\ UNCHANGED <<record, linear, github, counts>>

Skip(p) ==
    /\ Running(p, Effects) /\ Op(p) \in pass[p].held.done
    /\ Advance(p)
    /\ UNCHANGED <<record, linear, github, counts>>

(* A score has a deterministic id: sending it again changes nothing.       *)
Score(p) ==
    /\ Todo(p, Scores)
    /\ projected' = projected \cup {Op(p)}
    /\ Goto(p, "save")
    /\ UNCHANGED <<record, status, comments, github, counts>>

(* findAdoptableProductionSyncComment looks at the comments listed at the  *)
(* start of the pass.                                                      *)
Adoptable(p) == pass[p].listed > 0

(* Variant: the two branches swapped.                                      *)
Comment_Swapped(p) ==
    /\ Todo(p, {"linear_production_comment"})
    /\ IF ~Adoptable(p)
         THEN UNCHANGED <<comments, projected>>
         ELSE /\ comments' = comments + 1
              /\ projected' = projected \cup {"linear_production_comment"}
    /\ Goto(p, "save")
    /\ UNCHANGED <<record, status, github, counts>>

(* Variant: no comment is adopted.                                         *)
Comment_Posts(p) ==
    /\ Todo(p, {"linear_production_comment"})
    /\ comments' = comments + 1
    /\ projected' = projected \cup {"linear_production_comment"}
    /\ Goto(p, "save")
    /\ UNCHANGED <<record, status, github, counts>>

Comment(p) ==
    /\ Todo(p, {"linear_production_comment"})
    /\ IF Adoptable(p)
         THEN UNCHANGED <<comments, projected>>
         ELSE /\ comments' = comments + 1
              /\ projected' = projected \cup {"linear_production_comment"}
    /\ Goto(p, "save")
    /\ UNCHANGED <<record, status, github, counts>>

(* Variant: an adopted status is not recorded.                             *)
Transition_Adopts(p) ==
    /\ Todo(p, {"linear_status_transition"})
    /\ CASE pass[p].status = "production" ->
              Advance(p) /\ UNCHANGED <<status, projected>>
         [] pass[p].status = "integration" ->
              /\ status' = "production"
              /\ projected' = projected \cup {"linear_status_transition"}
              /\ Goto(p, "save")
         [] pass[p].status = "elsewhere" ->
              End(p) /\ UNCHANGED <<status, projected>>
    /\ UNCHANGED <<record, comments, github, counts>>

(* By the status fetched at the start of the pass.                         *)
Transition(p) ==
    /\ Todo(p, {"linear_status_transition"})
    /\ CASE pass[p].status = "production" ->
              Goto(p, "save") /\ UNCHANGED <<status, projected>>
         [] pass[p].status = "integration" ->
              /\ status' = "production"
              /\ projected' = projected \cup {"linear_status_transition"}
              /\ Goto(p, "save")
         [] pass[p].status = "elsewhere" ->
              End(p) /\ UNCHANGED <<status, projected>>
    /\ UNCHANGED <<record, comments, github, counts>>

Save(p) ==
    /\ pass[p].pc = "save"
    /\ record' = WithEffect(Base(p), Op(p))
    /\ Continue(p, record')
    /\ UNCHANGED <<linear, github, counts>>

Step(p) ==
    \/ Fetch(p) \/ List(p) \/ Load(p) \/ Prove(p) \/ Block(p)
    \/ SetState(p) \/ Configured(p) \/ Verify(p)
    \/ Skip(p) \/ Score(p) \/ Comment(p) \/ Transition(p) \/ Save(p)

(* The process is lost, or a call throws: nothing of the pass is left.     *)
Fail(p) ==
    /\ pass[p].pc # "idle"
    /\ Upset
    /\ End(p)
    /\ UNCHANGED <<record, linear, github, overlapped>>

----------------------------------------------------------------------------
Promote(how) ==
    /\ \/ promotion = "none"
       \/ promotion = "squashed" /\ how = "merged"
    /\ promotion' = how
    /\ UNCHANGED <<record, linear, ready, verifier, marked, pass, counts>>

Rewind ==
    /\ promotion = "merged"
    /\ Upset
    /\ promotion' = "none"
    /\ UNCHANGED <<record, linear, ready, verifier, marked, pass, overlapped>>

Deploy ==
    /\ promotion = "merged" /\ ~ready
    /\ ready' = TRUE
    /\ UNCHANGED <<record, linear, promotion, verifier, marked, pass, counts>>

Configure ==
    /\ ~verifier
    /\ verifier' = TRUE
    /\ UNCHANGED <<record, linear, promotion, ready, marked, pass, counts>>

Move(s) ==
    /\ s # status
    /\ Upset
    /\ status' = s
    /\ projected' = IF s = "production" THEN projected \cup {"linear_status_transition"}
                                        ELSE projected
    /\ UNCHANGED <<record, comments, github, pass, overlapped>>

Environment ==
    \/ \E how \in {"squashed", "merged"} : Promote(how)
    \/ Rewind \/ Deploy \/ Configure
    \/ \E s \in Statuses : Move(s)

Next ==
    \/ \E p \in Passes, dry, force \in BOOLEAN : Begin(p, dry, force)
    \/ \E p \in Passes : Step(p) \/ Fail(p)
    \/ Environment

Spec == Init /\ [][Next]_vars

(* A started pass goes on or is lost, and the schedule starts a pass again *)
(* and again whatever else the group is asked to run.                      *)
FairSpec ==
    /\ Spec
    /\ \A p \in Passes : WF_vars(Step(p))
    /\ SF_vars(\E p \in Jobs : Begin(p, FALSE, FALSE))

----------------------------------------------------------------------------
PassRecords ==
    [pc : PassSteps, at : 1..Len(Program), dry : BOOLEAN, force : BOOLEAN,
     status : Statuses, listed : Nat, held : Records \cup {NoRecord}]

(* The record, the passes and the issue stay in their domains, and a pass  *)
(* past its proof holds a record.                                          *)
TypeOK ==
    /\ record \in Records \cup {NoRecord}
    /\ status \in Statuses /\ comments \in Nat /\ projected \subseteq Effects
    /\ promotion \in {"none", "squashed", "merged"}
    /\ ready \in BOOLEAN /\ verifier \in BOOLEAN /\ marked \in BOOLEAN
    /\ pass \in [Passes -> PassRecords]
    /\ \A p \in Passes : pass[p].pc \in {"run", "save", "blocked"} => pass[p].held \in Records
    /\ overlapped \in BOOLEAN
    /\ upsets \in Nat

(* What the record says was projected has taken place: no pass records an  *)
(* effect ahead of its call, or for a pass that was lost.                  *)
RecordedIsProjected == record # NoRecord => record.done \subseteq projected

(* A record that says completed, which ends the retries of production      *)
(* sync, has all seven effects - whatever passes were lost before it, and  *)
(* for a marked merge also where passes overlapped.                        *)
CompletedIsComplete ==
    record # NoRecord /\ record.state = "completed" /\ (marked \/ ~overlapped)
      => Effects \subseteq record.done

(* The issue gets one production comment: a pass started after another was *)
(* lost adopts its comment.  Only passes that overlap can post two.        *)
SecondCommentNeedsOverlap == comments > 1 => overlapped

(* An effect once recorded for a completion stays recorded, also when two  *)
(* passes persist in turn (production-completion-cas: "never downgrade     *)
(* completed").                                                            *)
EffectsKept ==
    [][record # NoRecord /\ record'.id = record.id => record.done \subseteq record'.done]_vars

(* Production sync itself moves an issue only to the production status,    *)
(* and only once a READY deployment contains its merge.                    *)
ShownIsDeployed ==
    [][status' # status /\ upsets' = upsets => status' = "production" /\ ready]_vars

Live == promotion = "merged" /\ ready /\ verifier

(* A merge that is live does not stay at the integration status without    *)
(* its transition made: the schedule gets there whatever was lost before.  *)
LiveIsShown ==
    ~<>[](/\ Live /\ status = "integration"
          /\ record # NoRecord => "linear_status_transition" \notin record.done)
=============================================================================
