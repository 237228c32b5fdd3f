--------------------------- MODULE PostLifecycle ---------------------------
(***************************************************************************)
(* The life of a post in network-service: creation and the AI moderation   *)
(* hold (posts.service.ts), the administrators' verdicts                   *)
(* (admin-posts.service.ts), and the reports readers file against a post   *)
(* (reports.service.ts, admin-reports.service.ts).                         *)
(*                                                                         *)
(* The service is a Kafka consumer group.  A replica takes one message at  *)
(* a time and runs its handler to the end; the handlers of two replicas    *)
(* interleave wherever the code awaits.  Delivery is at least once: a      *)
(* replica that dies, or whose group session expires while it awaits,      *)
(* leaves its message to be delivered again.                               *)
(*                                                                         *)
(* A handler is split at its awaits and nowhere else.  pc[r] names the     *)
(* await replica r stands at; the step leaving it is the database          *)
(* operation or RPC answer awaited, with the synchronous code after it.    *)
(***************************************************************************)
EXTENDS Naturals, FiniteSets

CONSTANTS
    Replicas,   \* the replicas of the consumer group
    Requests,   \* the messages the gateway sends, see Request
    Users,      \* author ids
    Posts,      \* post ids the database can allocate
    Reports,    \* report ids the database can allocate
    NoUser,     \* the author of a post not stored yet
    NoPost,     \* no post: an idle handler, or a report on something else
    NoRequest,  \* an idle replica's job
    MaxFaults   \* bound on crashes, expired sessions and failed queries

-----------------------------------------------------------------------------
(* Data *)

Audience == {"public", "followers", "private"}
Visibility == Audience \cup {"pending", "deleted"}
ReportStatus == {"pending", "reviewed", "resolved", "rejected"}

\* What a client may put in the visibility field of a request.
RawAudience == Visibility \cup {"unset"}

\* One record set per message pattern; id tells equal requests apart.
Request ==
    [pattern: {"post.create"}, id: Nat, authorId: Users, visibility: RawAudience]
    \cup [pattern: {"post.update"}, id: Nat, authorId: Users, postId: Posts,
          visibility: RawAudience]
    \cup [pattern: {"post.delete"}, id: Nat, authorId: Users, postId: Posts]
    \cup [pattern: {"admin.post.approve"}, id: Nat, postId: Posts]
    \cup [pattern: {"admin.post.reject"}, id: Nat, postId: Posts, applyPenalty: BOOLEAN]
    \cup [pattern: {"report.create"}, id: Nat, targetId: Posts \cup {NoPost}]
    \cup [pattern: {"report.review"}, id: Nat, reportId: Reports, status: ReportStatus]
    \cup [pattern: {"admin.report.review"}, id: Nat, reportId: Reports,
          action: {"uphold", "dismiss"}]

\* Events handed to notification-service, by what they are about.
PostNotice == {"post_pending", "post_approved", "post_deleted", "new_post"}
ReportNotice == {"report_upheld", "report_dismissed"}
Notice == (PostNotice \X Posts) \cup (ReportNotice \X Reports)

ASSUME ReplicasAssumption == IsFiniteSet(Replicas)
ASSUME RequestsAssumption == Requests \subseteq Request
ASSUME NamesAssumption ==
    /\ NoPost \notin Posts
    /\ NoRequest \notin Requests
    /\ MaxFaults \in Nat

-----------------------------------------------------------------------------
(* Control points: the first await of a handler bears its message pattern,  *)
(* the later ones names of their own.                                       *)

\* The awaits of runAiModeration, reached with the post stored.
ModerationSteps ==
    {"ai_wait", "apply_safe", "apply_harmful", "ai_hold", "ai_notify",
     "ai_publish", "ai_fanout", "ai_check"}
CreateSteps == {"post.create", "create_save", "create_fanout"} \cup ModerationSteps
ApproveSteps == {"admin.post.approve", "approve_save", "approve_notify"}
RejectSteps ==
    {"admin.post.reject", "reject_save", "reject_notify", "penalty_wait", "reject_sweep"}
ReviewSteps == {"admin.report.review", "review_save", "review_notify"}
\* The RPCs to auth-service, sent without a timeout.
AuthWaits == {"post.create", "penalty_wait"}
SingleSteps == {"post.update", "post.delete", "report.create", "report.review"}
Labels ==
    {"idle"} \cup CreateSteps \cup ApproveSteps \cup RejectSteps
        \cup ReviewSteps \cup SingleSteps

VARIABLES
    visibility,    \* posts collection: "absent" before, "erased" after it exists
    authorId,      \* posts collection: author of each post
    reportTarget,  \* reports collection: the post a report is about
    reportStatus,  \* reports collection: "absent" before it is filed
    inbox,         \* messages delivered to the group and not committed
    pc,            \* where each replica's handler stands
    job,           \* the message each replica is handling
    subject,       \* the post it is about
    loaded,        \* visibility of the copy of the post the handler holds
    lease,         \* is the replica's group session still valid?
    sent,          \* notification events emitted, counted
    penaltyCalls,  \* auth.apply_violation_penalty calls made, per post
    removals,      \* auxiliary: saves that stored "deleted", per post
    abandoned,     \* auxiliary: posts whose creation died before its verdict
    faults         \* auxiliary: faults so far, at most MaxFaults

posts == <<visibility, authorId>>
reports == <<reportTarget, reportStatus>>
handler == <<pc, job, subject, loaded, lease>>
outbox == <<sent, penaltyCalls>>
vars == <<posts, reports, inbox, handler, outbox, removals, abandoned, faults>>

Init ==
    /\ visibility = [p \in Posts |-> "absent"]
    /\ authorId = [p \in Posts |-> NoUser]
    /\ reportTarget = [q \in Reports |-> NoPost]
    /\ reportStatus = [q \in Reports |-> "absent"]
    /\ inbox = Requests
    /\ pc = [r \in Replicas |-> "idle"]
    /\ job = [r \in Replicas |-> NoRequest]
    /\ subject = [r \in Replicas |-> NoPost]
    /\ loaded = [r \in Replicas |-> "absent"]
    /\ lease = [r \in Replicas |-> FALSE]
    /\ sent = [n \in Notice |-> 0]
    /\ penaltyCalls = [p \in Posts |-> 0]
    /\ removals = [p \in Posts |-> 0]
    /\ abandoned = {}
    /\ faults = 0

-----------------------------------------------------------------------------
(* What the handlers share *)

\* normalizeAudienceVisibility: a client never chooses "pending" or "deleted".
NormalizeAudience(raw) == IF raw \in {"followers", "private"} THEN raw ELSE "public"

\* The document is there to be loaded, updated or saved.
Stored(p) == visibility[p] \in Visibility

\* Mistake: a removed post is like any other.
ModerableIfStored(p) == Stored(p)

\* approvePost and rejectPost go on only with a post not removed yet.
Moderable(p) == Stored(p) /\ visibility[p] # "deleted"

\* Mistake: a save that upserts.
SaveUpserts(p) == visibility[p] # "absent"

\* Mongoose save() of a loaded copy: writes the paths the handler changed and
\* fails with DocumentNotFoundError when the document is gone.
SaveFinds(p) == Stored(p)
SaveVisibility(r, p, new) ==
    visibility' = [visibility EXCEPT ![p] = IF loaded[r] = new THEN @ ELSE new]

\* assertPostViewable: may user u (NoUser: a service) open the post?
Viewable(p, u) ==
    /\ Moderable(p)
    /\ visibility[p] \in {"pending", "private"} => u = authorId[p] /\ u # NoUser

Emit(kind, x) == sent' = [sent EXCEPT ![<<kind, x>>] = @ + 1]

Goto(r, label) ==
    /\ pc' = [pc EXCEPT ![r] = label]
    /\ UNCHANGED <<job, subject, loaded, lease>>

\* The handler holds the copy of p it has just read.
Load(r, p, label) ==
    /\ pc' = [pc EXCEPT ![r] = label]
    /\ loaded' = [loaded EXCEPT ![r] = visibility[p]]
    /\ UNCHANGED <<job, subject, lease>>

\* The handler answers or throws; either way its replica is free again.
Finish(r) ==
    /\ pc' = [pc EXCEPT ![r] = "idle"]
    /\ job' = [job EXCEPT ![r] = NoRequest]
    /\ subject' = [subject EXCEPT ![r] = NoPost]
    /\ loaded' = [loaded EXCEPT ![r] = "absent"]
    /\ lease' = [lease EXCEPT ![r] = FALSE]

aux == <<removals, abandoned, faults>>

-----------------------------------------------------------------------------
(* Delivery *)

OnPost == {"post.update", "post.delete", "admin.post.approve", "admin.post.reject"}
OnReport == {"report.review", "admin.report.review"}

\* A client names only posts and reports the service has shown it.
Sendable(m) ==
    /\ m.pattern \in OnPost => visibility[m.postId] # "absent"
    /\ m.pattern \in OnReport => reportStatus[m.reportId] # "absent"
    /\ m.pattern = "report.create" /\ m.targetId # NoPost =>
           visibility[m.targetId] # "absent"

Begin(r, m) ==
    /\ pc[r] = "idle"
    /\ m \in inbox
    /\ Sendable(m)
    /\ inbox' = inbox \ {m}
    /\ pc' = [pc EXCEPT ![r] = m.pattern]
    /\ job' = [job EXCEPT ![r] = m]
    /\ subject' = [subject EXCEPT ![r] = IF m.pattern \in OnPost THEN m.postId ELSE NoPost]
    /\ lease' = [lease EXCEPT ![r] = TRUE]
    /\ UNCHANGED <<posts, reports, loaded, outbox, aux>>

-----------------------------------------------------------------------------
(* post.create: PostsService.create *)

\* assertAuthorCanPost.  Only an explicit refusal stops the post: a failed
\* call lets it through.  Empty posts are refused here as well.
CheckPosting(r) ==
    /\ pc[r] = "post.create"
    /\ Goto(r, "create_save") \/ Finish(r)
    /\ UNCHANGED <<posts, reports, inbox, outbox, aux>>

\* A public post is stored as pending until the AI has seen it.
FirstVisibility(raw) ==
    IF NormalizeAudience(raw) = "public" THEN "pending" ELSE NormalizeAudience(raw)

\* Mistake: every audience is fanned out.
AfterSaveFanout(v) == IF v = "pending" THEN "ai_wait" ELSE "create_fanout"

AfterSave(v) ==
    CASE v = "pending" -> "ai_wait" [] v = "followers" -> "create_fanout" [] OTHER -> "idle"

SaveNewPost(r) ==
    /\ pc[r] = "create_save"
    /\ \E p \in Posts :
         LET v == FirstVisibility(job[r].visibility) IN
         /\ visibility[p] = "absent"
         /\ visibility' = [visibility EXCEPT ![p] = v]
         /\ authorId' = [authorId EXCEPT ![p] = job[r].authorId]
         /\ \/ /\ AfterSave(v) = "idle"
               /\ Finish(r)
            \/ /\ AfterSave(v) # "idle"
               /\ pc' = [pc EXCEPT ![r] = AfterSave(v)]
               /\ subject' = [subject EXCEPT ![r] = p]
               /\ UNCHANGED <<job, loaded, lease>>
    /\ UNCHANGED <<reports, inbox, outbox, aux>>

\* The moderation RPC answers.
AiVerdict(r) ==
    /\ pc[r] = "ai_wait"
    /\ Goto(r, "apply_safe") \/ Goto(r, "apply_harmful")
    /\ UNCHANGED <<posts, reports, inbox, outbox, aux>>

\* Mistakes: nobody waits for the timeout, or nobody is told of it.
AiNeverTimesOut(r) == pc[r] = "ai_wait" /\ FALSE /\ UNCHANGED vars
AiTimeoutUntold(r) ==
    pc[r] = "ai_wait" /\ Finish(r) /\ UNCHANGED <<posts, reports, inbox, outbox, aux>>

\* It fails, or MODERATION_TIMEOUT_MS passes; a later answer goes nowhere.
AiTimeout(r) ==
    /\ pc[r] = "ai_wait"
    /\ Goto(r, "ai_check")
    /\ UNCHANGED <<posts, reports, inbox, outbox, aux>>

\* applyModerationResult acts on a held post, and on one already public.
InModeration(p) == visibility[p] \in {"pending", "public"}

IgnoreVerdict(r) ==
    /\ pc[r] \in {"apply_safe", "apply_harmful"}
    /\ ~InModeration(subject[r])
    /\ Finish(r)
    /\ UNCHANGED <<posts, reports, inbox, outbox, aux>>

ApplySafe(r) ==
    /\ pc[r] = "apply_safe"
    /\ InModeration(subject[r])
    /\ Load(r, subject[r], "ai_publish")
    /\ UNCHANGED <<posts, reports, inbox, outbox, aux>>

ApplyHarmfulToPublic(r) ==
    /\ pc[r] = "apply_harmful"
    /\ visibility[subject[r]] = "public"
    /\ Load(r, subject[r], "ai_hold")
    /\ UNCHANGED <<posts, reports, inbox, outbox, aux>>

ApplyHarmfulToHeld(r) ==
    /\ pc[r] = "apply_harmful"
    /\ visibility[subject[r]] = "pending"
    /\ Emit("post_pending", subject[r])
    /\ Finish(r)
    /\ UNCHANGED <<posts, reports, inbox, penaltyCalls, aux>>

\* A verdict's save; when the document is gone runAiModeration catches it.
SaveVerdict(r, new, label) ==
    /\ \/ SaveFinds(subject[r]) /\ SaveVisibility(r, subject[r], new) /\ Goto(r, label)
       \/ ~SaveFinds(subject[r]) /\ UNCHANGED visibility /\ Goto(r, "ai_check")
    /\ UNCHANGED <<authorId, reports, inbox, outbox, aux>>

HoldSave(r) == pc[r] = "ai_hold" /\ SaveVerdict(r, "pending", "ai_notify")
PublishSave(r) == pc[r] = "ai_publish" /\ SaveVerdict(r, "public", "ai_fanout")

NotifyPending(r) ==
    /\ pc[r] = "ai_notify"
    /\ Emit("post_pending", subject[r])
    /\ Finish(r)
    /\ UNCHANGED <<posts, reports, inbox, penaltyCalls, aux>>

NewPostFanout(r) ==
    /\ pc[r] \in {"ai_fanout", "create_fanout"}
    /\ Emit("new_post", subject[r])
    /\ Finish(r)
    /\ UNCHANGED <<posts, reports, inbox, penaltyCalls, aux>>

\* The catch of runAiModeration: tell the author only of a post still held.
CheckStillPending(r) ==
    /\ pc[r] = "ai_check"
    /\ IF visibility[subject[r]] = "pending"
       THEN Emit("post_pending", subject[r]) ELSE UNCHANGED sent
    /\ Finish(r)
    /\ UNCHANGED <<posts, reports, inbox, penaltyCalls, aux>>

-----------------------------------------------------------------------------
(* post.update and post.delete: one atomic query each, the author's only *)

OwnPost(r) == Stored(subject[r]) /\ authorId[subject[r]] = job[r].authorId

UpdatePost(r) ==
    /\ pc[r] = "post.update"
    /\ visibility' = IF OwnPost(r)
                     THEN [visibility EXCEPT ![subject[r]] = NormalizeAudience(job[r].visibility)]
                     ELSE visibility
    /\ Finish(r)
    /\ UNCHANGED <<authorId, reports, inbox, outbox, aux>>

RemovePost(r) ==
    /\ pc[r] = "post.delete"
    /\ visibility' = IF OwnPost(r) THEN [visibility EXCEPT ![subject[r]] = "erased"]
                                   ELSE visibility
    /\ Finish(r)
    /\ UNCHANGED <<authorId, reports, inbox, outbox, aux>>

-----------------------------------------------------------------------------
(* admin.post.approve: AdminPostsService.approvePost *)

\* approvePost and rejectPost open alike: 404, 410, or go on with the copy.
LoadForAdmin(r, label) ==
    /\ \/ Moderable(subject[r]) /\ Load(r, subject[r], label)
       \/ ~Moderable(subject[r]) /\ Finish(r)
    /\ UNCHANGED <<posts, reports, inbox, outbox, aux>>

ApproveLoad(r) == pc[r] = "admin.post.approve" /\ LoadForAdmin(r, "approve_save")

ApproveSave(r) ==
    /\ pc[r] = "approve_save"
    /\ \/ /\ SaveFinds(subject[r])
          /\ SaveVisibility(r, subject[r], "public")
          /\ Goto(r, "approve_notify")
       \/ ~SaveFinds(subject[r]) /\ UNCHANGED visibility /\ Finish(r)
    /\ UNCHANGED <<authorId, reports, inbox, outbox, aux>>

ApproveNotify(r) ==
    /\ pc[r] = "approve_notify"
    /\ sent' = [sent EXCEPT ![<<"post_approved", subject[r]>>] = @ + 1,
                            ![<<"new_post", subject[r]>>] = @ + 1]
    /\ Finish(r)
    /\ UNCHANGED <<posts, reports, inbox, penaltyCalls, aux>>

-----------------------------------------------------------------------------
(* admin.post.reject, and the rejection inside an upheld report *)

\* Mistakes: the penalty is asked for before the save; a post already gone
\* counts as rejected; a removed post is removed again.
RejectNotifyFirst(r) == pc[r] = "admin.post.reject" /\ LoadForAdmin(r, "reject_notify")
RejectLenient(r) ==
    /\ pc[r] = "admin.post.reject"
    /\ Load(r, subject[r], IF Moderable(subject[r]) THEN "reject_save" ELSE "reject_sweep")
    /\ UNCHANGED <<posts, reports, inbox, outbox, aux>>
RejectAgain(r) ==
    /\ pc[r] = "admin.post.reject"
    /\ \/ Stored(subject[r]) /\ Load(r, subject[r], "reject_save")
       \/ ~Stored(subject[r]) /\ Finish(r)
    /\ UNCHANGED <<posts, reports, inbox, outbox, aux>>

RejectLoad(r) == pc[r] = "admin.post.reject" /\ LoadForAdmin(r, "reject_save")

RejectSave(r) ==
    /\ pc[r] = "reject_save"
    /\ \/ /\ SaveFinds(subject[r])
          /\ SaveVisibility(r, subject[r], "deleted")
          /\ removals' = [removals EXCEPT ![subject[r]] = @ + 1]
          /\ Goto(r, "reject_notify")
       \/ ~SaveFinds(subject[r]) /\ UNCHANGED <<visibility, removals>> /\ Finish(r)
    /\ UNCHANGED <<authorId, reports, inbox, outbox, abandoned, faults>>

\* reviewReport always asks for the penalty, admin.post.reject unless told not to.
WithPenalty(m) == m.pattern = "admin.post.reject" => m.applyPenalty

RejectNotify(r) ==
    /\ pc[r] = "reject_notify"
    /\ Emit("post_deleted", subject[r])
    /\ \/ /\ WithPenalty(job[r])
          /\ penaltyCalls' = [penaltyCalls EXCEPT ![subject[r]] = @ + 1]
          /\ Goto(r, "penalty_wait")
       \/ ~WithPenalty(job[r]) /\ UNCHANGED penaltyCalls /\ Goto(r, "reject_sweep")
    /\ UNCHANGED <<posts, reports, inbox, aux>>

\* The penalty RPC answers, or answers with an error that ends the handler.
PenaltyReply(r) ==
    /\ pc[r] = "penalty_wait"
    /\ Goto(r, "reject_sweep") \/ Finish(r)
    /\ UNCHANGED <<posts, reports, inbox, outbox, aux>>

AfterReject(r) ==
    IF job[r].pattern = "admin.report.review" THEN Goto(r, "review_save") ELSE Finish(r)

\* updateMany: every pending report on the post is resolved at once.
SweepReports(r) ==
    /\ pc[r] = "reject_sweep"
    /\ reportStatus' = [q \in Reports |->
           IF reportTarget[q] = subject[r] /\ reportStatus[q] = "pending"
           THEN "resolved" ELSE reportStatus[q]]
    /\ AfterReject(r)
    /\ UNCHANGED <<posts, reportTarget, inbox, outbox, aux>>

-----------------------------------------------------------------------------
(* report.create, report.review, admin.report.review *)

CreateReport(r) ==
    /\ pc[r] = "report.create"
    /\ \E q \in Reports :
         /\ reportStatus[q] = "absent"
         /\ reportStatus' = [reportStatus EXCEPT ![q] = "pending"]
         /\ reportTarget' = [reportTarget EXCEPT ![q] = job[r].targetId]
    /\ Finish(r)
    /\ UNCHANGED <<posts, inbox, outbox, aux>>

\* ReportsService.review: any status over any status.
MarkReport(r) ==
    /\ pc[r] = "report.review"
    /\ reportStatus' = [reportStatus EXCEPT ![job[r].reportId] = job[r].status]
    /\ Finish(r)
    /\ UNCHANGED <<posts, reportTarget, inbox, outbox, aux>>

\* Mistake: a report can be reviewed again.
ReviewableAgain(q) == reportStatus[q] # "absent"

Reviewable(q) == reportStatus[q] = "pending"
RejectsPost(m) == m.action = "uphold" /\ reportTarget[m.reportId] # NoPost

ReviewLoad(r) ==
    /\ pc[r] = "admin.report.review"
    /\ IF ~Reviewable(job[r].reportId) THEN Finish(r)
       ELSE IF ~RejectsPost(job[r]) THEN Goto(r, "review_save")
       ELSE /\ pc' = [pc EXCEPT ![r] = "admin.post.reject"]
            /\ subject' = [subject EXCEPT ![r] = reportTarget[job[r].reportId]]
            /\ UNCHANGED <<job, loaded, lease>>
    /\ UNCHANGED <<posts, reports, inbox, outbox, aux>>

\* The copy was pending, so the new status is always a change to write.
ReviewSave(r) ==
    /\ pc[r] = "review_save"
    /\ reportStatus' = [reportStatus EXCEPT ![job[r].reportId] =
           IF job[r].action = "uphold" THEN "resolved" ELSE "rejected"]
    /\ Goto(r, "review_notify")
    /\ UNCHANGED <<posts, reportTarget, inbox, outbox, aux>>

ReviewNotify(r) ==
    /\ pc[r] = "review_notify"
    /\ Emit(IF job[r].action = "uphold" THEN "report_upheld" ELSE "report_dismissed",
            job[r].reportId)
    /\ Finish(r)
    /\ UNCHANGED <<posts, reports, inbox, penaltyCalls, aux>>

-----------------------------------------------------------------------------
(* Faults, at most MaxFaults of them *)

Fault == faults < MaxFaults /\ faults' = faults + 1

\* A public post whose creation stops here never gets its verdict.
Abandon(r) ==
    abandoned' = IF pc[r] \in ModerationSteps THEN abandoned \cup {subject[r]} ELSE abandoned

Redeliver(r) == inbox' = IF lease[r] THEN inbox \cup {job[r]} ELSE inbox

\* The replica dies; its message, still uncommitted, goes to the group again.
Crash(r) ==
    /\ pc[r] # "idle"
    /\ Fault
    /\ Abandon(r)
    /\ Redeliver(r)
    /\ Finish(r)
    /\ UNCHANGED <<posts, reports, outbox, removals>>

\* The handler outlives the 30 s session: the message is delivered again
\* while the handler runs on.
ExpireSession(r) ==
    /\ pc[r] # "idle"
    /\ lease[r]
    /\ Fault
    /\ Redeliver(r)
    /\ lease' = [lease EXCEPT ![r] = FALSE]
    /\ UNCHANGED <<posts, reports, pc, job, subject, loaded, outbox, removals, abandoned>>

\* A query fails.  runAiModeration catches what fails inside it; anywhere
\* else the handler answers with an error.
CaughtSteps == {"apply_safe", "apply_harmful", "ai_hold", "ai_publish"}
NoQuerySteps ==
    {"idle", "post.create", "create_fanout", "ai_wait", "ai_notify", "ai_fanout",
     "approve_notify", "reject_notify", "penalty_wait", "review_notify"}

QueryFails(r) ==
    /\ pc[r] \notin NoQuerySteps
    /\ Fault
    /\ \/ pc[r] \in CaughtSteps /\ Goto(r, "ai_check") /\ UNCHANGED abandoned
       \/ pc[r] \notin CaughtSteps /\ Abandon(r) /\ Finish(r)
    /\ UNCHANGED <<posts, reports, inbox, outbox, removals>>

-----------------------------------------------------------------------------
CreateStep(r) ==
    \/ CheckPosting(r) \/ SaveNewPost(r)
    \/ AiVerdict(r) \/ AiTimeout(r) \/ IgnoreVerdict(r) \/ ApplySafe(r)
    \/ ApplyHarmfulToPublic(r) \/ ApplyHarmfulToHeld(r)
    \/ HoldSave(r) \/ PublishSave(r)
    \/ NotifyPending(r) \/ NewPostFanout(r) \/ CheckStillPending(r)
AdminStep(r) ==
    \/ ApproveLoad(r) \/ ApproveSave(r) \/ ApproveNotify(r)
    \/ RejectLoad(r) \/ RejectSave(r) \/ RejectNotify(r) \/ PenaltyReply(r) \/ SweepReports(r)
    \/ ReviewLoad(r) \/ ReviewSave(r) \/ ReviewNotify(r)
SingleStep(r) == UpdatePost(r) \/ RemovePost(r) \/ CreateReport(r) \/ MarkReport(r)
FaultStep(r) == Crash(r) \/ ExpireSession(r) \/ QueryFails(r)

Next ==
    \E r \in Replicas :
        \/ \E m \in Requests : Begin(r, m)
        \/ CreateStep(r) \/ AdminStep(r) \/ SingleStep(r) \/ FaultStep(r)

Spec == Init /\ [][Next]_vars

\* Replicas keep running their handlers and taking messages, the database
\* answers or fails, and rxjs fires the moderation timeout.  Neither the AI's
\* answer, nor auth-service's, nor any fault is promised.
HandlerStep(r) ==
    \/ CreateStep(r) /\ pc[r] \notin AuthWaits \cup {"ai_wait"}
    \/ AiTimeout(r)
    \/ AdminStep(r) /\ pc[r] \notin AuthWaits
    \/ SingleStep(r)

FairSpec ==
    /\ Spec
    /\ \A r \in Replicas : WF_vars(HandlerStep(r))
    /\ \A r \in Replicas : WF_vars(\E m \in Requests : Begin(r, m))

-----------------------------------------------------------------------------
(* Properties that hold whatever the number of replicas *)

\* Every variable keeps its type; in particular no status outside the
\* schemas' enums is ever stored, whatever a client sends.
TypeOK ==
    /\ visibility \in [Posts -> Visibility \cup {"absent", "erased"}]
    /\ authorId \in [Posts -> Users \cup {NoUser}]
    /\ reportTarget \in [Reports -> Posts \cup {NoPost}]
    /\ reportStatus \in [Reports -> ReportStatus \cup {"absent"}]
    /\ inbox \subseteq Requests
    /\ pc \in [Replicas -> Labels]
    /\ job \in [Replicas -> Requests \cup {NoRequest}]
    /\ subject \in [Replicas -> Posts \cup {NoPost}]
    /\ loaded \in [Replicas -> Visibility \cup {"absent", "erased"}]
    /\ lease \in [Replicas -> BOOLEAN]
    /\ sent \in [Notice -> Nat]
    /\ penaltyCalls \in [Posts -> Nat]
    /\ removals \in [Posts -> Nat]
    /\ abandoned \subseteq Posts
    /\ faults \in 0..MaxFaults

\* No author is charged more violations for a post than the times it was
\* really taken down: the penalty RPC comes after the save, on every path.
PenaltyBackedByRemoval == \A p \in Posts : penaltyCalls[p] <= removals[p]

\* The author of a held post is told of it, unless its creation was cut
\* short: timeouts, failed saves and rival verdicts all end in the notice.
PendingIsAnnounced ==
    \A p \in Posts :
        visibility[p] = "pending" /\ sent[<<"post_pending", p>>] = 0 =>
            \/ p \in abandoned
            \/ \E r \in Replicas : pc[r] \in ModerationSteps /\ subject[r] = p

\* A post its author deleted is never stored again: a handler that still
\* holds a copy of it cannot save it back.
ErasedStaysErased ==
    [][\A p \in Posts : visibility[p] = "erased" => visibility'[p] = "erased"]_vars

\* A reporter is told a report on a post was upheld only when the post was
\* taken down, even when the rejection inside the review failed.
UpheldMeansRemoved ==
    \A q \in Reports :
        sent[<<"report_upheld", q>>] > 0 /\ reportTarget[q] # NoPost =>
            removals[reportTarget[q]] > 0

-----------------------------------------------------------------------------
(* Properties of a service that runs one handler at a time *)

\* An administrator's removal is final for everyone but the author: no
\* verdict, approval or late save brings the post back.
RejectionFinal ==
    [][\A p \in Posts :
           visibility[p] = "deleted" /\ visibility'[p] # "deleted" =>
               \E r \in Replicas :
                   pc[r] \in {"post.update", "post.delete"} /\ subject[r] = p]_vars

\* A post is taken down once, so penalised once, however many reports and
\* administrators ask for it and however often the messages are delivered.
NoDoubleRemoval ==
    [][\A p \in Posts : removals'[p] # removals[p] => visibility[p] # "deleted"]_vars

\* Followers are told only of a post they can open.
FanoutShowsViewable ==
    [][\A p \in Posts :
           sent'[<<"new_post", p>>] # sent[<<"new_post", p>>] => Viewable(p, NoUser)]_vars

\* A reporter hears one verdict, as long as nobody re-opens the report.
OneVerdictPerReport ==
    \A q \in Reports : sent[<<"report_upheld", q>>] + sent[<<"report_dismissed", q>>] <= 1

-----------------------------------------------------------------------------
(* Liveness, under FairSpec *)

\* A replica that has nothing to do, or waits for auth-service's answer.
AtRest(r) ==
    \/ pc[r] = "idle" /\ \A m \in inbox : ~Sendable(m)
    \/ pc[r] \in AuthWaits

\* Once clients send no more, the service comes to rest after any fault,
\* whether the AI answers or not: every message is taken up and every handler
\* ends.  Only a call to auth-service, which has no timeout, can hold a replica
\* for ever, and only if it holds them all are messages left lying.
OnlyAuthHoldsUp == []<>(\A r \in Replicas : AtRest(r))

-----------------------------------------------------------------------------
(* What the comments of the code say *)

\* post.schema.ts:13 "Admin rejection - never shown."
RejectedNeverShown ==
    [][\A p \in Posts :
           visibility[p] = "deleted" => visibility'[p] \in {"deleted", "erased"}]_vars
=============================================================================
