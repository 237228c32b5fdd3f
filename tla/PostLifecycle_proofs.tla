------------------------ MODULE PostLifecycle_proofs ------------------------
(***************************************************************************)
(* What PostLifecycle guarantees for every number of replicas, messages,   *)
(* posts, reports and faults.                                              *)
(***************************************************************************)
EXTENDS PostLifecycle, FiniteSetTheorems, TLAPS

-----------------------------------------------------------------------------
(* The base invariant: types, a handler at work on a message of the pattern *)
(* its control point belongs to, and on a post wherever it touches one.     *)

PostSteps ==
    ModerationSteps \cup {"create_fanout"} \cup ApproveSteps \cup RejectSteps
        \cup {"post.update", "post.delete"}

JobOK ==
    \A r \in Replicas :
        /\ pc[r] # "idle" => job[r] \in Requests
        /\ pc[r] \in CreateSteps => job[r].pattern = "post.create"
        /\ pc[r] \in ApproveSteps => job[r].pattern = "admin.post.approve"
        /\ pc[r] \in RejectSteps =>
               job[r].pattern \in {"admin.post.reject", "admin.report.review"}
        /\ pc[r] \in ReviewSteps => job[r].pattern = "admin.report.review"
        /\ pc[r] \in SingleSteps => job[r].pattern = pc[r]

SubjectOK == \A r \in Replicas : pc[r] \in PostSteps => subject[r] \in Posts

BaseInv == TypeOK /\ JobOK /\ SubjectOK

\* The part of TypeOK about the replicas' handlers.
HandlerType ==
    /\ pc \in [Replicas -> Labels]
    /\ job \in [Replicas -> Requests \cup {NoRequest}]
    /\ subject \in [Replicas -> Posts \cup {NoPost}]
    /\ loaded \in [Replicas -> Visibility \cup {"absent", "erased"}]
    /\ lease \in [Replicas -> BOOLEAN]

\* The rest of it: what is stored, queued, sent and counted.
DataType ==
    /\ visibility \in [Posts -> Visibility \cup {"absent", "erased"}]
    /\ authorId \in [Posts -> Users \cup {NoUser}]
    /\ reportTarget \in [Reports -> Posts \cup {NoPost}]
    /\ reportStatus \in [Reports -> ReportStatus \cup {"absent"}]
    /\ inbox \subseteq Requests
    /\ sent \in [Notice -> Nat]
    /\ penaltyCalls \in [Posts -> Nat]
    /\ removals \in [Posts -> Nat]
    /\ abandoned \subseteq Posts
    /\ faults \in 0..MaxFaults

Step(r) == CreateStep(r) \/ AdminStep(r) \/ SingleStep(r) \/ FaultStep(r)

-----------------------------------------------------------------------------
(* Lemmas on messages and on the moves of a handler *)

\* What a message of each pattern carries.
LEMMA RequestFields ==
    ASSUME NEW m \in Requests
    PROVE  /\ m.pattern \in {"post.create", "post.update", "post.delete",
                  "admin.post.approve", "admin.post.reject", "report.create",
                  "report.review", "admin.report.review"}
           /\ m.pattern = "post.create" => m.authorId \in Users
           /\ m.pattern \in OnPost => m.postId \in Posts
           /\ m.pattern = "report.create" => m.targetId \in Posts \cup {NoPost}
           /\ m.pattern \in OnReport => m.reportId \in Reports
           /\ m.pattern = "report.review" => m.status \in ReportStatus
BY RequestsAssumption DEF Request, OnPost, OnReport

\* Ending a handler, moving it on and loading a copy keep its types.
LEMMA FinishType == ASSUME TypeOK, NEW r \in Replicas, Finish(r) PROVE HandlerType'
BY DEF TypeOK, HandlerType, Finish, Labels

LEMMA GotoType ==
    ASSUME TypeOK, NEW r \in Replicas, NEW l \in Labels, Goto(r, l)
    PROVE  HandlerType'
BY DEF TypeOK, HandlerType, Goto

LEMMA LoadType ==
    ASSUME TypeOK, NEW r \in Replicas, NEW p \in Posts, NEW l \in Labels, Load(r, p, l)
    PROVE  HandlerType'
BY DEF TypeOK, HandlerType, Load

-----------------------------------------------------------------------------
(* The base invariant is inductive *)

\* Every step keeps the types of the handlers.
LEMMA HandlerTypeStep ==
    ASSUME BaseInv, NEW r \in Replicas, Step(r)
    PROVE  HandlerType'
<1> USE DEF BaseInv, handler
<1>1. CASE CheckPosting(r)
  BY <1>1, FinishType, GotoType DEF CheckPosting, Labels, CreateSteps,
     ModerationSteps, ApproveSteps, RejectSteps, ReviewSteps, SingleSteps
<1>2. CASE SaveNewPost(r)
  BY <1>2, FinishType DEF SaveNewPost, AfterSave, HandlerType, TypeOK, Labels,
     CreateSteps, ModerationSteps, ApproveSteps, RejectSteps, ReviewSteps, SingleSteps
<1>3. CASE AiVerdict(r)
  BY <1>3, GotoType DEF AiVerdict, Labels, CreateSteps, ModerationSteps,
     ApproveSteps, RejectSteps, ReviewSteps, SingleSteps
<1>4. CASE AiTimeout(r)
  BY <1>4, GotoType DEF AiTimeout, Labels, CreateSteps, ModerationSteps,
     ApproveSteps, RejectSteps, ReviewSteps, SingleSteps
<1>5. CASE IgnoreVerdict(r)
  BY <1>5, FinishType DEF IgnoreVerdict
<1>6. CASE ApplySafe(r)
  BY <1>6, LoadType DEF ApplySafe, SubjectOK, PostSteps, Labels, CreateSteps,
     ModerationSteps, ApproveSteps, RejectSteps, ReviewSteps, SingleSteps
<1>7. CASE ApplyHarmfulToPublic(r)
  BY <1>7, LoadType DEF ApplyHarmfulToPublic, SubjectOK, PostSteps, Labels,
     CreateSteps, ModerationSteps, ApproveSteps, RejectSteps, ReviewSteps, SingleSteps
<1>8. CASE ApplyHarmfulToHeld(r)
  BY <1>8, FinishType DEF ApplyHarmfulToHeld
<1>9. CASE HoldSave(r)
  BY <1>9, GotoType DEF HoldSave, SaveVerdict, Labels, CreateSteps, ModerationSteps,
     ApproveSteps, RejectSteps, ReviewSteps, SingleSteps
<1>10. CASE PublishSave(r)
  BY <1>10, GotoType DEF PublishSave, SaveVerdict, Labels, CreateSteps,
     ModerationSteps, ApproveSteps, RejectSteps, ReviewSteps, SingleSteps
<1>11. CASE NotifyPending(r)
  BY <1>11, FinishType DEF NotifyPending
<1>12. CASE NewPostFanout(r)
  BY <1>12, FinishType DEF NewPostFanout
<1>13. CASE CheckStillPending(r)
  BY <1>13, FinishType DEF CheckStillPending
<1>14. CASE ApproveLoad(r)
  BY <1>14, FinishType, LoadType DEF ApproveLoad, LoadForAdmin, SubjectOK, PostSteps,
     Labels, CreateSteps, ModerationSteps, ApproveSteps, RejectSteps, ReviewSteps,
     SingleSteps
<1>15. CASE ApproveSave(r)
  BY <1>15, FinishType, GotoType DEF ApproveSave, Labels, CreateSteps,
     ModerationSteps, ApproveSteps, RejectSteps, ReviewSteps, SingleSteps
<1>16. CASE ApproveNotify(r)
  BY <1>16, FinishType DEF ApproveNotify
<1>17. CASE RejectLoad(r)
  BY <1>17, FinishType, LoadType DEF RejectLoad, LoadForAdmin, SubjectOK, PostSteps,
     Labels, CreateSteps, ModerationSteps, ApproveSteps, RejectSteps, ReviewSteps,
     SingleSteps
<1>18. CASE RejectSave(r)
  BY <1>18, FinishType, GotoType DEF RejectSave, Labels, CreateSteps,
     ModerationSteps, ApproveSteps, RejectSteps, ReviewSteps, SingleSteps
<1>19. CASE RejectNotify(r)
  BY <1>19, GotoType DEF RejectNotify, Labels, CreateSteps, ModerationSteps,
     ApproveSteps, RejectSteps, ReviewSteps, SingleSteps
<1>20. CASE PenaltyReply(r)
  BY <1>20, FinishType, GotoType DEF PenaltyReply, Labels, CreateSteps,
     ModerationSteps, ApproveSteps, RejectSteps, ReviewSteps, SingleSteps
<1>21. CASE SweepReports(r)
  BY <1>21, FinishType, GotoType DEF SweepReports, AfterReject, Labels, CreateSteps,
     ModerationSteps, ApproveSteps, RejectSteps, ReviewSteps, SingleSteps
<1>22. CASE ReviewLoad(r)
  <2>1. CASE ~Reviewable(job[r].reportId)
    BY <1>22, <2>1, FinishType DEF ReviewLoad
  <2>2. CASE Reviewable(job[r].reportId) /\ ~RejectsPost(job[r])
    BY <1>22, <2>2, GotoType DEF ReviewLoad, Labels, CreateSteps, ModerationSteps,
     ApproveSteps, RejectSteps, ReviewSteps, SingleSteps
  <2>3. CASE Reviewable(job[r].reportId) /\ RejectsPost(job[r])
    <3>1. reportTarget[job[r].reportId] \in Posts
      BY <1>22, <2>3, RequestFields
         DEF ReviewLoad, RejectsPost, TypeOK, JobOK, ReviewSteps, OnReport
    <3> QED BY <1>22, <2>3, <3>1 DEF ReviewLoad, HandlerType, TypeOK, Labels,
     CreateSteps, ModerationSteps, ApproveSteps, RejectSteps, ReviewSteps, SingleSteps
  <2> QED BY <2>1, <2>2, <2>3
<1>23. CASE ReviewSave(r)
  BY <1>23, GotoType DEF ReviewSave, Labels, CreateSteps, ModerationSteps,
     ApproveSteps, RejectSteps, ReviewSteps, SingleSteps
<1>24. CASE ReviewNotify(r)
  BY <1>24, FinishType DEF ReviewNotify
<1>25. CASE UpdatePost(r)
  BY <1>25, FinishType DEF UpdatePost
<1>26. CASE RemovePost(r)
  BY <1>26, FinishType DEF RemovePost
<1>27. CASE CreateReport(r)
  BY <1>27, FinishType DEF CreateReport
<1>28. CASE MarkReport(r)
  BY <1>28, FinishType DEF MarkReport
<1>29. CASE Crash(r)
  BY <1>29, FinishType DEF Crash
<1>30. CASE ExpireSession(r)
  BY <1>30 DEF ExpireSession, HandlerType, TypeOK
<1>31. CASE QueryFails(r)
  BY <1>31, FinishType, GotoType DEF QueryFails, Labels, CreateSteps,
     ModerationSteps, ApproveSteps, RejectSteps, ReviewSteps, SingleSteps
<1> QED
  BY <1>1, <1>2, <1>3, <1>4, <1>5, <1>6, <1>7, <1>8, <1>9, <1>10, <1>11, <1>12,
     <1>13, <1>14, <1>15, <1>16, <1>17, <1>18, <1>19, <1>20, <1>21, <1>22, <1>23,
     <1>24, <1>25, <1>26, <1>27, <1>28, <1>29, <1>30, <1>31
     DEF Step, CreateStep, AdminStep, SingleStep, FaultStep

\* Every step keeps the types of the data.
LEMMA DataTypeStep ==
    ASSUME BaseInv, NEW r \in Replicas, Step(r)
    PROVE  DataType'
<1> USE DEF BaseInv, TypeOK, DataType, posts, reports, outbox, aux
<1>1. CASE CheckPosting(r)
  BY <1>1 DEF CheckPosting
<1>2. CASE SaveNewPost(r)
  BY <1>2, RequestFields DEF SaveNewPost, FirstVisibility, NormalizeAudience,
     AfterSave, Visibility, Audience, JobOK, CreateSteps, SingleSteps, OnReport
<1>3. CASE AiVerdict(r)
  BY <1>3 DEF AiVerdict
<1>4. CASE AiTimeout(r)
  BY <1>4 DEF AiTimeout
<1>5. CASE IgnoreVerdict(r)
  BY <1>5 DEF IgnoreVerdict
<1>6. CASE ApplySafe(r)
  BY <1>6 DEF ApplySafe
<1>7. CASE ApplyHarmfulToPublic(r)
  BY <1>7 DEF ApplyHarmfulToPublic
<1>8. CASE ApplyHarmfulToHeld(r)
  BY <1>8 DEF ApplyHarmfulToHeld, Emit, Notice, PostNotice, ReportNotice, SubjectOK,
     PostSteps, ModerationSteps, ApproveSteps, RejectSteps
<1>9. CASE HoldSave(r)
  BY <1>9 DEF HoldSave, SaveVerdict, SaveVisibility, Visibility
<1>10. CASE PublishSave(r)
  BY <1>10 DEF PublishSave, SaveVerdict, SaveVisibility, Visibility, Audience
<1>11. CASE NotifyPending(r)
  BY <1>11 DEF NotifyPending, Emit, Notice, PostNotice, ReportNotice, SubjectOK,
     PostSteps, ModerationSteps, ApproveSteps, RejectSteps
<1>12. CASE NewPostFanout(r)
  BY <1>12 DEF NewPostFanout, Emit, Notice, PostNotice, ReportNotice, SubjectOK,
     PostSteps, ModerationSteps, ApproveSteps, RejectSteps
<1>13. CASE CheckStillPending(r)
  BY <1>13 DEF CheckStillPending, Emit, Notice, PostNotice, ReportNotice, SubjectOK,
     PostSteps, ModerationSteps, ApproveSteps, RejectSteps
<1>14. CASE ApproveLoad(r)
  BY <1>14 DEF ApproveLoad, LoadForAdmin
<1>15. CASE ApproveSave(r)
  BY <1>15 DEF ApproveSave, SaveVisibility, Visibility, Audience
<1>16. CASE ApproveNotify(r)
  BY <1>16 DEF ApproveNotify, Notice, PostNotice, ReportNotice, SubjectOK, PostSteps,
     ModerationSteps, ApproveSteps, RejectSteps
<1>17. CASE RejectLoad(r)
  BY <1>17 DEF RejectLoad, LoadForAdmin
<1>18. CASE RejectSave(r)
  BY <1>18 DEF RejectSave, SaveVisibility, Visibility
<1>19. CASE RejectNotify(r)
  BY <1>19 DEF RejectNotify, Emit, Notice, PostNotice, ReportNotice, SubjectOK,
     PostSteps, ModerationSteps, ApproveSteps, RejectSteps
<1>20. CASE PenaltyReply(r)
  BY <1>20 DEF PenaltyReply
<1>21. CASE SweepReports(r)
  BY <1>21 DEF SweepReports, AfterReject, ReportStatus
<1>22. CASE ReviewLoad(r)
  BY <1>22 DEF ReviewLoad
<1>23. CASE ReviewSave(r)
  BY <1>23 DEF ReviewSave, ReportStatus
<1>24. CASE ReviewNotify(r)
  BY <1>24, RequestFields DEF ReviewNotify, Emit, Notice, PostNotice, ReportNotice,
     JobOK, ReviewSteps, OnReport
<1>25. CASE UpdatePost(r)
  BY <1>25, RequestFields DEF UpdatePost, NormalizeAudience, Visibility, Audience,
     JobOK, CreateSteps, SingleSteps, OnReport
<1>26. CASE RemovePost(r)
  BY <1>26 DEF RemovePost
<1>27. CASE CreateReport(r)
  BY <1>27, RequestFields DEF CreateReport, ReportStatus, JobOK, CreateSteps,
     SingleSteps, OnReport
<1>28. CASE MarkReport(r)
  BY <1>28, RequestFields DEF MarkReport, JobOK, CreateSteps, SingleSteps, OnReport
<1>29. CASE Crash(r)
  BY <1>29, RequestFields, NamesAssumption DEF Crash, Fault, Abandon, Redeliver,
     JobOK, CreateSteps, SingleSteps, OnReport, SubjectOK, PostSteps
<1>30. CASE ExpireSession(r)
  BY <1>30, RequestFields, NamesAssumption DEF ExpireSession, Fault, Redeliver,
     JobOK, CreateSteps, SingleSteps, OnReport
<1>31. CASE QueryFails(r)
  BY <1>31, NamesAssumption DEF QueryFails, Fault, Abandon, SubjectOK, PostSteps
<1> QED
  BY <1>1, <1>2, <1>3, <1>4, <1>5, <1>6, <1>7, <1>8, <1>9, <1>10, <1>11, <1>12,
     <1>13, <1>14, <1>15, <1>16, <1>17, <1>18, <1>19, <1>20, <1>21, <1>22, <1>23,
     <1>24, <1>25, <1>26, <1>27, <1>28, <1>29, <1>30, <1>31
     DEF Step, CreateStep, AdminStep, SingleStep, FaultStep

\* Every step leaves each handler at a control point of its message.
LEMMA JobStep ==
    ASSUME BaseInv, NEW r \in Replicas, Step(r)
    PROVE  JobOK' /\ SubjectOK'
<1> USE DEF BaseInv, TypeOK, JobOK, SubjectOK, PostSteps, Goto, Load, Finish, Labels,
     CreateSteps, ModerationSteps, ApproveSteps, RejectSteps, ReviewSteps,
     SingleSteps, handler
<1>1. CASE CheckPosting(r)
  BY <1>1 DEF CheckPosting
<1>2. CASE SaveNewPost(r)
  BY <1>2 DEF SaveNewPost, AfterSave
<1>3. CASE AiVerdict(r)
  BY <1>3 DEF AiVerdict
<1>4. CASE AiTimeout(r)
  BY <1>4 DEF AiTimeout
<1>5. CASE IgnoreVerdict(r)
  BY <1>5 DEF IgnoreVerdict
<1>6. CASE ApplySafe(r)
  BY <1>6 DEF ApplySafe
<1>7. CASE ApplyHarmfulToPublic(r)
  BY <1>7 DEF ApplyHarmfulToPublic
<1>8. CASE ApplyHarmfulToHeld(r)
  BY <1>8 DEF ApplyHarmfulToHeld
<1>9. CASE HoldSave(r)
  BY <1>9 DEF HoldSave, SaveVerdict
<1>10. CASE PublishSave(r)
  BY <1>10 DEF PublishSave, SaveVerdict
<1>11. CASE NotifyPending(r)
  BY <1>11 DEF NotifyPending
<1>12. CASE NewPostFanout(r)
  BY <1>12 DEF NewPostFanout
<1>13. CASE CheckStillPending(r)
  BY <1>13 DEF CheckStillPending
<1>14. CASE ApproveLoad(r)
  BY <1>14 DEF ApproveLoad, LoadForAdmin
<1>15. CASE ApproveSave(r)
  BY <1>15 DEF ApproveSave
<1>16. CASE ApproveNotify(r)
  BY <1>16 DEF ApproveNotify
<1>17. CASE RejectLoad(r)
  BY <1>17 DEF RejectLoad, LoadForAdmin
<1>18. CASE RejectSave(r)
  BY <1>18 DEF RejectSave
<1>19. CASE RejectNotify(r)
  BY <1>19 DEF RejectNotify
<1>20. CASE PenaltyReply(r)
  BY <1>20 DEF PenaltyReply
<1>21. CASE SweepReports(r)
  BY <1>21 DEF SweepReports, AfterReject
<1>22. CASE ReviewLoad(r)
  <2>1. RejectsPost(job[r]) => reportTarget[job[r].reportId] \in Posts
    BY <1>22, RequestFields DEF ReviewLoad, RejectsPost, TypeOK, ReviewSteps, OnReport
  <2> QED BY <1>22, <2>1 DEF ReviewLoad
<1>23. CASE ReviewSave(r)
  BY <1>23 DEF ReviewSave
<1>24. CASE ReviewNotify(r)
  BY <1>24 DEF ReviewNotify
<1>25. CASE UpdatePost(r)
  BY <1>25 DEF UpdatePost
<1>26. CASE RemovePost(r)
  BY <1>26 DEF RemovePost
<1>27. CASE CreateReport(r)
  BY <1>27 DEF CreateReport
<1>28. CASE MarkReport(r)
  BY <1>28 DEF MarkReport
<1>29. CASE Crash(r)
  BY <1>29 DEF Crash
<1>30. CASE ExpireSession(r)
  BY <1>30 DEF ExpireSession
<1>31. CASE QueryFails(r)
  BY <1>31 DEF QueryFails, CaughtSteps, NoQuerySteps
<1> QED
  BY <1>1, <1>2, <1>3, <1>4, <1>5, <1>6, <1>7, <1>8, <1>9, <1>10, <1>11, <1>12,
     <1>13, <1>14, <1>15, <1>16, <1>17, <1>18, <1>19, <1>20, <1>21, <1>22, <1>23,
     <1>24, <1>25, <1>26, <1>27, <1>28, <1>29, <1>30, <1>31
     DEF Step, CreateStep, AdminStep, SingleStep, FaultStep


\* Taking a message up keeps the base invariant.
LEMMA BeginBase ==
    ASSUME BaseInv, NEW r \in Replicas, NEW m \in Requests, Begin(r, m)
    PROVE  BaseInv'
<1> USE RequestFields DEF BaseInv, Begin
<1>1. m.pattern \in Labels /\ (m.pattern \in OnPost => m.postId \in Posts)
  BY DEF Labels, CreateSteps, ApproveSteps, RejectSteps, ReviewSteps, SingleSteps
<1>2. HandlerType'
  BY <1>1 DEF TypeOK, HandlerType
<1>3. DataType'
  BY DEF TypeOK, DataType, posts, reports, outbox, aux
<1>4. JobOK' /\ SubjectOK'
  BY <1>1 DEF TypeOK, JobOK, SubjectOK, PostSteps, OnPost, Labels, CreateSteps,
     ModerationSteps, ApproveSteps, RejectSteps, ReviewSteps, SingleSteps
<1> QED BY <1>2, <1>3, <1>4 DEF TypeOK, HandlerType, DataType

LEMMA BaseInit == Init => BaseInv
BY NamesAssumption DEF Init, BaseInv, TypeOK, JobOK, SubjectOK, PostSteps, Labels,
   CreateSteps, ModerationSteps, ApproveSteps, RejectSteps, ReviewSteps, SingleSteps

LEMMA BaseNext == BaseInv /\ [Next]_vars => BaseInv'
<1> SUFFICES ASSUME BaseInv, [Next]_vars PROVE BaseInv'
  OBVIOUS
<1>1. ASSUME NEW r \in Replicas, Step(r) PROVE BaseInv'
  BY <1>1, HandlerTypeStep, DataTypeStep, JobStep
     DEF BaseInv, TypeOK, HandlerType, DataType
<1>2. CASE UNCHANGED vars
  BY <1>2 DEF vars, posts, reports, handler, outbox, BaseInv, TypeOK, JobOK, SubjectOK
<1> QED BY <1>1, <1>2, BeginBase DEF Next, Step

LEMMA BaseAlways == Spec => []BaseInv
BY BaseInit, BaseNext, PTL DEF Spec

\* Type correctness: no status outside the schemas' enums is ever stored.
THEOREM TypeCorrect == Spec => []TypeOK
<1>1. BaseInv => TypeOK
  BY DEF BaseInv
<1> QED BY <1>1, BaseAlways, PTL

-----------------------------------------------------------------------------
(* No penalty without a removal.  A handler between its save and its        *)
(* penalty call has a removal to its credit: counting those handlers makes  *)
(* the invariant inductive.                                                 *)

Owing(p) == {r \in Replicas : pc[r] = "reject_notify" /\ subject[r] = p}

PenaltyInv == \A p \in Posts : penaltyCalls[p] + Cardinality(Owing(p)) <= removals[p]

LEMMA OwingFinite ==
    ASSUME NEW p
    PROVE  IsFiniteSet(Owing(p)) /\ Cardinality(Owing(p)) \in Nat
BY ReplicasAssumption, FS_Subset, FS_CardinalityType DEF Owing

LEMMA OwingFinitePrime ==
    ASSUME NEW p
    PROVE  IsFiniteSet(Owing(p)') /\ Cardinality(Owing(p)') \in Nat
BY ReplicasAssumption, FS_Subset, FS_CardinalityType DEF Owing

\* A step of one replica leaves the handlers of the others alone.
LEMMA OthersUntouched ==
    ASSUME BaseInv, NEW r \in Replicas, Step(r), NEW s \in Replicas \ {r}
    PROVE  /\ pc'[s] = pc[s] /\ job'[s] = job[s]
           /\ subject'[s] = subject[s] /\ loaded'[s] = loaded[s]
<1> USE DEF BaseInv, TypeOK, Goto, Load, Finish, handler
<1>1. CASE CheckPosting(r)
  BY <1>1 DEF CheckPosting
<1>2. CASE SaveNewPost(r)
  BY <1>2 DEF SaveNewPost, AfterSave
<1>3. CASE AiVerdict(r)
  BY <1>3 DEF AiVerdict
<1>4. CASE AiTimeout(r)
  BY <1>4 DEF AiTimeout
<1>5. CASE IgnoreVerdict(r)
  BY <1>5 DEF IgnoreVerdict
<1>6. CASE ApplySafe(r)
  BY <1>6 DEF ApplySafe
<1>7. CASE ApplyHarmfulToPublic(r)
  BY <1>7 DEF ApplyHarmfulToPublic
<1>8. CASE ApplyHarmfulToHeld(r)
  BY <1>8 DEF ApplyHarmfulToHeld
<1>9. CASE HoldSave(r)
  BY <1>9 DEF HoldSave, SaveVerdict
<1>10. CASE PublishSave(r)
  BY <1>10 DEF PublishSave, SaveVerdict
<1>11. CASE NotifyPending(r)
  BY <1>11 DEF NotifyPending
<1>12. CASE NewPostFanout(r)
  BY <1>12 DEF NewPostFanout
<1>13. CASE CheckStillPending(r)
  BY <1>13 DEF CheckStillPending
<1>14. CASE ApproveLoad(r)
  BY <1>14 DEF ApproveLoad, LoadForAdmin
<1>15. CASE ApproveSave(r)
  BY <1>15 DEF ApproveSave
<1>16. CASE ApproveNotify(r)
  BY <1>16 DEF ApproveNotify
<1>17. CASE RejectLoad(r)
  BY <1>17 DEF RejectLoad, LoadForAdmin
<1>18. CASE RejectSave(r)
  BY <1>18 DEF RejectSave
<1>19. CASE RejectNotify(r)
  BY <1>19 DEF RejectNotify
<1>20. CASE PenaltyReply(r)
  BY <1>20 DEF PenaltyReply
<1>21. CASE SweepReports(r)
  BY <1>21 DEF SweepReports, AfterReject
<1>22. CASE ReviewLoad(r)
  BY <1>22 DEF ReviewLoad
<1>23. CASE ReviewSave(r)
  BY <1>23 DEF ReviewSave
<1>24. CASE ReviewNotify(r)
  BY <1>24 DEF ReviewNotify
<1>25. CASE UpdatePost(r)
  BY <1>25 DEF UpdatePost
<1>26. CASE RemovePost(r)
  BY <1>26 DEF RemovePost
<1>27. CASE CreateReport(r)
  BY <1>27 DEF CreateReport
<1>28. CASE MarkReport(r)
  BY <1>28 DEF MarkReport
<1>29. CASE Crash(r)
  BY <1>29 DEF Crash, Fault
<1>30. CASE ExpireSession(r)
  BY <1>30 DEF ExpireSession, Fault
<1>31. CASE QueryFails(r)
  BY <1>31 DEF QueryFails, Fault
<1> QED
  BY <1>1, <1>2, <1>3, <1>4, <1>5, <1>6, <1>7, <1>8, <1>9, <1>10, <1>11, <1>12,
     <1>13, <1>14, <1>15, <1>16, <1>17, <1>18, <1>19, <1>20, <1>21, <1>22, <1>23,
     <1>24, <1>25, <1>26, <1>27, <1>28, <1>29, <1>30, <1>31
     DEF Step, CreateStep, AdminStep, SingleStep, FaultStep

\* Only RejectSave makes a handler owe a penalty call, and only RejectNotify makes
\* the call.
LEMMA QuietSteps ==
    ASSUME BaseInv, NEW r \in Replicas, Step(r), ~RejectSave(r), ~RejectNotify(r)
    PROVE  /\ pc'[r] = "reject_notify" =>
               pc[r] = "reject_notify" /\ subject'[r] = subject[r]
           /\ penaltyCalls' = penaltyCalls /\ removals' = removals
<1> USE DEF BaseInv, TypeOK, Goto, Load, Finish, handler, outbox, aux
<1>1. CASE CheckPosting(r)
  BY <1>1 DEF CheckPosting
<1>2. CASE SaveNewPost(r)
  BY <1>2 DEF SaveNewPost, AfterSave
<1>3. CASE AiVerdict(r)
  BY <1>3 DEF AiVerdict
<1>4. CASE AiTimeout(r)
  BY <1>4 DEF AiTimeout
<1>5. CASE IgnoreVerdict(r)
  BY <1>5 DEF IgnoreVerdict
<1>6. CASE ApplySafe(r)
  BY <1>6 DEF ApplySafe
<1>7. CASE ApplyHarmfulToPublic(r)
  BY <1>7 DEF ApplyHarmfulToPublic
<1>8. CASE ApplyHarmfulToHeld(r)
  BY <1>8 DEF ApplyHarmfulToHeld
<1>9. CASE HoldSave(r)
  BY <1>9 DEF HoldSave, SaveVerdict
<1>10. CASE PublishSave(r)
  BY <1>10 DEF PublishSave, SaveVerdict
<1>11. CASE NotifyPending(r)
  BY <1>11 DEF NotifyPending
<1>12. CASE NewPostFanout(r)
  BY <1>12 DEF NewPostFanout
<1>13. CASE CheckStillPending(r)
  BY <1>13 DEF CheckStillPending
<1>14. CASE ApproveLoad(r)
  BY <1>14 DEF ApproveLoad, LoadForAdmin
<1>15. CASE ApproveSave(r)
  BY <1>15 DEF ApproveSave
<1>16. CASE ApproveNotify(r)
  BY <1>16 DEF ApproveNotify
<1>17. CASE RejectLoad(r)
  BY <1>17 DEF RejectLoad, LoadForAdmin
<1>18. CASE RejectSave(r)
  BY <1>18
<1>19. CASE RejectNotify(r)
  BY <1>19
<1>20. CASE PenaltyReply(r)
  BY <1>20 DEF PenaltyReply
<1>21. CASE SweepReports(r)
  BY <1>21 DEF SweepReports, AfterReject
<1>22. CASE ReviewLoad(r)
  BY <1>22 DEF ReviewLoad
<1>23. CASE ReviewSave(r)
  BY <1>23 DEF ReviewSave
<1>24. CASE ReviewNotify(r)
  BY <1>24 DEF ReviewNotify
<1>25. CASE UpdatePost(r)
  BY <1>25 DEF UpdatePost
<1>26. CASE RemovePost(r)
  BY <1>26 DEF RemovePost
<1>27. CASE CreateReport(r)
  BY <1>27 DEF CreateReport
<1>28. CASE MarkReport(r)
  BY <1>28 DEF MarkReport
<1>29. CASE Crash(r)
  BY <1>29 DEF Crash, Fault
<1>30. CASE ExpireSession(r)
  BY <1>30 DEF ExpireSession, Fault
<1>31. CASE QueryFails(r)
  BY <1>31 DEF QueryFails, Fault
<1> QED
  BY <1>1, <1>2, <1>3, <1>4, <1>5, <1>6, <1>7, <1>8, <1>9, <1>10, <1>11, <1>12,
     <1>13, <1>14, <1>15, <1>16, <1>17, <1>18, <1>19, <1>20, <1>21, <1>22, <1>23,
     <1>24, <1>25, <1>26, <1>27, <1>28, <1>29, <1>30, <1>31
     DEF Step, CreateStep, AdminStep, SingleStep, FaultStep

LEMMA PenaltyStep ==
    ASSUME BaseInv, PenaltyInv, NEW r \in Replicas, Step(r)
    PROVE  PenaltyInv'
<1> SUFFICES ASSUME NEW p \in Posts
             PROVE  penaltyCalls'[p] + Cardinality(Owing(p)') <= removals'[p]
  BY DEF PenaltyInv
<1>1. /\ IsFiniteSet(Owing(p)) /\ Cardinality(Owing(p)) \in Nat
      /\ IsFiniteSet(Owing(p)') /\ Cardinality(Owing(p)') \in Nat
  BY OwingFinite, OwingFinitePrime
<1>2. /\ penaltyCalls[p] \in Nat /\ removals[p] \in Nat
      /\ penaltyCalls[p] + Cardinality(Owing(p)) <= removals[p]
  BY DEF BaseInv, TypeOK, PenaltyInv
<1>3. CASE RejectSave(r) /\ subject[r] = p
  <2>1. CASE SaveFinds(p)
    <3>1. Owing(p)' \subseteq Owing(p) \cup {r}
      BY OthersUntouched DEF Owing
    <3>2. Cardinality(Owing(p)') <= Cardinality(Owing(p) \cup {r})
      BY <1>1, <3>1, FS_AddElement, FS_Subset
    <3>3. r \notin Owing(p)
      BY <1>3 DEF Owing, RejectSave
    <3>4. Cardinality(Owing(p) \cup {r}) = Cardinality(Owing(p)) + 1
      BY <1>1, <3>3, FS_AddElement
    <3>5. penaltyCalls'[p] = penaltyCalls[p] /\ removals'[p] = removals[p] + 1
      BY <1>3, <2>1 DEF RejectSave, BaseInv, TypeOK, outbox
    <3> QED BY <1>1, <1>2, <3>2, <3>4, <3>5
  <2>2. CASE ~SaveFinds(p)
    <3>1. Owing(p)' \subseteq Owing(p)
      BY <1>3, <2>2, OthersUntouched DEF Owing, RejectSave, Finish, BaseInv, TypeOK
    <3>2. Cardinality(Owing(p)') <= Cardinality(Owing(p))
      BY <1>1, <3>1, FS_Subset
    <3>3. penaltyCalls'[p] = penaltyCalls[p] /\ removals'[p] = removals[p]
      BY <1>3, <2>2 DEF RejectSave, outbox
    <3> QED BY <1>1, <1>2, <3>2, <3>3
  <2> QED BY <2>1, <2>2
<1>4. CASE RejectNotify(r) /\ subject[r] = p
  <2>1. Owing(p)' = Owing(p) \ {r} /\ r \in Owing(p)
    BY <1>4, OthersUntouched DEF Owing, RejectNotify, Goto, BaseInv, TypeOK
  <2>2. Cardinality(Owing(p)') = Cardinality(Owing(p)) - 1
    BY <1>1, <2>1, FS_RemoveElement
  <2>3. /\ penaltyCalls'[p] = penaltyCalls[p] \/ penaltyCalls'[p] = penaltyCalls[p] + 1
        /\ removals'[p] = removals[p]
    BY <1>4 DEF RejectNotify, BaseInv, TypeOK, aux
  <2> QED BY <1>1, <1>2, <2>2, <2>3
<1>5. CASE (RejectSave(r) \/ RejectNotify(r)) /\ subject[r] # p
  <2>1. Owing(p)' \subseteq Owing(p)
    <3>1. subject'[r] = subject[r] \/ pc'[r] = "idle"
      BY <1>5 DEF RejectSave, RejectNotify, Goto, Finish, BaseInv, TypeOK
    <3> QED BY <1>5, <3>1, OthersUntouched DEF Owing
  <2>2. Cardinality(Owing(p)') <= Cardinality(Owing(p))
    BY <1>1, <2>1, FS_Subset
  <2>3. penaltyCalls'[p] = penaltyCalls[p] /\ removals'[p] = removals[p]
    BY <1>5 DEF RejectSave, RejectNotify, BaseInv, TypeOK, outbox, aux
  <2> QED BY <1>1, <1>2, <2>2, <2>3
<1>6. CASE ~RejectSave(r) /\ ~RejectNotify(r)
  <2>1. Owing(p)' \subseteq Owing(p)
    BY <1>6, QuietSteps, OthersUntouched DEF Owing
  <2>2. Cardinality(Owing(p)') <= Cardinality(Owing(p))
    BY <1>1, <2>1, FS_Subset
  <2> QED BY <1>1, <1>2, <1>6, <2>2, QuietSteps
<1> QED BY <1>3, <1>4, <1>5, <1>6

LEMMA PenaltyBegin ==
    ASSUME BaseInv, PenaltyInv, NEW r \in Replicas, NEW m \in Requests, Begin(r, m)
    PROVE  PenaltyInv'
<1> SUFFICES ASSUME NEW p \in Posts
             PROVE  penaltyCalls'[p] + Cardinality(Owing(p)') <= removals'[p]
  BY DEF PenaltyInv
<1>1. m.pattern # "reject_notify"
  BY RequestFields
<1>2. Owing(p)' = Owing(p)
  BY <1>1 DEF Owing, Begin, BaseInv, TypeOK
<1> QED BY <1>2 DEF Begin, PenaltyInv, outbox, aux

\* No author is charged more violations for a post than its removals.
THEOREM PenaltiesAreBacked == Spec => []PenaltyBackedByRemoval
<1>1. Init => PenaltyInv
  <2> SUFFICES ASSUME Init, NEW p \in Posts
               PROVE  penaltyCalls[p] + Cardinality(Owing(p)) <= removals[p]
    BY DEF PenaltyInv
  <2>1. Owing(p) = {}
    BY DEF Init, Owing
  <2> QED BY <2>1, FS_EmptySet DEF Init
<1>2. BaseInv /\ PenaltyInv /\ [Next]_vars => PenaltyInv'
  <2>1. ASSUME PenaltyInv, UNCHANGED vars PROVE PenaltyInv'
    <3>1. \A p : Owing(p)' = Owing(p)
      BY <2>1 DEF Owing, vars, handler
    <3> QED BY <2>1, <3>1 DEF PenaltyInv, vars, outbox
  <2> QED BY <2>1, PenaltyStep, PenaltyBegin DEF Next, Step
<1>3. BaseInv /\ PenaltyInv => PenaltyBackedByRemoval
  <2> SUFFICES ASSUME BaseInv, PenaltyInv, NEW p \in Posts
               PROVE  penaltyCalls[p] <= removals[p]
    BY DEF PenaltyBackedByRemoval
  <2> QED BY OwingFinite DEF BaseInv, TypeOK, PenaltyInv
<1> QED BY <1>1, <1>2, <1>3, BaseAlways, PTL DEF Spec

-----------------------------------------------------------------------------
(* The author of a held post is told.  A post has one handler moderating    *)
(* it; a copy read as public means the post is not on hold.                 *)

ModerationOK ==
    /\ \A r, s \in Replicas :
           pc[r] \in ModerationSteps /\ pc[s] \in ModerationSteps /\ subject[r] = subject[s]
               => r = s
    /\ \A r \in Replicas :
           pc[r] \in ModerationSteps => visibility[subject[r]] # "absent"
    /\ \A r \in Replicas :
           \/ pc[r] = "ai_publish" /\ loaded[r] = "public"
           \/ pc[r] = "ai_fanout"
           => visibility[subject[r]] # "pending"

AnnouncedInv == ModerationOK /\ PendingIsAnnounced

\* Who puts a post on hold.
LEMMA HoldSteps ==
    ASSUME BaseInv, NEW r \in Replicas, Step(r), NEW p \in Posts
    PROVE  /\ visibility'[p] = "pending" /\ visibility[p] # "pending" =>
               \/ SaveNewPost(r) /\ visibility[p] = "absent"
               \/ pc[r] = "ai_hold" /\ subject[r] = p
           /\ visibility[p] # "absent" => visibility'[p] # "absent"
<1> USE DEF BaseInv, TypeOK, posts
<1>1. CASE CheckPosting(r)
  BY <1>1 DEF CheckPosting
<1>2. CASE SaveNewPost(r)
  BY <1>2 DEF SaveNewPost, AfterSave
<1>3. CASE AiVerdict(r)
  BY <1>3 DEF AiVerdict
<1>4. CASE AiTimeout(r)
  BY <1>4 DEF AiTimeout
<1>5. CASE IgnoreVerdict(r)
  BY <1>5 DEF IgnoreVerdict
<1>6. CASE ApplySafe(r)
  BY <1>6 DEF ApplySafe
<1>7. CASE ApplyHarmfulToPublic(r)
  BY <1>7 DEF ApplyHarmfulToPublic
<1>8. CASE ApplyHarmfulToHeld(r)
  BY <1>8 DEF ApplyHarmfulToHeld
<1>9. CASE HoldSave(r)
  BY <1>9 DEF HoldSave, SaveVerdict, SaveVisibility
<1>10. CASE PublishSave(r)
  BY <1>10 DEF PublishSave, SaveVerdict, SaveVisibility
<1>11. CASE NotifyPending(r)
  BY <1>11 DEF NotifyPending
<1>12. CASE NewPostFanout(r)
  BY <1>12 DEF NewPostFanout
<1>13. CASE CheckStillPending(r)
  BY <1>13 DEF CheckStillPending
<1>14. CASE ApproveLoad(r)
  BY <1>14 DEF ApproveLoad, LoadForAdmin
<1>15. CASE ApproveSave(r)
  BY <1>15 DEF ApproveSave, SaveVisibility
<1>16. CASE ApproveNotify(r)
  BY <1>16 DEF ApproveNotify
<1>17. CASE RejectLoad(r)
  BY <1>17 DEF RejectLoad, LoadForAdmin
<1>18. CASE RejectSave(r)
  BY <1>18 DEF RejectSave, SaveVisibility
<1>19. CASE RejectNotify(r)
  BY <1>19 DEF RejectNotify
<1>20. CASE PenaltyReply(r)
  BY <1>20 DEF PenaltyReply
<1>21. CASE SweepReports(r)
  BY <1>21 DEF SweepReports, AfterReject
<1>22. CASE ReviewLoad(r)
  BY <1>22 DEF ReviewLoad
<1>23. CASE ReviewSave(r)
  BY <1>23 DEF ReviewSave
<1>24. CASE ReviewNotify(r)
  BY <1>24 DEF ReviewNotify
<1>25. CASE UpdatePost(r)
  BY <1>25 DEF UpdatePost, NormalizeAudience
<1>26. CASE RemovePost(r)
  BY <1>26 DEF RemovePost
<1>27. CASE CreateReport(r)
  BY <1>27 DEF CreateReport
<1>28. CASE MarkReport(r)
  BY <1>28 DEF MarkReport
<1>29. CASE Crash(r)
  BY <1>29 DEF Crash, Fault
<1>30. CASE ExpireSession(r)
  BY <1>30 DEF ExpireSession, Fault
<1>31. CASE QueryFails(r)
  BY <1>31 DEF QueryFails, Fault
<1> QED
  BY <1>1, <1>2, <1>3, <1>4, <1>5, <1>6, <1>7, <1>8, <1>9, <1>10, <1>11, <1>12,
     <1>13, <1>14, <1>15, <1>16, <1>17, <1>18, <1>19, <1>20, <1>21, <1>22, <1>23,
     <1>24, <1>25, <1>26, <1>27, <1>28, <1>29, <1>30, <1>31
     DEF Step, CreateStep, AdminStep, SingleStep, FaultStep

\* Where a handler moderates after a step, and what it then holds.
LEMMA ModerationMoves ==
    ASSUME BaseInv, ModerationOK, NEW r \in Replicas, Step(r),
     pc'[r] \in ModerationSteps
    PROVE  \/ /\ pc[r] \in ModerationSteps /\ subject'[r] = subject[r]
              /\ \/ pc'[r] = "ai_publish" /\ loaded'[r] = "public"
                 \/ pc'[r] = "ai_fanout"
                 => visibility'[subject[r]] # "pending"
           \/ /\ SaveNewPost(r) /\ pc'[r] = "ai_wait"
              /\ visibility[subject'[r]] = "absent" /\ visibility'[subject'[r]] # "absent"
<1> USE DEF BaseInv, TypeOK, SubjectOK, PostSteps, ModerationOK, ModerationSteps,
     Goto, Load, Finish, handler, posts
<1>1. CASE CheckPosting(r)
  BY <1>1 DEF CheckPosting
<1>2. CASE SaveNewPost(r)
  <2>1. PICK p \in Posts :
           /\ visibility[p] = "absent" /\ visibility'[p] # "absent"
           /\ \/ pc'[r] = "idle"
              \/ pc'[r] \in {"ai_wait", "create_fanout", "idle"} /\ subject'[r] = p
    BY <1>2 DEF SaveNewPost, AfterSave, FirstVisibility, NormalizeAudience
  <2> QED BY <1>2, <2>1
<1>3. CASE AiVerdict(r)
  BY <1>3 DEF AiVerdict
<1>4. CASE AiTimeout(r)
  BY <1>4 DEF AiTimeout
<1>5. CASE IgnoreVerdict(r)
  BY <1>5 DEF IgnoreVerdict
<1>6. CASE ApplySafe(r)
  BY <1>6 DEF ApplySafe
<1>7. CASE ApplyHarmfulToPublic(r)
  BY <1>7 DEF ApplyHarmfulToPublic
<1>8. CASE ApplyHarmfulToHeld(r)
  BY <1>8 DEF ApplyHarmfulToHeld
<1>9. CASE HoldSave(r)
  BY <1>9 DEF HoldSave, SaveVerdict, SaveVisibility
<1>10. CASE PublishSave(r)
  BY <1>10 DEF PublishSave, SaveVerdict, SaveVisibility
<1>11. CASE NotifyPending(r)
  BY <1>11 DEF NotifyPending
<1>12. CASE NewPostFanout(r)
  BY <1>12 DEF NewPostFanout
<1>13. CASE CheckStillPending(r)
  BY <1>13 DEF CheckStillPending
<1>14. CASE ApproveLoad(r)
  BY <1>14 DEF ApproveLoad, LoadForAdmin
<1>15. CASE ApproveSave(r)
  BY <1>15 DEF ApproveSave, SaveVisibility
<1>16. CASE ApproveNotify(r)
  BY <1>16 DEF ApproveNotify
<1>17. CASE RejectLoad(r)
  BY <1>17 DEF RejectLoad, LoadForAdmin
<1>18. CASE RejectSave(r)
  BY <1>18 DEF RejectSave, SaveVisibility
<1>19. CASE RejectNotify(r)
  BY <1>19 DEF RejectNotify
<1>20. CASE PenaltyReply(r)
  BY <1>20 DEF PenaltyReply
<1>21. CASE SweepReports(r)
  BY <1>21 DEF SweepReports, AfterReject
<1>22. CASE ReviewLoad(r)
  BY <1>22 DEF ReviewLoad
<1>23. CASE ReviewSave(r)
  BY <1>23 DEF ReviewSave
<1>24. CASE ReviewNotify(r)
  BY <1>24 DEF ReviewNotify
<1>25. CASE UpdatePost(r)
  BY <1>25 DEF UpdatePost
<1>26. CASE RemovePost(r)
  BY <1>26 DEF RemovePost
<1>27. CASE CreateReport(r)
  BY <1>27 DEF CreateReport
<1>28. CASE MarkReport(r)
  BY <1>28 DEF MarkReport
<1>29. CASE Crash(r)
  BY <1>29 DEF Crash, Fault
<1>30. CASE ExpireSession(r)
  BY <1>30 DEF ExpireSession, Fault
<1>31. CASE QueryFails(r)
  BY <1>31 DEF QueryFails, Fault, CaughtSteps
<1> QED
  BY <1>1, <1>2, <1>3, <1>4, <1>5, <1>6, <1>7, <1>8, <1>9, <1>10, <1>11, <1>12,
     <1>13, <1>14, <1>15, <1>16, <1>17, <1>18, <1>19, <1>20, <1>21, <1>22, <1>23,
     <1>24, <1>25, <1>26, <1>27, <1>28, <1>29, <1>30, <1>31
     DEF Step, CreateStep, AdminStep, SingleStep, FaultStep

LEMMA ModerationStep ==
    ASSUME BaseInv, ModerationOK, NEW r \in Replicas, Step(r)
    PROVE  ModerationOK'
<1> USE DEF BaseInv, TypeOK, SubjectOK, PostSteps
<1>1. \A s \in Replicas \ {r} :
          /\ pc'[s] = pc[s] /\ subject'[s] = subject[s] /\ loaded'[s] = loaded[s]
  BY OthersUntouched
<1>2. ASSUME NEW s \in Replicas, NEW t \in Replicas, pc'[s] \in ModerationSteps,
             pc'[t] \in ModerationSteps, subject'[s] = subject'[t]
      PROVE  s = t
  <2>1. CASE s # r /\ t # r
    BY <1>1, <1>2, <2>1 DEF ModerationOK
  <2>2. CASE s = r /\ t # r
    BY <1>1, <1>2, <2>2, ModerationMoves DEF ModerationOK
  <2>3. CASE s # r /\ t = r
    BY <1>1, <1>2, <2>3, ModerationMoves DEF ModerationOK
  <2> QED BY <2>1, <2>2, <2>3
<1>3. ASSUME NEW s \in Replicas, pc'[s] \in ModerationSteps
      PROVE  visibility'[subject'[s]] # "absent"
  <2>1. CASE s = r
    BY <1>3, <2>1, ModerationMoves, HoldSteps DEF ModerationOK
  <2>2. CASE s # r
    BY <1>1, <1>3, <2>2, HoldSteps DEF ModerationOK
  <2> QED BY <2>1, <2>2
<1>4. ASSUME NEW s \in Replicas,
             \/ pc'[s] = "ai_publish" /\ loaded'[s] = "public"
             \/ pc'[s] = "ai_fanout"
      PROVE  visibility'[subject'[s]] # "pending"
  <2> pc'[s] \in ModerationSteps
    BY <1>4 DEF ModerationSteps
  <2>1. CASE s = r
    BY <1>4, <2>1, ModerationMoves
  <2>2. CASE s # r
    <3>1. pc[s] \in ModerationSteps /\ subject[s] \in Posts
      BY <1>1, <2>2
    <3>2. visibility[subject[s]] # "pending" /\ visibility[subject[s]] # "absent"
      BY <1>1, <1>4, <2>2, <3>1 DEF ModerationOK
    <3>3. ~(pc[r] = "ai_hold" /\ subject[r] = subject[s])
      BY <2>2, <3>1 DEF ModerationOK, ModerationSteps
    <3> QED BY <1>1, <2>2, <3>1, <3>2, <3>3, HoldSteps
  <2> QED BY <2>1, <2>2
<1> QED BY <1>2, <1>3, <1>4 DEF ModerationOK

\* A notice sent stays sent, and an abandoned post abandoned.
LEMMA PendingNoticesKept ==
    ASSUME BaseInv, NEW r \in Replicas, Step(r), NEW p \in Posts
    PROVE  /\ sent[<<"post_pending", p>>] > 0 => sent'[<<"post_pending", p>>] > 0
           /\ p \in abandoned => p \in abandoned'
<1> USE DEF BaseInv, TypeOK, Notice, PostNotice, ReportNotice, outbox, aux
<1>1. CASE CheckPosting(r)
  BY <1>1 DEF CheckPosting
<1>2. CASE SaveNewPost(r)
  BY <1>2 DEF SaveNewPost, AfterSave
<1>3. CASE AiVerdict(r)
  BY <1>3 DEF AiVerdict
<1>4. CASE AiTimeout(r)
  BY <1>4 DEF AiTimeout
<1>5. CASE IgnoreVerdict(r)
  BY <1>5 DEF IgnoreVerdict, InModeration
<1>6. CASE ApplySafe(r)
  BY <1>6 DEF ApplySafe, InModeration
<1>7. CASE ApplyHarmfulToPublic(r)
  BY <1>7 DEF ApplyHarmfulToPublic
<1>8. CASE ApplyHarmfulToHeld(r)
  BY <1>8 DEF ApplyHarmfulToHeld, Emit
<1>9. CASE HoldSave(r)
  BY <1>9 DEF HoldSave, SaveVerdict
<1>10. CASE PublishSave(r)
  BY <1>10 DEF PublishSave, SaveVerdict
<1>11. CASE NotifyPending(r)
  BY <1>11 DEF NotifyPending, Emit
<1>12. CASE NewPostFanout(r)
  BY <1>12 DEF NewPostFanout, Emit
<1>13. CASE CheckStillPending(r)
  BY <1>13 DEF CheckStillPending, Emit
<1>14. CASE ApproveLoad(r)
  BY <1>14 DEF ApproveLoad, LoadForAdmin
<1>15. CASE ApproveSave(r)
  BY <1>15 DEF ApproveSave
<1>16. CASE ApproveNotify(r)
  BY <1>16 DEF ApproveNotify
<1>17. CASE RejectLoad(r)
  BY <1>17 DEF RejectLoad, LoadForAdmin
<1>18. CASE RejectSave(r)
  BY <1>18 DEF RejectSave
<1>19. CASE RejectNotify(r)
  BY <1>19 DEF RejectNotify, Emit
<1>20. CASE PenaltyReply(r)
  BY <1>20 DEF PenaltyReply
<1>21. CASE SweepReports(r)
  BY <1>21 DEF SweepReports, AfterReject
<1>22. CASE ReviewLoad(r)
  BY <1>22 DEF ReviewLoad
<1>23. CASE ReviewSave(r)
  BY <1>23 DEF ReviewSave
<1>24. CASE ReviewNotify(r)
  BY <1>24 DEF ReviewNotify, Emit
<1>25. CASE UpdatePost(r)
  BY <1>25 DEF UpdatePost
<1>26. CASE RemovePost(r)
  BY <1>26 DEF RemovePost
<1>27. CASE CreateReport(r)
  BY <1>27 DEF CreateReport
<1>28. CASE MarkReport(r)
  BY <1>28 DEF MarkReport
<1>29. CASE Crash(r)
  BY <1>29 DEF Crash, Fault, Abandon
<1>30. CASE ExpireSession(r)
  BY <1>30 DEF ExpireSession, Fault
<1>31. CASE QueryFails(r)
  BY <1>31 DEF QueryFails, Fault, CaughtSteps, Abandon
<1> QED
  BY <1>1, <1>2, <1>3, <1>4, <1>5, <1>6, <1>7, <1>8, <1>9, <1>10, <1>11, <1>12,
     <1>13, <1>14, <1>15, <1>16, <1>17, <1>18, <1>19, <1>20, <1>21, <1>22, <1>23,
     <1>24, <1>25, <1>26, <1>27, <1>28, <1>29, <1>30, <1>31
     DEF Step, CreateStep, AdminStep, SingleStep, FaultStep

\* A handler leaves a post on hold only announced or abandoned.
LEMMA ModerationEnds ==
    ASSUME BaseInv, ModerationOK, NEW r \in Replicas, Step(r),
           pc[r] \in ModerationSteps, NEW p \in Posts, subject[r] = p,
     visibility'[p] = "pending"
    PROVE  \/ pc'[r] \in ModerationSteps /\ subject'[r] = p
           \/ sent'[<<"post_pending", p>>] > 0
           \/ p \in abandoned'
<1> USE DEF BaseInv, TypeOK, ModerationOK, ModerationSteps, Goto, Load, Finish,
     handler, Notice, PostNotice, posts, outbox, aux
<1>1. CASE CheckPosting(r)
  BY <1>1 DEF CheckPosting
<1>2. CASE SaveNewPost(r)
  BY <1>2 DEF SaveNewPost, AfterSave
<1>3. CASE AiVerdict(r)
  BY <1>3 DEF AiVerdict
<1>4. CASE AiTimeout(r)
  BY <1>4 DEF AiTimeout
<1>5. CASE IgnoreVerdict(r)
  BY <1>5 DEF IgnoreVerdict, InModeration
<1>6. CASE ApplySafe(r)
  BY <1>6 DEF ApplySafe, InModeration
<1>7. CASE ApplyHarmfulToPublic(r)
  BY <1>7 DEF ApplyHarmfulToPublic
<1>8. CASE ApplyHarmfulToHeld(r)
  BY <1>8 DEF ApplyHarmfulToHeld, Emit
<1>9. CASE HoldSave(r)
  BY <1>9 DEF HoldSave, SaveVerdict
<1>10. CASE PublishSave(r)
  BY <1>10 DEF PublishSave, SaveVerdict
<1>11. CASE NotifyPending(r)
  BY <1>11 DEF NotifyPending, Emit
<1>12. CASE NewPostFanout(r)
  BY <1>12 DEF NewPostFanout, Emit
<1>13. CASE CheckStillPending(r)
  BY <1>13 DEF CheckStillPending, Emit
<1>14. CASE ApproveLoad(r)
  BY <1>14 DEF ApproveLoad, LoadForAdmin
<1>15. CASE ApproveSave(r)
  BY <1>15 DEF ApproveSave
<1>16. CASE ApproveNotify(r)
  BY <1>16 DEF ApproveNotify
<1>17. CASE RejectLoad(r)
  BY <1>17 DEF RejectLoad, LoadForAdmin
<1>18. CASE RejectSave(r)
  BY <1>18 DEF RejectSave
<1>19. CASE RejectNotify(r)
  BY <1>19 DEF RejectNotify, Emit
<1>20. CASE PenaltyReply(r)
  BY <1>20 DEF PenaltyReply
<1>21. CASE SweepReports(r)
  BY <1>21 DEF SweepReports, AfterReject
<1>22. CASE ReviewLoad(r)
  BY <1>22 DEF ReviewLoad
<1>23. CASE ReviewSave(r)
  BY <1>23 DEF ReviewSave
<1>24. CASE ReviewNotify(r)
  BY <1>24 DEF ReviewNotify, Emit
<1>25. CASE UpdatePost(r)
  BY <1>25 DEF UpdatePost
<1>26. CASE RemovePost(r)
  BY <1>26 DEF RemovePost
<1>27. CASE CreateReport(r)
  BY <1>27 DEF CreateReport
<1>28. CASE MarkReport(r)
  BY <1>28 DEF MarkReport
<1>29. CASE Crash(r)
  BY <1>29 DEF Crash, Fault, Abandon
<1>30. CASE ExpireSession(r)
  BY <1>30 DEF ExpireSession, Fault
<1>31. CASE QueryFails(r)
  BY <1>31 DEF QueryFails, Fault, CaughtSteps, Abandon
<1> QED
  BY <1>1, <1>2, <1>3, <1>4, <1>5, <1>6, <1>7, <1>8, <1>9, <1>10, <1>11, <1>12,
     <1>13, <1>14, <1>15, <1>16, <1>17, <1>18, <1>19, <1>20, <1>21, <1>22, <1>23,
     <1>24, <1>25, <1>26, <1>27, <1>28, <1>29, <1>30, <1>31
     DEF Step, CreateStep, AdminStep, SingleStep, FaultStep

LEMMA AnnouncedStep ==
    ASSUME BaseInv, AnnouncedInv, NEW r \in Replicas, Step(r)
    PROVE  AnnouncedInv'
<1>1. ModerationOK'
  BY ModerationStep DEF AnnouncedInv
<1>2. ASSUME NEW p \in Posts, visibility'[p] = "pending", sent'[<<"post_pending", p>>] = 0
      PROVE  \/ p \in abandoned'
             \/ \E s \in Replicas : pc'[s] \in ModerationSteps /\ subject'[s] = p
  <2> USE DEF BaseInv, TypeOK
  <2>1. CASE SaveNewPost(r) /\ visibility[p] = "absent"
    <3>1. pc'[r] = "ai_wait" /\ subject'[r] = p
      BY <1>2, <2>1 DEF SaveNewPost, AfterSave
    <3> QED BY <3>1 DEF ModerationSteps
  <2>2. CASE pc[r] = "ai_hold" /\ subject[r] = p
    <3>1. pc[r] \in ModerationSteps
      BY <2>2 DEF ModerationSteps
    <3> QED BY <1>2, <2>2, <3>1, ModerationEnds DEF AnnouncedInv
  <2>3. CASE visibility[p] = "pending"
    <3>1. sent[<<"post_pending", p>>] = 0
      <4>1. <<"post_pending", p>> \in Notice
        BY DEF Notice, PostNotice
      <4> QED BY <1>2, <4>1, PendingNoticesKept
    <3>2. CASE p \in abandoned
      BY <3>2, PendingNoticesKept
    <3>3. CASE \E s \in Replicas : pc[s] \in ModerationSteps /\ subject[s] = p
      <4>1. PICK s \in Replicas : pc[s] \in ModerationSteps /\ subject[s] = p
        BY <3>3
      <4>2. CASE s = r
        BY <1>2, <4>1, <4>2, ModerationEnds DEF AnnouncedInv
      <4>3. CASE s # r
        BY <4>1, <4>3, OthersUntouched
      <4> QED BY <4>2, <4>3
    <3> QED BY <2>3, <3>1, <3>2, <3>3 DEF AnnouncedInv, PendingIsAnnounced
  <2> QED BY <1>2, <2>1, <2>2, <2>3, HoldSteps
<1> QED BY <1>1, <1>2 DEF AnnouncedInv, PendingIsAnnounced

LEMMA AnnouncedBegin ==
    ASSUME BaseInv, AnnouncedInv, NEW r \in Replicas, NEW m \in Requests, Begin(r, m)
    PROVE  AnnouncedInv'
<1>1. m.pattern \notin ModerationSteps /\ pc[r] \notin ModerationSteps
  BY RequestFields DEF ModerationSteps, Begin
<1>2. /\ pc' = [pc EXCEPT ![r] = m.pattern] /\ loaded' = loaded
      /\ \A s \in Replicas \ {r} : subject'[s] = subject[s]
      /\ UNCHANGED <<visibility, sent, abandoned>>
  BY DEF Begin, BaseInv, TypeOK, posts, outbox, aux
<1>3. \A s \in Replicas :
          /\ pc'[s] \in ModerationSteps =>
                 s # r /\ pc'[s] = pc[s] /\ subject'[s] = subject[s]
          /\ pc[s] \in ModerationSteps =>
                 s # r /\ pc'[s] = pc[s] /\ subject'[s] = subject[s]
  BY <1>1, <1>2 DEF BaseInv, TypeOK
<1>4. "ai_publish" \in ModerationSteps /\ "ai_fanout" \in ModerationSteps
  BY DEF ModerationSteps
<1>5. ModerationOK'
  BY <1>2, <1>3, <1>4 DEF AnnouncedInv, ModerationOK
<1>6. PendingIsAnnounced'
  BY <1>2, <1>3 DEF AnnouncedInv, PendingIsAnnounced
<1> QED BY <1>5, <1>6 DEF AnnouncedInv

\* The author of a held post has been told, or its creation is still under
\* way, or it was cut short.
THEOREM HeldPostsAreAnnounced == Spec => []PendingIsAnnounced
<1>1. Init => AnnouncedInv
  BY DEF Init, AnnouncedInv, ModerationOK, PendingIsAnnounced, ModerationSteps
<1>2. BaseInv /\ AnnouncedInv /\ [Next]_vars => AnnouncedInv'
  <2>1. ASSUME AnnouncedInv, UNCHANGED vars PROVE AnnouncedInv'
    BY <2>1 DEF AnnouncedInv, ModerationOK, PendingIsAnnounced, vars, posts, handler,
       outbox
  <2> QED BY <2>1, AnnouncedStep, AnnouncedBegin DEF Next, Step
<1>3. AnnouncedInv => PendingIsAnnounced
  BY DEF AnnouncedInv
<1> QED BY <1>1, <1>2, <1>3, BaseAlways, PTL DEF Spec

-----------------------------------------------------------------------------
(* A report on a post is upheld only with the post taken down.              *)

\* A review in progress: its report is filed, it rejects the report's own
\* post, and past that rejection the post has been taken down.
ReviewOK ==
    \A r \in Replicas :
        /\ pc[r] \in RejectSteps \cup ReviewSteps /\ job[r].pattern = "admin.report.review" =>
               reportStatus[job[r].reportId] # "absent"
        /\ pc[r] \in RejectSteps /\ job[r].pattern = "admin.report.review" =>
               subject[r] = reportTarget[job[r].reportId]
        /\ pc[r] \in {"reject_notify", "penalty_wait", "reject_sweep"} =>
               removals[subject[r]] > 0
        /\ pc[r] \in {"review_save", "review_notify"} /\ job[r].action = "uphold"
               /\ reportTarget[job[r].reportId] # NoPost =>
               removals[reportTarget[job[r].reportId]] > 0

UpheldFiled ==
    \A q \in Reports : sent[<<"report_upheld", q>>] > 0 => reportStatus[q] # "absent"

ReviewInv == ReviewOK /\ UpheldFiled /\ UpheldMeansRemoved

\* A report filed stays filed, against the same post, and removals only grow.
LEMMA ReportsFiled ==
    ASSUME BaseInv, NEW r \in Replicas, Step(r)
    PROVE  /\ \A q \in Reports : reportStatus[q] # "absent" =>
                  reportStatus'[q] # "absent" /\ reportTarget'[q] = reportTarget[q]
           /\ \A p \in Posts : removals[p] > 0 => removals'[p] > 0
<1> USE DEF BaseInv, TypeOK, reports, aux
<1>1. CASE CheckPosting(r)
  BY <1>1 DEF CheckPosting
<1>2. CASE SaveNewPost(r)
  BY <1>2 DEF SaveNewPost, AfterSave
<1>3. CASE AiVerdict(r)
  BY <1>3 DEF AiVerdict
<1>4. CASE AiTimeout(r)
  BY <1>4 DEF AiTimeout
<1>5. CASE IgnoreVerdict(r)
  BY <1>5 DEF IgnoreVerdict
<1>6. CASE ApplySafe(r)
  BY <1>6 DEF ApplySafe
<1>7. CASE ApplyHarmfulToPublic(r)
  BY <1>7 DEF ApplyHarmfulToPublic
<1>8. CASE ApplyHarmfulToHeld(r)
  BY <1>8 DEF ApplyHarmfulToHeld
<1>9. CASE HoldSave(r)
  BY <1>9 DEF HoldSave, SaveVerdict
<1>10. CASE PublishSave(r)
  BY <1>10 DEF PublishSave, SaveVerdict
<1>11. CASE NotifyPending(r)
  BY <1>11 DEF NotifyPending
<1>12. CASE NewPostFanout(r)
  BY <1>12 DEF NewPostFanout
<1>13. CASE CheckStillPending(r)
  BY <1>13 DEF CheckStillPending
<1>14. CASE ApproveLoad(r)
  BY <1>14 DEF ApproveLoad, LoadForAdmin
<1>15. CASE ApproveSave(r)
  BY <1>15 DEF ApproveSave
<1>16. CASE ApproveNotify(r)
  BY <1>16 DEF ApproveNotify
<1>17. CASE RejectLoad(r)
  BY <1>17 DEF RejectLoad, LoadForAdmin
<1>18. CASE RejectSave(r)
  BY <1>18 DEF RejectSave
<1>19. CASE RejectNotify(r)
  BY <1>19 DEF RejectNotify
<1>20. CASE PenaltyReply(r)
  BY <1>20 DEF PenaltyReply
<1>21. CASE SweepReports(r)
  BY <1>21 DEF SweepReports, AfterReject
<1>22. CASE ReviewLoad(r)
  BY <1>22 DEF ReviewLoad
<1>23. CASE ReviewSave(r)
  BY <1>23 DEF ReviewSave
<1>24. CASE ReviewNotify(r)
  BY <1>24 DEF ReviewNotify
<1>25. CASE UpdatePost(r)
  BY <1>25 DEF UpdatePost
<1>26. CASE RemovePost(r)
  BY <1>26 DEF RemovePost
<1>27. CASE CreateReport(r)
  BY <1>27 DEF CreateReport
<1>28. CASE MarkReport(r)
  BY <1>28, RequestFields DEF MarkReport, JobOK, SingleSteps, OnReport, ReportStatus
<1>29. CASE Crash(r)
  BY <1>29 DEF Crash, Fault
<1>30. CASE ExpireSession(r)
  BY <1>30 DEF ExpireSession, Fault
<1>31. CASE QueryFails(r)
  BY <1>31 DEF QueryFails, Fault
<1> QED
  BY <1>1, <1>2, <1>3, <1>4, <1>5, <1>6, <1>7, <1>8, <1>9, <1>10, <1>11, <1>12,
     <1>13, <1>14, <1>15, <1>16, <1>17, <1>18, <1>19, <1>20, <1>21, <1>22, <1>23,
     <1>24, <1>25, <1>26, <1>27, <1>28, <1>29, <1>30, <1>31
     DEF Step, CreateStep, AdminStep, SingleStep, FaultStep

\* What the review a replica runs has established after a step.
LEMMA ReviewMoves ==
    ASSUME BaseInv, ReviewOK, NEW r \in Replicas, Step(r)
    PROVE  /\ pc'[r] \in RejectSteps \cup ReviewSteps => job'[r] = job[r]
           /\ pc'[r] \in RejectSteps /\ job[r].pattern = "admin.report.review" =>
                  /\ pc[r] \in RejectSteps \cup ReviewSteps
                  /\ subject'[r] = reportTarget[job[r].reportId]
           /\ pc'[r] \in ReviewSteps => pc[r] \in RejectSteps \cup ReviewSteps
           /\ pc'[r] \in {"reject_notify", "penalty_wait", "reject_sweep"} =>
                  removals'[subject'[r]] > 0
           /\ pc'[r] \in {"review_save", "review_notify"} /\ job[r].action = "uphold"
                  /\ reportTarget[job[r].reportId] # NoPost =>
                  removals'[reportTarget[job[r].reportId]] > 0
<1> USE DEF BaseInv, TypeOK, JobOK, SubjectOK, PostSteps, ReviewOK, Goto, Load,
     Finish, handler, aux, Labels, CreateSteps, ModerationSteps, ApproveSteps,
     RejectSteps, ReviewSteps, SingleSteps
<1>1. CASE CheckPosting(r)
  BY <1>1 DEF CheckPosting
<1>2. CASE SaveNewPost(r)
  BY <1>2 DEF SaveNewPost, AfterSave
<1>3. CASE AiVerdict(r)
  BY <1>3 DEF AiVerdict
<1>4. CASE AiTimeout(r)
  BY <1>4 DEF AiTimeout
<1>5. CASE IgnoreVerdict(r)
  BY <1>5 DEF IgnoreVerdict
<1>6. CASE ApplySafe(r)
  BY <1>6 DEF ApplySafe
<1>7. CASE ApplyHarmfulToPublic(r)
  BY <1>7 DEF ApplyHarmfulToPublic
<1>8. CASE ApplyHarmfulToHeld(r)
  BY <1>8 DEF ApplyHarmfulToHeld
<1>9. CASE HoldSave(r)
  BY <1>9 DEF HoldSave, SaveVerdict
<1>10. CASE PublishSave(r)
  BY <1>10 DEF PublishSave, SaveVerdict
<1>11. CASE NotifyPending(r)
  BY <1>11 DEF NotifyPending
<1>12. CASE NewPostFanout(r)
  BY <1>12 DEF NewPostFanout
<1>13. CASE CheckStillPending(r)
  BY <1>13 DEF CheckStillPending
<1>14. CASE ApproveLoad(r)
  BY <1>14 DEF ApproveLoad, LoadForAdmin
<1>15. CASE ApproveSave(r)
  BY <1>15 DEF ApproveSave
<1>16. CASE ApproveNotify(r)
  BY <1>16 DEF ApproveNotify
<1>17. CASE RejectLoad(r)
  BY <1>17 DEF RejectLoad, LoadForAdmin
<1>18. CASE RejectSave(r)
  BY <1>18 DEF RejectSave
<1>19. CASE RejectNotify(r)
  BY <1>19 DEF RejectNotify, WithPenalty
<1>20. CASE PenaltyReply(r)
  BY <1>20 DEF PenaltyReply
<1>21. CASE SweepReports(r)
  BY <1>21 DEF SweepReports, AfterReject
<1>22. CASE ReviewLoad(r)
  BY <1>22 DEF ReviewLoad, RejectsPost, Reviewable
<1>23. CASE ReviewSave(r)
  BY <1>23 DEF ReviewSave
<1>24. CASE ReviewNotify(r)
  BY <1>24 DEF ReviewNotify
<1>25. CASE UpdatePost(r)
  BY <1>25 DEF UpdatePost
<1>26. CASE RemovePost(r)
  BY <1>26 DEF RemovePost
<1>27. CASE CreateReport(r)
  BY <1>27 DEF CreateReport
<1>28. CASE MarkReport(r)
  BY <1>28 DEF MarkReport
<1>29. CASE Crash(r)
  BY <1>29 DEF Crash, Fault
<1>30. CASE ExpireSession(r)
  BY <1>30 DEF ExpireSession, Fault
<1>31. CASE QueryFails(r)
  BY <1>31 DEF QueryFails, Fault, CaughtSteps, NoQuerySteps
<1> QED
  BY <1>1, <1>2, <1>3, <1>4, <1>5, <1>6, <1>7, <1>8, <1>9, <1>10, <1>11, <1>12,
     <1>13, <1>14, <1>15, <1>16, <1>17, <1>18, <1>19, <1>20, <1>21, <1>22, <1>23,
     <1>24, <1>25, <1>26, <1>27, <1>28, <1>29, <1>30, <1>31
     DEF Step, CreateStep, AdminStep, SingleStep, FaultStep

\* Only ReviewNotify tells a reporter that a report was upheld.
LEMMA UpheldSent ==
    ASSUME BaseInv, NEW r \in Replicas, Step(r), NEW q \in Reports,
           sent'[<<"report_upheld", q>>] > 0
    PROVE  \/ sent[<<"report_upheld", q>>] > 0
           \/ pc[r] = "review_notify" /\ job[r].action = "uphold" /\ job[r].reportId = q
<1> USE DEF BaseInv, TypeOK, Notice, PostNotice, ReportNotice, outbox, aux
<1>1. CASE CheckPosting(r)
  BY <1>1 DEF CheckPosting
<1>2. CASE SaveNewPost(r)
  BY <1>2 DEF SaveNewPost, AfterSave
<1>3. CASE AiVerdict(r)
  BY <1>3 DEF AiVerdict
<1>4. CASE AiTimeout(r)
  BY <1>4 DEF AiTimeout
<1>5. CASE IgnoreVerdict(r)
  BY <1>5 DEF IgnoreVerdict, InModeration
<1>6. CASE ApplySafe(r)
  BY <1>6 DEF ApplySafe, InModeration
<1>7. CASE ApplyHarmfulToPublic(r)
  BY <1>7 DEF ApplyHarmfulToPublic
<1>8. CASE ApplyHarmfulToHeld(r)
  BY <1>8 DEF ApplyHarmfulToHeld, Emit
<1>9. CASE HoldSave(r)
  BY <1>9 DEF HoldSave, SaveVerdict
<1>10. CASE PublishSave(r)
  BY <1>10 DEF PublishSave, SaveVerdict
<1>11. CASE NotifyPending(r)
  BY <1>11 DEF NotifyPending, Emit
<1>12. CASE NewPostFanout(r)
  BY <1>12 DEF NewPostFanout, Emit
<1>13. CASE CheckStillPending(r)
  BY <1>13 DEF CheckStillPending, Emit
<1>14. CASE ApproveLoad(r)
  BY <1>14 DEF ApproveLoad, LoadForAdmin
<1>15. CASE ApproveSave(r)
  BY <1>15 DEF ApproveSave
<1>16. CASE ApproveNotify(r)
  BY <1>16 DEF ApproveNotify
<1>17. CASE RejectLoad(r)
  BY <1>17 DEF RejectLoad, LoadForAdmin
<1>18. CASE RejectSave(r)
  BY <1>18 DEF RejectSave
<1>19. CASE RejectNotify(r)
  BY <1>19 DEF RejectNotify, Emit
<1>20. CASE PenaltyReply(r)
  BY <1>20 DEF PenaltyReply
<1>21. CASE SweepReports(r)
  BY <1>21 DEF SweepReports, AfterReject
<1>22. CASE ReviewLoad(r)
  BY <1>22 DEF ReviewLoad
<1>23. CASE ReviewSave(r)
  BY <1>23 DEF ReviewSave
<1>24. CASE ReviewNotify(r)
  BY <1>24 DEF ReviewNotify, Emit
<1>25. CASE UpdatePost(r)
  BY <1>25 DEF UpdatePost
<1>26. CASE RemovePost(r)
  BY <1>26 DEF RemovePost
<1>27. CASE CreateReport(r)
  BY <1>27 DEF CreateReport
<1>28. CASE MarkReport(r)
  BY <1>28 DEF MarkReport
<1>29. CASE Crash(r)
  BY <1>29 DEF Crash, Fault
<1>30. CASE ExpireSession(r)
  BY <1>30 DEF ExpireSession, Fault
<1>31. CASE QueryFails(r)
  BY <1>31 DEF QueryFails, Fault, CaughtSteps
<1> QED
  BY <1>1, <1>2, <1>3, <1>4, <1>5, <1>6, <1>7, <1>8, <1>9, <1>10, <1>11, <1>12,
     <1>13, <1>14, <1>15, <1>16, <1>17, <1>18, <1>19, <1>20, <1>21, <1>22, <1>23,
     <1>24, <1>25, <1>26, <1>27, <1>28, <1>29, <1>30, <1>31
     DEF Step, CreateStep, AdminStep, SingleStep, FaultStep

LEMMA ReviewStep ==
    ASSUME BaseInv, ReviewInv, NEW r \in Replicas, Step(r)
    PROVE  ReviewInv'
<1>0. \A q \in Reports : reportTarget[q] \in Posts \cup {NoPost}
  BY DEF BaseInv, TypeOK
<1>1. ASSUME NEW s \in Replicas, pc'[s] \in RejectSteps \cup ReviewSteps,
             job'[s].pattern = "admin.report.review"
      PROVE  /\ pc[s] \in RejectSteps \cup ReviewSteps /\ job'[s] = job[s]
             /\ job[s].reportId \in Reports
             /\ reportStatus[job[s].reportId] # "absent"
  <2>1. pc[s] \in RejectSteps \cup ReviewSteps /\ job'[s] = job[s]
    <3>1. CASE s = r
      BY <1>1, <3>1, ReviewMoves DEF ReviewInv
    <3>2. CASE s # r
      BY <1>1, <3>2, OthersUntouched
    <3> QED BY <3>1, <3>2
  <2>2. job[s] \in Requests
    BY <2>1 DEF BaseInv, JobOK, RejectSteps, ReviewSteps
  <2> QED BY <1>1, <2>1, <2>2, RequestFields DEF ReviewInv, ReviewOK, OnReport
<1>2. ReviewOK'
  <2> SUFFICES ASSUME NEW s \in Replicas
               PROVE
        /\ pc'[s] \in RejectSteps \cup ReviewSteps /\ job'[s].pattern = "admin.report.review" =>
               reportStatus'[job'[s].reportId] # "absent"
        /\ pc'[s] \in RejectSteps /\ job'[s].pattern = "admin.report.review" =>
               subject'[s] = reportTarget'[job'[s].reportId]
        /\ pc'[s] \in {"reject_notify", "penalty_wait", "reject_sweep"} =>
               removals'[subject'[s]] > 0
        /\ pc'[s] \in {"review_save", "review_notify"} /\ job'[s].action = "uphold"
               /\ reportTarget'[job'[s].reportId] # NoPost =>
               removals'[reportTarget'[job'[s].reportId]] > 0
    BY DEF ReviewOK
  <2>1. pc'[s] \in RejectSteps \cup ReviewSteps /\ job'[s].pattern = "admin.report.review" =>
            reportStatus'[job'[s].reportId] # "absent"
    BY <1>1, ReportsFiled
  <2>2. pc'[s] \in RejectSteps /\ job'[s].pattern = "admin.report.review" =>
            subject'[s] = reportTarget'[job'[s].reportId]
    <3> SUFFICES ASSUME pc'[s] \in RejectSteps, job'[s].pattern = "admin.report.review"
                 PROVE  subject'[s] = reportTarget'[job'[s].reportId]
      OBVIOUS
    <3>1. subject'[s] = reportTarget[job[s].reportId]
      <4>1. CASE s = r
        BY <1>1, <4>1, ReviewMoves DEF ReviewInv
      <4>2. CASE s # r
        BY <4>2, OthersUntouched DEF ReviewInv, ReviewOK
      <4> QED BY <4>1, <4>2
    <3> QED BY <1>1, <3>1, ReportsFiled
  <2>3. pc'[s] \in {"reject_notify", "penalty_wait", "reject_sweep"} =>
            removals'[subject'[s]] > 0
    <3>1. CASE s = r
      BY <3>1, ReviewMoves DEF ReviewInv
    <3>2. CASE s # r
      BY <3>2, OthersUntouched, ReportsFiled
         DEF ReviewInv, ReviewOK, BaseInv, SubjectOK, PostSteps, RejectSteps
    <3> QED BY <3>1, <3>2
  <2>4. pc'[s] \in {"review_save", "review_notify"} /\ job'[s].action = "uphold"
            /\ reportTarget'[job'[s].reportId] # NoPost =>
            removals'[reportTarget'[job'[s].reportId]] > 0
    <3> SUFFICES ASSUME pc'[s] \in {"review_save", "review_notify"},
                        job'[s].action = "uphold",
                        reportTarget'[job'[s].reportId] # NoPost
                 PROVE  removals'[reportTarget'[job'[s].reportId]] > 0
      OBVIOUS
    <3>1. job'[s].pattern = "admin.report.review"
      BY JobStep DEF JobOK, ReviewSteps
    <3>2. /\ job'[s] = job[s] /\ job[s].reportId \in Reports
          /\ reportTarget'[job[s].reportId] = reportTarget[job[s].reportId]
      BY <1>1, <3>1, ReportsFiled DEF ReviewSteps
    <3>3. CASE s = r
      BY <3>2, <3>3, ReviewMoves DEF ReviewInv
    <3>4. CASE s # r
      BY <1>0, <3>2, <3>4, OthersUntouched, ReportsFiled DEF ReviewInv, ReviewOK
    <3> QED BY <3>3, <3>4
  <2> QED BY <2>1, <2>2, <2>3, <2>4
<1>3. ASSUME NEW q \in Reports, sent'[<<"report_upheld", q>>] > 0
      PROVE  /\ reportStatus'[q] # "absent"
             /\ reportTarget'[q] # NoPost => removals'[reportTarget'[q]] > 0
  <2>1. /\ reportStatus[q] # "absent"
        /\ reportTarget[q] # NoPost => removals[reportTarget[q]] > 0
    <3>1. CASE sent[<<"report_upheld", q>>] > 0
      BY <3>1 DEF ReviewInv, UpheldFiled, UpheldMeansRemoved
    <3>2. CASE pc[r] = "review_notify" /\ job[r].action = "uphold" /\ job[r].reportId = q
      BY <3>2 DEF ReviewInv, ReviewOK, BaseInv, JobOK, ReviewSteps
    <3> QED BY <1>3, <3>1, <3>2, UpheldSent
  <2> QED BY <1>0, <2>1, ReportsFiled
<1> QED BY <1>2, <1>3 DEF ReviewInv, UpheldFiled, UpheldMeansRemoved

LEMMA ReviewBegin ==
    ASSUME BaseInv, ReviewInv, NEW r \in Replicas, NEW m \in Requests, Begin(r, m)
    PROVE  ReviewInv'
<1>1. /\ pc' = [pc EXCEPT ![r] = m.pattern] /\ job' = [job EXCEPT ![r] = m]
      /\ \A s \in Replicas \ {r} : subject'[s] = subject[s]
      /\ UNCHANGED <<reportTarget, reportStatus, sent, removals>>
      /\ m.pattern = "admin.report.review" => reportStatus[m.reportId] # "absent"
      /\ m.pattern = "admin.post.reject" \/ m.pattern \notin RejectSteps
      /\ m.pattern \notin {"review_save", "review_notify"}
  BY RequestFields
     DEF Begin, Sendable, OnReport, BaseInv, TypeOK, reports, outbox, aux, RejectSteps
<1>2. ReviewOK'
  <2>1. ASSUME NEW s \in Replicas \ {r}
        PROVE  pc'[s] = pc[s] /\ job'[s] = job[s] /\ subject'[s] = subject[s]
    BY <1>1 DEF BaseInv, TypeOK
  <2>2. pc'[r] = m.pattern /\ job'[r] = m
    BY <1>1 DEF BaseInv, TypeOK
  <2> QED BY <1>1, <2>1, <2>2 DEF ReviewInv, ReviewOK, RejectSteps, ReviewSteps
<1> QED BY <1>1, <1>2 DEF ReviewInv, UpheldFiled, UpheldMeansRemoved

\* A reporter hears that a report on a post was upheld only when the post
\* was taken down.
THEOREM UpheldReportsRemove == Spec => []UpheldMeansRemoved
<1>1. Init => ReviewInv
  BY DEF Init, ReviewInv, ReviewOK, UpheldFiled, UpheldMeansRemoved, RejectSteps,
     ReviewSteps, Notice, ReportNotice
<1>2. BaseInv /\ ReviewInv /\ [Next]_vars => ReviewInv'
  <2>1. ASSUME ReviewInv, UNCHANGED vars PROVE ReviewInv'
    BY <2>1 DEF ReviewInv, ReviewOK, UpheldFiled, UpheldMeansRemoved, vars, reports,
       handler, outbox
  <2> QED BY <2>1, ReviewStep, ReviewBegin DEF Next, Step
<1>3. ReviewInv => UpheldMeansRemoved
  BY DEF ReviewInv
<1> QED BY <1>1, <1>2, <1>3, BaseAlways, PTL DEF Spec

-----------------------------------------------------------------------------
(* A post its author deleted never comes back.                              *)

\* No step stores an erased post again.
LEMMA ErasedKept ==
    ASSUME BaseInv, NEW r \in Replicas, Step(r), NEW p \in Posts,
     visibility[p] = "erased"
    PROVE  visibility'[p] = "erased"
<1> USE DEF BaseInv, TypeOK, SubjectOK, PostSteps, ModerationSteps, ApproveSteps,
     RejectSteps, posts
<1>1. CASE CheckPosting(r)
  BY <1>1 DEF CheckPosting
<1>2. CASE SaveNewPost(r)
  BY <1>2 DEF SaveNewPost, AfterSave
<1>3. CASE AiVerdict(r)
  BY <1>3 DEF AiVerdict
<1>4. CASE AiTimeout(r)
  BY <1>4 DEF AiTimeout
<1>5. CASE IgnoreVerdict(r)
  BY <1>5 DEF IgnoreVerdict
<1>6. CASE ApplySafe(r)
  BY <1>6 DEF ApplySafe
<1>7. CASE ApplyHarmfulToPublic(r)
  BY <1>7 DEF ApplyHarmfulToPublic
<1>8. CASE ApplyHarmfulToHeld(r)
  BY <1>8 DEF ApplyHarmfulToHeld
<1>9. CASE HoldSave(r)
  BY <1>9 DEF HoldSave, SaveVerdict, SaveVisibility, SaveFinds, Stored, Visibility,
     Audience
<1>10. CASE PublishSave(r)
  BY <1>10 DEF PublishSave, SaveVerdict, SaveVisibility, SaveFinds, Stored,
     Visibility, Audience
<1>11. CASE NotifyPending(r)
  BY <1>11 DEF NotifyPending
<1>12. CASE NewPostFanout(r)
  BY <1>12 DEF NewPostFanout
<1>13. CASE CheckStillPending(r)
  BY <1>13 DEF CheckStillPending
<1>14. CASE ApproveLoad(r)
  BY <1>14 DEF ApproveLoad, LoadForAdmin
<1>15. CASE ApproveSave(r)
  BY <1>15 DEF ApproveSave, SaveVisibility, SaveFinds, Stored, Visibility, Audience
<1>16. CASE ApproveNotify(r)
  BY <1>16 DEF ApproveNotify
<1>17. CASE RejectLoad(r)
  BY <1>17 DEF RejectLoad, LoadForAdmin
<1>18. CASE RejectSave(r)
  BY <1>18 DEF RejectSave, SaveVisibility, SaveFinds, Stored, Visibility, Audience
<1>19. CASE RejectNotify(r)
  BY <1>19 DEF RejectNotify
<1>20. CASE PenaltyReply(r)
  BY <1>20 DEF PenaltyReply
<1>21. CASE SweepReports(r)
  BY <1>21 DEF SweepReports, AfterReject
<1>22. CASE ReviewLoad(r)
  BY <1>22 DEF ReviewLoad
<1>23. CASE ReviewSave(r)
  BY <1>23 DEF ReviewSave
<1>24. CASE ReviewNotify(r)
  BY <1>24 DEF ReviewNotify
<1>25. CASE UpdatePost(r)
  BY <1>25 DEF UpdatePost, OwnPost, Stored, Visibility, Audience
<1>26. CASE RemovePost(r)
  BY <1>26 DEF RemovePost, OwnPost, Stored, Visibility, Audience
<1>27. CASE CreateReport(r)
  BY <1>27 DEF CreateReport
<1>28. CASE MarkReport(r)
  BY <1>28 DEF MarkReport
<1>29. CASE Crash(r)
  BY <1>29 DEF Crash, Fault
<1>30. CASE ExpireSession(r)
  BY <1>30 DEF ExpireSession, Fault
<1>31. CASE QueryFails(r)
  BY <1>31 DEF QueryFails, Fault
<1> QED
  BY <1>1, <1>2, <1>3, <1>4, <1>5, <1>6, <1>7, <1>8, <1>9, <1>10, <1>11, <1>12,
     <1>13, <1>14, <1>15, <1>16, <1>17, <1>18, <1>19, <1>20, <1>21, <1>22, <1>23,
     <1>24, <1>25, <1>26, <1>27, <1>28, <1>29, <1>30, <1>31
     DEF Step, CreateStep, AdminStep, SingleStep, FaultStep

\* Whatever copies the handlers hold, a deleted post is never saved back.
THEOREM ErasedPostsStayErased == Spec => ErasedStaysErased
<1> DEFINE Kept == \A p \in Posts : visibility[p] = "erased" => visibility'[p] = "erased"
<1>1. BaseInv /\ [Next]_vars => [Kept]_vars
  <2> SUFFICES ASSUME BaseInv, Next PROVE Kept
    OBVIOUS
  <2>1. ASSUME NEW r \in Replicas, NEW m \in Requests, Begin(r, m) PROVE Kept
    BY <2>1 DEF Begin, posts
  <2> QED BY <2>1, ErasedKept DEF Next, Step
<1> QED BY <1>1, BaseAlways, PTL DEF Spec, ErasedStaysErased

-----------------------------------------------------------------------------
(* One replica: the copy a handler saves is the stored post.                *)

\* The control points at which a handler holds a copy it is about to save.
CopySteps == {"ai_hold", "ai_publish", "approve_save", "reject_save"}

CopyFresh ==
    \A r \in Replicas :
        pc[r] \in CopySteps =>
            loaded[r] = visibility[subject[r]] /\ loaded[r] \in Visibility \ {"deleted"}

\* Loading takes the stored visibility, and until it is saved nothing moves.
LEMMA CopyMoves ==
    ASSUME BaseInv, CopyFresh, NEW r \in Replicas, Step(r), pc'[r] \in CopySteps
    PROVE  /\ loaded'[r] = visibility'[subject'[r]]
           /\ loaded'[r] \in Visibility \ {"deleted"}
<1> USE DEF BaseInv, TypeOK, CopyFresh, CopySteps, SubjectOK, PostSteps, Labels,
     CreateSteps, ModerationSteps, ApproveSteps, RejectSteps, ReviewSteps,
     SingleSteps, Visibility, Audience, Goto, Load, Finish, handler, posts
<1>1. CASE CheckPosting(r)
  BY <1>1 DEF CheckPosting
<1>2. CASE SaveNewPost(r)
  BY <1>2 DEF SaveNewPost, AfterSave, FirstVisibility, NormalizeAudience
<1>3. CASE AiVerdict(r)
  BY <1>3 DEF AiVerdict
<1>4. CASE AiTimeout(r)
  BY <1>4 DEF AiTimeout
<1>5. CASE IgnoreVerdict(r)
  BY <1>5 DEF IgnoreVerdict
<1>6. CASE ApplySafe(r)
  BY <1>6 DEF ApplySafe, InModeration
<1>7. CASE ApplyHarmfulToPublic(r)
  BY <1>7 DEF ApplyHarmfulToPublic
<1>8. CASE ApplyHarmfulToHeld(r)
  BY <1>8 DEF ApplyHarmfulToHeld
<1>9. CASE HoldSave(r)
  BY <1>9 DEF HoldSave, SaveVerdict
<1>10. CASE PublishSave(r)
  BY <1>10 DEF PublishSave, SaveVerdict
<1>11. CASE NotifyPending(r)
  BY <1>11 DEF NotifyPending
<1>12. CASE NewPostFanout(r)
  BY <1>12 DEF NewPostFanout
<1>13. CASE CheckStillPending(r)
  BY <1>13 DEF CheckStillPending
<1>14. CASE ApproveLoad(r)
  BY <1>14 DEF ApproveLoad, LoadForAdmin, Moderable, Stored
<1>15. CASE ApproveSave(r)
  BY <1>15 DEF ApproveSave
<1>16. CASE ApproveNotify(r)
  BY <1>16 DEF ApproveNotify
<1>17. CASE RejectLoad(r)
  BY <1>17 DEF RejectLoad, LoadForAdmin, Moderable, Stored
<1>18. CASE RejectSave(r)
  BY <1>18 DEF RejectSave
<1>19. CASE RejectNotify(r)
  BY <1>19 DEF RejectNotify
<1>20. CASE PenaltyReply(r)
  BY <1>20 DEF PenaltyReply
<1>21. CASE SweepReports(r)
  BY <1>21 DEF SweepReports, AfterReject
<1>22. CASE ReviewLoad(r)
  BY <1>22 DEF ReviewLoad
<1>23. CASE ReviewSave(r)
  BY <1>23 DEF ReviewSave
<1>24. CASE ReviewNotify(r)
  BY <1>24 DEF ReviewNotify
<1>25. CASE UpdatePost(r)
  BY <1>25 DEF UpdatePost
<1>26. CASE RemovePost(r)
  BY <1>26 DEF RemovePost
<1>27. CASE CreateReport(r)
  BY <1>27 DEF CreateReport
<1>28. CASE MarkReport(r)
  BY <1>28 DEF MarkReport
<1>29. CASE Crash(r)
  BY <1>29 DEF Crash, Fault
<1>30. CASE ExpireSession(r)
  BY <1>30 DEF ExpireSession, Fault
<1>31. CASE QueryFails(r)
  BY <1>31 DEF QueryFails, Fault, CaughtSteps, NoQuerySteps
<1> QED
  BY <1>1, <1>2, <1>3, <1>4, <1>5, <1>6, <1>7, <1>8, <1>9, <1>10, <1>11, <1>12,
     <1>13, <1>14, <1>15, <1>16, <1>17, <1>18, <1>19, <1>20, <1>21, <1>22, <1>23,
     <1>24, <1>25, <1>26, <1>27, <1>28, <1>29, <1>30, <1>31
     DEF Step, CreateStep, AdminStep, SingleStep, FaultStep

\* With a fresh copy only the author touches a removed post, and none is removed twice.
LEMMA RemovedKept ==
    ASSUME BaseInv, CopyFresh, NEW r \in Replicas, Step(r), NEW p \in Posts,
           visibility[p] = "deleted"
    PROVE  /\ \/ visibility'[p] = "deleted"
              \/ pc[r] \in {"post.update", "post.delete"} /\ subject[r] = p
           /\ removals'[p] = removals[p]
<1> USE DEF BaseInv, posts, aux
<1>1. CASE CheckPosting(r)
  BY <1>1 DEF CheckPosting
<1>2. CASE SaveNewPost(r)
  BY <1>2 DEF SaveNewPost, AfterSave, TypeOK
<1>3. CASE AiVerdict(r)
  BY <1>3 DEF AiVerdict
<1>4. CASE AiTimeout(r)
  BY <1>4 DEF AiTimeout
<1>5. CASE IgnoreVerdict(r)
  BY <1>5 DEF IgnoreVerdict
<1>6. CASE ApplySafe(r)
  BY <1>6 DEF ApplySafe
<1>7. CASE ApplyHarmfulToPublic(r)
  BY <1>7 DEF ApplyHarmfulToPublic
<1>8. CASE ApplyHarmfulToHeld(r)
  BY <1>8 DEF ApplyHarmfulToHeld
<1>9. CASE HoldSave(r)
  BY <1>9 DEF HoldSave, SaveVerdict, SaveVisibility, SaveFinds, Stored, Visibility,
     Audience, CopyFresh, CopySteps, TypeOK
<1>10. CASE PublishSave(r)
  BY <1>10 DEF PublishSave, SaveVerdict, SaveVisibility, SaveFinds, Stored,
     Visibility, Audience, CopyFresh, CopySteps, TypeOK
<1>11. CASE NotifyPending(r)
  BY <1>11 DEF NotifyPending
<1>12. CASE NewPostFanout(r)
  BY <1>12 DEF NewPostFanout
<1>13. CASE CheckStillPending(r)
  BY <1>13 DEF CheckStillPending
<1>14. CASE ApproveLoad(r)
  BY <1>14 DEF ApproveLoad, LoadForAdmin
<1>15. CASE ApproveSave(r)
  BY <1>15 DEF ApproveSave, SaveVisibility, SaveFinds, Stored, Visibility, Audience,
     CopyFresh, CopySteps, TypeOK
<1>16. CASE ApproveNotify(r)
  BY <1>16 DEF ApproveNotify
<1>17. CASE RejectLoad(r)
  BY <1>17 DEF RejectLoad, LoadForAdmin
<1>18. CASE RejectSave(r)
  BY <1>18 DEF RejectSave, SaveVisibility, SaveFinds, Stored, Visibility, Audience,
     CopyFresh, CopySteps, TypeOK
<1>19. CASE RejectNotify(r)
  BY <1>19 DEF RejectNotify
<1>20. CASE PenaltyReply(r)
  BY <1>20 DEF PenaltyReply
<1>21. CASE SweepReports(r)
  BY <1>21 DEF SweepReports, AfterReject
<1>22. CASE ReviewLoad(r)
  BY <1>22 DEF ReviewLoad
<1>23. CASE ReviewSave(r)
  BY <1>23 DEF ReviewSave
<1>24. CASE ReviewNotify(r)
  BY <1>24 DEF ReviewNotify
<1>25. CASE UpdatePost(r)
  BY <1>25 DEF UpdatePost, OwnPost, Stored, Visibility, Audience, TypeOK
<1>26. CASE RemovePost(r)
  BY <1>26 DEF RemovePost, OwnPost, Stored, Visibility, Audience, TypeOK
<1>27. CASE CreateReport(r)
  BY <1>27 DEF CreateReport
<1>28. CASE MarkReport(r)
  BY <1>28 DEF MarkReport
<1>29. CASE Crash(r)
  BY <1>29 DEF Crash, Fault
<1>30. CASE ExpireSession(r)
  BY <1>30 DEF ExpireSession, Fault
<1>31. CASE QueryFails(r)
  BY <1>31 DEF QueryFails, Fault
<1> QED
  BY <1>1, <1>2, <1>3, <1>4, <1>5, <1>6, <1>7, <1>8, <1>9, <1>10, <1>11, <1>12,
     <1>13, <1>14, <1>15, <1>16, <1>17, <1>18, <1>19, <1>20, <1>21, <1>22, <1>23,
     <1>24, <1>25, <1>26, <1>27, <1>28, <1>29, <1>30, <1>31
     DEF Step, CreateStep, AdminStep, SingleStep, FaultStep

\* With one replica every copy is fresh.
LEMMA CopyAlwaysFresh ==
    ASSUME \A r, s \in Replicas : r = s
    PROVE  Spec => []CopyFresh
<1>1. Init => CopyFresh
  BY DEF Init, CopyFresh, CopySteps
<1>2. BaseInv /\ CopyFresh /\ [Next]_vars => CopyFresh'
  <2> SUFFICES ASSUME BaseInv, CopyFresh, [Next]_vars PROVE CopyFresh'
    OBVIOUS
  <2>1. ASSUME NEW r \in Replicas, Step(r) PROVE CopyFresh'
    BY <2>1, CopyMoves DEF CopyFresh
  <2>2. ASSUME NEW r \in Replicas, NEW m \in Requests, Begin(r, m) PROVE CopyFresh'
    <3>1. m.pattern \notin CopySteps /\ pc'[r] = m.pattern
      BY <2>2, RequestFields DEF CopySteps, Begin, BaseInv, TypeOK
    <3> QED BY <3>1 DEF CopyFresh
  <2>3. CASE UNCHANGED vars
    BY <2>3 DEF CopyFresh, vars, posts, handler
  <2> QED BY <2>1, <2>2, <2>3 DEF Next, Step
<1> QED BY <1>1, <1>2, BaseAlways, PTL DEF Spec

\* Run by one replica, the service keeps a removed post removed for everyone
\* but its author, whatever crashes and redeliveries it meets.
THEOREM SerialRejectionFinal ==
    ASSUME \A r, s \in Replicas : r = s
    PROVE  Spec => RejectionFinal
<1> DEFINE Final ==
        \A p \in Posts :
            visibility[p] = "deleted" /\ visibility'[p] # "deleted" =>
                \E r \in Replicas :
                    pc[r] \in {"post.update", "post.delete"} /\ subject[r] = p
<1>1. BaseInv /\ CopyFresh /\ [Next]_vars => [Final]_vars
  <2> SUFFICES ASSUME BaseInv, CopyFresh, Next PROVE Final
    OBVIOUS
  <2>1. ASSUME NEW r \in Replicas, NEW m \in Requests, Begin(r, m) PROVE Final
    BY <2>1 DEF Begin, posts
  <2> QED BY <2>1, RemovedKept DEF Next, Step
<1> QED BY <1>1, BaseAlways, CopyAlwaysFresh, PTL DEF Spec, RejectionFinal

\* Run by one replica, a post is removed, so penalised, once until its
\* author brings it back.
THEOREM SerialRemovalOnce ==
    ASSUME \A r, s \in Replicas : r = s
    PROVE  Spec => NoDoubleRemoval
<1> DEFINE Once ==
        \A p \in Posts : removals'[p] # removals[p] => visibility[p] # "deleted"
<1>1. BaseInv /\ CopyFresh /\ [Next]_vars => [Once]_vars
  <2> SUFFICES ASSUME BaseInv, CopyFresh, Next PROVE Once
    OBVIOUS
  <2>1. ASSUME NEW r \in Replicas, NEW m \in Requests, Begin(r, m) PROVE Once
    BY <2>1 DEF Begin, aux
  <2> QED BY <2>1, RemovedKept DEF Next, Step
<1> QED BY <1>1, BaseAlways, CopyAlwaysFresh, PTL DEF Spec, NoDoubleRemoval

-----------------------------------------------------------------------------
(* One replica: followers are told only of a post they can open.            *)

\* The control points from which followers are notified.
FanoutSteps == {"ai_fanout", "create_fanout", "approve_notify"}

\* What such a handler saved last is what is stored.
FanoutOK ==
    \A r \in Replicas :
        pc[r] \in FanoutSteps => visibility[subject[r]] \in {"public", "followers"}

\* A handler reaches them by storing an audience that includes followers.
LEMMA FanoutMoves ==
    ASSUME BaseInv, CopyFresh, FanoutOK, NEW r \in Replicas, Step(r),
           pc'[r] \in FanoutSteps
    PROVE  visibility'[subject'[r]] \in {"public", "followers"}
<1> USE DEF BaseInv, TypeOK, FanoutOK, FanoutSteps, SubjectOK, PostSteps, Labels,
     CreateSteps, ModerationSteps, ApproveSteps, RejectSteps, ReviewSteps,
     SingleSteps, Goto, Load, Finish, handler, posts
<1>1. CASE CheckPosting(r)
  BY <1>1 DEF CheckPosting
<1>2. CASE SaveNewPost(r)
  BY <1>2 DEF SaveNewPost, AfterSave, FirstVisibility, NormalizeAudience
<1>3. CASE AiVerdict(r)
  BY <1>3 DEF AiVerdict
<1>4. CASE AiTimeout(r)
  BY <1>4 DEF AiTimeout
<1>5. CASE IgnoreVerdict(r)
  BY <1>5 DEF IgnoreVerdict
<1>6. CASE ApplySafe(r)
  BY <1>6 DEF ApplySafe
<1>7. CASE ApplyHarmfulToPublic(r)
  BY <1>7 DEF ApplyHarmfulToPublic
<1>8. CASE ApplyHarmfulToHeld(r)
  BY <1>8 DEF ApplyHarmfulToHeld
<1>9. CASE HoldSave(r)
  BY <1>9 DEF HoldSave, SaveVerdict
<1>10. CASE PublishSave(r)
  BY <1>10 DEF PublishSave, SaveVerdict, SaveVisibility, CopyFresh, CopySteps
<1>11. CASE NotifyPending(r)
  BY <1>11 DEF NotifyPending
<1>12. CASE NewPostFanout(r)
  BY <1>12 DEF NewPostFanout
<1>13. CASE CheckStillPending(r)
  BY <1>13 DEF CheckStillPending
<1>14. CASE ApproveLoad(r)
  BY <1>14 DEF ApproveLoad, LoadForAdmin
<1>15. CASE ApproveSave(r)
  BY <1>15 DEF ApproveSave, SaveVisibility, CopyFresh, CopySteps
<1>16. CASE ApproveNotify(r)
  BY <1>16 DEF ApproveNotify
<1>17. CASE RejectLoad(r)
  BY <1>17 DEF RejectLoad, LoadForAdmin
<1>18. CASE RejectSave(r)
  BY <1>18 DEF RejectSave
<1>19. CASE RejectNotify(r)
  BY <1>19 DEF RejectNotify
<1>20. CASE PenaltyReply(r)
  BY <1>20 DEF PenaltyReply
<1>21. CASE SweepReports(r)
  BY <1>21 DEF SweepReports, AfterReject
<1>22. CASE ReviewLoad(r)
  BY <1>22 DEF ReviewLoad
<1>23. CASE ReviewSave(r)
  BY <1>23 DEF ReviewSave
<1>24. CASE ReviewNotify(r)
  BY <1>24 DEF ReviewNotify
<1>25. CASE UpdatePost(r)
  BY <1>25 DEF UpdatePost
<1>26. CASE RemovePost(r)
  BY <1>26 DEF RemovePost
<1>27. CASE CreateReport(r)
  BY <1>27 DEF CreateReport
<1>28. CASE MarkReport(r)
  BY <1>28 DEF MarkReport
<1>29. CASE Crash(r)
  BY <1>29 DEF Crash, Fault
<1>30. CASE ExpireSession(r)
  BY <1>30 DEF ExpireSession, Fault
<1>31. CASE QueryFails(r)
  BY <1>31 DEF QueryFails, Fault, CaughtSteps, NoQuerySteps
<1> QED
  BY <1>1, <1>2, <1>3, <1>4, <1>5, <1>6, <1>7, <1>8, <1>9, <1>10, <1>11, <1>12,
     <1>13, <1>14, <1>15, <1>16, <1>17, <1>18, <1>19, <1>20, <1>21, <1>22, <1>23,
     <1>24, <1>25, <1>26, <1>27, <1>28, <1>29, <1>30, <1>31
     DEF Step, CreateStep, AdminStep, SingleStep, FaultStep

\* Only those steps notify followers, of the post the handler is about.
LEMMA FanoutSent ==
    ASSUME BaseInv, NEW r \in Replicas, Step(r), NEW p \in Posts,
           sent'[<<"new_post", p>>] # sent[<<"new_post", p>>]
    PROVE  pc[r] \in FanoutSteps /\ subject[r] = p
<1> USE DEF BaseInv, TypeOK, Notice, PostNotice, ReportNotice, FanoutSteps, outbox
<1>1. CASE CheckPosting(r)
  BY <1>1 DEF CheckPosting
<1>2. CASE SaveNewPost(r)
  BY <1>2 DEF SaveNewPost, AfterSave
<1>3. CASE AiVerdict(r)
  BY <1>3 DEF AiVerdict
<1>4. CASE AiTimeout(r)
  BY <1>4 DEF AiTimeout
<1>5. CASE IgnoreVerdict(r)
  BY <1>5 DEF IgnoreVerdict
<1>6. CASE ApplySafe(r)
  BY <1>6 DEF ApplySafe
<1>7. CASE ApplyHarmfulToPublic(r)
  BY <1>7 DEF ApplyHarmfulToPublic
<1>8. CASE ApplyHarmfulToHeld(r)
  BY <1>8 DEF ApplyHarmfulToHeld, Emit
<1>9. CASE HoldSave(r)
  BY <1>9 DEF HoldSave, SaveVerdict
<1>10. CASE PublishSave(r)
  BY <1>10 DEF PublishSave, SaveVerdict
<1>11. CASE NotifyPending(r)
  BY <1>11 DEF NotifyPending, Emit
<1>12. CASE NewPostFanout(r)
  BY <1>12 DEF NewPostFanout, Emit
<1>13. CASE CheckStillPending(r)
  BY <1>13 DEF CheckStillPending, Emit
<1>14. CASE ApproveLoad(r)
  BY <1>14 DEF ApproveLoad, LoadForAdmin
<1>15. CASE ApproveSave(r)
  BY <1>15 DEF ApproveSave
<1>16. CASE ApproveNotify(r)
  BY <1>16 DEF ApproveNotify
<1>17. CASE RejectLoad(r)
  BY <1>17 DEF RejectLoad, LoadForAdmin
<1>18. CASE RejectSave(r)
  BY <1>18 DEF RejectSave
<1>19. CASE RejectNotify(r)
  BY <1>19 DEF RejectNotify, Emit
<1>20. CASE PenaltyReply(r)
  BY <1>20 DEF PenaltyReply
<1>21. CASE SweepReports(r)
  BY <1>21 DEF SweepReports, AfterReject
<1>22. CASE ReviewLoad(r)
  BY <1>22 DEF ReviewLoad
<1>23. CASE ReviewSave(r)
  BY <1>23 DEF ReviewSave
<1>24. CASE ReviewNotify(r)
  BY <1>24 DEF ReviewNotify, Emit
<1>25. CASE UpdatePost(r)
  BY <1>25 DEF UpdatePost
<1>26. CASE RemovePost(r)
  BY <1>26 DEF RemovePost
<1>27. CASE CreateReport(r)
  BY <1>27 DEF CreateReport
<1>28. CASE MarkReport(r)
  BY <1>28 DEF MarkReport
<1>29. CASE Crash(r)
  BY <1>29 DEF Crash, Fault
<1>30. CASE ExpireSession(r)
  BY <1>30 DEF ExpireSession, Fault
<1>31. CASE QueryFails(r)
  BY <1>31 DEF QueryFails, Fault, CaughtSteps, NoQuerySteps
<1> QED
  BY <1>1, <1>2, <1>3, <1>4, <1>5, <1>6, <1>7, <1>8, <1>9, <1>10, <1>11, <1>12,
     <1>13, <1>14, <1>15, <1>16, <1>17, <1>18, <1>19, <1>20, <1>21, <1>22, <1>23,
     <1>24, <1>25, <1>26, <1>27, <1>28, <1>29, <1>30, <1>31
     DEF Step, CreateStep, AdminStep, SingleStep, FaultStep

\* With one replica nothing intervenes between the save and the notification.
LEMMA FanoutAlways ==
    ASSUME \A r, s \in Replicas : r = s
    PROVE  Spec => []FanoutOK
<1>1. Init => FanoutOK
  BY DEF Init, FanoutOK, FanoutSteps
<1>2. BaseInv /\ CopyFresh /\ FanoutOK /\ [Next]_vars => FanoutOK'
  <2> SUFFICES ASSUME BaseInv, CopyFresh, FanoutOK, [Next]_vars PROVE FanoutOK'
    OBVIOUS
  <2>1. ASSUME NEW r \in Replicas, Step(r) PROVE FanoutOK'
    BY <2>1, FanoutMoves DEF FanoutOK
  <2>2. ASSUME NEW r \in Replicas, NEW m \in Requests, Begin(r, m) PROVE FanoutOK'
    <3>1. m.pattern \notin FanoutSteps /\ pc'[r] = m.pattern
      BY <2>2, RequestFields DEF FanoutSteps, Begin, BaseInv, TypeOK
    <3> QED BY <3>1 DEF FanoutOK
  <2>3. CASE UNCHANGED vars
    BY <2>3 DEF FanoutOK, vars, posts, handler
  <2> QED BY <2>1, <2>2, <2>3 DEF Next, Step
<1> QED BY <1>1, <1>2, BaseAlways, CopyAlwaysFresh, PTL DEF Spec

\* Run by one replica, the service never announces to followers a post that
\* is held, private, removed or deleted when the announcement goes out.
THEOREM SerialFanoutViewable ==
    ASSUME \A r, s \in Replicas : r = s
    PROVE  Spec => FanoutShowsViewable
<1> DEFINE Shown ==
        \A p \in Posts :
            sent'[<<"new_post", p>>] # sent[<<"new_post", p>>] => Viewable(p, NoUser)
<1>1. BaseInv /\ FanoutOK /\ [Next]_vars => [Shown]_vars
  <2> SUFFICES ASSUME BaseInv, FanoutOK, Next PROVE Shown
    OBVIOUS
  <2>1. ASSUME NEW r \in Replicas, NEW m \in Requests, Begin(r, m) PROVE Shown
    BY <2>1 DEF Begin, outbox
  <2>2. ASSUME NEW r \in Replicas, Step(r) PROVE Shown
    BY <2>2, FanoutSent
       DEF FanoutOK, Viewable, Moderable, Stored, Visibility, Audience
  <2> QED BY <2>1, <2>2 DEF Next, Step
<1> QED BY <1>1, BaseAlways, FanoutAlways, PTL DEF Spec, FanoutShowsViewable

-----------------------------------------------------------------------------
(* One replica: a reporter hears one verdict.                               *)

\* The verdicts sent on report q.
Told(q) == sent[<<"report_upheld", q>>] + sent[<<"report_dismissed", q>>]

\* The steps of a review on its way to the verdict.
VerdictSteps == RejectSteps \cup {"review_save", "review_notify"}

\* None is sent before the report is settled, nor while its review is under
\* way; the report is settled before its verdict goes out.
OpenUntold == \A q \in Reports : reportStatus[q] \in {"absent", "pending"} => Told(q) = 0

ReviewUntold ==
    \A r \in Replicas :
        pc[r] \in VerdictSteps /\ job[r].pattern = "admin.report.review" =>
            Told(job[r].reportId) = 0

NotifySettled ==
    \A r \in Replicas :
        pc[r] = "review_notify" =>
            reportStatus[job[r].reportId] \in {"resolved", "rejected"}

VerdictInv == OpenUntold /\ ReviewUntold /\ NotifySettled /\ OneVerdictPerReport

\* Nobody marks a report as pending again.
NobodyReopens ==
    \A m \in Requests : m.pattern = "report.review" => m.status # "pending"

\* Only ReviewNotify sends a verdict, on the report of its message.
LEMMA VerdictSent ==
    ASSUME BaseInv, NEW r \in Replicas, Step(r), NEW q \in Reports,
           NEW k \in ReportNotice
    PROVE  \/ sent'[<<k, q>>] = sent[<<k, q>>]
           \/ /\ pc[r] = "review_notify" /\ job[r].reportId = q /\ pc'[r] = "idle"
              /\ k = IF job[r].action = "uphold" THEN "report_upheld"
                                                ELSE "report_dismissed"
              /\ sent'[<<k, q>>] = sent[<<k, q>>] + 1
<1> USE DEF BaseInv, TypeOK, Notice, PostNotice, ReportNotice, outbox
<1>1. CASE CheckPosting(r)
  BY <1>1 DEF CheckPosting
<1>2. CASE SaveNewPost(r)
  BY <1>2 DEF SaveNewPost, AfterSave
<1>3. CASE AiVerdict(r)
  BY <1>3 DEF AiVerdict
<1>4. CASE AiTimeout(r)
  BY <1>4 DEF AiTimeout
<1>5. CASE IgnoreVerdict(r)
  BY <1>5 DEF IgnoreVerdict
<1>6. CASE ApplySafe(r)
  BY <1>6 DEF ApplySafe
<1>7. CASE ApplyHarmfulToPublic(r)
  BY <1>7 DEF ApplyHarmfulToPublic
<1>8. CASE ApplyHarmfulToHeld(r)
  BY <1>8 DEF ApplyHarmfulToHeld, Emit
<1>9. CASE HoldSave(r)
  BY <1>9 DEF HoldSave, SaveVerdict
<1>10. CASE PublishSave(r)
  BY <1>10 DEF PublishSave, SaveVerdict
<1>11. CASE NotifyPending(r)
  BY <1>11 DEF NotifyPending, Emit
<1>12. CASE NewPostFanout(r)
  BY <1>12 DEF NewPostFanout, Emit
<1>13. CASE CheckStillPending(r)
  BY <1>13 DEF CheckStillPending, Emit
<1>14. CASE ApproveLoad(r)
  BY <1>14 DEF ApproveLoad, LoadForAdmin
<1>15. CASE ApproveSave(r)
  BY <1>15 DEF ApproveSave
<1>16. CASE ApproveNotify(r)
  BY <1>16 DEF ApproveNotify
<1>17. CASE RejectLoad(r)
  BY <1>17 DEF RejectLoad, LoadForAdmin
<1>18. CASE RejectSave(r)
  BY <1>18 DEF RejectSave
<1>19. CASE RejectNotify(r)
  BY <1>19 DEF RejectNotify, Emit
<1>20. CASE PenaltyReply(r)
  BY <1>20 DEF PenaltyReply
<1>21. CASE SweepReports(r)
  BY <1>21 DEF SweepReports, AfterReject
<1>22. CASE ReviewLoad(r)
  BY <1>22 DEF ReviewLoad
<1>23. CASE ReviewSave(r)
  BY <1>23 DEF ReviewSave
<1>24. CASE ReviewNotify(r)
  BY <1>24 DEF ReviewNotify, Emit, Finish
<1>25. CASE UpdatePost(r)
  BY <1>25 DEF UpdatePost
<1>26. CASE RemovePost(r)
  BY <1>26 DEF RemovePost
<1>27. CASE CreateReport(r)
  BY <1>27 DEF CreateReport
<1>28. CASE MarkReport(r)
  BY <1>28 DEF MarkReport
<1>29. CASE Crash(r)
  BY <1>29 DEF Crash, Fault
<1>30. CASE ExpireSession(r)
  BY <1>30 DEF ExpireSession, Fault
<1>31. CASE QueryFails(r)
  BY <1>31 DEF QueryFails, Fault, CaughtSteps, NoQuerySteps
<1> QED
  BY <1>1, <1>2, <1>3, <1>4, <1>5, <1>6, <1>7, <1>8, <1>9, <1>10, <1>11, <1>12,
     <1>13, <1>14, <1>15, <1>16, <1>17, <1>18, <1>19, <1>20, <1>21, <1>22, <1>23,
     <1>24, <1>25, <1>26, <1>27, <1>28, <1>29, <1>30, <1>31
     DEF Step, CreateStep, AdminStep, SingleStep, FaultStep

\* A step on the way to a verdict starts from an open report or from the
\* step before; and only filing opens a report.
LEMMA VerdictMoves ==
    ASSUME NobodyReopens, BaseInv, NotifySettled, NEW r \in Replicas, Step(r)
    PROVE  /\ pc'[r] \in VerdictSteps /\ job'[r].pattern = "admin.report.review" =>
                  /\ job'[r] = job[r]
                  /\ \/ pc[r] \in VerdictSteps
                     \/ reportStatus[job[r].reportId] = "pending"
           /\ pc'[r] = "review_notify" =>
                  reportStatus'[job'[r].reportId] \in {"resolved", "rejected"}
           /\ \A q \in Reports :
                  reportStatus'[q] \in {"absent", "pending"} =>
                      reportStatus[q] \in {"absent", "pending"}
<1> USE DEF BaseInv, TypeOK, JobOK, NotifySettled, VerdictSteps, Labels, CreateSteps,
     ModerationSteps, ApproveSteps, RejectSteps, ReviewSteps, SingleSteps,
     Goto, Load, Finish, handler, reports
<1>1. CASE CheckPosting(r)
  BY <1>1 DEF CheckPosting
<1>2. CASE SaveNewPost(r)
  BY <1>2 DEF SaveNewPost, AfterSave
<1>3. CASE AiVerdict(r)
  BY <1>3 DEF AiVerdict
<1>4. CASE AiTimeout(r)
  BY <1>4 DEF AiTimeout
<1>5. CASE IgnoreVerdict(r)
  BY <1>5 DEF IgnoreVerdict
<1>6. CASE ApplySafe(r)
  BY <1>6 DEF ApplySafe
<1>7. CASE ApplyHarmfulToPublic(r)
  BY <1>7 DEF ApplyHarmfulToPublic
<1>8. CASE ApplyHarmfulToHeld(r)
  BY <1>8 DEF ApplyHarmfulToHeld
<1>9. CASE HoldSave(r)
  BY <1>9 DEF HoldSave, SaveVerdict
<1>10. CASE PublishSave(r)
  BY <1>10 DEF PublishSave, SaveVerdict
<1>11. CASE NotifyPending(r)
  BY <1>11 DEF NotifyPending
<1>12. CASE NewPostFanout(r)
  BY <1>12 DEF NewPostFanout
<1>13. CASE CheckStillPending(r)
  BY <1>13 DEF CheckStillPending
<1>14. CASE ApproveLoad(r)
  BY <1>14 DEF ApproveLoad, LoadForAdmin
<1>15. CASE ApproveSave(r)
  BY <1>15 DEF ApproveSave
<1>16. CASE ApproveNotify(r)
  BY <1>16 DEF ApproveNotify
<1>17. CASE RejectLoad(r)
  BY <1>17 DEF RejectLoad, LoadForAdmin
<1>18. CASE RejectSave(r)
  BY <1>18 DEF RejectSave
<1>19. CASE RejectNotify(r)
  BY <1>19 DEF RejectNotify
<1>20. CASE PenaltyReply(r)
  BY <1>20 DEF PenaltyReply
<1>21. CASE SweepReports(r)
  BY <1>21 DEF SweepReports, AfterReject, ReportStatus
<1>22. CASE ReviewLoad(r)
  BY <1>22 DEF ReviewLoad, Reviewable
<1>23. CASE ReviewSave(r)
  <2>1. job[r].reportId \in Reports
    BY <1>23, RequestFields DEF ReviewSave, OnReport
  <2> QED BY <1>23, <2>1 DEF ReviewSave
<1>24. CASE ReviewNotify(r)
  BY <1>24 DEF ReviewNotify, Emit
<1>25. CASE UpdatePost(r)
  BY <1>25 DEF UpdatePost
<1>26. CASE RemovePost(r)
  BY <1>26 DEF RemovePost
<1>27. CASE CreateReport(r)
  BY <1>27 DEF CreateReport, ReportStatus
<1>28. CASE MarkReport(r)
  <2>1. job[r].reportId \in Reports /\ job[r].status \notin {"absent", "pending"}
    BY <1>28, RequestFields DEF MarkReport, OnReport, NobodyReopens, ReportStatus
  <2> QED BY <1>28, <2>1 DEF MarkReport
<1>29. CASE Crash(r)
  BY <1>29 DEF Crash, Fault
<1>30. CASE ExpireSession(r)
  BY <1>30 DEF ExpireSession, Fault
<1>31. CASE QueryFails(r)
  BY <1>31 DEF QueryFails, Fault, CaughtSteps, NoQuerySteps
<1> QED
  BY <1>1, <1>2, <1>3, <1>4, <1>5, <1>6, <1>7, <1>8, <1>9, <1>10, <1>11, <1>12,
     <1>13, <1>14, <1>15, <1>16, <1>17, <1>18, <1>19, <1>20, <1>21, <1>22, <1>23,
     <1>24, <1>25, <1>26, <1>27, <1>28, <1>29, <1>30, <1>31
     DEF Step, CreateStep, AdminStep, SingleStep, FaultStep

\* The handler of the one replica keeps the invariant.
LEMMA VerdictStep ==
    ASSUME NobodyReopens, \A r, s \in Replicas : r = s,
           BaseInv, VerdictInv, NEW r \in Replicas, Step(r)
    PROVE  VerdictInv'
<1> USE DEF VerdictInv
<1>1. \A k \in ReportNotice, q \in Reports :
        sent[<<k, q>>] \in Nat /\ sent'[<<k, q>>] \in Nat
  BY DataTypeStep DEF BaseInv, TypeOK, DataType, Notice
<1>2. ASSUME NEW q \in Reports,
             sent'[<<"report_upheld", q>>] # sent[<<"report_upheld", q>>]
             \/ sent'[<<"report_dismissed", q>>] # sent[<<"report_dismissed", q>>]
      PROVE  /\ pc[r] = "review_notify" /\ job[r].reportId = q /\ pc'[r] = "idle"
             /\ reportStatus[q] \in {"resolved", "rejected"}
             /\ Told(q) = 0
             /\ sent'[<<"report_upheld", q>>] + sent'[<<"report_dismissed", q>>] = 1
  <2>1. pc[r] = "review_notify" /\ job[r].reportId = q /\ pc'[r] = "idle"
    BY <1>2, VerdictSent DEF ReportNotice
  <2>2. reportStatus[q] \in {"resolved", "rejected"}
    BY <2>1 DEF NotifySettled
  <2>3. Told(q) = 0
    BY <2>1 DEF ReviewUntold, VerdictSteps, BaseInv, JobOK, ReviewSteps
  <2>4. sent[<<"report_upheld", q>>] = 0 /\ sent[<<"report_dismissed", q>>] = 0
    BY <1>1, <2>3 DEF Told, ReportNotice
  <2>5. sent'[<<"report_upheld", q>>] + sent'[<<"report_dismissed", q>>] = 1
    <3>1. \/ /\ sent'[<<"report_upheld", q>>] = sent[<<"report_upheld", q>>] + 1
             /\ sent'[<<"report_dismissed", q>>] = sent[<<"report_dismissed", q>>]
          \/ /\ sent'[<<"report_upheld", q>>] = sent[<<"report_upheld", q>>]
             /\ sent'[<<"report_dismissed", q>>] = sent[<<"report_dismissed", q>>] + 1
      BY <1>2, VerdictSent, Zenon DEF ReportNotice
    <3> QED BY <2>4, <3>1
  <2> QED BY <2>1, <2>2, <2>3, <2>5
<1>3. ASSUME NEW q \in Reports, reportStatus'[q] \in {"absent", "pending"}
      PROVE  sent'[<<"report_upheld", q>>] + sent'[<<"report_dismissed", q>>] = 0
  <2>1. reportStatus[q] \in {"absent", "pending"}
    BY <1>3, VerdictMoves
  <2> QED BY <1>2, <2>1 DEF OpenUntold, Told
<1>4. ASSUME pc'[r] \in VerdictSteps, job'[r].pattern = "admin.report.review",
             NEW q, q = job'[r].reportId
      PROVE  sent'[<<"report_upheld", q>>] + sent'[<<"report_dismissed", q>>] = 0
  <2>1. job'[r] = job[r] /\ (pc[r] \in VerdictSteps \/ reportStatus[q] = "pending")
    BY <1>4, VerdictMoves
  <2>2. pc'[r] # "idle"
    BY <1>4 DEF VerdictSteps, RejectSteps
  <2>3. q \in Reports
    <3>1. job'[r] \in Requests
      BY <2>2, JobStep DEF JobOK
    <3> QED BY <1>4, <3>1, RequestFields DEF OnReport
  <2>4. Told(q) = 0
    BY <1>4, <2>1, <2>3 DEF ReviewUntold, OpenUntold
  <2> QED BY <1>2, <2>2, <2>3, <2>4 DEF Told
<1>5. ASSUME NEW q \in Reports
      PROVE  sent'[<<"report_upheld", q>>] + sent'[<<"report_dismissed", q>>] <= 1
  BY <1>1, <1>2 DEF OneVerdictPerReport, ReportNotice
<1>6. OpenUntold' BY <1>3 DEF OpenUntold, Told
<1>7. ReviewUntold'
  <2> SUFFICES ASSUME NEW s \in Replicas, pc'[s] \in VerdictSteps,
                      job'[s].pattern = "admin.report.review"
               PROVE  Told(job[s].reportId)' = 0
    BY DEF ReviewUntold
  <2>1. s = r
    OBVIOUS
  <2> QED BY <1>4, <2>1 DEF Told
<1>8. NotifySettled' BY VerdictMoves DEF NotifySettled
<1>9. OneVerdictPerReport' BY <1>5 DEF OneVerdictPerReport
<1> QED BY <1>6, <1>7, <1>8, <1>9

\* Taking up a message sends nothing and settles nothing.
LEMMA VerdictBegin ==
    ASSUME \A r, s \in Replicas : r = s, BaseInv, VerdictInv,
           NEW r \in Replicas, NEW m \in Requests, Begin(r, m)
    PROVE  VerdictInv'
<1>1. /\ pc'[r] = m.pattern /\ job'[r] = m /\ UNCHANGED <<reportStatus, sent>>
      /\ m.pattern \in VerdictSteps => m.pattern = "admin.post.reject"
      /\ m.pattern # "review_notify"
  BY RequestFields
     DEF Begin, BaseInv, TypeOK, reports, outbox, VerdictSteps, RejectSteps
<1>2. OpenUntold' /\ OneVerdictPerReport'
  BY <1>1 DEF VerdictInv, OpenUntold, OneVerdictPerReport, Told
<1>3. ReviewUntold' /\ NotifySettled'
  BY <1>1 DEF ReviewUntold, NotifySettled
<1> QED BY <1>2, <1>3 DEF VerdictInv

\* Run by one replica, the service tells a reporter one verdict at most,
\* provided that nobody marks a settled report as pending again.
THEOREM SerialOneVerdict ==
    ASSUME NobodyReopens, \A r, s \in Replicas : r = s
    PROVE  Spec => []OneVerdictPerReport
<1>1. Init => VerdictInv
  BY DEF Init, VerdictInv, OpenUntold, ReviewUntold, NotifySettled, Told,
     OneVerdictPerReport, VerdictSteps, RejectSteps, Notice, ReportNotice
<1>2. BaseInv /\ VerdictInv /\ [Next]_vars => VerdictInv'
  <2>1. ASSUME VerdictInv, UNCHANGED vars PROVE VerdictInv'
    BY <2>1 DEF VerdictInv, OpenUntold, ReviewUntold, NotifySettled, Told,
       OneVerdictPerReport, vars, reports, handler, outbox
  <2> QED BY <2>1, VerdictStep, VerdictBegin DEF Next, Step
<1>3. VerdictInv => OneVerdictPerReport
  BY DEF VerdictInv
<1> QED BY <1>1, <1>2, <1>3, BaseAlways, PTL DEF Spec
=============================================================================
