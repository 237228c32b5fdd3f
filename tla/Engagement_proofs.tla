-------------------------- MODULE Engagement_proofs --------------------------
(***************************************************************************)
(* The counters and notices of likes and comments, for every number of     *)
(* replicas, users, posts, comments, messages and faults.                  *)
(***************************************************************************)
EXTENDS Engagement, FiniteSetTheorems, TLAPS

-----------------------------------------------------------------------------
(* What the moves of a handler do to the group's variables.                 *)

\* A handler at work has a message.
Working == \A r \in Replicas : pc[r] # "idle" => job[r] \in Requests

\* At the start the replicas are idle and every message is in the inbox.
LEMMA InitType ==
    ASSUME NEW L, "idle" \in L, GroupInit
    PROVE  GroupType(L) /\ Working
BY GroupAssumption DEF GroupType, GroupInit, Working

\* Taking a message up keeps the types of the group's variables.
LEMMA TakeType ==
    ASSUME NEW L, GroupType(L), Working, NEW r \in Replicas, NEW m \in Requests,
           m.pattern \in L, Take(r, m)
    PROVE  GroupType(L)' /\ Working'
BY DEF GroupType, Take, Working

\* Moving a handler on to another await keeps them.
LEMMA GotoType ==
    ASSUME NEW L, GroupType(L), Working, NEW r \in Replicas, pc[r] # "idle",
           NEW l \in L, Goto(r, l)
    PROVE  GroupType(L)' /\ Working'
BY DEF GroupType, Goto, Working

\* Ending a handler keeps them, however it ends.
LEMMA EndType ==
    ASSUME NEW L, "idle" \in L, GroupType(L), Working, NEW r \in Replicas,
           Finish(r) \/ Die(r) \/ Throw(r)
    PROVE  GroupType(L)' /\ Working'
<1>1. ASSUME Release(r)
      PROVE  /\ pc' \in [Replicas -> L]
             /\ job' \in [Replicas -> Requests \cup {NoRequest}]
             /\ lease' \in [Replicas -> BOOLEAN]
             /\ Working'
  BY <1>1 DEF GroupType, Release, Working
<1>2. CASE Finish(r)
  BY <1>1, <1>2 DEF Finish, GroupType
<1>3. CASE Die(r)
  <2>1. inbox' \subseteq Requests
    BY <1>3 DEF Die, Redeliver, GroupType, Working
  <2> QED BY <1>1, <1>3, <2>1, GroupAssumption DEF Die, Fault, GroupType
<1>4. CASE Throw(r)
  BY <1>1, <1>4, GroupAssumption DEF Throw, Fault, GroupType
<1> QED BY <1>2, <1>3, <1>4

\* So does outliving the session, which leaves the handler where it was.
LEMMA OutliveType ==
    ASSUME NEW L, GroupType(L), Working, NEW r \in Replicas, OutliveSession(r)
    PROVE  GroupType(L)' /\ Working'
<1>1. inbox' \subseteq Requests
  BY DEF OutliveSession, Redeliver, GroupType, Working
<1> QED BY <1>1, GroupAssumption DEF OutliveSession, Fault, GroupType, Working

-----------------------------------------------------------------------------
(* The base invariant: types, handlers at work on a message of the pattern  *)
(* their await belongs to, and ids that were allocated before they were     *)
(* named.                                                                   *)

\* The type invariant without the group's variables.
DataType ==
    /\ postState \in [Posts -> {"open", "hidden", "erased"}]
    /\ commentState \in [Comments -> {"absent", "stored", "removed"}]
    /\ doc \in [Comments -> Requests \cup {NoRequest}]
    /\ likes \subseteq Users \X Targets
    /\ likeCount \in [Targets -> Int]
    /\ childCount \in [Targets -> Int]
    /\ doomed \in [Replicas -> SUBSET Comments]
    /\ told \subseteq {"like", "comment"} \X Users \X Targets
    /\ interrupted \subseteq Targets

Known(t) == t \in Comments => commentState[t] # "absent"

\* A comment's message: its parent, when it has one, was there before it.
CommentMessage(m) ==
    /\ m \in Requests
    /\ m.pattern = "comment.create"
    /\ m.parentId # NoParent => Known(m.parentId)

JobOK ==
    \A r \in Replicas :
        /\ pc[r] \in LikeSteps =>
               job[r].pattern \in {"post.like", "comment.like"} /\ Known(job[r].on)
        /\ pc[r] \in UnlikeSteps =>
               job[r].pattern \in {"post.unlike", "comment.unlike"} /\ Known(job[r].on)
        /\ pc[r] \in CreateSteps => CommentMessage(job[r])
        /\ pc[r] \in RemoveSteps =>
               job[r].pattern = "comment.delete" /\ Known(job[r].commentId)

\* Every comment allocated was made from a message.
DocsOK == \A c \in Comments : commentState[c] # "absent" => CommentMessage(doc[c])

ListSteps == {"find_replies", "remove_delete", "remove_likes", "remove_count"}

\* What a removal has listed: its own comment, and replies to it.
Listed(r) ==
    /\ \A c \in doomed[r] :
           commentState[c] # "absent"
               /\ (c # job[r].commentId => Above(doc[c]) = job[r].commentId)
    /\ pc[r] \in ListSteps => job[r].commentId \in doomed[r]
    /\ pc[r] \notin ListSteps => doomed[r] = {}

DoomedOK == \A r \in Replicas : Listed(r)

BaseInv == GroupType(Labels) /\ Working /\ DataType /\ JobOK /\ DocsOK /\ DoomedOK

Step(r) == LikeStep(r) \/ CommentStep(r) \/ FaultStep(r)

\* What a message of each pattern carries.
LEMMA RequestFields ==
    ASSUME NEW m \in Requests
    PROVE  /\ m.pattern \in {"post.like", "post.unlike", "comment.like",
                  "comment.unlike", "comment.create", "comment.delete"}
           /\ m.pattern \in {"post.like", "post.unlike"} =>
                  m.on \in Posts /\ m.userId \in Users
           /\ m.pattern \in {"comment.like", "comment.unlike"} =>
                  m.on \in Comments /\ m.userId \in Users
           /\ m.pattern = "comment.create" =>
                  /\ m.authorId \in Users /\ m.postId \in Posts
                  /\ m.parentId \in Comments \cup {NoParent}
                  /\ Above(m) \in Targets
           /\ m.pattern = "comment.delete" =>
                  m.authorId \in Users /\ m.commentId \in Comments
BY RequestsAssumption DEF Request, Above, Targets

-----------------------------------------------------------------------------
(* How a step moves its handler *)

\* The handler ends, or goes on to an await of its operation with the same
\* message.
Moves(r) ==
    \/ Finish(r) \/ Die(r) \/ Throw(r)
    \/ OutliveSession(r)
    \/ pc[r] \in LikeSteps /\ \E l \in LikeSteps : Goto(r, l)
    \/ pc[r] \in UnlikeSteps /\ \E l \in UnlikeSteps : Goto(r, l)
    \/ pc[r] \in CreateSteps /\ \E l \in CreateSteps : Goto(r, l)
    \/ pc[r] \in RemoveSteps /\ \E l \in RemoveSteps : Goto(r, l)

\* Every step moves its handler so.
LEMMA StepMoves ==
    ASSUME NEW r \in Replicas, Step(r)
    PROVE  Moves(r)
<1> USE DEF Moves, LikeSteps, UnlikeSteps, CreateSteps, RemoveSteps
<1>1. CASE LikeStep(r)
  BY <1>1 DEF LikeStep, LikeFind, LikeSave, LikeCount, LikeNotify, UnlikeDelete,
     UnlikeCount
<1>2. CASE CreateFindPost(r) \/ CreateFindParent(r) \/ CreateSave(r) \/ CreateCount(r)
           \/ CreateNotify(r)
  BY <1>2 DEF CreateFindPost, CreateFindParent, CreateSave, CreateCount, CreateNotify
<1>3. CASE RemoveFind(r) \/ RemoveFindPost(r) \/ FindReplies(r) \/ RemoveDelete(r)
           \/ RemoveLikes(r) \/ RemoveCount(r)
  BY <1>3 DEF RemoveFind, RemoveFindPost, FindReplies, RemoveDelete, RemoveLikes,
     RemoveCount
<1>4. CASE FaultStep(r)
  BY <1>4 DEF FaultStep, Crash, ExpireSession, QueryFails
<1> QED BY <1>1, <1>2, <1>3, <1>4 DEF Step, CommentStep

\* A step of one replica leaves the handlers of the others alone.
LEMMA OthersUntouched ==
    ASSUME GroupType(Labels), NEW r \in Replicas, Moves(r), NEW s \in Replicas \ {r}
    PROVE  pc'[s] = pc[s] /\ job'[s] = job[s]
BY DEF Moves, Finish, Die, Throw, Release, OutliveSession, Goto, GroupType

\* The handler that moves is idle afterwards, or keeps its message.
LEMMA MoverKeeps ==
    ASSUME GroupType(Labels), NEW r \in Replicas, Moves(r)
    PROVE  \/ pc'[r] = "idle"
           \/ /\ job'[r] = job[r]
              /\ \/ pc'[r] = pc[r]
                 \/ pc[r] \in LikeSteps /\ pc'[r] \in LikeSteps
                 \/ pc[r] \in UnlikeSteps /\ pc'[r] \in UnlikeSteps
                 \/ pc[r] \in CreateSteps /\ pc'[r] \in CreateSteps
                 \/ pc[r] \in RemoveSteps /\ pc'[r] \in RemoveSteps
BY DEF Moves, Finish, Die, Throw, Release, OutliveSession, Goto, GroupType

\* Such a move keeps the types of the group.
LEMMA MovesKeepGroup ==
    ASSUME BaseInv, NEW r \in Replicas, Moves(r)
    PROVE  GroupType(Labels)' /\ Working'
<1> USE DEF BaseInv
<1>1. CASE Finish(r) \/ Die(r) \/ Throw(r)
  BY <1>1, EndType DEF Labels
<1>2. CASE OutliveSession(r)
  BY <1>2, OutliveType
<1>3. ASSUME NEW l \in LikeSteps \cup UnlikeSteps \cup CreateSteps \cup RemoveSteps,
             Goto(r, l), pc[r] # "idle"
      PROVE  GroupType(Labels)' /\ Working'
  BY <1>3, GotoType DEF Labels
<1>4. "idle" \notin LikeSteps \cup UnlikeSteps \cup CreateSteps \cup RemoveSteps
  BY DEF LikeSteps, UnlikeSteps, CreateSteps, RemoveSteps
<1> QED BY <1>1, <1>2, <1>3, <1>4 DEF Moves

-----------------------------------------------------------------------------
(* Comments are never forgotten *)

\* Comments only turn from absent to stored, and from there to removed; the
\* message of one allocated stays.
CommentsGrow ==
    \A c \in Comments : commentState[c] # "absent" =>
        /\ commentState'[c] # "absent" /\ doc'[c] = doc[c]
        /\ commentState[c] = "removed" => commentState'[c] = "removed"

LEMMA StepGrows ==
    ASSUME BaseInv, NEW r \in Replicas, Step(r)
    PROVE  CommentsGrow
<1> USE DEF BaseInv, DataType, CommentsGrow, comments
<1>1. CASE CreateSave(r)
  BY <1>1 DEF CreateSave
<1>2. CASE RemoveDelete(r)
  BY <1>2 DEF RemoveDelete
<1>3. CASE LikeStep(r)
  BY <1>3 DEF LikeStep, LikeFind, LikeSave, LikeCount, LikeNotify, UnlikeDelete,
     UnlikeCount
<1>4. CASE CreateFindPost(r) \/ CreateFindParent(r) \/ CreateCount(r) \/ CreateNotify(r)
  BY <1>4 DEF CreateFindPost, CreateFindParent, CreateCount, CreateNotify
<1>5. CASE RemoveFind(r) \/ RemoveFindPost(r) \/ FindReplies(r) \/ RemoveLikes(r)
           \/ RemoveCount(r)
  BY <1>5 DEF RemoveFind, RemoveFindPost, FindReplies, RemoveLikes, RemoveCount
<1>6. CASE FaultStep(r)
  BY <1>6 DEF FaultStep, Crash, ExpireSession, QueryFails, CutShort
<1> QED BY <1>1, <1>2, <1>3, <1>4, <1>5, <1>6 DEF Step, CommentStep

\* So what was known stays known, and a comment's message stays one.
LEMMA KnownStays ==
    ASSUME CommentsGrow
    PROVE  /\ \A t : Known(t) => Known(t)'
           /\ \A m : CommentMessage(m) => CommentMessage(m)'
BY DEF CommentsGrow, Known, CommentMessage

\* What a fault has interrupted stays interrupted.
LEMMA InterruptedGrows ==
    ASSUME NEW r \in Replicas, Step(r)
    PROVE  interrupted \subseteq interrupted'
BY DEF Step, LikeStep, LikeFind, LikeSave, LikeCount, LikeNotify, UnlikeDelete,
   UnlikeCount, CommentStep, CreateFindPost, CreateFindParent, CreateSave, CreateCount,
   CreateNotify, RemoveFind, RemoveFindPost, FindReplies, RemoveDelete, RemoveLikes,
   RemoveCount, FaultStep, Crash, ExpireSession, QueryFails, CutShort

LEMMA JobsKept ==
    ASSUME BaseInv, NEW r \in Replicas, Moves(r), CommentsGrow
    PROVE  JobOK'
<1> USE DEF BaseInv
<1>1. ASSUME NEW s \in Replicas \ {r}
      PROVE  pc'[s] = pc[s] /\ job'[s] = job[s]
  BY <1>1, OthersUntouched
<1>2. "idle" \notin LikeSteps \cup UnlikeSteps \cup CreateSteps \cup RemoveSteps
  BY DEF LikeSteps, UnlikeSteps, CreateSteps, RemoveSteps
<1>3. /\ LikeSteps \cap (UnlikeSteps \cup CreateSteps \cup RemoveSteps) = {}
      /\ UnlikeSteps \cap (CreateSteps \cup RemoveSteps) = {}
      /\ CreateSteps \cap RemoveSteps = {}
  BY DEF LikeSteps, UnlikeSteps, CreateSteps, RemoveSteps
<1>4. ASSUME NEW s \in Replicas
      PROVE  /\ pc'[s] \in LikeSteps => pc[s] \in LikeSteps /\ job'[s] = job[s]
             /\ pc'[s] \in UnlikeSteps => pc[s] \in UnlikeSteps /\ job'[s] = job[s]
             /\ pc'[s] \in CreateSteps => pc[s] \in CreateSteps /\ job'[s] = job[s]
             /\ pc'[s] \in RemoveSteps => pc[s] \in RemoveSteps /\ job'[s] = job[s]
  <2>1. CASE s = r
    BY <2>1, <1>2, <1>3, MoverKeeps
  <2>2. CASE s # r
    BY <2>2, <1>1
  <2> QED BY <2>1, <2>2
<1>5. ASSUME NEW s \in Replicas
      PROVE  /\ pc'[s] \in LikeSteps =>
                    job'[s].pattern \in {"post.like", "comment.like"} /\ Known(job[s].on)'
             /\ pc'[s] \in UnlikeSteps =>
                    /\ job'[s].pattern \in {"post.unlike", "comment.unlike"}
                    /\ Known(job[s].on)'
             /\ pc'[s] \in CreateSteps => CommentMessage(job[s])'
             /\ pc'[s] \in RemoveSteps =>
                    job'[s].pattern = "comment.delete" /\ Known(job[s].commentId)'
  BY <1>4, KnownStays DEF JobOK, Known, CommentMessage, CommentsGrow
<1> QED BY <1>5 DEF JobOK

-----------------------------------------------------------------------------
(* The types *)

\* What a fault interrupts is among the targets.
LEMMA UnfinishedType ==
    ASSUME BaseInv, NEW r \in Replicas, pc[r] # "idle"
    PROVE  /\ Unfinished(r) \subseteq Targets
           /\ pc[r] \in {"like_count", "like_notify", "unlike_count"} =>
                  Unfinished(r) = {job[r].on}
           /\ pc[r] = "create_count" => Unfinished(r) = {Above(job[r])}
           /\ pc[r] \in {"remove_likes", "remove_count"} =>
                  Unfinished(r) = doomed[r] \cup {Above(doc[job[r].commentId])}
<1> USE DEF BaseInv
<1>1. CASE pc[r] \in {"like_count", "like_notify", "unlike_count"}
  <2>1. Unfinished(r) = {job[r].on}
    BY <1>1 DEF Unfinished
  <2>2. job[r].on \in Targets
    BY <1>1, RequestFields DEF JobOK, Working, LikeSteps, UnlikeSteps, Targets
  <2> QED BY <1>1, <2>1, <2>2
<1>2. CASE pc[r] = "create_count"
  <2>1. Unfinished(r) = {Above(job[r])}
    BY <1>2 DEF Unfinished
  <2>2. Above(job[r]) \in Targets
    BY <1>2, RequestFields DEF JobOK, CreateSteps, CommentMessage
  <2> QED BY <1>2, <2>1, <2>2
<1>3. CASE pc[r] \in {"remove_likes", "remove_count"}
  <2>1. Unfinished(r) = doomed[r] \cup {Above(doc[job[r].commentId])}
    BY <1>3 DEF Unfinished
  <2>2. job[r].commentId \in Comments /\ Known(job[r].commentId)
    BY <1>3, RequestFields DEF JobOK, Working, RemoveSteps
  <2>3. Above(doc[job[r].commentId]) \in Targets
    BY <2>2, RequestFields DEF DocsOK, Known, CommentMessage
  <2> QED BY <1>3, <2>1, <2>3 DEF DataType, Targets
<1>4. CASE pc[r] \notin {"like_count", "like_notify", "unlike_count", "create_count",
                         "remove_likes", "remove_count"}
  BY <1>4 DEF Unfinished
<1> QED BY <1>1, <1>2, <1>3, <1>4

\* Bumping a counter of integers leaves it one.
LEMMA BumpType ==
    ASSUME NEW count \in [Targets -> Int], NEW t, NEW d \in Int
    PROVE  Bumped(count, t, d) \in [Targets -> Int]
<1>1. CASE t \in Targets
  BY <1>1 DEF Bumped
<1>2. CASE t \notin Targets
  <2>1. [count EXCEPT ![t] = @ + d] = count
    BY <1>2
  <2> QED BY <2>1 DEF Bumped
<1> QED BY <1>1, <1>2

\* Every step keeps the types of the database and of the notices.
LEMMA DataTypeStep ==
    ASSUME BaseInv, NEW r \in Replicas, Step(r)
    PROVE  DataType'
<1> USE DEF BaseInv, DataType, comments, counts
<1>1. CASE LikeSave(r)
  BY <1>1, RequestFields DEF LikeSave, JobOK, Working, LikeSteps, Targets
<1>2. CASE LikeCount(r)
  BY <1>2, BumpType DEF LikeCount
<1>3. CASE LikeNotify(r)
  BY <1>3, RequestFields DEF LikeNotify, JobOK, Working, LikeSteps, Targets
<1>4. CASE UnlikeDelete(r)
  BY <1>4 DEF UnlikeDelete
<1>5. CASE UnlikeCount(r)
  BY <1>5, BumpType DEF UnlikeCount
<1>6. CASE LikeFind(r)
  BY <1>6 DEF LikeFind
<1>7. CASE CreateFindPost(r) \/ CreateFindParent(r)
  BY <1>7 DEF CreateFindPost, CreateFindParent
<1>8. CASE CreateSave(r)
  BY <1>8 DEF CreateSave, Working
<1>9. CASE CreateCount(r)
  BY <1>9, BumpType DEF CreateCount
<1>10. CASE CreateNotify(r)
  BY <1>10, RequestFields DEF CreateNotify, JobOK, CommentMessage, CreateSteps
<1>11. CASE RemoveFind(r)
  BY <1>11 DEF RemoveFind
<1>12. CASE RemoveFindPost(r)
  BY <1>12, RequestFields DEF RemoveFindPost, JobOK, Working, RemoveSteps
<1>13. CASE FindReplies(r)
  BY <1>13 DEF FindReplies, Children
<1>14. CASE RemoveDelete(r)
  BY <1>14 DEF RemoveDelete
<1>15. CASE RemoveLikes(r)
  BY <1>15 DEF RemoveLikes
<1>16. CASE RemoveCount(r)
  BY <1>16, BumpType DEF RemoveCount
<1>17. CASE FaultStep(r)
  <2>1. CASE ExpireSession(r)
    BY <2>1 DEF ExpireSession
  <2>2. CASE Crash(r) \/ QueryFails(r)
    BY <2>2, UnfinishedType DEF Crash, QueryFails, CutShort, Die
  <2> QED BY <1>17, <2>1, <2>2 DEF FaultStep
<1> QED
  BY <1>1, <1>2, <1>3, <1>4, <1>5, <1>6, <1>7, <1>8, <1>9, <1>10, <1>11, <1>12, <1>13,
     <1>14, <1>15, <1>16, <1>17 DEF Step, LikeStep, CommentStep

\* Every step keeps the comments' messages.
LEMMA DocsKept ==
    ASSUME BaseInv, NEW r \in Replicas, Step(r)
    PROVE  DocsOK'
<1> USE DEF BaseInv, DataType, comments
<1>1. CommentsGrow
  BY StepGrows
<1>2. ASSUME NEW c \in Comments, commentState[c] # "absent"
      PROVE  CommentMessage(doc[c])'
  BY <1>1, <1>2, KnownStays DEF DocsOK, CommentsGrow, CommentMessage, Known
<1>3. CASE CreateSave(r)
  <2>1. CommentMessage(job[r])
    BY <1>3 DEF CreateSave, JobOK, CreateSteps
  <2>2. \A c \in Comments : commentState[c] = "absent" /\ commentState'[c] # "absent" =>
            doc'[c] = job[r]
    BY <1>3 DEF CreateSave
  <2>3. ASSUME NEW c \in Comments, commentState[c] = "absent", commentState'[c] # "absent"
        PROVE  CommentMessage(doc[c])'
    BY <1>1, <2>1, <2>2, <2>3, KnownStays DEF CommentMessage, Known, CommentsGrow
  <2> QED BY <1>2, <2>3 DEF DocsOK
<1>4. CASE RemoveDelete(r)
  <2>1. \A c \in doomed[r] : commentState[c] # "absent"
    BY DEF DoomedOK, Listed
  <2> QED BY <1>2, <2>1, <1>4 DEF RemoveDelete, DocsOK
<1>5. ASSUME UNCHANGED comments
      PROVE  DocsOK'
  BY <1>2, <1>5 DEF DocsOK
<1>6. CASE LikeStep(r)
  BY <1>5, <1>6 DEF LikeStep, LikeFind, LikeSave, LikeCount, LikeNotify, UnlikeDelete,
     UnlikeCount
<1>7. CASE CreateFindPost(r) \/ CreateFindParent(r) \/ CreateCount(r) \/ CreateNotify(r)
  BY <1>5, <1>7 DEF CreateFindPost, CreateFindParent, CreateCount, CreateNotify
<1>8. CASE RemoveFind(r) \/ RemoveFindPost(r) \/ FindReplies(r) \/ RemoveLikes(r)
           \/ RemoveCount(r)
  BY <1>5, <1>8 DEF RemoveFind, RemoveFindPost, FindReplies, RemoveLikes, RemoveCount
<1>9. CASE FaultStep(r)
  BY <1>5, <1>9 DEF FaultStep, Crash, ExpireSession, QueryFails, CutShort
<1> QED BY <1>3, <1>4, <1>6, <1>7, <1>8, <1>9 DEF Step, CommentStep

\* Every step keeps what the removals have listed.
LEMMA DoomedKept ==
    ASSUME BaseInv, NEW r \in Replicas, Step(r)
    PROVE  DoomedOK'
<1> USE DEF BaseInv
<1>0. Moves(r) /\ CommentsGrow
  BY StepMoves, StepGrows
<1>1. \A s \in Replicas \ {r} : doomed'[s] = doomed[s]
  <2>1. UNCHANGED doomed \/ \E d : doomed' = [doomed EXCEPT ![r] = d]
    BY DEF Step, LikeStep, LikeFind, LikeSave, LikeCount, LikeNotify, UnlikeDelete,
       UnlikeCount, CommentStep, CreateFindPost, CreateFindParent, CreateSave,
       CreateCount, CreateNotify, RemoveFind, RemoveFindPost, FindReplies, RemoveDelete,
       RemoveLikes, RemoveCount, FaultStep, Crash, ExpireSession, QueryFails, CutShort
  <2> QED BY <2>1 DEF DataType
<1>2. ASSUME NEW s \in Replicas, pc'[s] = pc[s], job'[s] = job[s], doomed'[s] = doomed[s]
      PROVE  Listed(s)'
  BY <1>0, <1>2 DEF DataType, DoomedOK, Listed, CommentsGrow, Above
<1>3. ASSUME NEW s \in Replicas \ {r}
      PROVE  Listed(s)'
  BY <1>0, <1>1, <1>2, <1>3, OthersUntouched
<1> SUFFICES Listed(r)'
  BY <1>3 DEF DoomedOK
<1>4. ASSUME pc[r] \notin ListSteps, pc'[r] \notin ListSteps, doomed'[r] = doomed[r]
      PROVE  Listed(r)'
  BY <1>4 DEF DoomedOK, Listed
<1>5. ASSUME pc[r] \in ListSteps, pc'[r] \in ListSteps, job'[r] = job[r],
             doomed'[r] = doomed[r]
      PROVE  Listed(r)'
  BY <1>0, <1>5 DEF DataType, DoomedOK, Listed, CommentsGrow, Above
<1>6. CASE LikeStep(r) \/ CreateFindPost(r) \/ CreateFindParent(r) \/ CreateSave(r)
           \/ CreateCount(r) \/ CreateNotify(r) \/ RemoveFind(r)
  <2>1. pc[r] \notin ListSteps /\ UNCHANGED doomed
    BY <1>6 DEF LikeStep, LikeFind, LikeSave, LikeCount, LikeNotify, UnlikeDelete,
       UnlikeCount, CreateFindPost, CreateFindParent, CreateSave, CreateCount,
       CreateNotify, RemoveFind, ListSteps
  <2>2. pc'[r] \notin ListSteps
    BY <1>6 DEF LikeStep, LikeFind, LikeSave, LikeCount, LikeNotify, UnlikeDelete,
       UnlikeCount, CreateFindPost, CreateFindParent, CreateSave, CreateCount,
       CreateNotify, RemoveFind, ListSteps, Goto, Finish, Release, GroupType
  <2> QED BY <1>4, <2>1, <2>2
<1>7. CASE RemoveFindPost(r)
  <2>1. CASE doomed' = [doomed EXCEPT ![r] = {job[r].commentId}]
    <3>1. /\ pc[r] = "find_post" /\ job'[r] = job[r]
          /\ pc'[r] \in {"find_replies", "remove_delete"}
          /\ doomed'[r] = {job[r].commentId}
      <4>1. doomed'[r] # doomed[r] /\ doomed'[r] = {job[r].commentId}
        BY <1>7, <2>1 DEF RemoveFindPost, DataType, DoomedOK, Listed, ListSteps
      <4> QED BY <1>7, <4>1 DEF RemoveFindPost, Goto, GroupType
    <3>2. commentState[job[r].commentId] # "absent"
      BY <3>1, RequestFields DEF JobOK, RemoveSteps, Working, Known
    <3>3. UNCHANGED <<commentState, doc>>
      BY <1>7 DEF RemoveFindPost, comments
    <3> QED BY <3>1, <3>2, <3>3 DEF Listed, ListSteps
  <2>2. CASE UNCHANGED doomed
    <3>1. doomed[r] = {}
      BY <1>7 DEF RemoveFindPost, DoomedOK, Listed, ListSteps
    <3>2. pc'[r] = "idle"
      BY <1>7, <2>2, <3>1 DEF RemoveFindPost, DataType, Finish, Release, GroupType
    <3> QED BY <1>7, <2>2, <3>2, <1>4 DEF RemoveFindPost, ListSteps
  <2> QED BY <1>7, <2>1, <2>2 DEF RemoveFindPost
<1>8. CASE FindReplies(r)
  <2>1. /\ job'[r] = job[r] /\ pc[r] \in ListSteps /\ pc'[r] \in ListSteps
        /\ doomed'[r] = doomed[r] \cup Children(job[r].commentId)
    BY <1>8 DEF FindReplies, Goto, GroupType, DataType, ListSteps
  <2>2. \A c \in Children(job[r].commentId) :
            commentState[c] # "absent" /\ Above(doc[c]) = job[r].commentId
    BY DEF Children
  <2>3. UNCHANGED <<commentState, doc>>
    BY <1>8 DEF FindReplies, comments
  <2> QED BY <2>1, <2>2, <2>3 DEF DoomedOK, Listed, Above
<1>9. CASE RemoveDelete(r) \/ RemoveLikes(r)
  BY <1>5, <1>9 DEF RemoveDelete, RemoveLikes, Goto, GroupType, ListSteps
<1>10. ASSUME pc'[r] = "idle", doomed'[r] = {}
       PROVE  Listed(r)'
  BY <1>10 DEF Listed, ListSteps
<1>11. CASE RemoveCount(r)
  BY <1>10, <1>11 DEF RemoveCount, Finish, Release, GroupType, DataType
<1>12. CASE Crash(r) \/ QueryFails(r)
  BY <1>10, <1>12 DEF Crash, QueryFails, CutShort, Die, Throw, Release, GroupType,
     DataType
<1>13. CASE ExpireSession(r)
  BY <1>2, <1>13 DEF ExpireSession, OutliveSession
<1> QED
  BY <1>6, <1>7, <1>8, <1>9, <1>11, <1>12, <1>13 DEF Step, CommentStep, FaultStep

-----------------------------------------------------------------------------
(* The base invariant holds throughout *)

\* Taking a message up keeps it: a message names only what was allocated.
LEMMA BeginBase ==
    ASSUME BaseInv, NEW r \in Replicas, NEW m \in Requests, Begin(r, m)
    PROVE  BaseInv'
<1> USE DEF BaseInv, comments, counts
<1>1. m.pattern \in Labels
  BY RequestFields DEF Labels, LikeSteps, UnlikeSteps, CreateSteps, RemoveSteps
<1>2. GroupType(Labels)' /\ Working'
  BY <1>1, TakeType DEF Begin
<1>3. DataType'
  BY DEF Begin, DataType
<1>4. DocsOK'
  BY DEF Begin, DocsOK, CommentMessage, Known
<1>5. /\ \A s \in Replicas \ {r} : pc'[s] = pc[s] /\ job'[s] = job[s]
      /\ pc[r] = "idle" /\ pc'[r] = m.pattern /\ job'[r] = m
  BY DEF Begin, Take, GroupType
<1>6. JobOK'
  <2>1. \A t \in Targets : Known(t) => Known(t)'
    BY DEF Begin, Known
  <2>2. /\ m.pattern \in LikeSteps =>
               m.pattern \in {"post.like", "comment.like"} /\ Known(m.on)
        /\ m.pattern \in UnlikeSteps =>
               m.pattern \in {"post.unlike", "comment.unlike"} /\ Known(m.on)
        /\ m.pattern \in CreateSteps => CommentMessage(m)
        /\ m.pattern \in RemoveSteps =>
               m.pattern = "comment.delete" /\ Known(m.commentId)
    BY RequestFields, NamesAssumption DEF Begin, Sendable, Known, CommentMessage,
       LikeSteps, UnlikeSteps, CreateSteps, RemoveSteps
  <2> QED BY <1>5, <2>2 DEF Begin, JobOK, Known, CommentMessage
<1>7. DoomedOK'
  <2>1. m.pattern \notin ListSteps
    BY RequestFields DEF ListSteps
  <2>2. doomed[r] = {}
    BY <1>5 DEF DoomedOK, Listed, ListSteps
  <2> QED BY <1>5, <2>1, <2>2 DEF Begin, DoomedOK, Listed, Above
<1> QED BY <1>2, <1>3, <1>4, <1>6, <1>7

\* A post's visibility is nothing to it.
LEMMA ChangeBase ==
    ASSUME BaseInv, NEW r \in Replicas, NEW p \in Posts, ChangePost(r, p)
    PROVE  BaseInv'
BY DEF ChangePost, BaseInv, group, comments, counts, GroupType, Working, DataType,
   JobOK, DocsOK, DoomedOK, Listed, Known, CommentMessage, Above

\* The base invariant holds throughout.
LEMMA BaseAlways == Spec => []BaseInv
<1>1. Init => BaseInv
  <2> SUFFICES ASSUME Init PROVE BaseInv
    OBVIOUS
  <2>1. GroupType(Labels) /\ Working
    BY InitType DEF Init, Labels
  <2>2. DataType /\ DocsOK
    BY DEF Init, DataType, DocsOK
  <2>3. JobOK /\ DoomedOK
    BY DEF Init, GroupInit, JobOK, DoomedOK, Listed, ListSteps, LikeSteps,
       UnlikeSteps, CreateSteps, RemoveSteps
  <2> QED BY <2>1, <2>2, <2>3 DEF BaseInv
<1>2. BaseInv /\ [Next]_vars => BaseInv'
  <2> SUFFICES ASSUME BaseInv, [Next]_vars PROVE BaseInv'
    OBVIOUS
  <2>1. ASSUME NEW r \in Replicas, Step(r) PROVE BaseInv'
    BY <2>1, StepMoves, StepGrows, MovesKeepGroup, JobsKept, DataTypeStep, DocsKept,
       DoomedKept DEF BaseInv
  <2>2. CASE UNCHANGED vars
    BY <2>2 DEF vars, BaseInv, group, comments, counts, GroupType, Working, DataType,
       JobOK, DocsOK, DoomedOK, Listed, Known, CommentMessage, Above
  <2> QED BY <2>1, <2>2, BeginBase, ChangeBase DEF Next, Step
<1> QED BY <1>1, <1>2, PTL DEF Spec

\* Whatever the replicas and the faults, a handler works on a message of its
\* operation, and every row, counter and notice keeps its type.
THEOREM TypeCorrect == Spec => []TypeOK
<1>1. BaseInv => TypeOK
  BY DEF BaseInv, DataType, TypeOK
<1> QED BY <1>1, BaseAlways, PTL

-----------------------------------------------------------------------------
(* Nobody likes a thing in silence *)

\* The replica that stands between a stored like and its notice.
Bearing(l) ==
    \E r \in Replicas :
        pc[r] \in {"like_count", "like_notify"} /\ <<job[r].userId, job[r].on>> = l

Told(l) == <<"like", l[1], l[2]>> \in told

\* A like stored goes with the replica that is to tell of it, or that a
\* fault has stopped there.
LEMMA ToldStep ==
    ASSUME BaseInv, LikesAreTold, NEW r \in Replicas, Step(r)
    PROVE  LikesAreTold'
<1> USE DEF BaseInv
<1>0. Moves(r)
  BY StepMoves
<1>1. told \subseteq told' /\ interrupted \subseteq interrupted'
  BY DEF Step, LikeStep, LikeFind, LikeSave, LikeCount, LikeNotify, UnlikeDelete,
     UnlikeCount, CommentStep, CreateFindPost, CreateFindParent, CreateSave, CreateCount,
     CreateNotify, RemoveFind, RemoveFindPost, FindReplies, RemoveDelete, RemoveLikes,
     RemoveCount, FaultStep, Crash, ExpireSession, QueryFails, CutShort
<1>2. ASSUME NEW l \in likes,
             pc[r] \in {"like_count", "like_notify"} /\ <<job[r].userId, job[r].on>> = l =>
                 Told(l)' \/ l[2] \in interrupted' \/ Bearing(l)'
      PROVE  Told(l)' \/ l[2] \in interrupted' \/ Bearing(l)'
  BY <1>0, <1>1, <1>2, OthersUntouched DEF LikesAreTold, Told, Bearing
<1>3. ASSUME \A l \in likes : pc[r] \in {"like_count", "like_notify"}
                 /\ <<job[r].userId, job[r].on>> = l =>
                     Told(l)' \/ l[2] \in interrupted' \/ Bearing(l)',
             likes' \subseteq likes
      PROVE  LikesAreTold'
  BY <1>2, <1>3 DEF LikesAreTold, Told, Bearing
<1>4. CASE LikeSave(r)
  <2>1. ASSUME NEW l \in likes
        PROVE  Told(l)' \/ l[2] \in interrupted' \/ Bearing(l)'
    BY <1>2, <1>4 DEF LikeSave
  <2>2. ASSUME NEW l \in likes', l \notin likes
        PROVE  Bearing(l)'
    <3>1. l = <<job[r].userId, job[r].on>> /\ pc'[r] = "like_count" /\ job'[r] = job[r]
      BY <1>4, <2>2 DEF LikeSave, Goto, GroupType
    <3> QED BY <3>1 DEF Bearing
  <2> QED BY <2>1, <2>2 DEF LikesAreTold, Told, Bearing
<1>5. CASE LikeCount(r)
  <2>1. /\ pc'[r] = "like_notify" /\ job'[r] = job[r]
        /\ UNCHANGED likes
    BY <1>5 DEF LikeCount, Goto, GroupType
  <2>2. ASSUME NEW l, <<job[r].userId, job[r].on>> = l
        PROVE  Bearing(l)'
    BY <2>1, <2>2 DEF Bearing
  <2> QED BY <1>3, <2>1, <2>2
<1>6. CASE LikeNotify(r)
  <2>1. ASSUME NEW l, <<job[r].userId, job[r].on>> = l
        PROVE  Told(l)'
    BY <1>6, <2>1 DEF LikeNotify, Told
  <2>2. UNCHANGED likes
    BY <1>6 DEF LikeNotify
  <2> QED BY <1>3, <2>1, <2>2
<1>7. CASE Crash(r) \/ QueryFails(r)
  <2>1. pc[r] \in {"like_count", "like_notify"} => job[r].on \in interrupted'
    BY <1>7, UnfinishedType DEF Crash, QueryFails, CutShort, Die
  <2>2. UNCHANGED likes
    BY <1>7 DEF Crash, QueryFails, CutShort
  <2> QED BY <1>3, <2>1, <2>2
<1>8. CASE ExpireSession(r)
  <2>1. UNCHANGED <<pc, job, likes>>
    BY <1>8 DEF ExpireSession, OutliveSession
  <2> QED BY <1>3, <2>1 DEF Bearing
<1>9. ASSUME pc[r] \notin {"like_count", "like_notify"}, likes' \subseteq likes
      PROVE  LikesAreTold'
  BY <1>3, <1>9
<1>10. CASE LikeFind(r) \/ UnlikeDelete(r) \/ UnlikeCount(r)
  BY <1>9, <1>10 DEF LikeFind, UnlikeDelete, UnlikeCount
<1>11. CASE CommentStep(r)
  BY <1>9, <1>11 DEF CommentStep, CreateFindPost, CreateFindParent, CreateSave,
     CreateCount, CreateNotify, RemoveFind, RemoveFindPost, FindReplies, RemoveDelete,
     RemoveLikes, RemoveCount
<1> QED
  BY <1>4, <1>5, <1>6, <1>7, <1>8, <1>10, <1>11 DEF Step, LikeStep, FaultStep

\* A stored like has told its author, is about to, or was cut short by a
\* fault: the replicas' rivalry loses no notice.
THEOREM LikesTold == Spec => []LikesAreTold
<1>1. Init => LikesAreTold
  BY DEF Init, LikesAreTold
<1>2. BaseInv /\ LikesAreTold /\ [Next]_vars => LikesAreTold'
  <2> SUFFICES ASSUME BaseInv, LikesAreTold, [Next]_vars PROVE LikesAreTold'
    OBVIOUS
  <2>1. ASSUME NEW r \in Replicas, NEW m \in Requests, Begin(r, m) PROVE LikesAreTold'
    <3>1. \A s \in Replicas : pc[s] # "idle" => pc'[s] = pc[s] /\ job'[s] = job[s]
      BY <2>1 DEF Begin, Take, BaseInv, GroupType
    <3> QED BY <2>1, <3>1 DEF Begin, LikesAreTold
  <2>2. ASSUME NEW r \in Replicas, NEW p \in Posts, ChangePost(r, p) PROVE LikesAreTold'
    BY <2>2 DEF ChangePost, group, LikesAreTold
  <2>3. CASE UNCHANGED vars
    BY <2>3 DEF vars, group, LikesAreTold
  <2> QED BY <2>1, <2>2, <2>3, ToldStep DEF Next, Step
<1> QED BY <1>1, <1>2, BaseAlways, PTL DEF Spec

-----------------------------------------------------------------------------
(* The like counters *)

\* Likes stored and likes counted agree, but for those on their way.
Balance(t) ==
    likeCount[t] + Cardinality(At("like_count", t))
        = Cardinality(Likers(t)) + Cardinality(At("unlike_count", t))

\* The inductive invariant: a comment not allocated has no likes, and a
\* removal takes the likes of what it has removed only.
LikeInv ==
    /\ LikesAccounted
    /\ \A l \in likes : Known(l[2])
    /\ \A c \in Comments : commentState[c] = "absent" => likeCount[c] = 0
    /\ \A r \in Replicas : pc[r] = "remove_likes" =>
           \A c \in doomed[r] : commentState[c] = "removed"

\* Standing at an await is a finite matter.
LEMMA AtFinite ==
    ASSUME NEW l, NEW t
    PROVE  /\ IsFiniteSet(At(l, t)) /\ Cardinality(At(l, t)) \in Nat
           /\ IsFiniteSet(At(l, t)') /\ Cardinality(At(l, t)') \in Nat
           /\ IsFiniteSet(Likers(t)) /\ Cardinality(Likers(t)) \in Nat
           /\ IsFiniteSet(Likers(t)') /\ Cardinality(Likers(t)') \in Nat
<1>1. At(l, t) \subseteq Replicas /\ At(l, t)' \subseteq Replicas
  BY DEF At
<1>2. Likers(t) \subseteq Users /\ Likers(t)' \subseteq Users
  BY DEF Likers
<1> QED BY <1>1, <1>2, ReplicasAssumption, FiniteIds, FS_Subset, FS_CardinalityType

\* A move changes who stands at an await by the mover at most.
LEMMA AtMoves ==
    ASSUME GroupType(Labels), NEW r \in Replicas, Moves(r), NEW l, NEW t
    PROVE  /\ (pc[r] = l /\ job[r].on = t) <=> (pc'[r] = l /\ job'[r].on = t) =>
                  Cardinality(At(l, t)') = Cardinality(At(l, t))
           /\ (pc[r] = l /\ job[r].on = t) /\ ~(pc'[r] = l /\ job'[r].on = t) =>
                  Cardinality(At(l, t)') = Cardinality(At(l, t)) - 1
           /\ ~(pc[r] = l /\ job[r].on = t) /\ (pc'[r] = l /\ job'[r].on = t) =>
                  Cardinality(At(l, t)') = Cardinality(At(l, t)) + 1
<1>1. \A s \in Replicas \ {r} : pc'[s] = pc[s] /\ job'[s] = job[s]
  BY OthersUntouched
<1>2. CASE (pc[r] = l /\ job[r].on = t) <=> (pc'[r] = l /\ job'[r].on = t)
  <2>1. At(l, t)' = At(l, t)
    BY <1>1, <1>2 DEF At
  <2> QED BY <1>2, <2>1
<1>3. CASE (pc[r] = l /\ job[r].on = t) /\ ~(pc'[r] = l /\ job'[r].on = t)
  <2>1. At(l, t)' = At(l, t) \ {r} /\ r \in At(l, t)
    BY <1>1, <1>3 DEF At
  <2> QED BY <1>3, <2>1, AtFinite, FS_RemoveElement
<1>4. CASE ~(pc[r] = l /\ job[r].on = t) /\ (pc'[r] = l /\ job'[r].on = t)
  <2>1. At(l, t)' = At(l, t) \cup {r} /\ r \notin At(l, t)
    BY <1>1, <1>4 DEF At
  <2> QED BY <1>4, <2>1, AtFinite, FS_AddElement
<1> QED BY <1>2, <1>3, <1>4

\* Only a comment not yet allocated, or a post, or a comment stored before,
\* is live after a step.
LEMMA LiveBefore ==
    ASSUME BaseInv, NEW r \in Replicas,
           \/ Step(r)
           \/ \E p \in Posts : ChangePost(r, p)
           \/ \E m \in Requests : Begin(r, m),
           NEW t \in Targets, Live(t)'
    PROVE  Live(t) \/ (t \in Comments /\ commentState[t] = "absent")
<1>1. CASE t \in Comments
  <2>1. t \notin Posts
    BY <1>1, NamesAssumption
  <2>2. commentState[t] # "removed"
    <3>1. CASE Step(r)
      BY <1>1, <2>1, <3>1, StepGrows DEF CommentsGrow, Live
    <3>2. CASE UNCHANGED comments
      BY <2>1, <3>2 DEF comments, Live
    <3> QED BY <3>1, <3>2 DEF ChangePost, Begin
  <2> QED BY <1>1, <2>1, <2>2 DEF BaseInv, DataType, Live
<1>2. CASE t \in Posts
  <2>1. CASE UNCHANGED postState
    BY <1>2, <2>1 DEF Live
  <2>2. CASE Step(r)
    BY <2>1, <2>2 DEF Step, LikeStep, LikeFind, LikeSave, LikeCount, LikeNotify,
       UnlikeDelete, UnlikeCount, CommentStep, CreateFindPost, CreateFindParent,
       CreateSave, CreateCount, CreateNotify, RemoveFind, RemoveFindPost, FindReplies,
       RemoveDelete, RemoveLikes, RemoveCount, FaultStep, Crash, ExpireSession,
       QueryFails, CutShort
  <2>3. ASSUME NEW p \in Posts, ChangePost(r, p)
        PROVE  Live(t)
    BY <1>2, <2>3 DEF ChangePost, Live, BaseInv, DataType
  <2> QED BY <2>1, <2>2, <2>3 DEF Begin
<1> QED BY <1>1, <1>2 DEF Targets

\* What is not allocated yet has no like, on its way or stored.
LEMMA AbsentBalance ==
    ASSUME BaseInv, LikeInv, NEW c \in Comments, commentState[c] = "absent"
    PROVE  Balance(c)
<1>1. ~Known(c)
  BY DEF Known
<1>2. At("like_count", c) = {} /\ At("unlike_count", c) = {}
  BY <1>1 DEF BaseInv, JobOK, At, LikeSteps, UnlikeSteps
<1>3. Likers(c) = {}
  BY <1>1 DEF LikeInv, Likers
<1> QED BY <1>2, <1>3, FS_EmptySet DEF LikeInv, Balance

\* A step that neither counts nor stores keeps the balance.
LEMMA QuietBalance ==
    ASSUME BaseInv, NEW r \in Replicas, Moves(r), NEW t \in Targets, Balance(t),
           likeCount'[t] = likeCount[t], Likers(t)' = Likers(t),
           pc[r] \notin {"like_count", "unlike_count"} \/ job[r].on # t,
           pc'[r] \notin {"like_count", "unlike_count"} \/ job'[r].on # t
    PROVE  Balance(t)'
BY AtMoves DEF BaseInv, Balance

\* Every step keeps the balance of a target, unless it cuts its like short.
LEMMA BalanceStep ==
    ASSUME BaseInv, LikeInv, NEW r \in Replicas, Step(r), NEW t \in Targets, Balance(t),
           Live(t) \/ (t \in Comments /\ commentState[t] = "absent"),
           t \notin interrupted'
    PROVE  Balance(t)'
<1> USE DEF BaseInv, DataType
<1>0. Moves(r)
  BY StepMoves
<1>a. /\ Cardinality(At("like_count", t)) \in Nat
      /\ Cardinality(At("unlike_count", t)) \in Nat
      /\ Cardinality(Likers(t)) \in Nat
  BY AtFinite
<1>b. ASSUME pc[r] \in {"like_count", "unlike_count"}, job[r].on = t
      PROVE  Live(t)
  BY <1>b, NamesAssumption DEF JobOK, LikeSteps, UnlikeSteps, Known
<1>1. CASE LikeSave(r)
  <2>1. CASE <<job[r].userId, job[r].on>> \in likes
    <3>1. pc'[r] = "idle" /\ pc[r] = "like_save" /\ UNCHANGED <<likes, likeCount>>
      BY <1>1, <2>1 DEF LikeSave, Finish, Release, GroupType, counts
    <3> QED BY <1>0, <3>1, QuietBalance DEF Likers
  <2>2. CASE <<job[r].userId, job[r].on>> \notin likes
    <3>1. /\ pc[r] = "like_save" /\ pc'[r] = "like_count" /\ job'[r] = job[r]
          /\ likes' = likes \cup {<<job[r].userId, job[r].on>>}
          /\ UNCHANGED likeCount
      BY <1>1, <2>2 DEF LikeSave, Goto, GroupType, counts
    <3>2. job[r].userId \in Users
      BY <3>1, RequestFields DEF JobOK, Working, LikeSteps
    <3>3. CASE job[r].on = t
      <4>1. Likers(t)' = Likers(t) \cup {job[r].userId} /\ job[r].userId \notin Likers(t)
        BY <2>2, <3>1, <3>2, <3>3 DEF Likers
      <4>2. Cardinality(Likers(t)') = Cardinality(Likers(t)) + 1
        <5>1. IsFiniteSet(Likers(t))
          BY AtFinite
        <5> QED BY <4>1, <5>1, FS_AddElement
      <4>3. /\ Cardinality(At("like_count", t)') = Cardinality(At("like_count", t)) + 1
            /\ Cardinality(At("unlike_count", t)') = Cardinality(At("unlike_count", t))
        BY <1>0, <3>1, <3>3, AtMoves
      <4> QED BY <1>a, <3>1, <4>2, <4>3 DEF Balance
    <3>4. CASE job[r].on # t
      <4>1. Likers(t)' = Likers(t)
        BY <3>1, <3>4 DEF Likers
      <4> QED BY <1>0, <3>1, <3>4, <4>1, QuietBalance
    <3> QED BY <3>3, <3>4
  <2> QED BY <2>1, <2>2
<1>2. CASE LikeCount(r)
  <2>1. /\ pc[r] = "like_count" /\ pc'[r] = "like_notify" /\ UNCHANGED likes
        /\ likeCount' = Bumped(likeCount, job[r].on, 1)
    BY <1>2 DEF LikeCount, Goto, GroupType
  <2>2. Likers(t)' = Likers(t)
    BY <2>1 DEF Likers
  <2>3. CASE job[r].on = t
    <3>1. likeCount'[t] = likeCount[t] + 1
      BY <1>b, <2>1, <2>3 DEF Bumped
    <3>2. /\ Cardinality(At("like_count", t)') = Cardinality(At("like_count", t)) - 1
          /\ Cardinality(At("unlike_count", t)') = Cardinality(At("unlike_count", t))
      BY <1>0, <2>1, <2>3, AtMoves
    <3> QED BY <1>a, <2>2, <3>1, <3>2 DEF Balance
  <2>4. CASE job[r].on # t
    <3>1. likeCount'[t] = likeCount[t]
      BY <2>1, <2>4 DEF Bumped
    <3> QED BY <1>0, <2>1, <2>2, <2>4, <3>1, QuietBalance
  <2> QED BY <2>3, <2>4
<1>3. CASE UnlikeDelete(r)
  <2>1. CASE <<job[r].userId, job[r].on>> \in likes
    <3>1. /\ pc[r] \in {"post.unlike", "comment.unlike"} /\ pc'[r] = "unlike_count"
          /\ job'[r] = job[r]
          /\ likes' = likes \ {<<job[r].userId, job[r].on>>}
          /\ UNCHANGED likeCount
      BY <1>3, <2>1 DEF UnlikeDelete, Goto, GroupType, counts
    <3>2. CASE job[r].on = t
      <4>1. PICK u : u = job[r].userId
        OBVIOUS
      <4>2. Cardinality(Likers(t)') = Cardinality(Likers(t)) - 1
        <5>1. Likers(t)' = Likers(t) \ {u} /\ u \in Likers(t)
          BY <2>1, <3>1, <3>2, <4>1 DEF Likers
        <5>2. IsFiniteSet(Likers(t))
          BY AtFinite
        <5>3. Cardinality(Likers(t) \ {u}) = Cardinality(Likers(t)) - 1
          BY <5>1, <5>2, FS_RemoveElement
        <5> QED BY <5>1, <5>3
      <4>3. /\ Cardinality(At("like_count", t)') = Cardinality(At("like_count", t))
            /\ Cardinality(At("unlike_count", t)') = Cardinality(At("unlike_count", t)) + 1
        BY <1>0, <3>1, <3>2, AtMoves
      <4> QED BY <1>a, <3>1, <4>2, <4>3 DEF Balance
    <3>3. CASE job[r].on # t
      <4>1. Likers(t)' = Likers(t)
        BY <3>1, <3>3 DEF Likers
      <4> QED BY <1>0, <3>1, <3>3, <4>1, QuietBalance
    <3> QED BY <3>2, <3>3
  <2>2. CASE <<job[r].userId, job[r].on>> \notin likes
    <3>1. /\ pc'[r] = "idle" /\ pc[r] \in {"post.unlike", "comment.unlike"}
          /\ UNCHANGED <<likes, likeCount>>
      BY <1>3, <2>2 DEF UnlikeDelete, Finish, Release, GroupType, counts
    <3> QED BY <1>0, <3>1, QuietBalance DEF Likers
  <2> QED BY <2>1, <2>2
<1>4. CASE UnlikeCount(r)
  <2>1. /\ pc[r] = "unlike_count" /\ pc'[r] = "idle" /\ UNCHANGED likes
        /\ likeCount' = Bumped(likeCount, job[r].on, -1)
    BY <1>4 DEF UnlikeCount, Finish, Release, GroupType
  <2>2. Likers(t)' = Likers(t)
    BY <2>1 DEF Likers
  <2>3. CASE job[r].on = t
    <3>1. likeCount'[t] = likeCount[t] - 1
      BY <1>b, <2>1, <2>3 DEF Bumped
    <3>2. /\ Cardinality(At("like_count", t)') = Cardinality(At("like_count", t))
          /\ Cardinality(At("unlike_count", t)') = Cardinality(At("unlike_count", t)) - 1
      BY <1>0, <2>1, <2>3, AtMoves
    <3> QED BY <1>a, <2>2, <3>1, <3>2 DEF Balance
  <2>4. CASE job[r].on # t
    <3>1. likeCount'[t] = likeCount[t]
      BY <2>1, <2>4 DEF Bumped
    <3> QED BY <1>0, <2>1, <2>2, <2>4, <3>1, QuietBalance
  <2> QED BY <2>3, <2>4
<1>5. CASE RemoveLikes(r)
  <2>1. /\ pc[r] = "remove_likes" /\ pc'[r] = "remove_count" /\ UNCHANGED likeCount
        /\ likes' = {l \in likes : l[2] \notin doomed[r]}
    BY <1>5 DEF RemoveLikes, Goto, GroupType, counts
  <2>2. t \notin doomed[r]
    <3>1. \A c \in doomed[r] : c \in Comments /\ c \notin Posts /\ commentState[c] = "removed"
      BY <2>1, NamesAssumption DEF LikeInv
    <3> QED BY <3>1 DEF Live
  <2>3. Likers(t)' = Likers(t)
    BY <2>1, <2>2 DEF Likers
  <2> QED BY <1>0, <2>1, <2>3, QuietBalance
<1>6. CASE Crash(r) \/ QueryFails(r)
  <2>1. /\ pc[r] # "idle" /\ pc'[r] = "idle" /\ UNCHANGED <<likes, likeCount>>
        /\ interrupted' = interrupted \cup Unfinished(r)
    BY <1>6 DEF Crash, QueryFails, CutShort, Die, Throw, Release, GroupType, counts
  <2>2. pc[r] \notin {"like_count", "unlike_count"} \/ job[r].on # t
    BY <2>1, UnfinishedType
  <2> QED BY <1>0, <2>1, <2>2, QuietBalance DEF Likers
<1>7. CASE ExpireSession(r)
  <2>1. UNCHANGED <<pc, job, likes, likeCount>>
    BY <1>7 DEF ExpireSession, OutliveSession, counts
  <2> QED BY <2>1 DEF Balance, At, Likers
<1>8. ASSUME pc[r] \notin {"like_count", "unlike_count"},
             pc'[r] \notin {"like_count", "unlike_count"}, UNCHANGED <<likes, likeCount>>
      PROVE  Balance(t)'
  BY <1>0, <1>8, QuietBalance DEF Likers
<1>9. CASE LikeFind(r) \/ LikeNotify(r)
  BY <1>8, <1>9 DEF LikeFind, LikeNotify, Goto, Finish, Release, GroupType, counts
<1>10. CASE CreateFindPost(r) \/ CreateFindParent(r) \/ CreateSave(r) \/ CreateCount(r)
            \/ CreateNotify(r)
  BY <1>8, <1>10 DEF CreateFindPost, CreateFindParent, CreateSave, CreateCount,
     CreateNotify, Goto, Finish, Release, GroupType, counts
<1>11. CASE RemoveFind(r) \/ RemoveFindPost(r) \/ FindReplies(r) \/ RemoveDelete(r)
            \/ RemoveCount(r)
  BY <1>8, <1>11 DEF RemoveFind, RemoveFindPost, FindReplies, RemoveDelete, RemoveCount,
     Goto, Finish, Release, GroupType, counts
<1> QED
  BY <1>1, <1>2, <1>3, <1>4, <1>5, <1>6, <1>7, <1>9, <1>10, <1>11
     DEF Step, LikeStep, CommentStep, FaultStep

\* Every step keeps the rest of the invariant.
LEMMA LikeGroundStep ==
    ASSUME BaseInv, LikeInv, NEW r \in Replicas, Step(r)
    PROVE  /\ \A l \in likes' : Known(l[2])'
           /\ \A c \in Comments : commentState'[c] = "absent" => likeCount'[c] = 0
           /\ \A s \in Replicas : pc'[s] = "remove_likes" =>
                  \A c \in doomed'[s] : commentState'[c] = "removed"
<1> USE DEF BaseInv, DataType
<1>0. Moves(r) /\ CommentsGrow
  BY StepMoves, StepGrows
<1>1. \A l \in likes' : Known(l[2])'
  <2>1. \A l \in likes' : Known(l[2])
    <3>1. CASE LikeSave(r)
      BY <3>1 DEF LikeSave, LikeInv, JobOK, LikeSteps
    <3>2. CASE likes' \subseteq likes
      BY <3>2 DEF LikeInv
    <3> QED
      BY <3>1, <3>2 DEF Step, LikeStep, LikeFind, LikeCount, LikeNotify, UnlikeDelete,
         UnlikeCount, CommentStep, CreateFindPost, CreateFindParent, CreateSave,
         CreateCount, CreateNotify, RemoveFind, RemoveFindPost, FindReplies,
         RemoveDelete, RemoveLikes, RemoveCount, FaultStep, Crash, ExpireSession,
         QueryFails, CutShort
  <2> QED BY <1>0, <2>1 DEF Known, CommentsGrow
<1>2. \A c \in Comments : commentState'[c] = "absent" => likeCount'[c] = 0
  <2>1. \A c \in Comments : commentState[c] = "absent" => ~Live(c)
    BY NamesAssumption DEF Live
  <2>2. \A c \in Comments : ~Live(c) => likeCount'[c] = likeCount[c]
    <3>1. CASE LikeCount(r)
      BY <3>1 DEF LikeCount, Bumped
    <3>2. CASE UnlikeCount(r)
      BY <3>2 DEF UnlikeCount, Bumped
    <3>3. CASE UNCHANGED likeCount
      BY <3>3
    <3> QED
      BY <3>1, <3>2, <3>3 DEF Step, LikeStep, LikeFind, LikeSave, LikeNotify,
         UnlikeDelete, CommentStep, CreateFindPost, CreateFindParent, CreateSave,
         CreateCount, CreateNotify, RemoveFind, RemoveFindPost, FindReplies,
         RemoveDelete, RemoveLikes, RemoveCount, FaultStep, Crash, ExpireSession,
         QueryFails, CutShort, counts
  <2>3. \A c \in Comments : commentState'[c] = "absent" => commentState[c] = "absent"
    BY <1>0 DEF CommentsGrow
  <2> QED BY <2>1, <2>2, <2>3 DEF LikeInv
<1>3. ASSUME NEW s \in Replicas, pc'[s] = "remove_likes", NEW c \in doomed'[s]
      PROVE  commentState'[c] = "removed"
  <2>1. CASE pc[s] = "remove_likes" /\ doomed'[s] = doomed[s]
    BY <1>0, <1>3, <2>1 DEF LikeInv, CommentsGrow
  <2>2. CASE RemoveDelete(r) /\ s = r
    BY <1>3, <2>2 DEF RemoveDelete
  <2>3. CASE s # r
    <3>1. doomed'[s] = doomed[s]
      <4>1. UNCHANGED doomed \/ \E d : doomed' = [doomed EXCEPT ![r] = d]
        BY DEF Step, LikeStep, LikeFind, LikeSave, LikeCount, LikeNotify, UnlikeDelete,
           UnlikeCount, CommentStep, CreateFindPost, CreateFindParent, CreateSave,
           CreateCount, CreateNotify, RemoveFind, RemoveFindPost, FindReplies,
           RemoveDelete, RemoveLikes, RemoveCount, FaultStep, Crash, ExpireSession,
           QueryFails, CutShort
      <4> QED BY <2>3, <4>1
    <3> QED BY <1>0, <1>3, <2>1, <2>3, <3>1, OthersUntouched
  <2>4. CASE s = r /\ ~RemoveDelete(r)
    <3>1. pc'[r] = "remove_likes"
      BY <1>3, <2>4
    <3>2. ExpireSession(r)
      BY <2>4, <3>1 DEF Step, LikeStep, LikeFind, LikeSave, LikeCount, LikeNotify,
         UnlikeDelete, UnlikeCount, CommentStep, CreateFindPost, CreateFindParent,
         CreateSave, CreateCount, CreateNotify, RemoveFind, RemoveFindPost, FindReplies,
         RemoveLikes, RemoveCount, FaultStep, Crash, QueryFails, Die, Throw, Release,
         Finish, Goto, GroupType
    <3>3. UNCHANGED <<pc, doomed>>
      BY <3>2 DEF ExpireSession, OutliveSession
    <3> QED BY <2>1, <2>4, <3>1, <3>3
  <2> QED BY <2>2, <2>3, <2>4
<1> QED BY <1>1, <1>2, <1>3

\* A handler taken up, or a post changed, keeps the invariant.
LEMMA LikeOthers ==
    ASSUME BaseInv, LikeInv, NEW r \in Replicas,
           (\E m \in Requests : Begin(r, m)) \/ (\E p \in Posts : ChangePost(r, p))
    PROVE  LikeInv'
<1> USE DEF BaseInv, counts, comments, group
<1>1. /\ UNCHANGED <<comments, likes, counts, doomed, interrupted>>
      /\ \A s \in Replicas : pc[s] # "idle" => pc'[s] = pc[s] /\ job'[s] = job[s]
      /\ \A s \in Replicas : pc[s] = "idle" =>
             pc'[s] \notin {"like_count", "unlike_count", "remove_likes"}
  BY RequestFields DEF Begin, ChangePost, Take, GroupType
<1>2. ASSUME NEW t \in Targets
      PROVE  Balance(t) => Balance(t)'
  <2>1. /\ At("like_count", t)' = At("like_count", t)
        /\ At("unlike_count", t)' = At("unlike_count", t)
    BY <1>1 DEF At
  <2> QED BY <1>1, <2>1 DEF Balance, Likers
<1>3. LikesAccounted'
  <2> SUFFICES ASSUME NEW t \in Targets, Live(t)', t \notin interrupted'
               PROVE  Balance(t)'
    BY DEF LikesAccounted, Balance
  <2> QED BY <1>1, <1>2, LiveBefore, AbsentBalance DEF LikeInv, LikesAccounted, Balance
<1> QED BY <1>1, <1>3 DEF LikeInv, Known

\* A like counter is exact but for the likes and unlikes on their way: no
\* rivalry of replicas corrupts it, only a fault between a like and its count.
THEOREM LikesCounted == Spec => []LikesAccounted
<1>1. Init => LikeInv
  <2> SUFFICES ASSUME Init PROVE LikeInv
    OBVIOUS
  <2>1. \A t \in Targets : /\ At("like_count", t) = {} /\ At("unlike_count", t) = {}
                           /\ Likers(t) = {}
    BY DEF Init, GroupInit, At, Likers
  <2> QED BY <2>1, FS_EmptySet DEF Init, GroupInit, LikeInv, LikesAccounted, Targets
<1>2. BaseInv /\ LikeInv /\ [Next]_vars => LikeInv'
  <2> SUFFICES ASSUME BaseInv, LikeInv, [Next]_vars PROVE LikeInv'
    OBVIOUS
  <2>1. ASSUME NEW r \in Replicas, Step(r) PROVE LikeInv'
    <3>1. interrupted \subseteq interrupted'
      BY <2>1, InterruptedGrows
    <3>2. ASSUME NEW t \in Targets, Live(t)', t \notin interrupted'
          PROVE  Balance(t)'
      <4>1. Live(t) \/ (t \in Comments /\ commentState[t] = "absent")
        BY <2>1, <3>2, LiveBefore
      <4>2. Balance(t)
        BY <3>1, <3>2, <4>1, AbsentBalance DEF LikeInv, LikesAccounted, Balance
      <4> QED BY <2>1, <3>2, <4>1, <4>2, BalanceStep
    <3>3. LikesAccounted'
      BY <3>2 DEF LikesAccounted, Balance
    <3> QED BY <2>1, <3>3, LikeGroundStep DEF LikeInv
  <2>2. CASE UNCHANGED vars
    BY <2>2 DEF vars, group, counts, comments, LikeInv, LikesAccounted, Live, At, Likers,
       Known
  <2> QED BY <2>1, <2>2, LikeOthers DEF Next, Step
<1> QED BY <1>1, <1>2, BaseAlways, PTL DEF Spec, LikeInv

-----------------------------------------------------------------------------
(* The comment counters *)

\* A target counts no more comments than it has and is about to lose.
Within(t) ==
    childCount[t] + Cardinality(Arriving(t)) - Cardinality(Leaving(t))
        <= Cardinality(Children(t))

\* Nor less, which only a service of one replica can promise.
Exactly(t) ==
    childCount[t] + Cardinality(Arriving(t)) - Cardinality(Leaving(t))
        = Cardinality(Children(t))

\* The inductive invariant: a comment not allocated counts no replies.
ChildInv ==
    /\ NeverOvercounted
    /\ \A c \in Comments : commentState[c] = "absent" => childCount[c] = 0

\* Two sets of replicas that differ in one of them.
LEMMA OneMoves ==
    ASSUME NEW A \in SUBSET Replicas, NEW B \in SUBSET Replicas, NEW r \in Replicas,
           \A s \in Replicas \ {r} : s \in A <=> s \in B
    PROVE  /\ Cardinality(A) \in Nat /\ Cardinality(B) \in Nat
           /\ (r \in A <=> r \in B) => Cardinality(B) = Cardinality(A)
           /\ r \in A /\ r \notin B => Cardinality(B) = Cardinality(A) - 1
           /\ r \notin A /\ r \in B => Cardinality(B) = Cardinality(A) + 1
<1>1. IsFiniteSet(A) /\ Cardinality(A) \in Nat /\ Cardinality(B) \in Nat
  BY ReplicasAssumption, FS_Subset, FS_CardinalityType
<1>2. CASE r \in A <=> r \in B
  <2>1. A = B
    BY <1>2
  <2> QED BY <1>1, <1>2, <2>1
<1>3. CASE r \in A /\ r \notin B
  <2>1. B = A \ {r}
    BY <1>3
  <2> QED BY <1>1, <1>3, <2>1, FS_RemoveElement
<1>4. CASE r \notin A /\ r \in B
  <2>1. B = A \cup {r}
    BY <1>4
  <2> QED BY <1>1, <1>4, <2>1, FS_AddElement
<1> QED BY <1>2, <1>3, <1>4

\* A finite set without one thing.
LEMMA OneLess ==
    ASSUME NEW S, IsFiniteSet(S), NEW x
    PROVE  /\ Cardinality(S \ {x}) >= Cardinality(S) - 1
           /\ x \in S => Cardinality(S \ {x}) = Cardinality(S) - 1
<1>1. Cardinality(S) \in Nat
  BY FS_CardinalityType
<1>2. CASE x \in S
  BY <1>1, <1>2, FS_RemoveElement
<1>3. CASE x \notin S
  <2>1. S \ {x} = S
    BY <1>3
  <2> QED BY <1>1, <1>3, <2>1
<1> QED BY <1>2, <1>3

\* A target's comments are finitely many.
LEMMA ChildrenFinite ==
    ASSUME NEW t
    PROVE  /\ IsFiniteSet(Children(t)) /\ Cardinality(Children(t)) \in Nat
           /\ IsFiniteSet(Children(t)') /\ Cardinality(Children(t)') \in Nat
<1>1. Children(t) \subseteq Comments /\ Children(t)' \subseteq Comments
  BY DEF Children
<1> QED BY <1>1, FiniteIds, FS_Subset, FS_CardinalityType

\* The message a removal works from, and what its comment hangs from.
LEMMA RemovalFields ==
    ASSUME BaseInv, NEW s \in Replicas, pc[s] \in RemoveSteps
    PROVE  /\ job[s].commentId \in Comments
           /\ commentState[job[s].commentId] # "absent"
           /\ Known(Above(doc[job[s].commentId]))
<1>1. job[s].commentId \in Comments /\ commentState[job[s].commentId] # "absent"
  BY RequestFields DEF BaseInv, JobOK, Working, RemoveSteps, Known
<1> QED BY <1>1, RequestFields, NamesAssumption DEF BaseInv, DocsOK, CommentMessage, Above,
    Known

\* A comment on its way hangs from something known.
LEMMA ArrivalFields ==
    ASSUME BaseInv, NEW s \in Replicas, pc[s] \in CreateSteps
    PROVE  Known(Above(job[s]))
BY RequestFields, NamesAssumption DEF BaseInv, JobOK, CommentMessage, Above, Known

\* A step leaves the other replicas where they arrive and leave.
LEMMA OthersStay ==
    ASSUME BaseInv, NEW r \in Replicas, Moves(r), CommentsGrow, NEW t,
           NEW s \in Replicas \ {r}
    PROVE  /\ s \in Arriving(t) <=> s \in Arriving(t)'
           /\ s \in Leaving(t) <=> s \in Leaving(t)'
<1>1. pc'[s] = pc[s] /\ job'[s] = job[s]
  BY OthersUntouched DEF BaseInv
<1>2. s \in Arriving(t) <=> s \in Arriving(t)'
  BY <1>1 DEF Arriving, Above
<1>3. pc[s] \in {"remove_likes", "remove_count"} =>
          doc'[job[s].commentId] = doc[job[s].commentId]
  BY RemovalFields DEF RemoveSteps, CommentsGrow
<1> QED BY <1>1, <1>2, <1>3 DEF Leaving, Above

\* What moves in a target's count when one replica moves.
LEMMA WithinMoves ==
    ASSUME BaseInv, NEW r \in Replicas, Moves(r), CommentsGrow, NEW t
    PROVE  /\ Cardinality(Arriving(t)) \in Nat /\ Cardinality(Leaving(t)) \in Nat
           /\ (r \in Arriving(t) <=> r \in Arriving(t)') =>
                  Cardinality(Arriving(t)') = Cardinality(Arriving(t))
           /\ r \in Arriving(t) /\ r \notin Arriving(t)' =>
                  Cardinality(Arriving(t)') = Cardinality(Arriving(t)) - 1
           /\ r \notin Arriving(t) /\ r \in Arriving(t)' =>
                  Cardinality(Arriving(t)') = Cardinality(Arriving(t)) + 1
           /\ (r \in Leaving(t) <=> r \in Leaving(t)') =>
                  Cardinality(Leaving(t)') = Cardinality(Leaving(t))
           /\ r \in Leaving(t) /\ r \notin Leaving(t)' =>
                  Cardinality(Leaving(t)') = Cardinality(Leaving(t)) - 1
           /\ r \notin Leaving(t) /\ r \in Leaving(t)' =>
                  Cardinality(Leaving(t)') = Cardinality(Leaving(t)) + 1
<1>1. /\ Arriving(t) \subseteq Replicas /\ Arriving(t)' \subseteq Replicas
      /\ Leaving(t) \subseteq Replicas /\ Leaving(t)' \subseteq Replicas
  BY DEF Arriving, Leaving
<1>2. /\ Cardinality(Arriving(t)) \in Nat
      /\ (r \in Arriving(t) <=> r \in Arriving(t)') =>
             Cardinality(Arriving(t)') = Cardinality(Arriving(t))
      /\ r \in Arriving(t) /\ r \notin Arriving(t)' =>
             Cardinality(Arriving(t)') = Cardinality(Arriving(t)) - 1
      /\ r \notin Arriving(t) /\ r \in Arriving(t)' =>
             Cardinality(Arriving(t)') = Cardinality(Arriving(t)) + 1
  <2>1. PICK A, B : A = Arriving(t) /\ B = Arriving(t)'
    OBVIOUS
  <2>2. A \in SUBSET Replicas /\ B \in SUBSET Replicas
    BY <1>1, <2>1
  <2>3. ASSUME NEW s \in Replicas \ {r}
        PROVE  s \in A <=> s \in B
    BY <2>1, <2>3, OthersStay
  <2>4. /\ Cardinality(A) \in Nat
        /\ (r \in A <=> r \in B) => Cardinality(B) = Cardinality(A)
        /\ r \in A /\ r \notin B => Cardinality(B) = Cardinality(A) - 1
        /\ r \notin A /\ r \in B => Cardinality(B) = Cardinality(A) + 1
    BY <2>2, <2>3, OneMoves
  <2> QED BY <2>1, <2>4
<1>3. /\ Cardinality(Leaving(t)) \in Nat
      /\ (r \in Leaving(t) <=> r \in Leaving(t)') =>
             Cardinality(Leaving(t)') = Cardinality(Leaving(t))
      /\ r \in Leaving(t) /\ r \notin Leaving(t)' =>
             Cardinality(Leaving(t)') = Cardinality(Leaving(t)) - 1
      /\ r \notin Leaving(t) /\ r \in Leaving(t)' =>
             Cardinality(Leaving(t)') = Cardinality(Leaving(t)) + 1
  <2>1. PICK A, B : A = Leaving(t) /\ B = Leaving(t)'
    OBVIOUS
  <2>2. A \in SUBSET Replicas /\ B \in SUBSET Replicas
    BY <1>1, <2>1
  <2>3. ASSUME NEW s \in Replicas \ {r}
        PROVE  s \in A <=> s \in B
    BY <2>1, <2>3, OthersStay
  <2>4. /\ Cardinality(A) \in Nat
        /\ (r \in A <=> r \in B) => Cardinality(B) = Cardinality(A)
        /\ r \in A /\ r \notin B => Cardinality(B) = Cardinality(A) - 1
        /\ r \notin A /\ r \in B => Cardinality(B) = Cardinality(A) + 1
    BY <2>2, <2>3, OneMoves
  <2> QED BY <2>1, <2>4
<1> QED BY <1>2, <1>3

\* A step that neither counts nor stores nor removes a comment of the target.
LEMMA QuietWithin ==
    ASSUME BaseInv, NEW r \in Replicas, Moves(r), CommentsGrow, NEW t,
           childCount'[t] = childCount[t], Children(t)' = Children(t),
           r \in Arriving(t) <=> r \in Arriving(t)',
           r \in Leaving(t) <=> r \in Leaving(t)'
    PROVE  (Within(t) => Within(t)') /\ (Exactly(t) => Exactly(t)')
BY WithinMoves DEF Within, Exactly

\* What is not allocated yet counts nothing.
LEMMA AbsentWithin ==
    ASSUME BaseInv, ChildInv, NEW c \in Comments, commentState[c] = "absent"
    PROVE  Within(c) /\ Exactly(c)
<1>1. Arriving(c) = {}
  BY ArrivalFields DEF Arriving, CreateSteps, Known
<1>2. Leaving(c) = {}
  BY RemovalFields DEF Leaving, RemoveSteps, Known
<1>3. Cardinality(Arriving(c)) = 0 /\ Cardinality(Leaving(c)) = 0
  BY <1>1, <1>2, FS_EmptySet
<1>4. Children(c) = {}
  <2>1. ASSUME NEW d \in Comments, commentState[d] = "stored"
        PROVE  Known(Above(doc[d]))
    BY <2>1, RequestFields, NamesAssumption DEF BaseInv, DocsOK, CommentMessage, Above,
       Known
  <2> QED BY <2>1 DEF Children, Known
<1>5. childCount[c] = 0 /\ Cardinality(Children(c)) = 0
  BY <1>4, FS_EmptySet DEF ChildInv
<1> QED BY <1>3, <1>5 DEF Within, Exactly

\* Every step keeps a target within its count, unless it cuts a comment short;
\* and exact, if what it deletes was still there.
LEMMA WithinStep ==
    ASSUME BaseInv, ChildInv, NEW r \in Replicas, Step(r), NEW t \in Targets,
           Live(t)', Live(t) \/ (t \in Comments /\ commentState[t] = "absent"),
           t \notin interrupted'
    PROVE  /\ Within(t) => Within(t)'
           /\ (pc[r] = "remove_delete" => commentState[job[r].commentId] = "stored") =>
                  (Exactly(t) => Exactly(t)')
<1> USE DEF BaseInv, DataType
<1>0. Moves(r) /\ CommentsGrow
  BY StepMoves, StepGrows
<1>a. /\ Cardinality(Arriving(t)) \in Nat /\ Cardinality(Leaving(t)) \in Nat
      /\ Cardinality(Children(t)) \in Nat /\ Cardinality(Children(t)') \in Nat
  BY <1>0, WithinMoves, ChildrenFinite
<1>b. Known(t) => Live(t)
  BY DEF Known
<1>1. CASE CreateSave(r)
  <2>1. PICK c \in Comments :
            /\ commentState[c] = "absent"
            /\ commentState' = [commentState EXCEPT ![c] = "stored"]
            /\ doc' = [doc EXCEPT ![c] = job[r]]
    BY <1>1 DEF CreateSave
  <2>2. /\ pc[r] = "create_save" /\ pc'[r] = "create_count" /\ job'[r] = job[r]
        /\ UNCHANGED childCount
    BY <1>1 DEF CreateSave, Goto, GroupType, counts
  <2>3. r \notin Arriving(t) /\ r \notin Leaving(t) /\ r \notin Leaving(t)'
    BY <2>2 DEF Arriving, Leaving
  <2>4. CASE Above(job[r]) = t
    <3>1. r \in Arriving(t)'
      BY <2>2, <2>4 DEF Arriving, Above
    <3>2. Children(t)' = Children(t) \cup {c} /\ c \notin Children(t)
      BY <2>1, <2>4 DEF Children, Above
    <3>3. Cardinality(Children(t)') = Cardinality(Children(t)) + 1
      <4>1. IsFiniteSet(Children(t))
        BY ChildrenFinite
      <4> QED BY <3>2, <4>1, FS_AddElement
    <3> QED BY <1>0, <1>a, <2>2, <2>3, <3>1, <3>3, WithinMoves
           DEF Within, Exactly
  <2>5. CASE Above(job[r]) # t
    <3>1. r \notin Arriving(t)'
      BY <2>2, <2>5 DEF Arriving, Above
    <3>2. Children(t)' = Children(t)
      BY <2>1, <2>5 DEF Children, Above
    <3> QED BY <1>0, <2>2, <2>3, <3>1, <3>2, QuietWithin
  <2> QED BY <2>4, <2>5
<1>2. CASE CreateCount(r)
  <2>1. /\ pc[r] = "create_count" /\ pc'[r] = "create_notify" /\ job'[r] = job[r]
        /\ childCount' = Bumped(childCount, Above(job[r]), 1)
        /\ UNCHANGED comments
    BY <1>2 DEF CreateCount, Goto, GroupType
  <2>2. /\ r \notin Arriving(t)' /\ r \notin Leaving(t) /\ r \notin Leaving(t)'
        /\ Children(t)' = Children(t)
    BY <2>1 DEF Arriving, Leaving, Children, Above, comments
  <2>3. CASE Above(job[r]) = t
    <3>1. Live(t)
      BY <1>b, <2>1, <2>3, ArrivalFields DEF CreateSteps
    <3>2. childCount'[t] = childCount[t] + 1 /\ r \in Arriving(t)
      BY <2>1, <2>3, <3>1 DEF Bumped, Arriving
    <3> QED BY <1>0, <1>a, <2>2, <3>2, WithinMoves
           DEF Within, Exactly
  <2>4. CASE Above(job[r]) # t
    <3>1. childCount'[t] = childCount[t] /\ r \notin Arriving(t)
      BY <2>1, <2>4 DEF Bumped, Arriving
    <3> QED BY <1>0, <2>2, <3>1, QuietWithin
  <2> QED BY <2>3, <2>4
<1>3. CASE RemoveDelete(r)
  <2> DEFINE cid == job[r].commentId
  <2>1. /\ pc[r] = "remove_delete" /\ pc'[r] = "remove_likes" /\ job'[r] = job[r]
        /\ commentState' = [c \in Comments |->
               IF c \in doomed[r] THEN "removed" ELSE commentState[c]]
        /\ UNCHANGED <<doc, childCount>>
    BY <1>3 DEF RemoveDelete, Goto, GroupType, counts
  <2>2. /\ cid \in doomed[r]
        /\ \A c \in doomed[r] : c # cid => Above(doc[c]) = cid
    BY <2>1 DEF DoomedOK, Listed, ListSteps
  <2>3. t # cid
    BY <2>1, <2>2, NamesAssumption DEF Live
  <2>4. /\ r \notin Arriving(t) /\ r \notin Arriving(t)' /\ r \notin Leaving(t)
        /\ r \in Leaving(t)' <=> Above(doc[cid]) = t
    BY <2>1 DEF Arriving, Leaving, Above
  <2>5. Children(t)' = Children(t) \ {cid}
    BY <2>1, <2>2, <2>3 DEF Children, Above
  <2>6. CASE Above(doc[cid]) = t
    <3>1. /\ Cardinality(Children(t)') >= Cardinality(Children(t)) - 1
          /\ commentState[cid] = "stored" =>
                 Cardinality(Children(t)') = Cardinality(Children(t)) - 1
      <4>1. PICK S, c : S = Children(t) /\ c = cid
        OBVIOUS
      <4>2. IsFiniteSet(S) /\ Cardinality(S) \in Nat
        BY <4>1, ChildrenFinite
      <4>3. /\ Cardinality(S \ {c}) >= Cardinality(S) - 1
            /\ c \in S => Cardinality(S \ {c}) = Cardinality(S) - 1
        BY <4>2, OneLess
      <4>4. commentState[cid] = "stored" => cid \in Children(t)
        BY <2>1, <2>6, RemovalFields DEF Children, RemoveSteps
      <4> QED BY <2>5, <4>1, <4>3, <4>4
    <3> QED BY <1>0, <1>a, <2>1, <2>4, <2>6, <3>1, WithinMoves
           DEF Within, Exactly
  <2>7. CASE Above(doc[cid]) # t
    <3>1. Children(t)' = Children(t)
      BY <2>5, <2>7 DEF Children
    <3> QED BY <1>0, <2>1, <2>4, <2>7, <3>1, QuietWithin
  <2> QED BY <2>6, <2>7
<1>4. CASE RemoveLikes(r)
  <2>1. /\ pc[r] = "remove_likes" /\ pc'[r] = "remove_count" /\ job'[r] = job[r]
        /\ UNCHANGED <<commentState, doc, childCount>>
    BY <1>4 DEF RemoveLikes, Goto, GroupType, counts, comments
  <2>2. /\ r \notin Arriving(t) /\ r \notin Arriving(t)'
        /\ r \in Leaving(t) <=> r \in Leaving(t)'
        /\ Children(t)' = Children(t)
    BY <2>1 DEF Arriving, Leaving, Children, Above
  <2> QED BY <1>0, <2>1, <2>2, QuietWithin
<1>5. CASE RemoveCount(r)
  <2>1. /\ pc[r] = "remove_count" /\ pc'[r] = "idle"
        /\ childCount' = Bumped(childCount, Above(doc[job[r].commentId]), -1)
        /\ UNCHANGED comments
    BY <1>5 DEF RemoveCount, Finish, Release, GroupType
  <2>2. /\ r \notin Arriving(t) /\ r \notin Arriving(t)' /\ r \notin Leaving(t)'
        /\ Children(t)' = Children(t)
    BY <2>1 DEF Arriving, Leaving, Children, Above, comments
  <2>3. CASE Above(doc[job[r].commentId]) = t
    <3>1. Live(t)
      BY <1>b, <2>1, <2>3, RemovalFields DEF RemoveSteps
    <3>2. childCount'[t] = childCount[t] - 1 /\ r \in Leaving(t)
      BY <2>1, <2>3, <3>1 DEF Bumped, Leaving
    <3> QED BY <1>0, <1>a, <2>2, <3>2, WithinMoves
           DEF Within, Exactly
  <2>4. CASE Above(doc[job[r].commentId]) # t
    <3>1. childCount'[t] = childCount[t] /\ r \notin Leaving(t)
      BY <2>1, <2>4 DEF Bumped, Leaving
    <3> QED BY <1>0, <2>2, <3>1, QuietWithin
  <2> QED BY <2>3, <2>4
<1>6. CASE Crash(r) \/ QueryFails(r)
  <2>1. /\ pc[r] # "idle" /\ pc'[r] = "idle"
        /\ UNCHANGED <<commentState, doc, childCount>>
        /\ interrupted' = interrupted \cup Unfinished(r)
    BY <1>6 DEF Crash, QueryFails, CutShort, Die, Throw, Release, GroupType, counts,
       comments
  <2>2. /\ r \notin Arriving(t) /\ r \notin Arriving(t)'
        /\ r \notin Leaving(t) /\ r \notin Leaving(t)'
        /\ Children(t)' = Children(t)
    BY <2>1, UnfinishedType DEF Arriving, Leaving, Children, Above
  <2> QED BY <1>0, <2>1, <2>2, QuietWithin
<1>7. CASE ExpireSession(r)
  <2>1. UNCHANGED <<pc, job, commentState, doc, childCount>>
    BY <1>7 DEF ExpireSession, OutliveSession, counts, comments
  <2> QED BY <2>1 DEF Within, Exactly, Arriving, Leaving, Children, Above
<1>8. ASSUME pc[r] \notin {"create_count", "remove_likes", "remove_count"},
             pc'[r] \notin {"create_count", "remove_likes", "remove_count"},
             UNCHANGED <<commentState, doc, childCount>>
      PROVE  (Within(t) => Within(t)') /\ (Exactly(t) => Exactly(t)')
  <2>1. /\ r \notin Arriving(t) /\ r \notin Arriving(t)'
        /\ r \notin Leaving(t) /\ r \notin Leaving(t)'
        /\ Children(t)' = Children(t)
    BY <1>8 DEF Arriving, Leaving, Children, Above
  <2> QED BY <1>0, <1>8, <2>1, QuietWithin
<1>9. CASE LikeStep(r)
  BY <1>8, <1>9 DEF LikeStep, LikeFind, LikeSave, LikeCount, LikeNotify, UnlikeDelete,
     UnlikeCount, Goto, Finish, Release, GroupType, counts, comments
<1>10. CASE CreateFindPost(r) \/ CreateFindParent(r) \/ CreateNotify(r)
  BY <1>8, <1>10 DEF CreateFindPost, CreateFindParent, CreateNotify, Goto, Finish,
     Release, GroupType, counts, comments
<1>11. CASE RemoveFind(r) \/ RemoveFindPost(r) \/ FindReplies(r)
  BY <1>8, <1>11 DEF RemoveFind, RemoveFindPost, FindReplies, Goto, Finish, Release,
     GroupType, counts, comments
<1> QED
  BY <1>1, <1>2, <1>3, <1>4, <1>5, <1>6, <1>7, <1>9, <1>10, <1>11
     DEF Step, CommentStep, FaultStep

\* A comment is not allocated before it is stored, and nothing is counted for
\* it before that.
LEMMA AbsentUncounted ==
    ASSUME BaseInv, ChildInv, NEW r \in Replicas, Step(r)
    PROVE  \A c \in Comments : commentState'[c] = "absent" => childCount'[c] = 0
<1> USE DEF BaseInv, DataType
<1>1. \A c \in Comments : commentState[c] = "absent" => ~Live(c)
  BY NamesAssumption DEF Live
<1>2. \A c \in Comments : ~Live(c) => childCount'[c] = childCount[c]
  <2>1. CASE CreateCount(r)
    BY <2>1 DEF CreateCount, Bumped
  <2>2. CASE RemoveCount(r)
    BY <2>2 DEF RemoveCount, Bumped
  <2>3. CASE UNCHANGED childCount
    BY <2>3
  <2> QED
    BY <2>1, <2>2, <2>3 DEF Step, LikeStep, LikeFind, LikeSave, LikeCount, LikeNotify,
       UnlikeDelete, UnlikeCount, CommentStep, CreateFindPost, CreateFindParent,
       CreateSave, CreateNotify, RemoveFind, RemoveFindPost, FindReplies, RemoveDelete,
       RemoveLikes, FaultStep, Crash, ExpireSession, QueryFails, CutShort, counts
<1>3. \A c \in Comments : commentState'[c] = "absent" => commentState[c] = "absent"
  BY StepGrows DEF CommentsGrow
<1> QED BY <1>1, <1>2, <1>3 DEF ChildInv

\* A handler taken up, or a post changed, disturbs no counting under way.
LEMMA OthersBusy ==
    ASSUME BaseInv, NEW r \in Replicas,
           (\E m \in Requests : Begin(r, m)) \/ (\E p \in Posts : ChangePost(r, p)),
           NEW s \in Replicas
    PROVE  LET Busy == {"create_count", "remove_likes", "remove_count"} IN
           /\ pc[s] \in Busy => pc'[s] = pc[s] /\ job'[s] = job[s]
           /\ pc'[s] \in Busy => pc'[s] = pc[s] /\ job'[s] = job[s]
BY RequestFields DEF Begin, ChangePost, Take, GroupType, BaseInv, group

\* So it keeps the invariant.
LEMMA ChildOthers ==
    ASSUME BaseInv, ChildInv, NEW r \in Replicas,
           (\E m \in Requests : Begin(r, m)) \/ (\E p \in Posts : ChangePost(r, p))
    PROVE  ChildInv'
<1> USE DEF BaseInv, counts, comments, group
<1>1. UNCHANGED <<comments, counts, interrupted>>
  BY DEF Begin, ChangePost
<1>2. ASSUME NEW t \in Targets
      PROVE  Within(t) => Within(t)'
  <2>1. Arriving(t)' = Arriving(t) /\ Leaving(t)' = Leaving(t)
    BY <1>1, OthersBusy DEF Arriving, Leaving, Above
  <2> QED BY <1>1, <2>1 DEF Within, Children, Above
<1>3. NeverOvercounted'
  <2> SUFFICES ASSUME NEW t \in Targets, Live(t)', t \notin interrupted'
               PROVE  Within(t)'
    BY DEF NeverOvercounted, Within
  <2> QED BY <1>1, <1>2, LiveBefore, AbsentWithin DEF ChildInv, NeverOvercounted, Within
<1> QED BY <1>1, <1>3 DEF ChildInv

\* The inductive invariant holds throughout.
LEMMA ChildAlways == Spec => []ChildInv
<1>1. Init => ChildInv
  <2> SUFFICES ASSUME Init PROVE ChildInv
    OBVIOUS
  <2>1. \A t \in Targets : Arriving(t) = {} /\ Leaving(t) = {} /\ Children(t) = {}
    BY DEF Init, GroupInit, Arriving, Leaving, Children
  <2> QED BY <2>1, FS_EmptySet DEF Init, ChildInv, NeverOvercounted, Targets
<1>2. BaseInv /\ ChildInv /\ [Next]_vars => ChildInv'
  <2> SUFFICES ASSUME BaseInv, ChildInv, [Next]_vars PROVE ChildInv'
    OBVIOUS
  <2>1. ASSUME NEW r \in Replicas, Step(r) PROVE ChildInv'
    <3>1. interrupted \subseteq interrupted'
      BY <2>1, InterruptedGrows
    <3>2. ASSUME NEW t \in Targets, Live(t)', t \notin interrupted'
          PROVE  Within(t)'
      <4>1. Live(t) \/ (t \in Comments /\ commentState[t] = "absent")
        BY <2>1, <3>2, LiveBefore
      <4>2. Within(t)
        BY <3>1, <3>2, <4>1, AbsentWithin DEF ChildInv, NeverOvercounted, Within
      <4> QED BY <2>1, <3>2, <4>1, <4>2, WithinStep
    <3>3. NeverOvercounted'
      BY <3>2 DEF NeverOvercounted, Within
    <3> QED BY <2>1, <3>3, AbsentUncounted DEF ChildInv
  <2>2. CASE UNCHANGED vars
    BY <2>2 DEF vars, group, counts, comments, ChildInv, NeverOvercounted, Live, Arriving,
       Leaving, Children, Above
  <2> QED BY <2>1, <2>2, ChildOthers DEF Next, Step
<1> QED BY <1>1, <1>2, BaseAlways, PTL DEF Spec

\* No post or comment ever claims more comments than it has: a removal done
\* twice, or a redelivered creation, errs on the low side only.
THEOREM CommentsNeverOvercounted == Spec => []NeverOvercounted
BY ChildAlways, PTL DEF ChildInv

-----------------------------------------------------------------------------
(* One replica: what a handler read is still so when it writes              *)

\* Between the check of a handler and the write it guards.
SerialAt(r) ==
    LET c == job[r].commentId IN
    /\ pc[r] = "like_save" => Found(job[r].on)
    /\ pc[r] = "create_save" /\ job[r].parentId # NoParent =>
           commentState[job[r].parentId] = "stored"
    /\ pc[r] \in {"find_post", "find_replies", "remove_delete"} =>
           commentState[c] = "stored"
    /\ pc[r] = "remove_delete" /\ doc[c].parentId = NoParent =>
           Children(c) \subseteq doomed[r]

SerialInv == \A r \in Replicas : SerialAt(r)

\* A comment found is a comment stored.
LEMMA FoundComment ==
    ASSUME NEW c \in Comments, Found(c)
    PROVE  commentState[c] = "stored"
BY NamesAssumption DEF Found

\* What the only replica read, no other handler can change under it.
LEMMA SerialKept ==
    ASSUME \A r, s \in Replicas : r = s, BaseInv, SerialInv, NEW r \in Replicas, Step(r)
    PROVE  SerialInv'
<1> SUFFICES SerialAt(r)'
  BY DEF SerialInv
<1> USE DEF BaseInv, GroupType, DataType, comments, counts
<1> DEFINE Checked == {"like_save", "create_save", "find_post", "find_replies",
                       "remove_delete"}
<1>1. ASSUME pc'[r] \notin Checked
      PROVE  SerialAt(r)'
  BY <1>1 DEF SerialAt
<1>2. CASE LikeFind(r)
  <2>1. CASE pc'[r] = "like_save"
    BY <1>2, <2>1 DEF LikeFind, Goto, Finish, Release, SerialAt, Found
  <2> QED BY <1>1, <1>2, <2>1 DEF LikeFind, Goto, Finish, Release
<1>3. CASE LikeSave(r) \/ LikeCount(r) \/ LikeNotify(r) \/ UnlikeDelete(r)
           \/ UnlikeCount(r) \/ CreateSave(r) \/ CreateCount(r) \/ CreateNotify(r)
           \/ RemoveDelete(r) \/ RemoveLikes(r) \/ RemoveCount(r)
  BY <1>1, <1>3 DEF LikeSave, LikeCount, LikeNotify, UnlikeDelete, UnlikeCount,
     CreateSave, CreateCount, CreateNotify, RemoveDelete, RemoveLikes, RemoveCount, Goto,
     Finish, Release
<1>4. CASE CreateFindPost(r)
  BY <1>1, <1>4 DEF CreateFindPost, Goto, Finish, Release, SerialAt
<1>5. CASE CreateFindParent(r)
  <2>1. CASE GoodParent(job[r])
    <3>1. pc[r] = "find_parent" /\ pc'[r] = "create_save" /\ UNCHANGED <<job, comments>>
      BY <1>5, <2>1 DEF CreateFindParent, Goto
    <3>2. job[r].parentId \in Comments \cup {NoParent}
      BY <3>1, RequestFields DEF JobOK, CommentMessage, CreateSteps
    <3>3. job[r].parentId # NoParent => commentState[job[r].parentId] = "stored"
      BY <2>1, <3>2, FoundComment DEF GoodParent
    <3> QED BY <3>1, <3>3 DEF SerialAt
  <2> QED BY <1>1, <1>5, <2>1 DEF CreateFindParent, Finish, Release
<1>6. CASE RemoveFind(r)
  <2>1. CASE Found(job[r].commentId)
    <3>1. /\ pc[r] = "comment.delete" /\ pc'[r] = "find_post"
          /\ UNCHANGED <<job, comments>>
      BY <1>6, <2>1 DEF RemoveFind, Goto
    <3>2. job[r].commentId \in Comments
      BY <3>1, RemovalFields DEF RemoveSteps
    <3> QED BY <2>1, <3>1, <3>2, FoundComment DEF SerialAt
  <2> QED BY <1>1, <1>6, <2>1 DEF RemoveFind, Finish, Release
<1>7. CASE RemoveFindPost(r)
  <2>1. CASE pc'[r] \in {"find_replies", "remove_delete"}
    <3>1. /\ pc[r] = "find_post" /\ UNCHANGED <<job, comments>>
          /\ pc'[r] = "remove_delete" => doc[job[r].commentId].parentId # NoParent
      BY <1>7, <2>1 DEF RemoveFindPost, Goto, Finish, Release
    <3> QED BY <2>1, <3>1 DEF SerialInv, SerialAt
  <2> QED BY <1>1, <1>7, <2>1 DEF RemoveFindPost, Goto, Finish, Release
<1>8. CASE FindReplies(r)
  <2>1. /\ pc[r] = "find_replies" /\ pc'[r] = "remove_delete" /\ UNCHANGED <<job, comments>>
        /\ Children(job[r].commentId) \subseteq doomed'[r]
    BY <1>8 DEF FindReplies, Goto
  <2>2. commentState[job[r].commentId] = "stored"
    BY <2>1 DEF SerialInv, SerialAt
  <2>3. PICK c : c = job[r].commentId
    OBVIOUS
  <2>4. Children(c)' = Children(c)
    BY <2>1 DEF Children, Above
  <2> QED BY <2>1, <2>2, <2>3, <2>4 DEF SerialAt
<1>9. CASE ExpireSession(r)
  <2>1. UNCHANGED <<pc, job, postState, comments, doomed>>
    BY <1>9 DEF ExpireSession, OutliveSession
  <2> QED BY <2>1 DEF SerialInv, SerialAt, Found, Children, Above
<1>10. CASE Crash(r) \/ QueryFails(r)
  BY <1>1, <1>10 DEF Crash, QueryFails, Die, Throw, Release
<1> QED
  BY <1>2, <1>3, <1>4, <1>5, <1>6, <1>7, <1>8, <1>9, <1>10
     DEF Step, LikeStep, CommentStep, FaultStep

\* It holds throughout.
LEMMA SerialAlways ==
    ASSUME \A r, s \in Replicas : r = s
    PROVE  Spec => []SerialInv
<1> USE DEF SerialInv, SerialAt
<1>1. Init => SerialInv
  BY DEF Init, GroupInit
<1>2. BaseInv /\ SerialInv /\ [Next]_vars => SerialInv'
  <2> SUFFICES ASSUME BaseInv, SerialInv, [Next]_vars PROVE SerialInv'
    OBVIOUS
  <2>1. ASSUME NEW r \in Replicas, NEW m \in Requests, Begin(r, m)
        PROVE  SerialInv'
    <3>1. pc'[r] = m.pattern /\ \A s \in Replicas : s = r
      BY <2>1 DEF Begin, Take, BaseInv, GroupType
    <3>2. m.pattern \notin {"like_save", "create_save", "find_post", "find_replies",
                            "remove_delete"}
      BY RequestFields
    <3> QED BY <3>1, <3>2
  <2>2. ASSUME NEW r \in Replicas, NEW p \in Posts, ChangePost(r, p)
        PROVE  SerialInv'
    <3>1. pc'[r] = "idle" /\ \A s \in Replicas : s = r
      BY <2>2 DEF ChangePost, group
    <3> QED BY <3>1
  <2>3. CASE UNCHANGED vars
    BY <2>3 DEF vars, group, comments, Found, Children, Above
  <2> QED BY <2>1, <2>2, <2>3, SerialKept DEF Next, Step
<1> QED BY <1>1, <1>2, BaseAlways, PTL DEF Spec

\* The steps that neither store nor delete a comment.
LEMMA CommentsAlone ==
    ASSUME NEW r \in Replicas, Step(r), ~CreateSave(r), ~RemoveDelete(r)
    PROVE  UNCHANGED comments
BY DEF Step, LikeStep, LikeFind, LikeSave, LikeCount, LikeNotify, UnlikeDelete,
   UnlikeCount, CommentStep, CreateFindPost, CreateFindParent, CreateCount, CreateNotify,
   RemoveFind, RemoveFindPost, FindReplies, RemoveLikes, RemoveCount, FaultStep, Crash,
   ExpireSession, QueryFails, CutShort, comments

\* A reply is stored under a parent still there, and deleted with it.
LEMMA OrphanStep ==
    ASSUME BaseInv, SerialInv, NoOrphanReplies, NEW r \in Replicas, Step(r)
    PROVE  NoOrphanReplies'
<1> USE DEF BaseInv, DataType
<1>0. ASSUME NEW x \in Comments, commentState[x] = "stored", doc[x].parentId # NoParent
      PROVE  /\ doc[x].parentId \in Comments
             /\ commentState[doc[x].parentId] # "absent"
  BY <1>0, RequestFields DEF DocsOK, CommentMessage, Known
<1>1. CASE CreateSave(r)
  <2>1. PICK c \in Comments :
            /\ commentState[c] = "absent"
            /\ commentState' = [commentState EXCEPT ![c] = "stored"]
            /\ doc' = [doc EXCEPT ![c] = job[r]]
    BY <1>1 DEF CreateSave
  <2>2. job[r].parentId # NoParent =>
            job[r].parentId \in Comments /\ commentState[job[r].parentId] = "stored"
    <3>1. pc[r] = "create_save"
      BY <1>1 DEF CreateSave
    <3> QED BY <3>1, RequestFields DEF SerialInv, SerialAt, JobOK, CommentMessage, CreateSteps
  <2> SUFFICES ASSUME NEW x \in Comments, commentState'[x] = "stored",
                      doc'[x].parentId # NoParent,
                      doc'[doc'[x].parentId].parentId = NoParent
               PROVE  commentState'[doc'[x].parentId] = "stored"
    BY DEF NoOrphanReplies
  <2>3. CASE x = c
    BY <2>1, <2>2, <2>3
  <2>4. CASE x # c
    BY <1>0, <2>1, <2>4 DEF NoOrphanReplies
  <2> QED BY <2>3, <2>4
<1>2. CASE RemoveDelete(r)
  <2>1. /\ pc[r] = "remove_delete" /\ UNCHANGED doc
        /\ commentState' = [c \in Comments |->
               IF c \in doomed[r] THEN "removed" ELSE commentState[c]]
    BY <1>2 DEF RemoveDelete
  <2>2. PICK cid \in Comments : cid = job[r].commentId
    BY <2>1, RemovalFields DEF RemoveSteps
  <2>3. /\ \A c \in doomed[r] : c # cid => Above(doc[c]) = cid
        /\ doc[cid].parentId = NoParent => Children(cid) \subseteq doomed[r]
    BY <2>1, <2>2 DEF DoomedOK, Listed, SerialInv, SerialAt
  <2> SUFFICES ASSUME NEW x \in Comments, x \notin doomed[r], commentState[x] = "stored",
                      doc[x].parentId # NoParent,
                      doc[doc[x].parentId].parentId = NoParent
               PROVE  commentState'[doc[x].parentId] = "stored"
    BY <2>1 DEF NoOrphanReplies
  <2>4. PICK a \in Comments : a = doc[x].parentId
    BY <1>0
  <2>5. commentState[a] = "stored"
    BY <2>4 DEF NoOrphanReplies
  <2>6. a # cid
    BY <2>3, <2>4 DEF Children, Above
  <2>7. a \notin doomed[r]
    <3>1. Above(doc[a]) \in Posts
      BY <2>4, <2>5, RequestFields DEF DocsOK, CommentMessage, Above
    <3> QED BY <2>2, <2>3, <2>6, <3>1, NamesAssumption
  <2> QED BY <2>1, <2>4, <2>5, <2>7
<1>3. CASE UNCHANGED comments
  BY <1>3 DEF comments, NoOrphanReplies
<1> QED BY <1>1, <1>2, <1>3, CommentsAlone

\* Run by one replica, the service leaves no reply to a top-level comment
\* behind it when that comment goes, wherever a fault strikes.
THEOREM SerialNoOrphans ==
    ASSUME \A r, s \in Replicas : r = s
    PROVE  Spec => []NoOrphanReplies
<1>1. Init => NoOrphanReplies
  BY DEF Init, NoOrphanReplies
<1>2. BaseInv /\ SerialInv /\ NoOrphanReplies /\ [Next]_vars => NoOrphanReplies'
  <2> SUFFICES ASSUME BaseInv, SerialInv, NoOrphanReplies, [Next]_vars
               PROVE  NoOrphanReplies'
    OBVIOUS
  <2>1. CASE UNCHANGED comments
    BY <2>1 DEF comments, NoOrphanReplies
  <2> QED BY <2>1, OrphanStep DEF Next, Step, Begin, ChangePost, vars
<1> QED BY <1>1, <1>2, BaseAlways, SerialAlways, PTL DEF Spec

-----------------------------------------------------------------------------
(* One replica: the counters between two handlers                           *)

\* A comment counter is off by what is on its way, no less and no more.
ExactInv == \A t \in Targets : Live(t) /\ t \notin interrupted => Exactly(t)

\* It holds throughout: what a removal deletes is still there to delete.
LEMMA ExactAlways ==
    ASSUME \A r, s \in Replicas : r = s
    PROVE  Spec => []ExactInv
<1>1. Init => ExactInv
  <2> SUFFICES ASSUME Init PROVE ExactInv
    OBVIOUS
  <2>1. \A t \in Targets : Arriving(t) = {} /\ Leaving(t) = {} /\ Children(t) = {}
    BY DEF Init, GroupInit, Arriving, Leaving, Children
  <2>2. \A t \in Targets : childCount[t] = 0
    BY DEF Init
  <2>3. Cardinality({}) = 0
    BY FS_EmptySet
  <2>4. ASSUME NEW t \in Targets PROVE Exactly(t)
    BY <2>1, <2>2, <2>3 DEF Exactly
  <2> QED BY <2>4 DEF ExactInv
<1>2. BaseInv /\ ChildInv /\ SerialInv /\ ExactInv /\ [Next]_vars => ExactInv'
  <2> SUFFICES ASSUME BaseInv, ChildInv, SerialInv, ExactInv, [Next]_vars PROVE ExactInv'
    OBVIOUS
  <2>1. ASSUME NEW r \in Replicas, Step(r), NEW t \in Targets, Live(t)', t \notin interrupted'
        PROVE  Exactly(t)'
    <3>1. interrupted \subseteq interrupted'
      BY <2>1, InterruptedGrows
    <3>2. Live(t) \/ (t \in Comments /\ commentState[t] = "absent")
      BY <2>1, LiveBefore
    <3>3. Exactly(t)
      BY <2>1, <3>1, <3>2, AbsentWithin DEF ExactInv
    <3>4. pc[r] = "remove_delete" => commentState[job[r].commentId] = "stored"
      BY DEF SerialInv, SerialAt
    <3> QED BY <2>1, <3>2, <3>3, <3>4, WithinStep
  <2>2. ASSUME NEW r \in Replicas, NEW t \in Targets, Live(t)', t \notin interrupted',
               (\E m \in Requests : Begin(r, m)) \/ (\E p \in Posts : ChangePost(r, p))
        PROVE  Exactly(t)'
    <3>1. Live(t) \/ (t \in Comments /\ commentState[t] = "absent")
      BY <2>2, LiveBefore
    <3>2. UNCHANGED <<comments, counts, interrupted>>
      BY <2>2 DEF Begin, ChangePost
    <3>3. Exactly(t)
      BY <2>2, <3>1, <3>2, AbsentWithin DEF ExactInv
    <3>4. Arriving(t)' = Arriving(t) /\ Leaving(t)' = Leaving(t)
      BY <2>2, <3>2, OthersBusy DEF Arriving, Leaving, Above, comments
    <3> QED BY <3>2, <3>3, <3>4 DEF Exactly, Children, Above, comments, counts
  <2>3. CASE UNCHANGED vars
    BY <2>3 DEF vars, group, counts, comments, ExactInv, Exactly, Live, Arriving, Leaving,
       Children, Above
  <2> QED BY <2>1, <2>2, <2>3 DEF Next, Step, ExactInv
<1>3. Spec => []ChildInv
  BY ChildAlways
<1> QED BY <1>1, <1>2, <1>3, BaseAlways, SerialAlways, PTL DEF Spec

\* Run by one replica, the service's counters are the truth between two
\* handlers, but where a fault has struck.
THEOREM SerialCountsExact ==
    ASSUME \A r, s \in Replicas : r = s
    PROVE  Spec => []CountsAreExact
<1>1. BaseInv /\ LikesAccounted /\ ExactInv => CountsAreExact
  <2> SUFFICES ASSUME BaseInv, LikesAccounted, ExactInv, Idle,
                      NEW t \in Targets, Live(t), t \notin interrupted
               PROVE  /\ likeCount[t] = Cardinality(Likers(t))
                      /\ childCount[t] = Cardinality(Children(t))
    BY DEF CountsAreExact
  <2>1. /\ At("like_count", t) = {} /\ At("unlike_count", t) = {}
        /\ Arriving(t) = {} /\ Leaving(t) = {}
    BY DEF Idle, At, Arriving, Leaving
  <2>2. /\ Cardinality(At("like_count", t)) = 0 /\ Cardinality(At("unlike_count", t)) = 0
        /\ Cardinality(Arriving(t)) = 0 /\ Cardinality(Leaving(t)) = 0
    BY <2>1, FS_EmptySet
  <2>3. Likers(t) \subseteq Users
    BY DEF Likers
  <2>4. Cardinality(Likers(t)) \in Nat /\ Cardinality(Children(t)) \in Nat
    BY <2>3, ChildrenFinite, FiniteIds, FS_Subset, FS_CardinalityType
  <2>5. likeCount[t] \in Int /\ childCount[t] \in Int
    BY DEF BaseInv, DataType
  <2>6. likeCount[t] + 0 = Cardinality(Likers(t)) + 0
    BY <2>2 DEF LikesAccounted
  <2>7. childCount[t] + 0 - 0 = Cardinality(Children(t))
    BY <2>2 DEF ExactInv, Exactly
  <2> QED BY <2>4, <2>5, <2>6, <2>7
<1> QED BY <1>1, BaseAlways, LikesCounted, ExactAlways, PTL

-----------------------------------------------------------------------------
(* One replica: the likes of the comments removed                           *)

\* A like of a comment that is gone is about to go, or a fault kept it.
Swept ==
    \A l \in likes : l[2] \in Comments =>
        \/ commentState[l[2]] = "stored"
        \/ l[2] \in interrupted
        \/ \E r \in Replicas : pc[r] = "remove_likes" /\ l[2] \in doomed[r]

\* Every step keeps it: a like is stored under a comment still there, and what
\* is deleted is what is swept.
LEMMA SweptStep ==
    ASSUME \A r, s \in Replicas : r = s, BaseInv, SerialInv, Swept,
           NEW r \in Replicas, Step(r)
    PROVE  Swept'
<1> USE DEF BaseInv, GroupType, DataType, comments, counts
<1>0. CommentsGrow /\ interrupted \subseteq interrupted'
  BY StepGrows, InterruptedGrows
<1>1. ASSUME likes' \subseteq likes, UNCHANGED comments,
             pc[r] # "remove_likes"
      PROVE  Swept'
  <2>1. ASSUME NEW l \in likes, l[2] \in Comments
        PROVE  commentState[l[2]] = "stored" \/ l[2] \in interrupted
    BY <1>1, <2>1 DEF Swept
  <2> QED BY <1>0, <1>1, <2>1 DEF Swept
<1>2. CASE LikeSave(r)
  <2>1. /\ pc[r] = "like_save" /\ UNCHANGED <<comments, interrupted>>
        /\ likes' \subseteq likes \cup {<<job[r].userId, job[r].on>>}
    BY <1>2 DEF LikeSave
  <2>2. job[r].on \in Comments => commentState[job[r].on] = "stored"
    BY <2>1, FoundComment DEF SerialInv, SerialAt
  <2>3. ASSUME NEW l \in likes, l[2] \in Comments
        PROVE  commentState[l[2]] = "stored" \/ l[2] \in interrupted
    BY <2>1, <2>3 DEF Swept
  <2> QED BY <2>1, <2>2, <2>3 DEF Swept
<1>3. CASE CreateSave(r)
  <2>1. /\ pc[r] = "create_save" /\ UNCHANGED <<likes, interrupted>>
        /\ \A c \in Comments : commentState[c] = "stored" => commentState'[c] = "stored"
    BY <1>3 DEF CreateSave
  <2> QED BY <2>1 DEF Swept
<1>4. CASE RemoveDelete(r)
  <2>1. /\ pc[r] = "remove_delete" /\ pc'[r] = "remove_likes"
        /\ UNCHANGED <<likes, interrupted, doomed>>
        /\ \A c \in Comments : c \notin doomed[r] => commentState'[c] = commentState[c]
    BY <1>4 DEF RemoveDelete, Goto
  <2>2. ASSUME NEW l \in likes, l[2] \in Comments
        PROVE  commentState[l[2]] = "stored" \/ l[2] \in interrupted
    BY <2>1, <2>2 DEF Swept
  <2> QED BY <2>1, <2>2 DEF Swept
<1>5. CASE RemoveLikes(r)
  BY <1>5 DEF RemoveLikes, Swept
<1>6. CASE Crash(r) \/ QueryFails(r)
  <2>1. /\ UNCHANGED <<likes, comments>> /\ interrupted' = interrupted \cup Unfinished(r)
        /\ pc[r] = "remove_likes" => doomed[r] \subseteq Unfinished(r)
    BY <1>6 DEF Crash, QueryFails, CutShort, Unfinished
  <2> QED BY <2>1 DEF Swept
<1>7. CASE ExpireSession(r)
  BY <1>7 DEF ExpireSession, OutliveSession, Swept
<1>8. CASE LikeFind(r) \/ LikeCount(r) \/ LikeNotify(r) \/ UnlikeDelete(r)
           \/ UnlikeCount(r)
  BY <1>1, <1>8 DEF LikeFind, LikeCount, LikeNotify, UnlikeDelete, UnlikeCount
<1>9. CASE CreateFindPost(r) \/ CreateFindParent(r) \/ CreateCount(r) \/ CreateNotify(r)
  BY <1>1, <1>9 DEF CreateFindPost, CreateFindParent, CreateCount, CreateNotify
<1>10. CASE RemoveFind(r) \/ RemoveFindPost(r) \/ FindReplies(r) \/ RemoveCount(r)
  BY <1>1, <1>10 DEF RemoveFind, RemoveFindPost, FindReplies, RemoveCount
<1> QED
  BY <1>2, <1>3, <1>4, <1>5, <1>6, <1>7, <1>8, <1>9, <1>10
     DEF Step, LikeStep, CommentStep, FaultStep

\* Run by one replica, the service lets a comment, and the replies to it, go
\* with every like of them, but where a fault has struck.
THEOREM SerialLikesGo ==
    ASSUME \A r, s \in Replicas : r = s
    PROVE  Spec => []LikesGoWithComment
<1>1. Init => Swept
  BY DEF Init, Swept
<1>2. BaseInv /\ SerialInv /\ Swept /\ [Next]_vars => Swept'
  <2> SUFFICES ASSUME BaseInv, SerialInv, Swept, [Next]_vars PROVE Swept'
    OBVIOUS
  <2>1. ASSUME NEW r \in Replicas, NEW m \in Requests, Begin(r, m)
        PROVE  Swept'
    BY <2>1 DEF Begin, Take, Swept, comments
  <2>2. ASSUME NEW r \in Replicas, NEW p \in Posts, ChangePost(r, p)
        PROVE  Swept'
    BY <2>2 DEF ChangePost, Swept, comments, group
  <2>3. CASE UNCHANGED vars
    BY <2>3 DEF vars, group, comments, Swept
  <2> QED BY <2>1, <2>2, <2>3, SweptStep DEF Next, Step
<1>3. Swept => LikesGoWithComment
  BY DEF Swept, LikesGoWithComment, Idle
<1> QED BY <1>1, <1>2, <1>3, BaseAlways, SerialAlways, PTL DEF Spec
=============================================================================
