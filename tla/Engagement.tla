----------------------------- MODULE Engagement -----------------------------
(***************************************************************************)
(* Likes and comments in network-service (likes.service.ts,                *)
(* comments.service.ts) and the counters kept beside them.  A like or a    *)
(* comment is one document; likeCount, commentCount and replyCount live in *)
(* the document of the post or comment it is about and are moved by a      *)
(* second query, with no transaction around the two.                       *)
(*                                                                         *)
(* A "target" is what is liked or commented: a post, or a comment (whose   *)
(* comments are its replies).  One counter of each kind serves both.       *)
(***************************************************************************)
EXTENDS ConsumerGroup, Integers, FiniteSets

CONSTANTS
    Users,
    Posts,       \* the posts, all stored at the start
    Comments,    \* comment ids the database can allocate
    PostAuthor,  \* the author of each post
    NoParent     \* the parent of a top-level comment

Targets == Posts \cup Comments

Request ==
    [pattern: {"post.like", "post.unlike"}, id: Nat, userId: Users, on: Posts]
    \cup [pattern: {"comment.like", "comment.unlike"}, id: Nat, userId: Users, on: Comments]
    \cup [pattern: {"comment.create"}, id: Nat, authorId: Users, postId: Posts,
          parentId: Comments \cup {NoParent}]
    \cup [pattern: {"comment.delete"}, id: Nat, authorId: Users, commentId: Comments]

ASSUME FiniteIds == IsFiniteSet(Users) /\ IsFiniteSet(Comments)
ASSUME RequestsAssumption == Requests \subseteq Request
ASSUME NamesAssumption ==
    /\ Posts \cap Comments = {}
    /\ NoParent \notin Comments
    /\ PostAuthor \in [Posts -> Users]

LikeSteps == {"post.like", "comment.like", "like_save", "like_count", "like_notify"}
UnlikeSteps == {"post.unlike", "comment.unlike", "unlike_count"}
CreateSteps ==
    {"comment.create", "find_parent", "create_save", "create_count", "create_notify"}
RemoveSteps ==
    {"comment.delete", "find_post", "find_replies", "remove_delete", "remove_likes",
     "remove_count"}
Labels == {"idle"} \cup LikeSteps \cup UnlikeSteps \cup CreateSteps \cup RemoveSteps

VARIABLES
    postState,     \* posts: "open" to findById, "hidden" from it, or "erased"
    commentState,  \* comments: "absent", "stored" or "removed"
    doc,           \* comments: the message each comment was created from
    likes,         \* likes and comment_likes: pairs of a user and a target
    likeCount,     \* posts and comments: likeCount
    childCount,    \* posts: commentCount; comments: replyCount
    doomed,        \* idsToDelete of each replica's comment removal
    told,          \* like and comment notices emitted
    interrupted    \* auxiliary: targets whose writes a fault cut short

comments == <<commentState, doc>>
counts == <<likeCount, childCount>>
vars == <<group, postState, comments, likes, counts, doomed, told, interrupted>>

Init ==
    /\ GroupInit
    /\ postState = [p \in Posts |-> "open"]
    /\ commentState = [c \in Comments |-> "absent"]
    /\ doc = [c \in Comments |-> NoRequest]
    /\ likes = {}
    /\ likeCount = [t \in Targets |-> 0]
    /\ childCount = [t \in Targets |-> 0]
    /\ doomed = [r \in Replicas |-> {}]
    /\ told = {}
    /\ interrupted = {}

-----------------------------------------------------------------------------
(* Targets and their counters *)

\* Its document is in the database, so an update by id reaches it.
Live(t) == IF t \in Posts THEN postState[t] # "erased" ELSE commentState[t] = "stored"

\* PostsService.findById or CommentsService.findById returns it.
Found(t) == IF t \in Posts THEN postState[t] = "open" ELSE commentState[t] = "stored"

\* updateOne with $inc: no document, no effect; and no lower bound.
Bumped(count, t, d) == IF Live(t) THEN [count EXCEPT ![t] = @ + d] ELSE count

\* What a comment hangs from: its parent comment, or the post.
Above(m) == IF m.parentId = NoParent THEN m.postId ELSE m.parentId

Children(t) == {c \in Comments : commentState[c] = "stored" /\ Above(doc[c]) = t}
Likers(t) == {u \in Users : <<u, t>> \in likes}

-----------------------------------------------------------------------------
(* Messages, and the posts they meet *)

\* A client names only comments the service has shown it.
Sendable(m) ==
    /\ m.pattern \in {"comment.like", "comment.unlike"} => commentState[m.on] # "absent"
    /\ m.pattern = "comment.delete" => commentState[m.commentId] # "absent"
    /\ m.pattern = "comment.create" /\ m.parentId # NoParent =>
           commentState[m.parentId] # "absent"

Begin(r, m) ==
    /\ Sendable(m)
    /\ Take(r, m)
    /\ UNCHANGED <<postState, comments, likes, counts, doomed, told, interrupted>>

\* The author, the AI or an administrator changes a post's visibility, or
\* the author deletes it: the write of another handler, run by a free replica.
ChangePost(r, p) ==
    /\ pc[r] = "idle"
    /\ postState[p] # "erased"
    /\ \E s \in {"open", "hidden", "erased"} : postState' = [postState EXCEPT ![p] = s]
    /\ UNCHANGED <<group, comments, likes, counts, doomed, told, interrupted>>

-----------------------------------------------------------------------------
(* likePost and likeComment, unlikePost and unlikeComment *)

LikeFind(r) ==
    /\ pc[r] \in {"post.like", "comment.like"}
    /\ IF Found(job[r].on) THEN Goto(r, "like_save") ELSE Finish(r)
    /\ UNCHANGED <<postState, comments, likes, counts, doomed, told, interrupted>>

\* Mistake: a like already stored is counted again.
LikeSaveAgain(r) ==
    /\ pc[r] = "like_save"
    /\ likes' = likes \cup {<<job[r].userId, job[r].on>>}
    /\ Goto(r, "like_count")
    /\ UNCHANGED <<postState, comments, counts, doomed, told, interrupted>>

\* The unique index refuses a second like of the same user: 409.
LikeSave(r) ==
    /\ pc[r] = "like_save"
    /\ IF <<job[r].userId, job[r].on>> \in likes
       THEN Finish(r) /\ UNCHANGED likes
       ELSE /\ likes' = likes \cup {<<job[r].userId, job[r].on>>}
            /\ Goto(r, "like_count")
    /\ UNCHANGED <<postState, comments, counts, doomed, told, interrupted>>

\* Mistake: the author is told only when the counter's document was there.
LikeCountQuiet(r) ==
    /\ pc[r] = "like_count"
    /\ likeCount' = Bumped(likeCount, job[r].on, 1)
    /\ IF Live(job[r].on) THEN Goto(r, "like_notify") ELSE Finish(r)
    /\ UNCHANGED <<postState, comments, likes, childCount, doomed, told, interrupted>>

LikeCount(r) ==
    /\ pc[r] = "like_count"
    /\ likeCount' = Bumped(likeCount, job[r].on, 1)
    /\ Goto(r, "like_notify")
    /\ UNCHANGED <<postState, comments, likes, childCount, doomed, told, interrupted>>

LikeNotify(r) ==
    /\ pc[r] = "like_notify"
    /\ told' = told \cup {<<"like", job[r].userId, job[r].on>>}
    /\ Finish(r)
    /\ UNCHANGED <<postState, comments, likes, counts, doomed, interrupted>>

\* findOneAndDelete: only the one who removes the like goes on; 404 otherwise.
UnlikeDelete(r) ==
    /\ pc[r] \in {"post.unlike", "comment.unlike"}
    /\ IF <<job[r].userId, job[r].on>> \in likes
       THEN /\ likes' = likes \ {<<job[r].userId, job[r].on>>}
            /\ Goto(r, "unlike_count")
       ELSE Finish(r) /\ UNCHANGED likes
    /\ UNCHANGED <<postState, comments, counts, doomed, told, interrupted>>

UnlikeCount(r) ==
    /\ pc[r] = "unlike_count"
    /\ likeCount' = Bumped(likeCount, job[r].on, -1)
    /\ Finish(r)
    /\ UNCHANGED <<postState, comments, likes, childCount, doomed, told, interrupted>>

-----------------------------------------------------------------------------
(* comment.create: CommentsService.create *)

CreateFindPost(r) ==
    /\ pc[r] = "comment.create"
    /\ \/ /\ Found(job[r].postId)
          /\ Goto(r, IF job[r].parentId = NoParent THEN "create_save" ELSE "find_parent")
       \/ ~Found(job[r].postId) /\ Finish(r)
    /\ UNCHANGED <<postState, comments, likes, counts, doomed, told, interrupted>>

\* Mistake: the parent need not be there.
AnyParent(m) == TRUE

\* The parent must be stored, and belong to the post named.
GoodParent(m) == Found(m.parentId) /\ doc[m.parentId].postId = m.postId

CreateFindParent(r) ==
    /\ pc[r] = "find_parent"
    /\ IF GoodParent(job[r]) THEN Goto(r, "create_save") ELSE Finish(r)
    /\ UNCHANGED <<postState, comments, likes, counts, doomed, told, interrupted>>

CreateSave(r) ==
    /\ pc[r] = "create_save"
    /\ \E c \in Comments :
         /\ commentState[c] = "absent"
         /\ commentState' = [commentState EXCEPT ![c] = "stored"]
         /\ doc' = [doc EXCEPT ![c] = job[r]]
    /\ Goto(r, "create_count")
    /\ UNCHANGED <<postState, likes, counts, doomed, told, interrupted>>

\* Mistake: a reply is counted for its post as well as for its parent.
CreateCountPost(r) ==
    /\ pc[r] = "create_count"
    /\ childCount' = Bumped(Bumped(childCount, job[r].postId, 1), Above(job[r]), 1)
    /\ Goto(r, "create_notify")
    /\ UNCHANGED <<postState, comments, likes, likeCount, doomed, told, interrupted>>

CreateCount(r) ==
    /\ pc[r] = "create_count"
    /\ childCount' = Bumped(childCount, Above(job[r]), 1)
    /\ Goto(r, "create_notify")
    /\ UNCHANGED <<postState, comments, likes, likeCount, doomed, told, interrupted>>

\* The author of what the comment hangs from is told.
CreateNotify(r) ==
    /\ pc[r] = "create_notify"
    /\ told' = told \cup {<<"comment", job[r].authorId, Above(job[r])>>}
    /\ Finish(r)
    /\ UNCHANGED <<postState, comments, likes, counts, doomed, interrupted>>

-----------------------------------------------------------------------------
(* comment.delete: CommentsService.remove *)

\* canDeleteComment: the comment's author, or the post's.
CanDelete(u, c) == u \in {doc[c].authorId, PostAuthor[doc[c].postId]}

RemoveFind(r) ==
    /\ pc[r] = "comment.delete"
    /\ IF Found(job[r].commentId) THEN Goto(r, "find_post") ELSE Finish(r)
    /\ UNCHANGED <<postState, comments, likes, counts, doomed, told, interrupted>>

\* A comment on a post that findById refuses to return cannot be removed.
RemoveFindPost(r) ==
    LET c == job[r].commentId IN
    /\ pc[r] = "find_post"
    /\ \/ /\ Found(doc[c].postId) /\ CanDelete(job[r].authorId, c)
          /\ doomed' = [doomed EXCEPT ![r] = {c}]
          /\ Goto(r, IF doc[c].parentId = NoParent THEN "find_replies" ELSE "remove_delete")
       \/ /\ ~(Found(doc[c].postId) /\ CanDelete(job[r].authorId, c))
          /\ Finish(r) /\ UNCHANGED doomed
    /\ UNCHANGED <<postState, comments, likes, counts, told, interrupted>>

\* Mistake: the replies are left where they are.
FindNoReplies(r) ==
    /\ pc[r] = "find_replies"
    /\ Goto(r, "remove_delete")
    /\ UNCHANGED <<postState, comments, likes, counts, doomed, told, interrupted>>

FindReplies(r) ==
    /\ pc[r] = "find_replies"
    /\ doomed' = [doomed EXCEPT ![r] = @ \cup Children(job[r].commentId)]
    /\ Goto(r, "remove_delete")
    /\ UNCHANGED <<postState, comments, likes, counts, told, interrupted>>

\* Whether any document was really deleted is not asked.
RemoveDelete(r) ==
    /\ pc[r] = "remove_delete"
    /\ commentState' = [c \in Comments |->
           IF c \in doomed[r] THEN "removed" ELSE commentState[c]]
    /\ Goto(r, "remove_likes")
    /\ UNCHANGED <<postState, doc, likes, counts, doomed, told, interrupted>>

\* Mistake: only the likes of the comment named are removed.
RemoveOwnLikes(r) ==
    /\ pc[r] = "remove_likes"
    /\ likes' = {l \in likes : l[2] # job[r].commentId}
    /\ Goto(r, "remove_count")
    /\ UNCHANGED <<postState, comments, counts, doomed, told, interrupted>>

RemoveLikes(r) ==
    /\ pc[r] = "remove_likes"
    /\ likes' = {l \in likes : l[2] \notin doomed[r]}
    /\ Goto(r, "remove_count")
    /\ UNCHANGED <<postState, comments, counts, doomed, told, interrupted>>

RemoveCount(r) ==
    /\ pc[r] = "remove_count"
    /\ childCount' = Bumped(childCount, Above(doc[job[r].commentId]), -1)
    /\ doomed' = [doomed EXCEPT ![r] = {}]
    /\ Finish(r)
    /\ UNCHANGED <<postState, comments, likes, likeCount, told, interrupted>>

-----------------------------------------------------------------------------
(* Faults *)

\* What a handler that stops here leaves half done.
Unfinished(r) ==
    CASE pc[r] \in {"like_count", "like_notify", "unlike_count"} -> {job[r].on}
      [] pc[r] = "create_count" -> {Above(job[r])}
      [] pc[r] \in {"remove_likes", "remove_count"} ->
             doomed[r] \cup {Above(doc[job[r].commentId])}
      [] OTHER -> {}

CutShort(r) ==
    /\ interrupted' = interrupted \cup Unfinished(r)
    /\ doomed' = [doomed EXCEPT ![r] = {}]
    /\ UNCHANGED <<postState, comments, likes, counts, told>>

Crash(r) == Die(r) /\ CutShort(r)

\* A failed query answers 500; what the handler wrote before it stays.
QueryFails(r) ==
    pc[r] \notin {"idle", "like_notify", "create_notify"} /\ Throw(r) /\ CutShort(r)

ExpireSession(r) ==
    /\ OutliveSession(r)
    /\ UNCHANGED <<postState, comments, likes, counts, doomed, told, interrupted>>

-----------------------------------------------------------------------------
LikeStep(r) ==
    \/ LikeFind(r) \/ LikeSave(r) \/ LikeCount(r) \/ LikeNotify(r)
    \/ UnlikeDelete(r) \/ UnlikeCount(r)
CommentStep(r) ==
    \/ CreateFindPost(r) \/ CreateFindParent(r) \/ CreateSave(r) \/ CreateCount(r)
    \/ CreateNotify(r)
    \/ RemoveFind(r) \/ RemoveFindPost(r) \/ FindReplies(r) \/ RemoveDelete(r)
    \/ RemoveLikes(r) \/ RemoveCount(r)
FaultStep(r) == Crash(r) \/ ExpireSession(r) \/ QueryFails(r)

Next ==
    \E r \in Replicas :
        \/ \E m \in Requests : Begin(r, m)
        \/ \E p \in Posts : ChangePost(r, p)
        \/ LikeStep(r) \/ CommentStep(r) \/ FaultStep(r)

Spec == Init /\ [][Next]_vars

-----------------------------------------------------------------------------
(* Properties that hold whatever the number of replicas *)

\* Every variable keeps its type, and a comment is stored with its message.
TypeOK ==
    /\ GroupType(Labels)
    /\ postState \in [Posts -> {"open", "hidden", "erased"}]
    /\ commentState \in [Comments -> {"absent", "stored", "removed"}]
    /\ doc \in [Comments -> Requests \cup {NoRequest}]
    /\ likes \subseteq Users \X Targets
    /\ likeCount \in [Targets -> Int]
    /\ childCount \in [Targets -> Int]
    /\ doomed \in [Replicas -> SUBSET Comments]
    /\ told \subseteq {"like", "comment"} \X Users \X Targets
    /\ interrupted \subseteq Targets

At(label, t) == {r \in Replicas : pc[r] = label /\ job[r].on = t}

\* A like counter is off by exactly the increments still on their way:
\* the likes and unlikes of rival replicas never corrupt it, a fault may.
LikesAccounted ==
    \A t \in Targets : Live(t) /\ t \notin interrupted =>
        likeCount[t] + Cardinality(At("like_count", t))
            = Cardinality(Likers(t)) + Cardinality(At("unlike_count", t))

Arriving(t) == {r \in Replicas : pc[r] = "create_count" /\ Above(job[r]) = t}
Leaving(t) ==
    {r \in Replicas : /\ pc[r] \in {"remove_likes", "remove_count"}
                      /\ Above(doc[job[r].commentId]) = t}

\* A post or comment never claims more comments than it has, although two
\* replicas removing one comment both count it out.
NeverOvercounted ==
    \A t \in Targets : Live(t) /\ t \notin interrupted =>
        childCount[t] + Cardinality(Arriving(t)) - Cardinality(Leaving(t))
            <= Cardinality(Children(t))

\* Nobody likes a thing without its author being told, unless a fault
\* struck between the two: a redelivered like meets the unique index.
LikesAreTold ==
    \A l \in likes :
        \/ <<"like", l[1], l[2]>> \in told
        \/ l[2] \in interrupted
        \/ \E r \in Replicas : /\ pc[r] \in {"like_count", "like_notify"}
                             /\ <<job[r].userId, job[r].on>> = l

-----------------------------------------------------------------------------
(* Properties of a service that runs one handler at a time *)

\* Between two handlers the counters are the truth.
CountsAreExact ==
    Idle => \A t \in Targets : Live(t) /\ t \notin interrupted =>
        /\ likeCount[t] = Cardinality(Likers(t))
        /\ childCount[t] = Cardinality(Children(t))

\* A reply to a top-level comment goes when the comment does.
NoOrphanReplies ==
    \A c \in Comments : commentState[c] = "stored" /\ doc[c].parentId # NoParent =>
        LET above == doc[c].parentId IN
        doc[above].parentId = NoParent => commentState[above] = "stored"

\* A comment removed leaves no like behind, nor do its replies.
LikesGoWithComment ==
    Idle => \A l \in likes : l[2] \in Comments =>
        commentState[l[2]] = "stored" \/ l[2] \in interrupted

-----------------------------------------------------------------------------
(* What the schemas and comments of the code say *)

\* post.schema.ts:36 and :39, comment.schema.ts:28 and :31 "min: 0": no
\* counter is ever negative.
CountsNeverNegative == \A t \in Targets : likeCount[t] >= 0 /\ childCount[t] >= 0
=============================================================================
