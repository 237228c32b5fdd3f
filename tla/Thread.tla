------------------------------- MODULE Thread -------------------------------
(***************************************************************************)
(* The comments of the page of one post (PostDetailPage.tsx), as one       *)
(* person reads, writes, likes and deletes them, and as others write       *)
(* meanwhile.  A request is one step at network-service, whose queries     *)
(* Engagement has one by one.  The components of the page are mounted and  *)
(* unmounted with what they show: what they held is lost then, and an      *)
(* answer for one that is gone changes only what is above it.              *)
(***************************************************************************)
EXTENDS Integers, Sequences, FiniteSets, SequencesExt, Lists

CONSTANTS
    Discussed,      \* posts
    MyPosts,        \* those of the person, whose comments all are theirs to delete
    MaxUttered,     \* comments ever made
    MaxStrokes,     \* bound on what the person does
    MaxBreakdowns   \* bound on requests that fail

ASSUME ThreadAssumption ==
    MyPosts \subseteq Discussed /\ {MaxUttered, MaxStrokes, MaxBreakdowns} \subseteq Nat

VARIABLES
    talk,       \* the comments of the service
    uttered,    \* how many there were
    address,    \* the postId of the address
    phase, shownPost, listed,   \* states of the page: phase, post and comments
    threads,    \* states of each CommentThread mounted
    hearts,     \* states of each CommentItem mounted
    mounts,     \* counts the times components were mounted
    inquiries,  \* requests under way
    strokes, breakdowns,    \* auxiliary: at most MaxStrokes and MaxBreakdowns
    wandered,   \* auxiliary: whether the page went to another post while a
                \* request was under way, and was not shown anew since
    lopsided,   \* auxiliary: whether a comment came between two reads of a load
    mixed,      \* auxiliary: comments whose replies changed while unread
    dark        \* auxiliary: comments liked before they were shown, or unsure

talkDb == <<talk, uttered>>
postPage == <<address, phase, shownPost, listed>>
mounted == <<threads, hearts, mounts>>
strokeBounds == <<strokes, breakdowns>>
threadAux == <<wandered, lopsided, mixed, dark>>
threadVars == <<talkDb, postPage, mounted, inquiries, strokeBounds, threadAux>>

Top == 0        \* what a comment of the post itself is under
NoPost == [post |-> "none", count |-> 0]

Roots(p) == {c \in talk : c.post = p /\ c.under = Top}
RepliesTo(n) == {c \in talk : c.under = n}

\* A comment as the API gives it
Given(c) == [nr |-> c.nr, post |-> c.post, by |-> c.by, under |-> c.under,
             replies |-> Cardinality(RepliesTo(c.nr)), likes |-> IF c.liked THEN 1 ELSE 0]

\* findByPost is newest first, findReplies oldest first.
Numbers(cs) == {c.nr : c \in cs}
AsGiven(nrs) == [k \in 1..Len(nrs) |-> Given(CHOOSE c \in talk : c.nr = nrs[k])]
CommentsOf(p) == AsGiven(Descending(Numbers(Roots(p))))
RepliesOf(n) == AsGiven(Ascending(Numbers(RepliesTo(n))))

\* The page is opened at a post with one comment of another person.
ThreadStart(p) ==
    /\ talk = {[nr |-> 1, post |-> p, under |-> Top, by |-> "other", liked |-> FALSE]}
    /\ uttered = 1
    /\ address = p /\ phase = "loading" /\ shownPost = NoPost /\ listed = <<>>
    /\ threads = <<>> /\ hearts = <<>> /\ mounts = 0
    /\ inquiries = {[op |-> "load", id |-> 0, post |-> p, count |-> -1, list |-> <<>>, at |-> {"post", "list"}]}
    /\ strokes = 0 /\ breakdowns = 0
    /\ wandered = FALSE /\ lopsided = FALSE /\ mixed = {} /\ dark = {}

Stroke == strokes < MaxStrokes /\ strokes' = strokes + 1 /\ UNCHANGED breakdowns
Breakdown == breakdowns < MaxBreakdowns /\ breakdowns' = breakdowns + 1 /\ UNCHANGED strokes

-----------------------------------------------------------------------------
(* What is mounted: a thread for each comment listed, an item for it and    *)
(* for each reply of a thread that is open                                  *)

NewThread(m) == [open |-> FALSE, replies |-> <<>>, loading |-> FALSE, inst |-> m]

Items(list, ths) ==
    ToSet(list) \cup UNION {ToSet(ths[n].replies) : n \in {k \in DOMAIN ths : ths[k].open}}

\* The components after the page's comments become list, and its threads'
\* states ths, while the article shows (on) or not.  An item starts as not
\* liked, whoever likes it; heart is what it becomes otherwise.
Mounts(on, list, ths, heart) ==
    LET ids == IF on THEN {c.nr : c \in ToSet(list)} ELSE {}
        next == [n \in ids |-> IF n \in DOMAIN ths THEN ths[n] ELSE NewThread(mounts + 1)]
        items == IF on THEN Items(list, next) ELSE {}
        fresh == {c \in items : c.nr \notin DOMAIN heart}
    IN
    /\ listed' = list
    /\ threads' = next
    /\ hearts' = [n \in {c.nr : c \in items} |->
                     IF n \in DOMAIN heart THEN heart[n]
                     ELSE [liked |-> FALSE, busy |-> FALSE, inst |-> mounts + 1,
                           count |-> (CHOOSE c \in items : c.nr = n).likes]]
    /\ mounts' = mounts + 1
    /\ dark' = dark \cup {c.nr : c \in {d \in fresh :
                   \/ \E t \in talk : t.nr = d.nr /\ t.liked
                   \/ d.likes > 0
                   \/ \E a \in inquiries : a.op = "heart" /\ a.id = d.nr}}

Ready == phase = "ready"

-----------------------------------------------------------------------------
(* Loading *)

\* Another post in the address: the article makes room for "Loading".
GoToPost(p) ==
    /\ Stroke
    /\ p # address /\ address' = p
    /\ phase' = "loading"
    /\ Mounts(FALSE, listed, <<>>, <<>>)
    /\ inquiries' = inquiries \cup
           {[op |-> "load", id |-> strokes', post |-> p, count |-> -1, list |-> <<>>, at |-> {"post", "list"}]}
    /\ wandered' = (wandered \/ inquiries # {})
    /\ UNCHANGED <<talkDb, shownPost, lopsided, mixed>>

Becoming(a, b) == inquiries' = (inquiries \ {a}) \cup {b}

\* fetchPostById and fetchCommentsByPost, side by side
ReadPost(a) ==
    /\ a.op = "load" /\ "post" \in a.at
    /\ Becoming(a, [a EXCEPT !.count = Cardinality(Roots(a.post)), !.at = @ \ {"post"}])
    /\ UNCHANGED <<talkDb, postPage, mounted, strokeBounds, threadAux>>

ReadComments(a) ==
    /\ a.op = "load" /\ "list" \in a.at
    /\ Becoming(a, [a EXCEPT !.list = CommentsOf(a.post), !.at = @ \ {"list"}])
    /\ UNCHANGED <<talkDb, postPage, mounted, strokeBounds, threadAux>>

\* The answers are shown whatever the address is by now.
LoadDone(a) ==
    /\ a.op = "load" /\ a.at = {}
    /\ inquiries' = inquiries \ {a}
    /\ phase' = "ready"
    /\ shownPost' = [post |-> a.post, count |-> a.count]
    /\ Mounts(TRUE, a.list, threads, hearts)
    /\ lopsided' = (a.count # Len(a.list))
    /\ wandered' = (wandered /\ (inquiries' # {} \/ a.post # address \/ Ready))
    /\ UNCHANGED <<talkDb, address, strokeBounds, mixed>>

LoadFails(a) ==
    /\ Breakdown
    /\ a.op = "load"
    /\ inquiries' = inquiries \ {a}
    /\ phase' = "error"
    /\ Mounts(FALSE, listed, <<>>, <<>>)
    /\ UNCHANGED <<talkDb, address, shownPost, wandered, lopsided, mixed>>

\* loadReplies: only a thread without any asks for them.
ToggleReplies(c) ==
    LET th == threads[c.nr]
        opened == [th EXCEPT !.open = TRUE, !.loading = @ \/ th.replies = <<>>]
    IN
    /\ Stroke
    /\ Ready /\ c.replies > 0
    /\ Mounts(TRUE, listed, [threads EXCEPT ![c.nr] = IF th.open THEN [th EXCEPT !.open = FALSE] ELSE opened], hearts)
    /\ IF ~th.open /\ th.replies = <<>>
       THEN /\ inquiries' = inquiries \cup
                  {[op |-> "replies", id |-> c.nr, nr |-> strokes', inst |-> th.inst, list |-> <<>>, at |-> "sent"]}
            /\ mixed' = IF \E a \in inquiries : a.op \in {"replies", "reply"} /\ a.id = c.nr
                        THEN mixed \cup {c.nr} ELSE mixed
       ELSE UNCHANGED <<inquiries, mixed>>
    /\ UNCHANGED <<talkDb, address, phase, shownPost, wandered, lopsided>>

ReadReplies(a) ==
    /\ a.op = "replies" /\ a.at = "sent"
    /\ Becoming(a, [a EXCEPT !.list = RepliesOf(a.id), !.at = "read"])
    /\ UNCHANGED <<talkDb, postPage, mounted, strokeBounds, threadAux>>

Live(a) == a.id \in DOMAIN threads /\ threads[a.id].inst = a.inst

\* They replace those there are, an own one among them.
RepliesDone(a) ==
    /\ a.op = "replies" /\ a.at = "read"
    /\ inquiries' = inquiries \ {a}
    /\ IF Live(a)
       THEN Mounts(Ready, listed, [threads EXCEPT ![a.id].replies = a.list, ![a.id].loading = FALSE], hearts)
       ELSE UNCHANGED <<listed, mounted, dark>>
    /\ UNCHANGED <<talkDb, address, phase, shownPost, strokeBounds, wandered, lopsided, mixed>>

RepliesFail(a) ==
    /\ Breakdown
    /\ a.op = "replies"
    /\ inquiries' = inquiries \ {a}
    /\ threads' = IF Live(a) THEN [threads EXCEPT ![a.id].loading = FALSE] ELSE threads
    /\ mixed' = mixed \cup {a.id}
    /\ UNCHANGED <<talkDb, postPage, hearts, mounts, wandered, lopsided, dark>>

-----------------------------------------------------------------------------
(* Writing *)

\* sendTopLevelComment, for the post of the address
WriteComment ==
    /\ Stroke
    /\ Ready /\ shownPost # NoPost
    /\ inquiries' = inquiries \cup
           {[op |-> "comment", id |-> Top, nr |-> strokes', post |-> address, inst |-> 0, made |-> 0]}
    /\ UNCHANGED <<talkDb, postPage, mounted, threadAux>>

\* sendReply
WriteReply(c) ==
    /\ Stroke
    /\ Ready
    /\ inquiries' = inquiries \cup
           {[op |-> "reply", id |-> c.nr, nr |-> strokes', post |-> c.post, inst |-> threads[c.nr].inst, made |-> 0]}
    /\ mixed' = IF \/ threads[c.nr].loading
                   \/ c.replies > Len(threads[c.nr].replies) THEN mixed \cup {c.nr} ELSE mixed
    /\ UNCHANGED <<talkDb, postPage, mounted, wandered, lopsided, dark>>

Utters(p, under, by) ==
    /\ uttered < MaxUttered /\ uttered' = uttered + 1
    /\ talk' = talk \cup {[nr |-> uttered', post |-> p, under |-> under, by |-> by, liked |-> FALSE]}

\* A comment whose replies change while the comments are being loaded
MeetsLoad(n) == IF \E a \in inquiries : a.op = "load" THEN {n} ELSE {}

\* create: what it answers has no replies and no likes yet.
StoreComment(a) ==
    /\ a.op \in {"comment", "reply"} /\ a.made = 0
    /\ a.id = Top \/ \E c \in talk : c.nr = a.id
    /\ Utters(a.post, a.id, "me")
    /\ Becoming(a, [a EXCEPT !.made = uttered'])
    /\ mixed' = mixed \cup MeetsLoad(a.id)
    /\ UNCHANGED <<postPage, mounted, strokeBounds, wandered, lopsided, dark>>

Made(a) == [nr |-> a.made, post |-> a.post, by |-> "me", under |-> a.id, replies |-> 0, likes |-> 0]

\* It goes on top of the comments there are, and is counted with the post.
CommentDone(a) ==
    /\ a.op = "comment" /\ a.made # 0
    /\ inquiries' = inquiries \ {a}
    /\ Mounts(Ready, <<Made(a)>> \o listed, threads, hearts)
    /\ shownPost' = [shownPost EXCEPT !.count = @ + 1]
    /\ UNCHANGED <<talkDb, address, phase, strokeBounds, wandered, lopsided, mixed>>

\* handleReplyCountChange
Counted(list, n, delta) ==
    [k \in DOMAIN list |-> IF list[k].nr = n THEN [list[k] EXCEPT !.replies = Max({0, @ + delta})] ELSE list[k]]

ReplyDone(a) ==
    /\ a.op = "reply" /\ a.made # 0
    /\ inquiries' = inquiries \ {a}
    /\ Mounts(Ready, Counted(listed, a.id, 1),
              IF Live(a) THEN [threads EXCEPT ![a.id].replies = Append(@, Made(a)), ![a.id].open = TRUE] ELSE threads,
              hearts)
    /\ UNCHANGED <<talkDb, address, phase, shownPost, strokeBounds, wandered, lopsided, mixed>>

\* What it is about is gone (404).
Refusable(a) ==
    /\ a.op \in {"reply", "delete", "heart"}
    /\ \A c \in talk : c.nr # a.id

\* The draft stays, and nothing is shown; or the answer was lost.
WriteFails(a) ==
    /\ a.op \in {"comment", "reply"}
    /\ \/ a.made = 0 /\ Refusable(a) /\ UNCHANGED <<strokeBounds, lopsided, mixed>>
       \/ /\ Breakdown
          /\ lopsided' = (lopsided \/ a.made # 0)
          /\ mixed' = mixed \cup {a.id}
    /\ inquiries' = inquiries \ {a}
    /\ UNCHANGED <<talkDb, postPage, mounted, wandered, dark>>

\* Another person comments, or replies.
OthersSay(p, under) ==
    /\ under = Top \/ \E c \in Roots(p) : c.nr = under
    /\ Utters(p, under, "other")
    /\ mixed' = mixed \cup ({under} \ {Top})
    /\ UNCHANGED <<postPage, mounted, inquiries, strokeBounds, wandered, lopsided, dark>>

-----------------------------------------------------------------------------
(* Deleting *)

Without(n) == talk \ ({c \in talk : c.nr = n} \cup RepliesTo(n))

OthersTakeBack(c) ==
    /\ Stroke
    /\ c.by = "other"
    /\ talk' = Without(c.nr)
    /\ mixed' = mixed \cup {c.under}
    /\ UNCHANGED <<uttered, postPage, mounted, inquiries, wandered, lopsided, dark>>

\* canDelete and deleteBusy of an item; the dialog has asked.
DeleteComment(c) ==
    /\ Stroke
    /\ Ready
    /\ c.by = "me" \/ shownPost.post \in MyPosts
    /\ \A a \in inquiries : ~(a.op = "delete" /\ a.inst = hearts[c.nr].inst /\ a.id = c.nr)
    /\ inquiries' = inquiries \cup
           {[op |-> "delete", id |-> c.nr, under |-> c.under, inst |-> hearts[c.nr].inst,
             of |-> IF c.under = Top THEN 0 ELSE threads[c.under].inst, at |-> "sent"]}
    /\ UNCHANGED <<talkDb, postPage, mounted, threadAux>>

\* remove, with the replies under it
StoreRemoval(a) ==
    /\ a.op = "delete" /\ a.at = "sent" /\ ~Refusable(a)
    /\ talk' = Without(a.id)
    /\ Becoming(a, [a EXCEPT !.at = "done"])
    /\ mixed' = mixed \cup MeetsLoad(a.under)
    /\ UNCHANGED <<uttered, postPage, mounted, strokeBounds, wandered, lopsided, dark>>

\* handleCommentDeleted, whichever post is shown by now
CommentRemoved(a) ==
    /\ a.op = "delete" /\ a.at = "done" /\ a.under = Top
    /\ inquiries' = inquiries \ {a}
    /\ Mounts(Ready, Filtered(listed, {k \in DOMAIN listed : listed[k].nr # a.id}), threads, hearts)
    /\ shownPost' = [shownPost EXCEPT !.count = Max({0, @ - 1})]
    /\ UNCHANGED <<talkDb, address, phase, strokeBounds, wandered, lopsided, mixed>>

\* handleReplyDeleted
ReplyRemoved(a) ==
    LET live == a.under \in DOMAIN threads /\ threads[a.under].inst = a.of
        left == {k \in DOMAIN threads[a.under].replies : threads[a.under].replies[k].nr # a.id}
    IN
    /\ a.op = "delete" /\ a.at = "done" /\ a.under # Top
    /\ inquiries' = inquiries \ {a}
    /\ Mounts(Ready, Counted(listed, a.under, -1),
              IF live THEN [threads EXCEPT ![a.under].replies = Filtered(@, left)] ELSE threads,
              hearts)
    /\ UNCHANGED <<talkDb, address, phase, shownPost, strokeBounds, wandered, lopsided, mixed>>

RemovalFails(a) ==
    /\ a.op = "delete"
    /\ \/ a.at = "sent" /\ Refusable(a) /\ UNCHANGED <<strokeBounds, lopsided, mixed>>
       \/ Breakdown /\ mixed' = mixed \cup {a.under} /\ UNCHANGED lopsided
    /\ inquiries' = inquiries \ {a}
    /\ UNCHANGED <<talkDb, postPage, mounted, wandered, dark>>

-----------------------------------------------------------------------------
(* Likes *)

Turned(h, on) == [h EXCEPT !.liked = on, !.count = Max({0, IF on THEN @ + 1 ELSE @ - 1})]

\* toggleLike, of an item
ToggleHeart(n) ==
    LET h == hearts[n] IN
    /\ Stroke
    /\ Ready /\ ~h.busy
    /\ hearts' = [hearts EXCEPT ![n] = [Turned(h, ~h.liked) EXCEPT !.busy = TRUE]]
    /\ inquiries' = inquiries \cup {[op |-> "heart", id |-> n, inst |-> h.inst, on |-> ~h.liked, at |-> "sent"]}
    /\ UNCHANGED <<talkDb, postPage, threads, mounts, threadAux>>

\* likeComment and unlikeComment: 409 and 404 when there is nothing to change.
StoreHeart(a) ==
    /\ a.op = "heart" /\ a.at = "sent"
    /\ LET c == {d \in talk : d.nr = a.id /\ d.liked # a.on} IN
       /\ talk' = (talk \ c) \cup {[d EXCEPT !.liked = a.on] : d \in c}
       /\ Becoming(a, [a EXCEPT !.at = IF c # {} THEN "done" ELSE "failed"])
    /\ UNCHANGED <<uttered, postPage, mounted, strokeBounds, threadAux>>

HeartFails(a) ==
    /\ Breakdown
    /\ a.op = "heart" /\ a.at # "failed"
    /\ dark' = IF a.at = "done" THEN dark \cup {a.id} ELSE dark
    /\ Becoming(a, [a EXCEPT !.at = "failed"])
    /\ UNCHANGED <<talkDb, postPage, mounted, wandered, lopsided, mixed>>

\* Mistake: a like that is refused stays.
HeartStays(a) ==
    /\ a.op = "heart" /\ a.at \in {"done", "failed"}
    /\ inquiries' = inquiries \ {a}
    /\ hearts' = IF a.id \in DOMAIN hearts /\ hearts[a.id].inst = a.inst
                 THEN [hearts EXCEPT ![a.id].busy = FALSE] ELSE hearts
    /\ UNCHANGED <<talkDb, postPage, threads, mounts, strokeBounds, threadAux>>

HeartAnswered(a) ==
    LET h == hearts[a.id] IN
    /\ a.op = "heart" /\ a.at \in {"done", "failed"}
    /\ inquiries' = inquiries \ {a}
    /\ hearts' = IF a.id \in DOMAIN hearts /\ h.inst = a.inst
                 THEN [hearts EXCEPT ![a.id] =
                          [(IF a.at = "done" THEN h ELSE Turned(h, ~a.on)) EXCEPT !.busy = FALSE]]
                 ELSE hearts
    /\ UNCHANGED <<talkDb, postPage, threads, mounts, strokeBounds, threadAux>>

ThreadNext ==
    \/ \E p \in Discussed : GoToPost(p) \/ (\E n \in {Top} \cup {c.nr : c \in talk} : OthersSay(p, n))
    \/ WriteComment
    \/ \E c \in ToSet(listed) : c.nr \in DOMAIN threads /\ (ToggleReplies(c) \/ WriteReply(c))
    \/ \E c \in Items(listed, threads) : c.nr \in DOMAIN hearts /\ DeleteComment(c)
    \/ \E n \in DOMAIN hearts : ToggleHeart(n)
    \/ \E c \in talk : OthersTakeBack(c)
    \/ \E a \in inquiries :
         \/ ReadPost(a) \/ ReadComments(a) \/ LoadDone(a) \/ LoadFails(a)
         \/ ReadReplies(a) \/ RepliesDone(a) \/ RepliesFail(a)
         \/ StoreComment(a) \/ CommentDone(a) \/ ReplyDone(a) \/ WriteFails(a)
         \/ StoreRemoval(a) \/ CommentRemoved(a) \/ ReplyRemoved(a) \/ RemovalFails(a)
         \/ StoreHeart(a) \/ HeartFails(a) \/ HeartAnswered(a)

-----------------------------------------------------------------------------
(* Properties *)

\* Unless the person moved on while something was under way, the page shows
\* the post of its address and only that post's comments, none of them twice,
\* and counts as many as it lists.
PageHolds ==
    Ready /\ ~wandered =>
        /\ shownPost.post = address
        /\ \A k \in DOMAIN listed : listed[k].post = address
        /\ IsInjective([k \in DOMAIN listed |-> listed[k].nr])
        /\ lopsided \/ shownPost.count = Len(listed)

\* A thread whose replies were read before any was written lists each once
\* and counts them, as long as its comment is there.
RepliesHold ==
    ~wandered => \A c \in ToSet(listed) :
        LET th == threads[c.nr] IN
        Ready /\ c.nr \in Numbers(talk) \ mixed /\ th.open /\ ~th.loading =>
            /\ IsInjective([k \in DOMAIN th.replies |-> th.replies[k].nr])
            /\ c.replies = Len(th.replies)

\* A heart that was not lit before it was shown is lit exactly while the
\* person likes the comment.
HeartsHold ==
    \A n \in DOMAIN hearts \ dark : ~hearts[n].busy => \A c \in talk : c.nr = n =>
        /\ hearts[n].liked = c.liked
        /\ hearts[n].count = IF c.liked THEN 1 ELSE 0

ThreadHolds == PageHolds /\ RepliesHold /\ HeartsHold
=============================================================================
