-------------------------------- MODULE Feed --------------------------------
(***************************************************************************)
(* The home page of one user over the stored posts: rows fetched page by   *)
(* page (HomePage.tsx), cards that like before they are answered           *)
(* (PostCard.tsx), the overlay that takes its likes back to the page       *)
(* (PostDetailPage.tsx, postEngagementNavigation.ts), and reposts, which   *)
(* the network service stores in four writes (posts.service.ts).  Posts    *)
(* are numbered in the order they are stored; the feed is newest first.    *)
(***************************************************************************)
EXTENDS Integers, Lists

CONSTANTS
    MaxPosts,       \* posts ever stored
    FeedPage,       \* PAGE, the rows fetched at a time
    MaxClicks,      \* bound on what users do
    MaxLosses       \* bound on failures

ASSUME FeedAssumption ==
    {MaxPosts, FeedPage} \subseteq Nat \ {0} /\ {MaxClicks, MaxLosses} \subseteq Nat

VARIABLES
    stored,     \* the posts: by whom, a repost of which, liked by whom, listed
    shares,     \* the share rows of the user: original and repost
    shareCount, \* shareCount of each post
    rows,       \* the page: posts, as last fetched
    paging,     \* the page: loading, loadingMore, hasMore, skip
    cards,      \* of each row: liked, likeCount, busy
    overlay,    \* the post shown over the page, and its like button
    patches,    \* postEngagementPatches of the page's history entry
    applied,    \* appliedKeyRef
    asks,       \* requests under way, in the order they were made
    clicks, losses, \* auxiliary: at most MaxClicks and MaxLosses
    strayed,    \* auxiliary: posts a failure or a race named below touched
    shifted,    \* auxiliary: whether pages of the feed moved under the page
    misShared   \* auxiliary: posts whose repost a crash or failure cut short

backend == <<stored, shares, shareCount>>
page == <<rows, paging, cards>>
visit == <<overlay, patches, applied>>
feedAux == <<strayed, shifted, misShared>>
feedVars == <<backend, page, visit, asks, clicks, losses, feedAux>>

PostIds == 1..MaxPosts
Nowhere == [of |-> 0, ready |-> FALSE, liked |-> FALSE, count |-> 0, busy |-> FALSE]

Fresh(by, of) == [by |-> by, of |-> of, likes |-> {}, listed |-> TRUE]
Absent == [by |-> "nobody", of |-> 0, likes |-> {}, listed |-> FALSE]

\* A first fetch is under way; by[id] wrote the posts there are.
FeedStart(by) ==
    /\ stored = [id \in PostIds |-> IF id <= Len(by) THEN Fresh(by[id], 0) ELSE Absent]
    /\ shares = {} /\ shareCount = [id \in PostIds |-> 0]
    /\ rows = <<>> /\ cards = <<>>
    /\ paging = [loading |-> TRUE, loadingMore |-> FALSE, hasMore |-> TRUE, skip |-> 0]
    /\ overlay = Nowhere /\ patches = <<>> /\ applied = <<>>
    /\ asks = <<[op |-> "refresh", id |-> 0, at |-> "asked", data |-> <<>>, late |-> FALSE,
                  from |-> "page"]>>
    /\ clicks = 0 /\ losses = 0
    /\ strayed = {} /\ shifted = FALSE /\ misShared = {}

Click == clicks < MaxClicks /\ clicks' = clicks + 1 /\ UNCHANGED losses
Loss == losses < MaxLosses /\ losses' = losses + 1 /\ UNCHANGED clicks
feedBounds == <<clicks, losses>>

Ask(op, id, from) ==
    [op |-> op, id |-> id, at |-> "asked", data |-> <<>>, late |-> FALSE, from |-> from]

Dropped(i) == SubSeq(asks, 1, i - 1) \o SubSeq(asks, i + 1, Len(asks))

Waiting == {asks[i] : i \in 1..Len(asks)}
Fetching == \E q \in Waiting : q.op \in {"refresh", "more"}

\* A like asked for where nobody waits for it any more, still to be stored.
Orphaned(id, from) ==
    \E q \in Waiting : q.op \in {"like", "unlike"} /\ q.id = id /\ q.at = "asked" /\ q.from = from

IdsOf(s) == {s[k].id : k \in 1..Len(s)}

\* The rows of the page but one.
RowsWithout(id) == Filtered(rows, {k \in 1..Len(rows) : rows[k].id # id})

-----------------------------------------------------------------------------
(* What the services answer *)

Timeline == Descending({id \in PostIds : stored[id].listed})

RowOf(id) ==
    [id |-> id, liked |-> "me" \in stored[id].likes, count |-> Cardinality(stored[id].likes)]

\* getFeed
Window(skip) ==
    LET last == IF skip + FeedPage < Len(Timeline) THEN skip + FeedPage ELSE Len(Timeline)
    IN [k \in 1..(last - skip) |-> RowOf(Timeline[skip + k])]

At(i, op, at) == asks[i].op = op /\ asks[i].at = at

Moves(i, at) == asks' = [asks EXCEPT ![i].at = at]

Answers(i, data) == asks' = [asks EXCEPT ![i].at = "done", ![i].data = data]

GetFeed(i) ==
    /\ At(i, "refresh", "asked") \/ At(i, "more", "asked")
    /\ Answers(i, Window(asks[i].id))
    /\ strayed' = strayed \cup {k.id : k \in {q \in Waiting : q.from \in {"detail", "left"}}}
    /\ UNCHANGED <<backend, page, visit, feedBounds, shifted, misShared>>

\* findById
FindPost(i) ==
    /\ At(i, "load", "asked")
    /\ IF stored[asks[i].id].listed THEN Answers(i, <<RowOf(asks[i].id)>>) ELSE Moves(i, "failed")
    /\ UNCHANGED <<backend, page, visit, feedBounds, feedAux>>

\* likePost, unlikePost: the services' own steps are Engagement's.
StoreLike(i) ==
    LET id == asks[i].id
        liking == asks[i].op = "like"
    IN
    /\ At(i, "like", "asked") \/ At(i, "unlike", "asked")
    /\ IF ("me" \in stored[id].likes) = liking \/ (liking /\ ~stored[id].listed)
       THEN Moves(i, "failed") /\ strayed' = strayed \cup {id} /\ UNCHANGED stored
       ELSE /\ Moves(i, "done")
            /\ stored' = [stored EXCEPT ![id].likes = IF liking THEN @ \cup {"me"} ELSE @ \ {"me"}]
            /\ UNCHANGED strayed
    /\ UNCHANGED <<shares, shareCount, page, visit, feedBounds, shifted, misShared>>

NextId == CHOOSE id \in PostIds : stored[id] = Absent /\ \A j \in 1..(id - 1) : stored[j] # Absent
RoomLeft == \E id \in PostIds : stored[id] = Absent

StorePost(i) ==
    /\ At(i, "create", "asked") /\ RoomLeft
    /\ stored' = [stored EXCEPT ![NextId] = Fresh("me", 0)]
    /\ Moves(i, "done")
    /\ UNCHANGED <<shares, shareCount, page, visit, feedBounds, feedAux>>

DeletePost(i) ==
    LET id == asks[i].id IN
    /\ At(i, "delete", "asked")
    /\ stored' = [stored EXCEPT ![id] = [@ EXCEPT !.by = "deleted", !.listed = FALSE]]
    /\ Moves(i, IF stored[id].by = "me" THEN "done" ELSE "failed")
    /\ UNCHANGED <<shares, shareCount, page, visit, feedBounds, feedAux>>

\* share: the original and the share row are looked up first.
ShareChecks(i) ==
    LET id == asks[i].id IN
    /\ At(i, "share", "asked")
    /\ Moves(i, IF ~stored[id].listed \/ \E s \in shares : s.of = id THEN "failed" ELSE "checked")
    /\ UNCHANGED <<backend, page, visit, feedBounds, feedAux>>

ShareSavesRepost(i) ==
    LET repost == NextId IN
    /\ At(i, "share", "checked") /\ RoomLeft
    /\ stored' = [stored EXCEPT ![repost] = Fresh("me", asks[i].id)]
    /\ asks' = [asks EXCEPT ![i].at = "posted", ![i].data = <<RowOf(repost)>>]
    /\ UNCHANGED <<shares, shareCount, page, visit, feedBounds, feedAux>>

Erased(i) ==
    [stored EXCEPT ![asks[i].data[1].id] = [@ EXCEPT !.by = "deleted", !.listed = FALSE]]

\* The share row is unique; refused, the repost is deleted again.
ShareSavesRow(i) ==
    LET id == asks[i].id IN
    /\ At(i, "share", "posted")
    /\ IF \E s \in shares : s.of = id
       THEN stored' = Erased(i) /\ Moves(i, "failed") /\ shifted' = TRUE /\ UNCHANGED shares
       ELSE /\ shares' = shares \cup {[of |-> id, repost |-> asks[i].data[1].id]}
            /\ Moves(i, "shared")
            /\ UNCHANGED <<stored, shifted>>
    /\ UNCHANGED <<shareCount, page, visit, feedBounds, strayed, misShared>>

ShareCounts(i) ==
    /\ At(i, "share", "shared")
    /\ shareCount' = [shareCount EXCEPT ![asks[i].id] = @ + 1]
    /\ Moves(i, "done")
    /\ UNCHANGED <<stored, shares, page, visit, feedBounds, feedAux>>

\* A query of share fails; the deletion that should make up for it may too.
ShareFails(i) ==
    /\ Loss
    /\ asks[i].op = "share" /\ asks[i].at \in {"posted", "shared"}
    /\ \/ asks[i].at = "posted" /\ stored' = Erased(i) /\ UNCHANGED misShared
       \/ misShared' = misShared \cup {asks[i].id} /\ UNCHANGED stored
    /\ Moves(i, "failed")
    /\ shifted' = TRUE
    /\ UNCHANGED <<shares, shareCount, page, visit, strayed>>

\* The replica dies; the message is delivered again.
ShareAgain(i) ==
    /\ Loss
    /\ asks[i].op = "share" /\ asks[i].at \in {"checked", "posted", "shared"}
    /\ Moves(i, "asked")
    /\ misShared' = IF asks[i].at = "checked" THEN misShared ELSE misShared \cup {asks[i].id}
    /\ UNCHANGED <<backend, page, visit, strayed, shifted>>

\* A request that never arrives, or an answer that does not.
Lost(i) ==
    /\ Loss
    /\ asks[i].at \in {"asked", "done"} /\ asks[i].from # "elsewhere"
    /\ Moves(i, "failed")
    /\ strayed' = strayed \cup CASE asks[i].op = "refresh" -> PostIds
                                 [] asks[i].op = "more" -> {}
                                 [] OTHER -> {asks[i].id}
    /\ shifted' = (shifted \/ asks[i].op \in {"refresh", "create", "delete"})
    /\ UNCHANGED <<backend, page, visit, misShared>>

-----------------------------------------------------------------------------
(* The page *)

\* Rows are shown: a card follows its row when the row changes, and starts
\* anew with it; a card that goes takes no answer any more.
Show(new, queue) ==
    /\ rows' = new
    /\ cards' = [id \in IdsOf(new) |->
           LET row == CHOOSE r \in {new[k] : k \in 1..Len(new)} : r.id = id
               same == \E k \in 1..Len(rows) : rows[k] = row
           IN CASE same -> cards[id]
                [] ~same /\ id \in IdsOf(rows) ->
                     [liked |-> row.liked, count |-> row.count, busy |-> cards[id].busy]
                [] OTHER -> [liked |-> row.liked, count |-> row.count, busy |-> FALSE]]
    /\ asks' = [k \in 1..Len(queue) |->
           IF queue[k].from = "card" /\ queue[k].id \notin IdsOf(new)
           THEN [queue[k] EXCEPT !.from = "nobody"] ELSE queue[k]]

\* Fetches that were asked for before one that is answered first are late.
Overtaken(i) ==
    [k \in 1..(Len(asks) - 1) |->
        IF k < i /\ asks[k].op \in {"refresh", "more"} THEN [asks[k] EXCEPT !.late = TRUE]
        ELSE Dropped(i)[k]]

\* refreshFeed
Refresh(queue) ==
    /\ asks' = Append(queue, Ask("refresh", 0, "page"))
    /\ paging' = [paging EXCEPT !.loading = TRUE]

RefreshAnswered(i) ==
    LET data == asks[i].data IN
    /\ asks[i].op = "refresh" /\ asks[i].at \in {"done", "failed"}
    /\ IF asks[i].at = "done"
       THEN /\ Show(data, Overtaken(i))
            /\ paging' = [paging EXCEPT !.loading = FALSE, !.skip = Len(data),
                                        !.hasMore = Len(data) >= FeedPage]
            /\ strayed' = IF asks[i].late THEN PostIds ELSE strayed
            /\ shifted' = (shifted \/ asks[i].late)
       ELSE /\ paging' = [paging EXCEPT !.loading = FALSE]
            /\ asks' = Dropped(i)
            /\ UNCHANGED <<rows, cards, strayed, shifted>>
    /\ UNCHANGED <<backend, visit, feedBounds, misShared>>

LoadMore ==
    /\ ~paging.loading /\ ~paging.loadingMore /\ paging.hasMore
    /\ Click
    /\ asks' = Append(asks, Ask("more", paging.skip, "page"))
    /\ paging' = [paging EXCEPT !.loadingMore = TRUE]
    /\ shifted' = (shifted \/ Fetching)
    /\ UNCHANGED <<backend, rows, cards, visit, strayed, misShared>>

\* Mistake: rows that are shown already come again.
MergedTwice(data) == rows \o data

\* Rows already there are not added again.
Merged(data) == rows \o Filtered(data, {k \in 1..Len(data) : data[k].id \notin IdsOf(rows)})

MoreAnswered(i) ==
    LET data == asks[i].data IN
    /\ asks[i].op = "more" /\ asks[i].at \in {"done", "failed"}
    /\ IF asks[i].at = "done"
       THEN /\ Show(Merged(data), Overtaken(i))
            /\ paging' = [paging EXCEPT !.loadingMore = FALSE, !.skip = @ + Len(data),
                                        !.hasMore = Len(data) >= FeedPage]
            /\ strayed' = IF asks[i].late THEN strayed \cup IdsOf(data) ELSE strayed
            /\ shifted' = (shifted \/ asks[i].late)
       ELSE /\ paging' = [paging EXCEPT !.loadingMore = FALSE]
            /\ asks' = Dropped(i)
            /\ UNCHANGED <<rows, cards, strayed, shifted>>
    /\ UNCHANGED <<backend, visit, feedBounds, misShared>>

Flipped(button) ==
    [button EXCEPT !.liked = ~button.liked,
                   !.count = IF button.liked THEN (IF @ = 0 THEN 0 ELSE @ - 1) ELSE @ + 1]

\* toggleLike: shown before it is asked for.
ToggleLike(id) ==
    /\ Click
    /\ overlay.of = 0 /\ id \in IdsOf(rows) /\ ~cards[id].busy
    /\ cards' = [cards EXCEPT ![id] = [Flipped(@) EXCEPT !.busy = TRUE]]
    /\ asks' = Append(asks, Ask(IF cards[id].liked THEN "unlike" ELSE "like", id, "card"))
    /\ strayed' = IF Orphaned(id, "nobody") THEN strayed \cup {id} ELSE strayed
    /\ UNCHANGED <<backend, rows, paging, visit, shifted, misShared>>

LikeAnswered(i) ==
    LET id == asks[i].id
        mounted == asks[i].from = "card"
        after == IF asks[i].at = "done" THEN cards[id] ELSE Flipped(cards[id])
    IN
    /\ asks[i].op \in {"like", "unlike"} /\ asks[i].from \in {"card", "nobody"}
    /\ asks[i].at \in {"done", "failed"}
    /\ cards' = IF mounted THEN [cards EXCEPT ![id] = [after EXCEPT !.busy = FALSE]] ELSE cards
    /\ IF asks[i].at = "done" THEN Refresh(Dropped(i))
       ELSE asks' = Dropped(i) /\ UNCHANGED paging
    /\ UNCHANGED <<backend, rows, visit, feedBounds, feedAux>>

\* removePost: the row goes, and the feed is fetched again.
RemovePost(id) ==
    /\ Click
    /\ overlay.of = 0 /\ id \in IdsOf(rows) /\ stored[id].by = "me" /\ ~cards[id].busy
    /\ cards' = [cards EXCEPT ![id].busy = TRUE]
    /\ asks' = Append(asks, Ask("delete", id, "card"))
    /\ UNCHANGED <<backend, rows, paging, visit, feedAux>>

PostRemoved(i) ==
    LET id == asks[i].id IN
    /\ asks[i].op = "delete" /\ asks[i].at \in {"done", "failed"}
    /\ IF asks[i].at = "done"
       THEN /\ Show(RowsWithout(id),
                    Append(Dropped(i), Ask("refresh", 0, "page")))
            /\ paging' = [paging EXCEPT !.loading = TRUE]
       ELSE /\ cards' = IF asks[i].from = "card" THEN [cards EXCEPT ![id].busy = FALSE] ELSE cards
            /\ asks' = Dropped(i)
            /\ UNCHANGED <<rows, paging>>
    /\ UNCHANGED <<backend, visit, feedBounds, feedAux>>

\* FeedComposer: one at a time; published, the feed is fetched again.
Compose ==
    /\ Click
    /\ overlay.of = 0 /\ "create" \notin {q.op : q \in Waiting} /\ RoomLeft
    /\ asks' = Append(asks, Ask("create", 0, "page"))
    /\ UNCHANGED <<backend, page, visit, feedAux>>

Composed(i) ==
    /\ asks[i].op = "create" /\ asks[i].at \in {"done", "failed"}
    /\ IF asks[i].at = "done" THEN Refresh(Dropped(i))
       ELSE asks' = Dropped(i) /\ UNCHANGED paging
    /\ UNCHANGED <<backend, rows, cards, visit, feedBounds, feedAux>>

\* submitRepost, from this page or from another tab of the user's; what is
\* shared is the original.
Repost(id, from) ==
    LET of == IF stored[id].of = 0 THEN id ELSE stored[id].of IN
    /\ Click
    /\ id \in IdsOf(rows) /\ stored[of].by = "other" /\ RoomLeft
    /\ from = "page" => overlay.of = 0
    /\ \A q \in Waiting : q.op = "share" => q.from # from
    /\ asks' = Append(asks, Ask("share", of, from))
    /\ UNCHANGED <<backend, page, visit, feedAux>>

Reposted(i) ==
    /\ asks[i].op = "share" /\ asks[i].at \in {"done", "failed"}
    /\ IF asks[i].at = "done" /\ asks[i].from = "page"
       THEN LET new == asks[i].data[1] IN
            /\ Show(<<new>> \o RowsWithout(new.id), Dropped(i))
            /\ strayed' = IF RowOf(new.id) # new \/ Orphaned(new.id, "left")
                          THEN strayed \cup {new.id} ELSE strayed
       ELSE asks' = Dropped(i) /\ UNCHANGED <<rows, cards, strayed>>
    /\ UNCHANGED <<backend, paging, visit, feedBounds, shifted, misShared>>

-----------------------------------------------------------------------------
(* The post over the page *)

OpenPost(id) ==
    /\ Click
    /\ overlay.of = 0 /\ id \in IdsOf(rows)
    /\ overlay' = [Nowhere EXCEPT !.of = id]
    /\ asks' = Append(asks, Ask("load", id, "detail"))
    /\ strayed' = strayed \cup {q.id : q \in {k \in Waiting : k.op \in {"like", "unlike"} /\ k.id = id}}
    /\ UNCHANGED <<backend, page, patches, applied, shifted, misShared>>

PostLoaded(i) ==
    LET row == asks[i].data[1] IN
    /\ asks[i].op = "load" /\ asks[i].at \in {"done", "failed"}
    /\ overlay' = IF asks[i].at = "done" /\ asks[i].from = "detail"
                  THEN [overlay EXCEPT !.ready = TRUE, !.liked = row.liked, !.count = row.count]
                  ELSE overlay
    /\ asks' = Dropped(i)
    /\ UNCHANGED <<backend, page, patches, applied, feedBounds, feedAux>>

TogglePostLike ==
    /\ Click
    /\ overlay.ready /\ ~overlay.busy
    /\ overlay' = [Flipped(overlay) EXCEPT !.busy = TRUE]
    /\ asks' = Append(asks, Ask(IF overlay.liked THEN "unlike" ELSE "like", overlay.of, "detail"))
    /\ strayed' = IF Fetching THEN strayed \cup {overlay.of} ELSE strayed
    /\ UNCHANGED <<backend, page, patches, applied, shifted, misShared>>

PostLikeAnswered(i) ==
    LET after == IF asks[i].at = "done" THEN overlay ELSE Flipped(overlay) IN
    /\ asks[i].op \in {"like", "unlike"} /\ asks[i].from \in {"detail", "left"}
    /\ asks[i].at \in {"done", "failed"}
    /\ overlay' = IF asks[i].from = "detail" THEN [after EXCEPT !.busy = FALSE] ELSE overlay
    /\ asks' = Dropped(i)
    /\ UNCHANGED <<backend, page, patches, applied, feedBounds, feedAux>>

\* upsertEngagementPatch, with what the button shows, answered or not
UpsertedPatches ==
    IF ~overlay.ready THEN patches
    ELSE [p \in {overlay.of} \cup DOMAIN patches |->
            IF p = overlay.of THEN [liked |-> overlay.liked, count |-> overlay.count]
            ELSE patches[p]]

MergeEngagementPatches(new) ==
    [k \in 1..Len(rows) |->
        IF rows[k].id \in DOMAIN new
        THEN [id |-> rows[k].id, liked |-> new[rows[k].id].liked, count |-> new[rows[k].id].count]
        ELSE rows[k]]

\* dismissOverlay; then usePostEngagementFromNavigation merges every patch of
\* the history entry, but not the same ones twice in a row.
DismissOverlay ==
    LET id == overlay.of
        new == UpsertedPatches
        merge == new # applied
    IN
    /\ overlay.of # 0
    /\ overlay' = Nowhere /\ patches' = new /\ applied' = new
    /\ LET left == [k \in 1..Len(asks) |->
                      IF asks[k].from = "detail" THEN [asks[k] EXCEPT !.from = "left"] ELSE asks[k]]
       IN Show(IF merge THEN MergeEngagementPatches(new) ELSE rows, left)
    /\ strayed' = strayed \cup (IF merge THEN DOMAIN new \ {id}
                                ELSE IF overlay.ready THEN {id} ELSE {})
                       \cup (IF Fetching THEN {id} ELSE {})
    /\ UNCHANGED <<backend, paging, feedBounds, shifted, misShared>>

-----------------------------------------------------------------------------
(* Everybody else *)

OthersLike(id) ==
    /\ Click
    /\ stored[id].listed
    /\ stored' = [stored EXCEPT ![id].likes = IF "other" \in @ THEN @ \ {"other"} ELSE @ \cup {"other"}]
    /\ strayed' = strayed \cup {id}
    /\ UNCHANGED <<shares, shareCount, page, visit, asks, shifted, misShared>>

OthersPost ==
    /\ Click /\ RoomLeft
    /\ stored' = [stored EXCEPT ![NextId] = Fresh("other", 0)]
    /\ UNCHANGED <<shares, shareCount, page, visit, asks, feedAux>>

\* A post is deleted by its author, or held by the moderation.
Withdrawn(id) ==
    /\ Click
    /\ stored[id].listed
    /\ stored' = [stored EXCEPT ![id].listed = FALSE]
    /\ shifted' = TRUE
    /\ UNCHANGED <<shares, shareCount, page, visit, asks, strayed, misShared>>

Served(i) ==
    \/ GetFeed(i) \/ FindPost(i) \/ StoreLike(i) \/ StorePost(i) \/ DeletePost(i)
    \/ ShareChecks(i) \/ ShareSavesRepost(i) \/ ShareSavesRow(i) \/ ShareCounts(i)
    \/ ShareFails(i) \/ ShareAgain(i) \/ Lost(i)

Answered(i) ==
    \/ RefreshAnswered(i) \/ MoreAnswered(i) \/ LikeAnswered(i) \/ PostRemoved(i)
    \/ Composed(i) \/ Reposted(i) \/ PostLoaded(i) \/ PostLikeAnswered(i)

FeedNext ==
    \/ \E i \in 1..Len(asks) : Served(i) \/ Answered(i)
    \/ \E id \in PostIds :
         \/ ToggleLike(id) \/ RemovePost(id) \/ OpenPost(id) \/ OthersLike(id) \/ Withdrawn(id)
         \/ \E from \in {"page", "elsewhere"} : Repost(id, from)
    \/ LoadMore \/ Compose \/ TogglePostLike \/ DismissOverlay \/ OthersPost

-----------------------------------------------------------------------------
(* Properties *)

AllAnswered == asks = <<>> /\ overlay.of = 0

\* No post is shown twice.
RowsOnce == Cardinality(IdsOf(rows)) = Len(rows)

\* When all is answered a card shows the user's like, and the number of
\* likes, that are stored; no button stays disabled.
CardsAgree ==
    AllAnswered => \A id \in IdsOf(rows) :
        /\ ~cards[id].busy
        /\ stored[id].listed /\ id \notin strayed
             => /\ cards[id].liked = ("me" \in stored[id].likes)
                /\ cards[id].count = Cardinality(stored[id].likes)

\* Having reached the end, the page has every post older than one it has
\* fetched: a repost is put in front, whatever was posted before it.
NothingSkipped ==
    AllAnswered /\ ~paging.hasMore /\ ~shifted =>
        \A id \in IdsOf(rows) : stored[id].of = 0 =>
            \A older \in 1..id : stored[older].listed => older \in IdsOf(rows)

\* A post has one repost of the user's at most, with its share row, counted.
SharedOnce ==
    AllAnswered => \A of \in PostIds \ misShared :
        LET reposts == {id \in PostIds : stored[id].by = "me" /\ stored[id].of = of}
            mine == {s \in shares : s.of = of}
        IN
        /\ Cardinality(reposts) <= 1
        /\ \A id \in reposts : [of |-> of, repost |-> id] \in shares
        /\ shareCount[of] = Cardinality(mine)

FeedAgrees == RowsOnce /\ CardsAgree /\ NothingSkipped /\ SharedOnce
=============================================================================
