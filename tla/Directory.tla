------------------------------ MODULE Directory ------------------------------
(***************************************************************************)
(* Whom a user follows, as the pages show it: the store the pages share    *)
(* (profileCache.store.ts), the follow buttons that flip before they are   *)
(* answered (FollowButton.tsx), the navigation bar that loads the list     *)
(* anew whenever the user's own profile changes (AppNavBar.tsx), and the   *)
(* pages of profiles, of followers and of the directory, over the queries  *)
(* of the user service.  FollowGraph has the service's own interleavings;  *)
(* here one of its calls is one step, and nobody else follows anybody.     *)
(***************************************************************************)
EXTENDS Integers, FiniteSets

CONSTANTS
    Folk,           \* other users
    Knows,          \* whom each of them follows
    Matches,        \* whom each search finds
    MaxTurns,       \* bound on what the user does
    MaxSnags        \* bound on requests that fail

Me == "me"
Nobody == "nobody"
Uncached == -1

ASSUME DirectoryAssumption ==
    /\ IsFiniteSet(Folk) /\ Me \notin Folk
    /\ Knows \in [Folk -> SUBSET Folk] /\ \A q \in DOMAIN Matches : Matches[q] \subseteq Folk
    /\ {MaxTurns, MaxSnags} \subseteq Nat

VARIABLES
    follows,    \* the service: whom the user follows
    cache,      \* the store: followingIds, and the counts of cached profiles
    view,       \* the page: where it is, and its states
    finder,     \* DiscoverPage: query, timer, answers of the search
    panelOf,    \* SuggestedPeoplePanel: loading and suggestions
    mounting,   \* counts the times follow buttons were mounted
    errands,    \* requests under way
    turns, snags,   \* auxiliary: at most MaxTurns and MaxSnags
    hydrated,   \* auxiliary: whether a following list was loaded
    blurred     \* auxiliary: whose follow a failure or a crossing touched

shownVars == <<view, finder, panelOf, mounting>>
directoryAux == <<hydrated, blurred>>
turnBounds == <<turns, snags>>
directoryVars == <<follows, cache, shownVars, errands, turnBounds, directoryAux>>

Errand(op, from, who, id) ==
    [op |-> op, from |-> from, who |-> who, id |-> id, at |-> 0, step |-> "asked", rows |-> {},
     mixed |-> {}]

NoFinder == [query |-> "", nr |-> 0, timer |-> FALSE, loading |-> FALSE, wrong |-> FALSE,
             hits |-> {}, of |-> ""]
NoPanel == [loading |-> FALSE, suggestions |-> {}]

\* Signed in at a page without follow buttons; the bar asks for the profile.
DirectoryStart(followed, taken) ==
    /\ follows = followed
    /\ cache = [ids |-> {}, counts |-> [w \in Folk \cup {Me} |-> Uncached]]
    /\ view = [page |-> "home", who |-> Nobody, phase |-> "ready", shown |-> Nobody,
               rows |-> {}, named |-> Nobody]
    /\ finder = NoFinder /\ panelOf = NoPanel /\ mounting = 0
    /\ errands = {Errand("me", "bar", Nobody, 0)}
    /\ turns = taken /\ snags = 0
    /\ hydrated = FALSE /\ blurred = [ids |-> {}, counts |-> {}]

Turn == turns < MaxTurns /\ turns' = turns + 1 /\ UNCHANGED snags
Snag == snags < MaxSnags /\ snags' = snags + 1 /\ UNCHANGED turns

-----------------------------------------------------------------------------
(* The store and its effects *)

\* What the service counts: followers of another, those the user follows
Count(w) == IF w = Me THEN Cardinality(follows) ELSE IF w \in follows THEN 1 ELSE 0

Bumped(counts, p, by) ==
    [w \in DOMAIN counts |->
        IF w \in {p, Me} /\ counts[w] # Uncached /\ counts[w] + by >= 0 THEN counts[w] + by
        ELSE counts[w]]

MarkFollowed(p) ==
    IF p \in cache.ids THEN cache
    ELSE [ids |-> cache.ids \cup {p}, counts |-> Bumped(cache.counts, p, 1)]

MarkUnfollowed(p) ==
    IF p \notin cache.ids THEN cache
    ELSE [ids |-> cache.ids \ {p}, counts |-> Bumped(cache.counts, p, -1)]

FollowOps == {"follow", "unfollow"}
Asked(es) == {e.who : e \in {f \in es : f.op \in FollowOps}}

\* A load has seen, or may see, the follows asked for next to it.
LoadsBegun(es, new) == es \cup {[e EXCEPT !.mixed = Asked(es)] : e \in new}

\* The bar loads the list whenever myProfile is another object, and the
\* directory page when the set is of another size, and empty; either drops
\* the load it had under way.
Effects(c, es, mineChanged) ==
    LET sized == view.page = "discover" /\ Cardinality(c.ids) # Cardinality(cache.ids)
        dropped == {e \in es : \/ mineChanged /\ e.from = "bar"
                               \/ sized /\ e.from = "page" /\ e.op = "ids"}
        begun == (IF mineChanged THEN {Errand("ids", "bar", Nobody, 0)} ELSE {})
                     \cup (IF sized /\ c.ids = {} THEN {Errand("ids", "page", Nobody, 0)} ELSE {})
    IN LoadsBegun(es \ dropped, begun)

\* Marks change myProfile if there is one.
Marked(c, es) ==
    /\ cache' = c
    /\ errands' = Effects(c, es, c # cache /\ cache.counts[Me] # Uncached)

-----------------------------------------------------------------------------
(* The pages *)

\* What a page that is left drops: answers it no longer takes. A button's
\* request goes on.
Kept == {e \in errands : e.from \in {"bar", "button"}}

OpenHome ==
    /\ Turn
    /\ view.page # "home"
    /\ view' = [page |-> "home", who |-> Nobody, phase |-> "ready", shown |-> Nobody,
                rows |-> {}, named |-> Nobody]
    /\ finder' = NoFinder /\ panelOf' = NoPanel /\ mounting' = mounting + 1
    /\ errands' = Kept
    /\ UNCHANGED <<follows, cache, directoryAux>>

OpenDiscover ==
    /\ Turn
    /\ view.page # "discover"
    /\ view' = [page |-> "discover", who |-> Nobody, phase |-> "ready", shown |-> Nobody,
                rows |-> {}, named |-> Nobody]
    /\ finder' = NoFinder /\ mounting' = mounting + 1
    /\ panelOf' = [loading |-> TRUE, suggestions |-> {}]
    /\ errands' = LoadsBegun(Kept, {Errand("suggest", "page", Nobody, mounting + 1)}
                      \cup (IF cache.ids = {} THEN {Errand("ids", "page", Nobody, 0)} ELSE {}))
    /\ UNCHANGED <<follows, cache, directoryAux>>

\* A profile that is cached is shown at once. From one profile to another
\* the follow button stays mounted.
OpenProfile(who) ==
    LET cached == cache.counts[who] # Uncached
        same == view.page = "profile"
    IN
    /\ Turn
    /\ <<view.page, view.who>> # <<"profile", who>>
    /\ view' = [page |-> "profile", who |-> who, phase |-> IF cached THEN "ready" ELSE "loading",
                shown |-> IF cached THEN who ELSE IF same THEN view.shown ELSE Nobody,
                rows |-> {}, named |-> Nobody]
    /\ finder' = NoFinder /\ panelOf' = NoPanel
    /\ mounting' = IF same /\ cached /\ view.phase = "ready" /\ Me \notin {who, view.who}
                   THEN mounting ELSE mounting + 1
    /\ errands' = LoadsBegun(Kept, {Errand(IF who = Me THEN "me" ELSE "profile", "page", who, 0)})
    /\ UNCHANGED <<follows, cache, directoryAux>>

\* The list of those the user follows, or of the followers of another. The
\* heading keeps the name it had when one list leads to the next.
OpenEdges(who) ==
    /\ Turn
    /\ <<view.page, view.who>> # <<"edges", who>>
    /\ view' = [page |-> "edges", who |-> who, phase |-> "loading", shown |-> Nobody, rows |-> {},
                named |-> IF view.page = "edges" THEN view.named
                          ELSE IF who # Me /\ cache.counts[who] # Uncached THEN who ELSE Nobody]
    /\ finder' = NoFinder /\ panelOf' = NoPanel /\ mounting' = mounting + 1
    /\ errands' = LoadsBegun(Kept, {Errand("edges", "page", who, 0)})
    /\ UNCHANGED <<follows, cache, directoryAux>>

\* A query of two letters shows the results in place of the suggestions, one
\* too short ("") the suggestions, mounted again.
TypeQuery(q) ==
    /\ Turn
    /\ view.page = "discover" /\ q # finder.query
    /\ finder' = IF q = ""
                 THEN [finder EXCEPT !.query = q, !.timer = FALSE, !.loading = FALSE,
                                     !.wrong = FALSE, !.hits = {}, !.of = ""]
                 ELSE [finder EXCEPT !.query = q, !.timer = TRUE, !.loading = TRUE,
                                     !.wrong = FALSE, !.nr = @ + 1]
    /\ mounting' = mounting + 1
    /\ panelOf' = [loading |-> q = "", suggestions |-> {}]
    /\ errands' = LET others == {e \in errands : e.op # "suggest"}
                  IN IF q = "" THEN others \cup {Errand("suggest", "page", Nobody, mounting + 1)}
                     ELSE others
    /\ UNCHANGED <<follows, cache, view, directoryAux>>

\* The timer of the last query typed runs out.
StartSearch ==
    /\ finder.timer
    /\ finder' = [finder EXCEPT !.timer = FALSE]
    /\ errands' = errands \cup {Errand("search", "page", finder.query, finder.nr)}
    /\ UNCHANGED <<follows, cache, view, panelOf, mounting, turnBounds, directoryAux>>

ReloadSuggestions ==
    /\ Turn
    /\ view.page = "discover" /\ finder.query = "" /\ ~panelOf.loading
    /\ panelOf' = [panelOf EXCEPT !.loading = TRUE]
    /\ errands' = errands \cup {Errand("suggest", "page", Nobody, mounting)}
    /\ UNCHANGED <<follows, cache, view, finder, mounting, directoryAux>>

\* Whose follow buttons are on the page
Buttons ==
    CASE view.page = "profile" /\ view.phase = "ready" -> {view.shown} \ {Me}
      [] view.page = "edges" /\ view.phase = "ready" -> view.rows
      [] view.page = "discover" /\ finder.query # "" /\ ~finder.loading /\ ~finder.wrong ->
             finder.hits
      [] view.page = "discover" /\ finder.query = "" /\ ~panelOf.loading ->
             panelOf.suggestions \ cache.ids
      [] OTHER -> {}

\* pending belongs to the button; all profiles share one, and a suggestion
\* that is followed is hidden: if it comes back, its button is a new one.
Flipping(p) ==
    /\ view.page = "discover" => finder.query # ""
    /\ \E e \in errands : e.from = "button" /\ e.id = mounting /\ (e.who = p \/ view.page = "profile")

ClickFollow(p) ==
    LET op == IF p \in cache.ids THEN "unfollow" ELSE "follow"
        crossed == {p} \cap (Asked(errands) \cup blurred.ids)
        during == {[e EXCEPT !.mixed = @ \cup {p}] : e \in errands}
    IN
    /\ Turn
    /\ p \in Buttons /\ ~Flipping(p)
    /\ Marked(IF op = "follow" THEN MarkFollowed(p) ELSE MarkUnfollowed(p),
              during \cup {[Errand(op, "button", p, mounting) EXCEPT !.at = turns]})
    /\ blurred' = [ids |-> blurred.ids \cup crossed,
                   counts |-> IF crossed = {} THEN blurred.counts
                              ELSE blurred.counts \cup {p, Me}]
    /\ UNCHANGED <<follows, shownVars, hydrated>>

-----------------------------------------------------------------------------
(* The user service *)

Moved(e, f) == errands' = (errands \ {e}) \cup {f}

\* follow refuses one who follows already, unfollow one who does not.
FollowStored(e) ==
    /\ e.op = "follow" /\ e.step = "asked"
    /\ follows' = follows \cup {e.who}
    /\ Moved(e, [e EXCEPT !.step = IF e.who \in follows THEN "failed" ELSE "done"])
    /\ UNCHANGED <<cache, shownVars, turnBounds, directoryAux>>

UnfollowStored(e) ==
    /\ e.op = "unfollow" /\ e.step = "asked"
    /\ follows' = follows \ {e.who}
    /\ Moved(e, [e EXCEPT !.step = IF e.who \in follows THEN "done" ELSE "failed"])
    /\ UNCHANGED <<cache, shownVars, turnBounds, directoryAux>>

\* suggest_people: whom those followed follow, but not those followed
Suggested == {p \in Folk \ follows : \E q \in follows : p \in Knows[q]}

Reads(e, rows) ==
    /\ e.step = "asked"
    /\ Moved(e, [e EXCEPT !.step = "done", !.rows = rows])
    /\ UNCHANGED <<follows, cache, shownVars, turnBounds, directoryAux>>

GetFollowing(e) == (e.op = "ids" \/ (e.op = "edges" /\ e.who = Me)) /\ Reads(e, follows)
GetFollowers(e) ==
    e.op = "edges" /\ e.who # Me /\ Reads(e, {p \in Folk : e.who \in Knows[p]})
SearchProfiles(e) == e.op = "search" /\ Reads(e, Matches[e.who])
SuggestPeople(e) == e.op = "suggest" /\ Reads(e, Suggested)

\* The profile comes with its counts: as many rows as it counts.
GetProfile(e) ==
    /\ e.op \in {"me", "profile", "name"}
    /\ Reads(e, IF e.op = "me" THEN follows ELSE {e.who} \cap follows)

\* A request does not reach the service, or its answer is lost.
ErrandFails(e) ==
    /\ Snag
    /\ e.step \in {"asked", "done"}
    /\ Moved(e, [e EXCEPT !.step = "failed"])
    /\ blurred' = IF e.step = "done" /\ e.op \in FollowOps
                  THEN [ids |-> blurred.ids \cup {e.who}, counts |-> blurred.counts \cup {e.who, Me}]
                  ELSE blurred
    /\ UNCHANGED <<follows, cache, shownVars, hydrated>>

-----------------------------------------------------------------------------
(* The answers *)

Back(e, op) == e.op = op /\ e.step = "done"
Over(e) == errands' = errands \ {e}

Unblurred(people, e) == (people \ {e.who}) \cup ({e.who} \cap e.mixed)

FollowAnswered(e) ==
    /\ e.op \in FollowOps /\ e.step = "done"
    /\ Over(e)
    /\ UNCHANGED <<follows, cache, shownVars, turnBounds, directoryAux>>

\* Mistake: the mark stays when the follow is refused.
FollowForgotten(e) ==
    /\ e.op \in FollowOps /\ e.step = "failed"
    /\ Over(e)
    /\ UNCHANGED <<follows, cache, shownVars, turnBounds, directoryAux>>

\* The opposite mark; it changes nothing if a list took the first one back,
\* and then leaves the counts.
FollowRefused(e) ==
    LET back == IF e.op = "follow" THEN MarkUnfollowed(e.who) ELSE MarkFollowed(e.who) IN
    /\ e.op \in FollowOps /\ e.step = "failed"
    /\ Marked(back, errands \ {e})
    /\ blurred' = IF back = cache THEN [blurred EXCEPT !.counts = @ \cup {e.who, Me}] ELSE blurred
    /\ UNCHANGED <<follows, shownVars, turnBounds, hydrated>>

\* setFollowingIds
IdsAnswered(e) ==
    LET c == [cache EXCEPT !.ids = e.rows] IN
    /\ Back(e, "ids")
    /\ cache' = c
    /\ errands' = Effects(c, errands \ {e}, FALSE)
    /\ hydrated' = TRUE /\ blurred' = [blurred EXCEPT !.ids = e.mixed]
    /\ UNCHANGED <<follows, shownVars, turnBounds>>

\* setMyProfile, by the bar or by the page, which then asks for the list too
MeAnswered(e) ==
    LET c == [cache EXCEPT !.counts[Me] = Cardinality(e.rows)]
        mine == view.page = "profile" /\ e.from = "page"
    IN
    /\ Back(e, "me")
    /\ cache' = c
    /\ errands' = LET es == Effects(c, errands \ {e}, TRUE)
                  IN IF mine THEN LoadsBegun(es, {Errand("ids", "page", Nobody, 0)}) ELSE es
    /\ view' = IF mine THEN [view EXCEPT !.phase = "ready", !.shown = Me] ELSE view
    /\ blurred' = [blurred EXCEPT !.counts = (@ \ {Me}) \cup (IF e.mixed = {} THEN {} ELSE {Me})]
    /\ UNCHANGED <<follows, finder, panelOf, mounting, turnBounds, hydrated>>

\* The bar goes on to the list when the profile could not be had.
BarSkipsProfile(e) ==
    /\ e.op = "me" /\ e.from = "bar" /\ e.step = "failed"
    /\ errands' = LoadsBegun(errands \ {e}, {Errand("ids", "bar", Nobody, 0)})
    /\ UNCHANGED <<follows, cache, shownVars, turnBounds, directoryAux>>

\* setProfile
ProfileAnswered(e) ==
    /\ Back(e, "profile")
    /\ cache' = [cache EXCEPT !.counts[e.who] = Cardinality(e.rows)]
    /\ view' = [view EXCEPT !.phase = "ready", !.shown = e.who]
    /\ blurred' = [blurred EXCEPT !.counts = Unblurred(@, e)]
    /\ Over(e)
    /\ UNCHANGED <<follows, finder, panelOf, mounting, turnBounds, hydrated>>

NameAnswered(e) ==
    /\ Back(e, "name")
    /\ cache' = [cache EXCEPT !.counts[e.who] = Cardinality(e.rows)]
    /\ view' = [view EXCEPT !.named = e.who]
    /\ blurred' = [blurred EXCEPT !.counts = Unblurred(@, e)]
    /\ Over(e)
    /\ UNCHANGED <<follows, finder, panelOf, mounting, turnBounds, hydrated>>

\* The followers are shown; the name of whom they follow is asked for.
EdgesAnswered(e) ==
    /\ Back(e, "edges")
    /\ view' = [view EXCEPT !.phase = "ready", !.shown = e.who, !.rows = e.rows]
    /\ errands' = LET es == errands \ {e}
                  IN IF e.who = Me THEN es
                     ELSE LoadsBegun(es, {Errand("name", "page", e.who, 0)})
    /\ UNCHANGED <<follows, cache, finder, panelOf, mounting, turnBounds, directoryAux>>

\* A page that cannot be loaded says so, even if it showed what was cached.
PageUnanswered(e) ==
    /\ e.op \in {"me", "profile", "edges"} /\ e.from = "page" /\ e.step = "failed"
    /\ view' = [view EXCEPT !.phase = "error"]
    /\ mounting' = mounting + 1
    /\ Over(e)
    /\ UNCHANGED <<follows, cache, finder, panelOf, turnBounds, directoryAux>>

\* Lists and names that fail are ignored.
LoadUnanswered(e) ==
    /\ e.op \in {"ids", "name"} /\ e.step = "failed"
    /\ Over(e)
    /\ UNCHANGED <<follows, cache, shownVars, turnBounds, directoryAux>>

SuggestionsAnswered(e) ==
    /\ e.op = "suggest" /\ e.step \in {"done", "failed"}
    /\ panelOf' = [loading |-> FALSE, suggestions |-> e.rows]
    /\ Over(e)
    /\ UNCHANGED <<follows, cache, view, finder, mounting, turnBounds, directoryAux>>

\* Only the last search asked for is shown.
SearchAnswered(e) ==
    /\ e.op = "search" /\ e.step \in {"done", "failed"}
    /\ finder' = IF e.id # finder.nr THEN finder
                 ELSE [finder EXCEPT !.hits = IF e.step = "done" THEN e.rows ELSE {},
                                     !.of = e.who, !.wrong = e.step = "failed" \/ @,
                                     !.loading = FALSE]
    /\ Over(e)
    /\ UNCHANGED <<follows, cache, view, panelOf, mounting, turnBounds, directoryAux>>

DirectoryNext ==
    \/ OpenHome \/ OpenDiscover \/ StartSearch \/ ReloadSuggestions
    \/ \E who \in Folk \cup {Me} : OpenProfile(who) \/ OpenEdges(who)
    \/ \E q \in DOMAIN Matches \cup {""} : TypeQuery(q)
    \/ \E p \in Folk : ClickFollow(p)
    \/ \E e \in errands :
         \/ FollowStored(e) \/ UnfollowStored(e) \/ ErrandFails(e)
         \/ GetFollowing(e) \/ GetFollowers(e) \/ GetProfile(e)
         \/ SearchProfiles(e) \/ SuggestPeople(e)
         \/ FollowAnswered(e) \/ FollowRefused(e)
         \/ IdsAnswered(e) \/ MeAnswered(e) \/ BarSkipsProfile(e)
         \/ ProfileAnswered(e) \/ NameAnswered(e) \/ EdgesAnswered(e)
         \/ PageUnanswered(e) \/ LoadUnanswered(e)
         \/ SuggestionsAnswered(e) \/ SearchAnswered(e)

-----------------------------------------------------------------------------
(* Properties *)

Quiet == \A e \in errands : e.op \notin FollowOps \cup {"ids", "me"}

(* Once nothing is on its way, the followingIds of the store are those the  *)
(* user follows, and cached profiles count as the service does, but for     *)
(* those whose follow a load or another request crossed, or whose answer    *)
(* was lost (FollowButton.tsx:43, profileCache.store.ts:57).                 *)
FollowsAgree ==
    Quiet =>
        /\ hydrated => cache.ids \ blurred.ids = follows \ blurred.ids
        /\ \A w \in (Folk \cup {Me}) \ blurred.counts : cache.counts[w] \in {Uncached, Count(w)}

(* A page shows what its address names, and never waits for nothing        *)
(* (ProfilePage.tsx:97, FollowEdgesPage.tsx:70).                             *)
PagesAgree ==
    /\ view.page \in {"profile", "edges"} /\ view.phase = "ready" => view.shown = view.who
    /\ view.phase = "loading" => \E e \in errands : e.from = "page"
    /\ panelOf.loading => \E e \in errands : e.op = "suggest"

(* The results shown are those of the query typed (DiscoverPage.tsx:45).    *)
SearchAgrees ==
    finder.query # "" =>
        /\ ~finder.loading => finder.of = finder.query
        /\ finder.loading => finder.timer \/ \E e \in errands : e.op = "search" /\ e.id = finder.nr

DirectoryHolds == FollowsAgree /\ PagesAgree /\ SearchAgrees

(* Every row's follow button is correct when nothing failed and nothing is  *)
(* on its way (FollowEdgesPage.tsx:47).                                      *)
ActiveStateCorrect == Quiet /\ hydrated /\ snags = 0 => cache.ids = follows
=============================================================================
