---------------------------- MODULE FollowGraph ----------------------------
(***************************************************************************)
(* Profiles and follows in user-service (user-service.service.ts).  Every  *)
(* handler looks before it writes, and by the time it writes what it saw   *)
(* may have changed; the unique columns of the Postgres schema and one     *)
(* transaction around an edge and its two counters decide.                 *)
(***************************************************************************)
EXTENDS ConsumerGroup, Integers, FiniteSets

CONSTANTS
    Users,
    Names,   \* usernames as clients write them
    Lower,   \* each name in lower case
    NoName   \* the name of a user without a profile, or no name in an update

Request ==
    [pattern: {"user.create_profile"}, id: Nat, userId: Users, username: Names]
    \cup [pattern: {"user.update_profile"}, id: Nat, userId: Users,
          username: Names \cup {NoName}]
    \cup [pattern: {"user.follow", "user.unfollow"}, id: Nat, userId: Users,
          targetUserId: Users]

ASSUME RequestsAssumption == Requests \subseteq Request
ASSUME NamesAssumption == NoName \notin Names /\ Lower \in [Names -> Names]
ASSUME FiniteUsers == IsFiniteSet(Users)

Labels ==
    {"idle", "user.create_profile", "create_name", "create_insert",
     "user.update_profile", "update_name", "update_write",
     "user.follow", "follow_edge", "follow_commit", "follow_notify",
     "user.unfollow", "unfollow_commit"}

VARIABLES
    username,   \* UserProfile rows: the username of each user
    follows,    \* UserFollow rows: a follower and the user followed
    followers,  \* UserProfile rows: followers_count
    following,  \* UserProfile rows: following_count
    told,       \* notification.follow events emitted for each pair, counted
    made        \* auxiliary: how often each pair has been connected

graph == <<follows, followers, following>>
vars == <<group, username, graph, told, made>>

Init ==
    /\ GroupInit
    /\ username = [u \in Users |-> NoName]
    /\ follows = {}
    /\ followers = [u \in Users |-> 0]
    /\ following = [u \in Users |-> 0]
    /\ told = [e \in Users \X Users |-> 0]
    /\ made = [e \in Users \X Users |-> 0]

HasProfile(u) == username[u] # NoName

\* findUnique by username: somebody has the name.
Taken(n) == \E u \in Users : username[u] = n

Edge(m) == <<m.userId, m.targetUserId>>

Begin(r, m) ==
    /\ Take(r, m)
    /\ UNCHANGED <<username, graph, told, made>>

\* A look before the write: the handler goes on, or answers 404 or 409.
Look(r, from, ok, label) ==
    /\ pc[r] = from
    /\ IF ok THEN Goto(r, label) ELSE Finish(r)
    /\ UNCHANGED <<username, graph, told, made>>

-----------------------------------------------------------------------------
(* create_user_profile and update_profile *)

CreateFind(r) ==
    Look(r, "user.create_profile", ~HasProfile(job[r].userId), "create_name")

\* An avatar that is not the user's own upload is refused here too.
CreateFindName(r) ==
    \/ Look(r, "create_name", ~Taken(Lower[job[r].username]), "create_insert")
    \/ Look(r, "create_name", FALSE, "create_insert")

\* Mistake: the insert trusts the look.
FreeWithoutIndex(n, u) == TRUE

\* The unique index on username: nobody but u has the name.
FreeFor(n, u) == \A v \in Users \ {u} : username[v] # n

\* The insert fails when the id or the name has been taken since.
CreateInsert(r) ==
    LET u == job[r].userId
        n == Lower[job[r].username]
    IN
    /\ pc[r] = "create_insert"
    /\ username' = IF ~HasProfile(u) /\ FreeFor(n, u)
                   THEN [username EXCEPT ![u] = n] ELSE username
    /\ Finish(r)
    /\ UNCHANGED <<graph, told, made>>

\* The name is looked up only when it is not the profile's own already.
UpdateFind(r) ==
    /\ pc[r] = "user.update_profile"
    /\ \/ ~HasProfile(job[r].userId) /\ Finish(r)
       \/ /\ HasProfile(job[r].userId)
          /\ Goto(r, IF job[r].username \in {NoName, username[job[r].userId]}
                     THEN "update_write" ELSE "update_name")
    /\ UNCHANGED <<username, graph, told, made>>

UpdateFindName(r) == Look(r, "update_name", ~Taken(job[r].username), "update_write")

\* The name is written as the client spelt it.
UpdateWrite(r) ==
    LET u == job[r].userId
        n == job[r].username
    IN
    /\ pc[r] = "update_write"
    /\ username' = IF n # NoName /\ FreeFor(n, u)
                   THEN [username EXCEPT ![u] = n] ELSE username
    /\ Finish(r)
    /\ UNCHANGED <<graph, told, made>>

-----------------------------------------------------------------------------
(* follow and unfollow *)

FollowFind(r) ==
    Look(r, "user.follow",
         job[r].userId # job[r].targetUserId /\ HasProfile(job[r].targetUserId),
         "follow_edge")

FollowFindEdge(r) == Look(r, "follow_edge", Edge(job[r]) \notin follows, "follow_commit")

\* Mistake: the row is inserted if missing, the counters move regardless.
CommitUpsert(m) == HasProfile(m.userId)

\* The transaction's insert meets the unique pair, its updates the follower's
\* own profile: if either fails all is rolled back.
Commits(m) == HasProfile(m.userId) /\ Edge(m) \notin follows

\* Mistake: the followed user is told even when nothing was stored.
FollowCommitTells(r) ==
    LET m == job[r] IN
    /\ pc[r] = "follow_commit"
    /\ IF Commits(m)
       THEN /\ follows' = follows \cup {Edge(m)}
            /\ following' = [following EXCEPT ![m.userId] = @ + 1]
            /\ followers' = [followers EXCEPT ![m.targetUserId] = @ + 1]
            /\ made' = [made EXCEPT ![Edge(m)] = @ + 1]
       ELSE UNCHANGED <<graph, made>>
    /\ Goto(r, "follow_notify")
    /\ UNCHANGED <<username, told>>

FollowCommit(r) ==
    LET m == job[r] IN
    /\ pc[r] = "follow_commit"
    /\ IF Commits(m)
       THEN /\ follows' = follows \cup {Edge(m)}
            /\ following' = [following EXCEPT ![m.userId] = @ + 1]
            /\ followers' = [followers EXCEPT ![m.targetUserId] = @ + 1]
            /\ made' = [made EXCEPT ![Edge(m)] = @ + 1]
            /\ Goto(r, "follow_notify")
       ELSE Finish(r) /\ UNCHANGED <<graph, made>>
    /\ UNCHANGED <<username, told>>

FollowNotify(r) ==
    /\ pc[r] = "follow_notify"
    /\ told' = [told EXCEPT ![Edge(job[r])] = @ + 1]
    /\ Finish(r)
    /\ UNCHANGED <<username, graph, made>>

UnfollowFindEdge(r) ==
    Look(r, "user.unfollow", Edge(job[r]) \in follows, "unfollow_commit")

\* Mistake: the delete does not mind finding nothing.
UnfollowBlind(r) ==
    LET m == job[r] IN
    /\ pc[r] = "unfollow_commit"
    /\ follows' = follows \ {Edge(m)}
    /\ following' = [following EXCEPT ![m.userId] = @ - 1]
    /\ followers' = [followers EXCEPT ![m.targetUserId] = @ - 1]
    /\ Finish(r)
    /\ UNCHANGED <<username, told, made>>

\* The delete fails when the row is gone, and the counters with it.
UnfollowCommit(r) ==
    LET m == job[r] IN
    /\ pc[r] = "unfollow_commit"
    /\ IF Edge(m) \in follows
       THEN /\ follows' = follows \ {Edge(m)}
            /\ following' = [following EXCEPT ![m.userId] = @ - 1]
            /\ followers' = [followers EXCEPT ![m.targetUserId] = @ - 1]
       ELSE UNCHANGED graph
    /\ Finish(r)
    /\ UNCHANGED <<username, told, made>>

-----------------------------------------------------------------------------
(* Faults: what a handler has committed stays *)

Crash(r) == Die(r) /\ UNCHANGED <<username, graph, told, made>>
ExpireSession(r) == OutliveSession(r) /\ UNCHANGED <<username, graph, told, made>>
QueryFails(r) ==
    /\ pc[r] \notin {"idle", "follow_notify"}
    /\ Throw(r)
    /\ UNCHANGED <<username, graph, told, made>>

ProfileStep(r) ==
    \/ CreateFind(r) \/ CreateFindName(r) \/ CreateInsert(r)
    \/ UpdateFind(r) \/ UpdateFindName(r) \/ UpdateWrite(r)
FollowStep(r) ==
    \/ FollowFind(r) \/ FollowFindEdge(r) \/ FollowCommit(r) \/ FollowNotify(r)
    \/ UnfollowFindEdge(r) \/ UnfollowCommit(r)
FaultStep(r) == Crash(r) \/ ExpireSession(r) \/ QueryFails(r)

Next ==
    \E r \in Replicas :
        \/ \E m \in Requests : Begin(r, m)
        \/ ProfileStep(r) \/ FollowStep(r) \/ FaultStep(r)

Spec == Init /\ [][Next]_vars

-----------------------------------------------------------------------------
(* Properties *)

\* Every variable keeps its type; in particular no counter is ever negative.
TypeOK ==
    /\ GroupType(Labels)
    /\ username \in [Users -> Names \cup {NoName}]
    /\ follows \subseteq Users \X Users
    /\ followers \in [Users -> Nat]
    /\ following \in [Users -> Nat]
    /\ told \in [Users \X Users -> Nat]
    /\ made \in [Users \X Users -> Nat]

\* However the looks of two replicas interleave with their writes, the graph
\* moves as SocialGraph says, edge and counters together.
Graph == INSTANCE SocialGraph WITH
    Users <- Users, follows <- follows, followers <- followers, following <- following
GraphSpec == Graph!Spec

Followers(u) == {v \in Users : <<v, u>> \in follows}
Following(u) == {v \in Users : <<u, v>> \in follows}

\* The counters of a profile are the lengths of its lists at every moment,
\* and nobody follows themselves.
CountersExact ==
    \A u \in Users :
        /\ followers[u] = Cardinality(Followers(u))
        /\ following[u] = Cardinality(Following(u))
        /\ <<u, u>> \notin follows

\* Nobody is told twice of one follow, although the message that made it
\* may be delivered again.
NoticesAreBacked == \A e \in Users \X Users : told[e] <= made[e]

\* Both ends of a follow have a profile, and no two profiles one name.
ProfilesSound ==
    /\ \A e \in follows : HasProfile(e[1]) /\ HasProfile(e[2])
    /\ \A u, v \in Users : HasProfile(u) /\ username[u] = username[v] => u = v
=============================================================================
