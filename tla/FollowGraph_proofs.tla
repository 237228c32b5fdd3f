------------------------- MODULE FollowGraph_proofs -------------------------
(***************************************************************************)
(* FollowGraph implements SocialGraph for every number of replicas, users, *)
(* messages and faults, so its counters are exact at every moment.         *)
(***************************************************************************)
EXTENDS FollowGraph, FiniteSetTheorems, TLAPS

-----------------------------------------------------------------------------
(* What the moves of a handler do to the group's variables.                 *)

\* A handler at work has a message.
Working == \A r \in Replicas : pc[r] # "idle" => job[r] \in Requests

\* At the start the replicas are idle and every message is in the inbox.
LEMMA InitType ==
    ASSUME NEW L, "idle" \in L, GroupInit
    PROVE  GroupType(L) /\ Working
BY GroupAssumption DEF GroupType, GroupInit, Working

\* Taking a message up keeps the types of the group's variables.
LEMMA TakeType ==
    ASSUME NEW L, GroupType(L), Working, NEW r \in Replicas, NEW m \in Requests,
           m.pattern \in L, Take(r, m)
    PROVE  GroupType(L)' /\ Working'
BY DEF GroupType, Take, Working

\* Moving a handler on to another await keeps them.
LEMMA GotoType ==
    ASSUME NEW L, GroupType(L), Working, NEW r \in Replicas, pc[r] # "idle",
           NEW l \in L, Goto(r, l)
    PROVE  GroupType(L)' /\ Working'
BY DEF GroupType, Goto, Working

\* Ending a handler keeps them, however it ends.
LEMMA EndType ==
    ASSUME NEW L, "idle" \in L, GroupType(L), Working, NEW r \in Replicas,
           Finish(r) \/ Die(r) \/ Throw(r)
    PROVE  GroupType(L)' /\ Working'
<1>1. ASSUME Release(r)
      PROVE  /\ pc' \in [Replicas -> L]
             /\ job' \in [Replicas -> Requests \cup {NoRequest}]
             /\ lease' \in [Replicas -> BOOLEAN]
             /\ Working'
  BY <1>1 DEF GroupType, Release, Working
<1>2. CASE Finish(r)
  BY <1>1, <1>2 DEF Finish, GroupType
<1>3. CASE Die(r)
  <2>1. inbox' \subseteq Requests
    BY <1>3 DEF Die, Redeliver, GroupType, Working
  <2> QED BY <1>1, <1>3, <2>1, GroupAssumption DEF Die, Fault, GroupType
<1>4. CASE Throw(r)
  BY <1>1, <1>4, GroupAssumption DEF Throw, Fault, GroupType
<1> QED BY <1>2, <1>3, <1>4

\* So does outliving the session, which leaves the handler where it was.
LEMMA OutliveType ==
    ASSUME NEW L, GroupType(L), Working, NEW r \in Replicas, OutliveSession(r)
    PROVE  GroupType(L)' /\ Working'
<1>1. inbox' \subseteq Requests
  BY DEF OutliveSession, Redeliver, GroupType, Working
<1> QED BY <1>1, GroupAssumption DEF OutliveSession, Fault, GroupType, Working

-----------------------------------------------------------------------------
(* The base invariant: types, and handlers at work on a message of the      *)
(* pattern their await belongs to.                                          *)

\* The type invariant without the counters' sign.
DataType ==
    /\ username \in [Users -> Names \cup {NoName}]
    /\ follows \subseteq Users \X Users
    /\ followers \in [Users -> Int]
    /\ following \in [Users -> Int]
    /\ told \in [Users \X Users -> Nat]
    /\ made \in [Users \X Users -> Nat]

CreateSteps == {"user.create_profile", "create_name", "create_insert"}
UpdateSteps == {"user.update_profile", "update_name", "update_write"}
LateFollow == {"follow_edge", "follow_commit", "follow_notify"}
UnfollowSteps == {"user.unfollow", "unfollow_commit"}

JobOK ==
    \A r \in Replicas :
        /\ pc[r] \in CreateSteps => job[r].pattern = "user.create_profile"
        /\ pc[r] \in UpdateSteps => job[r].pattern = "user.update_profile"
        /\ pc[r] \in LateFollow \cup {"user.follow"} => job[r].pattern = "user.follow"
        /\ pc[r] \in UnfollowSteps => job[r].pattern = "user.unfollow"
        /\ pc[r] \in LateFollow => job[r].userId # job[r].targetUserId

NoSelf == \A u \in Users : <<u, u>> \notin follows

BaseInv == GroupType(Labels) /\ Working /\ DataType /\ JobOK /\ NoSelf

Step(r) == ProfileStep(r) \/ FollowStep(r) \/ FaultStep(r)

\* What a message of each pattern carries.
LEMMA RequestFields ==
    ASSUME NEW m \in Requests
    PROVE  /\ m.pattern \in {"user.create_profile", "user.update_profile",
                  "user.follow", "user.unfollow"}
           /\ m.userId \in Users
           /\ m.pattern = "user.create_profile" => m.username \in Names
           /\ m.pattern = "user.update_profile" => m.username \in Names \cup {NoName}
           /\ m.pattern \in {"user.follow", "user.unfollow"} =>
                  m.targetUserId \in Users /\ Edge(m) \in Users \X Users
BY RequestsAssumption DEF Request, Edge

-----------------------------------------------------------------------------
(* How a step moves its handler *)

\* The handler ends, or goes on to a later await with the same message.
Moves(r) ==
    \/ Finish(r) \/ Die(r) \/ Throw(r)
    \/ OutliveSession(r)
    \/ /\ pc[r] \in CreateSteps
       /\ \E l \in CreateSteps : Goto(r, l)
    \/ /\ pc[r] \in UpdateSteps
       /\ \E l \in UpdateSteps : Goto(r, l)
    \/ /\ pc[r] \in {"user.follow"} \cup LateFollow
       /\ job[r].userId # job[r].targetUserId
       /\ \E l \in LateFollow : Goto(r, l)
    \/ /\ pc[r] = "user.unfollow"
       /\ Goto(r, "unfollow_commit")

\* Every step moves its handler so.
LEMMA StepMoves ==
    ASSUME BaseInv, NEW r \in Replicas, Step(r)
    PROVE  Moves(r)
<1> USE DEF Moves, CreateSteps, UpdateSteps, LateFollow
<1>1. CASE CreateFind(r)
  BY <1>1 DEF CreateFind, Look
<1>2. CASE CreateFindName(r)
  BY <1>2 DEF CreateFindName, Look
<1>3. CASE CreateInsert(r)
  BY <1>3 DEF CreateInsert
<1>4. CASE UpdateFind(r)
  BY <1>4 DEF UpdateFind
<1>5. CASE UpdateFindName(r)
  BY <1>5 DEF UpdateFindName, Look
<1>6. CASE UpdateWrite(r)
  BY <1>6 DEF UpdateWrite
<1>7. CASE FollowFind(r)
  BY <1>7 DEF FollowFind, Look
<1>8. CASE FollowFindEdge(r)
  BY <1>8 DEF FollowFindEdge, Look, BaseInv, JobOK
<1>9. CASE FollowCommit(r)
  BY <1>9 DEF FollowCommit, BaseInv, JobOK
<1>10. CASE FollowNotify(r)
  BY <1>10 DEF FollowNotify
<1>11. CASE UnfollowFindEdge(r)
  BY <1>11 DEF UnfollowFindEdge, Look
<1>12. CASE UnfollowCommit(r)
  BY <1>12 DEF UnfollowCommit
<1>13. CASE FaultStep(r)
  BY <1>13 DEF FaultStep, Crash, ExpireSession, QueryFails
<1> QED
  BY <1>1, <1>2, <1>3, <1>4, <1>5, <1>6, <1>7, <1>8, <1>9, <1>10, <1>11, <1>12, <1>13
     DEF Step, ProfileStep, FollowStep

\* Such a move keeps the types of the group and the handlers on their messages.
LEMMA MovesKeepJobs ==
    ASSUME BaseInv, NEW r \in Replicas, Moves(r)
    PROVE  GroupType(Labels)' /\ Working' /\ JobOK'
<1> USE DEF BaseInv
<1>1. CASE Finish(r) \/ Die(r) \/ Throw(r)
  <2>1. GroupType(Labels)' /\ Working'
    BY <1>1, EndType DEF Labels
  <2>2. Release(r)
    BY <1>1 DEF Finish, Die, Throw
  <2>3. JobOK'
    BY <2>2 DEF Release, JobOK, GroupType, CreateSteps, UpdateSteps, LateFollow,
       UnfollowSteps
  <2> QED BY <2>1, <2>3
<1>2. CASE OutliveSession(r)
  BY <1>2, OutliveType DEF OutliveSession, JobOK
<1>3. ASSUME NEW l \in CreateSteps \cup UpdateSteps \cup LateFollow \cup {"unfollow_commit"},
             Goto(r, l), pc[r] # "idle"
      PROVE  GroupType(Labels)' /\ Working'
  BY <1>3, GotoType DEF Labels, CreateSteps, UpdateSteps, LateFollow
<1>4. CASE pc[r] \in CreateSteps /\ \E l \in CreateSteps : Goto(r, l)
  BY <1>3, <1>4 DEF Goto, JobOK, GroupType, CreateSteps, UpdateSteps, LateFollow,
     UnfollowSteps
<1>5. CASE pc[r] \in UpdateSteps /\ \E l \in UpdateSteps : Goto(r, l)
  BY <1>3, <1>5 DEF Goto, JobOK, GroupType, CreateSteps, UpdateSteps, LateFollow,
     UnfollowSteps
<1>6. CASE /\ pc[r] \in {"user.follow"} \cup LateFollow
           /\ job[r].userId # job[r].targetUserId
           /\ \E l \in LateFollow : Goto(r, l)
  BY <1>3, <1>6 DEF Goto, JobOK, GroupType, CreateSteps, UpdateSteps, LateFollow,
     UnfollowSteps
<1>7. CASE pc[r] = "user.unfollow" /\ Goto(r, "unfollow_commit")
  BY <1>3, <1>7 DEF Goto, JobOK, GroupType, CreateSteps, UpdateSteps, LateFollow,
     UnfollowSteps
<1> QED BY <1>1, <1>2, <1>4, <1>5, <1>6, <1>7 DEF Moves

-----------------------------------------------------------------------------
(* What a step does to the graph *)

\* Every step adds one edge, removes one edge, or leaves the graph alone.
LEMMA StepOnGraph ==
    ASSUME BaseInv, NEW r \in Replicas, Step(r)
    PROVE  UNCHANGED graph \/ Graph!Next
<1> USE DEF graph, Look
<1>1. CASE FollowCommit(r)
  <2> DEFINE m == job[r]
  <2>1. m.userId \in Users /\ m.targetUserId \in Users /\ m.userId # m.targetUserId
    BY <1>1, RequestFields DEF FollowCommit, BaseInv, JobOK, Working, LateFollow
  <2>2. CASE Commits(m)
    BY <1>1, <2>1, <2>2 DEF FollowCommit, Commits, Edge, Graph!Next, Graph!Connect
  <2>3. CASE ~Commits(m)
    BY <1>1, <2>3 DEF FollowCommit
  <2> QED BY <2>2, <2>3
<1>2. CASE UnfollowCommit(r)
  <2> DEFINE m == job[r]
  <2>1. m.userId \in Users /\ m.targetUserId \in Users
    BY <1>2, RequestFields DEF UnfollowCommit, BaseInv, JobOK, Working, UnfollowSteps
  <2>2. CASE Edge(m) \in follows
    <3>1. m.userId # m.targetUserId
      BY <2>1, <2>2 DEF BaseInv, NoSelf, Edge
    <3> QED
      BY <1>2, <2>1, <2>2, <3>1 DEF UnfollowCommit, Edge, Graph!Next, Graph!Disconnect
  <2>3. CASE Edge(m) \notin follows
    BY <1>2, <2>3 DEF UnfollowCommit
  <2> QED BY <2>2, <2>3
<1>3. CASE ProfileStep(r)
  BY <1>3 DEF ProfileStep, CreateFind, CreateFindName, CreateInsert, UpdateFind,
     UpdateFindName, UpdateWrite
<1>4. CASE FollowFind(r) \/ FollowFindEdge(r) \/ FollowNotify(r) \/ UnfollowFindEdge(r)
  BY <1>4 DEF FollowFind, FollowFindEdge, FollowNotify, UnfollowFindEdge
<1>5. CASE FaultStep(r)
  BY <1>5 DEF FaultStep, Crash, ExpireSession, QueryFails
<1> QED BY <1>1, <1>2, <1>3, <1>4, <1>5 DEF Step, FollowStep

\* Every step keeps the types of the rows, the notices and the counts.
LEMMA DataTypeStep ==
    ASSUME BaseInv, NEW r \in Replicas, Step(r)
    PROVE  DataType'
<1> USE DEF BaseInv, DataType, graph, Look
<1>1. CASE CreateInsert(r)
  BY <1>1, RequestFields, NamesAssumption DEF CreateInsert, Working, JobOK, CreateSteps
<1>2. CASE UpdateWrite(r)
  BY <1>2, RequestFields DEF UpdateWrite, Working, JobOK, UpdateSteps
<1>3. CASE FollowCommit(r)
  BY <1>3, RequestFields DEF FollowCommit, Working, JobOK, LateFollow
<1>4. CASE FollowNotify(r)
  BY <1>4, RequestFields DEF FollowNotify, Working, JobOK, LateFollow
<1>5. CASE UnfollowCommit(r)
  BY <1>5, RequestFields DEF UnfollowCommit, Working, JobOK, UnfollowSteps
<1>6. CASE CreateFind(r) \/ CreateFindName(r) \/ UpdateFind(r) \/ UpdateFindName(r)
  BY <1>6 DEF CreateFind, CreateFindName, UpdateFind, UpdateFindName
<1>7. CASE FollowFind(r) \/ FollowFindEdge(r) \/ UnfollowFindEdge(r)
  BY <1>7 DEF FollowFind, FollowFindEdge, UnfollowFindEdge
<1>8. CASE FaultStep(r)
  BY <1>8 DEF FaultStep, Crash, ExpireSession, QueryFails
<1> QED
  BY <1>1, <1>2, <1>3, <1>4, <1>5, <1>6, <1>7, <1>8 DEF Step, ProfileStep, FollowStep

\* The base invariant holds throughout.
LEMMA BaseAlways == Spec => []BaseInv
<1>1. Init => BaseInv
  <2> SUFFICES ASSUME Init PROVE BaseInv
    OBVIOUS
  <2>1. GroupType(Labels) /\ Working
    BY InitType DEF Init, Labels
  <2>2. DataType /\ NoSelf
    BY DEF Init, DataType, NoSelf
  <2>3. JobOK
    BY DEF Init, GroupInit, JobOK, CreateSteps, UpdateSteps, LateFollow, UnfollowSteps
  <2> QED BY <2>1, <2>2, <2>3 DEF BaseInv
<1>2. BaseInv /\ [Next]_vars => BaseInv'
  <2> SUFFICES ASSUME BaseInv, [Next]_vars PROVE BaseInv'
    OBVIOUS
  <2>1. ASSUME NEW r \in Replicas, Step(r) PROVE BaseInv'
    <3>0. UNCHANGED graph \/ Graph!Next
      BY <2>1, StepOnGraph
    <3>1. NoSelf'
      <4>1. CASE UNCHANGED graph
        BY <4>1 DEF BaseInv, NoSelf, graph
      <4>2. ASSUME NEW u \in Users, NEW v \in Users, u # v,
                   Graph!Connect(u, v) \/ Graph!Disconnect(u, v)
            PROVE  NoSelf'
        <5>1. \A w \in Users : <<w, w>> # <<u, v>>
          BY <4>2
        <5> QED BY <4>2, <5>1 DEF BaseInv, NoSelf, Graph!Connect, Graph!Disconnect
      <4> QED BY <3>0, <4>1, <4>2 DEF Graph!Next
    <3> QED
      BY <2>1, <3>1, DataTypeStep, StepMoves, MovesKeepJobs DEF BaseInv
  <2>2. ASSUME NEW r \in Replicas, NEW m \in Requests, Begin(r, m) PROVE BaseInv'
    <3>1. m.pattern \in Labels
      BY RequestFields DEF Labels
    <3>2. GroupType(Labels)' /\ Working'
      BY <2>2, <3>1, TakeType DEF Begin, BaseInv
    <3>3. JobOK'
      BY <2>2, RequestFields DEF Begin, Take, BaseInv, GroupType, JobOK, CreateSteps,
         UpdateSteps, LateFollow, UnfollowSteps
    <3>4. DataType' /\ NoSelf'
      BY <2>2 DEF Begin, BaseInv, DataType, NoSelf, graph
    <3> QED BY <3>2, <3>3, <3>4 DEF BaseInv
  <2>3. CASE UNCHANGED vars
    BY <2>3 DEF vars, group, graph, BaseInv, GroupType, Working, DataType, JobOK, NoSelf
  <2> QED BY <2>1, <2>2, <2>3 DEF Next, Step
<1> QED BY <1>1, <1>2, PTL DEF Spec

-----------------------------------------------------------------------------
(* The refinement, and what it brings *)

\* FollowGraph implements SocialGraph: an edge and its two counters move in
\* one step, whatever replicas, redeliveries and failed queries do.
THEOREM FollowsAsPromised == Spec => GraphSpec
<1>1. Init => Graph!Init
  BY DEF Init, Graph!Init
<1>2. BaseInv /\ [Next]_vars => [Graph!Next]_(Graph!graph)
  <2> SUFFICES ASSUME BaseInv, [Next]_vars PROVE [Graph!Next]_(Graph!graph)
    OBVIOUS
  <2>1. ASSUME NEW r \in Replicas, NEW m \in Requests, Begin(r, m) PROVE UNCHANGED graph
    BY <2>1 DEF Begin
  <2>2. CASE UNCHANGED vars
    BY <2>2 DEF vars, graph, Graph!graph
  <2> QED BY <2>1, <2>2, StepOnGraph DEF Next, Step, graph, Graph!graph
<1> QED BY <1>1, <1>2, BaseAlways, PTL DEF Spec, GraphSpec, Graph!Spec

\* The counters' invariant of SocialGraph, with the types it needs.
CountInv ==
    /\ followers \in [Users -> Int]
    /\ following \in [Users -> Int]
    /\ follows \subseteq Users \X Users
    /\ CountersExact

\* One edge more or less changes the lengths of two lists by one.
LEMMA EdgeCounts ==
    ASSUME CountInv, NEW u \in Users, NEW v \in Users, u # v,
           Graph!Connect(u, v) \/ Graph!Disconnect(u, v)
    PROVE  CountInv'
<1> USE FiniteUsers DEF CountInv, CountersExact
<1>1. /\ followers' \in [Users -> Int] /\ following' \in [Users -> Int]
      /\ follows' \subseteq Users \X Users
      /\ \A w \in Users : <<w, w>> \notin follows'
  BY DEF Graph!Connect, Graph!Disconnect
<1>2. ASSUME NEW w \in Users
      PROVE  IsFiniteSet(Followers(w)) /\ IsFiniteSet(Following(w))
  <2>1. Followers(w) \subseteq Users /\ Following(w) \subseteq Users
    BY DEF Followers, Following
  <2> QED BY <2>1, FS_Subset
<1>3. CASE Graph!Connect(u, v)
  <2>1. /\ Followers(v)' = Followers(v) \cup {u}
        /\ Following(u)' = Following(u) \cup {v}
        /\ u \notin Followers(v) /\ v \notin Following(u)
    BY <1>3 DEF Graph!Connect, Followers, Following
  <2>2. \A w \in Users :
          /\ w # v => Followers(w)' = Followers(w)
          /\ w # u => Following(w)' = Following(w)
    BY <1>3 DEF Graph!Connect, Followers, Following
  <2>3. /\ Cardinality(Followers(v)') = Cardinality(Followers(v)) + 1
        /\ Cardinality(Following(u)') = Cardinality(Following(u)) + 1
    BY <1>2, <2>1, FS_AddElement
  <2> QED BY <1>1, <1>3, <2>2, <2>3 DEF Graph!Connect
<1>4. CASE Graph!Disconnect(u, v)
  <2>1. /\ Followers(v)' = Followers(v) \ {u}
        /\ Following(u)' = Following(u) \ {v}
        /\ u \in Followers(v) /\ v \in Following(u)
    BY <1>4 DEF Graph!Disconnect, Followers, Following
  <2>2. \A w \in Users :
          /\ w # v => Followers(w)' = Followers(w)
          /\ w # u => Following(w)' = Following(w)
    BY <1>4 DEF Graph!Disconnect, Followers, Following
  <2>3. /\ Cardinality(Followers(v)') = Cardinality(Followers(v)) - 1
        /\ Cardinality(Following(u)') = Cardinality(Following(u)) - 1
    BY <1>2, <2>1, FS_RemoveElement
  <2> QED BY <1>1, <1>4, <2>2, <2>3 DEF Graph!Disconnect
<1> QED BY <1>3, <1>4

\* What SocialGraph promises keeps the counters exact.
LEMMA PromiseKeepsCount == GraphSpec => []CountInv
<1>1. Graph!Init => CountInv
  <2> SUFFICES ASSUME Graph!Init PROVE CountInv
    OBVIOUS
  <2>1. \A u \in Users : Followers(u) = {} /\ Following(u) = {}
    BY DEF Graph!Init, Followers, Following
  <2> QED BY <2>1, FS_EmptySet DEF Graph!Init, CountInv, CountersExact
<1>2. CountInv /\ [Graph!Next]_(Graph!graph) => CountInv'
  <2>1. CASE UNCHANGED Graph!graph
    BY <2>1 DEF Graph!graph, CountInv, CountersExact, Followers, Following
  <2> QED BY <2>1, EdgeCounts DEF Graph!Next
<1> QED BY <1>1, <1>2, PTL DEF GraphSpec, Graph!Spec

\* The counters of a profile are the lengths of its lists at every moment.
THEOREM CountsAreLengths == Spec => []CountersExact
<1>1. CountInv => CountersExact
  BY DEF CountInv, CountersExact
<1> QED BY <1>1, FollowsAsPromised, PromiseKeepsCount, PTL

\* Every variable keeps its type, and no counter is ever negative.
THEOREM TypeCorrect == Spec => []TypeOK
<1>1. BaseInv /\ CountInv => TypeOK
  <2> SUFFICES ASSUME BaseInv, CountInv PROVE TypeOK
    OBVIOUS
  <2>1. \A u \in Users : followers[u] >= 0 /\ following[u] >= 0
    <3> TAKE u \in Users
    <3>1. Followers(u) \subseteq Users /\ Following(u) \subseteq Users
      BY DEF Followers, Following
    <3>2. /\ Cardinality(Followers(u)) \in Nat
          /\ Cardinality(Following(u)) \in Nat
      BY <3>1, FiniteUsers, FS_Subset, FS_CardinalityType
    <3>3. /\ followers[u] = Cardinality(Followers(u))
          /\ following[u] = Cardinality(Following(u))
      BY DEF CountInv, CountersExact
    <3> QED BY <3>2, <3>3
  <2> QED BY <2>1 DEF BaseInv, DataType, TypeOK
<1> QED BY <1>1, BaseAlways, FollowsAsPromised, PromiseKeepsCount, PTL

-----------------------------------------------------------------------------
(* Profiles *)

\* What two profiles and the two ends of a follow are promised, and what a
\* handler on its way to storing a follow knows of its target.
ProfilesInv ==
    /\ ProfilesSound
    /\ \A r \in Replicas : pc[r] \in LateFollow => HasProfile(job[r].targetUserId)

\* A row written keeps its name, or gets one nobody else has.
LEMMA NameStep ==
    ASSUME BaseInv, ProfilesSound, NEW r \in Replicas, Step(r)
    PROVE  /\ \A u \in Users : HasProfile(u) => HasProfile(u)'
           /\ \A u, v \in Users : HasProfile(u)' /\ username'[u] = username'[v] => u = v
<1> USE DEF BaseInv, DataType, HasProfile, ProfilesSound, Look
<1>1. ASSUME NEW n \in Names, NEW w \in Users, FreeFor(n, w),
             username' = [username EXCEPT ![w] = n]
      PROVE  /\ \A u \in Users : HasProfile(u) => HasProfile(u)'
             /\ \A u, v \in Users : HasProfile(u)' /\ username'[u] = username'[v] => u = v
  BY <1>1, NamesAssumption DEF FreeFor
<1>2. CASE CreateInsert(r)
  <2> DEFINE u == job[r].userId
             n == Lower[job[r].username]
  <2>1. u \in Users /\ n \in Names
    BY <1>2, RequestFields, NamesAssumption DEF CreateInsert, Working, JobOK, CreateSteps
  <2>2. CASE ~HasProfile(u) /\ FreeFor(n, u)
    BY <1>1, <1>2, <2>1, <2>2 DEF CreateInsert
  <2>3. CASE ~(~HasProfile(u) /\ FreeFor(n, u))
    BY <1>2, <2>3 DEF CreateInsert
  <2> QED BY <2>2, <2>3
<1>3. CASE UpdateWrite(r)
  <2> DEFINE u == job[r].userId
             n == job[r].username
  <2>1. u \in Users /\ n \in Names \cup {NoName}
    BY <1>3, RequestFields DEF UpdateWrite, Working, JobOK, UpdateSteps
  <2>2. CASE n # NoName /\ FreeFor(n, u)
    BY <1>1, <1>3, <2>1, <2>2 DEF UpdateWrite
  <2>3. CASE ~(n # NoName /\ FreeFor(n, u))
    BY <1>3, <2>3 DEF UpdateWrite
  <2> QED BY <2>2, <2>3
<1>4. CASE CreateFind(r) \/ CreateFindName(r) \/ UpdateFind(r) \/ UpdateFindName(r)
  BY <1>4 DEF CreateFind, CreateFindName, UpdateFind, UpdateFindName
<1>5. CASE FollowStep(r)
  BY <1>5 DEF FollowStep, FollowFind, FollowFindEdge, FollowCommit, FollowNotify,
     UnfollowFindEdge, UnfollowCommit
<1>6. CASE FaultStep(r)
  BY <1>6 DEF FaultStep, Crash, ExpireSession, QueryFails
<1> QED BY <1>2, <1>3, <1>4, <1>5, <1>6 DEF Step, ProfileStep

\* A handler reaches the storing of a follow past a look at its target.
LEMMA TargetStep ==
    ASSUME BaseInv, ProfilesInv, NEW r \in Replicas, Step(r)
    PROVE  \A s \in Replicas : pc'[s] \in LateFollow =>
               job'[s] = job[s] /\ HasProfile(job[s].targetUserId)
<1> USE DEF BaseInv, GroupType, ProfilesInv, Goto, Release
<1>1. CASE FollowFind(r)
  BY <1>1 DEF FollowFind, Look, Finish, LateFollow
<1>2. CASE ~FollowFind(r)
  <2>1. pc[r] \in LateFollow \/ pc'[r] \notin LateFollow
    <3>1. CASE FollowStep(r)
      BY <1>2, <3>1 DEF FollowStep, FollowFindEdge, FollowCommit, FollowNotify,
         UnfollowFindEdge, UnfollowCommit, Look, Finish, LateFollow
    <3>2. CASE ProfileStep(r)
      BY <3>2 DEF ProfileStep, CreateFind, CreateFindName, CreateInsert, UpdateFind,
         UpdateFindName, UpdateWrite, Look, Finish, LateFollow
    <3>3. CASE FaultStep(r)
      BY <3>3 DEF FaultStep, Crash, ExpireSession, QueryFails, Die, Throw,
         OutliveSession, LateFollow
    <3> QED BY <3>1, <3>2, <3>3 DEF Step
  <2>2. Moves(r)
    BY StepMoves
  <2>3. \A s \in Replicas : s # r => pc'[s] = pc[s] /\ job'[s] = job[s]
    BY <2>2 DEF Moves, Finish, Die, Throw, OutliveSession
  <2>4. pc'[r] \in LateFollow => job'[r] = job[r]
    BY <2>2 DEF Moves, Finish, Die, Throw, OutliveSession, LateFollow
  <2> QED BY <2>1, <2>3, <2>4
<1> QED BY <1>1, <1>2

\* Both ends of a follow have a profile, and no two profiles one name: the
\* looks before the writes are not enough, the unique columns are.
THEOREM ProfilesStaySound == Spec => []ProfilesSound
<1>1. Init => ProfilesInv
  BY DEF Init, GroupInit, ProfilesInv, ProfilesSound, HasProfile, LateFollow
<1>2. BaseInv /\ ProfilesInv /\ [Next]_vars => ProfilesInv'
  <2> SUFFICES ASSUME BaseInv, ProfilesInv, [Next]_vars PROVE ProfilesInv'
    OBVIOUS
  <2>1. ASSUME NEW r \in Replicas, Step(r) PROVE ProfilesInv'
    <3>1. \A s \in Replicas : pc'[s] \in LateFollow =>
              job'[s] = job[s] /\ HasProfile(job[s].targetUserId)
      BY <2>1, TargetStep
    <3>2. \A s \in Replicas : pc'[s] \in LateFollow => job'[s].targetUserId \in Users
      <4> TAKE s \in Replicas
      <4> HAVE pc'[s] \in LateFollow
      <4>1. Working' /\ JobOK'
        BY <2>1, StepMoves, MovesKeepJobs
      <4>2. job'[s] \in Requests /\ job'[s].pattern = "user.follow"
        BY <4>1 DEF Working, JobOK, LateFollow
      <4> QED BY <4>2, RequestFields
    <3>3. \A u \in Users : HasProfile(u) => HasProfile(u)'
      BY <2>1, NameStep DEF ProfilesInv
    <3>4. \A s \in Replicas : pc'[s] \in LateFollow => HasProfile(job[s].targetUserId)'
      BY <3>1, <3>2, <3>3 DEF HasProfile
    <3>5. \A e \in follows' : HasProfile(e[1])' /\ HasProfile(e[2])'
      <4>1. CASE FollowCommit(r)
        <5> DEFINE m == job[r]
        <5>1. /\ m.userId \in Users /\ m.targetUserId \in Users
              /\ HasProfile(m.targetUserId)
          BY <4>1, RequestFields DEF FollowCommit, BaseInv, Working, JobOK, LateFollow,
             ProfilesInv
        <5>2. \A e \in follows' : e \in follows \/ (e = Edge(m) /\ HasProfile(m.userId))
          BY <4>1 DEF FollowCommit, Commits, graph
        <5>3. \A e \in follows : e[1] \in Users /\ e[2] \in Users
          BY DEF BaseInv, DataType
        <5> QED BY <3>3, <5>1, <5>2, <5>3 DEF ProfilesInv, ProfilesSound, Edge
      <4>2. CASE ~FollowCommit(r)
        <5>1. follows' \subseteq follows
          BY <2>1, <4>2 DEF Step, FollowStep, ProfileStep, FaultStep, CreateFind,
             CreateFindName, CreateInsert, UpdateFind, UpdateFindName, UpdateWrite,
             FollowFind, FollowFindEdge, FollowNotify, UnfollowFindEdge, UnfollowCommit,
             Look, Crash, ExpireSession, QueryFails, graph
        <5>2. \A e \in follows : e[1] \in Users /\ e[2] \in Users
          BY DEF BaseInv, DataType
        <5> QED BY <3>3, <5>1, <5>2 DEF ProfilesInv, ProfilesSound
      <4> QED BY <4>1, <4>2
    <3> QED BY <2>1, <3>4, <3>5, NameStep DEF ProfilesInv, ProfilesSound, HasProfile
  <2>2. ASSUME NEW r \in Replicas, NEW m \in Requests, Begin(r, m) PROVE ProfilesInv'
    <3>1. m.pattern \notin LateFollow
      BY RequestFields DEF LateFollow
    <3> QED
      BY <2>2, <3>1 DEF Begin, Take, graph, BaseInv, GroupType, ProfilesInv,
         ProfilesSound, HasProfile
  <2>3. CASE UNCHANGED vars
    BY <2>3 DEF vars, group, graph, ProfilesInv, ProfilesSound, HasProfile
  <2> QED BY <2>1, <2>2, <2>3 DEF Next, Step
<1>3. ProfilesInv => ProfilesSound
  BY DEF ProfilesInv
<1> QED BY <1>1, <1>2, <1>3, BaseAlways, PTL DEF Spec

-----------------------------------------------------------------------------
(* Notices *)

\* The replicas about to tell a user of a follow.
Telling(e) == {r \in Replicas : pc[r] = "follow_notify" /\ Edge(job[r]) = e}

\* Every notice sent, or about to be sent, stands for a follow stored.
NoticesInv ==
    \A e \in Users \X Users : told[e] + Cardinality(Telling(e)) <= made[e]

LEMMA TellingFinite ==
    ASSUME NEW e
    PROVE  IsFiniteSet(Telling(e)) /\ Cardinality(Telling(e)) \in Nat
BY ReplicasAssumption, FS_Subset, FS_CardinalityType DEF Telling

LEMMA TellingFinitePrime ==
    ASSUME NEW e
    PROVE  IsFiniteSet(Telling(e)') /\ Cardinality(Telling(e)') \in Nat
BY ReplicasAssumption, FS_Subset, FS_CardinalityType DEF Telling

\* A step that is not one of the two below brings nobody to the notice.
LEMMA NoticeSteps ==
    ASSUME BaseInv, NEW r \in Replicas, Step(r)
    PROVE  \/ FollowCommit(r) \/ FollowNotify(r)
           \/ /\ UNCHANGED <<told, made>>
              /\ pc[r] # "follow_notify" => pc'[r] # "follow_notify"
<1> USE DEF BaseInv, GroupType, Goto, Finish, Release
<1>1. CASE FollowStep(r)
  BY <1>1 DEF FollowStep, FollowFind, FollowFindEdge, UnfollowFindEdge,
     UnfollowCommit, Look
<1>2. CASE ProfileStep(r)
  BY <1>2 DEF ProfileStep, CreateFind, CreateFindName, CreateInsert, UpdateFind,
     UpdateFindName, UpdateWrite, Look
<1>3. CASE FaultStep(r)
  BY <1>3 DEF FaultStep, Crash, ExpireSession, QueryFails, Die, Throw, OutliveSession
<1> QED BY <1>1, <1>2, <1>3 DEF Step

\* The move of one replica leaves the others' awaits and messages alone, and
\* its own message while it works.
LEMMA OthersUntouched ==
    ASSUME BaseInv, NEW r \in Replicas, Step(r)
    PROVE  \A s \in Replicas :
               /\ s # r => pc'[s] = pc[s] /\ job'[s] = job[s]
               /\ pc'[s] # "idle" => job'[s] = job[s]
<1>1. Moves(r)
  BY StepMoves
<1> QED
  BY <1>1 DEF Moves, Finish, Die, Throw, OutliveSession, Goto, Release, BaseInv, GroupType

\* One step keeps the account of the notices.
LEMMA NoticesStep ==
    ASSUME BaseInv, NoticesInv, NEW r \in Replicas, Step(r),
           NEW e \in Users \X Users
    PROVE  told'[e] + Cardinality(Telling(e)') <= made'[e]
<1>1. /\ IsFiniteSet(Telling(e)) /\ Cardinality(Telling(e)) \in Nat
      /\ IsFiniteSet(Telling(e)') /\ Cardinality(Telling(e)') \in Nat
  BY TellingFinite, TellingFinitePrime
<1>2. /\ told[e] \in Nat /\ made[e] \in Nat
      /\ told \in [Users \X Users -> Nat] /\ made \in [Users \X Users -> Nat]
      /\ told[e] + Cardinality(Telling(e)) <= made[e]
  BY DEF BaseInv, DataType, NoticesInv
<1>3. ASSUME Telling(e)' \subseteq Telling(e), UNCHANGED <<told, made>>
      PROVE  told'[e] + Cardinality(Telling(e)') <= made'[e]
  <2>1. Cardinality(Telling(e)') <= Cardinality(Telling(e))
    BY <1>1, <1>3, FS_Subset
  <2> QED BY <1>1, <1>2, <1>3, <2>1
<1>4. CASE FollowCommit(r)
  <2>1. pc[r] = "follow_commit" /\ told' = told
    BY <1>4 DEF FollowCommit
  <2>2. CASE Commits(job[r]) /\ Edge(job[r]) = e
    <3>1. made'[e] = made[e] + 1
      BY <1>2, <1>4, <2>2 DEF FollowCommit
    <3>2. Telling(e)' \subseteq Telling(e) \cup {r}
      BY OthersUntouched DEF Telling, Edge
    <3>3. r \notin Telling(e)
      BY <2>1 DEF Telling
    <3>4. /\ IsFiniteSet(Telling(e) \cup {r})
          /\ Cardinality(Telling(e) \cup {r}) = Cardinality(Telling(e)) + 1
      BY <1>1, <3>3, FS_AddElement
    <3>5. Cardinality(Telling(e)') <= Cardinality(Telling(e) \cup {r})
      BY <3>2, <3>4, FS_Subset
    <3> QED BY <1>1, <1>2, <2>1, <3>1, <3>4, <3>5
  <2>3. CASE ~(Commits(job[r]) /\ Edge(job[r]) = e)
    <3>1. made'[e] = made[e]
      BY <1>2, <1>4, <2>3 DEF FollowCommit
    <3>2. r \notin Telling(e)'
      <4>1. CASE Commits(job[r])
        BY <1>4, <2>3, <4>1 DEF FollowCommit, Goto, Telling, Edge
      <4>2. CASE ~Commits(job[r])
        BY <1>4, <4>2 DEF FollowCommit, Finish, Release, Telling, BaseInv, GroupType
      <4> QED BY <4>1, <4>2
    <3>3. Telling(e)' \subseteq Telling(e)
      BY <3>2, OthersUntouched DEF Telling, Edge
    <3>4. Cardinality(Telling(e)') <= Cardinality(Telling(e))
      BY <1>1, <3>3, FS_Subset
    <3> QED BY <1>1, <1>2, <2>1, <3>1, <3>4
  <2> QED BY <2>2, <2>3
<1>5. CASE FollowNotify(r)
  <2>1. pc[r] = "follow_notify" /\ made' = made /\ pc'[r] = "idle"
    BY <1>5 DEF FollowNotify, Finish, Release, BaseInv, GroupType
  <2>2. CASE Edge(job[r]) = e
    <3>1. told'[e] = told[e] + 1
      BY <1>2, <1>5, <2>2 DEF FollowNotify
    <3>2. Telling(e)' \subseteq Telling(e) \ {r} /\ r \in Telling(e)
      BY <2>1, <2>2, OthersUntouched DEF Telling, Edge
    <3>3. /\ IsFiniteSet(Telling(e) \ {r})
          /\ Cardinality(Telling(e) \ {r}) = Cardinality(Telling(e)) - 1
      BY <1>1, <3>2, FS_RemoveElement
    <3>4. Cardinality(Telling(e)') <= Cardinality(Telling(e) \ {r})
      BY <3>2, <3>3, FS_Subset
    <3> QED BY <1>1, <1>2, <2>1, <3>1, <3>3, <3>4
  <2>3. CASE Edge(job[r]) # e
    <3>1. told'[e] = told[e]
      BY <1>2, <1>5, <2>3 DEF FollowNotify
    <3>2. Telling(e)' \subseteq Telling(e)
      BY <2>1, OthersUntouched DEF Telling, Edge
    <3>3. Cardinality(Telling(e)') <= Cardinality(Telling(e))
      BY <1>1, <3>2, FS_Subset
    <3> QED BY <1>1, <1>2, <2>1, <3>1, <3>3
  <2> QED BY <2>2, <2>3
<1>6. CASE /\ UNCHANGED <<told, made>>
           /\ pc[r] # "follow_notify" => pc'[r] # "follow_notify"
  <2>1. Telling(e)' \subseteq Telling(e)
    BY <1>6, OthersUntouched DEF Telling, Edge
  <2> QED BY <1>3, <1>6, <2>1
<1> QED BY <1>4, <1>5, <1>6, NoticeSteps

\* Nobody is told twice of one follow, however often its message comes back.
THEOREM NoticesBacked == Spec => []NoticesAreBacked
<1>1. Init => NoticesInv
  <2> SUFFICES ASSUME Init, NEW e \in Users \X Users
               PROVE  told[e] + Cardinality(Telling(e)) <= made[e]
    BY DEF NoticesInv
  <2>1. Telling(e) = {}
    BY DEF Init, GroupInit, Telling
  <2> QED BY <2>1, FS_EmptySet DEF Init
<1>2. BaseInv /\ NoticesInv /\ [Next]_vars => NoticesInv'
  <2> SUFFICES ASSUME BaseInv, NoticesInv, [Next]_vars, NEW e \in Users \X Users
               PROVE  told'[e] + Cardinality(Telling(e)') <= made'[e]
    BY DEF NoticesInv
  <2>1. ASSUME NEW r \in Replicas, Step(r)
        PROVE  told'[e] + Cardinality(Telling(e)') <= made'[e]
    BY <2>1, NoticesStep
  <2>2. ASSUME NEW r \in Replicas, NEW m \in Requests, Begin(r, m)
        PROVE  told'[e] + Cardinality(Telling(e)') <= made'[e]
    <3>1. m.pattern # "follow_notify"
      BY RequestFields
    <3>2. Telling(e)' = Telling(e)
      BY <2>2, <3>1 DEF Begin, Take, Telling, BaseInv, GroupType
    <3> QED BY <2>2, <3>2 DEF Begin, NoticesInv
  <2>3. CASE UNCHANGED vars
    <3>1. Telling(e)' = Telling(e)
      BY <2>3 DEF vars, group, Telling
    <3> QED BY <2>3, <3>1 DEF vars, NoticesInv
  <2> QED BY <2>1, <2>2, <2>3 DEF Next, Step
<1>3. BaseInv /\ NoticesInv => NoticesAreBacked
  <2> SUFFICES ASSUME BaseInv, NoticesInv, NEW e \in Users \X Users
               PROVE  told[e] <= made[e]
    BY DEF NoticesAreBacked
  <2>1. Cardinality(Telling(e)) \in Nat
    BY TellingFinite
  <2> QED BY <2>1 DEF BaseInv, DataType, NoticesInv
<1> QED BY <1>1, <1>2, <1>3, BaseAlways, PTL DEF Spec
=============================================================================
