---------------------------- MODULE SocialGraph ----------------------------
(***************************************************************************)
(* What user-service promises of its follow graph, whatever its replicas   *)
(* do: one edge at a time comes or goes, between two different users, and  *)
(* the two counters move with it.                                          *)
(***************************************************************************)
EXTENDS Integers

CONSTANT Users

VARIABLES
    follows,    \* pairs of a follower and the user followed
    followers,  \* followers_count of each user
    following   \* following_count of each user

graph == <<follows, followers, following>>

Init ==
    /\ follows = {}
    /\ followers = [u \in Users |-> 0]
    /\ following = [u \in Users |-> 0]

Connect(u, v) ==
    /\ <<u, v>> \notin follows
    /\ follows' = follows \cup {<<u, v>>}
    /\ following' = [following EXCEPT ![u] = @ + 1]
    /\ followers' = [followers EXCEPT ![v] = @ + 1]

Disconnect(u, v) ==
    /\ <<u, v>> \in follows
    /\ follows' = follows \ {<<u, v>>}
    /\ following' = [following EXCEPT ![u] = @ - 1]
    /\ followers' = [followers EXCEPT ![v] = @ - 1]

Next == \E u, v \in Users : u # v /\ (Connect(u, v) \/ Disconnect(u, v))

Spec == Init /\ [][Next]_graph
=============================================================================
