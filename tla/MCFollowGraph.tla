--------------------------- MODULE MCFollowGraph ---------------------------
(***************************************************************************)
(* Instances of FollowGraph for TLC: the message sets of the runs.         *)
(***************************************************************************)
EXTENDS FollowGraph

CONSTANTS ann, ben, low, cap

\* Two spellings of one name.
LowerCase == [n \in Names |-> low]

Join(i, u, n) == [pattern |-> "user.create_profile", id |-> i, userId |-> u, username |-> n]
Rename(i, u, n) == [pattern |-> "user.update_profile", id |-> i, userId |-> u, username |-> n]
Follow(i, u, v) ==
    [pattern |-> "user.follow", id |-> i, userId |-> u, targetUserId |-> v]
Unfollow(i, u, v) ==
    [pattern |-> "user.unfollow", id |-> i, userId |-> u, targetUserId |-> v]

\* Two users after the same names join, follow each other, one of them
\* twice and itself, and part again, twice.
Friends ==
    {Join(1, ann, low), Join(1, ben, cap), Rename(1, ann, cap), Rename(1, ben, low),
     Follow(1, ann, ben), Follow(2, ann, ben), Follow(1, ben, ben),
     Unfollow(1, ann, ben), Unfollow(2, ann, ben)}
=============================================================================
