---------------------------- MODULE MCEngagement ----------------------------
(***************************************************************************)
(* Instances of Engagement for TLC: the message sets of the runs.          *)
(***************************************************************************)
EXTENDS Engagement

CONSTANTS alice, bob, p1, p2, c1, c2

\* alice wrote every post.
Authors == [p \in Posts |-> alice]

Like(i, u) == [pattern |-> "post.like", id |-> i, userId |-> u, on |-> p1]
Unlike(i, u) == [pattern |-> "post.unlike", id |-> i, userId |-> u, on |-> p1]
LikeComment(i, u, c) == [pattern |-> "comment.like", id |-> i, userId |-> u, on |-> c]
UnlikeComment(i, u, c) == [pattern |-> "comment.unlike", id |-> i, userId |-> u, on |-> c]
Comment(i, u) == [pattern |-> "comment.create", id |-> i, authorId |-> u, postId |-> p1,
                  parentId |-> NoParent]
Reply(i, u, p) == [pattern |-> "comment.create", id |-> i, authorId |-> u, postId |-> p,
                   parentId |-> c1]
Remove(i, u, c) == [pattern |-> "comment.delete", id |-> i, authorId |-> u, commentId |-> c]

\* A post liked and unliked, and a comment on it removed by its author and
\* by the post's while it is replied to.
Rivals ==
    {Like(1, bob), Unlike(1, bob), Comment(1, bob), Reply(1, alice, p1),
     Remove(1, bob, c1), Remove(1, alice, c1)}

\* The whole of it, for one replica.
Everything ==
    {Like(1, bob), Unlike(1, bob), Comment(1, bob), Reply(1, alice, p1), Reply(2, bob, p2),
     LikeComment(1, bob, c2), UnlikeComment(1, bob, c2), Remove(1, alice, c1),
     Remove(1, bob, c2)}

\* One comment removed by two.
OneComment == {Comment(1, bob), Remove(1, bob, c1), Remove(1, alice, c1)}
=============================================================================
