-------------------------- MODULE MCPostLifecycle --------------------------
(***************************************************************************)
(* Instances of PostLifecycle for TLC: the message sets of the runs.       *)
(***************************************************************************)
EXTENDS PostLifecycle

CONSTANTS alice, p1, q1

Create(i, v) == [pattern |-> "post.create", id |-> i, authorId |-> alice, visibility |-> v]
Update(i, v) == [pattern |-> "post.update", id |-> i, authorId |-> alice, postId |-> p1,
                 visibility |-> v]
Delete(i) == [pattern |-> "post.delete", id |-> i, authorId |-> alice, postId |-> p1]
Approve(i) == [pattern |-> "admin.post.approve", id |-> i, postId |-> p1]
Reject(i, b) == [pattern |-> "admin.post.reject", id |-> i, postId |-> p1, applyPenalty |-> b]
File(i, t) == [pattern |-> "report.create", id |-> i, targetId |-> t]
Mark(i, s) == [pattern |-> "report.review", id |-> i, reportId |-> q1, status |-> s]
Review(i, a) == [pattern |-> "admin.report.review", id |-> i, reportId |-> q1, action |-> a]

\* Verdicts racing on one post, with the author deleting it, and a report
\* on it.
Rivals ==
    {Create(1, "public"), Approve(1), Reject(1, TRUE), Delete(1), File(1, p1),
     Review(1, "uphold")}

\* Posts for every audience, their author's edit, the verdicts on one of
\* them, and reports, on one of them or on something else, marked directly
\* as well as reviewed.
Moderation ==
    {Create(1, "public"), Create(2, "private"), Create(3, "followers"), Update(1, "unset"),
     Approve(1), Reject(1, FALSE), File(1, p1), File(2, NoPost), Mark(1, "reviewed"),
     Review(1, "uphold"), Review(2, "dismiss")}

\* The author edits a post an administrator removed.
AuthorEdits == {Create(1, "public"), Reject(1, TRUE), Update(1, "public")}
=============================================================================
