----------------------------- MODULE MCAccounts -----------------------------
(***************************************************************************)
(* Instances of Accounts for TLC: the message sets of the runs.            *)
(***************************************************************************)
EXTENDS Accounts

CONSTANTS ann, root, old, new

Message(p, i, u) == [pattern |-> p, id |-> i, userId |-> u]
SignIn(i, u, w) == [pattern |-> "auth.signin", id |-> i, userId |-> u, password |-> w]
Reset(i, u, w) == [pattern |-> "auth.reset_passwd", id |-> i, userId |-> u, password |-> w]
Refresh(i, t) == [pattern |-> "auth.refresh", id |-> i, token |-> t]
SignOut(i, t) == [pattern |-> "auth.signout", id |-> i, token |-> t]
Block(i, u, until, n) ==
    [pattern |-> "auth.admin.block_user", id |-> i, userId |-> u,
     blockedUntil |-> until, blockDays |-> n]
Penalty(i) == Message("auth.apply_violation_penalty", i, ann)

\* One session rotated twice at once, signed out of, and rotated again, with
\* two penalties; and what is refused an administrator's account.
Rivals ==
    {SignIn(1, ann, old), Refresh(1, 1), Refresh(2, 1), SignOut(1, 1), Refresh(1, 2),
     Penalty(1), Penalty(2),
     Message("auth.admin_signin", 1, root), Message("auth.admin_signin", 2, ann),
     Block(3, root, 0, 0), Message("auth.admin.reset_violation_penalty", 2, root)}

\* Two penalties of one account, crossed by whatever else changes its standing.
Standings ==
    {Penalty(1), Penalty(2), Block(1, ann, 0, 2),
     Message("auth.check_posting_allowed", 1, ann),
     Message("auth.admin.unblock_user", 1, ann),
     Message("auth.admin.reset_violation_penalty", 1, ann)}

\* Everything a member's account can meet.
Everything ==
    {SignIn(1, ann, old), Message("auth.oauth_login", 1, ann),
     Refresh(1, 1), SignOut(1, 1), Reset(1, ann, new), Block(1, ann, 0, 2),
     Block(2, ann, Malformed, 0),
     Message("auth.check_posting_allowed", 1, ann),
     Message("auth.admin.unblock_user", 1, ann),
     Message("auth.admin.reset_violation_penalty", 1, ann), Penalty(1)}
=============================================================================
