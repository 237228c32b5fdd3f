------------------------------ MODULE Accounts ------------------------------
(***************************************************************************)
(* The standing of accounts and their sessions in auth-service             *)
(* (auth-service.service.ts): penalties, blocks and their lifting, signing *)
(* in, rotating and revoking refresh tokens, resetting a password.  Every  *)
(* handler reads a user's row first and decides by that copy; its writes   *)
(* are single statements, with no transaction around them.                 *)
(***************************************************************************)
EXTENDS ConsumerGroup, Integers, FiniteSets

CONSTANTS
    Users,
    Admins,         \* the users whose role is "admin"
    Passwords,
    FirstPassword,  \* every user's password at the start
    NoPassword,     \* the secret of a session opened through a provider
    Days,           \* bound: the days on which anything happens
    Earlier,        \* bound: the violations the members start with
    ScanLimit,      \* how many refresh tokens a lookup compares
    MaxTokens,      \* bound on refresh tokens issued
    MaxSent,        \* bound: how many of the messages are taken up
    NoSession       \* what a token not issued yet stands for

Token == 1..MaxTokens

\* A date that does not parse; day 0 is none.
Malformed == -1

Request ==
    [pattern: {"auth.signin", "auth.reset_passwd"}, id: Nat, userId: Users,
     password: Passwords]
    \cup [pattern: {"auth.admin_signin", "auth.oauth_login",
                    "auth.check_posting_allowed", "auth.apply_violation_penalty",
                    "auth.admin.unblock_user", "auth.admin.reset_violation_penalty"},
          id: Nat, userId: Users]
    \cup [pattern: {"auth.refresh", "auth.signout"}, id: Nat, token: Token]
    \cup [pattern: {"auth.admin.block_user"}, id: Nat, userId: Users,
          blockedUntil: Nat \cup {Malformed}, blockDays: Nat]

ASSUME RequestsAssumption == Requests \subseteq Request
ASSUME NamesAssumption ==
    /\ FirstPassword \in Passwords /\ NoPassword \notin Passwords
    /\ Days \subseteq Nat /\ 0 \in Days
    /\ Earlier \subseteq 0..5
    /\ MaxTokens \in Nat /\ MaxSent \in Nat /\ ScanLimit \in Nat

SignIns == {"auth.signin", "auth.admin_signin", "auth.oauth_login"}
Labels ==
    {"idle", "signin_lift", "signin_proceed", "signin_token",
     "auth.refresh", "refresh_delete", "refresh_create", "auth.signout", "signout_delete",
     "auth.reset_passwd", "reset_revoke", "auth.check_posting_allowed", "check_lift",
     "auth.apply_violation_penalty", "penalty_write", "penalty_notify",
     "auth.admin.block_user", "block_revoke", "block_write",
     "auth.admin.unblock_user", "unblock_write",
     "auth.admin.reset_violation_penalty", "forgive_write"} \cup SignIns

\* A row of the User table.
Row == [status: {"active", "blocked"}, blockUntil: Nat, violationCount: Nat,
        postBlockUntil: Nat, password: Passwords]
NewRow(violations) ==
    [status |-> "active", blockUntil |-> 0, violationCount |-> violations,
     postBlockUntil |-> 0, password |-> FirstPassword]

NoCopy == [row |-> NewRow(0), day |-> 0]

\* A RefreshToken row, with the token its session began with and the
\* password that opened it.
Session == [userId: Users, expiresAt: Nat, root: Token,
            secret: Passwords \cup {NoPassword}]

VARIABLES
    user,       \* User table
    token,      \* RefreshToken rows ever stored
    live,       \* the tokens stored now
    issued,     \* how many tokens were issued
    seen,       \* the row each handler has read, and when
    told,       \* notification.penalty events emitted for each user
    today,      \* the day it is
    charged,    \* auxiliary: penalties stored for each user
    byAdmin,    \* auxiliary: users an administrator blocked last
    signedOut,  \* auxiliary: roots of the sessions signed out of
    halfReset   \* auxiliary: users a password reset was cut short for

store == <<token, live, issued>>
record == <<charged, byAdmin, signedOut, halfReset>>
vars == <<group, user, store, seen, told, today, record>>

Init ==
    /\ GroupInit
    /\ \E n \in Earlier :
           /\ charged = [u \in Users |-> IF u \in Admins THEN 0 ELSE n]
           /\ user = [u \in Users |-> NewRow(charged[u])]
    /\ token = [t \in Token |-> NoSession]
    /\ live = {}
    /\ issued = 0
    /\ seen = [r \in Replicas |-> NoCopy]
    /\ told = [u \in Users |-> 0]
    /\ today = 0
    /\ byAdmin = {}
    /\ signedOut = {}
    /\ halfReset = {}

-----------------------------------------------------------------------------
(* What the handlers share *)

\* The user a handler is about; rotation and sign-out name a token instead.
Of(m) == IF m.pattern \in {"auth.refresh", "auth.signout"}
         THEN token[m.token].userId ELSE m.userId
Subject(r) == Of(job[r])

TokensOf(u) == {t \in live : token[t].userId = u}

\* Is the account blocked, and the block not over yet?
Blocked(row) == row.status = "blocked" /\ today < row.blockUntil

\* A handler ends, and its copy with it, or goes on with the copy it has.
End(r) == Finish(r) /\ seen' = [seen EXCEPT ![r] = NoCopy]
Move(r, label) == Goto(r, label) /\ UNCHANGED seen

\* findUnique: the handler goes on with a copy of the row.
Read(r, label) ==
    /\ seen' = [seen EXCEPT ![r] = [row |-> user[Subject(r)], day |-> today]]
    /\ Goto(r, label)

Lift(u) ==
    user' = [user EXCEPT ![u] = [@ EXCEPT !.status = "active", !.blockUntil = 0]]

Revoke(u) == live' = live \ TokensOf(u) /\ UNCHANGED <<token, issued>>

\* refreshToken.create, for the session that began with token root.
Issue(u, root, secret) ==
    /\ issued < MaxTokens
    /\ issued' = issued + 1
    /\ token' = [token EXCEPT ![issued + 1] =
                    [userId |-> u, expiresAt |-> today + 15, root |-> root,
                     secret |-> secret]]
    /\ live' = live \cup {issued + 1}

Unexpired(t) == t \in live /\ today < token[t].expiresAt

\* findStoredRefreshToken: the newest unexpired tokens are compared.
Found(t) ==
    /\ Unexpired(t)
    /\ Cardinality({s \in live : Unexpired(s) /\ s > t}) < ScanLimit

\* A client holds only tokens it was given.
Sendable(m) ==
    /\ m.pattern \in {"auth.refresh", "auth.signout"} => m.token <= issued
    /\ Cardinality(Requests \ inbox) < MaxSent

Begin(r, m) ==
    /\ Sendable(m)
    /\ Take(r, m)
    /\ UNCHANGED <<user, store, seen, told, today, record>>

Tick ==
    /\ \E d \in Days : d > today /\ today' = d
    /\ UNCHANGED <<group, user, store, seen, told, record>>

-----------------------------------------------------------------------------
(* signin, adminSignin, oauthLogin, for a verified account *)

\* Mistake: an expired block and a running one are lifted alike.
SigninFindAny(r) ==
    /\ pc[r] \in SignIns
    /\ Read(r, IF user[Subject(r)].status = "blocked" THEN "signin_lift" ELSE "signin_proceed")
    /\ UNCHANGED <<user, store, told, today, record>>

Refused(r) ==
    \/ Blocked(user[Subject(r)])
    \/ pc[r] = "auth.admin_signin" /\ Subject(r) \notin Admins

SigninFind(r) ==
    /\ pc[r] \in SignIns
    /\ \/ Refused(r) /\ End(r)
       \/ /\ ~Refused(r)
          /\ Read(r, IF user[Subject(r)].status = "blocked"
                     THEN "signin_lift" ELSE "signin_proceed")
    /\ UNCHANGED <<user, store, told, today, record>>

\* The block that was over when the row was read is lifted.
SigninLift(r) ==
    /\ pc[r] = "signin_lift"
    /\ Lift(Subject(r))
    /\ byAdmin' = byAdmin \ {Subject(r)}
    /\ Move(r, "signin_proceed")
    /\ UNCHANGED <<store, told, today, charged, signedOut, halfReset>>

\* A provider's sign-in ends the user's other sessions; a password is
\* compared with the row read; an administrator gets no refresh token.
SigninProceed(r) ==
    /\ pc[r] = "signin_proceed"
    /\ \/ /\ job[r].pattern = "auth.oauth_login"
          /\ Revoke(Subject(r)) /\ Move(r, "signin_token")
       \/ /\ job[r].pattern = "auth.signin" /\ job[r].password = seen[r].row.password
          /\ Move(r, "signin_token") /\ UNCHANGED store
       \/ /\ job[r].pattern = "auth.signin" => job[r].password # seen[r].row.password
          /\ job[r].pattern # "auth.oauth_login"
          /\ End(r) /\ UNCHANGED store
    /\ UNCHANGED <<user, told, today, record>>

SigninToken(r) ==
    /\ pc[r] = "signin_token"
    /\ Issue(Subject(r), issued + 1,
             IF job[r].pattern = "auth.signin" THEN job[r].password ELSE NoPassword)
    /\ End(r)
    /\ UNCHANGED <<user, told, today, record>>

-----------------------------------------------------------------------------
(* refresh and signout *)

\* Nothing about the user is asked.
RefreshFind(r) ==
    /\ pc[r] = "auth.refresh"
    /\ IF Found(job[r].token) THEN Move(r, "refresh_delete") ELSE End(r)
    /\ UNCHANGED <<user, store, told, today, record>>

\* Mistake: the old token is kept.
RefreshKeep(r) ==
    /\ pc[r] = "refresh_delete"
    /\ Move(r, "refresh_create")
    /\ UNCHANGED <<user, store, told, today, record>>

\* Mistake: a delete that does not mind finding nothing.
RefreshBlind(r) ==
    /\ pc[r] = "refresh_delete"
    /\ live' = live \ {job[r].token}
    /\ Move(r, "refresh_create")
    /\ UNCHANGED <<user, token, issued, told, today, record>>

\* The delete fails when the row is gone, and the rotation with it; a token
\* that expired during the comparison is deleted for good.
RefreshDelete(r) ==
    /\ pc[r] = "refresh_delete"
    /\ live' = live \ {job[r].token}
    /\ IF Unexpired(job[r].token) THEN Move(r, "refresh_create") ELSE End(r)
    /\ UNCHANGED <<user, token, issued, told, today, record>>

RefreshCreate(r) ==
    /\ pc[r] = "refresh_create"
    /\ Issue(Subject(r), token[job[r].token].root, token[job[r].token].secret)
    /\ End(r)
    /\ UNCHANGED <<user, told, today, record>>

SignoutFind(r) ==
    /\ pc[r] = "auth.signout"
    /\ IF Found(job[r].token) THEN Move(r, "signout_delete") ELSE End(r)
    /\ UNCHANGED <<user, store, told, today, record>>

SignoutDelete(r) ==
    /\ pc[r] = "signout_delete"
    /\ live' = live \ {job[r].token}
    /\ signedOut' = IF job[r].token \in live
                    THEN signedOut \cup {token[job[r].token].root} ELSE signedOut
    /\ End(r)
    /\ UNCHANGED <<user, token, issued, told, today, charged, byAdmin,
                   halfReset>>

-----------------------------------------------------------------------------
(* reset_passwd *)

\* The reset link is refused, or the new password is stored.
ResetWrite(r) ==
    /\ pc[r] = "auth.reset_passwd"
    /\ \/ End(r) /\ UNCHANGED user
       \/ /\ user' = [user EXCEPT ![Subject(r)].password = job[r].password]
          /\ Move(r, "reset_revoke")
    /\ UNCHANGED <<store, told, today, record>>

\* Mistake: only the sessions not rotated yet are ended.
ResetRevokeFirst(r) ==
    /\ pc[r] = "reset_revoke"
    /\ live' = {t \in live : token[t].userId # Subject(r) \/ token[t].root # t}
    /\ halfReset' = halfReset \ {Subject(r)}
    /\ End(r)
    /\ UNCHANGED <<user, token, issued, told, today, charged, byAdmin,
                   signedOut>>

ResetRevoke(r) ==
    /\ pc[r] = "reset_revoke"
    /\ Revoke(Subject(r))
    /\ halfReset' = halfReset \ {Subject(r)}
    /\ End(r)
    /\ UNCHANGED <<user, told, today, charged, byAdmin, signedOut>>

-----------------------------------------------------------------------------
(* checkPostingAllowed and applyViolationPenalty *)

\* Only a block that is over makes the question change anything.
CheckFind(r) ==
    LET row == user[Subject(r)] IN
    /\ pc[r] = "auth.check_posting_allowed"
    /\ \/ row.status = "blocked" /\ ~Blocked(row) /\ Read(r, "check_lift")
       \/ (row.status = "blocked" => Blocked(row)) /\ End(r)
    /\ UNCHANGED <<user, store, told, today, record>>

CheckLift(r) ==
    /\ pc[r] = "check_lift"
    /\ Lift(Subject(r))
    /\ byAdmin' = byAdmin \ {Subject(r)}
    /\ End(r)
    /\ UNCHANGED <<store, told, today, charged, signedOut, halfReset>>

PenaltyFind(r) ==
    /\ pc[r] = "auth.apply_violation_penalty"
    /\ Read(r, "penalty_write")
    /\ UNCHANGED <<user, store, told, today, record>>

\* Mistake: two warnings only.
PenalisedEarly(row, n, day) ==
    CASE n <= 2 -> [row EXCEPT !.violationCount = n]
      [] n = 3 -> [row EXCEPT !.violationCount = n, !.postBlockUntil = day + 1]
      [] n = 4 -> [row EXCEPT !.violationCount = n, !.postBlockUntil = day + 3]
      [] OTHER -> [row EXCEPT !.violationCount = n, !.status = "blocked",
                              !.blockUntil = day + 7]

\* Three warnings, two posting blocks, then the account is blocked.
Penalised(row, n, day) ==
    CASE n <= 3 -> [row EXCEPT !.violationCount = n]
      [] n = 4 -> [row EXCEPT !.violationCount = n, !.postBlockUntil = day + 1]
      [] n = 5 -> [row EXCEPT !.violationCount = n, !.postBlockUntil = day + 3]
      [] OTHER -> [row EXCEPT !.violationCount = n, !.status = "blocked",
                              !.blockUntil = day + 7]

\* Mistake: two violations at the price of one.
PenaltyWriteTwice(r) ==
    LET u == Subject(r) IN
    /\ pc[r] = "penalty_write"
    /\ user' = [user EXCEPT ![u] =
                   Penalised(@, seen[r].row.violationCount + 2, seen[r].day)]
    /\ charged' = [charged EXCEPT ![u] = @ + 1]
    /\ Move(r, "penalty_notify")
    /\ UNCHANGED <<store, told, today, byAdmin, signedOut, halfReset>>

PenaltyWrite(r) ==
    LET u == Subject(r) IN
    /\ pc[r] = "penalty_write"
    /\ user' = [user EXCEPT ![u] =
                   Penalised(@, seen[r].row.violationCount + 1, seen[r].day)]
    /\ charged' = [charged EXCEPT ![u] = @ + 1]
    /\ Move(r, "penalty_notify")
    /\ UNCHANGED <<store, told, today, byAdmin, signedOut, halfReset>>

PenaltyNotify(r) ==
    /\ pc[r] = "penalty_notify"
    /\ told' = [told EXCEPT ![Subject(r)] = @ + 1]
    /\ End(r)
    /\ UNCHANGED <<user, store, today, record>>

-----------------------------------------------------------------------------
(* blockUserForAdmin, unblockUserForAdmin, resetViolationPenaltyForAdmin *)

BlockFind(r) ==
    /\ pc[r] = "auth.admin.block_user"
    /\ IF Subject(r) \in Admins \/ job[r].blockedUntil = Malformed
       THEN End(r) ELSE Read(r, "block_revoke")
    /\ UNCHANGED <<user, store, told, today, record>>

\* Mistake: the sessions are left open.
BlockRevokeNone(r) ==
    /\ pc[r] = "block_revoke"
    /\ Move(r, "block_write")
    /\ UNCHANGED <<user, store, told, today, record>>

BlockRevoke(r) ==
    /\ pc[r] = "block_revoke"
    /\ Revoke(Subject(r))
    /\ Move(r, "block_write")
    /\ UNCHANGED <<user, told, today, record>>

\* Seven days, unless the administrator names a date or another number.
BlockEnd(m, day) ==
    IF m.blockedUntil # 0 THEN m.blockedUntil
                          ELSE day + (IF m.blockDays > 0 THEN m.blockDays ELSE 7)

BlockWrite(r) ==
    LET u == Subject(r) IN
    /\ pc[r] = "block_write"
    /\ user' = [user EXCEPT ![u] =
                   [@ EXCEPT !.status = "blocked",
                             !.blockUntil = BlockEnd(job[r], seen[r].day)]]
    /\ byAdmin' = byAdmin \cup {u}
    /\ End(r)
    /\ UNCHANGED <<store, told, today, charged, signedOut, halfReset>>

UnblockFind(r) ==
    /\ pc[r] = "auth.admin.unblock_user"
    /\ Read(r, "unblock_write")
    /\ UNCHANGED <<user, store, told, today, record>>

UnblockWrite(r) ==
    LET u == Subject(r) IN
    /\ pc[r] = "unblock_write"
    /\ user' = [user EXCEPT ![u] =
                   [@ EXCEPT !.status = "active", !.blockUntil = 0, !.postBlockUntil = 0]]
    /\ byAdmin' = byAdmin \ {u}
    /\ End(r)
    /\ UNCHANGED <<store, told, today, charged, signedOut, halfReset>>

ForgiveFind(r) ==
    /\ pc[r] = "auth.admin.reset_violation_penalty"
    /\ IF Subject(r) \in Admins THEN End(r)
                                ELSE Read(r, "forgive_write")
    /\ UNCHANGED <<user, store, told, today, record>>

ForgiveWrite(r) ==
    LET u == Subject(r) IN
    /\ pc[r] = "forgive_write"
    /\ user' = [user EXCEPT ![u] = [@ EXCEPT !.violationCount = 0, !.postBlockUntil = 0]]
    /\ End(r)
    /\ UNCHANGED <<store, told, today, record>>

-----------------------------------------------------------------------------
(* Faults *)

CutShort(r) ==
    /\ halfReset' = IF pc[r] = "reset_revoke" THEN halfReset \cup {Subject(r)} ELSE halfReset
    /\ seen' = [seen EXCEPT ![r] = NoCopy]
    /\ UNCHANGED <<user, store, told, today, charged, byAdmin, signedOut>>

Crash(r) == Die(r) /\ CutShort(r)
QueryFails(r) == pc[r] \notin {"idle", "penalty_notify"} /\ Throw(r) /\ CutShort(r)
ExpireSession(r) ==
    /\ OutliveSession(r)
    /\ UNCHANGED <<user, store, seen, told, today, record>>

-----------------------------------------------------------------------------
SessionStep(r) ==
    \/ SigninFind(r) \/ SigninLift(r) \/ SigninProceed(r) \/ SigninToken(r)
    \/ RefreshFind(r) \/ RefreshDelete(r) \/ RefreshCreate(r)
    \/ SignoutFind(r) \/ SignoutDelete(r) \/ ResetWrite(r) \/ ResetRevoke(r)
StandingStep(r) ==
    \/ CheckFind(r) \/ CheckLift(r)
    \/ PenaltyFind(r) \/ PenaltyWrite(r) \/ PenaltyNotify(r)
    \/ BlockFind(r) \/ BlockRevoke(r) \/ BlockWrite(r)
    \/ UnblockFind(r) \/ UnblockWrite(r) \/ ForgiveFind(r) \/ ForgiveWrite(r)
FaultStep(r) == Crash(r) \/ QueryFails(r) \/ ExpireSession(r)

Next ==
    \/ Tick
    \/ \E r \in Replicas :
        \/ \E m \in Requests : Begin(r, m)
        \/ SessionStep(r) \/ StandingStep(r) \/ FaultStep(r)

Spec == Init /\ [][Next]_vars

-----------------------------------------------------------------------------
(* Properties that hold whatever the number of replicas *)

\* Every variable keeps its type; the tokens stored are among those issued.
TypeOK ==
    /\ GroupType(Labels)
    /\ user \in [Users -> Row]
    /\ token \in [Token -> Session \cup {NoSession}]
    /\ live \subseteq 1..issued
    /\ issued \in 0..MaxTokens
    /\ \A t \in Token : t <= issued => token[t] \in Session
    /\ seen \in [Replicas -> [row: Row, day: Days]]
    /\ told \in [Users -> Nat]
    /\ today \in Days
    /\ charged \in [Users -> Nat]
    /\ byAdmin \subseteq Users
    /\ signedOut \subseteq Token
    /\ halfReset \subseteq Users

\* One session has one refresh token at most: a token presented twice at
\* once is rotated once, because its deletion fails the second time.
SessionsNeverMultiply == \A s, t \in live : token[s].root = token[t].root => s = t

\* A session signed out of stays so: no rotation under way brings it back.
SignOutIsFinal == \A t \in live : token[t].root \notin signedOut

\* Racing or repeated penalties never count, or warn of, more violations
\* than penalties were stored.
NeverOvercharged ==
    \A u \in Users : user[u].violationCount <= charged[u] /\ told[u] <= charged[u]

\* Nobody is punished before it is due: posting is barred from the fourth
\* violation stored, and the account blocked, unless by an administrator, from
\* the sixth, whatever penalties, pardons, blocks and sign-ins cross.
PunishedAsEarned ==
    \A u \in Users :
        /\ user[u].postBlockUntil > 0 => charged[u] >= 4
        /\ user[u].status = "blocked" /\ u \notin byAdmin => charged[u] >= 6

-----------------------------------------------------------------------------
(* Properties of a service that runs one handler at a time *)

\* A running block is lifted by an administrator and nobody else: no sign-in
\* or question about posting lifts it with what it read before.
BlockStands ==
    [][\A u \in Users :
           Blocked(user[u]) /\ user'[u].status # "blocked" =>
               \E r \in Replicas : pc[r] = "unblock_write" /\ Subject(r) = u]_vars

\* A user an administrator blocked has no session, until the block is lifted.
BlockEndsSessions ==
    \A u \in byAdmin : user[u].status = "blocked" => TokensOf(u) = {}

\* No session opened with an old password outlives a completed reset, nor
\* do those rotated out of it.
ResetEndsSessions ==
    \A t \in live : token[t].secret # NoPassword =>
        LET u == token[t].userId IN
        \/ token[t].secret = user[u].password
        \/ u \in halfReset
        \/ \E r \in Replicas : pc[r] = "reset_revoke" /\ Subject(r) = u
=============================================================================
