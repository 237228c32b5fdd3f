-------------------------- MODULE Accounts_proofs --------------------------
(***************************************************************************)
(* What auth-service keeps for every number of replicas, users, messages   *)
(* and faults: its types, one refresh token a session, no session after    *)
(* its sign-out, no more violations than penalties, and no punishment      *)
(* before it is due.                                                       *)
(***************************************************************************)
EXTENDS Accounts, FiniteSetTheorems, TLAPS

-----------------------------------------------------------------------------
(* What the moves of a handler do to the group's variables.                 *)

\* A handler at work has a message.
Working == \A r \in Replicas : pc[r] # "idle" => job[r] \in Requests

\* At the start the replicas are idle and every message is in the inbox.
LEMMA InitType ==
    ASSUME NEW L, "idle" \in L, GroupInit
    PROVE  GroupType(L) /\ Working
BY GroupAssumption DEF GroupType, GroupInit, Working

\* Taking a message up keeps the types of the group's variables.
LEMMA TakeType ==
    ASSUME NEW L, GroupType(L), Working, NEW r \in Replicas, NEW m \in Requests,
           m.pattern \in L, Take(r, m)
    PROVE  GroupType(L)' /\ Working'
BY DEF GroupType, Take, Working

\* Moving a handler on to another await keeps them.
LEMMA GotoType ==
    ASSUME NEW L, GroupType(L), Working, NEW r \in Replicas, pc[r] # "idle",
           NEW l \in L, Goto(r, l)
    PROVE  GroupType(L)' /\ Working'
BY DEF GroupType, Goto, Working

\* Ending a handler keeps them, however it ends.
LEMMA EndType ==
    ASSUME NEW L, "idle" \in L, GroupType(L), Working, NEW r \in Replicas,
           Finish(r) \/ Die(r) \/ Throw(r)
    PROVE  GroupType(L)' /\ Working'
<1>1. ASSUME Release(r)
      PROVE  /\ pc' \in [Replicas -> L]
             /\ job' \in [Replicas -> Requests \cup {NoRequest}]
             /\ lease' \in [Replicas -> BOOLEAN]
             /\ Working'
  BY <1>1 DEF GroupType, Release, Working
<1>2. CASE Finish(r)
  BY <1>1, <1>2 DEF Finish, GroupType
<1>3. CASE Die(r)
  <2>1. inbox' \subseteq Requests
    BY <1>3 DEF Die, Redeliver, GroupType, Working
  <2> QED BY <1>1, <1>3, <2>1, GroupAssumption DEF Die, Fault, GroupType
<1>4. CASE Throw(r)
  BY <1>1, <1>4, GroupAssumption DEF Throw, Fault, GroupType
<1> QED BY <1>2, <1>3, <1>4

\* So does outliving the session, which leaves the handler where it was.
LEMMA OutliveType ==
    ASSUME NEW L, GroupType(L), Working, NEW r \in Replicas, OutliveSession(r)
    PROVE  GroupType(L)' /\ Working'
<1>1. inbox' \subseteq Requests
  BY DEF OutliveSession, Redeliver, GroupType, Working
<1> QED BY <1>1, GroupAssumption DEF OutliveSession, Fault, GroupType, Working

-----------------------------------------------------------------------------
(* The base invariant: types, and handlers at work on a message of the      *)
(* pattern their await belongs to.                                          *)

SigninSteps == SignIns \cup {"signin_lift", "signin_proceed", "signin_token"}
TokenSteps ==
    {"auth.refresh", "refresh_delete", "refresh_create", "auth.signout", "signout_delete"}
ResetSteps == {"auth.reset_passwd", "reset_revoke"}
LateBlock == {"block_revoke", "block_write"}
BlockSteps == LateBlock \cup {"auth.admin.block_user"}
StandingSteps ==
    {"auth.check_posting_allowed", "check_lift",
     "auth.apply_violation_penalty", "penalty_write", "penalty_notify",
     "auth.admin.unblock_user", "unblock_write",
     "auth.admin.reset_violation_penalty", "forgive_write"}
Standing ==
    {"auth.check_posting_allowed", "auth.apply_violation_penalty",
     "auth.admin.unblock_user", "auth.admin.reset_violation_penalty"}
OfTokens == {"auth.refresh", "auth.signout"}

JobOK ==
    \A r \in Replicas :
        /\ pc[r] \in SigninSteps => job[r].pattern \in SignIns
        /\ pc[r] \in TokenSteps => job[r].pattern \in OfTokens /\ job[r].token \in 1..issued
        /\ pc[r] \in ResetSteps => job[r].pattern = "auth.reset_passwd"
        /\ pc[r] \in BlockSteps => job[r].pattern = "auth.admin.block_user"
        /\ pc[r] \in LateBlock => job[r].blockedUntil # Malformed
        /\ pc[r] \in StandingSteps => job[r].pattern \in Standing

\* The type invariant without the group's part.
DataType ==
    /\ user \in [Users -> Row]
    /\ token \in [Token -> Session \cup {NoSession}]
    /\ live \subseteq 1..issued
    /\ issued \in 0..MaxTokens
    /\ \A t \in Token : t <= issued => token[t] \in Session
    /\ seen \in [Replicas -> [row: Row, day: Days]]
    /\ told \in [Users -> Nat]
    /\ today \in Days
    /\ charged \in [Users -> Nat]
    /\ byAdmin \subseteq Users
    /\ signedOut \subseteq Token
    /\ halfReset \subseteq Users

BaseInv == GroupType(Labels) /\ Working /\ DataType /\ JobOK

Step(r) == SessionStep(r) \/ StandingStep(r) \/ FaultStep(r)

\* What a message of each pattern carries.
LEMMA RequestFields ==
    ASSUME NEW m \in Requests
    PROVE  /\ m.pattern \in SignIns \cup OfTokens \cup Standing
                  \cup {"auth.reset_passwd", "auth.admin.block_user"}
           /\ m.pattern \in OfTokens => m.token \in Token
           /\ m.pattern \notin OfTokens => m.userId \in Users
           /\ m.pattern \in {"auth.signin", "auth.reset_passwd"} => m.password \in Passwords
           /\ m.pattern = "auth.admin.block_user" =>
                  m.blockedUntil \in Nat \cup {Malformed} /\ m.blockDays \in Nat
BY RequestsAssumption DEF Request, SignIns, OfTokens, Standing

\* A handler at work is about a user.
LEMMA SubjectIsUser ==
    ASSUME BaseInv, NEW r \in Replicas, pc[r] # "idle"
    PROVE  Subject(r) \in Users
<1>1. job[r] \in Requests /\ pc[r] \in Labels
  BY DEF BaseInv, Working, GroupType
<1>2. CASE job[r].pattern \in OfTokens
  <2>1. job[r].token \in 1..issued
    BY <1>1, <1>2 DEF BaseInv, JobOK, Labels, SigninSteps, TokenSteps, ResetSteps,
       BlockSteps, LateBlock, StandingSteps, OfTokens, Standing, SignIns
  <2>2. token[job[r].token] \in Session
    BY <2>1, NamesAssumption DEF BaseInv, DataType, Token
  <2> QED BY <1>2, <2>2 DEF Subject, Of, Session, OfTokens
<1>3. CASE job[r].pattern \notin OfTokens
  BY <1>1, <1>3, RequestFields DEF Subject, Of, OfTokens
<1> QED BY <1>2, <1>3

-----------------------------------------------------------------------------
(* How a step moves its handler *)

\* The handler ends, or goes on to a later await with the same message.
Moves(r) ==
    \/ Finish(r) \/ Die(r) \/ Throw(r)
    \/ OutliveSession(r)
    \/ \E F \in {SigninSteps, TokenSteps, ResetSteps, StandingSteps} :
           pc[r] \in F /\ \E l \in F : Goto(r, l)
    \/ /\ pc[r] \in BlockSteps /\ job[r].blockedUntil # Malformed
       /\ \E l \in LateBlock : Goto(r, l)

\* Every step moves its handler so, and takes no token back.
LEMMA StepMoves ==
    ASSUME BaseInv, NEW r \in Replicas, Step(r)
    PROVE  Moves(r)
<1> USE DEF Moves, SigninSteps, TokenSteps, ResetSteps, StandingSteps, BlockSteps, LateBlock,
        End, Move, Read
<1>1. CASE SigninFind(r)
  BY <1>1 DEF SigninFind
<1>2. CASE SigninLift(r) \/ SigninProceed(r) \/ SigninToken(r)
  BY <1>2 DEF SigninLift, SigninProceed, SigninToken
<1>3. CASE RefreshFind(r) \/ RefreshDelete(r) \/ RefreshCreate(r)
  BY <1>3 DEF RefreshFind, RefreshDelete, RefreshCreate
<1>4. CASE SignoutFind(r) \/ SignoutDelete(r)
  BY <1>4 DEF SignoutFind, SignoutDelete
<1>5. CASE ResetWrite(r) \/ ResetRevoke(r)
  BY <1>5 DEF ResetWrite, ResetRevoke
<1>6. CASE CheckFind(r) \/ CheckLift(r)
  BY <1>6 DEF CheckFind, CheckLift
<1>7. CASE PenaltyFind(r) \/ PenaltyWrite(r) \/ PenaltyNotify(r)
  BY <1>7 DEF PenaltyFind, PenaltyWrite, PenaltyNotify
<1>8. CASE BlockFind(r)
  BY <1>8 DEF BlockFind
<1>9. CASE BlockRevoke(r) \/ BlockWrite(r)
  BY <1>9 DEF BlockRevoke, BlockWrite, BaseInv, JobOK
<1>10. CASE UnblockFind(r) \/ UnblockWrite(r)
  BY <1>10 DEF UnblockFind, UnblockWrite
<1>11. CASE ForgiveFind(r) \/ ForgiveWrite(r)
  BY <1>11 DEF ForgiveFind, ForgiveWrite
<1>12. CASE FaultStep(r)
  BY <1>12 DEF FaultStep, Crash, QueryFails, ExpireSession
<1> QED
  BY <1>1, <1>2, <1>3, <1>4, <1>5, <1>6, <1>7, <1>8, <1>9, <1>10, <1>11, <1>12
     DEF Step, SessionStep, StandingStep

\* Such a move keeps the types of the group and the handlers on their
\* messages, when no token is taken back.
LEMMA MovesKeepJobs ==
    ASSUME BaseInv, NEW r \in Replicas, Moves(r), issued \in Nat, issued' \in Nat,
           issued <= issued'
    PROVE  GroupType(Labels)' /\ Working' /\ JobOK'
<1> USE DEF BaseInv
<1>1. CASE Finish(r) \/ Die(r) \/ Throw(r)
  <2>1. GroupType(Labels)' /\ Working'
    BY <1>1, EndType DEF Labels
  <2>2. Release(r)
    BY <1>1 DEF Finish, Die, Throw
  <2>3. JobOK'
    BY <2>2 DEF Release, JobOK, GroupType, SigninSteps, SignIns, TokenSteps, ResetSteps,
       BlockSteps, LateBlock, StandingSteps
  <2> QED BY <2>1, <2>3
<1>2. CASE OutliveSession(r)
  <2>1. GroupType(Labels)' /\ Working'
    BY <1>2, OutliveType
  <2>2. pc' = pc /\ job' = job
    BY <1>2 DEF OutliveSession
  <2>3. JobOK'
    BY <2>2 DEF JobOK
  <2> QED BY <2>1, <2>3
<1>3. ASSUME NEW l \in Labels, Goto(r, l), pc[r] # "idle"
      PROVE  GroupType(Labels)' /\ Working'
  BY <1>3, GotoType
<1>4. ASSUME NEW F \in {SigninSteps, TokenSteps, ResetSteps, StandingSteps},
             pc[r] \in F, NEW l \in F, Goto(r, l)
      PROVE  GroupType(Labels)' /\ Working' /\ JobOK'
  <2>1. l \in Labels /\ pc[r] # "idle"
    BY <1>4 DEF Labels, SigninSteps, SignIns, TokenSteps, ResetSteps, StandingSteps
  <2>2. JobOK'
    BY <1>4 DEF Goto, JobOK, GroupType, SigninSteps, SignIns, TokenSteps, ResetSteps,
       BlockSteps, LateBlock, StandingSteps
  <2> QED BY <1>3, <1>4, <2>1, <2>2
<1>5. ASSUME pc[r] \in BlockSteps, job[r].blockedUntil # Malformed,
             NEW l \in LateBlock, Goto(r, l)
      PROVE  GroupType(Labels)' /\ Working' /\ JobOK'
  <2>1. l \in Labels /\ pc[r] # "idle"
    BY <1>5 DEF Labels, BlockSteps, LateBlock
  <2>2. JobOK'
    BY <1>5 DEF Goto, JobOK, GroupType, SigninSteps, SignIns, TokenSteps, ResetSteps,
       BlockSteps, LateBlock, StandingSteps
  <2> QED BY <1>3, <1>5, <2>1, <2>2
<1> QED BY <1>1, <1>2, <1>4, <1>5 DEF Moves

-----------------------------------------------------------------------------
(* Types *)

\* The rows a handler writes are rows.
LEMMA RowsWritten ==
    /\ \A n \in 0..5 : NewRow(n) \in Row
    /\ NoCopy \in [row: Row, day: Days]
    /\ \A row \in Row :
           /\ [row EXCEPT !.status = "active", !.blockUntil = 0] \in Row
           /\ [row EXCEPT !.status = "active", !.blockUntil = 0, !.postBlockUntil = 0] \in Row
           /\ [row EXCEPT !.violationCount = 0, !.postBlockUntil = 0] \in Row
           /\ \A w \in Passwords : [row EXCEPT !.password = w] \in Row
           /\ \A d \in Nat : [row EXCEPT !.status = "blocked", !.blockUntil = d] \in Row
           /\ \A n, d \in Nat : Penalised(row, n, d) \in Row
<1>1. \A n \in 0..5 : NewRow(n) \in Row
  BY NamesAssumption DEF Row, NewRow
<1>2. NoCopy \in [row: Row, day: Days]
  BY <1>1, NamesAssumption DEF NoCopy
<1>3. ASSUME NEW row \in Row
      PROVE  /\ [row EXCEPT !.status = "active", !.blockUntil = 0] \in Row
             /\ [row EXCEPT !.status = "active", !.blockUntil = 0, !.postBlockUntil = 0] \in Row
             /\ [row EXCEPT !.violationCount = 0, !.postBlockUntil = 0] \in Row
             /\ \A w \in Passwords : [row EXCEPT !.password = w] \in Row
             /\ \A d \in Nat : [row EXCEPT !.status = "blocked", !.blockUntil = d] \in Row
  BY <1>3 DEF Row
<1>4. ASSUME NEW row \in Row, NEW n \in Nat, NEW d \in Nat
      PROVE  Penalised(row, n, d) \in Row
  <2>1. CASE n <= 3
    BY <2>1, <1>4 DEF Row, Penalised
  <2>2. CASE n > 3
    <3>1. d + 1 \in Nat /\ d + 3 \in Nat /\ d + 7 \in Nat /\ ~(n <= 3)
      BY <2>2
    <3>2. CASE n = 4
      BY <3>1, <3>2, <1>4 DEF Row, Penalised
    <3>3. CASE n = 5
      BY <3>1, <3>3, <1>4 DEF Row, Penalised
    <3>4. CASE n # 4 /\ n # 5
      BY <3>1, <3>4, <1>4 DEF Row, Penalised
    <3> QED BY <3>2, <3>3, <3>4
  <2> QED BY <2>1, <2>2
<1> QED BY <1>1, <1>2, <1>3, <1>4

\* What a step may do to the tokens: none, or one more of a known user.
TokensStep ==
    \/ live' \subseteq live /\ UNCHANGED <<token, issued>>
    \/ \E u \in Users, root \in Token, secret \in Passwords \cup {NoPassword} :
           Issue(u, root, secret)

\* Tokens issued are of their type.
LEMMA TokenTypes ==
    ASSUME DataType, TokensStep
    PROVE  /\ token' \in [Token -> Session \cup {NoSession}]
           /\ live' \subseteq 1..issued'
           /\ issued' \in 0..MaxTokens
           /\ issued <= issued'
           /\ \A t \in Token : t <= issued' => token'[t] \in Session
<1>0. issued \in Nat /\ MaxTokens \in Nat
  BY NamesAssumption DEF DataType
<1>1. CASE live' \subseteq live /\ UNCHANGED <<token, issued>>
  BY <1>0, <1>1 DEF DataType
<1>2. ASSUME NEW u \in Users, NEW root \in Token, NEW secret \in Passwords \cup {NoPassword},
             Issue(u, root, secret)
      PROVE  /\ token' \in [Token -> Session \cup {NoSession}]
             /\ live' \subseteq 1..issued'
             /\ issued' \in 0..MaxTokens
             /\ issued <= issued'
             /\ \A t \in Token : t <= issued' => token'[t] \in Session
  <2> DEFINE row == [userId |-> u, expiresAt |-> today + 15, root |-> root,
                     secret |-> secret]
  <2>1. row \in Session
    <3>1. today + 15 \in Nat
      BY NamesAssumption DEF DataType
    <3> QED BY <1>2, <3>1 DEF Session
  <2> HIDE DEF row
  <2>2. token' = [token EXCEPT ![issued + 1] = row] /\ issued + 1 \in Token
        /\ issued' = issued + 1
    BY <1>0, <1>2 DEF Issue, row, Token
  <2>3. token' \in [Token -> Session \cup {NoSession}]
    BY <2>1, <2>2 DEF DataType
  <2>4. live' \subseteq 1..issued' /\ issued' \in 0..MaxTokens /\ issued <= issued'
    BY <1>0, <1>2 DEF Issue, DataType
  <2>5. ASSUME NEW t \in Token, t <= issued' PROVE token'[t] \in Session
    BY <1>0, <2>1, <2>2, <2>5 DEF DataType, Token
  <2> QED BY <2>3, <2>4, <2>5
<1> QED BY <1>1, <1>2 DEF TokensStep

\* Every step deletes tokens or issues one.
LEMMA StepTokens ==
    ASSUME BaseInv, NEW r \in Replicas, Step(r)
    PROVE  TokensStep
<1> USE DEF TokensStep, store, Revoke
<1>0. pc[r] # "idle" => Subject(r) \in Users
  BY SubjectIsUser
<1>1. CASE SigninToken(r)
  <2>1. issued + 1 \in Token
    BY <1>1, NamesAssumption DEF SigninToken, Issue, BaseInv, DataType, Token
  <2>2. job[r].pattern = "auth.signin" => job[r].password \in Passwords
    BY <1>1, RequestFields DEF SigninToken, BaseInv, Working
  <2> QED BY <1>0, <1>1, <2>1, <2>2 DEF SigninToken
<1>2. CASE RefreshCreate(r)
  <2>1. token[job[r].token] \in Session
    BY <1>2, NamesAssumption DEF RefreshCreate, BaseInv, JobOK, TokenSteps, DataType, Token
  <2> QED BY <1>0, <1>2, <2>1 DEF RefreshCreate, Session
<1>3. CASE SigninFind(r) \/ SigninLift(r) \/ SigninProceed(r)
  BY <1>3 DEF SigninFind, SigninLift, SigninProceed
<1>4. CASE RefreshFind(r) \/ RefreshDelete(r) \/ SignoutFind(r) \/ SignoutDelete(r)
  BY <1>4 DEF RefreshFind, RefreshDelete, SignoutFind, SignoutDelete
<1>5. CASE ResetWrite(r) \/ ResetRevoke(r)
  BY <1>5 DEF ResetWrite, ResetRevoke
<1>6. CASE StandingStep(r)
  BY <1>6 DEF StandingStep, CheckFind, CheckLift, PenaltyFind, PenaltyWrite, PenaltyNotify,
     BlockFind, BlockRevoke, BlockWrite, UnblockFind, UnblockWrite, ForgiveFind, ForgiveWrite
<1>7. CASE FaultStep(r)
  BY <1>7 DEF FaultStep, Crash, QueryFails, ExpireSession, CutShort
<1> QED BY <1>1, <1>2, <1>3, <1>4, <1>5, <1>6, <1>7 DEF Step, SessionStep

\* Every step keeps a handler's copy, drops it, or takes it of a stored row.
LEMMA StepCopies ==
    ASSUME BaseInv, NEW r \in Replicas, Step(r)
    PROVE  \/ seen' = seen
           \/ seen' = [seen EXCEPT ![r] = NoCopy]
           \/ seen' = [seen EXCEPT ![r] = [row |-> user[Subject(r)], day |-> today]]
<1> USE DEF End, Move, Read
<1>1. CASE SessionStep(r)
  BY <1>1 DEF SessionStep, SigninFind, SigninLift, SigninProceed, SigninToken, RefreshFind,
     RefreshDelete, RefreshCreate, SignoutFind, SignoutDelete, ResetWrite, ResetRevoke
<1>2. CASE StandingStep(r)
  BY <1>2 DEF StandingStep, CheckFind, CheckLift, PenaltyFind, PenaltyWrite, PenaltyNotify,
     BlockFind, BlockRevoke, BlockWrite, UnblockFind, UnblockWrite, ForgiveFind, ForgiveWrite
<1>3. CASE FaultStep(r)
  BY <1>3 DEF FaultStep, Crash, QueryFails, ExpireSession, CutShort
<1> QED BY <1>1, <1>2, <1>3 DEF Step

\* Every step leaves the rows alone, or writes a row of one user.
LEMMA StepRows ==
    ASSUME BaseInv, NEW r \in Replicas, Step(r)
    PROVE  UNCHANGED user \/ \E row \in Row : user' = [user EXCEPT ![Subject(r)] = row]
<1> DEFINE u == Subject(r)
<1>0. pc[r] # "idle" => u \in Users /\ user[u] \in Row
  BY SubjectIsUser DEF BaseInv, DataType
<1>1. CASE SigninLift(r) \/ CheckLift(r)
  BY <1>0, <1>1, RowsWritten DEF SigninLift, CheckLift, Lift
<1>2. CASE ResetWrite(r)
  <2>1. job[r].password \in Passwords
    BY <1>2, RequestFields DEF ResetWrite, BaseInv, JobOK, ResetSteps, Working
  <2> QED BY <1>0, <1>2, <2>1, RowsWritten DEF ResetWrite
<1>3. CASE PenaltyWrite(r)
  <2>1. seen[r].row.violationCount + 1 \in Nat /\ seen[r].day \in Nat
    <3>1. seen[r].row \in Row /\ seen[r].day \in Nat
      BY NamesAssumption DEF BaseInv, DataType
    <3> QED BY <3>1 DEF Row
  <2> QED BY <1>0, <1>3, <2>1, RowsWritten DEF PenaltyWrite
<1>4. CASE BlockWrite(r)
  <2>1. BlockEnd(job[r], seen[r].day) \in Nat
    <3>1. job[r].blockedUntil \in Nat /\ job[r].blockDays \in Nat
      BY <1>4, RequestFields DEF BlockWrite, BaseInv, JobOK, BlockSteps, LateBlock, Working
    <3>2. seen[r].day \in Nat
      BY NamesAssumption DEF BaseInv, DataType
    <3> QED BY <3>1, <3>2 DEF BlockEnd
  <2> QED BY <1>0, <1>4, <2>1, RowsWritten DEF BlockWrite
<1>5. CASE UnblockWrite(r) \/ ForgiveWrite(r)
  BY <1>0, <1>5, RowsWritten DEF UnblockWrite, ForgiveWrite
<1>6. CASE \/ SigninFind(r) \/ SigninProceed(r) \/ SigninToken(r) \/ RefreshFind(r)
           \/ RefreshDelete(r) \/ RefreshCreate(r) \/ SignoutFind(r) \/ SignoutDelete(r)
           \/ ResetRevoke(r)
  BY <1>6 DEF SigninFind, SigninProceed, SigninToken, RefreshFind,
     RefreshDelete, RefreshCreate, SignoutFind, SignoutDelete, ResetRevoke
<1>7. CASE \/ CheckFind(r) \/ PenaltyFind(r) \/ PenaltyNotify(r) \/ BlockFind(r)
           \/ BlockRevoke(r) \/ UnblockFind(r) \/ ForgiveFind(r)
  BY <1>7 DEF CheckFind, PenaltyFind, PenaltyNotify, BlockFind, BlockRevoke, UnblockFind,
     ForgiveFind
<1>8. CASE FaultStep(r)
  BY <1>8 DEF FaultStep, Crash, QueryFails, ExpireSession, CutShort
<1> QED
  BY <1>1, <1>2, <1>3, <1>4, <1>5, <1>6, <1>7, <1>8 DEF Step, SessionStep, StandingStep

\* Every step keeps the types of the records.
LEMMA StepRecords ==
    ASSUME BaseInv, NEW r \in Replicas, Step(r)
    PROVE  /\ told' \in [Users -> Nat]
           /\ today' \in Days
           /\ charged' \in [Users -> Nat]
           /\ byAdmin' \subseteq Users
           /\ signedOut' \subseteq Token
           /\ halfReset' \subseteq Users
<1> USE DEF BaseInv, DataType, record
<1>0. pc[r] # "idle" => Subject(r) \in Users
  BY SubjectIsUser
<1>1. CASE \/ SigninFind(r) \/ SigninLift(r) \/ SigninProceed(r) \/ SigninToken(r)
           \/ RefreshFind(r) \/ RefreshDelete(r) \/ RefreshCreate(r) \/ SignoutFind(r)
  BY <1>1 DEF SigninFind, SigninLift, SigninProceed, SigninToken, RefreshFind,
     RefreshDelete, RefreshCreate, SignoutFind
<1>2. CASE SignoutDelete(r)
  <2>1. token[job[r].token].root \in Token
    BY <1>2, NamesAssumption DEF SignoutDelete, JobOK, TokenSteps, Token, Session
  <2> QED BY <1>2, <2>1 DEF SignoutDelete
<1>3. CASE ResetWrite(r) \/ ResetRevoke(r)
  BY <1>3 DEF ResetWrite, ResetRevoke
<1>4. CASE CheckFind(r) \/ CheckLift(r) \/ PenaltyFind(r) \/ BlockFind(r) \/ BlockRevoke(r)
  BY <1>4 DEF CheckFind, CheckLift, PenaltyFind, BlockFind, BlockRevoke
<1>5. CASE PenaltyWrite(r) \/ PenaltyNotify(r)
  BY <1>5 DEF PenaltyWrite, PenaltyNotify
<1>6. CASE BlockWrite(r) \/ UnblockFind(r) \/ UnblockWrite(r)
  BY <1>0, <1>6 DEF BlockWrite, UnblockFind, UnblockWrite
<1>7. CASE ForgiveFind(r)
  BY <1>7 DEF ForgiveFind
<1>8. CASE ForgiveWrite(r)
  BY <1>0, <1>8 DEF ForgiveWrite
<1>9. CASE FaultStep(r)
  BY <1>0, <1>9 DEF FaultStep, Crash, QueryFails, ExpireSession, CutShort
<1> QED
  BY <1>1, <1>2, <1>3, <1>4, <1>5, <1>6, <1>7, <1>8, <1>9 DEF Step, SessionStep, StandingStep

\* The base invariant holds throughout.
LEMMA BaseAlways == Spec => []BaseInv
<1>1. Init => BaseInv
  <2> SUFFICES ASSUME Init PROVE BaseInv
    OBVIOUS
  <2>1. GroupType(Labels) /\ Working
    BY InitType DEF Init, Labels
  <2>2. JobOK
    BY DEF Init, GroupInit, JobOK, SigninSteps, SignIns, TokenSteps, ResetSteps,
       BlockSteps, LateBlock, StandingSteps
  <2>3. charged \in [Users -> 0..5] /\ user = [u \in Users |-> NewRow(charged[u])]
    BY NamesAssumption DEF Init
  <2>4. DataType
    <3>1. user \in [Users -> Row] /\ charged \in [Users -> Nat]
      <4>1. \A u \in Users : charged[u] \in 0..5 /\ NewRow(charged[u]) \in Row
        BY <2>3, RowsWritten
      <4> QED BY <2>3, <4>1
    <3>2. seen \in [Replicas -> [row: Row, day: Days]]
      BY RowsWritten DEF Init
    <3>3. \A t \in Token : ~(t <= 0)
      BY NamesAssumption DEF Token
    <3> QED BY <3>1, <3>2, <3>3, NamesAssumption DEF Init, DataType
  <2> QED BY <2>1, <2>2, <2>4 DEF BaseInv
<1>2. BaseInv /\ [Next]_vars => BaseInv'
  <2> SUFFICES ASSUME BaseInv, [Next]_vars PROVE BaseInv'
    OBVIOUS
  <2>1. ASSUME NEW r \in Replicas, Step(r) PROVE BaseInv'
    <3>1. /\ token' \in [Token -> Session \cup {NoSession}]
          /\ live' \subseteq 1..issued'
          /\ issued' \in 0..MaxTokens
          /\ issued <= issued'
          /\ \A t \in Token : t <= issued' => token'[t] \in Session
      BY <2>1, StepTokens, TokenTypes DEF BaseInv
    <3>2. user' \in [Users -> Row]
      BY <2>1, StepRows DEF BaseInv, DataType
    <3>3. seen' \in [Replicas -> [row: Row, day: Days]]
      <4>1. pc[r] # "idle"
        BY <2>1 DEF Step, SessionStep, StandingStep, FaultStep, SignIns, SigninFind, SigninLift,
           SigninProceed, SigninToken, RefreshFind, RefreshDelete, RefreshCreate, SignoutFind,
           SignoutDelete, ResetWrite, ResetRevoke, CheckFind, CheckLift, PenaltyFind,
           PenaltyWrite, PenaltyNotify, BlockFind, BlockRevoke, BlockWrite, UnblockFind,
           UnblockWrite, ForgiveFind, ForgiveWrite, Crash, Die, QueryFails, ExpireSession,
           OutliveSession
      <4>2. [row |-> user[Subject(r)], day |-> today] \in [row: Row, day: Days]
        BY <4>1, SubjectIsUser DEF BaseInv, DataType
      <4>3. NoCopy \in [row: Row, day: Days]
        BY RowsWritten
      <4>4. seen \in [Replicas -> [row: Row, day: Days]]
        BY DEF BaseInv, DataType
      <4>5. \/ seen' = seen
            \/ seen' = [seen EXCEPT ![r] = NoCopy]
            \/ seen' = [seen EXCEPT ![r] = [row |-> user[Subject(r)], day |-> today]]
        BY <2>1, StepCopies
      <4> QED BY <4>2, <4>3, <4>4, <4>5
    <3>4. DataType'
      BY <2>1, <3>1, <3>2, <3>3, StepRecords DEF DataType
    <3>5. GroupType(Labels)' /\ Working' /\ JobOK'
      <4>1. issued \in Nat /\ issued' \in Nat
        BY <3>1, NamesAssumption DEF BaseInv, DataType
      <4> QED BY <2>1, <3>1, <4>1, StepMoves, MovesKeepJobs
    <3> QED BY <3>4, <3>5 DEF BaseInv
  <2>2. ASSUME NEW r \in Replicas, NEW m \in Requests, Begin(r, m) PROVE BaseInv'
    <3>1. m.pattern \in Labels
      BY RequestFields DEF Labels, SignIns, OfTokens, Standing
    <3>2. GroupType(Labels)' /\ Working'
      BY <2>2, <3>1, TakeType DEF Begin, BaseInv
    <3>3. m.pattern \in OfTokens => m.token \in 1..issued
      BY <2>2, RequestFields, NamesAssumption DEF Begin, Sendable, OfTokens, Token, BaseInv,
         DataType
    <3>4. JobOK'
      BY <2>2, <3>3, RequestFields DEF Begin, store, Take, BaseInv, GroupType, JobOK, SigninSteps,
         SignIns, TokenSteps, ResetSteps, BlockSteps, LateBlock, StandingSteps, OfTokens,
         Standing
    <3>5. DataType'
      BY <2>2 DEF Begin, BaseInv, DataType, store, record
    <3> QED BY <3>2, <3>4, <3>5 DEF BaseInv
  <2>3. CASE Tick
    BY <2>3 DEF Tick, group, store, record, BaseInv, GroupType, Working, DataType, JobOK
  <2>4. CASE UNCHANGED vars
    BY <2>4 DEF vars, group, store, record, BaseInv, GroupType, Working, DataType, JobOK
  <2> QED BY <2>1, <2>2, <2>3, <2>4 DEF Next, Step
<1> QED BY <1>1, <1>2, PTL DEF Spec

\* Every variable keeps its type, whatever the replicas, users and faults.
THEOREM TypeCorrect == Spec => []TypeOK
<1>1. BaseInv => TypeOK
  BY DEF BaseInv, DataType, TypeOK
<1> QED BY <1>1, BaseAlways, PTL

-----------------------------------------------------------------------------
(* Sessions: the invariant counts a rotation between its two writes as the   *)
(* token of its session, which it holds in its hand.                         *)

Rotating(r) == pc[r] = "refresh_create"
RootOf(r) == token[job[r].token].root

RootsIssued == \A t \in 1..issued : token[t].root \in 1..issued
HandIsOnly ==
    \A r \in Replicas : Rotating(r) =>
        /\ \A t \in live : token[t].root # RootOf(r)
        /\ \A q \in Replicas : Rotating(q) /\ RootOf(q) = RootOf(r) => q = r
HandIsOpen == \A r \in Replicas : Rotating(r) => RootOf(r) \notin signedOut

SessionInv ==
    /\ RootsIssued
    /\ signedOut \subseteq 1..issued
    /\ SessionsNeverMultiply
    /\ HandIsOnly
    /\ SignOutIsFinal
    /\ HandIsOpen

\* A token of a handler at work on one has been issued.
LEMMA TokenIssued ==
    ASSUME BaseInv, NEW r \in Replicas, pc[r] \in TokenSteps
    PROVE  job[r].token \in 1..issued
BY DEF BaseInv, JobOK

\* Deleting tokens, when no handler takes one in its hand, keeps the sessions.
LEMMA FewerTokens ==
    ASSUME BaseInv, SessionInv, live' \subseteq live, UNCHANGED <<token, issued, signedOut>>,
           \A q \in Replicas : Rotating(q)' => Rotating(q) /\ job'[q] = job[q]
    PROVE  SessionInv'
<1>1. \A q \in Replicas : Rotating(q)' => Rotating(q) /\ RootOf(q)' = RootOf(q)
  BY DEF RootOf
<1>2. HandIsOnly' /\ HandIsOpen'
  BY <1>1 DEF SessionInv, HandIsOnly, HandIsOpen
<1>3. RootsIssued' /\ (signedOut \subseteq 1..issued)' /\ SessionsNeverMultiply' /\ SignOutIsFinal'
  BY DEF SessionInv, RootsIssued, SessionsNeverMultiply, SignOutIsFinal
<1> QED BY <1>2, <1>3 DEF SessionInv

\* Taking the one token of a session in the hand keeps the sessions.
LEMMA TokenInHand ==
    ASSUME BaseInv, SessionInv, NEW r \in Replicas, RefreshDelete(r)
    PROVE  SessionInv'
<1> DEFINE t == job[r].token
<1>1. t \in 1..issued
  BY TokenIssued DEF RefreshDelete, TokenSteps
<1>2. UNCHANGED <<token, issued, signedOut>> /\ live' = live \ {t}
  BY DEF RefreshDelete, record
<1>3. CASE Unexpired(t)
  <2>1. t \in live /\ pc' = [pc EXCEPT ![r] = "refresh_create"] /\ job' = job
    BY <1>3 DEF RefreshDelete, Move, Goto, Unexpired
  <2>2. \A q \in Replicas : /\ RootOf(q)' = RootOf(q)
                            /\ Rotating(q)' => Rotating(q) \/ q = r
    BY <1>2, <2>1 DEF RootOf, Rotating, BaseInv, GroupType
  <2>3. RootOf(r) = token[t].root
    BY DEF RootOf
  <2>4. \A s \in live' : s # t /\ s \in live /\ token[s].root # token[t].root
    BY <1>2, <2>1 DEF SessionInv, SessionsNeverMultiply
  <2>5. \A q \in Replicas : Rotating(q) => RootOf(q) # token[t].root
    BY <2>1 DEF SessionInv, HandIsOnly
  <2>6. HandIsOnly'
    <3> SUFFICES ASSUME NEW q \in Replicas, Rotating(q)'
                 PROVE  /\ \A s \in live' : token'[s].root # RootOf(q)'
                        /\ \A p \in Replicas : Rotating(p)' /\ RootOf(p)' = RootOf(q)' => p = q
      BY DEF HandIsOnly
    <3>1. CASE q = r
      BY <1>2, <2>2, <2>3, <2>4, <2>5, <3>1
    <3>2. CASE q # r
      <4>1. Rotating(q)
        BY <2>2, <3>2
      <4>2. \A s \in live : token[s].root # RootOf(q)
        BY <4>1 DEF SessionInv, HandIsOnly
      <4>3. \A p \in Replicas : Rotating(p) /\ RootOf(p) = RootOf(q) => p = q
        BY <4>1 DEF SessionInv, HandIsOnly
      <4> QED BY <1>2, <2>2, <2>3, <2>5, <4>1, <4>2, <4>3
    <3> QED BY <3>1, <3>2
  <2>7. HandIsOpen'
    BY <1>2, <2>1, <2>2, <2>3 DEF SessionInv, HandIsOpen, SignOutIsFinal
  <2>8. RootsIssued' /\ (signedOut \subseteq 1..issued)' /\ SessionsNeverMultiply' /\ SignOutIsFinal'
    BY <1>2 DEF SessionInv, RootsIssued, SessionsNeverMultiply, SignOutIsFinal
  <2> QED BY <2>6, <2>7, <2>8 DEF SessionInv
<1>4. CASE ~Unexpired(t)
  <2>1. \A q \in Replicas : Rotating(q)' => Rotating(q) /\ job'[q] = job[q]
    BY <1>4 DEF RefreshDelete, End, Finish, Release, Rotating, BaseInv, GroupType
  <2> QED BY <1>2, <2>1, FewerTokens
<1> QED BY <1>3, <1>4

\* Signing out deletes the one token of a session, which no hand holds.
LEMMA TokenSignedOut ==
    ASSUME BaseInv, SessionInv, NEW r \in Replicas, SignoutDelete(r)
    PROVE  SessionInv'
<1> DEFINE t == job[r].token
<1>1. t \in 1..issued
  BY TokenIssued DEF SignoutDelete, TokenSteps
<1>2. UNCHANGED <<token, issued>> /\ live' = live \ {t}
  BY DEF SignoutDelete
<1>3. \A q \in Replicas : Rotating(q)' => Rotating(q) /\ job'[q] = job[q]
  BY DEF SignoutDelete, End, Finish, Release, Rotating, BaseInv, GroupType
<1>4. CASE t \in live
  <2>1. signedOut' = signedOut \cup {token[t].root}
    BY <1>4 DEF SignoutDelete
  <2>2. \A s \in live' : s \in live /\ token[s].root # token[t].root
    BY <1>2, <1>4 DEF SessionInv, SessionsNeverMultiply
  <2>3. \A q \in Replicas : Rotating(q)' => /\ Rotating(q) /\ RootOf(q)' = RootOf(q)
                                            /\ RootOf(q) # token[t].root
    BY <1>2, <1>3, <1>4 DEF SessionInv, HandIsOnly, RootOf
  <2>4. HandIsOnly' /\ HandIsOpen'
    BY <1>2, <2>1, <2>3 DEF SessionInv, HandIsOnly, HandIsOpen
  <2>5. SignOutIsFinal' /\ SessionsNeverMultiply'
    BY <1>2, <2>1, <2>2 DEF SessionInv, SignOutIsFinal, SessionsNeverMultiply
  <2>6. RootsIssued' /\ (signedOut \subseteq 1..issued)'
    BY <1>1, <1>2, <2>1 DEF SessionInv, RootsIssued
  <2> QED BY <2>4, <2>5, <2>6 DEF SessionInv
<1>5. CASE t \notin live
  BY <1>2, <1>3, <1>5, FewerTokens DEF SignoutDelete
<1> QED BY <1>4, <1>5

\* What issuing a token leaves as it was.
LEMMA TokenAdded ==
    ASSUME BaseInv, SessionInv, NEW u, NEW root \in 1..(issued + 1), NEW secret,
           Issue(u, root, secret), UNCHANGED signedOut
    PROVE  /\ issued \in Nat /\ issued' = issued + 1
           /\ live' = live \cup {issued + 1}
           /\ token'[issued + 1].root = root
           /\ \A t \in 1..issued : token'[t] = token[t]
           /\ RootsIssued' /\ (signedOut \subseteq 1..issued)'
<1>1. /\ issued \in Nat /\ issued' = issued + 1 /\ issued + 1 \in Token
      /\ live' = live \cup {issued + 1}
  BY NamesAssumption DEF Issue, BaseInv, DataType, Token
<1>2. token'[issued + 1].root = root /\ \A t \in 1..issued : token'[t] = token[t]
  BY <1>1 DEF Issue, BaseInv, DataType, Token
<1>3. RootsIssued'
  <2> SUFFICES ASSUME NEW t \in 1..(issued + 1) PROVE token'[t].root \in 1..(issued + 1)
    BY <1>1 DEF RootsIssued
  <2> QED BY <1>1, <1>2 DEF SessionInv, RootsIssued
<1> QED BY <1>1, <1>2, <1>3 DEF SessionInv

\* A sign-in's token begins a session of its own.
LEMMA SessionBegun ==
    ASSUME BaseInv, SessionInv, NEW r \in Replicas, SigninToken(r)
    PROVE  SessionInv'
<1>1. issued \in Nat
  BY NamesAssumption DEF BaseInv, DataType
<1>2. PICK secret : Issue(Subject(r), issued + 1, secret)
  BY DEF SigninToken
<1>3. signedOut' = signedOut
  BY DEF SigninToken, record
<1>4. /\ issued' = issued + 1
      /\ live' = live \cup {issued + 1}
      /\ token'[issued + 1].root = issued + 1
      /\ \A t \in 1..issued : token'[t] = token[t]
      /\ RootsIssued' /\ (signedOut \subseteq 1..issued)'
  BY <1>1, <1>2, <1>3, TokenAdded
<1>5. live \subseteq 1..issued /\ \A t \in 1..issued : token[t].root # issued + 1
  BY <1>1 DEF BaseInv, DataType, SessionInv, RootsIssued
<1>6. ASSUME NEW q \in Replicas, Rotating(q)'
      PROVE  Rotating(q) /\ RootOf(q)' = RootOf(q) /\ RootOf(q) # issued + 1
  <2>1. Rotating(q) /\ job'[q] = job[q]
    BY <1>6 DEF SigninToken, End, Finish, Release, Rotating, BaseInv, GroupType
  <2>2. job[q].token \in 1..issued
    BY <2>1, TokenIssued DEF Rotating, TokenSteps
  <2> QED BY <1>4, <1>5, <2>1, <2>2 DEF RootOf
<1>7. HandIsOnly'
  <2> SUFFICES ASSUME NEW q \in Replicas, Rotating(q)'
               PROVE  /\ \A t \in live' : token'[t].root # RootOf(q)'
                      /\ \A p \in Replicas : Rotating(p)' /\ RootOf(p)' = RootOf(q)' => p = q
    BY DEF HandIsOnly
  <2>1. \A t \in live : token[t].root # RootOf(q)
    BY <1>6 DEF SessionInv, HandIsOnly
  <2>2. \A t \in live' : token'[t].root # RootOf(q)'
    BY <1>4, <1>5, <1>6, <2>1
  <2>3. \A p \in Replicas : Rotating(p)' /\ RootOf(p)' = RootOf(q)' => p = q
    BY <1>6 DEF SessionInv, HandIsOnly
  <2> QED BY <2>2, <2>3
<1>8. HandIsOpen'
  BY <1>3, <1>6 DEF SessionInv, HandIsOpen
<1>9. SessionsNeverMultiply'
  BY <1>4, <1>5 DEF SessionInv, SessionsNeverMultiply
<1>10. SignOutIsFinal'
  <2>1. issued + 1 \notin signedOut
    BY <1>1 DEF SessionInv
  <2> QED BY <1>3, <1>4, <1>5, <2>1 DEF SessionInv, SignOutIsFinal
<1> QED BY <1>4, <1>7, <1>8, <1>9, <1>10 DEF SessionInv

\* A rotation lays down the one token of its session that it held.
LEMMA HandLaidDown ==
    ASSUME BaseInv, SessionInv, NEW r \in Replicas, RefreshCreate(r)
    PROVE  SessionInv'
<1>1. issued \in Nat
  BY NamesAssumption DEF BaseInv, DataType
<1>2. job[r].token \in 1..issued /\ Rotating(r)
  BY TokenIssued DEF RefreshCreate, TokenSteps, Rotating
<1>3. RootOf(r) \in 1..issued
  BY <1>2 DEF RootOf, SessionInv, RootsIssued
<1>4. PICK secret : Issue(Subject(r), RootOf(r), secret)
  BY DEF RefreshCreate, RootOf
<1>5. signedOut' = signedOut
  BY DEF RefreshCreate, record
<1>6. /\ issued' = issued + 1
      /\ live' = live \cup {issued + 1}
      /\ token'[issued + 1].root = RootOf(r)
      /\ \A t \in 1..issued : token'[t] = token[t]
      /\ RootsIssued' /\ (signedOut \subseteq 1..issued)'
  <2>1. RootOf(r) \in 1..(issued + 1)
    BY <1>1, <1>3
  <2> QED BY <1>4, <1>5, <2>1, TokenAdded
<1>7. live \subseteq 1..issued /\ issued + 1 \notin live
  BY <1>1 DEF BaseInv, DataType
<1>8. /\ \A t \in live : token[t].root # RootOf(r)
      /\ \A q \in Replicas : Rotating(q) /\ RootOf(q) = RootOf(r) => q = r
      /\ RootOf(r) \notin signedOut
  BY <1>2 DEF SessionInv, HandIsOnly, HandIsOpen
<1>9. ASSUME NEW q \in Replicas, Rotating(q)'
      PROVE  Rotating(q) /\ RootOf(q)' = RootOf(q) /\ RootOf(q) # RootOf(r)
  <2>1. q # r /\ Rotating(q) /\ job'[q] = job[q]
    BY <1>9 DEF RefreshCreate, End, Finish, Release, Rotating, BaseInv, GroupType
  <2>2. job[q].token \in 1..issued
    BY <2>1, TokenIssued DEF Rotating, TokenSteps
  <2>3. RootOf(q)' = RootOf(q)
    BY <1>6, <2>1, <2>2 DEF RootOf
  <2> QED BY <1>8, <2>1, <2>3
<1>10. HandIsOnly'
  <2> SUFFICES ASSUME NEW q \in Replicas, Rotating(q)'
               PROVE  /\ \A t \in live' : token'[t].root # RootOf(q)'
                      /\ \A p \in Replicas : Rotating(p)' /\ RootOf(p)' = RootOf(q)' => p = q
    BY DEF HandIsOnly
  <2>1. \A t \in live : token[t].root # RootOf(q)
    BY <1>9 DEF SessionInv, HandIsOnly
  <2>2. \A t \in live' : token'[t].root # RootOf(q)'
    BY <1>6, <1>7, <1>9, <2>1
  <2>3. \A p \in Replicas : Rotating(p)' /\ RootOf(p)' = RootOf(q)' => p = q
    BY <1>9 DEF SessionInv, HandIsOnly
  <2> QED BY <2>2, <2>3
<1>11. HandIsOpen'
  BY <1>5, <1>9 DEF SessionInv, HandIsOpen
<1>12. SessionsNeverMultiply'
  BY <1>6, <1>7, <1>8 DEF SessionInv, SessionsNeverMultiply
<1>13. SignOutIsFinal'
  BY <1>5, <1>6, <1>7, <1>8 DEF SessionInv, SignOutIsFinal
<1> QED BY <1>6, <1>10, <1>11, <1>12, <1>13 DEF SessionInv

\* Every other step deletes tokens at most, and no handler takes one in hand.
LEMMA QuietStep ==
    ASSUME BaseInv, NEW r \in Replicas, Step(r),
           ~SigninToken(r), ~RefreshDelete(r), ~RefreshCreate(r), ~SignoutDelete(r)
    PROVE  /\ live' \subseteq live /\ UNCHANGED <<token, issued, signedOut>>
           /\ \A q \in Replicas : Rotating(q)' => Rotating(q) /\ job'[q] = job[q]
<1> DEFINE Quiet == /\ live' \subseteq live /\ UNCHANGED <<token, issued, signedOut>>
                    /\ \A q \in Replicas : Rotating(q)' => Rotating(q) /\ job'[q] = job[q]
<1> SUFFICES Quiet
  OBVIOUS
<1>1. Finish(r) \/ Die(r) \/ Throw(r) => \A q \in Replicas : Rotating(q)' => Rotating(q) /\ job'[q] = job[q]
  BY DEF Finish, Die, Throw, Release, Rotating, BaseInv, GroupType
<1>2. \A l : l # "refresh_create" /\ Goto(r, l) => \A q \in Replicas : Rotating(q)' => Rotating(q) /\ job'[q] = job[q]
  BY DEF Goto, Rotating, BaseInv, GroupType
<1> USE <1>1, <1>2 DEF End, Move, Read, store, record, Revoke
<1>3. CASE SigninFind(r) \/ SigninLift(r) \/ SigninProceed(r)
  BY <1>3 DEF SigninFind, SigninLift, SigninProceed
<1>4. CASE RefreshFind(r) \/ SignoutFind(r) \/ ResetWrite(r) \/ ResetRevoke(r)
  BY <1>4 DEF RefreshFind, SignoutFind, ResetWrite, ResetRevoke
<1>5. CASE CheckFind(r) \/ CheckLift(r) \/ PenaltyFind(r) \/ PenaltyWrite(r) \/ PenaltyNotify(r)
  BY <1>5 DEF CheckFind, CheckLift, PenaltyFind, PenaltyWrite, PenaltyNotify
<1>6. CASE BlockFind(r) \/ BlockRevoke(r) \/ BlockWrite(r)
  BY <1>6 DEF BlockFind, BlockRevoke, BlockWrite
<1>7. CASE UnblockFind(r) \/ UnblockWrite(r) \/ ForgiveFind(r) \/ ForgiveWrite(r)
  BY <1>7 DEF UnblockFind, UnblockWrite, ForgiveFind, ForgiveWrite
<1>8. CASE Crash(r) \/ QueryFails(r)
  BY <1>8 DEF Crash, QueryFails, CutShort
<1>9. CASE ExpireSession(r)
  BY <1>9 DEF ExpireSession, OutliveSession, Rotating
<1> QED
  BY <1>3, <1>4, <1>5, <1>6, <1>7, <1>8, <1>9 DEF Step, SessionStep, StandingStep, FaultStep

\* The session invariant holds throughout.
LEMMA SessionsAlways == Spec => []SessionInv
<1>1. Init => SessionInv
  BY DEF Init, GroupInit, SessionInv, RootsIssued, SessionsNeverMultiply, HandIsOnly,
     SignOutIsFinal, HandIsOpen, Rotating
<1>2. BaseInv /\ SessionInv /\ [Next]_vars => SessionInv'
  <2> SUFFICES ASSUME BaseInv, SessionInv, [Next]_vars PROVE SessionInv'
    OBVIOUS
  <2>1. ASSUME NEW r \in Replicas, Step(r) PROVE SessionInv'
    BY <2>1, SessionBegun, TokenInHand, HandLaidDown, TokenSignedOut, QuietStep, FewerTokens
  <2>2. ASSUME NEW r \in Replicas, NEW m \in Requests, Begin(r, m) PROVE SessionInv'
    <3>1. m.pattern # "refresh_create"
      BY RequestFields DEF SignIns, OfTokens, Standing
    <3>2. \A q \in Replicas : Rotating(q)' => Rotating(q) /\ job'[q] = job[q]
      BY <2>2, <3>1 DEF Begin, Take, Rotating, BaseInv, GroupType
    <3> QED BY <2>2, <3>2, FewerTokens DEF Begin, store, record
  <2>3. CASE Tick
    BY <2>3, FewerTokens DEF Tick, store, record, group, Rotating
  <2>4. CASE UNCHANGED vars
    BY <2>4, FewerTokens DEF vars, store, record, group, Rotating
  <2> QED BY <2>1, <2>2, <2>3, <2>4 DEF Next, Step
<1> QED BY <1>1, <1>2, BaseAlways, PTL DEF Spec

\* However many replicas rotate however many copies of a refresh token, a
\* session never has two.
THEOREM OneTokenASession == Spec => []SessionsNeverMultiply
<1>1. SessionInv => SessionsNeverMultiply
  BY DEF SessionInv
<1> QED BY <1>1, SessionsAlways, PTL

\* No rotation in flight outlives the sign-out of its session.
THEOREM SignedOutForGood == Spec => []SignOutIsFinal
<1>1. SessionInv => SignOutIsFinal
  BY DEF SessionInv
<1> QED BY <1>1, SessionsAlways, PTL

-----------------------------------------------------------------------------
(* Penalties *)

\* The replicas about to warn a user.
Warning(u) == {r \in Replicas : pc[r] = "penalty_notify" /\ job[r].userId = u}

\* Warnings given and due, counts stored and counts read are all covered by
\* the penalties stored.
ChargeInv ==
    /\ \A u \in Users : told[u] + Cardinality(Warning(u)) <= charged[u]
    /\ \A u \in Users : user[u].violationCount <= charged[u]
    /\ \A r \in Replicas : pc[r] = "penalty_write" =>
           seen[r].row.violationCount <= charged[job[r].userId]

LEMMA WarningFinite ==
    ASSUME NEW u
    PROVE  IsFiniteSet(Warning(u)) /\ Cardinality(Warning(u)) \in Nat
BY ReplicasAssumption, FS_Subset, FS_CardinalityType DEF Warning

LEMMA WarningFinitePrime ==
    ASSUME NEW u
    PROVE  IsFiniteSet(Warning(u)') /\ Cardinality(Warning(u)') \in Nat
BY ReplicasAssumption, FS_Subset, FS_CardinalityType DEF Warning

\* A penalty's handler is about the user its message names.
LEMMA PenaltySubject ==
    ASSUME BaseInv, NEW r \in Replicas, pc[r] \in StandingSteps
    PROVE  Subject(r) = job[r].userId /\ job[r].userId \in Users
<1>1. Subject(r) = job[r].userId
  BY DEF BaseInv, JobOK, Subject, Of, Standing
<1> QED BY <1>1, SubjectIsUser DEF StandingSteps

\* The move of one replica leaves the others' awaits and messages alone, and
\* its own message while it works.
LEMMA OthersUntouched ==
    ASSUME BaseInv, NEW r \in Replicas, Step(r)
    PROVE  \A s \in Replicas :
               /\ s # r => pc'[s] = pc[s] /\ job'[s] = job[s]
               /\ pc'[s] # "idle" => job'[s] = job[s]
<1>1. Moves(r)
  BY StepMoves
<1> QED
  BY <1>1 DEF Moves, Finish, Die, Throw, OutliveSession, Goto, Release, BaseInv, GroupType

\* Every other step charges and warns nobody, and brings no handler to
\* charge but with the count it reads.
LEMMA FreeSteps ==
    ASSUME BaseInv, NEW r \in Replicas, Step(r), ~PenaltyWrite(r), ~PenaltyNotify(r)
    PROVE  /\ UNCHANGED <<told, charged>>
           /\ pc[r] # "penalty_notify" => pc'[r] # "penalty_notify"
           /\ pc'[r] = "penalty_write" => PenaltyFind(r) \/ OutliveSession(r)
           /\ OutliveSession(r) => pc' = pc /\ seen' = seen
<1> USE DEF BaseInv, GroupType, Goto, Finish, Release, End, Move, Read, record
<1>1. CASE SigninFind(r) \/ SigninLift(r) \/ SigninProceed(r) \/ SigninToken(r)
  BY <1>1 DEF SigninFind, SigninLift, SigninProceed, SigninToken, OutliveSession, SignIns
<1>2. CASE \/ RefreshFind(r) \/ RefreshDelete(r) \/ RefreshCreate(r)
           \/ SignoutFind(r) \/ SignoutDelete(r) \/ ResetWrite(r) \/ ResetRevoke(r)
  BY <1>2 DEF RefreshFind, RefreshDelete, RefreshCreate, SignoutFind, SignoutDelete,
     ResetWrite, ResetRevoke, OutliveSession
<1>3. CASE CheckFind(r) \/ CheckLift(r) \/ PenaltyFind(r)
  BY <1>3 DEF CheckFind, CheckLift, PenaltyFind, OutliveSession
<1>4. CASE BlockFind(r) \/ BlockRevoke(r) \/ BlockWrite(r)
  BY <1>4 DEF BlockFind, BlockRevoke, BlockWrite, OutliveSession
<1>5. CASE UnblockFind(r) \/ UnblockWrite(r) \/ ForgiveFind(r) \/ ForgiveWrite(r)
  BY <1>5 DEF UnblockFind, UnblockWrite, ForgiveFind, ForgiveWrite, OutliveSession
<1>6. CASE FaultStep(r)
  BY <1>6 DEF FaultStep, Crash, QueryFails, ExpireSession, CutShort, Die, Throw,
     OutliveSession
<1> QED BY <1>1, <1>2, <1>3, <1>4, <1>5, <1>6 DEF Step, SessionStep, StandingStep

\* One step keeps the account of the warnings.
LEMMA WarningsStep ==
    ASSUME BaseInv, ChargeInv, NEW r \in Replicas, Step(r), NEW u \in Users
    PROVE  told'[u] + Cardinality(Warning(u)') <= charged'[u]
<1>1. /\ IsFiniteSet(Warning(u)) /\ Cardinality(Warning(u)) \in Nat
      /\ IsFiniteSet(Warning(u)') /\ Cardinality(Warning(u)') \in Nat
  BY WarningFinite, WarningFinitePrime
<1>2. /\ told \in [Users -> Nat] /\ charged \in [Users -> Nat]
      /\ told[u] + Cardinality(Warning(u)) <= charged[u]
  BY DEF BaseInv, DataType, ChargeInv
<1>3. CASE PenaltyWrite(r)
  <2>1. /\ pc[r] = "penalty_write" /\ told' = told /\ job' = job
        /\ charged' = [charged EXCEPT ![job[r].userId] = @ + 1]
    BY <1>3, PenaltySubject DEF PenaltyWrite, StandingSteps, Move, Goto
  <2>2. Warning(u)' \subseteq Warning(u) \cup {r} /\ r \notin Warning(u)
    BY <2>1, OthersUntouched DEF Warning
  <2>3. CASE job[r].userId = u
    <3>1. charged'[u] = charged[u] + 1
      BY <1>2, <2>1, <2>3
    <3>2. /\ IsFiniteSet(Warning(u) \cup {r})
          /\ Cardinality(Warning(u) \cup {r}) = Cardinality(Warning(u)) + 1
      BY <1>1, <2>2, FS_AddElement
    <3>3. Cardinality(Warning(u)') <= Cardinality(Warning(u) \cup {r})
      BY <2>2, <3>2, FS_Subset
    <3> QED BY <1>1, <1>2, <2>1, <3>1, <3>2, <3>3
  <2>4. CASE job[r].userId # u
    <3>1. charged'[u] = charged[u]
      BY <1>2, <2>1, <2>4
    <3>2. Warning(u)' \subseteq Warning(u)
      BY <2>1, <2>2, <2>4 DEF Warning
    <3>3. Cardinality(Warning(u)') <= Cardinality(Warning(u))
      BY <1>1, <3>2, FS_Subset
    <3> QED BY <1>1, <1>2, <2>1, <3>1, <3>3
  <2> QED BY <2>3, <2>4
<1>4. CASE PenaltyNotify(r)
  <2>1. /\ pc[r] = "penalty_notify" /\ pc'[r] = "idle" /\ charged' = charged
        /\ told' = [told EXCEPT ![job[r].userId] = @ + 1]
    BY <1>4, PenaltySubject DEF PenaltyNotify, StandingSteps, End, Finish, Release, record,
       BaseInv, GroupType
  <2>2. Warning(u)' \subseteq Warning(u) \ {r}
    BY <2>1, OthersUntouched DEF Warning
  <2>3. CASE job[r].userId = u
    <3>1. told'[u] = told[u] + 1 /\ r \in Warning(u)
      BY <1>2, <2>1, <2>3 DEF Warning
    <3>2. /\ IsFiniteSet(Warning(u) \ {r})
          /\ Cardinality(Warning(u) \ {r}) = Cardinality(Warning(u)) - 1
      BY <1>1, <3>1, FS_RemoveElement
    <3>3. Cardinality(Warning(u)') <= Cardinality(Warning(u) \ {r})
      BY <2>2, <3>2, FS_Subset
    <3> QED BY <1>1, <1>2, <2>1, <3>1, <3>2, <3>3
  <2>4. CASE job[r].userId # u
    <3>1. told'[u] = told[u] /\ Warning(u)' \subseteq Warning(u)
      BY <1>2, <2>1, <2>2, <2>4
    <3>2. Cardinality(Warning(u)') <= Cardinality(Warning(u))
      BY <1>1, <3>1, FS_Subset
    <3> QED BY <1>1, <1>2, <2>1, <3>1, <3>2
  <2> QED BY <2>3, <2>4
<1>5. CASE ~PenaltyWrite(r) /\ ~PenaltyNotify(r)
  <2>1. Warning(u)' \subseteq Warning(u) /\ told' = told /\ charged' = charged
    BY <1>5, FreeSteps, OthersUntouched DEF Warning
  <2>2. Cardinality(Warning(u)') <= Cardinality(Warning(u))
    BY <1>1, <2>1, FS_Subset
  <2> QED BY <1>1, <1>2, <2>1, <2>2
<1> QED BY <1>3, <1>4, <1>5

\* What a step may make of a user's count of violations.
LEMMA StepCounts ==
    ASSUME BaseInv, NEW r \in Replicas, Step(r), NEW u \in Users
    PROVE  \/ user'[u].violationCount = user[u].violationCount
           \/ user'[u].violationCount = 0
           \/ /\ PenaltyWrite(r) /\ u = job[r].userId
              /\ user'[u].violationCount = seen[r].row.violationCount + 1
<1> USE DEF BaseInv, DataType
<1>0. user \in [Users -> Row] /\ user[u] \in Row
  OBVIOUS
<1>1. CASE SigninLift(r) \/ CheckLift(r)
  <2>1. user' = [user EXCEPT ![Subject(r)] =
                     [@ EXCEPT !.status = "active", !.blockUntil = 0]]
    BY <1>1 DEF SigninLift, CheckLift, Lift
  <2>2. [user[u] EXCEPT !.status = "active", !.blockUntil = 0].violationCount
            = user[u].violationCount
    BY <1>0 DEF Row
  <2>3. CASE u = Subject(r)
    BY <1>0, <2>1, <2>2, <2>3
  <2>4. CASE u # Subject(r)
    BY <1>0, <2>1, <2>4
  <2> QED BY <2>3, <2>4
<1>2. CASE ResetWrite(r)
  BY <1>0, <1>2 DEF ResetWrite, Row
<1>3. CASE PenaltyWrite(r)
  <2> DEFINE n == seen[r].row.violationCount + 1
             d == seen[r].day
  <2>1. Subject(r) = job[r].userId
    BY <1>3, PenaltySubject DEF PenaltyWrite, StandingSteps
  <2>2. user' = [user EXCEPT ![job[r].userId] = Penalised(@, n, d)]
    BY <1>3, <2>1 DEF PenaltyWrite
  <2> HIDE DEF n, d
  <2>3. Penalised(user[u], n, d).violationCount = n
    BY <1>0 DEF Penalised, Row
  <2>4. CASE u = job[r].userId
    <3>1. user'[u].violationCount = n
      BY <1>0, <2>2, <2>3, <2>4
    <3> QED BY <1>3, <2>4, <3>1 DEF n
  <2>5. CASE u # job[r].userId
    BY <1>0, <2>2, <2>5
  <2> QED BY <2>4, <2>5
<1>4. CASE BlockWrite(r)
  BY <1>0, <1>4 DEF BlockWrite, Row
<1>5. CASE UnblockWrite(r)
  BY <1>0, <1>5 DEF UnblockWrite, Row
<1>6. CASE ForgiveWrite(r)
  BY <1>0, <1>6 DEF ForgiveWrite, Row
<1>7. CASE \/ SigninFind(r) \/ SigninProceed(r) \/ SigninToken(r) \/ RefreshFind(r)
           \/ RefreshDelete(r) \/ RefreshCreate(r) \/ SignoutFind(r) \/ SignoutDelete(r)
           \/ ResetRevoke(r)
  BY <1>7 DEF SigninFind, SigninProceed, SigninToken, RefreshFind,
     RefreshDelete, RefreshCreate, SignoutFind, SignoutDelete, ResetRevoke
<1>8. CASE \/ CheckFind(r) \/ PenaltyFind(r) \/ PenaltyNotify(r) \/ BlockFind(r)
           \/ BlockRevoke(r) \/ UnblockFind(r) \/ ForgiveFind(r)
  BY <1>8 DEF CheckFind, PenaltyFind, PenaltyNotify, BlockFind, BlockRevoke, UnblockFind,
     ForgiveFind
<1>9. CASE FaultStep(r)
  BY <1>9 DEF FaultStep, Crash, QueryFails, ExpireSession, CutShort
<1> QED
  BY <1>1, <1>2, <1>3, <1>4, <1>5, <1>6, <1>7, <1>8, <1>9 DEF Step, SessionStep, StandingStep

\* A step charges a user once more, or leaves all charges as they were.
LEMMA StepCharges ==
    ASSUME BaseInv, NEW r \in Replicas, Step(r)
    PROVE  /\ \A u \in Users : charged[u] <= charged'[u]
           /\ PenaltyWrite(r) => charged'[job[r].userId] = charged[job[r].userId] + 1
<1>1. charged \in [Users -> Nat]
  BY DEF BaseInv, DataType
<1>2. CASE PenaltyWrite(r)
  <2>1. job[r].userId \in Users /\ charged' = [charged EXCEPT ![job[r].userId] = @ + 1]
    BY <1>2, PenaltySubject DEF PenaltyWrite, StandingSteps
  <2> QED BY <1>1, <2>1
<1>3. CASE ~PenaltyWrite(r)
  <2>1. charged' = charged
    BY <1>3, FreeSteps DEF PenaltyNotify, record
  <2> QED BY <1>1, <1>3, <2>1
<1> QED BY <1>2, <1>3

\* One step keeps the counts, stored and read, below the charges.
LEMMA CountsStep ==
    ASSUME BaseInv, ChargeInv, NEW r \in Replicas, Step(r)
    PROVE  /\ \A u \in Users : user'[u].violationCount <= charged'[u]
           /\ \A q \in Replicas : pc'[q] = "penalty_write" =>
                  seen'[q].row.violationCount <= charged'[job'[q].userId]
<1>0. \A u \in Users : charged[u] \in Nat /\ charged'[u] \in Nat /\ charged[u] <= charged'[u]
  BY StepCharges, StepRecords DEF BaseInv, DataType
<1>1. \A q \in Replicas : seen[q].row \in Row
  BY DEF BaseInv, DataType
<1>2. \A q \in Replicas : seen[q].row.violationCount \in Nat
  BY <1>1 DEF Row
<1>3. \A u \in Users : user[u].violationCount \in Nat
  BY DEF BaseInv, DataType, Row
<1>4. ASSUME NEW u \in Users PROVE user'[u].violationCount <= charged'[u]
  <2>1. user[u].violationCount <= charged[u]
    BY DEF ChargeInv
  <2>2. CASE PenaltyWrite(r) /\ u = job[r].userId
             /\ user'[u].violationCount = seen[r].row.violationCount + 1
    <3>1. seen[r].row.violationCount <= charged[u]
      BY <2>2 DEF PenaltyWrite, ChargeInv
    <3>2. charged'[u] = charged[u] + 1
      BY <2>2, StepCharges
    <3> QED BY <1>0, <1>2, <2>2, <3>1, <3>2
  <2> QED BY <1>0, <1>3, <2>1, <2>2, StepCounts
<1>5. ASSUME NEW q \in Replicas, pc'[q] = "penalty_write"
      PROVE  seen'[q].row.violationCount <= charged'[job'[q].userId]
  <2>1. job'[q] = job[q]
    BY <1>5, OthersUntouched
  <2>2. CASE pc[q] = "penalty_write" /\ seen'[q] = seen[q]
    <3>1. job[q].userId \in Users
      BY <2>2, PenaltySubject DEF StandingSteps
    <3>2. seen[q].row.violationCount <= charged[job[q].userId]
      BY <2>2 DEF ChargeInv
    <3> QED BY <1>0, <1>2, <2>1, <2>2, <3>1, <3>2
  <2>3. CASE q # r
    <3>1. pc[q] = "penalty_write"
      BY <1>5, <2>3, OthersUntouched
    <3>2. seen'[q] = seen[q]
      BY <2>3, StepCopies DEF BaseInv, DataType
    <3> QED BY <2>2, <3>1, <3>2
  <2>4. CASE q = r /\ PenaltyFind(r)
    <3>1. Subject(r) = job[r].userId /\ job[r].userId \in Users
      BY <2>4, PenaltySubject DEF PenaltyFind, StandingSteps
    <3>2. seen'[r].row = user[job[r].userId]
      BY <2>4, <3>1 DEF PenaltyFind, Read, BaseInv, DataType
    <3>3. user[job[r].userId].violationCount <= charged[job[r].userId]
      BY <3>1 DEF ChargeInv
    <3> QED BY <1>0, <1>3, <2>1, <2>4, <3>1, <3>2, <3>3
  <2>5. CASE q = r /\ ~PenaltyFind(r)
    <3>1. ~PenaltyWrite(r) /\ ~PenaltyNotify(r)
      BY <1>5, <2>5 DEF PenaltyWrite, PenaltyNotify, End, Move, Goto, Finish, Release, BaseInv,
         GroupType
    <3>2. pc' = pc /\ seen' = seen
      BY <1>5, <2>5, <3>1, FreeSteps
    <3> QED BY <1>5, <2>2, <3>2
  <2> QED BY <2>3, <2>4, <2>5
<1> QED BY <1>4, <1>5

\* The account of penalties holds throughout.
LEMMA ChargesAlways == Spec => []ChargeInv
<1>1. Init => ChargeInv
  <2> SUFFICES ASSUME Init PROVE ChargeInv
    OBVIOUS
  <2>1. \A u \in Users : Warning(u) = {}
    BY DEF Init, GroupInit, Warning
  <2>2. charged \in [Users -> 0..5] /\ user = [u \in Users |-> NewRow(charged[u])]
    BY NamesAssumption DEF Init
  <2>3. \A u \in Users : told[u] + Cardinality(Warning(u)) <= charged[u]
    BY <2>1, <2>2, FS_EmptySet DEF Init
  <2>4. \A u \in Users : user[u].violationCount <= charged[u]
    BY <2>2 DEF NewRow
  <2>5. \A r \in Replicas : pc[r] # "penalty_write"
    BY DEF Init, GroupInit
  <2> QED BY <2>3, <2>4, <2>5 DEF ChargeInv
<1>2. BaseInv /\ ChargeInv /\ [Next]_vars => ChargeInv'
  <2> SUFFICES ASSUME BaseInv, ChargeInv, [Next]_vars PROVE ChargeInv'
    OBVIOUS
  <2>1. ASSUME NEW r \in Replicas, Step(r) PROVE ChargeInv'
    BY <2>1, WarningsStep, CountsStep DEF ChargeInv
  <2>2. ASSUME NEW r \in Replicas, NEW m \in Requests, Begin(r, m) PROVE ChargeInv'
    <3>1. m.pattern \notin {"penalty_notify", "penalty_write"}
      BY RequestFields DEF SignIns, OfTokens, Standing
    <3>2. \A q \in Replicas : pc'[q] \in {"penalty_notify", "penalty_write"} =>
             pc'[q] = pc[q] /\ job'[q] = job[q]
      BY <2>2, <3>1 DEF Begin, Take, BaseInv, GroupType
    <3>3. ASSUME NEW u \in Users
          PROVE  told'[u] + Cardinality(Warning(u)') <= charged'[u]
      <4>1. Warning(u)' \subseteq Warning(u)
        BY <3>2 DEF Warning
      <4>2. Cardinality(Warning(u)') <= Cardinality(Warning(u))
        BY <4>1, WarningFinite, FS_Subset
      <4>3. told' = told /\ charged' = charged /\ told[u] \in Nat /\ charged[u] \in Nat
        BY <2>2 DEF Begin, record, BaseInv, DataType
      <4>4. told[u] + Cardinality(Warning(u)) <= charged[u]
        BY DEF ChargeInv
      <4> QED BY <4>2, <4>3, <4>4, WarningFinite, WarningFinitePrime
    <3>4. UNCHANGED <<user, seen, charged>>
      BY <2>2 DEF Begin, record
    <3> QED BY <3>2, <3>3, <3>4 DEF ChargeInv
  <2>3. CASE UNCHANGED <<group, user, seen, told, charged>>
    <3>1. \A u : Warning(u)' = Warning(u)
      BY <2>3 DEF group, Warning
    <3> QED BY <2>3, <3>1 DEF group, ChargeInv
  <2> QED BY <2>1, <2>2, <2>3 DEF Next, Step, Tick, vars, record
<1> QED BY <1>1, <1>2, BaseAlways, PTL DEF Spec

\* Racing or redelivered penalties never count, or warn of, more violations
\* than penalties were stored.
THEOREM ChargesAreBacked == Spec => []NeverOvercharged
<1>1. BaseInv /\ ChargeInv => NeverOvercharged
  <2> SUFFICES ASSUME BaseInv, ChargeInv, NEW u \in Users PROVE told[u] <= charged[u]
    BY DEF NeverOvercharged, ChargeInv
  <2>1. told[u] \in Nat /\ charged[u] \in Nat
    BY DEF BaseInv, DataType
  <2>2. told[u] + Cardinality(Warning(u)) <= charged[u]
    BY DEF ChargeInv
  <2> QED BY <2>1, <2>2, WarningFinite
<1> QED BY <1>1, BaseAlways, ChargesAlways, PTL

\* What a penalty makes of a row.
LEMMA PenalisedRow ==
    ASSUME NEW row \in Row, NEW n \in Nat, NEW d \in Nat
    PROVE  /\ Penalised(row, n, d).violationCount = n
           /\ Penalised(row, n, d).password = row.password
           /\ Penalised(row, n, d).status \in {row.status, "blocked"}
<1>1. CASE n <= 3
  BY <1>1 DEF Penalised, Row
<1>2. CASE n > 3
  <2>1. ~(n <= 3)
    BY <1>2
  <2>2. CASE n = 4
    BY <2>1, <2>2 DEF Penalised, Row
  <2>3. CASE n = 5
    BY <2>1, <2>3 DEF Penalised, Row
  <2>4. CASE n # 4 /\ n # 5
    BY <2>1, <2>4 DEF Penalised, Row
  <2> QED BY <2>2, <2>3, <2>4
<1> QED BY <1>1, <1>2

\* Before the fourth violation a penalty bars no posting, and before the sixth
\* it blocks no account.
LEMMA PenaltyDue ==
    ASSUME NEW row \in Row, NEW n \in Nat, NEW d \in Nat
    PROVE  /\ Penalised(row, n, d).postBlockUntil = row.postBlockUntil \/ n >= 4
           /\ Penalised(row, n, d).status = row.status \/ n >= 6
<1>1. CASE n <= 3
  BY <1>1 DEF Penalised, Row
<1>2. CASE n = 4
  <2>1. n >= 4 /\ ~(n <= 3)
    BY <1>2
  <2>2. Penalised(row, n, d).status = row.status
    BY <1>2, <2>1 DEF Penalised, Row
  <2> QED BY <2>1, <2>2
<1>3. CASE n = 5
  <2>1. n >= 4 /\ ~(n <= 3) /\ n # 4
    BY <1>3
  <2>2. Penalised(row, n, d).status = row.status
    BY <1>3, <2>1 DEF Penalised, Row
  <2> QED BY <2>1, <2>2
<1>4. CASE n >= 6
  BY <1>4
<1> QED BY <1>1, <1>2, <1>3, <1>4

\* One step punishes nobody before it is due: the count a penalty goes by is
\* covered by the penalties stored before it.
LEMMA PunishedStep ==
    ASSUME BaseInv, ChargeInv, PunishedAsEarned, NEW r \in Replicas, Step(r)
    PROVE  PunishedAsEarned'
<1> USE DEF BaseInv, DataType, record
<1> SUFFICES ASSUME NEW v \in Users
             PROVE  /\ user'[v].postBlockUntil > 0 => charged'[v] >= 4
                    /\ user'[v].status = "blocked" /\ v \notin byAdmin' => charged'[v] >= 6
  BY DEF PunishedAsEarned
<1>0. /\ user \in [Users -> Row] /\ user[v] \in Row /\ charged[v] \in Nat
      /\ user[v].postBlockUntil > 0 => charged[v] >= 4
      /\ user[v].status = "blocked" /\ v \notin byAdmin => charged[v] >= 6
  BY DEF PunishedAsEarned
<1>1. CASE PenaltyWrite(r)
  <2>1. /\ Subject(r) = job[r].userId /\ job[r].userId \in Users
        /\ seen[r].row.violationCount <= charged[job[r].userId]
        /\ charged' = [charged EXCEPT ![job[r].userId] = @ + 1]
        /\ byAdmin' = byAdmin
    BY <1>1, PenaltySubject DEF PenaltyWrite, StandingSteps, ChargeInv
  <2>2. seen[r].row.violationCount \in Nat /\ seen[r].day \in Nat
    <3>1. seen[r].row \in Row /\ seen[r].day \in Nat
      BY NamesAssumption
    <3> QED BY <3>1 DEF Row
  <2>3. PICK n \in Nat, d \in Nat :
            /\ n = seen[r].row.violationCount + 1
            /\ user' = [user EXCEPT ![job[r].userId] = Penalised(@, n, d)]
    <3>1. user' = [user EXCEPT ![job[r].userId] =
                       Penalised(@, seen[r].row.violationCount + 1, seen[r].day)]
      BY <1>1, <2>1 DEF PenaltyWrite
    <3>2. seen[r].row.violationCount + 1 \in Nat
      BY <2>2
    <3> QED BY <2>2, <3>1, <3>2
  <2>4. CASE v = job[r].userId
    <3>1. user'[v] = Penalised(user[v], n, d) /\ charged'[v] = charged[v] + 1
      BY <1>0, <2>1, <2>3, <2>4
    <3>2. n <= charged'[v] /\ charged'[v] \in Nat
      BY <1>0, <2>1, <2>2, <2>3, <2>4, <3>1
    <3>0. PICK row \in Row : row = user[v]
      BY <1>0
    <3>a. /\ Penalised(row, n, d).postBlockUntil = row.postBlockUntil \/ n >= 4
          /\ Penalised(row, n, d).status = row.status \/ n >= 6
      BY <2>3, PenaltyDue
    <3>b. (n >= 4 => charged'[v] >= 4) /\ (n >= 6 => charged'[v] >= 6)
      BY <2>3, <3>2
    <3>3. user'[v].postBlockUntil = user[v].postBlockUntil \/ charged'[v] >= 4
      BY <3>0, <3>1, <3>a, <3>b
    <3>4. user'[v].status = user[v].status \/ charged'[v] >= 6
      BY <3>0, <3>1, <3>a, <3>b
    <3>5. user'[v].postBlockUntil > 0 => charged'[v] >= 4
      BY <1>0, <3>1, <3>3
    <3>6. user'[v].status = "blocked" /\ v \notin byAdmin' => charged'[v] >= 6
      BY <1>0, <2>1, <3>1, <3>4
    <3> QED BY <3>5, <3>6
  <2>5. CASE v # job[r].userId
    BY <1>0, <2>1, <2>3, <2>5
  <2> QED BY <2>4, <2>5
<1>2. ASSUME ~PenaltyWrite(r)
      PROVE  charged' = charged
  BY <1>2, FreeSteps DEF PenaltyNotify
<1>3. CASE SigninLift(r) \/ CheckLift(r) \/ UnblockWrite(r)
  <2>1. byAdmin' = byAdmin \ {Subject(r)} /\ charged' = charged
    BY <1>3 DEF SigninLift, CheckLift, UnblockWrite
  <2>2. CASE v = Subject(r)
    <3>1. /\ user'[v].status = "active"
          /\ user'[v].postBlockUntil \in {0, user[v].postBlockUntil}
      <4>1. CASE SigninLift(r) \/ CheckLift(r)
        <5>1. Lift(Subject(r))
          BY <4>1 DEF SigninLift, CheckLift
        <5>2. user'[v] = [user[v] EXCEPT !.status = "active", !.blockUntil = 0]
          BY <1>0, <2>2, <5>1 DEF Lift
        <5> QED BY <1>0, <5>2 DEF Row
      <4>2. CASE UnblockWrite(r)
        <5>1. user'[v] = [user[v] EXCEPT !.status = "active", !.blockUntil = 0,
                                         !.postBlockUntil = 0]
          BY <1>0, <2>2, <4>2 DEF UnblockWrite
        <5> QED BY <1>0, <5>1 DEF Row
      <4> QED BY <1>3, <4>1, <4>2
    <3> QED BY <1>0, <2>1, <3>1
  <2>3. CASE v # Subject(r)
    <3>1. user'[v] = user[v]
      BY <1>0, <1>3, <2>3 DEF SigninLift, CheckLift, UnblockWrite, Lift
    <3> QED BY <1>0, <2>1, <2>3, <3>1
  <2> QED BY <2>2, <2>3
<1>4. CASE BlockWrite(r)
  <2>1. byAdmin' = byAdmin \cup {Subject(r)} /\ charged' = charged
    BY <1>4 DEF BlockWrite
  <2>2. /\ user'[v].postBlockUntil = user[v].postBlockUntil
        /\ v # Subject(r) => user'[v].status = user[v].status
    BY <1>0, <1>4 DEF BlockWrite, Row
  <2> QED BY <1>0, <2>1, <2>2
<1>5. CASE ResetWrite(r) \/ ForgiveWrite(r)
  <2>1. byAdmin' = byAdmin /\ charged' = charged
    BY <1>5 DEF ResetWrite, ForgiveWrite
  <2>2. /\ user'[v].status = user[v].status
        /\ user'[v].postBlockUntil \in {0, user[v].postBlockUntil}
    <3>1. CASE ResetWrite(r)
      BY <1>0, <3>1 DEF ResetWrite, Row
    <3>2. CASE ForgiveWrite(r)
      BY <1>0, <3>2 DEF ForgiveWrite, Row
    <3> QED BY <1>5, <3>1, <3>2
  <2> QED BY <1>0, <2>1, <2>2
<1>6. ASSUME UNCHANGED <<user, byAdmin, charged>>
      PROVE  /\ user'[v].postBlockUntil > 0 => charged'[v] >= 4
             /\ user'[v].status = "blocked" /\ v \notin byAdmin' => charged'[v] >= 6
  BY <1>0, <1>6
<1>7. CASE \/ SigninFind(r) \/ SigninProceed(r) \/ SigninToken(r) \/ RefreshFind(r)
           \/ RefreshDelete(r) \/ RefreshCreate(r) \/ SignoutFind(r) \/ SignoutDelete(r)
           \/ ResetRevoke(r)
  BY <1>6, <1>7 DEF SigninFind, SigninProceed, SigninToken, RefreshFind, RefreshDelete,
     RefreshCreate, SignoutFind, SignoutDelete, ResetRevoke
<1>8. CASE \/ CheckFind(r) \/ PenaltyFind(r) \/ PenaltyNotify(r) \/ BlockFind(r)
           \/ BlockRevoke(r) \/ UnblockFind(r) \/ ForgiveFind(r)
  BY <1>6, <1>8 DEF CheckFind, PenaltyFind, PenaltyNotify, BlockFind, BlockRevoke,
     UnblockFind, ForgiveFind
<1>9. CASE FaultStep(r)
  BY <1>6, <1>9 DEF FaultStep, Crash, QueryFails, ExpireSession, CutShort
<1> QED
  BY <1>1, <1>3, <1>4, <1>5, <1>7, <1>8, <1>9 DEF Step, SessionStep, StandingStep

\* However many replicas penalise, pardon, block and sign in at once, nobody's
\* posting is barred before the fourth violation stored, and nobody's account
\* blocked but by an administrator before the sixth.
THEOREM PunishedWhenDue == Spec => []PunishedAsEarned
<1>1. Init => PunishedAsEarned
  <2> SUFFICES ASSUME Init PROVE PunishedAsEarned
    OBVIOUS
  <2>1. user = [u \in Users |-> NewRow(charged[u])]
    BY DEF Init
  <2> QED BY <2>1 DEF PunishedAsEarned, NewRow
<1>2. BaseInv /\ ChargeInv /\ PunishedAsEarned /\ [Next]_vars => PunishedAsEarned'
  <2> SUFFICES ASSUME BaseInv, ChargeInv, PunishedAsEarned, [Next]_vars
               PROVE  PunishedAsEarned'
    OBVIOUS
  <2>1. ASSUME NEW r \in Replicas, Step(r) PROVE PunishedAsEarned'
    BY <2>1, PunishedStep
  <2>2. CASE UNCHANGED <<user, byAdmin, charged>>
    BY <2>2 DEF PunishedAsEarned
  <2> QED BY <2>1, <2>2 DEF Next, Step, Begin, Tick, vars, record
<1> QED BY <1>1, <1>2, BaseAlways, ChargesAlways, PTL DEF Spec

-----------------------------------------------------------------------------
(* One replica: what a handler read is still so when it writes              *)

\* Between the reads of a handler about u and the write they lead to.
SerialAt(r, u) ==
    /\ pc[r] \in {"signin_lift", "check_lift"} => ~Blocked(user[u])
    /\ pc[r] \in {"signin_proceed", "signin_token"} => user[u].status # "blocked"
    /\ pc[r] \in {"signin_lift", "signin_proceed"} => seen[r].row.password = user[u].password
    /\ pc[r] = "signin_token" /\ job[r].pattern = "auth.signin" =>
           job[r].password = user[u].password
    /\ pc[r] = "block_write" => TokensOf(u) = {}
    /\ pc[r] = "refresh_create" =>
           /\ u \notin byAdmin
           /\ \/ token[job[r].token].secret \in {NoPassword, user[u].password}
              \/ u \in halfReset

SerialInv ==
    \A r \in Replicas, u \in Users :
        pc[r] # "idle" /\ Subject(r) = u => SerialAt(r, u)

\* Who an administrator blocked last is blocked, and has no session.
AdminInv == \A u \in byAdmin : user[u].status = "blocked" /\ TokensOf(u) = {}

\* The awaits of which SerialAt says something.
Decided ==
    {"signin_lift", "check_lift", "signin_proceed", "signin_token", "block_write",
     "refresh_create"}

\* A step is a handler's at work.
LEMMA StepBusy ==
    ASSUME NEW r \in Replicas, Step(r)
    PROVE  pc[r] # "idle"
BY DEF Step, SessionStep, StandingStep, FaultStep, SignIns, SigninFind, SigninLift,
   SigninProceed, SigninToken, RefreshFind, RefreshDelete, RefreshCreate, SignoutFind,
   SignoutDelete, ResetWrite, ResetRevoke, CheckFind, CheckLift, PenaltyFind,
   PenaltyWrite, PenaltyNotify, BlockFind, BlockRevoke, BlockWrite, UnblockFind,
   UnblockWrite, ForgiveFind, ForgiveWrite, Crash, Die, QueryFails, ExpireSession,
   OutliveSession

\* What a token issued is for never changes.
LEMMA TokensStand ==
    ASSUME BaseInv, TokensStep
    PROVE  \A t \in 1..issued : token'[t] = token[t]
<1> SUFFICES ASSUME NEW t \in 1..issued PROVE token'[t] = token[t]
  OBVIOUS
<1>1. issued \in Nat /\ t \in Token /\ t # issued + 1
  BY NamesAssumption DEF BaseInv, DataType, Token
<1>2. token \in [Token -> Session \cup {NoSession}]
  BY DEF BaseInv, DataType
<1> QED BY <1>1, <1>2 DEF TokensStep, Issue

\* So a handler at work stays about the same user.
LEMMA SubjectStays ==
    ASSUME BaseInv, NEW r \in Replicas, Step(r), pc'[r] # "idle"
    PROVE  job'[r] = job[r] /\ Subject(r)' = Subject(r)
<1>1. job'[r] = job[r]
  BY OthersUntouched
<1>2. CASE job[r].pattern \in OfTokens
  <2>1. job[r] \in Requests /\ pc[r] \in Labels
    BY StepBusy DEF BaseInv, Working, GroupType
  <2>2. job[r].token \in 1..issued
    BY <1>2, <2>1, StepBusy DEF BaseInv, JobOK, Labels, SigninSteps, TokenSteps, ResetSteps,
       BlockSteps, LateBlock, StandingSteps, OfTokens, Standing, SignIns
  <2>3. token'[job[r].token] = token[job[r].token]
    BY <2>2, StepTokens, TokensStand
  <2> QED BY <1>1, <1>2, <2>3 DEF Subject, Of, OfTokens
<1>3. CASE job[r].pattern \notin OfTokens
  BY <1>1, <1>3 DEF Subject, Of, OfTokens
<1> QED BY <1>1, <1>2, <1>3

\* What a handler may make of the row of the user it is about.
LEMMA RowWritten ==
    ASSUME BaseInv, NEW r \in Replicas, Step(r), NEW u \in Users
    PROVE  /\ u # Subject(r) => user'[u] = user[u]
           /\ pc[r] # "auth.reset_passwd" => user'[u].password = user[u].password
           /\ pc[r] \notin {"signin_lift", "check_lift", "unblock_write"} =>
                  user'[u].status \in {user[u].status, "blocked"}
<1> USE DEF BaseInv, DataType
<1>0. user \in [Users -> Row] /\ user[u] \in Row
  OBVIOUS
<1>1. u # Subject(r) => user'[u] = user[u]
  BY StepRows
<1> SUFFICES ASSUME u = Subject(r)
             PROVE  /\ pc[r] # "auth.reset_passwd" => user'[u].password = user[u].password
                    /\ pc[r] \notin {"signin_lift", "check_lift", "unblock_write"} =>
                           user'[u].status \in {user[u].status, "blocked"}
  BY <1>1
<1>2. CASE SigninLift(r) \/ CheckLift(r)
  BY <1>0, <1>2 DEF SigninLift, CheckLift, Lift, Row
<1>3. CASE ResetWrite(r)
  BY <1>0, <1>3 DEF ResetWrite, Row
<1>4. CASE PenaltyWrite(r)
  <2>1. seen[r].row.violationCount + 1 \in Nat /\ seen[r].day \in Nat
    <3>1. seen[r].row \in Row /\ seen[r].day \in Nat
      BY NamesAssumption
    <3> QED BY <3>1 DEF Row
  <2>2. PICK n \in Nat, d \in Nat : user' = [user EXCEPT ![u] = Penalised(@, n, d)]
    BY <1>4, <2>1 DEF PenaltyWrite
  <2>3. user'[u] = Penalised(user[u], n, d)
    BY <1>0, <2>2
  <2> QED BY <1>0, <1>4, <2>3, PenalisedRow DEF PenaltyWrite
<1>5. CASE BlockWrite(r)
  BY <1>0, <1>5 DEF BlockWrite, Row
<1>6. CASE UnblockWrite(r)
  BY <1>0, <1>6 DEF UnblockWrite, Row
<1>7. CASE ForgiveWrite(r)
  BY <1>0, <1>7 DEF ForgiveWrite, Row
<1>8. CASE \/ SigninFind(r) \/ SigninProceed(r) \/ SigninToken(r) \/ RefreshFind(r)
           \/ RefreshDelete(r) \/ RefreshCreate(r) \/ SignoutFind(r) \/ SignoutDelete(r)
           \/ ResetRevoke(r)
  BY <1>8 DEF SigninFind, SigninProceed, SigninToken, RefreshFind,
     RefreshDelete, RefreshCreate, SignoutFind, SignoutDelete, ResetRevoke
<1>9. CASE \/ CheckFind(r) \/ PenaltyFind(r) \/ PenaltyNotify(r) \/ BlockFind(r)
           \/ BlockRevoke(r) \/ UnblockFind(r) \/ ForgiveFind(r)
  BY <1>9 DEF CheckFind, PenaltyFind, PenaltyNotify, BlockFind, BlockRevoke, UnblockFind,
     ForgiveFind
<1>10. CASE FaultStep(r)
  BY <1>10 DEF FaultStep, Crash, QueryFails, ExpireSession, CutShort
<1> QED
  BY <1>2, <1>3, <1>4, <1>5, <1>6, <1>7, <1>8, <1>9, <1>10
     DEF Step, SessionStep, StandingStep

\* What the only replica read, no other handler can change under it.
LEMMA SerialKept ==
    ASSUME \A r, s \in Replicas : r = s, BaseInv, SerialInv, AdminInv, ResetEndsSessions,
           NEW r \in Replicas, Step(r)
    PROVE  SerialInv'
<1> USE DEF BaseInv, GroupType, DataType, record, store
<1> SUFFICES ASSUME NEW u \in Users, pc'[r] # "idle", Subject(r)' = u
             PROVE  SerialAt(r, u)'
  BY DEF SerialInv
<1>0. /\ Subject(r) = u /\ job'[r] = job[r] /\ pc[r] # "idle" /\ SerialAt(r, u)
      /\ \A q \in Replicas : q = r
  BY SubjectStays, StepBusy DEF SerialInv
<1>1. ASSUME pc'[r] \notin Decided
      PROVE  SerialAt(r, u)'
  BY <1>1 DEF SerialAt, Decided
<1>2. CASE SigninFind(r)
  <2>1. /\ ~Refused(r) /\ UNCHANGED <<user, today>> /\ seen'[r].row = user[u]
        /\ pc'[r] = IF user[u].status = "blocked" THEN "signin_lift" ELSE "signin_proceed"
    BY <1>0, <1>2 DEF SigninFind, End, Finish, Release, Read, Goto
  <2> QED BY <1>0, <2>1 DEF SerialAt, Refused, Blocked
<1>3. CASE SigninLift(r)
  <2>1. /\ pc[r] = "signin_lift" /\ pc'[r] = "signin_proceed" /\ seen' = seen
        /\ user' = [user EXCEPT ![u] = [@ EXCEPT !.status = "active", !.blockUntil = 0]]
    BY <1>0, <1>3 DEF SigninLift, Lift, Move, Goto
  <2>2. user'[u].status = "active" /\ user'[u].password = user[u].password
    BY <2>1 DEF Row
  <2> QED BY <1>0, <2>1, <2>2 DEF SerialAt
<1>4. CASE SigninProceed(r)
  <2>1. /\ pc[r] = "signin_proceed" /\ pc'[r] = "signin_token" /\ UNCHANGED user
        /\ job[r].pattern = "auth.signin" => job[r].password = seen[r].row.password
    BY <1>0, <1>4 DEF SigninProceed, End, Finish, Release, Move, Goto
  <2> QED BY <1>0, <2>1 DEF SerialAt
<1>5. CASE RefreshDelete(r)
  <2>1. /\ pc[r] = "refresh_delete" /\ pc'[r] = "refresh_create"
        /\ Unexpired(job[r].token) /\ UNCHANGED <<user, token, byAdmin, halfReset>>
    BY <1>0, <1>5 DEF RefreshDelete, End, Finish, Release, Move, Goto
  <2>2. PICK t \in live : t = job[r].token
    BY <2>1 DEF Unexpired
  <2>3. token[t].userId = u
    BY <1>0, <2>1, <2>2 DEF Subject, Of, JobOK, TokenSteps, OfTokens
  <2>4. u \notin byAdmin
    BY <2>2, <2>3 DEF AdminInv, TokensOf
  <2>5. token[t].secret \in {NoPassword, user[u].password} \/ u \in halfReset
    BY <1>0, <2>1, <2>3 DEF ResetEndsSessions
  <2> QED BY <1>0, <2>1, <2>2, <2>4, <2>5 DEF SerialAt
<1>6. CASE CheckFind(r)
  <2>1. /\ pc'[r] = "check_lift" /\ UNCHANGED <<user, today>> /\ ~Blocked(user[u])
    BY <1>0, <1>6 DEF CheckFind, Read, Goto, End, Finish, Release
  <2> QED BY <2>1 DEF SerialAt, Blocked
<1>7. CASE BlockRevoke(r)
  <2>1. pc'[r] = "block_write" /\ live' = live \ TokensOf(u) /\ UNCHANGED token
    BY <1>0, <1>7 DEF BlockRevoke, Revoke, Move, Goto
  <2>2. TokensOf(u)' = {}
    BY <2>1 DEF TokensOf
  <2> QED BY <2>1, <2>2 DEF SerialAt
<1>8. CASE ExpireSession(r)
  <2>1. UNCHANGED <<pc, job, user, store, seen, today, record>>
    BY <1>8 DEF ExpireSession, OutliveSession
  <2> QED BY <1>0, <2>1 DEF SerialAt, Blocked, TokensOf
<1>9. CASE \/ SigninToken(r) \/ RefreshFind(r) \/ RefreshCreate(r) \/ SignoutFind(r)
            \/ SignoutDelete(r) \/ ResetWrite(r) \/ ResetRevoke(r)
  BY <1>1, <1>9 DEF SigninToken, RefreshFind, RefreshCreate, SignoutFind, SignoutDelete,
     ResetWrite, ResetRevoke, End, Finish, Release, Move, Goto, Decided
<1>10. CASE \/ CheckLift(r) \/ PenaltyFind(r) \/ PenaltyWrite(r) \/ PenaltyNotify(r)
            \/ BlockFind(r) \/ BlockWrite(r) \/ UnblockFind(r) \/ UnblockWrite(r) \/ ForgiveFind(r)
            \/ ForgiveWrite(r)
  BY <1>1, <1>10 DEF CheckLift, PenaltyFind, PenaltyWrite, PenaltyNotify, BlockFind,
     BlockWrite, UnblockFind, UnblockWrite, ForgiveFind, ForgiveWrite, End, Finish, Release, Move,
     Read, Goto, Decided
<1>11. CASE Crash(r) \/ QueryFails(r)
  BY <1>1, <1>11 DEF Crash, QueryFails, Die, Throw, Release, Decided
<1> QED
  BY <1>2, <1>3, <1>4, <1>5, <1>6, <1>7, <1>8, <1>9, <1>10, <1>11
     DEF Step, SessionStep, StandingStep, FaultStep

\* A block an administrator laid stands, without sessions, until it is lifted.
LEMMA AdminKept ==
    ASSUME BaseInv, SerialInv, AdminInv, NEW r \in Replicas, Step(r)
    PROVE  AdminInv'
<1> USE DEF BaseInv, DataType, record, store
<1>0. PICK u \in Users : u = Subject(r)
  BY StepBusy, SubjectIsUser
<1>1. SerialAt(r, u)
  BY <1>0, StepBusy DEF SerialInv
<1>2. \A t \in 1..issued : token'[t] = token[t]
  BY StepTokens, TokensStand
<1>3. ASSUME live' \subseteq live
      PROVE  \A v \in Users : TokensOf(v)' \subseteq TokensOf(v)
  BY <1>2, <1>3 DEF TokensOf
<1>4. CASE BlockWrite(r)
  <2>1. /\ byAdmin' = byAdmin \cup {u} /\ pc[r] = "block_write" /\ UNCHANGED store
        /\ \A v \in Users : v # u => user'[v] = user[v]
        /\ user'[u].status = "blocked"
    BY <1>0, <1>4 DEF BlockWrite, Row
  <2>2. TokensOf(u) = {}
    BY <1>1, <2>1 DEF SerialAt
  <2> QED BY <1>3, <2>1, <2>2 DEF AdminInv
<1>5. CASE SigninLift(r) \/ CheckLift(r) \/ UnblockWrite(r)
  <2>1. /\ byAdmin' = byAdmin \ {u} /\ UNCHANGED store
        /\ \A v \in Users : v # u => user'[v] = user[v]
    BY <1>0, <1>5 DEF SigninLift, CheckLift, UnblockWrite, Lift
  <2> QED BY <1>3, <2>1 DEF AdminInv
<1>6. CASE SigninToken(r) \/ RefreshCreate(r)
  <2>1. u \notin byAdmin
    BY <1>1, <1>6 DEF SigninToken, RefreshCreate, SerialAt, AdminInv
  <2>2. UNCHANGED <<user, byAdmin>>
    BY <1>6 DEF SigninToken, RefreshCreate
  <2>3. PICK root, secret : Issue(u, root, secret)
    BY <1>0, <1>6 DEF SigninToken, RefreshCreate
  <2>4. issued \in Nat /\ issued + 1 \in Token
    BY <2>3, NamesAssumption DEF Issue, Token
  <2>5. live' = live \cup {issued + 1} /\ token'[issued + 1].userId = u
    BY <2>3, <2>4 DEF Issue
  <2>6. \A v \in byAdmin : TokensOf(v)' \subseteq TokensOf(v)
    BY <1>2, <2>1, <2>5 DEF TokensOf
  <2> QED BY <2>2, <2>6 DEF AdminInv
<1>7. ASSUME live' \subseteq live, UNCHANGED byAdmin,
             pc[r] \notin {"signin_lift", "check_lift", "unblock_write"}
      PROVE  AdminInv'
  BY <1>3, <1>7, RowWritten DEF AdminInv
<1>8. CASE \/ SigninFind(r) \/ SigninProceed(r) \/ RefreshFind(r) \/ RefreshDelete(r)
           \/ SignoutFind(r) \/ SignoutDelete(r) \/ ResetWrite(r) \/ ResetRevoke(r)
  BY <1>7, <1>8 DEF SigninFind, SigninProceed, RefreshFind, RefreshDelete, SignoutFind,
     SignoutDelete, ResetWrite, ResetRevoke, Revoke, SignIns
<1>9. CASE \/ CheckFind(r) \/ PenaltyFind(r) \/ PenaltyWrite(r) \/ PenaltyNotify(r)
           \/ BlockFind(r) \/ BlockRevoke(r) \/ UnblockFind(r) \/ ForgiveFind(r)
           \/ ForgiveWrite(r)
  BY <1>7, <1>9 DEF CheckFind, PenaltyFind, PenaltyWrite, PenaltyNotify, BlockFind,
     BlockRevoke, UnblockFind, ForgiveFind, ForgiveWrite, Revoke
<1>10. CASE FaultStep(r)
  <2>1. UNCHANGED <<user, store, byAdmin>>
    BY <1>10 DEF FaultStep, Crash, QueryFails, ExpireSession, CutShort
  <2> QED BY <1>3, <2>1 DEF AdminInv
<1> QED
  BY <1>4, <1>5, <1>6, <1>8, <1>9, <1>10 DEF Step, SessionStep, StandingStep

\* A live token opened with a password, whose user has it still or is half
\* way through a reset.
Honest(t) ==
    token[t].secret # NoPassword =>
        \/ token[t].secret = user[token[t].userId].password
        \/ token[t].userId \in halfReset

\* A session is opened, or rotated, with the password that is the user's.
LEMMA ResetKept ==
    ASSUME \A r, s \in Replicas : r = s, BaseInv, SerialInv, ResetEndsSessions,
           NEW r \in Replicas, Step(r)
    PROVE  ResetEndsSessions'
<1> USE DEF BaseInv, DataType, record, store
<1>0. PICK u \in Users : u = Subject(r)
  BY StepBusy, SubjectIsUser
<1>1. SerialAt(r, u) /\ \A q \in Replicas : q = r
  BY <1>0, StepBusy DEF SerialInv
<1>2. \A t \in 1..issued : token'[t] = token[t]
  BY StepTokens, TokensStand
<1>3. \A t \in live : t \in 1..issued /\ token[t] \in Session /\ token[t].userId \in Users
  <2>1. ASSUME NEW t \in live
        PROVE  t \in 1..issued /\ token[t] \in Session
    BY NamesAssumption DEF Token
  <2> QED BY <2>1 DEF Session
<1>4. ASSUME \A t \in live' : Honest(t)'
      PROVE  ResetEndsSessions'
  BY <1>4 DEF Honest, ResetEndsSessions
<1>5. pc[r] # "reset_revoke" => \A t \in live : Honest(t)
  BY <1>1 DEF Honest, ResetEndsSessions
<1>6. CASE ResetWrite(r)
  <2>1. /\ pc[r] = "auth.reset_passwd" /\ UNCHANGED <<live, token, halfReset>>
        /\ UNCHANGED user \/ pc'[r] = "reset_revoke"
    BY <1>6 DEF ResetWrite, Move, Goto, GroupType
  <2>2. pc'[r] = "reset_revoke" => Subject(r)' = u
    BY <1>0, SubjectStays
  <2>3. ASSUME NEW t \in live
        PROVE  Honest(t)' \/ (pc'[r] = "reset_revoke" /\ Subject(r)' = token[t].userId)
    <3>1. Honest(t)
      BY <1>5, <2>1
    <3>2. CASE token[t].userId = u
      BY <2>1, <2>2, <3>1, <3>2 DEF Honest
    <3>3. CASE token[t].userId # u
      <4>1. user'[token[t].userId] = user[token[t].userId]
        BY <1>0, <1>3, <3>3, RowWritten
      <4> QED BY <2>1, <3>1, <4>1 DEF Honest
    <3> QED BY <3>2, <3>3
  <2> QED BY <2>1, <2>3 DEF ResetEndsSessions, Honest
<1>7. CASE ResetRevoke(r)
  <2>1. /\ live' = live \ TokensOf(u) /\ halfReset' = halfReset \ {u}
        /\ UNCHANGED <<token, user>>
    BY <1>0, <1>7 DEF ResetRevoke, Revoke
  <2>2. ASSUME NEW t \in live'
        PROVE  Honest(t)'
    <3>1. t \in live /\ token[t].userId # u
      BY <2>1, <2>2 DEF TokensOf
    <3>2. \A q \in Replicas : Subject(q) # token[t].userId
      BY <1>0, <1>1, <3>1
    <3> QED BY <2>1, <3>1, <3>2 DEF ResetEndsSessions, Honest
  <2> QED BY <1>4, <2>2
<1>8. CASE SigninToken(r) \/ RefreshCreate(r)
  <2>1. pc[r] # "reset_revoke" /\ UNCHANGED <<user, halfReset>>
    BY <1>8 DEF SigninToken, RefreshCreate
  <2>2. PICK root, secret :
            /\ Issue(u, root, secret)
            /\ secret \in {NoPassword, user[u].password} \/ u \in halfReset
    BY <1>0, <1>1, <1>8 DEF SigninToken, RefreshCreate, SerialAt
  <2>3. PICK n \in Token : n = issued + 1
    BY <2>2, NamesAssumption DEF Issue, Token
  <2>4. /\ live' = live \cup {n}
        /\ token'[n].userId = u /\ token'[n].secret = secret
    BY <2>2, <2>3 DEF Issue
  <2>5. Honest(n)'
    BY <2>1, <2>2, <2>4 DEF Honest
  <2>6. ASSUME NEW t \in live
        PROVE  Honest(t)'
    <3>1. Honest(t) /\ token'[t] = token[t]
      BY <1>2, <1>3, <1>5, <2>1, <2>6
    <3> QED BY <2>1, <3>1 DEF Honest
  <2> QED BY <1>4, <2>4, <2>5, <2>6
<1>9. ASSUME pc[r] \notin {"reset_revoke", "auth.reset_passwd"}, live' \subseteq live,
             halfReset \subseteq halfReset'
      PROVE  ResetEndsSessions'
  <2>1. ASSUME NEW t \in live'
        PROVE  Honest(t)'
    <3>1. Honest(t) /\ t \in live /\ token'[t] = token[t]
      BY <1>2, <1>3, <1>5, <1>9, <2>1
    <3>2. user'[token[t].userId].password = user[token[t].userId].password
      BY <1>3, <1>9, <3>1, RowWritten
    <3> QED BY <1>9, <3>1, <3>2 DEF Honest
  <2> QED BY <1>4, <2>1
<1>10. CASE \/ SigninFind(r) \/ SigninLift(r) \/ SigninProceed(r) \/ RefreshFind(r)
            \/ RefreshDelete(r) \/ SignoutFind(r) \/ SignoutDelete(r)
  BY <1>9, <1>10 DEF SigninFind, SigninLift, SigninProceed, RefreshFind, RefreshDelete,
     SignoutFind, SignoutDelete, Revoke, SignIns
<1>11. CASE StandingStep(r)
  BY <1>9, <1>11 DEF StandingStep, CheckFind, CheckLift, PenaltyFind, PenaltyWrite,
     PenaltyNotify, BlockFind, BlockRevoke, BlockWrite, UnblockFind, UnblockWrite,
     ForgiveFind, ForgiveWrite, Revoke
<1>12. CASE ExpireSession(r)
  <2>1. UNCHANGED <<pc, job, user, store, halfReset>>
    BY <1>12 DEF ExpireSession, OutliveSession
  <2> QED BY <2>1 DEF ResetEndsSessions, Subject, Of
<1>13. CASE Crash(r) \/ QueryFails(r)
  <2>1. /\ UNCHANGED <<user, store>>
        /\ halfReset' = IF pc[r] = "reset_revoke" THEN halfReset \cup {u} ELSE halfReset
    BY <1>0, <1>13 DEF Crash, QueryFails, CutShort
  <2>2. ASSUME NEW t \in live
        PROVE  Honest(t)'
    <3>1. Honest(t) \/ (pc[r] = "reset_revoke" /\ token[t].userId = u)
      BY <1>0, <1>1 DEF ResetEndsSessions, Honest
    <3> QED BY <2>1, <3>1 DEF Honest
  <2> QED BY <1>4, <2>1, <2>2
<1> QED
  BY <1>6, <1>7, <1>8, <1>10, <1>11, <1>12, <1>13 DEF Step, SessionStep, FaultStep

\* The inductive invariant of a service of one replica.
StandingInv == SerialInv /\ AdminInv /\ ResetEndsSessions

\* It holds throughout.
LEMMA StandingAlways ==
    ASSUME \A r, s \in Replicas : r = s
    PROVE  Spec => []StandingInv
<1>1. Init => StandingInv
  <2> SUFFICES ASSUME Init PROVE StandingInv
    OBVIOUS
  <2>1. SerialInv
    BY DEF Init, GroupInit, SerialInv
  <2>2. AdminInv /\ ResetEndsSessions
    BY DEF Init, AdminInv, ResetEndsSessions
  <2> QED BY <2>1, <2>2 DEF StandingInv
<1>2. BaseInv /\ StandingInv /\ [Next]_vars => StandingInv'
  <2> SUFFICES ASSUME BaseInv, StandingInv, [Next]_vars PROVE StandingInv'
    OBVIOUS
  <2>1. ASSUME NEW r \in Replicas, Step(r) PROVE StandingInv'
    BY <2>1, SerialKept, AdminKept, ResetKept DEF StandingInv
  <2>2. ASSUME NEW r \in Replicas, NEW m \in Requests, Begin(r, m) PROVE StandingInv'
    <3>1. /\ pc[r] = "idle" /\ pc'[r] = m.pattern /\ \A q \in Replicas : q = r
          /\ UNCHANGED <<user, store, record>>
      BY <2>2 DEF Begin, Take, BaseInv, GroupType
    <3>2. m.pattern \notin Decided \cup {"reset_revoke"}
      BY RequestFields DEF Decided, SignIns, OfTokens, Standing
    <3>3. SerialInv'
      BY <3>1, <3>2 DEF SerialInv, SerialAt, Decided
    <3>4. AdminInv'
      BY <3>1 DEF StandingInv, AdminInv, TokensOf, store, record
    <3>5. ResetEndsSessions'
      BY <3>1, <3>2 DEF StandingInv, ResetEndsSessions, store, record
    <3> QED BY <3>3, <3>4, <3>5 DEF StandingInv
  <2>3. CASE Tick
    <3>1. /\ UNCHANGED <<group, user, store, seen, record>>
          /\ today \in Nat /\ today' \in Nat /\ today < today'
      BY <2>3, NamesAssumption DEF Tick, BaseInv, DataType
    <3>2. \A u \in Users : Blocked(user[u])' => Blocked(user[u])
      <4>1. \A u \in Users : user[u].blockUntil \in Nat
        BY DEF BaseInv, DataType, Row
      <4> QED BY <3>1, <4>1 DEF Blocked
    <3>3. SerialInv'
      BY <3>1, <3>2 DEF StandingInv, SerialInv, SerialAt, TokensOf, Subject, Of, group,
         store, record
    <3>4. AdminInv' /\ ResetEndsSessions'
      BY <3>1 DEF StandingInv, AdminInv, ResetEndsSessions, TokensOf, Subject, Of, group, store, record
    <3> QED BY <3>3, <3>4 DEF StandingInv
  <2>4. CASE UNCHANGED vars
    BY <2>4 DEF vars, StandingInv, SerialInv, SerialAt, AdminInv, ResetEndsSessions,
       TokensOf, Blocked, Subject, Of, group, store, record
  <2> QED BY <2>1, <2>2, <2>3, <2>4 DEF Next, Step
<1> QED BY <1>1, <1>2, BaseAlways, PTL DEF Spec

\* Run by one replica, the service leaves a user an administrator blocked
\* without a session: none is left open, none opened or rotated.
THEOREM SerialBlockEndsSessions ==
    ASSUME \A r, s \in Replicas : r = s
    PROVE  Spec => []BlockEndsSessions
<1>1. StandingInv => BlockEndsSessions
  BY DEF StandingInv, AdminInv, BlockEndsSessions
<1> QED BY <1>1, StandingAlways, PTL

\* Run by one replica, the service lets no session opened with an old
\* password, nor one rotated out of it, outlive a completed reset.
THEOREM SerialResetEndsSessions ==
    ASSUME \A r, s \in Replicas : r = s
    PROVE  Spec => []ResetEndsSessions
BY StandingAlways, PTL DEF StandingInv

\* Run by one replica, the service never lifts a running block unless an
\* administrator does: what a sign-in found over was over.
THEOREM SerialBlockStands ==
    ASSUME \A r, s \in Replicas : r = s
    PROVE  Spec => BlockStands
<1> DEFINE Stands ==
        \A u \in Users :
            Blocked(user[u]) /\ user'[u].status # "blocked" =>
                \E r \in Replicas : pc[r] = "unblock_write" /\ Subject(r) = u
<1>1. BaseInv /\ StandingInv /\ [Next]_vars => [Stands]_vars
  <2> SUFFICES ASSUME BaseInv, StandingInv, Next PROVE Stands
    OBVIOUS
  <2>1. ASSUME NEW r \in Replicas, Step(r) PROVE Stands
    <3> SUFFICES ASSUME NEW u \in Users, Blocked(user[u]), user'[u].status # "blocked"
                 PROVE  pc[r] = "unblock_write" /\ Subject(r) = u
      OBVIOUS
    <3>1. Subject(r) = u /\ pc[r] \in {"signin_lift", "check_lift", "unblock_write"}
      BY <2>1, RowWritten DEF Blocked
    <3>2. SerialAt(r, u)
      BY <2>1, <3>1, StepBusy DEF StandingInv, SerialInv
    <3> QED BY <3>1, <3>2 DEF SerialAt
  <2>2. CASE UNCHANGED user
    BY <2>2 DEF Blocked
  <2> QED BY <2>1, <2>2 DEF Next, Step, Begin, Tick
<1> QED BY <1>1, BaseAlways, StandingAlways, PTL DEF Spec, BlockStands
=============================================================================
