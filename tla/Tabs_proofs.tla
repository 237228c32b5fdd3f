---------------------------- MODULE Tabs_proofs ----------------------------
(***************************************************************************)
(* What the tabs of a browser keep: the session they share, where a person *)
(* who signs up ends, the calls between them, and the notices they show,   *)
(* for every number of tabs, of requests, of notices and of failures.      *)
(***************************************************************************)
EXTENDS Sessions, SignUp, Calls, Notices, Lists_proofs

-----------------------------------------------------------------------------
(* The session *)

RenewalStates == {"sent", "found", "deleted", "granted", "failed"}

SessionType ==
    /\ granted \in Nat /\ jar \in Nat /\ sessions \subseteq 1..granted
    /\ renewals \subseteq [win : Windows \cup {"gone"}, of : Nat, at : RenewalStates, new : Nat]
    /\ leaving \subseteq [win : Windows, of : Nat, at : {"sent", "answered"}]
    /\ \A f \in fetches : f.win \in Windows

\* Unless requests have met, one renewal runs, and no sign-out beside it.
Alone ==
    /\ \A r, q \in renewals : r = q
    /\ renewals # {} => leaving = {}

\* The cookie is good, or the one renewal will make it so.
CookieGood ==
    /\ renewals = {} => jar \in sessions
    /\ \A r \in renewals :
           /\ r.win \in Windows /\ r.at # "failed"
           /\ r.at \in {"sent", "found"} => r.of \in sessions
           /\ r.at = "granted" => r.new \in sessions

\* A sign-out takes the cookie's token, unless that is gone already.
LeavesWithCookie ==
    \A l \in leaving : (l.at = "sent" /\ l.of = jar) \/ jar \notin sessions

\* No renewal makes another token of a cookie that is worth nothing.
NothingReopens ==
    /\ key = 0 /\ jar \notin sessions
    /\ \A r \in renewals : r.at \in {"sent", "failed"} /\ r.of \notin sessions

SessionInv ==
    /\ SessionType
    /\ ~met => Alone /\ LeavesWithCookie
    /\ ~met /\ ~ended => CookieGood
    /\ ~met /\ signedOut => NothingReopens
    /\ NobodyEvicted

\* The three promises follow.
LEMMA SessionsFollow ==
    ASSUME SessionInv
    PROVE  SessionsKept
BY DEF SessionInv, SessionsKept, Renewable, StaysOut, Idle, CookieGood, NothingReopens

\* Every step keeps the invariant.
LEMMA SessionStep ==
    ASSUME SessionInv, [SessionsNext]_sessionVars
    PROVE  SessionInv'
<1> USE SessionsAssumption DEF SessionInv, tokensHeld, browser, underWay, sessionBounds, sessionAux
<1>1. ASSUME NEW r \in renewals, RenewFind(r) PROVE SessionInv'
  <2>1. SessionType'
    BY <1>1 DEF RenewFind, Goes, SessionType, RenewalStates
  <2>2. ~met' => Alone' /\ LeavesWithCookie'
    BY <1>1 DEF RenewFind, Goes, SessionType, Alone, LeavesWithCookie
  <2>3. ~met' /\ ~ended' => CookieGood'
    BY <1>1 DEF RenewFind, Goes, SessionType, Alone, LeavesWithCookie, CookieGood
  <2>4. ~met' /\ signedOut' => NothingReopens'
    BY <1>1 DEF RenewFind, Goes, SessionType, Alone, LeavesWithCookie, NothingReopens
  <2>5. NobodyEvicted'
    BY <1>1 DEF RenewFind, Goes, Alone, CookieGood, NobodyEvicted
  <2> QED BY <2>1, <2>2, <2>3, <2>4, <2>5
<1>2. ASSUME NEW r \in renewals, RenewDelete(r) PROVE SessionInv'
  <2>1. SessionType'
    BY <1>2 DEF RenewDelete, Goes, SessionType, RenewalStates
  <2>2. ~met' => Alone' /\ LeavesWithCookie'
    BY <1>2 DEF RenewDelete, Goes, SessionType, Alone, LeavesWithCookie
  <2>3. ~met' /\ ~ended' => CookieGood'
    BY <1>2 DEF RenewDelete, Goes, SessionType, Alone, LeavesWithCookie, CookieGood
  <2>4. ~met' /\ signedOut' => NothingReopens'
    BY <1>2 DEF RenewDelete, Goes, SessionType, Alone, LeavesWithCookie, NothingReopens
  <2>5. NobodyEvicted'
    BY <1>2 DEF RenewDelete, Goes, Alone, CookieGood, NobodyEvicted
  <2> QED BY <2>1, <2>2, <2>3, <2>4, <2>5
<1>3. ASSUME NEW r \in renewals, RenewCreate(r) PROVE SessionInv'
  <2>1. SessionType'
    <3>1. granted' \in Nat /\ jar' \in Nat /\ sessions' \subseteq 1..granted'
      BY <1>3 DEF RenewCreate, SessionType
    <3>2. [r EXCEPT !.at = "granted", !.new = granted'] \in
              [win : Windows \cup {"gone"}, of : Nat, at : RenewalStates, new : Nat]
      BY <3>1 DEF SessionType, RenewalStates
    <3> QED BY <1>3, <3>1, <3>2 DEF RenewCreate, Goes, SessionType
  <2>2. ~met' => Alone' /\ LeavesWithCookie'
    BY <1>3 DEF RenewCreate, Goes, SessionType, Alone, LeavesWithCookie
  <2>3. ~met' /\ ~ended' => CookieGood'
    BY <1>3 DEF RenewCreate, Goes, SessionType, Alone, LeavesWithCookie, CookieGood
  <2>4. ~met' /\ signedOut' => NothingReopens'
    BY <1>3 DEF RenewCreate, Goes, SessionType, Alone, LeavesWithCookie, NothingReopens
  <2>5. NobodyEvicted'
    BY <1>3 DEF RenewCreate, Goes, Alone, CookieGood, NobodyEvicted
  <2> QED BY <2>1, <2>2, <2>3, <2>4, <2>5
<1>4. ASSUME NEW r \in renewals, RenewDone(r) PROVE SessionInv'
  <2>1. SessionType'
    <3>1. ASSUME NEW f \in fetches' PROVE f.win \in Windows
      <4>1. PICK g \in fetches :
              f = IF g.win = r.win /\ g.at = "waiting"
                  THEN [g EXCEPT !.at = "sent", !.again = TRUE, !.token = r.new] ELSE g
        BY <1>4, <3>1 DEF RenewDone
      <4>2. f.win = g.win
        BY <4>1
      <4> QED BY <4>2 DEF SessionType
    <3> QED BY <1>4, <3>1 DEF RenewDone, SessionType, RenewalStates
  <2>2. ~met' => Alone' /\ LeavesWithCookie'
    BY <1>4 DEF RenewDone, SessionType, Alone, LeavesWithCookie
  <2>3. ~met' /\ ~ended' => CookieGood'
    BY <1>4 DEF RenewDone, SessionType, Alone, LeavesWithCookie, CookieGood
  <2>4. ~met' /\ signedOut' => NothingReopens'
    BY <1>4 DEF RenewDone, SessionType, Alone, LeavesWithCookie, NothingReopens
  <2>5. NobodyEvicted'
    BY <1>4 DEF RenewDone, Alone, CookieGood, NobodyEvicted
  <2> QED BY <2>1, <2>2, <2>3, <2>4, <2>5
<1>5. ASSUME NEW r \in renewals, RenewFailed(r) PROVE SessionInv'
  <2>1. SessionType'
    BY <1>5 DEF RenewFailed, Unloaded, SessionType, RenewalStates
  <2>2. ~met' => Alone' /\ LeavesWithCookie'
    BY <1>5 DEF RenewFailed, Unloaded, SessionType, Alone, LeavesWithCookie
  <2>3. ~met' /\ ~ended' => CookieGood'
    BY <1>5 DEF RenewFailed, Unloaded, SessionType, Alone, LeavesWithCookie, CookieGood
  <2>4. ~met' /\ signedOut' => NothingReopens'
    BY <1>5 DEF RenewFailed, Unloaded, SessionType, Alone, LeavesWithCookie, NothingReopens
  <2>5. NobodyEvicted'
    BY <1>5 DEF RenewFailed, Unloaded, Alone, CookieGood, NobodyEvicted
  <2> QED BY <2>1, <2>2, <2>3, <2>4, <2>5
<1>6. ASSUME NEW r \in renewals, RenewForgotten(r) PROVE SessionInv'
  <2>1. SessionType'
    BY <1>6 DEF RenewForgotten, SessionType, RenewalStates
  <2>2. ~met' => Alone' /\ LeavesWithCookie'
    BY <1>6 DEF RenewForgotten, SessionType, Alone, LeavesWithCookie
  <2>3. ~met' /\ ~ended' => CookieGood'
    BY <1>6 DEF RenewForgotten, SessionType, Alone, LeavesWithCookie, CookieGood
  <2>4. ~met' /\ signedOut' => NothingReopens'
    BY <1>6 DEF RenewForgotten, SessionType, Alone, LeavesWithCookie, NothingReopens
  <2>5. NobodyEvicted'
    BY <1>6 DEF RenewForgotten, Alone, CookieGood, NobodyEvicted
  <2> QED BY <2>1, <2>2, <2>3, <2>4, <2>5
<1>7. ASSUME NEW r \in renewals, RenewCut(r) PROVE SessionInv'
  <2>1. SessionType'
    BY <1>7 DEF RenewCut, Goes, Cut, SessionType, RenewalStates
  <2>2. ~met' => Alone' /\ LeavesWithCookie'
    BY <1>7 DEF RenewCut, Goes, Cut, SessionType, Alone, LeavesWithCookie
  <2>3. ~met' /\ ~ended' => CookieGood'
    BY <1>7 DEF RenewCut, Goes, Cut, SessionType, Alone, LeavesWithCookie, CookieGood
  <2>4. ~met' /\ signedOut' => NothingReopens'
    BY <1>7 DEF RenewCut, Goes, Cut, SessionType, Alone, LeavesWithCookie, NothingReopens
  <2>5. NobodyEvicted'
    BY <1>7 DEF RenewCut, Goes, Cut, Alone, CookieGood, NobodyEvicted
  <2> QED BY <2>1, <2>2, <2>3, <2>4, <2>5
<1>8. ASSUME NEW l \in leaving, SignoutDeletes(l) PROVE SessionInv'
  <2>1. SessionType'
    BY <1>8 DEF SignoutDeletes, SessionType, RenewalStates
  <2>2. ~met' => Alone' /\ LeavesWithCookie'
    BY <1>8 DEF SignoutDeletes, SessionType, Alone, LeavesWithCookie
  <2>3. ~met' /\ ~ended' => CookieGood'
    BY <1>8 DEF SignoutDeletes, SessionType, Alone, LeavesWithCookie, CookieGood
  <2>4. ~met' /\ signedOut' => NothingReopens'
    BY <1>8 DEF SignoutDeletes, SessionType, Alone, LeavesWithCookie, NothingReopens
  <2>5. NobodyEvicted'
    BY <1>8 DEF SignoutDeletes, Alone, CookieGood, NobodyEvicted
  <2> QED BY <2>1, <2>2, <2>3, <2>4, <2>5
<1>9. ASSUME NEW l \in leaving, SignoutFails(l) PROVE SessionInv'
  <2>1. SessionType'
    BY <1>9 DEF SignoutFails, Cut, SessionType, RenewalStates
  <2>2. ~met' => Alone' /\ LeavesWithCookie'
    BY <1>9 DEF SignoutFails, Cut, SessionType, Alone, LeavesWithCookie
  <2>3. ~met' /\ ~ended' => CookieGood'
    BY <1>9 DEF SignoutFails, Cut, SessionType, Alone, LeavesWithCookie, CookieGood
  <2>4. ~met' /\ signedOut' => NothingReopens'
    BY <1>9 DEF SignoutFails, Cut, SessionType, Alone, LeavesWithCookie, NothingReopens
  <2>5. NobodyEvicted'
    BY <1>9 DEF SignoutFails, Cut, Alone, CookieGood, NobodyEvicted
  <2> QED BY <2>1, <2>2, <2>3, <2>4, <2>5
<1>10. ASSUME NEW l \in leaving, SignedOut(l) PROVE SessionInv'
  <2>1. SessionType'
    BY <1>10 DEF SignedOut, SessionType, RenewalStates
  <2>2. ~met' => Alone' /\ LeavesWithCookie'
    BY <1>10 DEF SignedOut, SessionType, Alone, LeavesWithCookie
  <2>3. ~met' /\ ~ended' => CookieGood'
    BY <1>10 DEF SignedOut, SessionType, Alone, LeavesWithCookie, CookieGood
  <2>4. ~met' /\ signedOut' => NothingReopens'
    BY <1>10 DEF SignedOut, SessionType, Alone, LeavesWithCookie, NothingReopens
  <2>5. NobodyEvicted'
    BY <1>10 DEF SignedOut, Alone, CookieGood, NobodyEvicted
  <2> QED BY <2>1, <2>2, <2>3, <2>4, <2>5
<1>11. ASSUME NEW w \in Windows, ApiCall(w) PROVE SessionInv'
  <2>1. SessionType'
    BY <1>11 DEF ApiCall, SessionType, RenewalStates
  <2>2. ~met' => Alone' /\ LeavesWithCookie'
    BY <1>11 DEF ApiCall, SessionType, Alone, LeavesWithCookie
  <2>3. ~met' /\ ~ended' => CookieGood'
    BY <1>11 DEF ApiCall, SessionType, Alone, LeavesWithCookie, CookieGood
  <2>4. ~met' /\ signedOut' => NothingReopens'
    BY <1>11 DEF ApiCall, SessionType, Alone, LeavesWithCookie, NothingReopens
  <2>5. NobodyEvicted'
    BY <1>11 DEF ApiCall, Alone, CookieGood, NobodyEvicted
  <2> QED BY <2>1, <2>2, <2>3, <2>4, <2>5
<1>12. ASSUME NEW w \in Windows, Load(w) PROVE SessionInv'
  <2>1. SessionType'
    BY <1>12 DEF Load, Unloaded, RenewalsOf, Act, SessionType, RenewalStates
  <2>2. ~met' => Alone' /\ LeavesWithCookie'
    BY <1>12 DEF Load, Unloaded, RenewalsOf, Act, SessionType, Alone, LeavesWithCookie
  <2>3. ~met' /\ ~ended' => CookieGood'
    BY <1>12 DEF Load, Unloaded, RenewalsOf, Act, SessionType, Alone, LeavesWithCookie,
       CookieGood
  <2>4. ~met' /\ signedOut' => NothingReopens'
    BY <1>12 DEF Load, Unloaded, RenewalsOf, Act, SessionType, Alone, LeavesWithCookie,
       NothingReopens
  <2>5. NobodyEvicted'
    BY <1>12 DEF Load, Unloaded, RenewalsOf, Act, Alone, CookieGood, NobodyEvicted
  <2> QED BY <2>1, <2>2, <2>3, <2>4, <2>5
<1>13. ASSUME NEW w \in Windows, SignIn(w) PROVE SessionInv'
  <2>1. SessionType'
    BY <1>13 DEF SignIn, SessionType, RenewalStates
  <2>2. ~met' => Alone' /\ LeavesWithCookie'
    BY <1>13 DEF SignIn, SessionType, Alone, LeavesWithCookie
  <2>3. ~met' /\ ~ended' => CookieGood'
    BY <1>13 DEF SignIn, SessionType, Alone, LeavesWithCookie, CookieGood
  <2>4. ~met' /\ signedOut' => NothingReopens'
    BY <1>13 DEF SignIn, SessionType, Alone, LeavesWithCookie, NothingReopens
  <2>5. NobodyEvicted'
    BY <1>13 DEF SignIn, Alone, CookieGood, NobodyEvicted
  <2> QED BY <2>1, <2>2, <2>3, <2>4, <2>5
<1>14. ASSUME NEW w \in Windows, SignOut(w) PROVE SessionInv'
  <2>1. SessionType'
    BY <1>14 DEF SignOut, SessionType, RenewalStates
  <2>2. ~met' => Alone' /\ LeavesWithCookie'
    <3>1. ~met' => ~met /\ renewals' = {} /\ jar' = jar /\ sessions' = sessions
      BY <1>14 DEF SignOut
    <3>2. \A l \in leaving' : l \in leaving \/ (l.at = "sent" /\ l.of = jar)
      BY <1>14 DEF SignOut
    <3> QED BY <3>1, <3>2 DEF Alone, LeavesWithCookie
  <2>3. ~met' /\ ~ended' => CookieGood'
    BY <1>14 DEF SignOut, SessionType, Alone, LeavesWithCookie, CookieGood
  <2>4. ~met' /\ signedOut' => NothingReopens'
    BY <1>14 DEF SignOut, SessionType, Alone, LeavesWithCookie, NothingReopens
  <2>5. NobodyEvicted'
    BY <1>14 DEF SignOut, Alone, CookieGood, NobodyEvicted
  <2> QED BY <2>1, <2>2, <2>3, <2>4, <2>5
<1>15. ASSUME NEW f \in fetches, ApiAnswered(f) PROVE SessionInv'
  <2>1. SessionType'
    BY <1>15 DEF ApiAnswered, SessionType, RenewalStates
  <2>2. ~met' => Alone' /\ LeavesWithCookie'
    BY <1>15 DEF ApiAnswered, SessionType, Alone, LeavesWithCookie
  <2>3. ~met' /\ ~ended' => CookieGood'
    BY <1>15 DEF ApiAnswered, SessionType, Alone, LeavesWithCookie, CookieGood
  <2>4. ~met' /\ signedOut' => NothingReopens'
    BY <1>15 DEF ApiAnswered, SessionType, Alone, LeavesWithCookie, NothingReopens
  <2>5. NobodyEvicted'
    BY <1>15 DEF ApiAnswered, Alone, CookieGood, NobodyEvicted
  <2> QED BY <2>1, <2>2, <2>3, <2>4, <2>5
<1>16. ASSUME NEW f \in fetches, Unauthorized(f) PROVE SessionInv'
  <2> DEFINE n == [win |-> f.win, of |-> jar, at |-> "sent", new |-> 0]
  <2>1. /\ UNCHANGED <<granted, sessions, jar, key, leaving, signedOut, ended, evicted>>
        /\ \A g \in fetches' : g.win \in Windows
    <3>1. [f EXCEPT !.at = "waiting"].win = f.win
      OBVIOUS
    <3>2. \A g \in fetches' : g \in fetches \/ g = [f EXCEPT !.at = "waiting"]
      BY <1>16 DEF Unauthorized
    <3>3. \A g \in fetches' : g.win \in Windows
      BY <3>1, <3>2 DEF SessionType
    <3> QED BY <1>16, <3>3 DEF Unauthorized
  <2>2. CASE UNCHANGED <<renewals, met>>
    BY <2>1, <2>2 DEF SessionType, Alone, LeavesWithCookie, CookieGood, NothingReopens,
       NobodyEvicted
  <2>3. CASE renewals' = renewals \cup {n} /\ met' = (met \/ renewals # {} \/ leaving # {})
    <3>1. SessionType'
      <4>1. n \in [win : Windows \cup {"gone"}, of : Nat, at : RenewalStates, new : Nat]
        BY DEF SessionType, RenewalStates
      <4> QED BY <2>1, <2>3, <4>1 DEF SessionType
    <3>2. ~met' => renewals = {} /\ leaving' = {} /\ ~met
      BY <2>1, <2>3
    <3>3. ~met' => Alone' /\ LeavesWithCookie'
      BY <2>3, <3>2 DEF Alone, LeavesWithCookie
    <3>4. ~met' /\ ~ended' => CookieGood'
      <4>1. ~met' => renewals' = {n}
        BY <2>3, <3>2
      <4>2. n.win \in Windows /\ n.at = "sent" /\ n.of = jar
        BY DEF SessionType
      <4>3. ~met' /\ ~ended' => jar \in sessions'
        BY <2>1, <3>2 DEF CookieGood
      <4> QED BY <4>1, <4>2, <4>3 DEF CookieGood
    <3> QED BY <2>1, <2>3, <3>1, <3>2, <3>3, <3>4 DEF NothingReopens, NobodyEvicted
  <2> QED BY <1>16, <2>2, <2>3 DEF Unauthorized, Renewing
<1>17. ASSUME Lapses PROVE SessionInv'
  <2>1. SessionType'
    BY <1>17 DEF Lapses, SessionType, RenewalStates
  <2>2. ~met' => Alone' /\ LeavesWithCookie'
    BY <1>17 DEF Lapses, SessionType, Alone, LeavesWithCookie
  <2>3. ~met' /\ ~ended' => CookieGood'
    BY <1>17 DEF Lapses, SessionType, Alone, LeavesWithCookie, CookieGood
  <2>4. ~met' /\ signedOut' => NothingReopens'
    BY <1>17 DEF Lapses, SessionType, Alone, LeavesWithCookie, NothingReopens
  <2>5. NobodyEvicted'
    BY <1>17 DEF Lapses, Alone, CookieGood, NobodyEvicted
  <2> QED BY <2>1, <2>2, <2>3, <2>4, <2>5
<1>18. ASSUME SessionEnds PROVE SessionInv'
  <2>1. SessionType'
    BY <1>18 DEF SessionEnds, Cut, SessionType, RenewalStates
  <2>2. ~met' => Alone' /\ LeavesWithCookie'
    BY <1>18 DEF SessionEnds, Cut, SessionType, Alone, LeavesWithCookie
  <2>3. ~met' /\ ~ended' => CookieGood'
    BY <1>18 DEF SessionEnds, Cut, SessionType, Alone, LeavesWithCookie, CookieGood
  <2>4. ~met' /\ signedOut' => NothingReopens'
    BY <1>18 DEF SessionEnds, Cut, SessionType, Alone, LeavesWithCookie, NothingReopens
  <2>5. NobodyEvicted'
    BY <1>18 DEF SessionEnds, Cut, Alone, CookieGood, NobodyEvicted
  <2> QED BY <2>1, <2>2, <2>3, <2>4, <2>5
<1>19. CASE UNCHANGED sessionVars
  BY <1>19 DEF sessionVars, SessionType, Alone, LeavesWithCookie, CookieGood,
     NothingReopens, NobodyEvicted
<1> QED
  BY <1>1, <1>2, <1>3, <1>4, <1>5, <1>6, <1>7, <1>8, <1>9, <1>10,
     <1>11, <1>12, <1>13, <1>14, <1>15, <1>16, <1>17, <1>18, <1>19 DEF SessionsNext

\* Whatever the windows do, at any number and with any failures: nobody is
\* sent to /login while the session lasts, a session that lasts can be renewed
\* with the cookie, and once signed out the browser holds nothing that opens
\* it again, unless a renewal met another or a sign-out.
THEOREM SessionKept ==
    ASSUME NEW on, NEW done, NEW failed
    PROVE  SessionsStart(on, done, failed) /\ [][SessionsNext]_sessionVars => []SessionsKept
<1>1. SessionsStart(on, done, failed) => SessionInv
  BY DEF SessionsStart, SessionInv, SessionType, Alone, LeavesWithCookie, CookieGood,
     NobodyEvicted
<1>2. SessionInv /\ [SessionsNext]_sessionVars => SessionInv'
  BY SessionStep
<1>3. SessionInv => SessionsKept
  BY SessionsFollow
<1> QED BY <1>1, <1>2, <1>3, PTL

-----------------------------------------------------------------------------
(* The way in: account, code and pages *)

Pages == {"register", "verify", "login", "forgot", "reset", "onboard", "home", "entry"}
Ops == LookUps \cup {"signup", "resend", "verify", "signin", "oauth", "onboard", "forgot", "reset"}
Steps ==
    {"asked", "create", "code", "mail", "clear", "drop", "mark", "delete", "link", "done",
     "failed", "missing", "unverified"}
Ask == [win : Screens, op : Ops, step : Steps, nr : Nat, seen : Nat]

SignUpType ==
    /\ account \in [made : BOOLEAN, verified : BOOLEAN, linked : BOOLEAN, profile : BOOLEAN]
    /\ code \in [nr : Nat, expired : BOOLEAN]
    /\ code = NoCode \/ code.nr # 0
    /\ codes \in Nat /\ outbox \in Seq(Nat) /\ received \subseteq Nat
    /\ at \in [Screens -> Pages] /\ signedIn \in [Screens -> BOOLEAN]
    /\ asking \subseteq Ask

\* What a request under way says of the account.
AskSound(a) ==
    /\ a.op \in LookUps => a.step \in {"asked", "done", "missing", "failed"}
    /\ a.op = "guard" /\ a.step = "done" => account.profile
    /\ a.op = "guard" /\ a.step = "failed" => unguarded
    /\ a.op \in {"signup", "resend"} /\ a.step \in {"clear", "code", "mail"} => account.made
    /\ a.step = "mail" => a.seen # 0
    /\ Is(a, "verify", "delete") => account.verified

\* A page that waits for the profile has a look-up under way.
RoutesSound ==
    \A w \in Screens :
        /\ at[w] = "home" => account.profile \/ unguarded
        /\ at[w] = "entry" => \E a \in asking : a.win = w /\ a.op = "guard"
        /\ signedIn[w] => at[w] # "login"

Making(step) == {a \in asking : a.op \in {"signup", "resend"} /\ a.step = step}

\* A code is on its way to whoever waits to be verified, or will be made.
CodeComes ==
    account.made /\ ~account.verified /\ ~upset =>
        IF code = NoCode THEN Making("code") # {}
        ELSE \/ code.nr \in received
             \/ \E k \in 1..Len(outbox) : outbox[k] = code.nr
             \/ \E a \in Making("mail") : a.seen = code.nr

\* The code of who is verified is about to go.
CodeGoes ==
    account.verified /\ ~tardy /\ code # NoCode =>
        \E a \in asking : Is(a, "verify", "delete")

CodesSound == (~account.made => code = NoCode) /\ CodeComes /\ CodeGoes

SignUpInv ==
    /\ SignUpType
    /\ \A a \in asking : AskSound(a)
    /\ RoutesSound
    /\ CodesSound

\* The promises to the person follow.
LEMMA SignUpFollows ==
    ASSUME SignUpInv
    PROVE  SignUpHolds
<1>1. NothingAsked => Making("code") = {} /\ Making("mail") = {}
  BY DEF NothingAsked, Making
<1>2. CodeLives
  BY <1>1 DEF CodeLives, SignUpInv, CodesSound, CodeComes, NothingAsked
<1>3. CodeSpent
  BY DEF CodeSpent, SignUpInv, CodesSound, CodeGoes, NothingAsked
<1>4. RoutesSettle
  BY DEF RoutesSettle, SignUpInv, RoutesSound, NothingAsked
<1> QED BY <1>2, <1>3, <1>4 DEF SignUpHolds

\* Nobody lands at home directly, nor at the login form signed in.
LEMMA Landed ==
    ASSUME NEW page \in Pages \ {"entry"}, NEW on \in BOOLEAN
    PROVE  /\ Landing(page, on) \in Pages \ {"home"}
           /\ Landing(page, on) = "login" => ~on
           /\ page = "onboard" => Landing(page, on) # "entry"
<1>1. CASE page \in {"home", "login"} /\ on
  BY <1>1 DEF Landing, Pages
<1>2. CASE page \in {"home", "onboard"} /\ ~on
  BY <1>2 DEF Landing, Pages
<1>3. CASE ~(page \in {"home", "login"} /\ on) /\ ~(page \in {"home", "onboard"} /\ ~on)
  BY <1>3 DEF Landing, Pages
<1> QED BY <1>1, <1>2, <1>3

\* What a window that enters a page leaves and asks.
LEMMA Entered ==
    ASSUME at \in [Screens -> Pages], NEW w \in Screens, NEW page \in Pages \ {"entry"},
           NEW on \in BOOLEAN, NEW other, Enters(w, page, on, other)
    PROVE  /\ at' \in [Screens -> Pages] /\ \A v \in Screens \ {w} : at'[v] = at[v]
           /\ at'[w] = "home" => at[w] = "home"
           /\ at'[w] = "login" => ~on
           /\ at'[w] = "entry" => \/ at[w] = "entry" /\ asking' = other /\ page # "onboard"
                                  \/ Asks(w, "guard", 0) \in asking'
           /\ \A b \in other : b \in asking' \/ (b.win = w /\ b.op \in {"guard", "look"})
           /\ \A b \in asking' : \/ b \in other
                                 \/ b \in {Asks(w, "guard", 0), Asks(w, "look", 0)}
<1> DEFINE to == Landing(page, on)
           stays == to = at[w] \/ (to = "entry" /\ at[w] = "home" /\ signedIn[w])
           kept == {a \in other : ~(a.win = w /\ a.op \in {"guard", "look"})}
<1> HIDE DEF to
<1>1. /\ to \in Pages \ {"home"} /\ (to = "login" => ~on)
      /\ page = "onboard" => to # "entry"
  BY Landed DEF to
<1>2. CASE stays
  <2>1. at' = at /\ asking' = other
    BY <1>2 DEF Enters, to
  <2> QED BY <1>1, <1>2, <2>1 DEF Pages
<1>3. CASE ~stays
  <2>1. at' = [at EXCEPT ![w] = to]
    BY <1>3 DEF Enters, to
  <2>2. CASE to = "entry"
    <3>1. asking' = kept \cup {Asks(w, "guard", 0)}
      BY <1>3, <2>2 DEF Enters, to
    <3> QED BY <1>1, <2>1, <2>2, <3>1 DEF Pages
  <2>3. CASE to = "onboard"
    <3>1. asking' = kept \cup {Asks(w, "look", 0)}
      BY <1>3, <2>3 DEF Enters, to
    <3> QED BY <1>1, <2>1, <2>3, <3>1 DEF Pages
  <2>4. CASE to \notin {"entry", "onboard"}
    <3>1. asking' = kept
      BY <1>3, <2>4 DEF Enters, to
    <3> QED BY <1>1, <2>1, <2>4, <3>1 DEF Pages
  <2> QED BY <2>2, <2>3, <2>4
<1> QED BY <1>2, <1>3

\* A window that enters a page keeps the routes sound.
LEMMA EntersSound ==
    ASSUME SignUpInv, NEW w \in Screens, NEW page \in Pages \ {"entry"}, NEW on \in BOOLEAN,
           NEW other, Enters(w, page, on, other),
           \A b \in asking : b.op = "guard" => b \in other \/ (b.win = w /\ page = "onboard"),
           signedIn' \in [Screens -> BOOLEAN], signedIn'[w] => on,
           \A v \in Screens \ {w} : signedIn'[v] = signedIn[v],
           UNCHANGED <<account, unguarded>>
    PROVE  RoutesSound'
<1>1. at \in [Screens -> Pages]
  BY DEF SignUpInv, SignUpType
<1>2. /\ at' \in [Screens -> Pages] /\ \A v \in Screens \ {w} : at'[v] = at[v]
      /\ at'[w] = "home" => at[w] = "home"
      /\ at'[w] = "login" => ~on
      /\ at'[w] = "entry" => \/ at[w] = "entry" /\ asking' = other /\ page # "onboard"
                             \/ Asks(w, "guard", 0) \in asking'
      /\ \A b \in other : b \in asking' \/ (b.win = w /\ b.op \in {"guard", "look"})
  BY <1>1, Entered
<1>3. Asks(w, "guard", 0).win = w /\ Asks(w, "guard", 0).op = "guard"
  BY DEF Asks
<1>4. ASSUME NEW v \in Screens
      PROVE  /\ at'[v] = "home" => account'.profile \/ unguarded'
             /\ at'[v] = "entry" => \E a \in asking' : a.win = v /\ a.op = "guard"
             /\ signedIn'[v] => at'[v] # "login"
  <2>1. CASE v = w
    BY <1>2, <1>3, <2>1 DEF SignUpInv, RoutesSound
  <2>2. CASE v # w
    BY <1>2, <2>2 DEF SignUpInv, RoutesSound
  <2> QED BY <2>1, <2>2
<1> QED BY <1>4 DEF RoutesSound

\* So a page's step keeps everything that drops no work on a code.
Fresh(b) == b \in Ask /\ b.step = "asked"

LEMMA PagesKeep ==
    ASSUME SignUpInv, UNCHANGED <<accounts, signUpAux>>, RoutesSound',
           at' \in [Screens -> Pages], signedIn' \in [Screens -> BOOLEAN],
           \A b \in asking' : b \in asking \/ Fresh(b),
           \A b \in asking : b.op \in {"signup", "resend", "verify"}
                                 /\ b.step \in {"code", "mail", "delete"} => b \in asking'
    PROVE  SignUpInv'
<1>1. SignUpType'
  BY DEF SignUpInv, SignUpType, accounts, Fresh
<1>2. ASSUME NEW b \in asking' PROVE AskSound(b)'
  BY <1>2 DEF SignUpInv, AskSound, accounts, signUpAux, Fresh, Is
<1>3. (~account'.made => code' = NoCode) /\ CodeGoes'
  BY DEF SignUpInv, CodesSound, CodeGoes, accounts, signUpAux, Is
<1>4. Making("code") \subseteq Making("code")' /\ Making("mail") \subseteq Making("mail")'
  BY DEF Making
<1>5. CodeComes'
  BY <1>4 DEF SignUpInv, CodesSound, CodeComes, accounts, signUpAux
<1> QED BY <1>1, <1>2, <1>3, <1>5 DEF SignUpInv, CodesSound

LEMMA AsksFresh ==
    ASSUME NEW w \in Screens, NEW op \in Ops, NEW nr \in Nat
    PROVE  Fresh(Asks(w, op, nr)) /\ Asks(w, op, nr).win = w /\ Asks(w, op, nr).op = op
BY DEF Fresh, Asks, Ask, Steps

LEMMA SendsKeep ==
    ASSUME SignUpInv, NEW w \in Screens, NEW op \in Ops, NEW nr \in Nat, NEW page,
           Sends(w, op, nr, page)
    PROVE  SignUpInv'
<1>1. /\ UNCHANGED <<accounts, signUpAux, at, signedIn>>
      /\ asking' = asking \cup {Asks(w, op, nr)}
  BY DEF Sends, routes
<1>2. RoutesSound'
  BY <1>1 DEF SignUpInv, RoutesSound, accounts, signUpAux
<1>3. at' \in [Screens -> Pages] /\ signedIn' \in [Screens -> BOOLEAN]
  BY <1>1 DEF SignUpInv, SignUpType
<1>4. Fresh(Asks(w, op, nr))
  BY AsksFresh
<1> QED BY <1>1, <1>2, <1>3, <1>4, PagesKeep

LEMMA LeadsKeep ==
    ASSUME SignUpInv, NEW a \in asking, NEW page \in Pages \ {"entry"}, Leads(a, page), Told,
           a.step \notin {"code", "mail", "delete"}, a.op = "guard" => page = "onboard"
    PROVE  SignUpInv'
<1> DEFINE w == a.win  on == signedIn[a.win]  other == asking \ {a}
<1>1. w \in Screens /\ on \in BOOLEAN /\ at \in [Screens -> Pages]
  BY DEF SignUpInv, SignUpType, Ask
<1>2. Enters(w, page, on, other) /\ signedIn' = signedIn
  BY DEF Leads
<1>3. UNCHANGED <<accounts, signUpAux>>
  BY DEF Told
<1> HIDE DEF w, on, other
<1>4. /\ at' \in [Screens -> Pages]
      /\ \A b \in other : b \in asking' \/ (b.win = w /\ b.op \in {"guard", "look"})
      /\ \A b \in asking' : b \in other \/ b \in {Asks(w, "guard", 0), Asks(w, "look", 0)}
  BY <1>1, <1>2, Entered
<1>5. RoutesSound'
  <2>1. \A b \in asking : b.op = "guard" => b \in other \/ (b.win = w /\ page = "onboard")
    BY DEF other, w
  <2>2. signedIn' \in [Screens -> BOOLEAN] /\ (signedIn'[w] => on)
    BY <1>2 DEF SignUpInv, SignUpType, w, on
  <2>3. UNCHANGED <<account, unguarded>>
    BY <1>3 DEF accounts, signUpAux
  <2> QED BY <1>1, <1>2, <2>1, <2>2, <2>3, EntersSound
<1>6. Fresh(Asks(w, "guard", 0)) /\ Fresh(Asks(w, "look", 0))
  BY <1>1, AsksFresh DEF Ops, LookUps
<1>7. \A b \in asking' : b \in asking \/ Fresh(b)
  BY <1>4, <1>6 DEF other
<1>8. \A b \in asking : b.op \in {"signup", "resend", "verify"}
                            /\ b.step \in {"code", "mail", "delete"} => b \in asking'
  BY <1>4 DEF other
<1>9. signedIn' \in [Screens -> BOOLEAN]
  BY <1>2 DEF SignUpInv, SignUpType
<1> QED BY <1>3, <1>4, <1>5, <1>7, <1>8, <1>9, PagesKeep

LEMMA SettlesKeep ==
    ASSUME SignUpInv, NEW a \in asking, Settles(a), Told,
           a.step \notin {"code", "mail", "delete"}, a.op # "guard"
    PROVE  SignUpInv'
<1>1. UNCHANGED <<accounts, signUpAux, at, signedIn>> /\ asking' = asking \ {a}
  BY DEF Settles, Told, routes
<1>2. RoutesSound'
  BY <1>1 DEF SignUpInv, RoutesSound, accounts, signUpAux
<1>3. at' \in [Screens -> Pages] /\ signedIn' \in [Screens -> BOOLEAN]
  BY <1>1 DEF SignUpInv, SignUpType
<1> QED BY <1>1, <1>2, <1>3, PagesKeep

\* The window that is signed in asks for the profile, and leaves the form.
LEMMA SignedInKeeps ==
    ASSUME SignUpInv, NEW a \in asking, SignedInNow(a)
    PROVE  SignUpInv'
<1> DEFINE w == a.win
           next == Asks(w, IF a.op = "oauth" THEN "return" ELSE "welcome", 0)
           rest == (asking \ {a}) \cup {next}
<1>1. w \in Screens /\ at \in [Screens -> Pages] /\ signedIn \in [Screens -> BOOLEAN]
  BY DEF SignUpInv, SignUpType, Ask
<1>2. /\ a.op \in {"signin", "oauth"} /\ a.step = "done"
      /\ signedIn' = [signedIn EXCEPT ![w] = TRUE]
      /\ UNCHANGED <<accounts, signUpAux>>
  BY DEF SignedInNow, Told
<1>3. Fresh(next) /\ Fresh(Asks(w, "guard", 0)) /\ Fresh(Asks(w, "look", 0))
  BY <1>1, AsksFresh DEF Ops, LookUps
<1>4. IF at[w] = "login" THEN Enters(w, "login", TRUE, rest)
      ELSE asking' = rest /\ UNCHANGED at
  BY DEF SignedInNow
<1> HIDE DEF w, next, rest
<1>5. /\ signedIn' \in [Screens -> BOOLEAN] /\ signedIn'[w] = TRUE
      /\ \A v \in Screens \ {w} : signedIn'[v] = signedIn[v]
  BY <1>1, <1>2
<1>6. /\ \A b \in asking : b.op \notin {"signin", "oauth"} => b \in rest
      /\ \A b \in rest : b \in asking \/ Fresh(b)
  BY <1>2, <1>3 DEF rest
<1>7. CASE at[w] = "login"
  <2>1. Enters(w, "login", TRUE, rest)
    BY <1>4, <1>7
  <2>2. /\ at' \in [Screens -> Pages]
        /\ \A b \in rest : b \in asking' \/ (b.win = w /\ b.op \in {"guard", "look"})
        /\ \A b \in asking' : b \in rest \/ b \in {Asks(w, "guard", 0), Asks(w, "look", 0)}
    BY <1>1, <2>1, Entered DEF Pages
  <2>3. RoutesSound'
    <3>1. UNCHANGED <<account, unguarded>> /\ "login" \in Pages \ {"entry"}
      BY <1>2 DEF accounts, signUpAux, Pages
    <3>2. \A b \in asking : b.op = "guard" => b \in rest
      BY <1>6
    <3> QED BY <1>1, <1>5, <2>1, <3>1, <3>2, EntersSound
  <2>4. \A b \in asking' : b \in asking \/ Fresh(b)
    BY <1>3, <1>6, <2>2
  <2>5. \A b \in asking : b.op \in {"signup", "resend", "verify"}
                              /\ b.step \in {"code", "mail", "delete"} => b \in asking'
    BY <1>6, <2>2
  <2> QED BY <1>2, <1>5, <2>2, <2>3, <2>4, <2>5, PagesKeep
<1>8. CASE at[w] # "login"
  <2>1. asking' = rest /\ at' = at
    BY <1>4, <1>8
  <2>2. RoutesSound'
    BY <1>2, <1>5, <1>6, <1>8, <2>1 DEF SignUpInv, RoutesSound, accounts, signUpAux
  <2> QED BY <1>1, <1>2, <1>5, <1>6, <2>1, <2>2, PagesKeep
<1> QED BY <1>7, <1>8

\* The guard's answer lets the page show, or leads to onboarding.
LEMMA GuardKeeps ==
    ASSUME SignUpInv, NEW a \in asking, GuardAnswered(a)
    PROVE  SignUpInv'
<1>1. a.op = "guard" /\ a.step \in {"done", "missing", "failed"} /\ a.win \in Screens
  BY DEF GuardAnswered, SignUpInv, SignUpType, AskSound, LookUps, Ask
<1>2. CASE a.step = "missing"
  BY <1>1, <1>2, LeadsKeep DEF GuardAnswered, Pages
<1>3. CASE a.step # "missing"
  <2>1. /\ at' = [at EXCEPT ![a.win] = "home"] /\ asking' = asking \ {a}
        /\ signedIn' = signedIn /\ UNCHANGED <<accounts, signUpAux>>
    BY <1>3 DEF GuardAnswered, Told
  <2>2. account.profile \/ unguarded
    BY <1>1, <1>3 DEF SignUpInv, AskSound
  <2>3. at' \in [Screens -> Pages] /\ signedIn' \in [Screens -> BOOLEAN]
    BY <2>1 DEF SignUpInv, SignUpType, Pages
  <2>4. RoutesSound'
    <3>1. ASSUME NEW v \in Screens
          PROVE  /\ at'[v] = "home" => account'.profile \/ unguarded'
                 /\ at'[v] = "entry" => \E b \in asking' : b.win = v /\ b.op = "guard"
                 /\ signedIn'[v] => at'[v] # "login"
      <4>1. CASE v = a.win
        BY <2>1, <2>2, <4>1 DEF SignUpInv, SignUpType, accounts, signUpAux
      <4>2. CASE v # a.win
        BY <2>1, <4>2 DEF SignUpInv, SignUpType, RoutesSound, accounts, signUpAux
      <4> QED BY <4>1, <4>2
    <3> QED BY <3>1 DEF RoutesSound
  <2> QED BY <1>1, <2>1, <2>3, <2>4, PagesKeep
<1> QED BY <1>2, <1>3

\* Every step of a page.
LEMMA PageStep ==
    ASSUME SignUpInv,
           \/ \E w \in Screens :
                \/ Register(w) \/ Resend(w) \/ Login(w) \/ OAuthLogin(w) \/ Onboard(w)
                \/ Forgot(w) \/ ResetPassword(w)
                \/ \E nr \in received : Verify(w, nr)
                \/ \E page \in {"login", "register", "forgot", "reset", "onboard", "home"} :
                     GoTo(w, page)
           \/ \E a \in asking :
                \/ SignedUp(a) \/ VerifyAnswered(a) \/ ToldToVerify(a) \/ SignedInNow(a)
                \/ Onboarded(a) \/ GuardAnswered(a) \/ LookAnswered(a) \/ WelcomeAnswered(a)
                \/ Shown(a)
    PROVE  SignUpInv'
<1>1. ASSUME NEW w \in Screens,
             \/ Register(w) \/ Resend(w) \/ Login(w) \/ OAuthLogin(w) \/ Onboard(w)
             \/ Forgot(w) \/ ResetPassword(w)
      PROVE  SignUpInv'
  BY <1>1, SendsKeep
     DEF Register, Resend, Login, OAuthLogin, Onboard, Forgot, ResetPassword, Ops, LookUps
<1>2. ASSUME NEW w \in Screens, NEW nr \in received, Verify(w, nr) PROVE SignUpInv'
  BY <1>2, SendsKeep DEF Verify, Ops, SignUpInv, SignUpType
<1>3. ASSUME NEW w \in Screens, NEW page \in Pages \ {"entry"}, GoTo(w, page)
      PROVE  SignUpInv'
  <2>1. /\ Enters(w, page, signedIn[w], asking) /\ signedIn' = signedIn
        /\ UNCHANGED <<accounts, signUpAux>>
    BY <1>3 DEF GoTo
  <2>2. /\ at \in [Screens -> Pages] /\ signedIn \in [Screens -> BOOLEAN]
        /\ signedIn[w] \in BOOLEAN
    BY DEF SignUpInv, SignUpType
  <2>3. /\ at' \in [Screens -> Pages]
        /\ \A b \in asking : b \in asking' \/ (b.win = w /\ b.op \in {"guard", "look"})
        /\ \A b \in asking' : b \in asking \/ b \in {Asks(w, "guard", 0), Asks(w, "look", 0)}
    BY <2>1, <2>2, Entered
  <2>4. RoutesSound'
    BY <2>1, <2>2, EntersSound DEF accounts, signUpAux
  <2>5. Fresh(Asks(w, "guard", 0)) /\ Fresh(Asks(w, "look", 0))
    BY AsksFresh DEF Ops, LookUps
  <2>6. \A b \in asking' : b \in asking \/ Fresh(b)
    BY <2>3, <2>5
  <2> QED BY <2>1, <2>2, <2>3, <2>4, <2>6, PagesKeep
<1>4. ASSUME NEW a \in asking, SignedUp(a) \/ VerifyAnswered(a) \/ ToldToVerify(a)
                                   \/ Onboarded(a)
      PROVE  SignUpInv'
  BY <1>4, LeadsKeep DEF SignedUp, VerifyAnswered, ToldToVerify, Onboarded, Is, Pages
<1>5. ASSUME NEW a \in asking, LookAnswered(a) \/ WelcomeAnswered(a) PROVE SignUpInv'
  <2>1. a.op \in LookUps \ {"guard"} /\ Told /\ a.step \in {"done", "missing", "failed"}
    BY <1>5 DEF LookAnswered, WelcomeAnswered, LookUps, SignUpInv, AskSound
  <2>2. Settles(a) \/ Leads(a, "home") \/ Leads(a, "onboard")
    BY <1>5, <2>1 DEF LookAnswered, WelcomeAnswered
  <2> QED BY <2>1, <2>2, LeadsKeep, SettlesKeep DEF Pages, LookUps
<1>6. ASSUME NEW a \in asking, Shown(a) PROVE SignUpInv'
  BY <1>6, SettlesKeep DEF Shown, LookUps
<1> QED BY <1>1, <1>2, <1>3, <1>4, <1>5, <1>6, SignedInKeeps, GuardKeeps DEF Pages

\* What a step of a service does to the request it serves.
Turns(a, b) ==
    /\ asking' = (asking \ {a}) \cup {b}
    /\ b \in Ask /\ b.win = a.win /\ b.op = a.op

\* A step leaves the routes alone, and nothing is taken back.
Onward ==
    /\ UNCHANGED routes
    /\ account.made => account'.made
    /\ account.verified => account'.verified
    /\ account.profile => account'.profile
    /\ unguarded => unguarded'

LEMMA TurnsKeepsRoutes ==
    ASSUME SignUpInv, NEW a \in asking, NEW b, Turns(a, b), Onward
    PROVE  RoutesSound'
BY DEF SignUpInv, RoutesSound, Turns, Onward, routes

LEMMA TurnsKeepsSound ==
    ASSUME SignUpInv, NEW a \in asking, NEW b, Turns(a, b), Onward, AskSound(b)'
    PROVE  \A c \in asking' : AskSound(c)'
<1>1. ASSUME NEW c \in asking' PROVE AskSound(c)'
  <2>1. CASE c = b
    BY <2>1
  <2>2. CASE c \in asking
    BY <2>2 DEF SignUpInv, AskSound, Onward, Is
  <2> QED BY <1>1, <2>1, <2>2 DEF Turns
<1> QED BY <1>1

\* A step that has nothing to do with codes leaves them sound.
LEMMA TurnsKeepsCodes ==
    ASSUME SignUpInv, NEW a \in asking, NEW b, Turns(a, b),
           UNCHANGED <<code, received>>,
           account'.made = account.made, account'.verified = account.verified,
           upset => upset', tardy => tardy',
           \A k \in 1..Len(outbox) :
               k \in 1..Len(outbox)' /\ outbox'[k] = outbox[k],
           a.step \notin {"code", "mail", "delete"}
    PROVE  CodesSound'
<1>1. (~account'.made => code' = NoCode) /\ CodeGoes'
  BY DEF SignUpInv, CodesSound, CodeGoes, Turns, Is
<1>2. Making("code") \subseteq Making("code")' /\ Making("mail") \subseteq Making("mail")'
  BY DEF Making, Turns
<1>3. CodeComes'
  BY <1>2 DEF SignUpInv, CodesSound, CodeComes
<1> QED BY <1>1, <1>3 DEF CodesSound

LEMMA StepTurns ==
    ASSUME NEW a \in Ask, NEW s \in Steps \ {"mail", "delete", "code"}, Step(a, s),
           s = "clear" => account'.made,
           a.op \in LookUps => s = "missing" \/ (s = "done" /\ account'.profile)
    PROVE  \E b : Turns(a, b) /\ AskSound(b)'
<1> DEFINE b == [a EXCEPT !.step = s]
<1>1. b \in Ask /\ b.win = a.win /\ b.op = a.op /\ b.step = s
  BY DEF Ask
<1>2. asking' = (asking \ {a}) \cup {b}
  BY DEF Step
<1> HIDE DEF b
<1>3. AskSound(b)'
  BY <1>1 DEF AskSound, Is, LookUps
<1> QED BY <1>1, <1>2, <1>3 DEF Turns

\* The services' steps that find things out, and those about the profile and
\* the provider.
LEMMA QuietKeeps ==
    ASSUME SignUpInv, NEW a \in asking,
           \/ SignupFind(a) \/ ResendFind(a) \/ VerifyFind(a) \/ SigninChecks(a)
           \/ OAuthFind(a) \/ OAuthLink(a) \/ ProfileFind(a) \/ ProfileCreate(a)
           \/ ProfileLooked(a) \/ ResetChecks(a)
    PROVE  SignUpInv'
<1> USE DEF Untouched, routes, Is
<1>1. /\ UNCHANGED <<code, codes, outbox, received, at, signedIn, tardy, unguarded, upset>>
      /\ a.step \notin {"code", "mail", "delete"}
      /\ account' \in [made : BOOLEAN, verified : BOOLEAN, linked : BOOLEAN, profile : BOOLEAN]
      /\ account'.made = account.made /\ account'.verified = account.verified
      /\ account.profile => account'.profile
  BY DEF SignupFind, ResendFind, VerifyFind, SigninChecks, OAuthFind, OAuthLink,
     ProfileFind,
     ProfileCreate, ProfileLooked, ResetChecks, accounts, SignUpInv, SignUpType
<1>2. a \in Ask /\ code.nr \in Nat
  BY DEF SignUpInv, SignUpType
<1>3. \E b : Turns(a, b) /\ AskSound(b)'
  <2>1. CASE VerifyFind(a)
    <3>1. PICK s \in {"failed", "drop", "mark"} :
            asking' = (asking \ {a}) \cup {[a EXCEPT !.seen = code.nr, !.step = s]}
      BY <2>1 DEF VerifyFind
    <3>2. PICK b : b = [a EXCEPT !.seen = code.nr, !.step = s]
      OBVIOUS
    <3>3. b \in Ask /\ b.win = a.win /\ b.op = a.op /\ b.step = s
      BY <1>2, <3>2 DEF Ask, Steps
    <3>4. a.op = "verify"
      BY <2>1 DEF VerifyFind
    <3> QED BY <3>1, <3>3, <3>4, <3>2 DEF Turns, AskSound, LookUps
  <2>2. CASE ResendFind(a)
    <3>1. PICK s \in {"failed", "clear"} : Step(a, s) /\ (s = "clear" => account.made)
      BY <2>2 DEF ResendFind
    <3> QED BY <1>1, <1>2, <2>2, <3>1, StepTurns DEF ResendFind, Steps, LookUps
  <2>3. CASE ProfileLooked(a)
    <3>1. PICK s \in {"done", "missing"} : Step(a, s) /\ (s = "done" => account'.profile)
      BY <1>1, <2>3 DEF ProfileLooked
    <3> QED BY <1>2, <3>1, StepTurns DEF Steps
  <2>4. CASE ~(VerifyFind(a) \/ ResendFind(a) \/ ProfileLooked(a))
    <3>1. PICK s \in {"failed", "create", "done", "unverified", "link"} : Step(a, s)
      BY <2>4 DEF SignupFind, SigninChecks, OAuthFind, OAuthLink, ProfileFind,
         ProfileCreate,
         ResetChecks
    <3>2. a.op \notin LookUps
      BY <2>4 DEF SignupFind, SigninChecks, OAuthFind, OAuthLink, ProfileFind,
         ProfileCreate,
         ResetChecks, LookUps
    <3> QED BY <1>2, <3>1, <3>2, StepTurns DEF Steps
  <2> QED BY <2>1, <2>2, <2>3, <2>4
<1>4. Onward
  BY <1>1 DEF Onward
<1>5. SignUpType'
  BY <1>1, <1>3 DEF SignUpInv, SignUpType, Turns
<1> QED BY <1>1, <1>3, <1>4, <1>5, TurnsKeepsRoutes, TurnsKeepsSound, TurnsKeepsCodes
        DEF SignUpInv

LEMMA ForgotKeeps ==
    ASSUME SignUpInv, NEW a \in asking, ForgotChecks(a)
    PROVE  SignUpInv'
<1> USE DEF Untouched, routes, Is
<1>1. /\ UNCHANGED <<account, code, codes, received, at, signedIn, tardy, unguarded, upset>>
      /\ a.step = "asked" /\ a.op = "forgot" /\ Step(a, "done")
  BY DEF ForgotChecks
<1>2. a \in Ask /\ outbox \in Seq(Nat) /\ ResetLink \in Nat
  BY DEF SignUpInv, SignUpType, ResetLink
<1>3. /\ outbox' \in Seq(Nat)
      /\ \A k \in 1..Len(outbox) : k \in 1..Len(outbox)' /\ outbox'[k] = outbox[k]
  <2>1. outbox' = Append(outbox, ResetLink) \/ outbox' = outbox
    BY DEF ForgotChecks
  <2> QED BY <1>2, <2>1
<1>4. PICK b : Turns(a, b) /\ AskSound(b)'
  BY <1>1, <1>2, StepTurns DEF Steps, LookUps
<1>5. Onward
  BY <1>1 DEF Onward
<1>6. SignUpType'
  BY <1>1, <1>3, <1>4 DEF SignUpInv, SignUpType, Turns
<1> QED BY <1>1, <1>3, <1>4, <1>5, <1>6, TurnsKeepsRoutes, TurnsKeepsSound, TurnsKeepsCodes
        DEF SignUpInv

\* A code there is, or work on one, tells that the account is made.
LEMMA CreateKeeps ==
    ASSUME SignUpInv, NEW a \in asking, SignupCreate(a) \/ OAuthCreate(a)
    PROVE  SignUpInv'
<1> USE DEF Untouched, routes, Is
<1>1. /\ UNCHANGED <<code, codes, outbox, received, at, signedIn, tardy, unguarded, upset>>
      /\ a.step = "create" /\ a.op \in {"signup", "oauth"}
  BY DEF SignupCreate, OAuthCreate
<1>2. /\ a \in Ask
      /\ account \in [made : BOOLEAN, verified : BOOLEAN, linked : BOOLEAN, profile : BOOLEAN]
  BY DEF SignUpInv, SignUpType
<1>3. /\ account' \in [made : BOOLEAN, verified : BOOLEAN, linked : BOOLEAN, profile : BOOLEAN]
      /\ account'.made /\ account'.profile = account.profile
      /\ account'.verified = account.verified \/ ~account.made
      /\ account.verified => account'.verified
  BY <1>2 DEF SignupCreate, OAuthCreate
<1>4. PICK s \in {"failed", "code", "done"} :
        /\ Step(a, s)
        /\ s = "code" <=> a.op = "signup" /\ ~account.made
  BY DEF SignupCreate, OAuthCreate
<1>5. PICK b : b = [a EXCEPT !.step = s]
  OBVIOUS
<1>6. b \in Ask /\ b.win = a.win /\ b.op = a.op /\ b.step = s
  BY <1>2, <1>5 DEF Ask, Steps
<1>7. Turns(a, b)
  BY <1>4, <1>5, <1>6 DEF Turns, Step
<1>8. AskSound(b)'
  BY <1>1, <1>3, <1>6 DEF AskSound, LookUps
<1>9. Onward
  BY <1>1, <1>3 DEF Onward
<1>10. SignUpType'
  BY <1>1, <1>3, <1>7 DEF SignUpInv, SignUpType, Turns
<1>11. CodesSound'
  <2>1. CASE account.made
    <3>1. account'.made = account.made /\ account'.verified = account.verified
      BY <1>2, <1>3, <2>1 DEF SignupCreate, OAuthCreate
    <3> QED BY <1>1, <1>7, <3>1, TurnsKeepsCodes
  <2>2. CASE ~account.made
    <3>1. code' = NoCode
      BY <1>1, <2>2 DEF SignUpInv, CodesSound
    <3>2. CASE a.op = "signup"
      <4>1. b \in Making("code")'
        BY <1>4, <1>6, <1>7, <2>2, <3>2 DEF Making, Turns
      <4> QED BY <3>1, <4>1 DEF CodesSound, CodeComes, CodeGoes
    <3>3. CASE a.op = "oauth"
      <4>1. account'.verified
        BY <1>2, <2>2, <3>3 DEF SignupCreate, OAuthCreate
      <4> QED BY <3>1, <4>1 DEF CodesSound, CodeComes, CodeGoes
    <3> QED BY <1>1, <3>2, <3>3
  <2> QED BY <2>1, <2>2
<1> QED BY <1>7, <1>8, <1>9, <1>10, <1>11, TurnsKeepsRoutes, TurnsKeepsSound DEF SignUpInv

LEMMA MakeKeeps ==
    ASSUME SignUpInv, NEW a \in asking, MakeCode(a)
    PROVE  SignUpInv'
<1> USE DEF Untouched, routes, Is
<1>1. /\ UNCHANGED <<account, outbox, received, at, signedIn, unguarded, upset>>
      /\ a.op \in {"signup", "resend"} /\ a.step = "code"
  BY DEF MakeCode
<1>2. a \in Ask /\ codes \in Nat /\ account.made
  BY <1>1 DEF SignUpInv, SignUpType, AskSound
<1>3. Onward
  BY <1>1 DEF Onward
<1>4. CASE code # NoCode
  <2>1. UNCHANGED <<code, codes, tardy>> /\ Step(a, "failed")
    BY <1>4 DEF MakeCode
  <2>2. PICK b : Turns(a, b) /\ AskSound(b)'
    BY <1>1, <1>2, <2>1, StepTurns DEF Steps, LookUps
  <2>3. SignUpType'
    BY <1>1, <2>1, <2>2 DEF SignUpInv, SignUpType, Turns
  <2>4. CodesSound'
    <3>1. CodeGoes' /\ (~account'.made => code' = NoCode)
      BY <1>1, <2>1, <2>2 DEF SignUpInv, CodesSound, CodeGoes, Turns
    <3>2. Making("mail") \subseteq Making("mail")'
      BY <1>1, <2>2 DEF Making, Turns
    <3>3. CodeComes'
      BY <1>1, <1>4, <2>1, <3>2 DEF SignUpInv, CodesSound, CodeComes
    <3> QED BY <3>1, <3>3 DEF CodesSound
  <2> QED BY <1>3, <2>2, <2>3, <2>4, TurnsKeepsRoutes, TurnsKeepsSound DEF SignUpInv
<1>5. CASE code = NoCode
  <2>1. PICK n : n = codes + 1
    OBVIOUS
  <2>2. PICK b : b = [a EXCEPT !.step = "mail", !.seen = n]
    OBVIOUS
  <2>3. /\ codes' = n /\ code' = [nr |-> n, expired |-> FALSE]
        /\ tardy' = (tardy \/ account.verified)
        /\ asking' = (asking \ {a}) \cup {b}
    BY <1>5, <2>1, <2>2 DEF MakeCode
  <2>4. n \in Nat \ {0}
    BY <1>2, <2>1
  <2>5. b \in Ask /\ b.win = a.win /\ b.op = a.op /\ b.step = "mail" /\ b.seen = n
    BY <1>2, <2>2, <2>4 DEF Ask, Steps
  <2>6. Turns(a, b) /\ AskSound(b)'
    BY <1>1, <1>2, <2>3, <2>4, <2>5 DEF Turns, AskSound, LookUps
  <2>7. SignUpType'
    BY <1>1, <2>3, <2>4, <2>6 DEF SignUpInv, SignUpType, Turns
  <2>8. CodesSound'
    <3>1. b \in Making("mail")'
      BY <1>1, <2>3, <2>5 DEF Making
    <3>2. CodeComes'
      BY <2>3, <2>4, <2>5, <3>1 DEF CodeComes, NoCode
    <3>3. CodeGoes' /\ account'.made
      BY <1>1, <1>2, <2>3 DEF CodeGoes
    <3> QED BY <3>2, <3>3 DEF CodesSound
  <2> QED BY <1>3, <2>6, <2>7, <2>8, TurnsKeepsRoutes, TurnsKeepsSound DEF SignUpInv
<1> QED BY <1>4, <1>5

LEMMA MailKeeps ==
    ASSUME SignUpInv, NEW a \in asking, MailCode(a)
    PROVE  SignUpInv'
<1> USE DEF Untouched, routes, Is
<1>1. /\ UNCHANGED <<account, code, codes, received, at, signedIn, unguarded, tardy>>
      /\ a.op \in {"signup", "resend"} /\ a.step = "mail" /\ Step(a, "done")
      /\ outbox' = Append(outbox, a.seen)
      /\ upset' = (upset /\ code.nr # a.seen)
  BY DEF MailCode
<1>2. /\ a \in Ask /\ a.seen \in Nat \ {0} /\ account.made
      /\ outbox \in Seq(Nat) /\ code \in [nr : Nat, expired : BOOLEAN]
  BY <1>1 DEF SignUpInv, SignUpType, AskSound, Ask
<1>3. Onward
  BY <1>1 DEF Onward
<1>4. PICK b : Turns(a, b) /\ AskSound(b)'
  BY <1>1, <1>2, StepTurns DEF Steps, LookUps
<1>5. /\ outbox' \in Seq(Nat)
      /\ \A k \in 1..Len(outbox) : k \in 1..Len(outbox)' /\ outbox'[k] = outbox[k]
      /\ Len(outbox) + 1 \in 1..Len(outbox)' /\ outbox'[Len(outbox) + 1] = a.seen
  BY <1>1, <1>2
<1>6. SignUpType'
  BY <1>1, <1>4, <1>5 DEF SignUpInv, SignUpType, Turns
<1>7. CodesSound'
  <2>1. CodeGoes' /\ (~account'.made => code' = NoCode)
    BY <1>1, <1>4 DEF SignUpInv, CodesSound, CodeGoes, Turns
  <2>2. CodeComes'
    <3>1. CASE code.nr = a.seen
      <4>1. code # NoCode
        BY <1>2, <3>1 DEF NoCode
      <4> QED BY <1>1, <1>5, <3>1, <4>1 DEF CodeComes
    <3>2. CASE code.nr # a.seen
      <4>1. upset => upset'
        BY <1>1, <3>2
      <4>2. Making("code") \subseteq Making("code")'
        BY <1>1, <1>4 DEF Making, Turns
      <4>3. \A c \in Making("mail") : c.seen = code.nr => c \in Making("mail")'
        BY <1>4, <3>2 DEF Making, Turns
      <4> QED BY <1>1, <1>5, <4>1, <4>2, <4>3 DEF SignUpInv, CodesSound, CodeComes
    <3> QED BY <3>1, <3>2
  <2> QED BY <2>1, <2>2 DEF CodesSound
<1> QED BY <1>3, <1>4, <1>6, <1>7, TurnsKeepsRoutes, TurnsKeepsSound DEF SignUpInv

\* The steps that delete the code.
LEMMA DeletionsKeep ==
    ASSUME SignUpInv, NEW a \in asking, ResendClears(a) \/ DropExpired(a) \/ SpendCode(a)
    PROVE  SignUpInv'
<1> USE DEF Untouched, routes, Is
<1>1. /\ UNCHANGED <<account, codes, outbox, received, at, signedIn, unguarded, tardy>>
      /\ code' = NoCode
  BY DEF ResendClears, DropExpired, SpendCode
<1>2. a \in Ask
  BY DEF SignUpInv, SignUpType
<1>3. Onward
  BY <1>1 DEF Onward
<1>4. PICK b : /\ Turns(a, b) /\ AskSound(b)'
               /\ ResendClears(a) => b.step = "code"
  <2>1. CASE ResendClears(a)
    <3>1. PICK b : b = [a EXCEPT !.step = "code"]
      OBVIOUS
    <3>2. asking' = (asking \ {a}) \cup {b}
      BY <2>1, <3>1 DEF ResendClears, Step
    <3>3. b \in Ask /\ b.win = a.win /\ b.op = a.op /\ b.step = "code"
      BY <1>2, <3>1 DEF Ask, Steps
    <3>4. account.made /\ a.op = "resend"
      BY <2>1 DEF ResendClears, SignUpInv, AskSound
    <3> QED BY <1>1, <3>2, <3>3, <3>4 DEF Turns, AskSound, LookUps
  <2>2. CASE DropExpired(a) \/ SpendCode(a)
    <3>1. PICK s \in {"failed", "done"} : Step(a, s) /\ a.op = "verify"
      BY <2>2 DEF DropExpired, SpendCode
    <3>2. ~ResendClears(a)
      BY <3>1 DEF ResendClears
    <3>3. \E b : Turns(a, b) /\ AskSound(b)'
      BY <1>2, <3>1, StepTurns DEF Steps, LookUps
    <3> QED BY <3>2, <3>3
  <2> QED BY <2>1, <2>2
<1>5. NoCode \in [nr : Nat, expired : BOOLEAN]
  BY DEF NoCode
<1>6. SignUpType'
  BY <1>1, <1>4, <1>5 DEF SignUpInv, SignUpType, Turns
<1>7. CodeComes'
  <2>1. CASE ResendClears(a)
    <3>1. b \in Making("code")'
      BY <1>4, <2>1 DEF ResendClears, Making, Turns
    <3> QED BY <1>1, <3>1 DEF CodeComes
  <2>2. CASE DropExpired(a)
    BY <2>2 DEF DropExpired, CodeComes
  <2>3. CASE SpendCode(a)
    BY <1>1, <2>3 DEF SpendCode, SignUpInv, AskSound, CodeComes
  <2> QED BY <2>1, <2>2, <2>3
<1>8. CodesSound'
  BY <1>1, <1>7 DEF CodesSound, CodeGoes
<1> QED BY <1>3, <1>4, <1>6, <1>8, TurnsKeepsRoutes, TurnsKeepsSound DEF SignUpInv

LEMMA MarkKeeps ==
    ASSUME SignUpInv, NEW a \in asking, MarkVerified(a)
    PROVE  SignUpInv'
<1> USE DEF Untouched, routes, Is
<1>1. /\ UNCHANGED <<code, codes, outbox, received, at, signedIn, unguarded, tardy, upset>>
      /\ account' = [account EXCEPT !.verified = TRUE] /\ a.op = "verify"
  BY DEF MarkVerified
<1>2. /\ a \in Ask
      /\ account \in [made : BOOLEAN, verified : BOOLEAN, linked : BOOLEAN, profile : BOOLEAN]
  BY DEF SignUpInv, SignUpType
<1>3. /\ account' \in [made : BOOLEAN, verified : BOOLEAN, linked : BOOLEAN, profile : BOOLEAN]
      /\ account'.verified /\ account'.made = account.made
      /\ account'.profile = account.profile
  BY <1>1, <1>2
<1>4. Onward
  BY <1>1, <1>3 DEF Onward
<1>5. PICK b : b = [a EXCEPT !.step = "delete"]
  OBVIOUS
<1>6. b \in Ask /\ b.win = a.win /\ b.op = a.op /\ b.step = "delete"
  BY <1>2, <1>5 DEF Ask, Steps
<1>7. Turns(a, b)
  BY <1>5, <1>6 DEF MarkVerified, Step, Turns
<1>8. AskSound(b)'
  BY <1>1, <1>3, <1>6 DEF AskSound, LookUps
<1>9. SignUpType'
  BY <1>1, <1>3, <1>7 DEF SignUpInv, SignUpType, Turns
<1>10. CodesSound'
  <2>1. b \in asking' /\ Is(b, "verify", "delete")
    BY <1>1, <1>6, <1>7 DEF Turns
  <2> QED BY <1>1, <1>3, <2>1 DEF SignUpInv, CodesSound, CodeComes, CodeGoes
<1> QED BY <1>4, <1>7, <1>8, <1>9, <1>10, TurnsKeepsRoutes, TurnsKeepsSound DEF SignUpInv

LEMMA FailureKeeps ==
    ASSUME SignUpInv, NEW a \in asking, RequestFails(a)
    PROVE  SignUpInv'
<1> USE DEF routes, Is
<1>1. /\ UNCHANGED <<account, code, codes, outbox, received, at, signedIn>>
      /\ upset' = (upset \/ a.op \in {"signup", "resend"})
      /\ tardy' = (tardy \/ a.op = "verify")
      /\ unguarded' = (unguarded \/ a.op \in LookUps)
      /\ Step(a, "failed")
  BY DEF RequestFails, accounts
<1>2. a \in Ask
  BY DEF SignUpInv, SignUpType
<1>3. Onward
  BY <1>1 DEF Onward
<1>4. PICK b : b = [a EXCEPT !.step = "failed"]
  OBVIOUS
<1>5. b \in Ask /\ b.win = a.win /\ b.op = a.op /\ b.step = "failed"
  BY <1>2, <1>4 DEF Ask, Steps
<1>6. Turns(a, b)
  BY <1>1, <1>4, <1>5 DEF Step, Turns
<1>7. AskSound(b)'
  BY <1>1, <1>5 DEF AskSound, LookUps
<1>8. SignUpType'
  BY <1>1, <1>6 DEF SignUpInv, SignUpType, Turns
<1>9. CodeGoes' /\ (~account'.made => code' = NoCode)
  BY <1>1, <1>6 DEF SignUpInv, CodesSound, CodeGoes, Turns
<1>10. CodeComes'
  <2>1. a.op \notin {"signup", "resend"} =>
            /\ Making("code") \subseteq Making("code")'
            /\ Making("mail") \subseteq Making("mail")'
    BY <1>6 DEF Making, Turns
  <2> QED BY <1>1, <2>1 DEF SignUpInv, CodesSound, CodeComes
<1> QED BY <1>3, <1>6, <1>7, <1>8, <1>9, <1>10, TurnsKeepsRoutes, TurnsKeepsSound
        DEF SignUpInv, CodesSound

\* The mail, and the clock.
LEMMA MailingKeeps ==
    ASSUME SignUpInv, Mailed \/ MailLost \/ CodeExpires
    PROVE  SignUpInv'
<1> USE DEF routes, signUpAux, Is
<1>1. UNCHANGED <<account, codes, at, signedIn, asking, tardy, unguarded>>
  BY DEF Mailed, MailLost, CodeExpires
<1>2. outbox \in Seq(Nat) /\ received \subseteq Nat /\ code \in [nr : Nat, expired : BOOLEAN]
  BY DEF SignUpInv, SignUpType
<1>3. RoutesSound' /\ \A a \in asking' : AskSound(a)'
  BY <1>1 DEF SignUpInv, RoutesSound, AskSound
<1>4. Making("code")' = Making("code") /\ Making("mail")' = Making("mail")
  BY <1>1 DEF Making
<1>5. CASE Mailed \/ MailLost
  <2>1. /\ outbox # <<>> /\ outbox' = Tail(outbox) /\ code' = code
        /\ upset => upset'
        /\ received' = received \cup {Head(outbox)}
             \/ (received' = received /\ (Head(outbox) # ResetLink => upset'))
    <3>1. CASE Mailed
      BY <3>1 DEF Mailed
    <3>2. CASE MailLost
      <4>1. /\ outbox # <<>> /\ outbox' = Tail(outbox) /\ UNCHANGED <<code, received>>
            /\ upset' = (upset \/ Head(outbox) # ResetLink)
        BY <3>2, Zenon DEF MailLost
      <4> QED BY <4>1
    <3> QED BY <1>5, <3>1, <3>2
  <2>2. /\ Head(outbox) = outbox[1] /\ Head(outbox) \in Nat /\ outbox' \in Seq(Nat)
        /\ \A k \in 1..Len(outbox) :
               k = 1 \/ (k - 1 \in 1..Len(outbox)' /\ outbox'[k - 1] = outbox[k])
    BY <1>2, <2>1
  <2>3. SignUpType'
    BY <1>1, <1>2, <2>1, <2>2 DEF SignUpInv, SignUpType
  <2>4. CodeComes'
    <3>1. code = NoCode \/ code.nr # ResetLink
      BY DEF SignUpInv, SignUpType, ResetLink
    <3>2. \/ upset' \/ code = NoCode
          \/ (\E k \in 1..Len(outbox) : outbox[k] = code.nr) =>
                 \/ code.nr \in received'
                 \/ \E k \in 1..Len(outbox)' : outbox'[k] = code.nr
      BY <2>1, <2>2, <3>1
    <3>3. received \subseteq received'
      BY <2>1
    <3> QED BY <1>1, <1>4, <2>1, <3>2, <3>3 DEF SignUpInv, CodesSound, CodeComes
  <2>5. CodeGoes' /\ (~account'.made => code' = NoCode)
    BY <1>1, <2>1 DEF SignUpInv, CodesSound, CodeGoes
  <2> QED BY <1>3, <2>3, <2>4, <2>5 DEF SignUpInv, CodesSound
<1>6. CASE CodeExpires
  <2>1. /\ code # NoCode /\ code' = [code EXCEPT !.expired = TRUE]
        /\ UNCHANGED <<outbox, received, upset>>
    BY <1>6 DEF CodeExpires
  <2>2. /\ code' \in [nr : Nat, expired : BOOLEAN] /\ code'.nr = code.nr /\ code'.nr # 0
        /\ code' # NoCode
    BY <1>2, <2>1 DEF SignUpInv, SignUpType, NoCode
  <2>3. SignUpType'
    BY <1>1, <2>1, <2>2 DEF SignUpInv, SignUpType
  <2>4. CodesSound'
    BY <1>1, <1>4, <2>1, <2>2 DEF SignUpInv, CodesSound, CodeComes, CodeGoes
  <2> QED BY <1>3, <2>3, <2>4 DEF SignUpInv
<1> QED BY <1>5, <1>6

\* Every step keeps the invariant.
LEMMA SignUpStep ==
    ASSUME SignUpInv, [SignUpNext]_signUpVars
    PROVE  SignUpInv'
<1>1. CASE UNCHANGED signUpVars
  BY <1>1 DEF signUpVars, accounts, routes, signUpAux, SignUpInv, SignUpType, AskSound,
     RoutesSound, CodesSound, CodeComes, CodeGoes, Making, Is
<1>2. CASE SignUpNext
  BY <1>2, PageStep, QuietKeeps, ForgotKeeps, CreateKeeps, MakeKeeps, MailKeeps,
     DeletionsKeep, MarkKeeps, FailureKeeps, MailingKeeps DEF SignUpNext
<1> QED BY <1>1, <1>2

\* Whoever signs up, in any number of windows and with any failures: an
\* account that waits to be verified has a code that was mailed or is being
\* mailed, unless a failure or a crossing lost it; one that is verified has no
\* code left, unless one was made too late; and no window is left loading or
\* signed in before the login form, nor at home without a profile, unless that
\* could not be looked up.
THEOREM SignUpKept ==
    ASSUME NEW verified \in BOOLEAN, NEW done, NEW failed
    PROVE  SignUpStart(verified, done, failed) /\ [][SignUpNext]_signUpVars => []SignUpHolds
<1>1. SignUpStart(verified, done, failed) => SignUpInv
  BY DEF SignUpStart, SignUpInv, SignUpType, AskSound, RoutesSound, CodesSound, CodeComes,
     CodeGoes, Making, NoCode, Pages
<1>2. SignUpInv /\ [SignUpNext]_signUpVars => SignUpInv'
  BY SignUpStep
<1>3. SignUpInv => SignUpHolds
  BY SignUpFollows
<1> QED BY <1>1, <1>2, <1>3, PTL

-----------------------------------------------------------------------------
(* Calls: what is under way between the tabs *)

Invitation == [from : People, to : SUBSET People, group : BOOLEAN]
Over == {"ended", "rejected"}
Signal == [type : Over \cup {"incoming"}, call : Meetings, all : BOOLEAN]
Broadcast == [type : {"cleared", "started", "ended"}, call : Meetings]
MaybeCall == Meetings \cup {NoMeeting}

CallsType ==
    /\ calls \in [Meetings -> {<<>>} \cup Invitation]
    /\ incoming \in [Tabs -> MaybeCall]
    /\ session \in [Tabs -> MaybeCall]
    /\ elsewhere \in [Tabs -> MaybeCall]
    /\ open \subseteq Tabs /\ onCall \subseteq open
    /\ requests \subseteq [tab : open, to : SUBSET People, call : MaybeCall]
    /\ sdk \in [Tabs -> {"out", "joining", "in", "leaving", "left"}]
    /\ saw \subseteq Tabs /\ gone \subseteq Tabs
    /\ wire \in [Tabs -> Seq(Signal)]
    /\ news \in [Tabs -> Seq(Broadcast)]
    /\ finished \subseteq Meetings

\* What a queue holds, whatever the order, and whether some of it, of one
\* of these kinds, is about the call.
Held(s) == {s[i] : i \in 1..Len(s)}
Tells(s, types, m) == \E e \in Held(s) : e.type \in types /\ e.call = m

\* An event put at the end is held with the others.
LEMMA HeldAppend ==
    ASSUME NEW R, NEW s \in Seq(R), NEW e \in R
    PROVE  Append(s, e) \in Seq(R) /\ Held(Append(s, e)) = Held(s) \cup {e}
<1>1. /\ Append(s, e) \in Seq(R) /\ Len(Append(s, e)) = Len(s) + 1 /\ Len(s) \in Nat
      /\ \A i \in 1..Len(s) : Append(s, e)[i] = s[i]
      /\ Append(s, e)[Len(s) + 1] = e
  OBVIOUS
<1>2. 1..(Len(s) + 1) = 1..Len(s) \cup {Len(s) + 1}
  BY <1>1
<1> QED BY <1>1, <1>2, Zenon DEF Held

\* So are the events of a queue put behind another.
LEMMA HeldBoth ==
    ASSUME NEW R, NEW s \in Seq(R), NEW r \in Seq(R)
    PROVE  s \o r \in Seq(R) /\ Held(s \o r) = Held(s) \cup Held(r)
<1>1. /\ s \o r \in Seq(R) /\ Len(s \o r) = Len(s) + Len(r) /\ Len(s) \in Nat /\ Len(r) \in Nat
      /\ \A i \in 1..Len(s) : (s \o r)[i] = s[i]
      /\ \A i \in 1..Len(r) : (s \o r)[Len(s) + i] = r[i]
  OBVIOUS
<1>2. ASSUME NEW e \in Held(s \o r) PROVE e \in Held(s) \cup Held(r)
  <2>1. PICK i \in 1..(Len(s) + Len(r)) : e = (s \o r)[i]
    BY <1>1, <1>2 DEF Held
  <2>2. CASE i <= Len(s)
    BY <1>1, <2>1, <2>2 DEF Held
  <2>3. CASE i > Len(s)
    <3>1. i - Len(s) \in 1..Len(r) /\ Len(s) + (i - Len(s)) = i
      BY <1>1, <2>1, <2>3
    <3> QED BY <1>1, <2>1, <3>1 DEF Held
  <2> QED BY <1>1, <2>1, <2>2, <2>3
<1>3. Held(s) \subseteq Held(s \o r)
  <2>1. 1..Len(s) \subseteq 1..Len(s \o r)
    BY <1>1
  <2> QED BY <1>1, <2>1, Zenon DEF Held
<1>4. ASSUME NEW e \in Held(r) PROVE e \in Held(s \o r)
  <2>1. PICK i \in 1..Len(r) : e = r[i]
    BY <1>4 DEF Held
  <2>2. Len(s) + i \in 1..Len(s \o r)
    BY <1>1, <2>1
  <2> QED BY <1>1, <2>1, <2>2 DEF Held
<1> QED BY <1>1, <1>2, <1>3, <1>4

\* Taking the first event leaves the others.
LEMMA HeldTail ==
    ASSUME NEW R, NEW s \in Seq(R), s # <<>>
    PROVE  /\ Tail(s) \in Seq(R) /\ Head(s) \in R
           /\ Held(s) = Held(Tail(s)) \cup {Head(s)}
<1>1. /\ Tail(s) \in Seq(R) /\ Head(s) \in R /\ Head(s) = s[1]
      /\ Len(s) \in Nat \ {0} /\ Len(Tail(s)) = Len(s) - 1
      /\ \A i \in 1..Len(Tail(s)) : Tail(s)[i] = s[i + 1]
  OBVIOUS
<1>2. ASSUME NEW e \in Held(s), e # Head(s) PROVE e \in Held(Tail(s))
  <2>1. PICK i \in 1..Len(s) : e = s[i]
    BY <1>2 DEF Held
  <2>2. i - 1 \in 1..Len(Tail(s)) /\ (i - 1) + 1 = i
    BY <1>1, <1>2, <2>1
  <2> QED BY <1>1, <2>1, <2>2 DEF Held
<1>3. ASSUME NEW e \in Held(Tail(s)) PROVE e \in Held(s)
  <2>1. PICK i \in 1..Len(Tail(s)) : e = Tail(s)[i]
    BY <1>3 DEF Held
  <2>2. i + 1 \in 1..Len(s)
    BY <1>1, <2>1
  <2> QED BY <1>1, <2>1, <2>2 DEF Held
<1>4. Head(s) \in Held(s)
  <2>1. 1 \in 1..Len(s)
    BY <1>1
  <2> QED BY <1>1, <2>1 DEF Held
<1> QED BY <1>1, <1>2, <1>3, <1>4

\* A queue holds events of its type; the empty queue holds none.
LEMMA HeldType ==
    ASSUME NEW R, NEW s \in Seq(R)
    PROVE  Held(s) \subseteq R /\ (s = <<>> => Held(s) = {})
BY DEF Held

\* What is on the wires and broadcast has its type.
LEMMA HeldTyped ==
    ASSUME CallsType, NEW t \in Tabs
    PROVE  /\ \A e \in Held(wire[t]) :
                e.type \in Over \cup {"incoming"} /\ e.call \in Meetings /\ e \in Signal
           /\ \A e \in Held(news[t]) :
                e.type \in {"cleared", "started", "ended"} /\ e.call \in Meetings
<1>1. wire[t] \in Seq(Signal) /\ news[t] \in Seq(Broadcast)
  BY DEF CallsType
<1>2. Held(wire[t]) \subseteq Signal /\ Held(news[t]) \subseteq Broadcast
  BY <1>1, HeldType
<1> QED BY <1>2 DEF Signal, Broadcast

\* A signal put on the wires of some tabs.
LEMMA SignalHeld ==
    ASSUME CallsType, NEW S, NEW e \in Signal,
           wire' = [t \in Tabs |-> IF t \in S THEN Append(wire[t], e) ELSE wire[t]]
    PROVE  /\ wire' \in [Tabs -> Seq(Signal)]
           /\ \A t \in Tabs : Held(wire'[t]) =
                IF t \in S THEN Held(wire[t]) \cup {e} ELSE Held(wire[t])
<1>3. \A t \in Tabs : wire[t] \in Seq(Signal)
  BY DEF CallsType
<1>4. \A t \in Tabs : /\ Append(wire[t], e) \in Seq(Signal)
                      /\ Held(Append(wire[t], e)) = Held(wire[t]) \cup {e}
  BY <1>3, HeldAppend
<1>5. wire' \in [Tabs -> Seq(Signal)]
  BY <1>3, <1>4
<1>6. \A t \in Tabs : wire'[t] = IF t \in S THEN Append(wire[t], e) ELSE wire[t]
  OBVIOUS
<1>7. ASSUME NEW t \in Tabs
      PROVE  Held(wire'[t]) = IF t \in S THEN Held(wire[t]) \cup {e} ELSE Held(wire[t])
  BY <1>4, <1>6, Zenon
<1> QED BY <1>5, <1>7

\* A signal reaches the open tabs of the users named, and nobody else.
LEMMA RelayHeld ==
    ASSUME CallsType, NEW who, NEW type \in Over \cup {"incoming"}, NEW m \in Meetings,
           NEW all \in BOOLEAN, Relay(who, type, m, all)
    PROVE  /\ wire' \in [Tabs -> Seq(Signal)]
           /\ \A t \in Tabs : Held(wire'[t]) =
                IF t \in TabsOf(who) THEN Held(wire[t]) \cup {[type |-> type, call |-> m, all |-> all]}
                ELSE Held(wire[t])
<1> DEFINE e == [type |-> type, call |-> m, all |-> all]
<1>1. e \in Signal
  BY DEF Signal
<1>2. wire' = [t \in Tabs |-> IF t \in TabsOf(who) THEN Append(wire[t], e) ELSE wire[t]]
  BY DEF Relay
<1> HIDE DEF e
<1>3. /\ wire' \in [Tabs -> Seq(Signal)]
      /\ \A t \in Tabs : Held(wire'[t]) =
           IF t \in TabsOf(who) THEN Held(wire[t]) \cup {e} ELSE Held(wire[t])
  BY <1>1, <1>2, SignalHeld
<1> QED BY <1>3 DEF e

\* A broadcast reaches the other open tabs of the user.
LEMMA AnnounceHeld ==
    ASSUME CallsType, NEW u \in Tabs, NEW m \in Meetings,
           NEW types \in Seq({"cleared", "started", "ended"}), Announce(u, types, m)
    PROVE  /\ news' \in [Tabs -> Seq(Broadcast)]
           /\ \A t \in Tabs : Held(news'[t]) =
                IF t \in Siblings(u)
                THEN Held(news[t]) \cup {[type |-> types[i], call |-> m] : i \in 1..Len(types)}
                ELSE Held(news[t])
<1> DEFINE r == [i \in 1..Len(types) |-> [type |-> types[i], call |-> m]]
<1>1. r \in Seq(Broadcast)
  BY DEF Broadcast
<1>a. Len(r) = Len(types)
  OBVIOUS
<1>b. Held(r) = {[type |-> types[i], call |-> m] : i \in 1..Len(types)}
  BY <1>a DEF Held
<1>2. news' = [t \in Tabs |-> IF t \in Siblings(u) THEN news[t] \o r ELSE news[t]]
  BY DEF Announce
<1>3. \A t \in Tabs : news[t] \in Seq(Broadcast)
  BY DEF CallsType
<1> HIDE DEF r
<1>4. \A t \in Tabs : news[t] \o r \in Seq(Broadcast) /\ Held(news[t] \o r) = Held(news[t]) \cup Held(r)
  BY <1>1, <1>3, HeldBoth
<1>5. news' \in [Tabs -> Seq(Broadcast)]
  BY <1>2, <1>3, <1>4
<1>6. \A t \in Tabs : news'[t] = IF t \in Siblings(u) THEN news[t] \o r ELSE news[t]
  BY <1>2
<1>7. ASSUME NEW t \in Tabs
      PROVE  Held(news'[t]) = IF t \in Siblings(u) THEN Held(news[t]) \cup Held(r) ELSE Held(news[t])
  BY <1>4, <1>6, Zenon
<1> QED BY <1>5, <1>7, <1>b

\* One event.
LEMMA AnnounceOne ==
    ASSUME CallsType, NEW u \in Tabs, NEW m \in Meetings,
           NEW type \in {"cleared", "started", "ended"}, Announce(u, <<type>>, m)
    PROVE  /\ news' \in [Tabs -> Seq(Broadcast)]
           /\ \A t \in Tabs : Held(news'[t]) =
                IF t \in Siblings(u) THEN Held(news[t]) \cup {[type |-> type, call |-> m]}
                ELSE Held(news[t])
<1>1. <<type>> \in Seq({"cleared", "started", "ended"}) /\ Len(<<type>>) = 1 /\ <<type>>[1] = type
  OBVIOUS
<1>2. {[type |-> <<type>>[i], call |-> m] : i \in 1..Len(<<type>>)} = {[type |-> type, call |-> m]}
  BY <1>1
<1> QED BY <1>1, <1>2, AnnounceHeld

\* Two events, of an answer given here.
LEMMA AnnounceTwo ==
    ASSUME CallsType, NEW u \in Tabs, NEW m \in Meetings, Announce(u, <<"cleared", "started">>, m)
    PROVE  /\ news' \in [Tabs -> Seq(Broadcast)]
           /\ \A t \in Tabs : Held(news'[t]) =
                IF t \in Siblings(u)
                THEN Held(news[t]) \cup {[type |-> "cleared", call |-> m], [type |-> "started", call |-> m]}
                ELSE Held(news[t])
<1> DEFINE two == <<"cleared", "started">>
<1>1. /\ two \in Seq({"cleared", "started", "ended"}) /\ 1..Len(two) = {1, 2}
      /\ two[1] = "cleared" /\ two[2] = "started"
  OBVIOUS
<1>2. {[type |-> two[i], call |-> m] : i \in 1..Len(two)} =
          {[type |-> "cleared", call |-> m], [type |-> "started", call |-> m]}
  BY <1>1
<1>3. Announce(u, two, m)
  OBVIOUS
<1> HIDE DEF two
<1> QED BY <1>1, <1>2, <1>3, AnnounceHeld

-----------------------------------------------------------------------------
(* Calls: the invariant *)

\* A room whose call was made; a call of two that no race and no failure
\* touched.
Placed(m) == m \in Meetings /\ calls[m] # <<>>
Plain(m) == Placed(m) /\ ~Group(m) /\ m \notin touched

\* Another tab of its user may be in the call instead.
NobodyIn(t, m) == \A u \in Tabs : Owner[u] = Owner[t] => session[u] # m

\* Only calls that were made are spoken of, and only by those they are of.
CallsKnown ==
    /\ \A m \in Meetings : calls[m] # <<>> =>
         /\ calls[m].from \notin calls[m].to
         /\ ~Group(m) => \A p, o \in calls[m].to : p = o
    /\ \A q \in requests :
         /\ q.call = NoMeeting => q.to # {} /\ IsFiniteSet(q.to) /\ Owner[q.tab] \notin q.to
         /\ q.call # NoMeeting => calls[q.call] # <<>> /\ Owner[q.tab] \in calls[q.call].to
    /\ \A t \in Tabs : session[t] # NoMeeting =>
         /\ t \in open /\ calls[session[t]] # <<>>
         /\ Owner[t] \in calls[session[t]].to \cup {calls[session[t]].from}
    /\ \A t \in Tabs : incoming[t] # NoMeeting =>
         /\ t \in open /\ calls[incoming[t]] # <<>>
         /\ Owner[t] \in calls[incoming[t]].to
    /\ \A t \in Tabs : \A e \in Held(wire[t]) :
         /\ calls[e.call] # <<>>
         /\ e.type = "incoming" => Owner[t] \in calls[e.call].to
    /\ \A t \in Tabs : \A e \in Held(news[t]) : calls[e.call] # <<>>
    /\ \A m \in finished : calls[m] # <<>>

\* While a call goes on nobody is told that it is over, and nobody leaves.
GoingOn == \A m \in Meetings : Plain(m) /\ m \notin finished => \A t \in Tabs :
    /\ ~Tells(wire[t], Over, m)
    /\ ~Tells(news[t], {"ended"}, m)
    /\ ~(session[t] = m /\ sdk[t] = "leaving")

\* Of the tabs of one user, one is in a call or answers it; nobody answers
\* a call that is over.
OneTabEach == \A m \in Meetings : Plain(m) =>
    /\ \A t, u \in Tabs : Owner[t] = Owner[u] /\ session[t] = m /\ session[u] = m => t = u
    /\ \A t \in Tabs : \A q \in requests :
         Owner[t] = Owner[q.tab] /\ session[t] = m => q.call # m
    /\ \A q, r \in requests : Owner[q.tab] = Owner[r.tab] /\ q.call = m /\ r.call = m => q = r
    /\ m \in finished => \A q \in requests : q.call # m

\* Who is still in a call that is over is leaving, or will hear of it.
EndsReach == \A m \in finished : Plain(m) => \A t \in Tabs :
    session[t] = m => sdk[t] = "leaving" \/ Tells(wire[t], Over, m)

\* The caller is in the call until it is over.
CallerStays == \A m \in Meetings : Plain(m) /\ m \notin finished /\ calls[m].to # {} =>
    \E u \in Tabs : Owner[u] = calls[m].from /\ session[u] = m

\* Where a call rings, the end of the ringing is under way, or the call
\* goes on and nobody has answered it.
RingsWell == \A m \in Meetings : Plain(m) => \A t \in Tabs : incoming[t] = m =>
    \/ Tells(wire[t], Over, m)
    \/ Tells(news[t], {"cleared", "started"}, m)
    \/ m \notin finished /\ NobodyIn(t, m)

\* Where an invitation is still to come, nobody has answered, or the tab
\* knows or is about to be told who has.
InvitesWell == \A m \in Meetings : Plain(m) /\ m \notin finished => \A t \in open :
    Tells(wire[t], {"incoming"}, m) =>
      \/ m \in {elsewhere[t], session[t]}
      \/ Tells(news[t], {"started"}, m)
      \/ NobodyIn(t, m)

\* A shell that saw company has company, or is about to hear of the loss.
InCompany ==
    /\ \A t \in gone : Shell(t)
    /\ \A t \in saw : /\ Shell(t) /\ Present(t)
                      /\ sdk[t] = "in" => t \in gone \/ InRoom(session[t]) # {t}

CallsInv ==
    /\ CallsType /\ CallsKnown /\ GoingOn /\ OneTabEach /\ EndsReach
    /\ CallerStays /\ RingsWell /\ InvitesWell /\ InCompany

\* It is what the property asks for once everything has arrived.
LEMMA CallsInvSettles ==
    ASSUME CallsInv PROVE CallsSettle
<1> SUFFICES ASSUME Settled, NEW t \in open
             PROVE  /\ incoming[t] \notin touched \cup {NoMeeting} /\ ~Group(incoming[t])
                          => \E u \in TabsOf({calls[incoming[t]].from}) : session[u] = incoming[t]
                    /\ session[t] \in finished \ touched => Group(session[t])
                    /\ t \in saw /\ sdk[t] = "in" => InRoom(session[t]) # {t}
  BY DEF CallsSettle
<1>1. /\ t \in Tabs /\ wire[t] = <<>> /\ news[t] = <<>> /\ sdk[t] # "leaving" /\ gone = {}
      /\ incoming[t] \in MaybeCall /\ session[t] \in MaybeCall
      /\ wire[t] \in Seq(Signal) /\ news[t] \in Seq(Broadcast)
  BY DEF Settled, CallsInv, CallsType
<1>2. Held(wire[t]) = {} /\ Held(news[t]) = {}
  BY <1>1, HeldType
<1>3. ASSUME incoming[t] \notin touched \cup {NoMeeting}, ~Group(incoming[t])
      PROVE  \E u \in TabsOf({calls[incoming[t]].from}) : session[u] = incoming[t]
  <2>1. Plain(incoming[t]) /\ Owner[t] \in calls[incoming[t]].to
    BY <1>1, <1>3 DEF Plain, Placed, MaybeCall, CallsInv, CallsKnown
  <2>2. incoming[t] \in Meetings /\ incoming[t] \notin finished
    BY <1>1, <1>2, <2>1 DEF CallsInv, RingsWell, Tells, Plain, Placed
  <2>3. PICK u \in Tabs : Owner[u] = calls[incoming[t]].from /\ session[u] = incoming[t]
    BY <2>1, <2>2 DEF CallsInv, CallerStays
  <2>4. u \in open
    BY <1>3, <2>3 DEF CallsInv, CallsKnown
  <2> QED BY <2>3, <2>4 DEF TabsOf
<1>4. ASSUME session[t] \in finished \ touched PROVE Group(session[t])
  <2>1. Placed(session[t])
    BY <1>4 DEF CallsInv, CallsType, CallsKnown, Placed
  <2> QED BY <1>1, <1>2, <1>4, <2>1 DEF Plain, CallsInv, EndsReach, Tells
<1>5. ASSUME t \in saw, sdk[t] = "in" PROVE InRoom(session[t]) # {t}
  BY <1>1, <1>5 DEF CallsInv, InCompany
<1> QED BY <1>3, <1>4, <1>5

\* At the start nothing is under way; the rooms used before called nobody.
LEMMA CallsInvStart ==
    ASSUME NEW tabs \in SUBSET Tabs, NEW past \in SUBSET Meetings, past # {} => tabs # {},
           NEW moved, NEW broken, CallsStart(tabs, past, moved, broken)
    PROVE  CallsInv
<1>1. ASSUME NEW m \in past PROVE Owner[CHOOSE t \in tabs : TRUE] \in People
  BY <1>1, CallsAssumption
<1>2. ASSUME NEW m \in Meetings
      PROVE  calls[m] = <<>> \/ (calls[m] \in Invitation /\ calls[m].to = {})
  <2>1. CASE m \in past
    <3>1. PICK who \in People : who = Owner[CHOOSE t \in tabs : TRUE]
      BY <1>1, <2>1
    <3>2. calls[m] = [from |-> who, to |-> {}, group |-> FALSE]
      BY <2>1, <3>1 DEF CallsStart
    <3> QED BY <3>2 DEF Invitation
  <2>2. CASE m \notin past
    BY <2>2 DEF CallsStart
  <2> QED BY <2>1, <2>2
<1>3. /\ incoming = [t \in Tabs |-> NoMeeting] /\ session = [t \in Tabs |-> NoMeeting]
      /\ elsewhere = [t \in Tabs |-> NoMeeting] /\ open = tabs /\ onCall = {} /\ requests = {}
      /\ sdk = [t \in Tabs |-> "out"] /\ saw = {} /\ gone = {} /\ finished = {}
      /\ wire = [t \in Tabs |-> <<>>] /\ news = [t \in Tabs |-> <<>>]
  BY DEF CallsStart
<1>4. calls \in [Meetings -> {<<>>} \cup Invitation]
  BY <1>1 DEF CallsStart, Invitation
<1>5. CallsType
  BY <1>3, <1>4 DEF CallsType, MaybeCall
<1>6. \A t \in Tabs : Held(wire[t]) = {} /\ Held(news[t]) = {}
  BY <1>3 DEF Held
<1>7. CallsKnown
  <2>1. \A m \in Meetings : calls[m] # <<>> =>
          calls[m].from \notin calls[m].to /\ \A p, o \in calls[m].to : p = o
    BY <1>2
  <2> QED BY <1>3, <1>6, <2>1 DEF CallsKnown
<1>8. GoingOn /\ OneTabEach /\ EndsReach /\ InCompany
  BY <1>3, <1>6, CallsAssumption DEF GoingOn, OneTabEach, EndsReach, InCompany, Tells
<1>9. CallerStays
  BY <1>2 DEF CallerStays, Plain, Placed
<1>10. RingsWell /\ InvitesWell
  BY <1>3, <1>6, CallsAssumption DEF RingsWell, InvitesWell, Tells
<1> QED BY <1>5, <1>7, <1>8, <1>9, <1>10 DEF CallsInv

-----------------------------------------------------------------------------
(* Calls: types *)

\* Another session, or none, keeps the types of what it changes.
LEMMA SetActiveType ==
    ASSUME CallsType, NEW t \in Tabs, NEW m \in MaybeCall, SetActiveSession(t, m)
    PROVE  /\ session' \in [Tabs -> MaybeCall] /\ saw' \subseteq Tabs /\ gone' \subseteq Tabs
           /\ sdk' \in [Tabs -> {"out", "joining", "in", "leaving", "left"}]
<1>1. Bystanders(t) \subseteq Tabs
  BY DEF Bystanders, InRoom
<1> QED BY <1>1 DEF SetActiveSession, CallsType

\* The end of a call is told to others, and noted.
LEMMA NotifyType ==
    ASSUME CallsType, NEW t \in Tabs, session[t] \in Meetings, NEW all \in BOOLEAN,
           NotifyPeersEndCall(t, all)
    PROVE  /\ wire' \in [Tabs -> Seq(Signal)] /\ finished' \subseteq Meetings
           /\ finished' = finished \cup {session[t]}
           /\ \A u \in Tabs : Held(wire'[u]) =
                IF u \in TabsOf(SignalPeers(t, session[t]))
                THEN Held(wire[u]) \cup {[type |-> "ended", call |-> session[t], all |-> all]}
                ELSE Held(wire[u])
<1> DEFINE who == SignalPeers(t, session[t])
           e == [type |-> "ended", call |-> session[t], all |-> all]
<1>1. wire' = [u \in Tabs |-> IF u \in TabsOf(who) THEN Append(wire[u], e) ELSE wire[u]]
  BY DEF NotifyPeersEndCall, Relay
<1>2. e \in Signal
  BY DEF Signal, Over
<1>3. finished' = finished \cup {session[t]}
  BY DEF NotifyPeersEndCall
<1>4. finished' \subseteq Meetings
  BY <1>3 DEF CallsType
<1> HIDE DEF who, e
<1>5. /\ wire' \in [Tabs -> Seq(Signal)]
      /\ \A u \in Tabs : Held(wire'[u]) =
           IF u \in TabsOf(who) THEN Held(wire[u]) \cup {e} ELSE Held(wire[u])
  BY <1>1, <1>2, SignalHeld
<1> QED BY <1>3, <1>4, <1>5 DEF who, e

\* Leaving through the SDK, or at once.
LEMMA ExitType ==
    ASSUME CallsType, NEW t \in Tabs, Exit(t)
    PROVE  /\ session' \in [Tabs -> MaybeCall] /\ saw' \subseteq Tabs /\ gone' \subseteq Tabs
           /\ sdk' \in [Tabs -> {"out", "joining", "in", "leaving", "left"}]
<1>1. CASE sdk[t] \in {"in", "leaving"}
  BY <1>1 DEF Exit, SafeLeave, CallsType
<1>2. CASE sdk[t] \notin {"in", "leaving"}
  BY <1>2, SetActiveType DEF Exit, MaybeCall
<1> QED BY <1>1, <1>2

\* What a tab hears first was said to it.
LEMMA HeardHeld ==
    ASSUME CallsType, NEW t \in Tabs, NEW type, Heard(t, type)
    PROVE  /\ t \in open /\ Head(wire[t]) \in Signal /\ Head(wire[t]).type = type
           /\ wire' \in [Tabs -> Seq(Signal)]
           /\ Held(wire[t]) = Held(wire'[t]) \cup {Head(wire[t])}
           /\ \A u \in Tabs \ {t} : wire'[u] = wire[u]
<1>1. wire[t] \in Seq(Signal) /\ wire[t] # <<>> /\ wire' = [wire EXCEPT ![t] = Tail(@)]
  BY DEF Heard, CallsType
<1>2. Tail(wire[t]) \in Seq(Signal) /\ Head(wire[t]) \in Signal
      /\ Held(wire[t]) = Held(Tail(wire[t])) \cup {Head(wire[t])}
  BY <1>1, HeldTail
<1>3. wire'[t] = Tail(wire[t]) /\ \A u \in Tabs \ {t} : wire'[u] = wire[u]
  BY <1>1 DEF CallsType
<1>4. wire' \in [Tabs -> Seq(Signal)]
  BY <1>1, <1>2 DEF CallsType
<1> QED BY <1>2, <1>3, <1>4 DEF Heard

\* The same of the broadcasts.
LEMMA NewsHeld ==
    ASSUME CallsType, NEW t \in Tabs, OnNews(t)
    PROVE  /\ t \in open /\ Head(news[t]) \in Broadcast
           /\ news' \in [Tabs -> Seq(Broadcast)]
           /\ Held(news[t]) = Held(news'[t]) \cup {Head(news[t])}
           /\ \A u \in Tabs \ {t} : news'[u] = news[u]
<1>1. /\ news[t] \in Seq(Broadcast) /\ news[t] # <<>> /\ news' = [news EXCEPT ![t] = Tail(@)]
      /\ t \in open
  BY DEF OnNews, CallsType
<1>2. Tail(news[t]) \in Seq(Broadcast) /\ Head(news[t]) \in Broadcast
      /\ Held(news[t]) = Held(Tail(news[t])) \cup {Head(news[t])}
  BY <1>1, HeldTail
<1>3. news'[t] = Tail(news[t]) /\ \A u \in Tabs \ {t} : news'[u] = news[u]
  BY <1>1 DEF CallsType
<1>4. news' \in [Tabs -> Seq(Broadcast)]
  BY <1>1, <1>2 DEF CallsType
<1> QED BY <1>1, <1>2, <1>3, <1>4

\* Every step keeps the types.
LEMMA CallsTypeStep ==
    ASSUME CallsInv, [CallsNext]_callVars PROVE CallsType'
<1> USE DEF MaybeCall
<1>0. CallsType /\ InCompany
  BY DEF CallsInv
<1>a. ASSUME NEW t \in Tabs, Shell(t) PROVE session[t] \in Meetings /\ t \in open
  BY <1>0, <1>a DEF Shell, CallsType
<1>b. ASSUME NEW q \in requests
      PROVE  q.tab \in open /\ q.tab \in Tabs /\ q.to \in SUBSET People /\ q.call \in MaybeCall
  BY <1>0 DEF CallsType
<1>1. ASSUME NEW t \in Tabs, NEW who \in SUBSET People, StartOutgoingCall(t, who) PROVE CallsType'
  BY <1>0, <1>1 DEF StartOutgoingCall, CallsType, store, meeting
<1>2. ASSUME NEW q \in requests, RoomCreated(q) PROVE CallsType'
  <2>1. PICK m \in Meetings :
          /\ calls[m] = <<>>
          /\ calls' = [calls EXCEPT ![m] = [from |-> Owner[q.tab], to |-> q.to,
                                             group |-> Cardinality(q.to) > 1]]
          /\ Relay(q.to, "incoming", m, FALSE)
          /\ SetActiveSession(q.tab, m)
          /\ Announce(q.tab, <<"started">>, m)
    BY <1>2 DEF RoomCreated
  <2>2. calls' \in [Meetings -> {<<>>} \cup Invitation]
    <3>1. [from |-> Owner[q.tab], to |-> q.to, group |-> Cardinality(q.to) > 1] \in Invitation
      BY <1>b, CallsAssumption DEF Invitation
    <3> QED BY <1>0, <2>1, <3>1 DEF CallsType
  <2>3. wire' \in [Tabs -> Seq(Signal)]
    BY <1>0, <2>1, RelayHeld
  <2>4. news' \in [Tabs -> Seq(Broadcast)]
    BY <1>0, <1>b, <2>1, AnnounceOne
  <2>5. /\ session' \in [Tabs -> MaybeCall] /\ saw' \subseteq Tabs /\ gone' \subseteq Tabs
        /\ sdk' \in [Tabs -> {"out", "joining", "in", "leaving", "left"}]
    BY <1>0, <1>b, <2>1, SetActiveType
  <2>6. /\ requests' = requests \ {q} /\ onCall' = onCall \cup {q.tab}
        /\ UNCHANGED <<incoming, elsewhere, open, finished>>
    BY <1>2 DEF RoomCreated
  <2> QED BY <1>0, <1>b, <2>2, <2>3, <2>4, <2>5, <2>6 DEF CallsType
<1>3. ASSUME NEW q \in requests, Refused(q) PROVE CallsType'
  BY <1>0, <1>3 DEF Refused, CallsType, store, meeting
<1>4. ASSUME NEW t \in Tabs, Accept(t) PROVE CallsType'
  BY <1>0, <1>4 DEF Accept, CallsType, store, meeting
<1>5. ASSUME NEW q \in requests, Accepted(q) PROVE CallsType'
  <2>1. /\ requests' = requests \ {q} /\ q.call \in Meetings
        /\ incoming' = [incoming EXCEPT ![q.tab] = NoMeeting]
        /\ SetActiveSession(q.tab, q.call)
        /\ Announce(q.tab, <<"cleared", "started">>, q.call)
        /\ onCall' = onCall \cup {q.tab}
        /\ UNCHANGED <<calls, elsewhere, open, wire, finished>>
    BY <1>5, <1>b DEF Accepted
  <2>2. news' \in [Tabs -> Seq(Broadcast)]
    BY <1>0, <1>b, <2>1, AnnounceTwo
  <2>3. /\ session' \in [Tabs -> MaybeCall] /\ saw' \subseteq Tabs /\ gone' \subseteq Tabs
        /\ sdk' \in [Tabs -> {"out", "joining", "in", "leaving", "left"}]
    BY <1>0, <1>b, <2>1, SetActiveType
  <2> QED BY <1>0, <1>b, <2>1, <2>2, <2>3 DEF CallsType
<1>6. ASSUME NEW t \in Tabs, Reject(t) PROVE CallsType'
  <2>1. /\ t \in open /\ incoming[t] \in Meetings
        /\ Relay({calls[incoming[t]].from}, "rejected", incoming[t], FALSE)
        /\ incoming' = [incoming EXCEPT ![t] = NoMeeting]
        /\ Announce(t, <<"cleared">>, incoming[t])
        /\ finished' = finished \cup {incoming[t]}
        /\ UNCHANGED <<calls, session, elsewhere, open, onCall, requests, busyTabs, meeting>>
    BY <1>0, <1>6 DEF Reject, CallsType
  <2>2. wire' \in [Tabs -> Seq(Signal)]
    <3>1. "rejected" \in Over \cup {"incoming"}
      BY DEF Over
    <3> QED BY <1>0, <2>1, <3>1, RelayHeld
  <2>3. news' \in [Tabs -> Seq(Broadcast)]
    BY <1>0, <2>1, AnnounceOne
  <2> QED BY <1>0, <2>1, <2>2, <2>3 DEF CallsType, meeting
<1>7. ASSUME NEW t \in Tabs, OnIncoming(t) PROVE CallsType'
  <2>1. Heard(t, "incoming")
    BY <1>7 DEF OnIncoming
  <2>2. Head(wire[t]) \in Signal /\ wire' \in [Tabs -> Seq(Signal)]
    BY <1>0, <2>1, HeardHeld
  <2>3. incoming' \in [Tabs -> MaybeCall]
    BY <1>0, <1>7, <2>2 DEF OnIncoming, CallsType, Signal
  <2> QED BY <1>0, <1>7, <2>1, <2>2, <2>3 DEF OnIncoming, Heard, CallsType, meeting
<1>8. ASSUME NEW t \in Tabs, OnEnded(t) PROVE CallsType'
  <2>1. Heard(t, Head(wire[t]).type)
    BY <1>8 DEF OnEnded
  <2>2. wire' \in [Tabs -> Seq(Signal)]
    BY <1>0, <2>1, HeardHeld
  <2>3. incoming' \in [Tabs -> MaybeCall] /\ elsewhere' \in [Tabs -> MaybeCall]
    BY <1>0, <1>8 DEF OnEnded, CallsType
  <2>4. SetActiveSession(t, NoMeeting) \/ UNCHANGED <<session, busyTabs, meeting>>
    BY <1>8 DEF OnEnded
  <2>5. /\ session' \in [Tabs -> MaybeCall] /\ saw' \subseteq Tabs /\ gone' \subseteq Tabs
        /\ sdk' \in [Tabs -> {"out", "joining", "in", "leaving", "left"}]
    BY <1>0, <2>4, SetActiveType DEF CallsType, meeting
  <2> QED BY <1>0, <2>1, <2>2, <2>3, <2>5 DEF Heard, CallsType
<1>9. ASSUME NEW t \in Tabs, OnNews(t) PROVE CallsType'
  <2>1. news' \in [Tabs -> Seq(Broadcast)] /\ Head(news[t]) \in Broadcast
    BY <1>0, <1>9, NewsHeld
  <2>2. incoming' \in [Tabs -> MaybeCall]
    BY <1>0, <1>9 DEF OnNews, CallsType
  <2>3. elsewhere' \in [Tabs -> MaybeCall]
    BY <1>0, <1>9, <2>1 DEF OnNews, CallsType, Broadcast
  <2>4. SetActiveSession(t, NoMeeting) \/ UNCHANGED <<session, busyTabs, meeting>>
    BY <1>9 DEF OnNews
  <2>5. /\ session' \in [Tabs -> MaybeCall] /\ saw' \subseteq Tabs /\ gone' \subseteq Tabs
        /\ sdk' \in [Tabs -> {"out", "joining", "in", "leaving", "left"}]
    BY <1>0, <2>4, SetActiveType DEF CallsType, meeting
  <2> QED BY <1>0, <1>9, <2>1, <2>2, <2>3, <2>5 DEF OnNews, CallsType
<1>10. ASSUME NEW t \in Tabs, SocketReplaced(t) PROVE CallsType'
  BY <1>0, <1>10 DEF SocketReplaced, CallsType, store, meeting
<1>11. ASSUME NEW t \in Tabs, Joined(t) PROVE CallsType'
  <2>1. saw' \subseteq Tabs
    BY <1>0, <1>11 DEF Joined, CallsType, InRoom
  <2>2. sdk' \in [Tabs -> {"out", "joining", "in", "leaving", "left"}]
    BY <1>0, <1>11 DEF Joined, CallsType
  <2> QED BY <1>0, <1>11, <2>1, <2>2 DEF Joined, CallsType, store
<1>12. ASSUME NEW t \in Tabs, Failure(t) PROVE CallsType'
  <2>1. /\ session' \in [Tabs -> MaybeCall] /\ saw' \subseteq Tabs /\ gone' \subseteq Tabs
        /\ sdk' \in [Tabs -> {"out", "joining", "in", "leaving", "left"}]
    BY <1>0, <1>12, SetActiveType DEF Failure, CallsType, Bystanders, InRoom
  <2> QED BY <1>0, <1>12, <2>1 DEF Failure, CallsType
<1>13. ASSUME NEW t \in Tabs, ParticipantLeft(t) PROVE CallsType'
  <2>1. session[t] \in Meetings
    BY <1>0, <1>13, <1>a DEF ParticipantLeft, InCompany
  <2>2. wire' \in [Tabs -> Seq(Signal)] /\ finished' \subseteq Meetings
    BY <1>0, <1>13, <2>1, NotifyType DEF ParticipantLeft, CallsType
  <2>3. sdk' \in [Tabs -> {"out", "joining", "in", "leaving", "left"}]
    BY <1>0, <1>13 DEF ParticipantLeft, SafeLeave, CallsType
  <2> QED BY <1>0, <1>13, <2>2, <2>3 DEF ParticipantLeft, CallsType, store
<1>14. ASSUME NEW t \in Tabs, NoAnswer(t) PROVE CallsType'
  <2>1. wire' \in [Tabs -> Seq(Signal)] /\ finished' \subseteq Meetings
    BY <1>0, <1>14, <1>a, NotifyType DEF NoAnswer
  <2> QED BY <1>0, <1>14, <2>1 DEF NoAnswer, SafeLeave, CallsType, store
<1>15. ASSUME NEW t \in Tabs, HangUp(t) PROVE CallsType'
  <2>1. wire' \in [Tabs -> Seq(Signal)] /\ finished' \subseteq Meetings
    BY <1>0, <1>15, <1>a, NotifyType DEF HangUp, CallsType
  <2>2. /\ session' \in [Tabs -> MaybeCall] /\ saw' \subseteq Tabs /\ gone' \subseteq Tabs
        /\ sdk' \in [Tabs -> {"out", "joining", "in", "leaving", "left"}]
    BY <1>0, <1>15, ExitType DEF HangUp
  <2> QED BY <1>0, <1>15, <2>1, <2>2 DEF HangUp, CallsType
<1>16. ASSUME NEW t \in Tabs, EndForEveryone(t) PROVE CallsType'
  <2>1. wire' \in [Tabs -> Seq(Signal)] /\ finished' \subseteq Meetings
    BY <1>0, <1>16, <1>a, NotifyType DEF EndForEveryone
  <2>2. /\ session' \in [Tabs -> MaybeCall] /\ saw' \subseteq Tabs /\ gone' \subseteq Tabs
        /\ sdk' \in [Tabs -> {"out", "joining", "in", "leaving", "left"}]
    BY <1>0, <1>16, ExitType DEF EndForEveryone
  <2> QED BY <1>0, <1>16, <2>1, <2>2 DEF EndForEveryone, CallsType
<1>17. ASSUME NEW t \in Tabs, MeetingLeft(t) PROVE CallsType'
  <2>1. /\ session' \in [Tabs -> MaybeCall] /\ saw' \subseteq Tabs /\ gone' \subseteq Tabs
        /\ sdk' \in [Tabs -> {"out", "joining", "in", "leaving", "left"}]
    BY <1>0, <1>17, SetActiveType DEF MeetingLeft, CallsType, Bystanders, InRoom
  <2>2. news' \in [Tabs -> Seq(Broadcast)]
    BY <1>0, <1>17, <1>a, AnnounceOne DEF MeetingLeft, CallsType
  <2> QED BY <1>0, <1>17, <2>1, <2>2 DEF MeetingLeft, CallsType
<1>18. ASSUME NEW t \in Tabs, GoToChat(t) PROVE CallsType'
  BY <1>0, <1>18 DEF GoToChat, CallsType, store
<1>19. ASSUME NEW t \in Tabs, ReturnToCall(t) PROVE CallsType'
  <2>1. news' \in [Tabs -> Seq(Broadcast)]
    BY <1>0, <1>19, AnnounceOne DEF ReturnToCall, CallsType
  <2>2. saw' \subseteq Tabs /\ onCall' \subseteq open
    BY <1>0, <1>19 DEF ReturnToCall, CallsType
  <2> QED BY <1>0, <1>19, <2>1, <2>2 DEF ReturnToCall, CallsType, store
<1>20. ASSUME NEW t \in Tabs, BackToChat(t) PROVE CallsType'
  BY <1>0, <1>20 DEF BackToChat, CallsType, store, meeting
<1>21. ASSUME NEW t \in Tabs, CloseTab(t) PROVE CallsType'
  <2>1. /\ session' \in [Tabs -> MaybeCall] /\ saw' \subseteq Tabs /\ gone' \subseteq Tabs
        /\ sdk' \in [Tabs -> {"out", "joining", "in", "leaving", "left"}]
    BY <1>0, <1>21, SetActiveType DEF CloseTab
  <2>2. news' \in [Tabs -> Seq(Broadcast)]
    BY <1>0, <1>21, <1>a, AnnounceOne DEF CloseTab, CallsType
  <2>3. wire' \in [Tabs -> Seq(Signal)] /\ finished' \subseteq Meetings
    <3>1. CASE Shell(t) /\ ~Group(session[t]) /\ sdk[t] # "leaving"
      <4>1. "ended" \in Over \cup {"incoming"}
        BY DEF Over
      <4>2. Relay(SignalPeers(t, session[t]), "ended", session[t], FALSE)
            /\ finished' = finished \cup {session[t]}
        BY <1>21, <3>1 DEF CloseTab
      <4>3. wire' \in [Tabs -> Seq(Signal)]
        BY <1>0, <1>a, <3>1, <4>1, <4>2, RelayHeld
      <4> QED BY <1>0, <1>a, <3>1, <4>2, <4>3 DEF CallsType
    <3>2. CASE ~(Shell(t) /\ ~Group(session[t]) /\ sdk[t] # "leaving")
      BY <1>0, <1>21, <3>2 DEF CloseTab, CallsType
    <3> QED BY <3>1, <3>2
  <2>4. requests' \subseteq [tab : open', to : SUBSET People, call : MaybeCall]
    BY <1>0, <1>21 DEF CloseTab, CallsType
  <2>5. /\ open' = open \ {t} /\ onCall' = onCall \ {t}
        /\ incoming' = [incoming EXCEPT ![t] = NoMeeting]
        /\ elsewhere' = [elsewhere EXCEPT ![t] = NoMeeting]
        /\ UNCHANGED calls
    BY <1>21 DEF CloseTab
  <2> QED BY <1>0, <2>1, <2>2, <2>3, <2>4, <2>5 DEF CallsType
<1>22. CASE UNCHANGED callVars
  BY <1>0, <1>22 DEF CallsType, callVars, store, meeting
<1> QED BY <1>1, <1>2, <1>3, <1>4, <1>5, <1>6, <1>7, <1>8, <1>9, <1>10, <1>11, <1>12, <1>13,
           <1>14, <1>15, <1>16, <1>17, <1>18, <1>19, <1>20, <1>21, <1>22
        DEF CallsNext, RequestStep, SignalStep, TabStep, MeetingStep, Decline, RingTimeout

-----------------------------------------------------------------------------
(* Calls: which steps change what *)

\* The session of a tab, only what the tab does or hears.
LEMMA SessionChanges ==
    ASSUME CallsInv, [CallsNext]_callVars, NEW t \in Tabs, session'[t] # session[t]
    PROVE  \/ \E q \in requests : q.tab = t /\ (RoomCreated(q) \/ Accepted(q))
           \/ OnEnded(t) \/ OnNews(t) \/ Failure(t) \/ HangUp(t) \/ EndForEveryone(t)
           \/ MeetingLeft(t) \/ CloseTab(t)
<1>0. session \in [Tabs -> MaybeCall]
  BY DEF CallsInv, CallsType
<1>1. ASSUME NEW u \in Tabs, NEW m, SetActiveSession(u, m) PROVE u = t
  BY <1>0, <1>1 DEF SetActiveSession
<1>2. ASSUME NEW q \in requests, RequestStep(q)
      PROVE  q.tab = t /\ (RoomCreated(q) \/ Accepted(q))
  <2>0. q.tab \in Tabs
    BY DEF CallsInv, CallsType
  <2>1. CASE RoomCreated(q)
    BY <1>1, <2>0, <2>1 DEF RoomCreated
  <2>2. CASE Accepted(q)
    BY <1>1, <2>0, <2>2 DEF Accepted
  <2>3. ~Refused(q)
    BY DEF Refused, store
  <2> QED BY <1>2, <2>1, <2>2, <2>3 DEF RequestStep
<1>3. ASSUME NEW u \in Tabs, SignalStep(u) PROVE u = t /\ (OnEnded(u) \/ OnNews(u))
  <2>1. ~OnIncoming(u) /\ ~SocketReplaced(u)
    BY DEF OnIncoming, SocketReplaced, store
  <2>2. CASE OnEnded(u)
    BY <1>1, <2>2 DEF OnEnded
  <2>3. CASE OnNews(u)
    BY <1>1, <2>3 DEF OnNews
  <2> QED BY <1>3, <2>1, <2>2, <2>3 DEF SignalStep
<1>4. ASSUME NEW u \in Tabs, TabStep(u)
      PROVE  u = t /\ (HangUp(u) \/ EndForEveryone(u) \/ CloseTab(u))
  <2>1. /\ \A who \in SUBSET People : ~StartOutgoingCall(u, who)
        /\ ~Accept(u) /\ ~Decline(u) /\ ~RingTimeout(u)
        /\ ~GoToChat(u) /\ ~ReturnToCall(u) /\ ~BackToChat(u)
    BY DEF StartOutgoingCall, Accept, Decline, RingTimeout, Reject, GoToChat, ReturnToCall,
           BackToChat, store
  <2>2. CASE HangUp(u)
    BY <1>1, <2>2 DEF HangUp, Exit
  <2>3. CASE EndForEveryone(u)
    BY <1>1, <2>3 DEF EndForEveryone, Exit
  <2>4. CASE CloseTab(u)
    BY <1>1, <2>4 DEF CloseTab
  <2> QED BY <1>4, <2>1, <2>2, <2>3, <2>4 DEF TabStep
<1>5. ASSUME NEW u \in Tabs, MeetingStep(u) PROVE u = t /\ (Failure(u) \/ MeetingLeft(u))
  <2>1. ~Joined(u) /\ ~ParticipantLeft(u) /\ ~NoAnswer(u)
    BY DEF Joined, ParticipantLeft, NoAnswer, store
  <2>2. CASE Failure(u)
    BY <1>1, <2>2 DEF Failure
  <2>3. CASE MeetingLeft(u)
    BY <1>1, <2>3 DEF MeetingLeft
  <2> QED BY <1>5, <2>1, <2>2, <2>3 DEF MeetingStep
<1>6. CASE UNCHANGED callVars
  BY <1>6 DEF callVars, store
<1> QED BY <1>2, <1>3, <1>4, <1>5, <1>6 DEF CallsNext

\* The rooms, only an invitation.
LEMMA RoomChanges ==
    ASSUME CallsInv, [CallsNext]_callVars, calls' # calls
    PROVE  \E q \in requests : RoomCreated(q)
<1>1. ASSUME NEW q \in requests, RequestStep(q) PROVE RoomCreated(q)
  BY <1>1 DEF RequestStep, Refused, Accepted
<1>2. ASSUME NEW t \in Tabs PROVE ~SignalStep(t)
  BY DEF SignalStep, OnIncoming, OnEnded, OnNews, SocketReplaced, Heard
<1>3. ASSUME NEW t \in Tabs PROVE ~TabStep(t)
  BY DEF TabStep, StartOutgoingCall, Accept, Decline, RingTimeout, Reject, HangUp,
         EndForEveryone, GoToChat, ReturnToCall, BackToChat, CloseTab
<1>4. ASSUME NEW t \in Tabs PROVE ~MeetingStep(t)
  BY DEF MeetingStep, Joined, Failure, ParticipantLeft, NoAnswer, MeetingLeft
<1> QED BY <1>1, <1>2, <1>3, <1>4 DEF CallsNext, callVars

\* What is waiting for an answer.
LEMMA RequestChanges ==
    ASSUME CallsInv, [CallsNext]_callVars, NEW q \in requests', q \notin requests
    PROVE  \E t \in Tabs : Accept(t) \/ \E who \in SUBSET People : StartOutgoingCall(t, who)
<1>1. ASSUME NEW r \in requests PROVE ~RequestStep(r)
  BY DEF RequestStep, RoomCreated, Refused, Accepted
<1>2. ASSUME NEW t \in Tabs PROVE ~SignalStep(t)
  BY DEF SignalStep, OnIncoming, OnEnded, OnNews, SocketReplaced, Heard
<1>3. ASSUME NEW t \in Tabs, TabStep(t)
      PROVE  Accept(t) \/ \E who \in SUBSET People : StartOutgoingCall(t, who)
  BY <1>3 DEF TabStep, Decline, RingTimeout, Reject, HangUp,
         EndForEveryone, GoToChat, ReturnToCall, BackToChat, CloseTab
<1>4. ASSUME NEW t \in Tabs PROVE ~MeetingStep(t)
  BY DEF MeetingStep, Joined, Failure, ParticipantLeft, NoAnswer, MeetingLeft
<1> QED BY <1>1, <1>2, <1>3, <1>4 DEF CallsNext, callVars

\* The calls that are over, which stay over, and those touched, which stay so.
LEMMA OverChanges ==
    ASSUME CallsInv, [CallsNext]_callVars
    PROVE  /\ finished \subseteq finished' /\ touched \subseteq touched'
           /\ finished' # finished =>
                \E t \in Tabs : \/ Reject(t) \/ CloseTab(t)
                                \/ ParticipantLeft(t) \/ NoAnswer(t) \/ HangUp(t) \/ EndForEveryone(t)
<1> USE DEF Touch
<1>1. ASSUME NEW q \in requests, RequestStep(q) PROVE finished' = finished /\ touched \subseteq touched'
  BY <1>1 DEF RequestStep, RoomCreated, Refused, Accepted
<1>2. ASSUME NEW t \in Tabs, SignalStep(t) PROVE finished' = finished /\ touched \subseteq touched'
  BY <1>2 DEF SignalStep, OnIncoming, OnEnded, OnNews, SocketReplaced, Heard
<1>3. ASSUME NEW t \in Tabs, TabStep(t)
      PROVE  /\ finished \subseteq finished' /\ touched \subseteq touched'
             /\ finished' # finished =>
                  Reject(t) \/ CloseTab(t) \/ HangUp(t) \/ EndForEveryone(t)
  <2>1. CASE \E who \in SUBSET People : StartOutgoingCall(t, who)
    BY <2>1 DEF StartOutgoingCall
  <2>2. CASE Accept(t)
    BY <2>2 DEF Accept
  <2>3. CASE Reject(t)
    BY <2>3 DEF Reject
  <2>4. CASE HangUp(t) \/ EndForEveryone(t)
    BY <2>4 DEF HangUp, EndForEveryone, NotifyPeersEndCall
  <2>5. CASE GoToChat(t) \/ ReturnToCall(t) \/ BackToChat(t)
    BY <2>5 DEF GoToChat, ReturnToCall, BackToChat
  <2>6. CASE CloseTab(t)
    BY <2>6 DEF CloseTab
  <2> QED BY <1>3, <2>1, <2>2, <2>3, <2>4, <2>5, <2>6 DEF TabStep, Decline, RingTimeout
<1>4. ASSUME NEW t \in Tabs, MeetingStep(t)
      PROVE  /\ finished \subseteq finished' /\ touched \subseteq touched'
             /\ finished' # finished => ParticipantLeft(t) \/ NoAnswer(t)
  BY <1>4 DEF MeetingStep, Joined, Failure, ParticipantLeft, NoAnswer, MeetingLeft,
              NotifyPeersEndCall
<1>5. CASE UNCHANGED callVars
  BY <1>5 DEF callVars
<1> QED BY <1>1, <1>2, <1>3, <1>4, <1>5 DEF CallsNext

\* The signals on a tab's wire: the tab hears them or loses them, others
\* send them.
LEMMA WireChanges ==
    ASSUME CallsInv, [CallsNext]_callVars, NEW t \in Tabs, wire'[t] # wire[t]
    PROVE  \/ OnIncoming(t) \/ OnEnded(t) \/ SocketReplaced(t)
           \/ \E q \in requests : RoomCreated(q)
           \/ \E u \in Tabs : \/ Reject(u) \/ CloseTab(u) \/ ParticipantLeft(u) \/ NoAnswer(u)
                              \/ HangUp(u) \/ EndForEveryone(u)
<1>0. wire \in [Tabs -> Seq(Signal)]
  BY DEF CallsInv, CallsType
<1>1. ASSUME NEW q \in requests, RequestStep(q) PROVE RoomCreated(q)
  BY <1>1 DEF RequestStep, Refused, Accepted
<1>2. ASSUME NEW u \in Tabs, SignalStep(u)
      PROVE  u = t /\ (OnIncoming(u) \/ OnEnded(u) \/ SocketReplaced(u))
  <2>1. ~OnNews(u)
    BY DEF OnNews
  <2>2. CASE OnIncoming(u)
    BY <1>0, <2>2 DEF OnIncoming, Heard
  <2>3. CASE OnEnded(u)
    BY <1>0, <2>3 DEF OnEnded, Heard
  <2>4. CASE SocketReplaced(u)
    BY <1>0, <2>4 DEF SocketReplaced
  <2> QED BY <1>2, <2>1, <2>2, <2>3, <2>4 DEF SignalStep
<1>3. ASSUME NEW u \in Tabs, TabStep(u)
      PROVE  Reject(u) \/ CloseTab(u) \/ HangUp(u) \/ EndForEveryone(u)
  BY <1>3 DEF TabStep, Decline, RingTimeout, StartOutgoingCall, Accept, GoToChat,
              ReturnToCall, BackToChat
<1>4. ASSUME NEW u \in Tabs, MeetingStep(u) PROVE ParticipantLeft(u) \/ NoAnswer(u)
  BY <1>4 DEF MeetingStep, Joined, Failure, MeetingLeft
<1> QED BY <1>1, <1>2, <1>3, <1>4 DEF CallsNext, callVars

\* The broadcasts to a tab: the tab hears them, its siblings make them.
LEMMA NewsChanges ==
    ASSUME CallsInv, [CallsNext]_callVars, NEW t \in Tabs, news'[t] # news[t]
    PROVE  \/ OnNews(t)
           \/ \E q \in requests : RoomCreated(q) \/ Accepted(q)
           \/ \E u \in Tabs : Reject(u) \/ CloseTab(u) \/ ReturnToCall(u) \/ MeetingLeft(u)
<1>0. news \in [Tabs -> Seq(Broadcast)]
  BY DEF CallsInv, CallsType
<1>1. ASSUME NEW q \in requests, RequestStep(q) PROVE RoomCreated(q) \/ Accepted(q)
  BY <1>1 DEF RequestStep, Refused
<1>2. ASSUME NEW u \in Tabs, SignalStep(u) PROVE u = t /\ OnNews(u)
  <2>1. ~OnIncoming(u) /\ ~OnEnded(u) /\ ~SocketReplaced(u)
    BY DEF OnIncoming, OnEnded, SocketReplaced, Heard
  <2>2. CASE OnNews(u)
    BY <1>0, <2>2 DEF OnNews
  <2> QED BY <1>2, <2>1, <2>2 DEF SignalStep
<1>3. ASSUME NEW u \in Tabs, TabStep(u) PROVE Reject(u) \/ CloseTab(u) \/ ReturnToCall(u)
  BY <1>3 DEF TabStep, Decline, RingTimeout, StartOutgoingCall, Accept, GoToChat,
              HangUp, EndForEveryone, BackToChat
<1>4. ASSUME NEW u \in Tabs, MeetingStep(u) PROVE MeetingLeft(u)
  BY <1>4 DEF MeetingStep, Joined, Failure, ParticipantLeft, NoAnswer
<1> QED BY <1>1, <1>2, <1>3, <1>4 DEF CallsNext, callVars

\* The call that rings in a tab.
LEMMA IncomingChanges ==
    ASSUME CallsInv, [CallsNext]_callVars, NEW t \in Tabs, incoming'[t] # incoming[t],
           incoming'[t] # NoMeeting
    PROVE  OnIncoming(t)
<1>0. incoming \in [Tabs -> MaybeCall]
  BY DEF CallsInv, CallsType
<1>1. ASSUME NEW q \in requests PROVE ~RequestStep(q)
  BY <1>0 DEF RequestStep, RoomCreated, Refused, Accepted, store
<1>2. ASSUME NEW u \in Tabs, SignalStep(u) PROVE u = t /\ OnIncoming(u)
  <2>1. ~OnEnded(u)
    BY <1>0 DEF OnEnded
  <2>2. ~OnNews(u)
    BY <1>0 DEF OnNews
  <2>3. ~SocketReplaced(u)
    BY DEF SocketReplaced, store
  <2>4. CASE OnIncoming(u)
    BY <1>0, <2>4 DEF OnIncoming
  <2> QED BY <1>2, <2>1, <2>2, <2>3, <2>4 DEF SignalStep
<1>3. ASSUME NEW u \in Tabs PROVE ~TabStep(u)
  <2>1. /\ \A who \in SUBSET People : ~StartOutgoingCall(u, who)
        /\ ~Accept(u) /\ ~HangUp(u) /\ ~EndForEveryone(u) /\ ~GoToChat(u) /\ ~ReturnToCall(u)
        /\ ~BackToChat(u)
    BY DEF StartOutgoingCall, Accept, HangUp, EndForEveryone, GoToChat, ReturnToCall,
           BackToChat, store
  <2>2. ~Reject(u)
    BY <1>0 DEF Reject
  <2>3. ~CloseTab(u)
    BY <1>0 DEF CloseTab
  <2> QED BY <2>1, <2>2, <2>3 DEF TabStep, Decline, RingTimeout
<1>4. ASSUME NEW u \in Tabs PROVE ~MeetingStep(u)
  BY DEF MeetingStep, Joined, Failure, ParticipantLeft, NoAnswer, MeetingLeft, store
<1>5. ~UNCHANGED callVars
  BY DEF callVars, store
<1> QED BY <1>1, <1>2, <1>3, <1>4, <1>5 DEF CallsNext

\* The note of a call in another tab.
LEMMA ElsewhereChanges ==
    ASSUME CallsInv, [CallsNext]_callVars, NEW t \in Tabs, elsewhere'[t] # elsewhere[t]
    PROVE  OnEnded(t) \/ OnNews(t) \/ CloseTab(t)
<1>0. elsewhere \in [Tabs -> MaybeCall]
  BY DEF CallsInv, CallsType
<1>1. ASSUME NEW q \in requests PROVE ~RequestStep(q)
  BY DEF RequestStep, RoomCreated, Refused, Accepted, store
<1>2. ASSUME NEW u \in Tabs, SignalStep(u) PROVE u = t /\ (OnEnded(u) \/ OnNews(u))
  <2>1. CASE OnEnded(u)
    BY <1>0, <2>1 DEF OnEnded
  <2>2. CASE OnNews(u)
    <3>1. Head(news[u]).type \in {"cleared", "started", "ended"}
      BY <2>2, NewsHeld DEF CallsInv, Broadcast
    <3>2. \/ elsewhere' = elsewhere
          \/ \E x : elsewhere' = [elsewhere EXCEPT ![u] = x]
      BY <2>2, <3>1 DEF OnNews
    <3> QED BY <1>0, <2>2, <3>2
  <2>3. ~SocketReplaced(u) /\ ~OnIncoming(u)
    BY DEF SocketReplaced, OnIncoming, store
  <2> QED BY <1>2, <2>1, <2>2, <2>3 DEF SignalStep
<1>3. ASSUME NEW u \in Tabs, TabStep(u) PROVE u = t /\ CloseTab(u)
  <2>1. /\ \A who \in SUBSET People : ~StartOutgoingCall(u, who)
        /\ ~Accept(u) /\ ~HangUp(u) /\ ~EndForEveryone(u) /\ ~GoToChat(u) /\ ~ReturnToCall(u)
        /\ ~BackToChat(u) /\ ~Decline(u) /\ ~RingTimeout(u)
    BY DEF StartOutgoingCall, Accept, HangUp, EndForEveryone, GoToChat, ReturnToCall,
           BackToChat, Decline, RingTimeout, Reject, store
  <2>2. CASE CloseTab(u)
    BY <1>0, <2>2 DEF CloseTab
  <2> QED BY <1>3, <2>1, <2>2 DEF TabStep
<1>4. ASSUME NEW u \in Tabs PROVE ~MeetingStep(u)
  BY DEF MeetingStep, Joined, Failure, ParticipantLeft, NoAnswer, MeetingLeft, store
<1>5. ~UNCHANGED callVars
  BY DEF callVars, store
<1> QED BY <1>1, <1>2, <1>3, <1>4, <1>5 DEF CallsNext

-----------------------------------------------------------------------------
(* Calls: what the steps that tell others do *)

\* A tab is closed by closing it.
LEMMA OpenChanges ==
    ASSUME CallsInv, [CallsNext]_callVars
    PROVE  open' \subseteq open /\ \A t \in open : t \notin open' => CloseTab(t)
<1>1. ASSUME NEW q \in requests, RequestStep(q) PROVE open' = open
  BY <1>1 DEF RequestStep, RoomCreated, Refused, Accepted
<1>2. ASSUME NEW t \in Tabs, SignalStep(t) PROVE open' = open
  BY <1>2 DEF SignalStep, OnIncoming, OnEnded, OnNews, SocketReplaced, Heard
<1>3. ASSUME NEW t \in Tabs, TabStep(t)
      PROVE  open' = open \/ (CloseTab(t) /\ open' = open \ {t})
  BY <1>3 DEF TabStep, Decline, RingTimeout, StartOutgoingCall, Accept, GoToChat, Reject,
              HangUp, EndForEveryone, ReturnToCall, BackToChat, CloseTab
<1>4. ASSUME NEW t \in Tabs, MeetingStep(t) PROVE open' = open
  BY <1>4 DEF MeetingStep, Joined, Failure, ParticipantLeft, NoAnswer, MeetingLeft
<1>5. CASE UNCHANGED callVars
  BY <1>5 DEF callVars
<1> QED BY <1>1, <1>2, <1>3, <1>4, <1>5 DEF CallsNext

\* A set with one member at most, as the size of a finite set says.
LEMMA AtMostOne ==
    ASSUME NEW S, IsFiniteSet(S), ~(Cardinality(S) > 1)
    PROVE  \A x, y \in S : x = y
<1> SUFFICES ASSUME NEW x \in S, NEW y \in S, x # y PROVE FALSE
  OBVIOUS
<1>1. IsFiniteSet({x, y}) /\ Cardinality({x, y}) = 2
  <2>1. IsFiniteSet({x}) /\ Cardinality({x}) = 1
    BY FS_Singleton
  <2>2. IsFiniteSet({x} \cup {y}) /\ Cardinality({x} \cup {y}) = 1 + 1
    BY <2>1, FS_AddElement
  <2>3. {x} \cup {y} = {x, y}
    OBVIOUS
  <2> QED BY <2>2, <2>3
<1>2. Cardinality({x, y}) <= Cardinality(S)
  BY <1>1, FS_Subset
<1> QED BY <1>1, <1>2, FS_CardinalityType

\* The room of a call that is made.
LEMMA RoomCreatedDoes ==
    ASSUME CallsInv, NEW q \in requests, RoomCreated(q)
    PROVE  \E m \in Meetings :
             /\ calls[m] = <<>> /\ calls'[m] # <<>>
             /\ \A k \in Meetings \ {m} : calls'[k] = calls[k]
             /\ calls'[m].from = Owner[q.tab] /\ calls'[m].to = q.to /\ q.to # {}
             /\ calls'[m].from \notin calls'[m].to
             /\ ~calls'[m].group => \A p, o \in q.to : p = o
             /\ SetActiveSession(q.tab, m)
             /\ session' = [session EXCEPT ![q.tab] = m]
             /\ \A t \in Tabs : Held(wire'[t]) =
                  IF t \in TabsOf(q.to)
                  THEN Held(wire[t]) \cup {[type |-> "incoming", call |-> m, all |-> FALSE]}
                  ELSE Held(wire[t])
             /\ \A t \in Tabs : Held(news'[t]) =
                  IF t \in Siblings(q.tab)
                  THEN Held(news[t]) \cup {[type |-> "started", call |-> m]}
                  ELSE Held(news[t])
             /\ requests' = requests \ {q} /\ onCall' = onCall \cup {q.tab}
             /\ touched' = touched \cup {session[q.tab]}
             /\ UNCHANGED <<incoming, elsewhere, open, finished>>
             /\ q.call = NoMeeting /\ q.tab \in Tabs /\ q.tab \in open
<1>0. /\ CallsType /\ q.tab \in open /\ q.tab \in Tabs /\ q.to \in SUBSET People
  BY DEF CallsInv, CallsType
<1>1. PICK m \in Meetings :
        /\ calls[m] = <<>>
        /\ calls' = [calls EXCEPT ![m] = [from |-> Owner[q.tab], to |-> q.to,
                                           group |-> Cardinality(q.to) > 1]]
        /\ Relay(q.to, "incoming", m, FALSE)
        /\ SetActiveSession(q.tab, m)
        /\ Announce(q.tab, <<"started">>, m)
  BY DEF RoomCreated
<1>2. /\ requests' = requests \ {q} /\ onCall' = onCall \cup {q.tab}
      /\ touched' = touched \cup {session[q.tab]}
      /\ UNCHANGED <<incoming, elsewhere, open, finished>>
      /\ q.call = NoMeeting
  BY DEF RoomCreated, Touch
<1>3. q.to # {} /\ IsFiniteSet(q.to) /\ Owner[q.tab] \notin q.to
  BY <1>2 DEF CallsInv, CallsKnown
<1>4. /\ calls'[m] = [from |-> Owner[q.tab], to |-> q.to, group |-> Cardinality(q.to) > 1]
      /\ \A k \in Meetings \ {m} : calls'[k] = calls[k]
  BY <1>0, <1>1 DEF CallsType
<1>5. calls'[m].from = Owner[q.tab] /\ calls'[m].to = q.to /\ calls'[m] # <<>>
  BY <1>4
<1>6. ~calls'[m].group => \A p, o \in q.to : p = o
  <2>1. calls'[m].group = (Cardinality(q.to) > 1)
    BY <1>4
  <2>2. Cardinality(q.to) \in Nat
    BY <1>3, FS_CardinalityType
  <2>3. ASSUME ~(Cardinality(q.to) > 1) PROVE \A p, o \in q.to : p = o
    BY <1>3, <2>3, AtMostOne
  <2> QED BY <2>1, <2>2, <2>3
<1>7. \A t \in Tabs : Held(wire'[t]) =
        IF t \in TabsOf(q.to)
        THEN Held(wire[t]) \cup {[type |-> "incoming", call |-> m, all |-> FALSE]}
        ELSE Held(wire[t])
  <2> DEFINE e == [type |-> "incoming", call |-> m, all |-> FALSE]
  <2>1. e \in Signal
    BY DEF Signal
  <2>2. wire' = [t \in Tabs |-> IF t \in TabsOf(q.to) THEN Append(wire[t], e) ELSE wire[t]]
    BY <1>1 DEF Relay
  <2> HIDE DEF e
  <2>3. \A t \in Tabs : Held(wire'[t]) =
          IF t \in TabsOf(q.to) THEN Held(wire[t]) \cup {e} ELSE Held(wire[t])
    BY <1>0, <2>1, <2>2, SignalHeld
  <2> QED BY <2>3 DEF e
<1>8. \A t \in Tabs : Held(news'[t]) =
        IF t \in Siblings(q.tab) THEN Held(news[t]) \cup {[type |-> "started", call |-> m]}
        ELSE Held(news[t])
  BY <1>0, <1>1, AnnounceOne
<1>9. session' = [session EXCEPT ![q.tab] = m]
  BY <1>1 DEF SetActiveSession
<1>10. SetActiveSession(q.tab, m) /\ calls[m] = <<>>
  BY <1>1
<1> HIDE DEF SetActiveSession
<1> QED BY <1>0, <1>10, <1>2, <1>3, <1>4, <1>5, <1>6, <1>7, <1>8, <1>9

\* An answer, once its token is there.
LEMMA AcceptedDoes ==
    ASSUME CallsInv, NEW q \in requests, Accepted(q)
    PROVE  /\ q.call \in Meetings /\ q.tab \in Tabs /\ q.tab \in open
           /\ calls[q.call] # <<>> /\ Owner[q.tab] \in calls[q.call].to
           /\ requests' = requests \ {q}
           /\ incoming' = [incoming EXCEPT ![q.tab] = NoMeeting]
           /\ SetActiveSession(q.tab, q.call)
           /\ session' = [session EXCEPT ![q.tab] = q.call]
           /\ \A t \in Tabs : Held(news'[t]) =
                IF t \in Siblings(q.tab)
                THEN Held(news[t]) \cup {[type |-> "cleared", call |-> q.call],
                                         [type |-> "started", call |-> q.call]}
                ELSE Held(news[t])
           /\ onCall' = onCall \cup {q.tab}
           /\ touched' = touched \cup ({session[q.tab], incoming[q.tab]} \ {q.call})
           /\ UNCHANGED <<calls, elsewhere, open, wire, finished>>
<1>1. CallsType /\ q.tab \in open /\ q.tab \in Tabs /\ q.call \in Meetings
  BY DEF CallsInv, CallsType, MaybeCall, Accepted
<1>2. calls[q.call] # <<>> /\ Owner[q.tab] \in calls[q.call].to
  BY DEF CallsInv, CallsKnown, Accepted
<1>3. /\ requests' = requests \ {q}
      /\ incoming' = [incoming EXCEPT ![q.tab] = NoMeeting]
      /\ SetActiveSession(q.tab, q.call)
      /\ Announce(q.tab, <<"cleared", "started">>, q.call)
      /\ onCall' = onCall \cup {q.tab}
      /\ touched' = touched \cup ({session[q.tab], incoming[q.tab]} \ {q.call})
      /\ UNCHANGED <<calls, elsewhere, open, wire, finished>>
  BY DEF Accepted, Touch
<1>4. session' = [session EXCEPT ![q.tab] = q.call]
  BY <1>3 DEF SetActiveSession
<1>5. \A t \in Tabs : Held(news'[t]) =
        IF t \in Siblings(q.tab)
        THEN Held(news[t]) \cup {[type |-> "cleared", call |-> q.call],
                                 [type |-> "started", call |-> q.call]}
        ELSE Held(news[t])
  BY <1>1, <1>3, AnnounceTwo
<1> QED BY <1>1, <1>2, <1>3, <1>4, <1>5

\* A call declined, or not answered in time.
LEMMA RejectDoes ==
    ASSUME CallsInv, NEW t \in Tabs, Reject(t)
    PROVE  /\ incoming[t] \in Meetings /\ t \in open /\ calls[incoming[t]] # <<>>
           /\ Owner[t] \in calls[incoming[t]].to
           /\ incoming' = [incoming EXCEPT ![t] = NoMeeting]
           /\ finished' = finished \cup {incoming[t]}
           /\ touched' = touched \cup
                (IF Engaged({Owner[t]}, incoming[t]) THEN {incoming[t]} ELSE {})
           /\ \A u \in Tabs : Held(wire'[u]) =
                IF u \in TabsOf({calls[incoming[t]].from})
                THEN Held(wire[u]) \cup {[type |-> "rejected", call |-> incoming[t], all |-> FALSE]}
                ELSE Held(wire[u])
           /\ \A u \in Tabs : Held(news'[u]) =
                IF u \in Siblings(t)
                THEN Held(news[u]) \cup {[type |-> "cleared", call |-> incoming[t]]}
                ELSE Held(news[u])
           /\ UNCHANGED <<calls, session, elsewhere, open, onCall, requests, sdk, saw, gone>>
<1> DEFINE m == incoming[t]
           who == {calls[m].from}
           e == [type |-> "rejected", call |-> m, all |-> FALSE]
<1>1. CallsType /\ m \in Meetings /\ t \in open
  BY DEF CallsInv, CallsType, MaybeCall, Reject
<1>2. calls[m] # <<>> /\ Owner[t] \in calls[m].to
  BY <1>1, CallsAssumption DEF CallsInv, CallsKnown
<1>3. wire' = [u \in Tabs |-> IF u \in TabsOf(who) THEN Append(wire[u], e) ELSE wire[u]]
  BY DEF Reject, Relay
<1>4. e \in Signal
  BY <1>1 DEF Signal, Over
<1>5. Announce(t, <<"cleared">>, m)
  BY DEF Reject
<1>6. /\ incoming' = [incoming EXCEPT ![t] = NoMeeting]
      /\ finished' = finished \cup {m}
      /\ touched' = touched \cup (IF Engaged({Owner[t]}, m) THEN {m} ELSE {})
      /\ UNCHANGED <<calls, session, elsewhere, open, onCall, requests, sdk, saw, gone>>
  BY DEF Reject, Touch, meeting
<1> HIDE DEF m, who, e
<1>7. \A u \in Tabs : Held(wire'[u]) =
        IF u \in TabsOf(who) THEN Held(wire[u]) \cup {e} ELSE Held(wire[u])
  BY <1>1, <1>3, <1>4, SignalHeld
<1>8. \A u \in Tabs : Held(news'[u]) =
        IF u \in Siblings(t) THEN Held(news[u]) \cup {[type |-> "cleared", call |-> m]}
        ELSE Held(news[u])
  BY <1>1, <1>5, AnnounceOne
<1> QED BY <1>1, <1>2, <1>6, <1>7, <1>8 DEF m, who, e

\* A tab that is closed: what it tells, and what is over then.
LEMMA CloseTabDoes ==
    ASSUME CallsInv, NEW t \in Tabs, CloseTab(t)
    PROVE  /\ t \in open /\ open' = open \ {t} /\ onCall' = onCall \ {t}
           /\ session' = [session EXCEPT ![t] = NoMeeting]
           /\ incoming' = [incoming EXCEPT ![t] = NoMeeting]
           /\ elsewhere' = [elsewhere EXCEPT ![t] = NoMeeting]
           /\ requests' = {q \in requests : q.tab # t}
           /\ UNCHANGED calls
           /\ SetActiveSession(t, NoMeeting)
           /\ \/ /\ Shell(t) /\ ~Group(session[t]) /\ sdk[t] # "leaving"
                 /\ session[t] \in Meetings /\ finished' = finished \cup {session[t]}
                 /\ \A u \in Tabs : Held(wire'[u]) =
                      IF u \in TabsOf(SignalPeers(t, session[t]))
                      THEN Held(wire[u]) \cup {[type |-> "ended", call |-> session[t], all |-> FALSE]}
                      ELSE Held(wire[u])
              \/ /\ ~(Shell(t) /\ ~Group(session[t]) /\ sdk[t] # "leaving")
                 /\ UNCHANGED <<wire, finished>>
           /\ \/ /\ Shell(t) /\ session[t] \in Meetings
                 /\ \A u \in Tabs : Held(news'[u]) =
                      IF u \in Siblings(t) THEN Held(news[u]) \cup {[type |-> "ended", call |-> session[t]]}
                      ELSE Held(news[u])
              \/ ~Shell(t) /\ UNCHANGED news
           /\ touched' = touched \cup
                (IF Shell(t) /\ \A q \in requests : q.call # session[t] THEN {} ELSE {session[t]})
<1>1. CallsType
  BY DEF CallsInv
<1>2. ASSUME Shell(t) PROVE session[t] \in Meetings
  BY <1>1, <1>2 DEF Shell, CallsType, MaybeCall
<1>3. /\ t \in open /\ open' = open \ {t} /\ onCall' = onCall \ {t}
      /\ incoming' = [incoming EXCEPT ![t] = NoMeeting]
      /\ elsewhere' = [elsewhere EXCEPT ![t] = NoMeeting]
      /\ requests' = {q \in requests : q.tab # t}
      /\ UNCHANGED calls
      /\ SetActiveSession(t, NoMeeting)
  BY DEF CloseTab
<1>4. session' = [session EXCEPT ![t] = NoMeeting]
  BY <1>3 DEF SetActiveSession
<1>5. touched' = touched \cup
        (IF Shell(t) /\ \A q \in requests : q.call # session[t] THEN {} ELSE {session[t]})
  BY DEF CloseTab, Touch
<1>6. \/ /\ Shell(t) /\ session[t] \in Meetings
         /\ \A u \in Tabs : Held(news'[u]) =
              IF u \in Siblings(t) THEN Held(news[u]) \cup {[type |-> "ended", call |-> session[t]]}
              ELSE Held(news[u])
      \/ ~Shell(t) /\ UNCHANGED news
  <2>1. CASE Shell(t)
    <3>1. Announce(t, <<"ended">>, session[t])
      BY <2>1 DEF CloseTab
    <3> QED BY <1>1, <1>2, <2>1, <3>1, AnnounceOne
  <2>2. CASE ~Shell(t)
    BY <2>2 DEF CloseTab
  <2> QED BY <2>1, <2>2
<1>7. \/ /\ Shell(t) /\ ~Group(session[t]) /\ sdk[t] # "leaving"
         /\ session[t] \in Meetings /\ finished' = finished \cup {session[t]}
         /\ \A u \in Tabs : Held(wire'[u]) =
              IF u \in TabsOf(SignalPeers(t, session[t]))
              THEN Held(wire[u]) \cup {[type |-> "ended", call |-> session[t], all |-> FALSE]}
              ELSE Held(wire[u])
      \/ /\ ~(Shell(t) /\ ~Group(session[t]) /\ sdk[t] # "leaving")
         /\ UNCHANGED <<wire, finished>>
  <2>1. CASE Shell(t) /\ ~Group(session[t]) /\ sdk[t] # "leaving"
    <3> DEFINE who == SignalPeers(t, session[t])
               e == [type |-> "ended", call |-> session[t], all |-> FALSE]
    <3>1. /\ wire' = [u \in Tabs |-> IF u \in TabsOf(who) THEN Append(wire[u], e) ELSE wire[u]]
          /\ finished' = finished \cup {session[t]}
      BY <2>1 DEF CloseTab, Relay
    <3>2. e \in Signal
      BY <1>2, <2>1 DEF Signal, Over
    <3> HIDE DEF who, e
    <3>3. \A u \in Tabs : Held(wire'[u]) =
            IF u \in TabsOf(who) THEN Held(wire[u]) \cup {e} ELSE Held(wire[u])
      BY <1>1, <3>1, <3>2, SignalHeld
    <3> QED BY <1>2, <2>1, <3>1, <3>3 DEF who, e
  <2>2. CASE ~(Shell(t) /\ ~Group(session[t]) /\ sdk[t] # "leaving")
    BY <2>2 DEF CloseTab
  <2> QED BY <2>1, <2>2
<1> HIDE DEF SetActiveSession
<1> QED BY <1>3, <1>4, <1>5, <1>6, <1>7

-----------------------------------------------------------------------------
(* Calls: how a call gets over *)

\* Somebody in a call ends it: the tab leaves, and the peers are told.
Ends(t) ==
    /\ Shell(t) /\ session[t] \in Meetings
    /\ finished' = finished \cup {session[t]}
    /\ session'[t] # session[t] \/ sdk'[t] = "leaving"
    /\ \E all \in BOOLEAN : \A u \in Tabs : Held(wire'[u]) =
         IF u \in TabsOf(SignalPeers(t, session[t]))
         THEN Held(wire[u]) \cup {[type |-> "ended", call |-> session[t], all |-> all]}
         ELSE Held(wire[u])
    /\ \A q \in requests : q.call = session[t] => session[t] \in touched'
    /\ \A u \in Tabs \ {t} : session'[u] = session[u] /\ incoming'[u] = incoming[u]
    /\ requests' \subseteq requests /\ UNCHANGED calls
    /\ \A u \in Tabs : Held(news[u]) \subseteq Held(news'[u])

\* Hanging up, at once or by leaving.
LEMMA ExitDoes ==
    ASSUME CallsInv, NEW t \in Tabs, session[t] \in Meetings, Exit(t)
    PROVE  /\ session'[t] # session[t] \/ sdk'[t] = "leaving"
           /\ \A u \in Tabs \ {t} : session'[u] = session[u]
<1>1. session \in [Tabs -> MaybeCall] /\ sdk \in [Tabs -> {"out", "joining", "in", "leaving", "left"}]
  BY DEF CallsInv, CallsType
<1>2. CASE sdk[t] \in {"in", "leaving"}
  BY <1>1, <1>2 DEF Exit, SafeLeave
<1>3. CASE sdk[t] \notin {"in", "leaving"}
  BY <1>1, <1>3, CallsAssumption DEF Exit, SetActiveSession
<1> QED BY <1>2, <1>3

\* Telling the peers, of a call that nobody is about to answer or that is
\* touched then.
LEMMA NotifyDoes ==
    ASSUME CallsInv, NEW t \in Tabs, Shell(t), NEW all \in BOOLEAN, NotifyPeersEndCall(t, all)
    PROVE  /\ session[t] \in Meetings /\ finished' = finished \cup {session[t]}
           /\ \A u \in Tabs : Held(wire'[u]) =
                IF u \in TabsOf(SignalPeers(t, session[t]))
                THEN Held(wire[u]) \cup {[type |-> "ended", call |-> session[t], all |-> all]}
                ELSE Held(wire[u])
           /\ \A q \in requests : q.call = session[t] => session[t] \in touched'
<1>1. CallsType /\ session[t] \in Meetings
  BY DEF CallsInv, CallsType, Shell, MaybeCall
<1>2. \A q \in requests : q.call = session[t] => session[t] \in touched'
  BY DEF NotifyPeersEndCall, Touch
<1>3. /\ finished' = finished \cup {session[t]}
      /\ \A u \in Tabs : Held(wire'[u]) =
           IF u \in TabsOf(SignalPeers(t, session[t]))
           THEN Held(wire[u]) \cup {[type |-> "ended", call |-> session[t], all |-> all]}
           ELSE Held(wire[u])
  BY <1>1, NotifyType
<1> QED BY <1>1, <1>2, <1>3

\* A call gets over because it is declined, or because somebody in it ends it.
LEMMA OverBy ==
    ASSUME CallsInv, [CallsNext]_callVars, finished' # finished
    PROVE  \E t \in Tabs : Reject(t) \/ Ends(t)
<1>0. /\ CallsType /\ InCompany
      /\ session \in [Tabs -> MaybeCall] /\ incoming \in [Tabs -> MaybeCall]
      /\ sdk \in [Tabs -> {"out", "joining", "in", "leaving", "left"}]
  BY DEF CallsInv, CallsType
<1>1. ASSUME NEW t \in Tabs, CloseTab(t) PROVE Ends(t)
  <2>1. /\ session' = [session EXCEPT ![t] = NoMeeting]
        /\ incoming' = [incoming EXCEPT ![t] = NoMeeting]
        /\ requests' = {q \in requests : q.tab # t} /\ UNCHANGED calls
    BY <1>1, CloseTabDoes
  <2>2. /\ Shell(t) /\ session[t] \in Meetings /\ finished' = finished \cup {session[t]}
        /\ \A u \in Tabs : Held(wire'[u]) =
             IF u \in TabsOf(SignalPeers(t, session[t]))
             THEN Held(wire[u]) \cup {[type |-> "ended", call |-> session[t], all |-> FALSE]}
             ELSE Held(wire[u])
    BY <1>1, CloseTabDoes
  <2>3. \A u \in Tabs : Held(news[u]) \subseteq Held(news'[u])
    BY <1>1, <2>2, CloseTabDoes
  <2>4. \A q \in requests : q.call = session[t] => session[t] \in touched'
    BY <1>1, CloseTabDoes
  <2>5. session'[t] # session[t]
    BY <1>0, <2>1, <2>2, CallsAssumption
  <2>6. \A u \in Tabs \ {t} : session'[u] = session[u] /\ incoming'[u] = incoming[u]
    BY <1>0, <2>1
  <2>7. \E all \in BOOLEAN : \A u \in Tabs : Held(wire'[u]) =
          IF u \in TabsOf(SignalPeers(t, session[t]))
          THEN Held(wire[u]) \cup {[type |-> "ended", call |-> session[t], all |-> all]}
          ELSE Held(wire[u])
    BY <2>2
  <2>8. requests' \subseteq requests
    BY <2>1
  <2> QED BY <2>1, <2>2, <2>3, <2>4, <2>5, <2>6, <2>7, <2>8 DEF Ends
<1>2. ASSUME NEW t \in Tabs, Shell(t), NEW all \in BOOLEAN, NotifyPeersEndCall(t, all),
             session'[t] # session[t] \/ sdk'[t] = "leaving",
             \A u \in Tabs \ {t} : session'[u] = session[u],
             UNCHANGED <<calls, incoming, requests, news>>
      PROVE  Ends(t)
  <2>1. /\ session[t] \in Meetings /\ finished' = finished \cup {session[t]}
        /\ \A u \in Tabs : Held(wire'[u]) =
             IF u \in TabsOf(SignalPeers(t, session[t]))
             THEN Held(wire[u]) \cup {[type |-> "ended", call |-> session[t], all |-> all]}
             ELSE Held(wire[u])
        /\ \A q \in requests : q.call = session[t] => session[t] \in touched'
    BY <1>2, NotifyDoes
  <2>2. \E a \in BOOLEAN : \A u \in Tabs : Held(wire'[u]) =
          IF u \in TabsOf(SignalPeers(t, session[t]))
          THEN Held(wire[u]) \cup {[type |-> "ended", call |-> session[t], all |-> a]}
          ELSE Held(wire[u])
    BY <2>1
  <2>3. incoming' = incoming /\ requests' = requests /\ news' = news /\ calls' = calls
    BY <1>2
  <2>4. \A u \in Tabs : Held(news[u]) \subseteq Held(news'[u])
    BY <2>3
  <2>5. \A u \in Tabs \ {t} : session'[u] = session[u] /\ incoming'[u] = incoming[u]
    BY <1>2, <2>3
  <2>6. session'[t] # session[t] \/ sdk'[t] = "leaving"
    BY <1>2
  <2>7. Shell(t)
    BY <1>2
  <2> QED BY <2>1, <2>2, <2>3, <2>4, <2>5, <2>6, <2>7 DEF Ends
<1>3. ASSUME NEW t \in Tabs, ParticipantLeft(t) PROVE Ends(t)
  <2>1. ~Group(session[t]) /\ sdk[t] = "in"
    BY <1>3 DEF ParticipantLeft
  <2>2. NotifyPeersEndCall(t, FALSE) /\ SafeLeave(t) /\ t \in gone
        /\ UNCHANGED <<calls, session, incoming, requests, news>>
    BY <1>3, <2>1 DEF ParticipantLeft, store
  <2>3. Shell(t) /\ sdk'[t] = "leaving"
    BY <1>0, <2>1, <2>2 DEF InCompany, SafeLeave
  <2>4. \A u \in Tabs \ {t} : session'[u] = session[u]
    BY <2>2
  <2> QED BY <1>2, <2>2, <2>3, <2>4
<1>4. ASSUME NEW t \in Tabs, NoAnswer(t) PROVE Ends(t)
  <2>2. NotifyPeersEndCall(t, FALSE) /\ SafeLeave(t) /\ Shell(t) /\ sdk[t] = "in"
        /\ UNCHANGED <<calls, session, incoming, requests, news>>
    BY <1>4 DEF NoAnswer, store
  <2>3. sdk'[t] = "leaving"
    BY <1>0, <2>2 DEF SafeLeave
  <2>4. \A u \in Tabs \ {t} : session'[u] = session[u]
    BY <2>2
  <2> QED BY <1>2, <2>2, <2>3, <2>4
<1>5. ASSUME NEW t \in Tabs, HangUp(t) PROVE Ends(t)
  <2>1. NotifyPeersEndCall(t, FALSE) /\ Exit(t) /\ Shell(t)
        /\ UNCHANGED <<calls, incoming, requests, news>>
    BY <1>5 DEF HangUp
  <2>2. session[t] \in Meetings
    BY <1>0, <2>1 DEF Shell, MaybeCall
  <2>3. /\ session'[t] # session[t] \/ sdk'[t] = "leaving"
        /\ \A u \in Tabs \ {t} : session'[u] = session[u]
    BY <2>1, <2>2, ExitDoes
  <2> QED BY <1>2, <2>1, <2>3
<1>6. ASSUME NEW t \in Tabs, EndForEveryone(t) PROVE Ends(t)
  <2>1. NotifyPeersEndCall(t, TRUE) /\ Exit(t) /\ Shell(t)
        /\ UNCHANGED <<calls, incoming, requests, news>>
    BY <1>6 DEF EndForEveryone
  <2>2. session[t] \in Meetings
    BY <1>0, <2>1 DEF Shell, MaybeCall
  <2>3. /\ session'[t] # session[t] \/ sdk'[t] = "leaving"
        /\ \A u \in Tabs \ {t} : session'[u] = session[u]
    BY <2>1, <2>2, ExitDoes
  <2> QED BY <1>2, <2>1, <2>3
<1> QED BY <1>1, <1>3, <1>4, <1>5, <1>6, OverChanges

-----------------------------------------------------------------------------
(* Calls: only calls that were made are spoken of *)

\* A call stays what it was made.
LEMMA CallLasts ==
    ASSUME CallsInv, [CallsNext]_callVars, NEW m \in Meetings, calls[m] # <<>>
    PROVE  calls'[m] = calls[m]
<1>1. CASE calls' = calls
  BY <1>1
<1>2. CASE calls' # calls
  <2>1. PICK q \in requests : RoomCreated(q)
    BY <1>2, RoomChanges
  <2> QED BY <2>1, RoomCreatedDoes
<1> QED BY <1>1, <1>2

\* A call of two that is not touched after a step was one before it, or was
\* made by it.
LEMMA PlainBefore ==
    ASSUME CallsInv, [CallsNext]_callVars, NEW m, Plain(m)', calls[m] # <<>>
    PROVE  Plain(m) /\ calls'[m] = calls[m]
<1>1. m \in Meetings /\ ~calls'[m].group /\ m \notin touched'
  BY DEF Plain, Placed, Group
<1> QED BY <1>1, CallLasts, OverChanges DEF Plain, Placed, Group

\* Nobody speaks of a room before its call is made.
LEMMA Unmade ==
    ASSUME CallsInv, NEW m \in Meetings, calls[m] = <<>>
    PROVE  /\ \A t \in Tabs : session[t] # m /\ incoming[t] # m
           /\ \A t \in Tabs : /\ \A e \in Held(wire[t]) : e.call # m
                              /\ \A e \in Held(news[t]) : e.call # m
           /\ \A q \in requests : q.call # m
           /\ m \notin finished
BY CallsAssumption DEF CallsInv, CallsKnown

\* What is said on the wires from now on: an invitation to those called, or
\* the end of a call that is over.
LEMMA WireSays ==
    ASSUME CallsInv, [CallsNext]_callVars, NEW t \in Tabs, NEW e \in Held(wire'[t]),
           e \notin Held(wire[t])
    PROVE  /\ e.call \in Meetings /\ calls'[e.call] # <<>>
           /\ \/ /\ e.type = "incoming" /\ calls[e.call] = <<>>
                 /\ Owner[t] \in calls'[e.call].to
              \/ e.type \in Over /\ e.call \in finished'
<1>1. ASSUME OnIncoming(t) \/ OnEnded(t) PROVE FALSE
  BY <1>1, HeardHeld DEF OnIncoming, OnEnded, CallsInv
<1>2. ASSUME SocketReplaced(t) PROVE FALSE
  <2>1. wire'[t] = <<>>
    BY <1>2 DEF SocketReplaced, CallsInv, CallsType
  <2> QED BY <2>1, HeldType DEF Held
<1>3. ASSUME NEW q \in requests, RoomCreated(q)
      PROVE  e.type = "incoming" /\ e.call \in Meetings /\ calls[e.call] = <<>>
             /\ calls'[e.call] # <<>> /\ Owner[t] \in calls'[e.call].to
  <2>1. PICK m \in Meetings :
          /\ calls[m] = <<>> /\ calls'[m] # <<>> /\ calls'[m].to = q.to
          /\ Held(wire'[t]) =
               IF t \in TabsOf(q.to)
               THEN Held(wire[t]) \cup {[type |-> "incoming", call |-> m, all |-> FALSE]}
               ELSE Held(wire[t])
    BY <1>3, RoomCreatedDoes
  <2>2. t \in TabsOf(q.to) /\ e = [type |-> "incoming", call |-> m, all |-> FALSE]
    BY <2>1
  <2> QED BY <2>1, <2>2 DEF TabsOf
<1>4. ASSUME NEW u \in Tabs, Reject(u)
      PROVE  e.type \in Over /\ e.call \in finished' /\ e.call \in Meetings /\ calls'[e.call] # <<>>
  <2>1. /\ incoming[u] \in Meetings /\ calls[incoming[u]] # <<>> /\ UNCHANGED calls
        /\ finished' = finished \cup {incoming[u]}
        /\ Held(wire'[t]) =
             IF t \in TabsOf({calls[incoming[u]].from})
             THEN Held(wire[t]) \cup {[type |-> "rejected", call |-> incoming[u], all |-> FALSE]}
             ELSE Held(wire[t])
    BY <1>4, RejectDoes
  <2>2. e = [type |-> "rejected", call |-> incoming[u], all |-> FALSE]
    BY <2>1
  <2> QED BY <2>1, <2>2 DEF Over
<1>5. ASSUME NEW u \in Tabs, Ends(u)
      PROVE  e.type \in Over /\ e.call \in finished' /\ e.call \in Meetings /\ calls'[e.call] # <<>>
  <2>1. calls[session[u]] # <<>> /\ session[u] # NoMeeting
    BY <1>5, CallsAssumption DEF Ends, CallsInv, CallsKnown
  <2>2. PICK all \in BOOLEAN : Held(wire'[t]) =
          IF t \in TabsOf(SignalPeers(u, session[u]))
          THEN Held(wire[t]) \cup {[type |-> "ended", call |-> session[u], all |-> all]}
          ELSE Held(wire[t])
    BY <1>5 DEF Ends
  <2>3. e = [type |-> "ended", call |-> session[u], all |-> all]
    BY <2>2
  <2> QED BY <1>5, <2>1, <2>3 DEF Ends, Over
<1>6. ASSUME finished' = finished, NEW u \in Tabs,
             CloseTab(u) \/ ParticipantLeft(u) \/ NoAnswer(u) \/ HangUp(u) \/ EndForEveryone(u)
      PROVE  e.type \in Over /\ e.call \in finished' /\ e.call \in Meetings /\ calls'[e.call] # <<>>
  <2>0. CallsType /\ InCompany
    BY DEF CallsInv
  <2>1. CASE CloseTab(u)
    <3>1. /\ session[u] \in Meetings /\ finished' = finished \cup {session[u]} /\ UNCHANGED calls
          /\ \A v \in Tabs : Held(wire'[v]) =
               IF v \in TabsOf(SignalPeers(u, session[u]))
               THEN Held(wire[v]) \cup {[type |-> "ended", call |-> session[u], all |-> FALSE]}
               ELSE Held(wire[v])
      BY <2>1, CloseTabDoes
    <3>2. e.type = "ended" /\ e.call = session[u]
      <4>1. Held(wire'[t]) =
              IF t \in TabsOf(SignalPeers(u, session[u]))
              THEN Held(wire[t]) \cup {[type |-> "ended", call |-> session[u], all |-> FALSE]}
              ELSE Held(wire[t])
        BY <3>1
      <4>2. e = [type |-> "ended", call |-> session[u], all |-> FALSE]
        BY <4>1
      <4> QED BY <4>2
    <3>3. calls[session[u]] # <<>>
      BY <3>1, CallsAssumption DEF CallsInv, CallsKnown
    <3> QED BY <3>1, <3>2, <3>3 DEF Over
  <2>2. CASE ~CloseTab(u)
    <3>1. \E all \in BOOLEAN : NotifyPeersEndCall(u, all)
      <4>1. wire' # wire
        OBVIOUS
      <4> QED BY <1>6, <2>2, <4>1 DEF ParticipantLeft, NoAnswer, HangUp, EndForEveryone
    <3>2. PICK all \in BOOLEAN : NotifyPeersEndCall(u, all)
      BY <3>1
    <3>3. Shell(u) /\ UNCHANGED calls
      BY <1>6, <2>0, <2>2
         DEF ParticipantLeft, NoAnswer, HangUp, EndForEveryone, InCompany
    <3>4. /\ session[u] \in Meetings /\ finished' = finished \cup {session[u]}
          /\ \A v \in Tabs : Held(wire'[v]) =
               IF v \in TabsOf(SignalPeers(u, session[u]))
               THEN Held(wire[v]) \cup {[type |-> "ended", call |-> session[u], all |-> all]}
               ELSE Held(wire[v])
      BY <3>2, <3>3, NotifyDoes
    <3>5. e.type = "ended" /\ e.call = session[u]
      <4>1. Held(wire'[t]) =
              IF t \in TabsOf(SignalPeers(u, session[u]))
              THEN Held(wire[t]) \cup {[type |-> "ended", call |-> session[u], all |-> all]}
              ELSE Held(wire[t])
        BY <3>4
      <4>2. e = [type |-> "ended", call |-> session[u], all |-> all]
        BY <4>1
      <4> QED BY <4>2
    <3>6. calls[session[u]] # <<>>
      BY <3>4, CallsAssumption DEF CallsInv, CallsKnown
    <3> QED BY <3>3, <3>4, <3>5, <3>6 DEF Over
  <2> QED BY <2>1, <2>2
<1>7. wire'[t] # wire[t]
  OBVIOUS
<1>8. CASE finished' = finished
  BY <1>1, <1>2, <1>3, <1>4, <1>6, <1>7, <1>8, WireChanges
<1>9. CASE finished' # finished
  <2>1. PICK u \in Tabs : Reject(u) \/ Ends(u)
    BY <1>9, OverBy
  <2> QED BY <1>4, <1>5, <2>1
<1> QED BY <1>8, <1>9

\* What is broadcast from now on is about a call that was made.
LEMMA NewsSays ==
    ASSUME CallsInv, [CallsNext]_callVars, NEW t \in Tabs, NEW e \in Held(news'[t]),
           e \notin Held(news[t])
    PROVE  /\ e.call \in Meetings /\ calls'[e.call] # <<>>
           /\ e.type = "ended" => \E u \in Tabs :
                /\ e.call = session[u] /\ Shell(u)
                /\ CloseTab(u) \/ (MeetingLeft(u) /\ sdk[u] = "leaving")
<1>1. ASSUME OnNews(t) PROVE FALSE
  BY <1>1, NewsHeld DEF CallsInv
<1>2. ASSUME NEW q \in requests, RoomCreated(q)
      PROVE  e.call \in Meetings /\ calls'[e.call] # <<>> /\ e.type # "ended"
  <2>1. PICK m \in Meetings :
          /\ calls'[m] # <<>>
          /\ Held(news'[t]) =
               IF t \in Siblings(q.tab) THEN Held(news[t]) \cup {[type |-> "started", call |-> m]}
               ELSE Held(news[t])
    BY <1>2, RoomCreatedDoes
  <2>2. e = [type |-> "started", call |-> m]
    BY <2>1
  <2> QED BY <2>1, <2>2
<1>3. ASSUME NEW q \in requests, Accepted(q)
      PROVE  e.call \in Meetings /\ calls'[e.call] # <<>> /\ e.type # "ended"
  <2>1. /\ q.call \in Meetings /\ calls[q.call] # <<>> /\ UNCHANGED calls
        /\ Held(news'[t]) =
             IF t \in Siblings(q.tab)
             THEN Held(news[t]) \cup {[type |-> "cleared", call |-> q.call],
                                      [type |-> "started", call |-> q.call]}
             ELSE Held(news[t])
    BY <1>3, AcceptedDoes
  <2>2. e = [type |-> "cleared", call |-> q.call] \/ e = [type |-> "started", call |-> q.call]
    BY <2>1
  <2>3. e.call = q.call /\ e.type # "ended"
    BY <2>2
  <2> QED BY <2>1, <2>3
<1>4. ASSUME NEW u \in Tabs, Reject(u)
      PROVE  e.call \in Meetings /\ calls'[e.call] # <<>> /\ e.type # "ended"
  <2>1. /\ incoming[u] \in Meetings /\ calls[incoming[u]] # <<>> /\ UNCHANGED calls
        /\ Held(news'[t]) =
             IF t \in Siblings(u) THEN Held(news[t]) \cup {[type |-> "cleared", call |-> incoming[u]]}
             ELSE Held(news[t])
    BY <1>4, RejectDoes
  <2>2. e = [type |-> "cleared", call |-> incoming[u]]
    BY <2>1
  <2> QED BY <2>1, <2>2
<1>5. ASSUME NEW u \in Tabs, session[u] \in Meetings PROVE calls[session[u]] # <<>>
  BY <1>5, CallsAssumption DEF CallsInv, CallsKnown
<1>6. ASSUME NEW u \in Tabs, CloseTab(u)
      PROVE  e.call = session[u] /\ Shell(u) /\ e.call \in Meetings /\ calls'[e.call] # <<>>
  <2>1. /\ Shell(u) /\ session[u] \in Meetings /\ UNCHANGED calls
        /\ \A v \in Tabs : Held(news'[v]) =
             IF v \in Siblings(u) THEN Held(news[v]) \cup {[type |-> "ended", call |-> session[u]]}
             ELSE Held(news[v])
    BY <1>6, CloseTabDoes
  <2>4. Held(news'[t]) =
          IF t \in Siblings(u) THEN Held(news[t]) \cup {[type |-> "ended", call |-> session[u]]}
          ELSE Held(news[t])
    BY <2>1
  <2>5. e = [type |-> "ended", call |-> session[u]]
    BY <2>4
  <2> QED BY <1>5, <2>1, <2>5
<1>7. ASSUME NEW u \in Tabs, ReturnToCall(u)
      PROVE  e.call \in Meetings /\ calls'[e.call] # <<>> /\ e.type # "ended"
  <2>1. session[u] \in Meetings /\ Announce(u, <<"started">>, session[u]) /\ UNCHANGED calls
    BY <1>7 DEF ReturnToCall, CallsInv, CallsType, MaybeCall
  <2>2. \A v \in Tabs : Held(news'[v]) =
          IF v \in Siblings(u) THEN Held(news[v]) \cup {[type |-> "started", call |-> session[u]]}
          ELSE Held(news[v])
    BY <2>1, AnnounceOne DEF CallsInv
  <2>4. Held(news'[t]) =
          IF t \in Siblings(u) THEN Held(news[t]) \cup {[type |-> "started", call |-> session[u]]}
          ELSE Held(news[t])
    BY <2>2
  <2>5. e = [type |-> "started", call |-> session[u]]
    BY <2>4
  <2> QED BY <1>5, <2>1, <2>2, <2>5
<1>8. ASSUME NEW u \in Tabs, MeetingLeft(u)
      PROVE  /\ e.call = session[u] /\ Shell(u) /\ e.call \in Meetings /\ calls'[e.call] # <<>>
             /\ sdk[u] = "leaving"
  <2>1. Shell(u) /\ Announce(u, <<"ended">>, session[u]) /\ UNCHANGED calls /\ sdk[u] = "leaving"
    BY <1>8 DEF MeetingLeft
  <2>2. session[u] \in Meetings
    BY <2>1 DEF Shell, CallsInv, CallsType, MaybeCall
  <2>3. \A v \in Tabs : Held(news'[v]) =
          IF v \in Siblings(u) THEN Held(news[v]) \cup {[type |-> "ended", call |-> session[u]]}
          ELSE Held(news[v])
    BY <2>1, <2>2, AnnounceOne DEF CallsInv
  <2>4. Held(news'[t]) =
          IF t \in Siblings(u) THEN Held(news[t]) \cup {[type |-> "ended", call |-> session[u]]}
          ELSE Held(news[t])
    BY <2>3
  <2>5. e = [type |-> "ended", call |-> session[u]]
    BY <2>4
  <2> QED BY <1>5, <2>1, <2>2, <2>3, <2>5
<1>9. news'[t] # news[t]
  OBVIOUS
<1> QED BY <1>1, <1>2, <1>3, <1>4, <1>6, <1>7, <1>8, <1>9, NewsChanges

\* Every step speaks only of calls that were made, and to those they are of.
LEMMA CallsKnownStep ==
    ASSUME CallsInv, [CallsNext]_callVars PROVE CallsKnown'
<1>0. /\ CallsType /\ CallsKnown /\ CallsType'
      /\ session \in [Tabs -> MaybeCall] /\ incoming \in [Tabs -> MaybeCall]
  BY CallsTypeStep DEF CallsInv, CallsType
<1>1. ASSUME NEW m \in Meetings, calls'[m] # <<>>
      PROVE  /\ calls'[m].from \notin calls'[m].to
             /\ ~calls'[m].group => \A p, o \in calls'[m].to : p = o
  <2>1. CASE calls[m] # <<>>
    BY <1>0, <2>1, CallLasts DEF CallsKnown, Group
  <2>2. CASE calls[m] = <<>>
    <3>1. PICK q \in requests : RoomCreated(q)
      BY <1>1, <2>2, RoomChanges
    <3> QED BY <1>1, <2>2, <3>1, RoomCreatedDoes
  <2> QED BY <2>1, <2>2
<1>2. ASSUME NEW q \in requests'
      PROVE  /\ q.call = NoMeeting => q.to # {} /\ IsFiniteSet(q.to) /\ Owner[q.tab] \notin q.to
             /\ q.call # NoMeeting => calls'[q.call] # <<>> /\ Owner[q.tab] \in calls'[q.call].to
  <2>1. CASE q \in requests
    <3>1. q.call \in MaybeCall
      BY <1>0, <2>1 DEF CallsType
    <3> QED BY <1>0, <2>1, <3>1, CallLasts DEF CallsKnown, MaybeCall
  <2>2. CASE q \notin requests
    <3>1. PICK t \in Tabs : Accept(t) \/ \E who \in SUBSET People : StartOutgoingCall(t, who)
      BY <2>2, RequestChanges
    <3>2. CASE Accept(t)
      <4>1. q.tab = t /\ q.call = incoming[t] /\ incoming[t] # NoMeeting /\ UNCHANGED calls
        BY <1>2, <2>2, <3>2 DEF Accept, Banner
      <4> QED BY <1>0, <4>1 DEF CallsKnown
    <3>3. ASSUME NEW who \in SUBSET People, StartOutgoingCall(t, who)
          PROVE  q.to # {} /\ IsFiniteSet(q.to) /\ Owner[q.tab] \notin q.to /\ q.call = NoMeeting
      <4>1. /\ q.tab = t /\ q.to = who /\ q.call = NoMeeting /\ who # {}
            /\ who \subseteq {Owner[u] : u \in open \ {t}} \ {Owner[t]}
        BY <1>2, <2>2, <3>3 DEF StartOutgoingCall
      <4>2. IsFiniteSet(open \ {t})
        BY <1>0, FS_Subset, CallsAssumption DEF CallsType
      <4>3. IsFiniteSet({Owner[u] : u \in open \ {t}})
        <5> DEFINE S == open \ {t}
                   T == {Owner[u] : u \in S}
                   f == [u \in S |-> Owner[u]]
        <5>1. f \in Surjection(S, T)
          BY DEF Surjection
        <5> HIDE DEF f
        <5>2. IsFiniteSet(T)
          BY <4>2, <5>1, FS_Surjection
        <5> QED BY <5>2
      <4>4. IsFiniteSet(who)
        BY <4>1, <4>3, FS_Subset
      <4> QED BY <4>1, <4>4
    <3> QED BY <3>1, <3>2, <3>3, <1>0
  <2> QED BY <2>1, <2>2
<1>3. ASSUME NEW t \in Tabs, session'[t] # NoMeeting
      PROVE  /\ t \in open' /\ calls'[session'[t]] # <<>>
             /\ Owner[t] \in calls'[session'[t]].to \cup {calls'[session'[t]].from}
  <2>1. CASE session'[t] = session[t]
    <3>1. t \in open'
      <4>1. t \in open
        BY <1>0, <1>3, <2>1 DEF CallsKnown
      <4>2. ~CloseTab(t)
        BY <1>0, <1>3, CloseTabDoes
      <4> QED BY <4>1, <4>2, OpenChanges
    <3>2. session[t] \in Meetings /\ calls[session[t]] # <<>>
      BY <1>0, <1>3, <2>1 DEF CallsKnown, MaybeCall
    <3> QED BY <1>0, <1>3, <2>1, <3>1, <3>2, CallLasts DEF CallsKnown
  <2>2. ASSUME NEW q \in requests, q.tab = t, RoomCreated(q)
        PROVE  t \in open' /\ calls'[session'[t]] # <<>> /\ Owner[t] = calls'[session'[t]].from
    BY <1>0, <2>2, RoomCreatedDoes
  <2>3. ASSUME NEW q \in requests, q.tab = t, Accepted(q)
        PROVE  t \in open' /\ calls'[session'[t]] # <<>> /\ Owner[t] \in calls'[session'[t]].to
    BY <1>0, <2>3, AcceptedDoes
  <2>4. ASSUME OnEnded(t) \/ OnNews(t) \/ Failure(t) \/ HangUp(t) \/ EndForEveryone(t)
                 \/ MeetingLeft(t) \/ CloseTab(t)
        PROVE  session'[t] = session[t] \/ session'[t] = NoMeeting
    BY <1>0, <2>4 DEF OnEnded, OnNews, Failure, HangUp, EndForEveryone, Exit, MeetingLeft, CloseTab,
       SetActiveSession
  <2> QED BY <1>3, <2>1, <2>2, <2>3, <2>4, SessionChanges
<1>4. ASSUME NEW t \in Tabs, incoming'[t] # NoMeeting
      PROVE  t \in open' /\ calls'[incoming'[t]] # <<>> /\ Owner[t] \in calls'[incoming'[t]].to
  <2>1. CASE incoming'[t] = incoming[t]
    <3>1. t \in open'
      <4>1. t \in open
        BY <1>0, <1>4, <2>1 DEF CallsKnown
      <4>2. ~CloseTab(t)
        BY <1>0, <1>4, CloseTabDoes
      <4> QED BY <4>1, <4>2, OpenChanges
    <3>2. incoming[t] \in Meetings /\ calls[incoming[t]] # <<>>
      BY <1>0, <1>4, <2>1 DEF CallsKnown, MaybeCall
    <3> QED BY <1>0, <1>4, <2>1, <3>1, <3>2, CallLasts DEF CallsKnown
  <2>2. CASE incoming'[t] # incoming[t]
    <3>1. OnIncoming(t)
      BY <1>4, <2>2, IncomingChanges
    <3>2. Heard(t, "incoming") /\ incoming'[t] = Head(wire[t]).call
      BY <1>0, <2>2, <3>1 DEF OnIncoming
    <3>3. t \in open /\ Head(wire[t]) \in Held(wire[t]) /\ Head(wire[t]).type = "incoming"
      BY <1>0, <3>2, HeardHeld
    <3>4. UNCHANGED <<calls, open>>
      BY <3>2 DEF Heard
    <3> QED BY <1>0, <3>2, <3>3, <3>4 DEF CallsKnown
  <2> QED BY <2>1, <2>2
<1>5. ASSUME NEW t \in Tabs, NEW e \in Held(wire'[t])
      PROVE  calls'[e.call] # <<>> /\ (e.type = "incoming" => Owner[t] \in calls'[e.call].to)
  <2>1. CASE e \in Held(wire[t])
    <3>1. e.call \in Meetings
      BY <1>0, <2>1, HeldTyped
    <3> QED BY <1>0, <2>1, <3>1, CallLasts DEF CallsKnown
  <2>2. CASE e \notin Held(wire[t])
    BY <2>2, <1>5, WireSays DEF Over
  <2> QED BY <2>1, <2>2
<1>6. ASSUME NEW t \in Tabs, NEW e \in Held(news'[t]) PROVE calls'[e.call] # <<>>
  <2>1. CASE e \in Held(news[t])
    <3>1. e.call \in Meetings
      BY <1>0, <2>1, HeldTyped
    <3> QED BY <1>0, <2>1, <3>1, CallLasts DEF CallsKnown
  <2>2. CASE e \notin Held(news[t])
    BY <1>6, <2>2, NewsSays
  <2> QED BY <2>1, <2>2
<1>7. ASSUME NEW m \in finished' PROVE calls'[m] # <<>>
  <2>1. CASE m \in finished
    BY <1>0, <2>1, CallLasts DEF CallsKnown, CallsType
  <2>2. CASE m \notin finished
    <3>1. PICK t \in Tabs : Reject(t) \/ Ends(t)
      BY <1>7, <2>2, OverBy
    <3>2. CASE Reject(t)
      BY <1>7, <2>2, <3>2, RejectDoes
    <3>3. CASE Ends(t)
      BY <1>0, <1>7, <2>2, <3>3, CallsAssumption DEF Ends, CallsKnown
    <3> QED BY <3>1, <3>2, <3>3
  <2> QED BY <2>1, <2>2
<1> QED BY <1>1, <1>2, <1>3, <1>4, <1>5, <1>6, <1>7 DEF CallsKnown, Group

-----------------------------------------------------------------------------
(* Calls: joining, leaving, and what is heard *)

\* Who leaves a call of two that nothing touched leaves one that is over.
LEMMA SessionLeaves ==
    ASSUME CallsInv, [CallsNext]_callVars, NEW m \in Meetings, Plain(m)', NEW t \in Tabs,
           session[t] = m, session'[t] # m
    PROVE  m \in finished'
<1>0. /\ CallsType /\ session \in [Tabs -> MaybeCall]
      /\ calls[m] # <<>> /\ Plain(m) /\ m \notin touched' /\ ~Group(m) /\ finished \subseteq finished'
  <2>1. calls[m] # <<>>
    BY CallsAssumption DEF CallsInv, CallsKnown
  <2> QED BY <2>1, PlainBefore, OverChanges DEF CallsInv, CallsType, Plain
<1> SUFFICES ASSUME m \notin finished PROVE m \in finished'
  BY <1>0
<1>1. /\ ~Tells(wire[t], Over, m) /\ sdk[t] # "leaving"
  BY <1>0 DEF CallsInv, GoingOn
<1>2. ASSUME NEW q \in requests, q.tab = t, RoomCreated(q) PROVE FALSE
  BY <1>0, <1>2, RoomCreatedDoes
<1>3. ASSUME NEW q \in requests, q.tab = t, Accepted(q) PROVE FALSE
  BY <1>0, <1>3, AcceptedDoes
<1>4. ASSUME OnEnded(t) PROVE FALSE
  <2>1. Heard(t, Head(wire[t]).type) /\ Head(wire[t]).type \in Over
    BY <1>4 DEF OnEnded, Over
  <2>2. Head(wire[t]) \in Held(wire[t])
    BY <1>0, <2>1, HeardHeld
  <2>3. Head(wire[t]).call = m
    BY <1>4 DEF OnEnded
  <2> QED BY <1>1, <2>1, <2>2, <2>3 DEF Tells
<1>5. ASSUME OnNews(t) PROVE FALSE
  BY <1>0, <1>5 DEF OnNews, Touch
<1>6. ASSUME Failure(t) PROVE FALSE
  BY <1>0, <1>6 DEF Failure, Touch
<1>7. ASSUME HangUp(t) PROVE m \in finished'
  BY <1>0, <1>7 DEF HangUp, NotifyPeersEndCall
<1>8. ASSUME EndForEveryone(t) PROVE FALSE
  BY <1>0, <1>8 DEF EndForEveryone
<1>9. ASSUME MeetingLeft(t) PROVE FALSE
  BY <1>1, <1>9 DEF MeetingLeft
<1>10. ASSUME CloseTab(t) PROVE m \in finished'
  BY <1>0, <1>1, <1>10, CloseTabDoes
<1> QED BY <1>2, <1>3, <1>4, <1>5, <1>6, <1>7, <1>8, <1>9, <1>10, SessionChanges

\* Who gets into a call makes it, or answers it.
LEMMA SessionJoins ==
    ASSUME CallsInv, [CallsNext]_callVars, NEW m \in Meetings, NEW t \in Tabs,
           session[t] # m, session'[t] = m
    PROVE  \E q \in requests :
             /\ q.tab = t
             /\ (RoomCreated(q) /\ calls[m] = <<>>) \/ (Accepted(q) /\ q.call = m)
<1>0. /\ CallsType /\ session \in [Tabs -> MaybeCall] /\ m # NoMeeting
  BY CallsAssumption DEF CallsInv, CallsType
<1>1. ASSUME OnEnded(t) \/ OnNews(t) \/ Failure(t) \/ HangUp(t) \/ EndForEveryone(t)
               \/ MeetingLeft(t) \/ CloseTab(t)
      PROVE  session'[t] = session[t] \/ session'[t] = NoMeeting
  BY <1>0, <1>1 DEF OnEnded, OnNews, Failure, HangUp, EndForEveryone, Exit, MeetingLeft, CloseTab,
     SetActiveSession
<1>2. PICK q \in requests : q.tab = t /\ (RoomCreated(q) \/ Accepted(q))
  BY <1>0, <1>1, SessionChanges
<1>3. CASE RoomCreated(q)
  <2>1. PICK k \in Meetings : calls[k] = <<>> /\ session' = [session EXCEPT ![q.tab] = k]
    BY <1>3, RoomCreatedDoes
  <2> QED BY <1>0, <1>2, <1>3, <2>1
<1>4. CASE Accepted(q)
  BY <1>0, <1>2, <1>4, AcceptedDoes
<1> QED BY <1>2, <1>3, <1>4

\* A call that is answered has been made.
LEMMA SessionAnswers ==
    ASSUME CallsInv, [CallsNext]_callVars, NEW m \in Meetings, calls[m] # <<>>, NEW t \in Tabs,
           session[t] # m, session'[t] = m
    PROVE  \E q \in requests : q.tab = t /\ q.call = m /\ Accepted(q)
BY SessionJoins

\* A request to answer that is new, for a call nothing touched: the call is
\* not over, and no other tab of the user is in it or answers it.
LEMMA RequestNew ==
    ASSUME CallsInv, [CallsNext]_callVars, NEW q \in requests', q \notin requests,
           q.call \in Meetings, q.call \notin touched'
    PROVE  /\ incoming[q.tab] = q.call /\ q.call \notin finished' /\ q.tab \in Tabs
           /\ ~Engaged({Owner[q.tab]}, q.call)
           /\ requests' = requests \cup {q} /\ session' = session
<1>1. PICK t \in Tabs : Accept(t) \/ \E who \in SUBSET People : StartOutgoingCall(t, who)
  BY RequestChanges
<1>2. CASE Accept(t)
  <2>1. /\ requests' = requests \cup {[tab |-> t, to |-> {}, call |-> incoming[t]]}
        /\ UNCHANGED <<session, finished>>
        /\ incoming[t] \in finished \/ Engaged({Owner[t]}, incoming[t]) => incoming[t] \in touched'
    BY <1>2 DEF Accept, store, Touch
  <2>2. q = [tab |-> t, to |-> {}, call |-> incoming[t]]
    BY <2>1
  <2>3. q.tab = t /\ q.call = incoming[t]
    BY <2>2
  <2> QED BY <2>1, <2>2, <2>3
<1>3. ASSUME NEW who \in SUBSET People, StartOutgoingCall(t, who) PROVE FALSE
  <2>1. q = [tab |-> t, to |-> who, call |-> NoMeeting]
    BY <1>3 DEF StartOutgoingCall
  <2> QED BY <2>1, CallsAssumption
<1> QED BY <1>1, <1>2, <1>3

\* What was on a tab's wire stays there, unless the tab hears it; what is
\* lost is touched.
LEMMA WireLasts ==
    ASSUME CallsInv, [CallsNext]_callVars, NEW t \in Tabs, NEW e \in Held(wire[t]),
           e \notin Held(wire'[t])
    PROVE  \/ e.call \in touched'
           \/ e = Head(wire[t]) /\ (OnIncoming(t) \/ OnEnded(t))
<1>1. CASE OnIncoming(t) \/ OnEnded(t)
  <2>1. PICK type : Heard(t, type)
    BY <1>1 DEF OnIncoming, OnEnded
  <2> QED BY <1>1, <2>1, HeardHeld DEF CallsInv
<1>2. CASE SocketReplaced(t)
  <2>1. PICK i \in 1..Len(wire[t]) : e = wire[t][i]
    BY DEF Held
  <2> QED BY <1>2, <2>1 DEF SocketReplaced, Touch
<1>3. ASSUME NEW q \in requests, RoomCreated(q) PROVE FALSE
  <2>1. PICK m \in Meetings : Held(wire'[t]) =
          IF t \in TabsOf(q.to)
          THEN Held(wire[t]) \cup {[type |-> "incoming", call |-> m, all |-> FALSE]}
          ELSE Held(wire[t])
    BY <1>3, RoomCreatedDoes
  <2> QED BY <2>1
<1>4. ASSUME NEW u \in Tabs, Reject(u) PROVE FALSE
  BY <1>4, RejectDoes
<1>5. ASSUME NEW u \in Tabs, CloseTab(u) PROVE FALSE
  BY <1>5, CloseTabDoes
<1>6. ASSUME NEW u \in Tabs, ParticipantLeft(u) \/ NoAnswer(u) \/ HangUp(u) \/ EndForEveryone(u)
      PROVE  FALSE
  <2>1. PICK all \in BOOLEAN : NotifyPeersEndCall(u, all)
    BY <1>6 DEF ParticipantLeft, NoAnswer, HangUp, EndForEveryone
  <2>2. Shell(u)
    BY <1>6 DEF ParticipantLeft, NoAnswer, HangUp, EndForEveryone, CallsInv, InCompany
  <2> QED BY <2>1, <2>2, NotifyDoes
<1> QED BY <1>1, <1>2, <1>3, <1>4, <1>5, <1>6, WireChanges

\* A tab that hears that a call of two is over drops it.
LEMMA OverHeard ==
    ASSUME CallsInv, [CallsNext]_callVars, NEW m \in Meetings, ~Group(m), m \notin touched',
           NEW t \in Tabs, Tells(wire[t], Over, m)
    PROVE  Tells(wire'[t], Over, m) \/ (session'[t] # m /\ incoming'[t] # m)
<1>1. PICK e \in Held(wire[t]) : e.type \in Over /\ e.call = m
  BY DEF Tells
<1> SUFFICES ASSUME e \notin Held(wire'[t]) PROVE session'[t] # m /\ incoming'[t] # m
  BY <1>1 DEF Tells
<1>2. e = Head(wire[t]) /\ (OnIncoming(t) \/ OnEnded(t))
  BY <1>1, WireLasts
<1>3. ~OnIncoming(t)
  <2>1. e.type # "incoming"
    BY <1>1 DEF Over
  <2> QED BY <1>2, <2>1 DEF OnIncoming, Heard
<1>4. session \in [Tabs -> MaybeCall] /\ incoming \in [Tabs -> MaybeCall] /\ m # NoMeeting
  BY CallsAssumption DEF CallsInv, CallsType
<1>5. OnEnded(t) /\ Head(wire[t]).call = m
  BY <1>1, <1>2, <1>3
<1> QED BY <1>4, <1>5 DEF OnEnded, SetActiveSession

\* What was broadcast to a tab is still to be heard, or is heard.
LEMMA NewsLasts ==
    ASSUME CallsInv, [CallsNext]_callVars, NEW t \in Tabs, NEW e \in Held(news[t]),
           e \notin Held(news'[t])
    PROVE  e = Head(news[t]) /\ OnNews(t)
<1>1. CASE OnNews(t)
  BY <1>1, NewsHeld DEF CallsInv
<1>2. ASSUME NEW q \in requests, RoomCreated(q) \/ Accepted(q) PROVE FALSE
  <2>1. CASE RoomCreated(q)
    <3>1. PICK m \in Meetings : Held(news'[t]) =
            IF t \in Siblings(q.tab) THEN Held(news[t]) \cup {[type |-> "started", call |-> m]}
            ELSE Held(news[t])
      BY <2>1, RoomCreatedDoes
    <3> QED BY <3>1
  <2>2. CASE Accepted(q)
    <3>1. Held(news[t]) \subseteq Held(news'[t])
      BY <2>2, AcceptedDoes
    <3> QED BY <3>1
  <2> QED BY <1>2, <2>1, <2>2
<1>3. ASSUME NEW u \in Tabs, Reject(u) PROVE FALSE
  BY <1>3, RejectDoes
<1>4. ASSUME NEW u \in Tabs, CloseTab(u) PROVE FALSE
  BY <1>4, CloseTabDoes
<1>5. ASSUME NEW u \in Tabs, ReturnToCall(u) \/ MeetingLeft(u) PROVE FALSE
  <2>1. PICK type \in {"cleared", "started", "ended"} : Announce(u, <<type>>, session[u])
    BY <1>5 DEF ReturnToCall, MeetingLeft
  <2>2. session[u] \in Meetings
    BY <1>5 DEF ReturnToCall, MeetingLeft, Shell, CallsInv, CallsType, MaybeCall
  <2>3. Held(news'[t]) =
          IF t \in Siblings(u) THEN Held(news[t]) \cup {[type |-> type, call |-> session[u]]}
          ELSE Held(news[t])
    BY <2>1, <2>2, AnnounceOne DEF CallsInv
  <2> QED BY <2>3
<1> QED BY <1>1, <1>2, <1>3, <1>4, <1>5, NewsChanges

\* A tab that hears of an answer in another drops the banner, and knows the
\* call to be elsewhere if it was begun there.
LEMMA AnswerHeard ==
    ASSUME CallsInv, [CallsNext]_callVars, NEW m \in Meetings, NEW t \in Tabs
    PROVE  /\ Tells(news[t], {"cleared", "started"}, m) =>
                Tells(news'[t], {"cleared", "started"}, m) \/ incoming'[t] # m
           /\ Tells(news[t], {"started"}, m) =>
                Tells(news'[t], {"started"}, m) \/ m \in {elsewhere'[t], session'[t]}
<1>0. /\ session \in [Tabs -> MaybeCall] /\ incoming \in [Tabs -> MaybeCall]
      /\ elsewhere \in [Tabs -> MaybeCall] /\ m # NoMeeting
  BY CallsAssumption DEF CallsInv, CallsType
<1>1. ASSUME NEW e \in Held(news[t]), e.type \in {"cleared", "started"}, e.call = m,
             e \notin Held(news'[t])
      PROVE  /\ incoming'[t] # m
             /\ e.type = "started" => m \in {elsewhere'[t], session'[t]}
  <2>1. OnNews(t) /\ Head(news[t]) = e
    BY <1>1, NewsLasts
  <2>2. incoming'[t] # m
    BY <1>0, <1>1, <2>1 DEF OnNews
  <2>3. ASSUME e.type = "started" PROVE m \in {elsewhere'[t], session'[t]}
    BY <1>0, <1>1, <2>1, <2>3 DEF OnNews
  <2> QED BY <2>2, <2>3
<1> QED BY <1>1 DEF Tells

\* A tab forgets that a call is elsewhere when it is over, or touched.
LEMMA ElsewhereLasts ==
    ASSUME CallsInv, [CallsNext]_callVars, NEW m \in Meetings, Plain(m), m \notin touched',
           m \notin finished', NEW t \in open', elsewhere[t] = m
    PROVE  elsewhere'[t] = m
<1>0. /\ CallsType /\ t \in Tabs /\ elsewhere \in [Tabs -> MaybeCall] /\ m \notin finished
  BY OpenChanges, OverChanges DEF CallsInv, CallsType
<1>1. ~Tells(wire[t], Over, m) /\ ~Tells(news[t], {"ended"}, m)
  BY <1>0 DEF CallsInv, GoingOn
<1>2. ASSUME OnEnded(t) PROVE elsewhere'[t] = m
  <2>1. Heard(t, Head(wire[t]).type) /\ Head(wire[t]).type \in Over
    BY <1>2 DEF OnEnded, Over
  <2>2. Head(wire[t]) \in Held(wire[t])
    BY <1>0, <2>1, HeardHeld
  <2>3. Head(wire[t]).call # m
    BY <1>1, <2>1, <2>2 DEF Tells
  <2> QED BY <1>0, <1>2, <2>3 DEF OnEnded
<1>3. ASSUME OnNews(t) PROVE elsewhere'[t] = m
  <2>1. Head(news[t]) \in Held(news[t]) /\ Head(news[t]) \in Broadcast
    BY <1>0, <1>3, NewsHeld
  <2>2. Head(news[t]).type \in {"cleared", "started", "ended"}
    BY <2>1 DEF Broadcast
  <2>3. CASE Head(news[t]).type = "cleared"
    BY <1>0, <1>3, <2>3 DEF OnNews
  <2>4. CASE Head(news[t]).type = "started"
    BY <1>0, <1>3, <2>4 DEF OnNews, Touch
  <2>5. CASE Head(news[t]).type = "ended"
    <3>1. Head(news[t]).call # m
      BY <1>1, <2>1, <2>5 DEF Tells
    <3> QED BY <1>0, <1>3, <2>5, <3>1 DEF OnNews
  <2> QED BY <2>2, <2>3, <2>4, <2>5
<1>4. ~CloseTab(t)
  BY <1>0, CloseTabDoes
<1> QED BY <1>0, <1>2, <1>3, <1>4, ElsewhereChanges

-----------------------------------------------------------------------------
(* Calls: the steps *)

\* The two sides of a call of two are its caller and the one called.
LEMMA TwoSides ==
    ASSUME CallsInv, NEW m \in Meetings, Plain(m)
    PROVE  /\ calls[m].from \notin calls[m].to
           /\ \A p, o \in calls[m].to : p = o
           /\ \A t \in Tabs : session[t] = m =>
                t \in open /\ (Owner[t] \in calls[m].to \/ Owner[t] = calls[m].from)
           /\ \A t \in Tabs : incoming[t] = m => t \in open /\ Owner[t] \in calls[m].to
           /\ \A q \in requests : q.call = m => q.tab \in open /\ Owner[q.tab] \in calls[m].to
           /\ m # NoMeeting
<1>1. m # NoMeeting /\ calls[m] # <<>> /\ ~Group(m) /\ CallsKnown /\ CallsType
  BY CallsAssumption DEF CallsInv, Plain, Placed
<1>2. calls[m].from \notin calls[m].to /\ \A p, o \in calls[m].to : p = o
  BY <1>1 DEF CallsKnown
<1>3. ASSUME NEW t \in Tabs, session[t] = m
      PROVE  t \in open /\ (Owner[t] \in calls[m].to \/ Owner[t] = calls[m].from)
  BY <1>1, <1>3 DEF CallsKnown
<1>4. ASSUME NEW t \in Tabs, incoming[t] = m PROVE t \in open /\ Owner[t] \in calls[m].to
  BY <1>1, <1>4 DEF CallsKnown
<1>5. ASSUME NEW q \in requests, q.call = m PROVE q.tab \in open /\ Owner[q.tab] \in calls[m].to
  <2>1. q.tab \in open
    BY <1>1 DEF CallsType
  <2> QED BY <1>1, <1>5, <2>1 DEF CallsKnown
<1> QED BY <1>1, <1>2, <1>3, <1>4, <1>5

\* A call that is over after a step was made before it.
LEMMA OverMade ==
    ASSUME CallsInv, [CallsNext]_callVars, NEW m \in Meetings, m \in finished'
    PROVE  calls[m] # <<>>
<1> SUFFICES ASSUME calls[m] = <<>> PROVE FALSE
  OBVIOUS
<1>1. m \notin finished /\ \A t \in Tabs : session[t] # m /\ incoming[t] # m
  BY Unmade
<1>2. PICK t \in Tabs : Reject(t) \/ Ends(t)
  BY <1>1, OverBy
<1> QED BY <1>1, <1>2, RejectDoes DEF Ends

\* A call that gets over: it was declined where it rang, and nobody there
\* is in it or answers it, or somebody in it ended it.
LEMMA GettingOver ==
    ASSUME CallsInv, [CallsNext]_callVars, NEW m \in finished', m \notin finished, m \in Meetings,
           m \notin touched'
    PROVE  \/ \E u \in Tabs : Reject(u) /\ incoming[u] = m /\ ~Engaged({Owner[u]}, m)
           \/ \E u \in Tabs : Ends(u) /\ session[u] = m
<1>1. PICK u \in Tabs : Reject(u) \/ Ends(u)
  BY OverBy
<1>2. CASE Reject(u)
  <2>1. /\ finished' = finished \cup {incoming[u]}
        /\ touched' = touched \cup (IF Engaged({Owner[u]}, incoming[u]) THEN {incoming[u]} ELSE {})
    BY <1>2, RejectDoes
  <2>2. incoming[u] = m
    BY <2>1
  <2>3. ~Engaged({Owner[u]}, m)
    BY <2>1, <2>2
  <2> QED BY <1>2, <2>2, <2>3
<1>3. CASE Ends(u)
  BY <1>3 DEF Ends
<1> QED BY <1>1, <1>2, <1>3

\* Leaving is of a call that is over.
LEMMA LeavingIsOver ==
    ASSUME CallsInv, [CallsNext]_callVars, NEW m \in Meetings, Plain(m)', NEW t \in Tabs,
           session'[t] = m, sdk'[t] = "leaving", calls[m] # <<>>
    PROVE  m \in finished'
<1>0. /\ CallsType /\ sdk \in [Tabs -> {"out", "joining", "in", "leaving", "left"}]
      /\ session \in [Tabs -> MaybeCall] /\ m # NoMeeting
      /\ Plain(m) /\ ~Group(m) /\ m \notin touched' /\ finished \subseteq finished'
  BY PlainBefore, OverChanges, CallsAssumption DEF CallsInv, CallsType, Plain
<1>1. CASE session[t] # m
  <2>1. PICK q \in requests : q.tab = t /\ q.call = m /\ Accepted(q)
    BY <1>1, SessionAnswers
  <2>2. sdk'[t] = "joining"
    BY <1>0, <2>1, AcceptedDoes DEF SetActiveSession
  <2> QED BY <2>2
<1>2. CASE session[t] = m /\ sdk[t] = "leaving"
  BY <1>0, <1>2 DEF CallsInv, GoingOn
<1>3. CASE session[t] = m /\ sdk[t] # "leaving"
  <2>0. sdk'[t] # sdk[t] /\ session'[t] = session[t]
    BY <1>3
  <2>a. ASSUME NEW u \in Tabs, NEW k, SetActiveSession(u, k) PROVE FALSE
    <3>1. sdk' = [sdk EXCEPT ![u] = IF k = NoMeeting THEN "out" ELSE "joining"]
      BY <2>a DEF SetActiveSession
    <3> QED BY <1>0, <1>3, <3>1
  <2>1. ASSUME NEW q \in requests, RequestStep(q) PROVE FALSE
    <3>1. q.tab \in Tabs
      BY <1>0 DEF CallsType
    <3> QED BY <2>0, <2>1, <2>a, <3>1 DEF RequestStep, RoomCreated, Accepted, Refused, meeting
  <2>2. ASSUME NEW u \in Tabs, SignalStep(u) PROVE FALSE
    BY <2>0, <2>2, <2>a DEF SignalStep, OnIncoming, OnEnded, OnNews, SocketReplaced, meeting
  <2>3. ASSUME NEW u \in Tabs, TabStep(u) PROVE m \in finished'
    <3>1. CASE HangUp(u)
      <4>1. Exit(u) /\ (Group(session[u]) \/ NotifyPeersEndCall(u, FALSE))
        BY <3>1 DEF HangUp
      <4>2. u = t
        BY <1>0, <2>0, <2>a, <4>1 DEF Exit, SafeLeave
      <4> QED BY <1>0, <1>3, <4>1, <4>2 DEF NotifyPeersEndCall
    <3>2. CASE EndForEveryone(u)
      <4>1. Exit(u) /\ Group(session[u])
        BY <3>2 DEF EndForEveryone
      <4>2. u = t
        BY <1>0, <2>0, <2>a, <4>1 DEF Exit, SafeLeave
      <4> QED BY <1>0, <1>3, <4>1, <4>2
    <3>3. ~CloseTab(u)
      BY <2>a DEF CloseTab
    <3> QED BY <2>0, <2>3, <3>1, <3>2, <3>3
            DEF TabStep, Decline, RingTimeout, Reject, StartOutgoingCall, Accept, GoToChat,
                ReturnToCall, BackToChat, meeting
  <2>4. ASSUME NEW u \in Tabs, MeetingStep(u) PROVE m \in finished'
    <3>1. ASSUME Joined(u) PROVE FALSE
      BY <1>0, <1>3, <3>1 DEF Joined
    <3>2. ASSUME Failure(u) PROVE FALSE
      <4>1. sdk' = [sdk EXCEPT ![u] = "left"]
        BY <2>a, <3>2 DEF Failure
      <4> QED BY <1>0, <1>3, <4>1
    <3>3. ASSUME MeetingLeft(u) PROVE FALSE
      <4>1. sdk' = [sdk EXCEPT ![u] = "left"]
        BY <2>a, <3>3 DEF MeetingLeft
      <4> QED BY <1>0, <1>3, <4>1
    <3>4. CASE ParticipantLeft(u)
      <4>1. u = t
        BY <1>0, <2>0, <3>4 DEF ParticipantLeft, SafeLeave
      <4>2. sdk[t] = "in"
        BY <1>0, <1>3, <3>4, <4>1 DEF ParticipantLeft, SafeLeave
      <4> QED BY <1>0, <1>3, <3>4, <4>1, <4>2 DEF ParticipantLeft, NotifyPeersEndCall
    <3>5. CASE NoAnswer(u)
      <4>1. u = t
        BY <1>0, <2>0, <3>5 DEF NoAnswer, SafeLeave
      <4> QED BY <1>0, <1>3, <3>5, <4>1 DEF NoAnswer, NotifyPeersEndCall
    <3> QED BY <2>4, <3>1, <3>2, <3>3, <3>4, <3>5 DEF MeetingStep
  <2>5. ~UNCHANGED callVars
    BY <2>0 DEF callVars, meeting
  <2> QED BY <2>1, <2>2, <2>3, <2>4, <2>5 DEF CallsNext
<1> QED BY <1>1, <1>2, <1>3

\* While a call goes on nobody is told that it is over.
LEMMA GoingOnStep ==
    ASSUME CallsInv, [CallsNext]_callVars PROVE GoingOn'
<1> SUFFICES ASSUME NEW m \in Meetings, Plain(m)', m \notin finished', NEW t \in Tabs
             PROVE  /\ ~Tells(wire'[t], Over, m) /\ ~Tells(news'[t], {"ended"}, m)
                    /\ ~(session'[t] = m /\ sdk'[t] = "leaving")
  BY DEF GoingOn
<1>0. CallsType /\ m \notin finished
  BY OverChanges DEF CallsInv
<1>1. CASE calls[m] = <<>>
  <2>1. /\ \A u \in Tabs : session[u] # m
        /\ \A e \in Held(wire[t]) : e.call # m
        /\ \A e \in Held(news[t]) : e.call # m
        /\ \A q \in requests : q.call # m
    BY <1>1, Unmade
  <2>2. ~Tells(wire'[t], Over, m)
    <3> SUFFICES ASSUME NEW e \in Held(wire'[t]), e.type \in Over, e.call = m PROVE FALSE
      BY DEF Tells
    <3>1. e.type # "incoming" /\ e \notin Held(wire[t])
      BY <2>1 DEF Over
    <3> QED BY <3>1, WireSays
  <2>3. ~Tells(news'[t], {"ended"}, m)
    <3> SUFFICES ASSUME NEW e \in Held(news'[t]), e.type = "ended", e.call = m PROVE FALSE
      BY DEF Tells
    <3>1. e \notin Held(news[t])
      BY <2>1
    <3> QED BY <2>1, <3>1, NewsSays
  <2>4. ASSUME session'[t] = m PROVE sdk'[t] # "leaving"
    <3>1. PICK q \in requests : q.tab = t /\ RoomCreated(q)
      BY <2>1, <2>4, SessionJoins
    <3>2. PICK k \in Meetings : SetActiveSession(q.tab, k)
      BY <3>1, RoomCreatedDoes
    <3> QED BY <1>0, <3>1, <3>2, CallsAssumption DEF SetActiveSession, CallsType
  <2> QED BY <2>2, <2>3, <2>4
<1>2. CASE calls[m] # <<>>
  <2>1. Plain(m)
    BY <1>2, PlainBefore
  <2>2. ~Tells(wire[t], Over, m) /\ ~Tells(news[t], {"ended"}, m)
    BY <1>0, <2>1 DEF CallsInv, GoingOn
  <2>3. ~Tells(wire'[t], Over, m)
    <3> SUFFICES ASSUME NEW e \in Held(wire'[t]), e.type \in Over, e.call = m PROVE FALSE
      BY DEF Tells
    <3>1. e.type # "incoming" /\ e \notin Held(wire[t])
      BY <2>2 DEF Over, Tells
    <3> QED BY <3>1, WireSays
  <2>4. ~Tells(news'[t], {"ended"}, m)
    <3> SUFFICES ASSUME NEW e \in Held(news'[t]), e.type = "ended", e.call = m PROVE FALSE
      BY DEF Tells
    <3>1. e \notin Held(news[t])
      BY <2>2 DEF Tells
    <3>2. PICK u \in Tabs : session[u] = m /\ Shell(u) /\ (CloseTab(u) \/ MeetingLeft(u))
      BY <3>1, NewsSays
    <3>3. session'[u] # m
      BY <1>0, <3>2, CloseTabDoes, CallsAssumption DEF MeetingLeft, SetActiveSession, CallsType
    <3> QED BY <3>2, <3>3, SessionLeaves
  <2> QED BY <1>2, <2>3, <2>4, LeavingIsOver
<1> QED BY <1>1, <1>2

\* Of the tabs of one user, one is in a call or answers it.
LEMMA OneTabEachStep ==
    ASSUME CallsInv, [CallsNext]_callVars PROVE OneTabEach'
<1> SUFFICES ASSUME NEW m \in Meetings, Plain(m)'
             PROVE  /\ \A t, u \in Tabs :
                         Owner[t] = Owner[u] /\ session'[t] = m /\ session'[u] = m => t = u
                    /\ \A t \in Tabs : \A q \in requests' :
                         Owner[t] = Owner[q.tab] /\ session'[t] = m => q.call # m
                    /\ \A q, r \in requests' :
                         Owner[q.tab] = Owner[r.tab] /\ q.call = m /\ r.call = m => q = r
                    /\ m \in finished' => \A q \in requests' : q.call # m
  BY DEF OneTabEach
<1>0. /\ CallsType /\ session \in [Tabs -> MaybeCall] /\ m \notin touched'
      /\ \A q \in requests : q.tab \in Tabs
  BY DEF CallsInv, CallsType, Plain
<1>1. CASE calls[m] = <<>>
  <2>1. /\ \A u \in Tabs : session[u] # m /\ incoming[u] # m
        /\ \A q \in requests : q.call # m
    BY <1>1, Unmade
  <2>2. \A q \in requests' : q.call # m
    BY <1>0, <2>1, RequestNew
  <2>3. ASSUME NEW t \in Tabs, NEW u \in Tabs, session'[t] = m, session'[u] = m PROVE t = u
    <3>1. PICK q \in requests : q.tab = t /\ RoomCreated(q)
      BY <2>1, <2>3, SessionJoins
    <3>2. PICK k \in Meetings : session' = [session EXCEPT ![q.tab] = k]
      BY <3>1, RoomCreatedDoes
    <3> QED BY <1>0, <2>1, <2>3, <3>1, <3>2
  <2> QED BY <2>2, <2>3
<1>2. CASE calls[m] # <<>>
  <2>1. Plain(m) /\ calls'[m] = calls[m]
    BY <1>2, PlainBefore
  <2>2. /\ \A t, u \in Tabs : Owner[t] = Owner[u] /\ session[t] = m /\ session[u] = m => t = u
        /\ \A t \in Tabs : \A q \in requests :
             Owner[t] = Owner[q.tab] /\ session[t] = m => q.call # m
        /\ \A q, r \in requests : Owner[q.tab] = Owner[r.tab] /\ q.call = m /\ r.call = m => q = r
        /\ m \in finished => \A q \in requests : q.call # m
    BY <2>1 DEF CallsInv, OneTabEach
  <2>3. ASSUME NEW t \in Tabs, NEW u \in Tabs, Owner[t] = Owner[u], session'[t] = m,
               session'[u] = m, session[t] # m
        PROVE  t = u
    <3>1. PICK q \in requests : q.tab = t /\ q.call = m /\ Accepted(q)
      BY <1>2, <2>3, SessionAnswers
    <3>2. session' = [session EXCEPT ![q.tab] = q.call]
      BY <3>1, AcceptedDoes
    <3>3. session[u] # m
      BY <2>2, <2>3, <3>1
    <3> QED BY <1>0, <2>3, <3>1, <3>2, <3>3
  <2>4. ASSUME NEW t \in Tabs, NEW u \in Tabs, Owner[t] = Owner[u], session'[t] = m, session'[u] = m
        PROVE  t = u
    BY <2>2, <2>3, <2>4
  <2>5. ASSUME NEW q \in requests', q \notin requests, q.call = m
        PROVE  /\ q.tab \in Tabs /\ session' = session /\ requests' = requests \cup {q}
               /\ m \notin finished'
               /\ \A t \in Tabs : Owner[t] = Owner[q.tab] => session[t] # m
               /\ \A r \in requests : Owner[r.tab] = Owner[q.tab] => r.call # m
    <3>1. /\ q.tab \in Tabs /\ session' = session /\ requests' = requests \cup {q}
          /\ m \notin finished' /\ ~Engaged({Owner[q.tab]}, m)
      BY <1>0, <2>5, RequestNew
    <3>2. ASSUME NEW t \in Tabs, Owner[t] = Owner[q.tab], session[t] = m PROVE FALSE
      <4>1. t \in open
        BY <2>1, <3>2, TwoSides
      <4> QED BY <3>1, <3>2, <4>1 DEF Engaged, TabsOf
    <3>3. ASSUME NEW r \in requests, Owner[r.tab] = Owner[q.tab], r.call = m PROVE FALSE
      <4>1. r.tab \in open
        BY <2>1, <3>3, TwoSides
      <4> QED BY <3>1, <3>3, <4>1 DEF Engaged, TabsOf
    <3> QED BY <3>1, <3>2, <3>3
  <2>6. ASSUME NEW t \in Tabs, NEW q \in requests', Owner[t] = Owner[q.tab], session'[t] = m,
               q.call = m
        PROVE  FALSE
    <3>1. q \in requests
      BY <2>5, <2>6
    <3>2. session[t] # m
      BY <2>2, <2>6, <3>1
    <3>3. PICK r \in requests : r.tab = t /\ r.call = m /\ Accepted(r)
      BY <1>2, <2>6, <3>2, SessionAnswers
    <3>4. r = q
      BY <2>2, <2>6, <3>1, <3>3
    <3> QED BY <2>6, <3>3, <3>4, AcceptedDoes
  <2>7. ASSUME NEW q \in requests', NEW r \in requests', Owner[q.tab] = Owner[r.tab], q.call = m,
               r.call = m
        PROVE  q = r
    BY <2>2, <2>5, <2>7
  <2>8. ASSUME m \in finished', NEW q \in requests', q.call = m PROVE FALSE
    <3>1. q \in requests
      BY <2>5, <2>8
    <3>2. m \notin finished
      BY <2>2, <2>8, <3>1
    <3>3. q.tab \in open /\ Owner[q.tab] \in calls[m].to
      BY <2>1, <2>8, <3>1, TwoSides
    <3>4. ASSUME NEW u \in Tabs, Reject(u), incoming[u] = m, ~Engaged({Owner[u]}, m) PROVE FALSE
      <4>1. Owner[u] = Owner[q.tab]
        BY <2>1, <3>3, <3>4, TwoSides
      <4> QED BY <2>8, <3>1, <3>3, <3>4, <4>1 DEF Engaged, TabsOf
    <3>5. ASSUME NEW u \in Tabs, Ends(u), session[u] = m PROVE FALSE
      BY <1>0, <2>8, <3>1, <3>5 DEF Ends
    <3> QED BY <1>0, <2>8, <3>2, <3>4, <3>5, GettingOver
  <2> QED BY <2>4, <2>6, <2>7, <2>8
<1> QED BY <1>1, <1>2

\* Who is leaving leaves, unless the call is touched or answered anew.
LEMMA LeavingLasts ==
    ASSUME CallsInv, [CallsNext]_callVars, NEW m \in Meetings, calls[m] # <<>>, NEW t \in Tabs,
           session[t] = m, session'[t] = m, sdk[t] = "leaving", m \notin touched',
           \A q \in requests : q.call # m
    PROVE  sdk'[t] = "leaving"
<1>0. /\ CallsType /\ sdk \in [Tabs -> {"out", "joining", "in", "leaving", "left"}]
      /\ session \in [Tabs -> MaybeCall] /\ m # NoMeeting
  BY CallsAssumption DEF CallsInv, CallsType
<1> SUFFICES ASSUME sdk'[t] # "leaving" PROVE FALSE
  OBVIOUS
<1>1. ASSUME NEW u \in Tabs, NEW k, SetActiveSession(u, k), u # t \/ k # m PROVE FALSE
  BY <1>0, <1>1 DEF SetActiveSession
<1>2. ASSUME NEW q \in requests, RequestStep(q) PROVE FALSE
  <2>1. q.tab \in Tabs /\ q.call # m
    BY <1>0 DEF CallsType
  <2>2. ~RoomCreated(q)
    <3> SUFFICES ASSUME RoomCreated(q) PROVE FALSE
      OBVIOUS
    <3>1. PICK k \in Meetings : calls[k] = <<>> /\ SetActiveSession(q.tab, k)
      BY RoomCreatedDoes
    <3> QED BY <1>1, <2>1, <3>1
  <2>3. ~Accepted(q)
    BY <1>1, <2>1 DEF Accepted
  <2>4. ~Refused(q)
    BY DEF Refused, meeting
  <2> QED BY <1>2, <2>2, <2>3, <2>4 DEF RequestStep
<1>3. ASSUME NEW u \in Tabs, SignalStep(u) PROVE FALSE
  BY <1>0, <1>3, <1>1 DEF SignalStep, OnIncoming, OnEnded, OnNews, SocketReplaced, meeting
<1>a. ASSUME NEW u \in Tabs, SafeLeave(u) PROVE FALSE
  BY <1>0, <1>a DEF SafeLeave
<1>4. ASSUME NEW u \in Tabs, TabStep(u) PROVE FALSE
  <2>1. ~HangUp(u) /\ ~EndForEveryone(u)
    BY <1>0, <1>a, <1>1 DEF HangUp, EndForEveryone, Exit
  <2>2. ~CloseTab(u)
    BY <1>0, <1>1 DEF CloseTab
  <2> QED BY <1>4, <2>1, <2>2
          DEF TabStep, Decline, RingTimeout, Reject, StartOutgoingCall, Accept, GoToChat,
              ReturnToCall, BackToChat, meeting
<1>5. ASSUME NEW u \in Tabs, MeetingStep(u) PROVE FALSE
  <2>1. ~Joined(u)
    BY <1>0 DEF Joined
  <2>2. ~Failure(u)
    BY <1>0, <1>1 DEF Failure, Touch
  <2>3. ~MeetingLeft(u)
    <3>1. ASSUME MeetingLeft(u), Shell(u) PROVE FALSE
      BY <1>0, <1>1, <3>1 DEF MeetingLeft
    <3>2. ASSUME MeetingLeft(u), ~Shell(u) PROVE FALSE
      <4>1. sdk' = [sdk EXCEPT ![u] = "left"] /\ session[u] \in touched'
        BY <3>2 DEF MeetingLeft, Touch
      <4> QED BY <1>0, <4>1
    <3> QED BY <3>1, <3>2
  <2>4. ~ParticipantLeft(u) /\ ~NoAnswer(u)
    BY <1>a DEF ParticipantLeft, NoAnswer
  <2> QED BY <1>5, <2>1, <2>2, <2>3, <2>4 DEF MeetingStep
<1>6. ~UNCHANGED callVars
  BY DEF callVars, meeting
<1> QED BY <1>2, <1>3, <1>4, <1>5, <1>6 DEF CallsNext

\* Who is still in a call that is over is leaving, or will hear of it.
LEMMA EndsReachStep ==
    ASSUME CallsInv, [CallsNext]_callVars PROVE EndsReach'
<1> SUFFICES ASSUME NEW m \in finished', Plain(m)', NEW t \in Tabs, session'[t] = m
             PROVE  sdk'[t] = "leaving" \/ Tells(wire'[t], Over, m)
  BY DEF EndsReach
<1>0. m \in Meetings /\ m \notin touched'
  BY DEF Plain, Placed
<1>1. /\ calls[m] # <<>> /\ Plain(m) /\ ~Group(m)
  BY <1>0, OverMade, PlainBefore DEF Plain
<1>2. CASE m \in finished
  <2>1. \A q \in requests : q.call # m
    BY <1>0, <1>1, <1>2 DEF CallsInv, OneTabEach
  <2>2. session[t] = m
    BY <1>0, <1>1, <2>1, SessionAnswers
  <2>3. sdk[t] = "leaving" \/ Tells(wire[t], Over, m)
    BY <1>1, <1>2, <2>2 DEF CallsInv, EndsReach
  <2> QED BY <1>0, <1>1, <2>1, <2>2, <2>3, LeavingLasts, OverHeard
<1>3. ASSUME m \notin finished, NEW u \in Tabs, Reject(u), incoming[u] = m,
             ~Engaged({Owner[u]}, m)
      PROVE  Tells(wire'[t], Over, m)
  <2>1. session[t] = m
    BY <1>3, RejectDoes
  <2>2. /\ t \in open /\ (Owner[t] \in calls[m].to \/ Owner[t] = calls[m].from)
        /\ Owner[u] \in calls[m].to /\ \A p, o \in calls[m].to : p = o
    BY <1>0, <1>1, <1>3, <2>1, TwoSides
  <2>3. Owner[t] # Owner[u]
    BY <1>3, <2>1, <2>2 DEF Engaged, TabsOf
  <2>4. t \in TabsOf({calls[m].from})
    BY <2>2, <2>3 DEF TabsOf
  <2>5. [type |-> "rejected", call |-> m, all |-> FALSE] \in Held(wire'[t])
    BY <1>3, <2>4, RejectDoes
  <2> QED BY <2>5 DEF Tells, Over
<1>4. ASSUME m \notin finished, NEW u \in Tabs, Ends(u), session[u] = m
      PROVE  sdk'[t] = "leaving" \/ Tells(wire'[t], Over, m)
  <2>1. CASE t = u
    BY <1>4, <2>1 DEF Ends
  <2>2. CASE t # u
    <3>1. session[t] = m
      BY <1>4, <2>2 DEF Ends
    <3>2. /\ t \in open /\ (Owner[t] \in calls[m].to \/ Owner[t] = calls[m].from)
          /\ (Owner[u] \in calls[m].to \/ Owner[u] = calls[m].from)
          /\ \A p, o \in calls[m].to : p = o
      BY <1>0, <1>1, <1>4, <3>1, TwoSides
    <3>3. Owner[t] # Owner[u]
      BY <1>0, <1>1, <1>4, <2>2, <3>1 DEF CallsInv, OneTabEach
    <3>4. t \in TabsOf(SignalPeers(u, m))
      BY <3>2, <3>3 DEF TabsOf, SignalPeers
    <3>5. PICK all \in BOOLEAN : Held(wire'[t]) =
            IF t \in TabsOf(SignalPeers(u, m))
            THEN Held(wire[t]) \cup {[type |-> "ended", call |-> m, all |-> all]}
            ELSE Held(wire[t])
      BY <1>4 DEF Ends
    <3>6. [type |-> "ended", call |-> m, all |-> all] \in Held(wire'[t])
      BY <3>4, <3>5
    <3> QED BY <3>6 DEF Tells, Over
  <2> QED BY <2>1, <2>2
<1> QED BY <1>0, <1>2, <1>3, <1>4, GettingOver

\* The caller is in the call until it is over.
LEMMA CallerStaysStep ==
    ASSUME CallsInv, [CallsNext]_callVars PROVE CallerStays'
<1> SUFFICES ASSUME NEW m \in Meetings, Plain(m)', m \notin finished', calls'[m].to # {}
             PROVE  \E u \in Tabs : Owner[u] = calls'[m].from /\ session'[u] = m
  BY DEF CallerStays
<1>1. CASE calls[m] = <<>>
  <2>1. calls'[m] # <<>>
    BY DEF Plain, Placed
  <2>2. PICK q \in requests : RoomCreated(q)
    BY <1>1, <2>1, RoomChanges
  <2>3. PICK k \in Meetings :
          /\ calls[k] = <<>> /\ \A j \in Meetings \ {k} : calls'[j] = calls[j]
          /\ calls'[k].from = Owner[q.tab] /\ session' = [session EXCEPT ![q.tab] = k]
          /\ q.tab \in Tabs
    BY <2>2, RoomCreatedDoes
  <2>4. k = m
    BY <1>1, <2>1, <2>3
  <2> QED BY <2>3, <2>4 DEF CallsInv, CallsType
<1>2. CASE calls[m] # <<>>
  <2>1. Plain(m) /\ calls'[m] = calls[m] /\ m \notin finished
    BY <1>2, PlainBefore, OverChanges
  <2>2. PICK u \in Tabs : Owner[u] = calls[m].from /\ session[u] = m
    BY <2>1 DEF CallsInv, CallerStays
  <2>3. session'[u] = m
    BY <2>2, SessionLeaves
  <2> QED BY <2>1, <2>2, <2>3
<1> QED BY <1>1, <1>2

\* Where a call rings, the end of the ringing is under way, or the call
\* goes on and nobody has answered it.
LEMMA RingsWellStep ==
    ASSUME CallsInv, [CallsNext]_callVars PROVE RingsWell'
<1> SUFFICES ASSUME NEW m \in Meetings, Plain(m)', NEW t \in Tabs, incoming'[t] = m
             PROVE  \/ Tells(wire'[t], Over, m)
                    \/ Tells(news'[t], {"cleared", "started"}, m)
                    \/ /\ m \notin finished'
                       /\ \A u \in Tabs : Owner[u] = Owner[t] => session'[u] # m
  BY DEF RingsWell, NobodyIn
<1>0. /\ CallsType /\ m \notin touched' /\ m # NoMeeting /\ finished \subseteq finished'
      /\ incoming \in [Tabs -> MaybeCall]
  BY OverChanges, CallsAssumption DEF Plain, CallsInv, CallsType
<1>1. ASSUME incoming[t] # m
      PROVE  /\ OnIncoming(t) /\ Head(wire[t]) \in Held(wire[t]) /\ Head(wire[t]).type = "incoming"
             /\ Head(wire[t]).call = m /\ m \notin {elsewhere[t], session[t]} /\ t \in open
             /\ m \notin finished'
             /\ UNCHANGED <<session, elsewhere, news, finished>>
  <2>1. OnIncoming(t)
    BY <1>0, <1>1, IncomingChanges
  <2>2. Heard(t, "incoming")
    BY <2>1 DEF OnIncoming
  <2>3. Head(wire[t]).call = m /\ m \notin {elsewhere[t], session[t]}
    BY <1>0, <1>1, <2>1 DEF OnIncoming
  <2>4. /\ Head(wire[t]) \in Held(wire[t]) /\ Head(wire[t]).type = "incoming" /\ t \in open
    BY <1>0, <2>2, HeardHeld
  <2>5. UNCHANGED <<session, elsewhere, news, finished>>
    BY <2>1, <2>2 DEF OnIncoming, Heard
  <2>6. m \notin finished
    BY <1>0, <2>1, <2>3 DEF OnIncoming, Touch
  <2> QED BY <2>1, <2>3, <2>4, <2>5, <2>6
<1>2. calls[m] # <<>>
  BY <1>1, Unmade
<1>3. Plain(m) /\ ~Group(m)
  BY <1>2, PlainBefore DEF Plain
<1>4. CASE incoming[t] # m
  <2>1. Tells(wire[t], {"incoming"}, m)
    BY <1>1, <1>4 DEF Tells
  <2>2. m \notin finished
    BY <1>1, <1>4
  <2>3. Tells(news[t], {"started"}, m) \/ NobodyIn(t, m)
    BY <1>1, <1>3, <1>4, <2>1, <2>2 DEF CallsInv, InvitesWell
  <2>4. CASE Tells(news[t], {"started"}, m)
    BY <1>1, <1>4, <2>4 DEF Tells
  <2>5. CASE NobodyIn(t, m)
    BY <1>1, <1>4, <2>5 DEF NobodyIn
  <2> QED BY <2>3, <2>4, <2>5
<1>5. CASE incoming[t] = m
  <2>0. t \in open /\ Owner[t] \in calls[m].to /\ \A p, o \in calls[m].to : p = o
    BY <1>3, <1>5, TwoSides
  <2>1. \/ Tells(wire[t], Over, m)
        \/ Tells(news[t], {"cleared", "started"}, m)
        \/ m \notin finished /\ NobodyIn(t, m)
    BY <1>3, <1>5 DEF CallsInv, RingsWell
  <2>2. CASE Tells(wire[t], Over, m)
    BY <1>0, <1>3, <2>2, OverHeard
  <2>3. CASE Tells(news[t], {"cleared", "started"}, m)
    BY <2>3, AnswerHeard
  <2>4. ASSUME m \notin finished, m \in finished', NobodyIn(t, m)
        PROVE  Tells(wire'[t], Over, m) \/ Tells(news'[t], {"cleared", "started"}, m)
    <3>1. ASSUME NEW u \in Tabs, Reject(u), incoming[u] = m
          PROVE  Tells(news'[t], {"cleared", "started"}, m)
      <4>1. Owner[u] = Owner[t]
        BY <1>3, <2>0, <3>1, TwoSides
      <4>2. u # t
        BY <1>0, <3>1, RejectDoes
      <4>3. t \in Siblings(u)
        BY <2>0, <4>1, <4>2 DEF Siblings, TabsOf
      <4>4. [type |-> "cleared", call |-> m] \in Held(news'[t])
        BY <3>1, <4>3, RejectDoes
      <4> QED BY <4>4 DEF Tells
    <3>2. ASSUME NEW u \in Tabs, Ends(u), session[u] = m PROVE Tells(wire'[t], Over, m)
      <4>1. Owner[u] # Owner[t] /\ (Owner[u] \in calls[m].to \/ Owner[u] = calls[m].from)
        BY <1>3, <2>4, <3>2, TwoSides DEF NobodyIn
      <4>2. t \in TabsOf(SignalPeers(u, m))
        BY <2>0, <4>1 DEF TabsOf, SignalPeers
      <4>3. PICK all \in BOOLEAN : Held(wire'[t]) =
              IF t \in TabsOf(SignalPeers(u, m))
              THEN Held(wire[t]) \cup {[type |-> "ended", call |-> m, all |-> all]}
              ELSE Held(wire[t])
        BY <3>2 DEF Ends
      <4>4. [type |-> "ended", call |-> m, all |-> all] \in Held(wire'[t])
        BY <4>2, <4>3
      <4> QED BY <4>4 DEF Tells, Over
    <3> QED BY <1>0, <2>4, <3>1, <3>2, GettingOver
  <2>5. ASSUME NobodyIn(t, m), NEW u \in Tabs, Owner[u] = Owner[t], session'[u] = m
        PROVE  Tells(news'[t], {"cleared", "started"}, m)
    <3>1. PICK q \in requests : q.tab = u /\ q.call = m /\ Accepted(q)
      BY <1>2, <2>5, SessionAnswers DEF NobodyIn
    <3>2. u # t
      BY <1>0, <3>1, AcceptedDoes
    <3>3. t \in Siblings(u)
      BY <2>0, <2>5, <3>2 DEF Siblings, TabsOf
    <3>4. [type |-> "started", call |-> m] \in Held(news'[t])
      BY <3>1, <3>3, AcceptedDoes
    <3> QED BY <3>4 DEF Tells
  <2> QED BY <2>1, <2>2, <2>3, <2>4, <2>5
<1> QED BY <1>4, <1>5

\* Where an invitation is still to come, nobody has answered, or the tab
\* knows or is about to be told who has.
LEMMA InvitesWellStep ==
    ASSUME CallsInv, [CallsNext]_callVars PROVE InvitesWell'
<1> SUFFICES ASSUME NEW m \in Meetings, Plain(m)', m \notin finished', NEW t \in open',
                    Tells(wire'[t], {"incoming"}, m)
             PROVE  \/ m \in {elsewhere'[t], session'[t]}
                    \/ Tells(news'[t], {"started"}, m)
                    \/ \A u \in Tabs : Owner[u] = Owner[t] => session'[u] # m
  BY DEF InvitesWell, NobodyIn
<1>0. /\ CallsType /\ m \notin touched' /\ m \notin finished /\ t \in open /\ t \in Tabs
      /\ session \in [Tabs -> MaybeCall]
  BY OverChanges, OpenChanges DEF Plain, CallsInv, CallsType
<1>1. PICK e \in Held(wire'[t]) : e.type = "incoming" /\ e.call = m
  BY DEF Tells
<1>2. CASE calls[m] = <<>>
  <2>1. e \notin Held(wire[t]) /\ \A u \in Tabs : session[u] # m
    BY <1>0, <1>1, <1>2, Unmade
  <2>2. Owner[t] \in calls'[m].to /\ calls'[m] # <<>>
    BY <1>0, <1>1, <2>1, WireSays DEF Over
  <2>3. ASSUME NEW u \in Tabs, session'[u] = m, Owner[u] = Owner[t] PROVE FALSE
    <3>1. PICK q \in requests : q.tab = u /\ RoomCreated(q)
      BY <1>2, <2>1, <2>3, SessionJoins, Unmade
    <3>2. PICK k \in Meetings :
            /\ calls[k] = <<>> /\ \A j \in Meetings \ {k} : calls'[j] = calls[j]
            /\ calls'[k].from = Owner[q.tab] /\ calls'[k].from \notin calls'[k].to
      BY <3>1, RoomCreatedDoes
    <3>3. k = m
      BY <1>2, <2>2, <3>2
    <3> QED BY <2>2, <2>3, <3>1, <3>2, <3>3
  <2> QED BY <2>3
<1>3. CASE calls[m] # <<>>
  <2>1. Plain(m)
    BY <1>3, PlainBefore
  <2>2. e \in Held(wire[t])
    BY <1>0, <1>1, <1>3, WireSays DEF Over
  <2>3. \/ m \in {elsewhere[t], session[t]}
        \/ Tells(news[t], {"started"}, m)
        \/ NobodyIn(t, m)
    BY <1>0, <1>1, <2>1, <2>2 DEF CallsInv, InvitesWell, Tells
  <2>4. CASE elsewhere[t] = m
    BY <1>0, <2>1, <2>4, ElsewhereLasts
  <2>5. CASE session[t] = m
    BY <1>0, <2>5, SessionLeaves
  <2>6. CASE Tells(news[t], {"started"}, m)
    BY <1>0, <2>6, AnswerHeard
  <2>7. ASSUME NobodyIn(t, m), NEW u \in Tabs, Owner[u] = Owner[t], session'[u] = m, u # t
        PROVE  Tells(news'[t], {"started"}, m)
    <3>1. PICK q \in requests : q.tab = u /\ q.call = m /\ Accepted(q)
      BY <1>3, <2>7, SessionAnswers DEF NobodyIn
    <3>2. t \in Siblings(u)
      BY <1>0, <2>7 DEF Siblings, TabsOf
    <3>3. [type |-> "started", call |-> m] \in Held(news'[t])
      BY <1>0, <3>1, <3>2, AcceptedDoes
    <3> QED BY <3>3 DEF Tells
  <2> QED BY <2>3, <2>4, <2>5, <2>6, <2>7
<1> QED BY <1>2, <1>3

-----------------------------------------------------------------------------
(* Calls: company *)

\* A shell that saw company, in a room it has not to leave, is there with
\* somebody.
LEMMA InRoomWith ==
    ASSUME CallsType, NEW u \in Tabs, sdk[u] = "in"
    PROVE  (InRoom(session[u]) # {u}) <=>
           (\E v \in Tabs \ {u} : session[v] = session[u] /\ sdk[v] \in {"in", "leaving"})
BY DEF InRoom, Present

\* The same after a step.
LEMMA InRoomWithAfter ==
    ASSUME CallsType', NEW u \in Tabs, sdk'[u] = "in"
    PROVE  (InRoom(session[u]) # {u})' <=>
           (\E v \in Tabs \ {u} : session'[v] = session'[u] /\ sdk'[v] \in {"in", "leaving"})
BY DEF InRoom, Present

\* One tab leaves its room; the shells that were there with it hear of it.
LEMMA CompanyLeft ==
    ASSUME CallsInv, CallsType', NEW t \in Tabs,
           session' = [session EXCEPT ![t] = session'[t]], sdk' = [sdk EXCEPT ![t] = sdk'[t]],
           sdk'[t] # "in", \A u \in Tabs \ {t} : u \in onCall' <=> u \in onCall,
           gone' \ {t} = (gone \cup Bystanders(t)) \ {t}, saw' \ {t} = saw \ {t},
           t \notin saw', t \notin gone'
    PROVE  InCompany'
<1>0. CallsType /\ InCompany
  BY DEF CallsInv
<1>1. ASSUME NEW u \in Tabs \ {t}
      PROVE  session'[u] = session[u] /\ sdk'[u] = sdk[u] /\ (Shell(u)' <=> Shell(u))
  BY <1>0 DEF CallsType, Shell
<1>2. ASSUME NEW u \in gone' PROVE Shell(u)'
  <2>1. u \in Tabs \ {t} /\ (u \in gone \/ u \in Bystanders(t))
    BY DEF CallsType
  <2>2. Shell(u)
    BY <1>0, <2>1 DEF InCompany, Bystanders
  <2> QED BY <1>1, <2>1, <2>2
<1>3. ASSUME NEW u \in saw'
      PROVE  /\ Shell(u)' /\ Present(u)'
             /\ sdk'[u] = "in" => u \in gone' \/ (InRoom(session[u]) # {u})'
  <2>1. u \in Tabs \ {t} /\ u \in saw
    BY DEF CallsType
  <2>2. Shell(u) /\ Present(u) /\ (sdk[u] = "in" => u \in gone \/ InRoom(session[u]) # {u})
    BY <1>0, <2>1 DEF InCompany
  <2>3. ASSUME sdk'[u] = "in", u \notin gone' PROVE (InRoom(session[u]) # {u})'
    <3>1. sdk[u] = "in" /\ u \notin gone /\ u \notin Bystanders(t)
      BY <1>1, <2>1, <2>3
    <3>2. PICK v \in Tabs \ {u} : session[v] = session[u] /\ sdk[v] \in {"in", "leaving"}
      BY <1>0, <2>1, <2>2, <3>1, InRoomWith
    <3>3. v # t
      BY <2>1, <2>2, <3>1, <3>2 DEF Bystanders, InRoom, Present
    <3>4. session'[v] = session'[u] /\ sdk'[v] \in {"in", "leaving"}
      BY <1>1, <2>1, <3>2, <3>3
    <3> QED BY <2>1, <2>3, <3>2, <3>4, InRoomWithAfter
  <2>4. Present(u)'
    BY <1>1, <2>1, <2>2 DEF Present
  <2> QED BY <1>1, <2>1, <2>2, <2>3, <2>4
<1> QED BY <1>2, <1>3 DEF InCompany

\* So it is when a tab gets another session, or none.
LEMMA CompanySet ==
    ASSUME CallsInv, CallsType', NEW t \in Tabs, NEW m, SetActiveSession(t, m),
           \A u \in Tabs \ {t} : u \in onCall' <=> u \in onCall
    PROVE  InCompany'
<1>0. CallsType
  BY DEF CallsInv
<1>1. /\ session' = [session EXCEPT ![t] = m]
      /\ sdk' = [sdk EXCEPT ![t] = IF m = NoMeeting THEN "out" ELSE "joining"]
      /\ saw' = saw \ {t} /\ gone' = (gone \ {t}) \cup Bystanders(t)
  BY DEF SetActiveSession
<1>2. session' = [session EXCEPT ![t] = session'[t]] /\ sdk' = [sdk EXCEPT ![t] = sdk'[t]]
      /\ sdk'[t] # "in"
  BY <1>0, <1>1 DEF CallsType
<1>3. t \notin Bystanders(t)
  BY DEF Bystanders
<1> QED BY <1>1, <1>2, <1>3, CompanyLeft

\* Leaving through the SDK keeps the tab in the room for the others.
LEMMA CompanyKept ==
    ASSUME CallsInv, CallsType', NEW t \in Tabs,
           sdk' = sdk \/ (SafeLeave(t) /\ sdk[t] = "in"), UNCHANGED <<session, onCall, saw>>,
           gone' = gone \/ (gone' = gone \ {t} /\
               (sdk'[t] # "in" \/ t \notin saw \/ InRoom(session[t]) # {t}))
    PROVE  InCompany'
<1>0. /\ CallsType /\ InCompany /\ sdk \in [Tabs -> {"out", "joining", "in", "leaving", "left"}]
  BY DEF CallsInv, CallsType
<1>1. \A u \in Tabs : /\ sdk[u] \in {"in", "leaving"} => sdk'[u] \in {"in", "leaving"}
                      /\ sdk'[u] = "in" => sdk[u] = "in"
                      /\ session'[u] = session[u] /\ (Shell(u)' <=> Shell(u))
  BY <1>0 DEF SafeLeave, Shell
<1>2. ASSUME NEW u \in saw', sdk'[u] = "in", u \notin gone' PROVE (InRoom(session[u]) # {u})'
  <2>1. u \in Tabs /\ u \in saw /\ sdk[u] = "in"
    BY <1>0, <1>1, <1>2 DEF CallsType
  <2>2. InRoom(session[u]) # {u}
    BY <1>0, <1>2, <2>1 DEF InCompany
  <2>3. PICK v \in Tabs \ {u} : session[v] = session[u] /\ sdk[v] \in {"in", "leaving"}
    BY <1>0, <2>1, <2>2, InRoomWith
  <2>4. session'[v] = session'[u] /\ sdk'[v] \in {"in", "leaving"}
    BY <1>1, <2>1, <2>3
  <2> QED BY <1>2, <2>1, <2>3, <2>4, InRoomWithAfter
<1>3. ASSUME NEW u \in gone' PROVE Shell(u)'
  BY <1>0, <1>1, <1>3 DEF InCompany, CallsType
<1>4. ASSUME NEW u \in saw' PROVE Shell(u)' /\ Present(u)'
  BY <1>0, <1>1, <1>4 DEF InCompany, CallsType, Present
<1> QED BY <1>2, <1>3, <1>4 DEF InCompany

\* A shell that saw company has company, or is about to hear of the loss.
LEMMA InCompanyStep ==
    ASSUME CallsInv, [CallsNext]_callVars PROVE InCompany'
<1>0. /\ CallsType /\ InCompany /\ CallsType'
      /\ session \in [Tabs -> MaybeCall]
      /\ sdk \in [Tabs -> {"out", "joining", "in", "leaving", "left"}]
  BY CallsTypeStep DEF CallsInv, CallsType
<1>b. ASSUME UNCHANGED <<onCall, session, sdk, saw, gone>> PROVE InCompany'
  BY <1>0, <1>b DEF InCompany, Shell, InRoom, Present
<1>1. ASSUME NEW q \in requests, RoomCreated(q) PROVE InCompany'
  <2>1. PICK m \in Meetings : SetActiveSession(q.tab, m) /\ onCall' = onCall \cup {q.tab} /\ q.tab \in Tabs
    BY <1>1, RoomCreatedDoes
  <2> QED BY <1>0, <2>1, CompanySet
<1>2. ASSUME NEW q \in requests, Accepted(q) PROVE InCompany'
  <2>1. SetActiveSession(q.tab, q.call) /\ onCall' = onCall \cup {q.tab} /\ q.tab \in Tabs
    BY <1>2, AcceptedDoes
  <2> QED BY <1>0, <2>1, CompanySet
<1>3. ASSUME NEW q \in requests, Refused(q) PROVE InCompany'
  BY <1>b, <1>3 DEF Refused, store, meeting
<1>4. ASSUME NEW t \in Tabs, SignalStep(t) PROVE InCompany'
  <2>1. CASE OnIncoming(t)
    BY <1>b, <2>1 DEF OnIncoming, Heard, meeting
  <2>2. CASE OnEnded(t)
    <3>1. onCall' = onCall /\ (SetActiveSession(t, NoMeeting) \/ UNCHANGED <<session, meeting>>)
      BY <2>2 DEF OnEnded, Heard
    <3> QED BY <1>0, <1>b, <3>1, CompanySet DEF meeting
  <2>3. CASE OnNews(t)
    <3>1. onCall' = onCall /\ (SetActiveSession(t, NoMeeting) \/ UNCHANGED <<session, meeting>>)
      BY <2>3 DEF OnNews
    <3> QED BY <1>0, <1>b, <3>1, CompanySet DEF meeting
  <2>4. CASE SocketReplaced(t)
    BY <1>b, <2>4 DEF SocketReplaced, store, meeting
  <2> QED BY <1>4, <2>1, <2>2, <2>3, <2>4 DEF SignalStep
<1>5. ASSUME NEW t \in Tabs, Exit(t), onCall' = onCall PROVE InCompany'
  <2>1. CASE sdk[t] \notin {"in", "leaving"}
    BY <1>0, <1>5, <2>1, CompanySet DEF Exit
  <2>2. CASE sdk[t] \in {"in", "leaving"}
    <3>1. /\ SafeLeave(t) /\ UNCHANGED <<session, onCall, saw>> /\ gone' = gone
      BY <1>5, <2>2 DEF Exit
    <3>2. sdk' = sdk \/ (SafeLeave(t) /\ sdk[t] = "in")
      BY <1>0, <3>1 DEF SafeLeave
    <3> QED BY <1>0, <3>1, <3>2, CompanyKept
  <2> QED BY <2>1, <2>2
<1>6. ASSUME NEW t \in Tabs, HangUp(t) \/ EndForEveryone(t) PROVE InCompany'
  <2>1. Exit(t) /\ onCall' = onCall
    BY <1>6 DEF HangUp, EndForEveryone
  <2> QED BY <1>5, <2>1
<1>7. ASSUME NEW t \in Tabs, GoToChat(t) PROVE InCompany'
  <2>1. /\ onCall' = onCall \ {t} /\ saw' = saw \ {t} /\ gone' = gone \ {t}
        /\ UNCHANGED <<session, sdk>>
    BY <1>7 DEF GoToChat, store
  <2>2. \A u \in Tabs \ {t} : Shell(u)' <=> Shell(u)
    BY <2>1 DEF Shell
  <2>3. \A u \in Tabs : /\ (InRoom(session[u]) # {u})' <=> InRoom(session[u]) # {u}
                        /\ Present(u)' <=> Present(u)
    BY <2>1 DEF InRoom, Present
  <2> QED BY <1>0, <2>1, <2>2, <2>3 DEF InCompany, CallsType
<1>8. ASSUME NEW t \in Tabs, ReturnToCall(t) PROVE InCompany'
  <2>1. /\ t \in open \ onCall /\ session[t] # NoMeeting /\ onCall' = onCall \cup {t}
        /\ saw' = IF Present(t) /\ InRoom(session[t]) # {t} THEN saw \cup {t} ELSE saw
        /\ UNCHANGED <<session, sdk, gone>>
    BY <1>8 DEF ReturnToCall, store
  <2>2. \A u \in Tabs : Shell(u) => Shell(u)'
    BY <2>1 DEF Shell
  <2>3. Shell(t)'
    BY <2>1 DEF Shell
  <2>4. \A u \in Tabs : /\ (InRoom(session[u]) # {u})' <=> InRoom(session[u]) # {u}
                        /\ Present(u)' <=> Present(u)
    BY <2>1 DEF InRoom, Present
  <2> QED BY <1>0, <2>1, <2>2, <2>3, <2>4 DEF InCompany, CallsType
<1>9. ASSUME NEW t \in Tabs, BackToChat(t) PROVE InCompany'
  <2>1. /\ onCall' = onCall \ {t} /\ session[t] = NoMeeting
        /\ UNCHANGED <<session, sdk, saw, gone>>
    BY <1>9 DEF BackToChat, store, meeting
  <2>2. ~Shell(t)
    BY <2>1 DEF Shell
  <2>3. \A u \in Tabs : Shell(u) => Shell(u)'
    BY <2>1 DEF Shell
  <2>4. \A u \in Tabs : /\ (InRoom(session[u]) # {u})' <=> InRoom(session[u]) # {u}
                        /\ Present(u)' <=> Present(u)
    BY <2>1 DEF InRoom, Present
  <2> QED BY <1>0, <2>1, <2>3, <2>4 DEF InCompany, CallsType
<1>10. ASSUME NEW t \in Tabs, CloseTab(t) PROVE InCompany'
  <2>1. SetActiveSession(t, NoMeeting) /\ onCall' = onCall \ {t}
    BY <1>10 DEF CloseTab
  <2> QED BY <1>0, <2>1, CompanySet
<1>11. ASSUME NEW t \in Tabs,
              (\E who \in SUBSET People : StartOutgoingCall(t, who)) \/ Accept(t) \/ Reject(t)
       PROVE  InCompany'
  BY <1>b, <1>11 DEF StartOutgoingCall, Accept, Reject, store, meeting
<1>12. ASSUME NEW t \in Tabs, Joined(t) PROVE InCompany'
  <2>1. /\ sdk[t] = "joining" /\ sdk' = [sdk EXCEPT ![t] = "in"]
        /\ saw' = saw \cup {u \in InRoom(session[t]) : Shell(u)}
                      \cup (IF Shell(t) /\ InRoom(session[t]) # {} THEN {t} ELSE {})
        /\ UNCHANGED <<session, onCall, gone>>
    BY <1>12 DEF Joined, store
  <2>2. \A u \in Tabs : Shell(u)' <=> Shell(u)
    BY <2>1 DEF Shell
  <2>3. \A u \in Tabs \ {t} : sdk'[u] = sdk[u]
    BY <1>0, <2>1
  <2>4. sdk'[t] = "in"
    BY <1>0, <2>1
  <2>5. ASSUME NEW u \in saw', sdk'[u] = "in", u \notin gone' PROVE (InRoom(session[u]) # {u})'
    <3>0. u \in Tabs
      BY <1>0 DEF CallsType
    <3>1. CASE u = t
      <4>1. InRoom(session[t]) # {}
        <5>1. t \notin saw
          BY <1>0, <2>1 DEF InCompany, Present
        <5> QED BY <2>1, <2>5, <3>1, <5>1 DEF InRoom, Present
      <4>2. PICK v \in InRoom(session[t]) : TRUE
        BY <4>1
      <4>3. v \in Tabs \ {t} /\ session[v] = session[t] /\ sdk[v] \in {"in", "leaving"}
        BY <2>1, <4>2 DEF InRoom, Present
      <4>4. session'[v] = session'[t] /\ sdk'[v] \in {"in", "leaving"}
        BY <2>1, <2>3, <4>3
      <4> QED BY <1>0, <2>4, <3>1, <4>3, <4>4, InRoomWithAfter
    <3>2. CASE u # t /\ u \in InRoom(session[t])
      <4>1. session'[t] = session'[u] /\ t \in Tabs \ {u}
        BY <2>1, <3>2 DEF InRoom
      <4> QED BY <1>0, <2>4, <2>5, <3>0, <4>1, InRoomWithAfter
    <3>3. CASE u # t /\ u \notin InRoom(session[t])
      <4>1. u \in saw /\ sdk[u] = "in" /\ u \notin gone
        BY <2>1, <2>3, <2>5, <3>0, <3>3
      <4>2. PICK v \in Tabs \ {u} : session[v] = session[u] /\ sdk[v] \in {"in", "leaving"}
        BY <1>0, <3>0, <4>1, InRoomWith DEF InCompany
      <4>3. session'[v] = session'[u] /\ sdk'[v] \in {"in", "leaving"}
        BY <2>1, <2>3, <2>4, <4>2
      <4> QED BY <1>0, <2>5, <3>0, <4>2, <4>3, InRoomWithAfter
    <3> QED BY <3>1, <3>2, <3>3
  <2>6. ASSUME NEW u \in saw' PROVE Shell(u)' /\ Present(u)'
    <3>1. u \in Tabs /\ Shell(u)
      BY <1>0, <2>1, <2>6 DEF InCompany, CallsType, InRoom
    <3>2. u = t \/ Present(u)
      BY <1>0, <2>1, <2>6 DEF InCompany, InRoom
    <3> QED BY <2>2, <2>3, <2>4, <3>1, <3>2 DEF Present
  <2>7. ASSUME NEW u \in gone' PROVE Shell(u)'
    BY <1>0, <2>1, <2>2, <2>7 DEF InCompany, CallsType
  <2> QED BY <2>5, <2>6, <2>7 DEF InCompany
<1>13. ASSUME NEW t \in Tabs, Failure(t) \/ MeetingLeft(t) PROVE InCompany'
  <2>0. onCall' = onCall
    BY <1>13 DEF Failure, MeetingLeft
  <2>1. CASE Shell(t)
    BY <1>0, <1>13, <2>0, <2>1, CompanySet DEF Failure, MeetingLeft
  <2>2. CASE ~Shell(t)
    <3>1. /\ sdk' = [sdk EXCEPT ![t] = "left"] /\ gone' = gone \cup Bystanders(t)
          /\ UNCHANGED <<session, saw>>
      BY <1>13, <2>2 DEF Failure, MeetingLeft
    <3>2. t \notin saw /\ t \notin gone /\ t \notin Bystanders(t)
      BY <1>0, <2>2 DEF InCompany, Bystanders
    <3>3. session' = [session EXCEPT ![t] = session'[t]] /\ sdk' = [sdk EXCEPT ![t] = sdk'[t]]
          /\ sdk'[t] # "in"
      BY <1>0, <3>1
    <3> QED BY <1>0, <2>0, <3>1, <3>2, <3>3, CompanyLeft
  <2> QED BY <2>1, <2>2
<1>14. ASSUME NEW t \in Tabs, ParticipantLeft(t) PROVE InCompany'
  <2>1. /\ t \in gone /\ gone' = gone \ {t} /\ UNCHANGED <<session, onCall, saw>>
    BY <1>14 DEF ParticipantLeft, store
  <2>2. sdk' = sdk \/ SafeLeave(t)
    BY <1>14 DEF ParticipantLeft
  <2>3. sdk' = sdk \/ (SafeLeave(t) /\ sdk[t] = "in")
    BY <1>0, <2>2 DEF SafeLeave
  <2>4. sdk'[t] # "in" \/ t \notin saw \/ InRoom(session[t]) # {t}
    BY <1>0, <1>14 DEF ParticipantLeft, SafeLeave
  <2> QED BY <1>0, <2>1, <2>3, <2>4, CompanyKept
<1>15. ASSUME NEW t \in Tabs, NoAnswer(t) PROVE InCompany'
  BY <1>0, <1>15, CompanyKept DEF NoAnswer, store
<1>16. CASE UNCHANGED callVars
  BY <1>b, <1>16 DEF callVars, store, meeting
<1> QED BY <1>1, <1>2, <1>3, <1>4, <1>6, <1>7, <1>8, <1>9, <1>10, <1>11, <1>12, <1>13, <1>14,
           <1>15, <1>16
        DEF CallsNext, RequestStep, TabStep, MeetingStep, Decline, RingTimeout

-----------------------------------------------------------------------------
(* Calls: the theorem *)

\* When everything has arrived, a call of two that no failure and none of
\* the named races touched rings only while its caller is there, nobody is
\* in a call that was ended or declined, and no shell that saw company is
\* left alone in a room: for any number of users, tabs of each, rooms and
\* failures, whatever the order in which the signals of the gateway, the
\* broadcasts between the tabs and the events of the meeting arrive.
THEOREM CallsSettled ==
    ASSUME NEW tabs \in SUBSET Tabs, NEW past \in SUBSET Meetings, past # {} => tabs # {},
           NEW moved, NEW broken
    PROVE  CallsStart(tabs, past, moved, broken) /\ [][CallsNext]_callVars => []CallsSettle
<1>1. CallsStart(tabs, past, moved, broken) => CallsInv
  BY CallsInvStart
<1>2. CallsInv /\ [CallsNext]_callVars => CallsInv'
  BY CallsTypeStep, CallsKnownStep, GoingOnStep, OneTabEachStep, EndsReachStep, CallerStaysStep,
     RingsWellStep, InvitesWellStep, InCompanyStep DEF CallsInv
<1>3. CallsInv => CallsSettle
  BY CallsInvSettles
<1> QED BY <1>1, <1>2, <1>3, PTL

-----------------------------------------------------------------------------
(* Notices: the invariant *)

Deed == [what : {"deed", "author", "post"}, by : {"other", "me"}, shown : BOOLEAN, nr : Nat,
         at : {"sent", "saved"}]
Note == [of : Nat, read : BOOLEAN, kept : BOOLEAN]
NoteRow == [id : Nat, read : BOOLEAN]
Errand == [op : {"refresh", "badge", "panel", "read", "all", "delete"}, id : Nat,
           from : {"page", "bell"}, nr : Nat, at : SUBSET {"listed", "counted", "stored"},
           rows : Seq(NoteRow), count : Nat, early : SUBSET Nat, stale : BOOLEAN]

NotesType ==
    /\ inbox \in Seq(Deed) /\ notes \in Seq(Note) /\ topic \in Seq([id : Nat, again : BOOLEAN])
    /\ items \in Seq(NoteRow) /\ unread \in Nat
    /\ panel \in [open : BOOLEAN, loading : BOOLEAN, rows : Seq(NoteRow)]
    /\ chores \subseteq Errand
    /\ happened \in Nat /\ taps \in Nat /\ astray \in BOOLEAN

\* What a request of each kind goes through, and of which notes it speaks.
ErrandFits(c) ==
    /\ c.op = "refresh" => c.at \subseteq {"listed", "counted"}
    /\ c.op = "badge" => c.at \subseteq {"counted"}
    /\ c.op = "panel" => c.at \subseteq {"listed"}
    /\ c.op \in {"read", "all", "delete"} => c.at \in {{}, {"stored"}}
    /\ c.op \in {"read", "delete"} => c.id \in NoteIds
    /\ c.op = "all" => c.count <= Len(notes)
    /\ Rows(c.rows) \subseteq NoteIds /\ c.early \subseteq NoteIds

NotesFit ==
    /\ Rows(items) \subseteq NoteIds /\ Rows(panel.rows) \subseteq NoteIds
    /\ \A k \in 1..Len(topic) : topic[k].id \in NoteIds
    /\ \A c \in chores : ErrandFits(c)

\* The notes of an event
NotesOf(nr) == {n \in NoteIds : notes[n].of = nr}
Concerns(e) == e.what = "author" \/ (e.by = "other" /\ e.shown)
Saving == inbox # <<>> /\ Current.at = "saved"

\* An event that waits has no note yet, or the one just saved for it.
Awaits(e) ==
    /\ e.nr \in 1..happened
    /\ e.nr \in owed <=> Concerns(e)
    /\ e.nr \notin uneven =>
           IF e.at = "sent" THEN NotesOf(e.nr) = {}
           ELSE Concerns(e) /\ \E n \in NoteIds : NotesOf(e.nr) = {n}

NotedAs(nr) ==
    \/ nr \in owed /\ \E n \in NoteIds : NotesOf(nr) = {n}
    \/ nr \notin owed /\ NotesOf(nr) = {}

\* Events are handled in their order, and each not touched by a failure has
\* the notes it is to have by then.
EventsTold ==
    /\ \A j, k \in 1..Len(inbox) : j < k => inbox[j].nr < inbox[k].nr
    /\ \A k \in 1..Len(inbox) : inbox[k].at = "saved" => k = 1
    /\ \A e \in Els(inbox) : Awaits(e)
    /\ \A n \in NoteIds : notes[n].of \in 1..happened
    /\ owed \subseteq 1..happened
    /\ \A nr \in 1..happened \ uneven : (\E e \in Els(inbox) : e.nr = nr) \/ NotedAs(nr)

\* Notes are published in their order, each once but for restarts.
TopicSound ==
    /\ \A j, k \in 1..Len(topic) : j < k /\ ~topic[j].again /\ ~topic[k].again => topic[j].id < topic[k].id
    /\ Saving => /\ Len(notes) > 0
                 /\ \A k \in 1..Len(topic) : topic[k].again \/ topic[k].id < Len(notes)

KeptNotes == {n \in NoteIds : notes[n].kept}
StoredAs(op) == {c \in chores : c.op = op /\ c.at = {"stored"}}

\* What is stored of a request that is still to be shown.
StoredSound ==
    /\ \A c \in StoredAs("read") : notes[c.id].read
    /\ \A c \in StoredAs("delete") : ~notes[c.id].kept
    /\ \A c \in StoredAs("all") : \A n \in NoteIds : n <= c.count => notes[n].read

Descends(list) == \A j, k \in 1..Len(list) : j < k => list[j].id > list[k].id
Above(n, list) == \A row \in Els(list) : n > row.id
Beneath(n, list) == \A row \in Els(list) : n < row.id

\* A note newer than all whose push is over
Latest(n) == \A m \in NoteIds \ ToCome : m < n

\* The unread notes a count was given, as long as it is good
CountedNotes(c) == {n \in UnreadNotes : n \notin ToCome \/ n \in c.early}

CountSound(c) ==
    c.op \in {"refresh", "badge"} /\ "counted" \in c.at /\ ~c.stale =>
        /\ c.count = Cardinality(CountedNotes(c))
        /\ \A n \in (UnreadNotes \cap ToCome) \ c.early :
               "listed" \in c.at /\ Latest(n) /\ Above(n, c.rows)

\* The rows a list was given, as long as they are good
ListSound(c) ==
    c.op = "refresh" /\ "listed" \in c.at /\ ~c.stale =>
        /\ Descends(c.rows)
        /\ \A row \in Els(c.rows) : notes[row.id].kept /\ notes[row.id].read = row.read
        /\ \A n \in KeptNotes \ Rows(c.rows) :
               \/ Beneath(n, c.rows)
               \/ "counted" \in c.at /\ n \in ToCome /\ Above(n, c.rows)

\* A count for the badge is good only while nothing stored is to be shown.
BadgeSound ==
    \A c \in chores : c.op = "badge" /\ "counted" \in c.at /\ ~c.stale =>
        \A d \in chores : d.at # {"stored"}

\* Nothing has come between the store and the notes but what is under way.
Calm == ~astray /\ \A c \in StoredAs("read") \cup StoredAs("delete") : c.id \in Rows(items)

RowsSound ==
    /\ Descends(items)
    /\ \A n \in KeptNotes \ Rows(items) : Beneath(n, items) \/ (n \in ToCome /\ Above(n, items))
    /\ \A n \in (UnreadNotes \cap ToCome) \ Rows(items) : Latest(n) /\ Above(n, items)
    /\ \A row \in Els(items) :
           /\ row.read => notes[row.id].read
           /\ notes[row.id].read => \/ row.read
                                    \/ \E c \in StoredAs("read") : c.id = row.id
                                    \/ \E c \in StoredAs("all") : row.id <= c.count
           /\ notes[row.id].kept \/ \E c \in StoredAs("delete") : c.id = row.id

\* The notes the badge is to count: those shown as unread, and the unread
\* ones whose push is over.
Due == {n \in NoteIds : ShownUnread(n)} \cup (UnreadNotes \ ToCome)

StoreSound ==
    /\ Calm => RowsSound
    /\ Calm /\ StoredAs("all") = {} => unread = Cardinality(Due)

AnswersSound == \A c \in chores : CountSound(c) /\ ListSound(c)

NotesInv ==
    /\ NotesType /\ NotesFit /\ EventsTold /\ TopicSound
    /\ StoredSound /\ AnswersSound /\ BadgeSound /\ StoreSound

-----------------------------------------------------------------------------
(* Notices: rows, notes and requests *)

\* A list of a type holds things of the type, and is a list.
LEMMA TypedList ==
    ASSUME NEW R, NEW s \in Seq(R)
    PROVE  IsList(s) /\ Len(s) \in Nat /\ Els(s) \subseteq R
BY DEF IsList, Els

\* A list that holds things of a type has it.
LEMMA ListTyped ==
    ASSUME NEW R, NEW s, IsList(s), Els(s) \subseteq R
    PROVE  s \in Seq(R)
<1>1. PICK S : s \in Seq(S)
  BY DEF IsList
<1>2. \A i \in 1..Len(s) : s[i] \in R
  BY DEF Els
<1> QED BY <1>1, <1>2

\* The ids of the rows of a list
LEMMA RowsHeld ==
    ASSUME NEW list
    PROVE  Rows(list) = {row.id : row \in Els(list)}
BY DEF Rows, Els

\* What is shown as unread is an unread row.
LEMMA ShownHeld ==
    ASSUME NEW n
    PROVE  ShownUnread(n) <=> [id |-> n, read |-> FALSE] \in Els(items)
BY DEF ShownUnread, Els

\* A row that is pushed comes on top.
LEMMA PushedRow ==
    ASSUME NEW n \in Nat, NEW list \in Seq(NoteRow), NEW after,
           after = <<[id |-> n, read |-> FALSE]>> \o list
    PROVE  /\ after \in Seq(NoteRow)
           /\ Els(after) = Els(list) \cup {[id |-> n, read |-> FALSE]}
           /\ Descends(list) /\ Above(n, list) => Descends(after)
<1>1. PICK row : row = [id |-> n, read |-> FALSE]
  OBVIOUS
<1>2. row \in NoteRow /\ row.id = n
  BY <1>1 DEF NoteRow
<1>3. after = <<row>> \o list
  BY <1>1
<1>4. /\ after \in Seq(NoteRow) /\ Len(list) \in Nat /\ Len(after) = Len(list) + 1
      /\ after[1] = row /\ \A k \in 1..Len(list) : after[k + 1] = list[k]
  <2>1. PICK one : one = <<row>>
    OBVIOUS
  <2>2. one \in Seq(NoteRow) /\ Len(one) = 1 /\ one[1] = row
    BY <1>2, <2>1
  <2>3. IsList(one) /\ IsList(list)
    BY <2>2, TypedList
  <2>4. /\ Len(one \o list) = Len(one) + Len(list)
        /\ \A k \in 1..Len(one) : (one \o list)[k] = one[k]
        /\ \A k \in 1..Len(list) : (one \o list)[Len(one) + k] = list[k]
    BY <2>3, ConcatList
  <2>9. after = one \o list
    BY <1>3, <2>1, Zenon
  <2>5. Len(list) \in Nat
    OBVIOUS
  <2>8. after \in Seq(NoteRow)
    <3>1. one \o list \in Seq(NoteRow)
      BY <2>2
    <3> QED BY <2>9, <3>1
  <2>6. \A k \in 1..Len(list) : 1 + k = k + 1
    BY <2>5
  <2>7. 1 \in 1..1
    OBVIOUS
  <2> QED BY <2>2, <2>4, <2>5, <2>6, <2>7, <2>8, <2>9
<1>5. \A k \in 1..Len(after) : k = 1 \/ k - 1 \in 1..Len(list)
  BY <1>4
<1>6. Els(after) = Els(list) \cup {row}
  <2>1. ASSUME NEW k \in 1..Len(after) PROVE after[k] \in Els(list) \cup {row}
    <3>1. CASE k = 1
      BY <1>4, <3>1
    <3>2. CASE k # 1
      <4>1. k - 1 \in 1..Len(list)
        BY <1>5, <3>2
      <4>2. after[(k - 1) + 1] = list[k - 1] /\ (k - 1) + 1 = k
        BY <1>4, <4>1
      <4> QED BY <4>1, <4>2 DEF Els
    <3> QED BY <3>1, <3>2
  <2>2. ASSUME NEW k \in 1..Len(list) PROVE list[k] \in Els(after)
    <3>1. k + 1 \in 1..Len(after) /\ after[k + 1] = list[k]
      BY <1>4
    <3> QED BY <3>1 DEF Els
  <2>3. row \in Els(after)
    <3>1. 1 \in 1..Len(after)
      BY <1>4
    <3> QED BY <1>4, <3>1 DEF Els
  <2> QED BY <2>1, <2>2, <2>3 DEF Els
<1>7. ASSUME Descends(list), Above(n, list) PROVE Descends(after)
  <2>1. ASSUME NEW j \in 1..Len(after), NEW k \in 1..Len(after), j < k
        PROVE  after[j].id > after[k].id
    <3>1. PICK m \in 1..Len(list) : k = m + 1
      <4>1. k - 1 \in 1..Len(list) /\ (k - 1) + 1 = k
        BY <1>4, <1>5, <2>1
      <4> QED BY <4>1
    <3>2. after[k] = list[m]
      BY <1>4, <3>1
    <3>3. CASE j = 1
      <4>1. n > list[m].id
        BY <1>7 DEF Above, Els
      <4> QED BY <1>2, <1>4, <3>2, <3>3, <4>1
    <3>4. CASE j # 1
      <4>1. PICK i \in 1..Len(list) : j = i + 1
        <5>1. j - 1 \in 1..Len(list) /\ (j - 1) + 1 = j
          BY <1>4, <1>5, <3>4
        <5> QED BY <5>1
      <4>2. after[j] = list[i] /\ i < m
        BY <1>4, <2>1, <3>1, <4>1
      <4>3. list[i].id > list[m].id
        BY <1>7, <4>2 DEF Descends
      <4> QED BY <3>2, <4>2, <4>3
    <3> QED BY <3>3, <3>4
  <2> QED BY <2>1 DEF Descends
<1> QED BY <1>1, <1>4, <1>6, <1>7

\* Patching marks the rows of some notes as read, each in its place.
LEMMA PatchedRows ==
    ASSUME NEW list \in Seq(NoteRow), NEW ids, NEW after, after = Patched(list, ids)
    PROVE  /\ after \in Seq(NoteRow) /\ Len(after) = Len(list)
           /\ \A k \in 1..Len(list) :
                  /\ after[k].id = list[k].id
                  /\ after[k].read <=> list[k].read \/ list[k].id \in ids
           /\ Descends(list) => Descends(after)
<1>1. /\ Len(list) \in Nat /\ \A k \in 1..Len(list) : list[k] \in NoteRow
      /\ after = [k \in 1..Len(list) |->
                     IF list[k].id \in ids THEN [list[k] EXCEPT !.read = TRUE] ELSE list[k]]
  BY DEF Patched
<1>2. ASSUME NEW k \in 1..Len(list)
      PROVE  /\ after[k] \in NoteRow /\ after[k].id = list[k].id
             /\ after[k].read <=> list[k].read \/ list[k].id \in ids
  <2>1. list[k] \in NoteRow
    BY <1>1
  <2>2. /\ [list[k] EXCEPT !.read = TRUE] \in NoteRow
        /\ [list[k] EXCEPT !.read = TRUE].id = list[k].id /\ [list[k] EXCEPT !.read = TRUE].read
    BY <2>1 DEF NoteRow
  <2>3. after[k] = IF list[k].id \in ids THEN [list[k] EXCEPT !.read = TRUE] ELSE list[k]
    BY <1>1
  <2> QED BY <2>1, <2>2, <2>3
<1>3. after \in Seq(NoteRow) /\ Len(after) = Len(list)
  BY <1>1, <1>2
<1>4. Descends(list) => Descends(after)
  BY <1>2, <1>3 DEF Descends
<1> QED BY <1>2, <1>3, <1>4

\* So the rows are those there were, the ones of these notes read.
LEMMA PatchedHeld ==
    ASSUME NEW list \in Seq(NoteRow), NEW ids, NEW after, after = Patched(list, ids)
    PROVE  /\ \A row \in Els(after) : \E old \in Els(list) :
                  row.id = old.id /\ (row.read <=> old.read \/ old.id \in ids)
           /\ \A old \in Els(list) : \E row \in Els(after) :
                  row.id = old.id /\ (row.read <=> old.read \/ old.id \in ids)
           /\ Rows(after) = Rows(list)
<1>1. Len(after) = Len(list) /\ \A k \in 1..Len(list) :
          after[k].id = list[k].id /\ (after[k].read <=> list[k].read \/ list[k].id \in ids)
  BY PatchedRows
<1>2. /\ \A row \in Els(after) : \E old \in Els(list) :
             row.id = old.id /\ (row.read <=> old.read \/ old.id \in ids)
      /\ \A old \in Els(list) : \E row \in Els(after) :
             row.id = old.id /\ (row.read <=> old.read \/ old.id \in ids)
  BY <1>1 DEF Els
<1>3. Rows(after) = Rows(list)
  BY <1>1 DEF Rows
<1> QED BY <1>2, <1>3

\* Removing the rows of a note leaves the others, in their order.
LEMMA RemovedRows ==
    ASSUME NEW list \in Seq(NoteRow), NEW n, NEW P \in SUBSET (1..Len(list)),
           \A k \in 1..Len(list) : k \in P <=> list[k].id # n, NEW after, after = Filtered(list, P)
    PROVE  /\ after \in Seq(NoteRow)
           /\ Els(after) = {row \in Els(list) : row.id # n}
           /\ Descends(list) => Descends(after)
<1>1. \A k \in 1..Len(list) : k \in P <=> list[k].id # n
  OBVIOUS
<1>2. P \in SUBSET (1..Len(list)) /\ IsList(list) /\ Len(list) \in Nat /\ Els(list) \subseteq NoteRow
  BY <1>1, TypedList
<1>3. /\ IsList(after) /\ Len(after) = Cardinality(P) /\ Els(after) = {list[p] : p \in P}
      /\ \A i \in 1..Cardinality(P) : Ascending(P)[i] \in P /\ after[i] = list[Ascending(P)[i]]
  <2>1. after = Filtered(list, P)
    BY <1>1
  <2>2. IsList(Filtered(list, P)) /\ Len(Filtered(list, P)) = Cardinality(P)
    BY <1>2, FilteredList
  <2>3. \A i \in 1..Cardinality(P) :
            Ascending(P)[i] \in P /\ Filtered(list, P)[i] = list[Ascending(P)[i]]
    BY <1>2, FilteredList
  <2>4. Els(Filtered(list, P)) = {list[p] : p \in P}
    BY <1>2, FilteredList
  <2> QED BY <2>1, <2>2, <2>3, <2>4
<1>4. Els(after) = {row \in Els(list) : row.id # n}
  <2>1. \A p \in P : list[p] \in Els(list) /\ list[p].id # n
    BY <1>1 DEF Els
  <2>2. ASSUME NEW row \in Els(list), row.id # n PROVE \E p \in P : row = list[p]
    <3>1. PICK k \in 1..Len(list) : row = list[k]
      BY DEF Els
    <3>2. k \in P
      BY <1>1, <2>2, <3>1
    <3> QED BY <3>1, <3>2
  <2>3. Els(after) = {list[p] : p \in P}
    BY <1>3
  <2>4. PICK E, L : E = Els(after) /\ L = Els(list)
    OBVIOUS
  <2>5. \A row \in E : row \in L /\ row.id # n
    BY <2>1, <2>3, <2>4
  <2>6. \A row \in L : row.id # n => row \in E
    BY <2>2, <2>3, <2>4
  <2>7. E = {row \in L : row.id # n}
    BY <2>5, <2>6
  <2> QED BY <2>4, <2>7
<1>5. after \in Seq(NoteRow)
  BY <1>2, <1>3, <1>4, ListTyped
<1>6. ASSUME Descends(list) PROVE Descends(after)
  <2>1. IsFiniteSet(1..Len(list))
    BY <1>2, FS_Interval
  <2>2. P \in SUBSET Int
    BY <1>2
  <2>4. IsFiniteSet(P)
    BY <1>2, <2>1, FS_Subset
  <2>3. \A i, j \in 1..Cardinality(P) : i < j => Ascending(P)[i] < Ascending(P)[j]
    BY <2>2, <2>4, AscendingList
  <2>5. ASSUME NEW i \in 1..Len(after), NEW j \in 1..Len(after), i < j
        PROVE  after[i].id > after[j].id
    <3>1. PICK a \in P, b \in P : a = Ascending(P)[i] /\ b = Ascending(P)[j]
      BY <1>3
    <3>2. a < b /\ after[i] = list[a] /\ after[j] = list[b]
      BY <1>3, <2>3, <2>5, <3>1
    <3> QED BY <1>2, <1>6, <3>1, <3>2 DEF Descends
  <2> QED BY <2>5 DEF Descends
<1> QED BY <1>4, <1>5, <1>6

\* The notes there are
LEMMA NotesThere ==
    ASSUME NotesType
    PROVE  /\ Len(notes) \in Nat /\ NoteIds \in SUBSET Nat /\ IsFiniteSet(NoteIds)
           /\ \A n \in NoteIds : n > 0 /\ n <= Len(notes) /\ notes[n] \in Note
           /\ IsFiniteSet(UnreadNotes) /\ UnreadNotes \subseteq KeptNotes
           /\ IsFiniteSet(KeptNotes) /\ KeptNotes \subseteq NoteIds
<1>1. Len(notes) \in Nat /\ NoteIds = 1..Len(notes)
  BY DEF NotesType, NoteIds
<1>2. IsFiniteSet(NoteIds)
  BY <1>1, FS_Interval
<1>3. UnreadNotes \subseteq NoteIds /\ KeptNotes \subseteq NoteIds /\ UnreadNotes \subseteq KeptNotes
  BY DEF UnreadNotes, KeptNotes
<1>4. IsFiniteSet(UnreadNotes) /\ IsFiniteSet(KeptNotes)
  BY <1>2, <1>3, FS_Subset
<1>5. \A n \in NoteIds : n > 0 /\ n <= Len(notes) /\ notes[n] \in Note
  BY <1>1 DEF NotesType
<1> QED BY <1>1, <1>2, <1>3, <1>4, <1>5

\* The newest notes: rows of notes that are kept, in order, no kept note
\* being newer than one of them and not among them.
LEMMA NewestRows ==
    ASSUME NotesType, NEW limit \in Nat, NEW list, list = Newest(limit)
    PROVE  /\ list \in Seq(NoteRow) /\ Descends(list)
           /\ \A row \in Els(list) :
                  row.id \in NoteIds /\ notes[row.id].kept /\ row.read = notes[row.id].read
           /\ \A n \in KeptNotes \ Rows(list) : Beneath(n, list)
<1>1. /\ KeptNotes \in SUBSET Int /\ IsFiniteSet(KeptNotes) /\ KeptNotes \subseteq NoteIds
      /\ \A n \in NoteIds : notes[n] \in Note /\ n \in Nat
  BY NotesThere
<1>2. PICK down : down = Descending(KeptNotes)
  OBVIOUS
<1>3. Cardinality(KeptNotes) \in Nat
  BY <1>1, FS_CardinalityType
<1>4. /\ Len(down) = Cardinality(KeptNotes) /\ Els(down) = KeptNotes
      /\ \A i, j \in 1..Len(down) : i < j => down[j] < down[i]
  BY <1>1, <1>2, DescendingList
<1>5. PICK m \in 0..Len(down) : m = IF Len(down) < limit THEN Len(down) ELSE limit
  BY <1>3, <1>4
<1>6. list = [k \in 1..m |-> [id |-> down[k], read |-> notes[down[k]].read]]
  BY <1>2, <1>5 DEF Newest, KeptNotes
<1>7. m \in Nat /\ \A k \in 1..m : k \in 1..Len(down) /\ down[k] \in KeptNotes
  BY <1>3, <1>4, <1>5 DEF Els
<1>8. \A k \in 1..m : /\ list[k] \in NoteRow /\ list[k].id = down[k]
                      /\ list[k].read = notes[down[k]].read
  <2>1. ASSUME NEW k \in 1..m
        PROVE  /\ list[k] \in NoteRow /\ list[k].id = down[k]
               /\ list[k].read = notes[down[k]].read
    <3>1. PICK n \in NoteIds : n = down[k]
      BY <1>1, <1>7
    <3>2. list[k] = [id |-> n, read |-> notes[n].read] /\ notes[n].read \in BOOLEAN /\ n \in Nat
      BY <1>1, <1>6, <3>1 DEF Note
    <3> QED BY <3>1, <3>2 DEF NoteRow
  <2> QED BY <2>1
<1>9. list \in Seq(NoteRow) /\ Len(list) = m
  BY <1>6, <1>7, <1>8
<1>10. Descends(list)
  <2>1. ASSUME NEW j \in 1..m, NEW k \in 1..m, j < k PROVE list[j].id > list[k].id
    <3>1. down[k] < down[j] /\ down[j] \in Int /\ down[k] \in Int
      BY <1>1, <1>4, <1>7, <2>1
    <3> QED BY <1>8, <3>1
  <2> QED BY <1>9, <2>1 DEF Descends
<1>11. \A row \in Els(list) :
           row.id \in NoteIds /\ notes[row.id].kept /\ row.read = notes[row.id].read
  <2>1. ASSUME NEW row \in Els(list)
        PROVE  row.id \in NoteIds /\ notes[row.id].kept /\ row.read = notes[row.id].read
    <3>1. PICK k \in 1..m : row = list[k]
      BY <1>9 DEF Els
    <3> QED BY <1>1, <1>7, <1>8, <3>1 DEF KeptNotes
  <2> QED BY <2>1
<1>12. ASSUME NEW n \in KeptNotes \ Rows(list), NEW row \in Els(list) PROVE n < row.id
  <2>1. PICK k \in 1..m : row = list[k]
    BY <1>9 DEF Els
  <2>2. PICK i \in 1..Len(down) : n = down[i]
    BY <1>4 DEF Els
  <2>3. i \notin 1..m
    BY <1>8, <1>9, <1>12, <2>2 DEF Rows
  <2>4. k < i
    BY <1>3, <1>4, <1>7, <2>1, <2>2, <2>3
  <2>5. down[i] < down[k]
    BY <1>4, <1>7, <2>4
  <2> QED BY <1>8, <2>1, <2>2, <2>5
<1>13. \A n \in KeptNotes \ Rows(list) : Beneath(n, list)
  BY <1>12 DEF Beneath
<1> QED BY <1>9, <1>10, <1>11, <1>13

\* Alike but for being out of date
Like(c, d) ==
    /\ c \in Errand /\ c.op = d.op /\ c.id = d.id /\ c.from = d.from /\ c.at = d.at /\ c.rows = d.rows
    /\ c.count = d.count /\ c.early = d.early
    /\ d.stale => c.stale

\* Crossing makes every answer on its way out of date, and changes no more.
LEMMA CrossedLike ==
    ASSUME NEW S \in SUBSET Errand
    PROVE  /\ Crossed(S) \subseteq Errand
           /\ \A c \in Crossed(S) : \E d \in S : Like(c, d) /\ (c.at # {} => c.stale)
           /\ \A d \in S : \E c \in Crossed(S) : Like(c, d)
<1>1. ASSUME NEW d \in S
      PROVE  \E c \in Errand : /\ c = [d EXCEPT !.stale = @ \/ d.at # {}]
                               /\ Like(c, d) /\ (c.at # {} => c.stale)
  <2>1. d \in Errand
    OBVIOUS
  <2>2. PICK c : c = [d EXCEPT !.stale = @ \/ d.at # {}]
    OBVIOUS
  <2>3. /\ c \in Errand /\ (c.stale <=> d.stale \/ d.at # {})
        /\ c.op = d.op /\ c.id = d.id /\ c.from = d.from /\ c.at = d.at /\ c.rows = d.rows
        /\ c.count = d.count /\ c.early = d.early
    BY <2>1, <2>2 DEF Errand
  <2>4. Like(c, d) /\ (c.at # {} => c.stale)
    BY <2>3 DEF Like
  <2> QED BY <2>2, <2>3, <2>4
<1> QED BY <1>1 DEF Crossed

-----------------------------------------------------------------------------
(* Notices: what stays as it was *)

\* While no note changes nor loses its push, what is said of answers and of
\* notes says the same.
LEMMA SameNotes ==
    ASSUME notes' = notes, ToCome' = ToCome
    PROVE  /\ NoteIds' = NoteIds /\ UnreadNotes' = UnreadNotes /\ KeptNotes' = KeptNotes
           /\ \A n : Latest(n)' <=> Latest(n)
           /\ \A c : CountSound(c)' <=> CountSound(c)
           /\ \A c : ListSound(c)' <=> ListSound(c)
           /\ \A c : ErrandFits(c)' <=> ErrandFits(c)
<1>1. NoteIds' = NoteIds /\ UnreadNotes' = UnreadNotes /\ KeptNotes' = KeptNotes
  BY DEF NoteIds, UnreadNotes, KeptNotes
<1>2. \A n : Latest(n)' <=> Latest(n)
  BY <1>1 DEF Latest
<1>3. \A c : CountedNotes(c)' = CountedNotes(c)
  BY <1>1 DEF CountedNotes
<1>4. \A c : CountSound(c)' <=> CountSound(c)
  BY <1>1, <1>2, <1>3 DEF CountSound
<1>5. \A c : ListSound(c)' <=> ListSound(c)
  BY <1>1 DEF ListSound
<1>6. \A c : ErrandFits(c)' <=> ErrandFits(c)
  BY <1>1 DEF ErrandFits
<1> QED BY <1>1, <1>2, <1>4, <1>5, <1>6

\* So do the rows, while neither they nor what is stored and not shown change.
LEMMA SameRows ==
    ASSUME notes' = notes, ToCome' = ToCome, items' = items,
           \A op \in {"read", "delete", "all"} : StoredAs(op)' = StoredAs(op)
    PROVE  /\ RowsSound' <=> RowsSound
           /\ Due' = Due
           /\ ~astray' /\ ~astray => (Calm' <=> Calm)
<1>1. /\ NoteIds' = NoteIds /\ UnreadNotes' = UnreadNotes /\ KeptNotes' = KeptNotes
      /\ \A n : Latest(n)' <=> Latest(n)
  BY SameNotes
<1>2. StoredAs("read")' = StoredAs("read") /\ StoredAs("all")' = StoredAs("all")
      /\ StoredAs("delete")' = StoredAs("delete")
  OBVIOUS
<1>3. RowsSound' <=> RowsSound
  BY <1>1, <1>2 DEF RowsSound
<1>4. Due' = Due
  BY <1>1 DEF Due, ShownUnread
<1>5. ~astray' /\ ~astray => (Calm' <=> Calm)
  BY <1>2 DEF Calm
<1> QED BY <1>3, <1>4, <1>5

\* The requests of which something is stored stay so while they are there.
LEMMA StoredStay ==
    ASSUME \A c \in chores' : c \in chores \/ c.at # {"stored"},
           \A c \in chores : c.at = {"stored"} => c \in chores'
    PROVE  \A op : StoredAs(op)' = StoredAs(op)
BY DEF StoredAs

\* A step that leaves the notes, the pushes and the store alone, and of the
\* requests drops only such as stored nothing.
LEMMA AsideStep ==
    ASSUME NotesInv, UNCHANGED <<notes, topic, items, unread, astray>>, Saving' <=> Saving,
           EventsTold', inbox' \in Seq(Deed), happened' \in Nat, taps' \in Nat,
           panel' \in [open : BOOLEAN, loading : BOOLEAN, rows : Seq(NoteRow)],
           Rows(panel'.rows) \subseteq NoteIds,
           \A c \in chores' : c \in chores \/ (c \in Errand /\ c.at = {} /\ ErrandFits(c)),
           \A c \in chores : c.at = {"stored"} => c \in chores'
    PROVE  NotesInv'
<1>1. ToCome' = ToCome
  BY DEF ToCome, NoteIds, Saving
<1>2. /\ NoteIds' = NoteIds
      /\ \A c : CountSound(c)' <=> CountSound(c)
      /\ \A c : ListSound(c)' <=> ListSound(c)
      /\ \A c : ErrandFits(c)' <=> ErrandFits(c)
  BY <1>1, SameNotes
<1>3. \A op : StoredAs(op)' = StoredAs(op)
  <2>1. \A c \in chores' : c \in chores \/ c.at # {"stored"}
    OBVIOUS
  <2> QED BY <2>1, StoredStay
<1>4. NotesType'
  BY DEF NotesInv, NotesType
<1>5. NotesFit'
  BY <1>2 DEF NotesInv, NotesFit
<1>6. TopicSound'
  BY DEF NotesInv, TopicSound
<1>7. StoredSound'
  BY <1>2, <1>3 DEF NotesInv, StoredSound
<1>8. AnswersSound'
  <2>1. ASSUME NEW c \in chores' PROVE CountSound(c) /\ ListSound(c)
    <3>1. CASE c \in chores
      BY <3>1 DEF NotesInv, AnswersSound
    <3>2. CASE c.at = {}
      BY <3>2 DEF CountSound, ListSound
    <3> QED BY <3>1, <3>2
  <2> QED BY <1>2, <2>1 DEF AnswersSound
<1>9. BadgeSound'
  BY DEF NotesInv, BadgeSound
<1>10. StoreSound'
  <2>1. (RowsSound' <=> RowsSound) /\ Due' = Due /\ (~astray' /\ ~astray => (Calm' <=> Calm))
    BY <1>1, <1>3, SameRows
  <2>2. Calm' => ~astray' /\ ~astray
    BY DEF Calm
  <2> QED BY <1>3, <2>1, <2>2 DEF NotesInv, StoreSound
<1> QED BY <1>4, <1>5, <1>6, <1>7, <1>8, <1>9, <1>10 DEF NotesInv

\* What is told stays told while no event comes or is handled.
LEMMA ToldStays ==
    ASSUME NotesInv, UNCHANGED <<inbox, happened, owed, uneven>>, Len(notes') = Len(notes),
           \A n \in NoteIds : notes'[n].of = notes[n].of
    PROVE  EventsTold' /\ inbox' \in Seq(Deed) /\ happened' \in Nat /\ (Saving' <=> Saving)
<1>1. NoteIds' = NoteIds
  BY DEF NoteIds
<1>2. \A nr : NotesOf(nr)' = NotesOf(nr)
  BY <1>1 DEF NotesOf
<1>3. \A nr : NotedAs(nr)' <=> NotedAs(nr)
  BY <1>1, <1>2 DEF NotedAs
<1>4. \A e : Awaits(e)' <=> Awaits(e)
  BY <1>1, <1>2 DEF Awaits
<1>5. EventsTold'
  BY <1>1, <1>3, <1>4 DEF NotesInv, EventsTold
<1>6. inbox' \in Seq(Deed) /\ happened' \in Nat
  BY DEF NotesInv, NotesType
<1>7. Saving' <=> Saving
  BY DEF Saving, Current
<1> QED BY <1>5, <1>6, <1>7

\* A request that is made
LEMMA ErrandMade ==
    ASSUME NotesType, NEW op \in {"refresh", "badge", "panel", "read", "all", "delete"},
           NEW n \in Nat, NEW from \in {"page", "bell"}, op \in {"read", "delete"} => n \in NoteIds
    PROVE  /\ Chore(op, n, from) \in Errand /\ Chore(op, n, from).at = {}
           /\ ErrandFits(Chore(op, n, from))
<1>1. PICK c : c = Chore(op, n, from)
  OBVIOUS
<1>2. /\ c.op = op /\ c.id = n /\ c.from = from /\ c.nr = taps /\ c.at = {} /\ c.rows = <<>>
      /\ c.count = 0 /\ c.early = {} /\ c.stale = FALSE
      /\ c = [op |-> op, id |-> n, from |-> from, nr |-> taps, at |-> {}, rows |-> <<>>,
              count |-> 0, early |-> {}, stale |-> FALSE]
  BY <1>1 DEF Chore
<1>3. taps \in Nat /\ <<>> \in Seq(NoteRow) /\ Len(notes) \in Nat
  BY DEF NotesType
<1>4. c \in Errand
  BY <1>2, <1>3 DEF Errand
<1>5. Rows(c.rows) = {}
  BY <1>2 DEF Rows
<1>6. ErrandFits(c)
  BY <1>2, <1>3, <1>5 DEF ErrandFits
<1> QED BY <1>1, <1>2, <1>4, <1>6

-----------------------------------------------------------------------------
(* Notices: steps aside from the store *)

\* The user comes and goes, and asks.
LEMMA TapsAside ==
    ASSUME NotesInv,
           \/ OpenPage \/ LeavePage \/ RefreshPage \/ CountBadge \/ OpenPanel \/ ClosePanel
           \/ Connects \/ Disconnects
           \/ \E from \in {"page", "bell"} : MarkAll(from)
           \/ \E n \in NoteIds : Delete(n) \/ Activate(n, "page") \/ Activate(n, "bell")
    PROVE  NotesInv'
<1> USE DEF Tap, Fault, notesDb, notesUi, notesBounds
<1>1. /\ UNCHANGED <<notes, topic, items, unread, astray, inbox, happened, owed, uneven>>
      /\ panel' = panel \/ panel' = [panel EXCEPT !.open = FALSE]
         \/ panel' = [panel EXCEPT !.open = TRUE, !.loading = TRUE]
      /\ taps' = taps \/ taps' = taps + 1
  BY DEF OpenPage, LeavePage, RefreshPage, CountBadge, OpenPanel, ClosePanel, Connects, Disconnects,
         MarkAll, Delete, Activate, Refreshes, Starts
<1>2. \A c \in chores' : c \in chores \/ \E op \in {"refresh", "badge", "panel", "read", "all", "delete"},
                             n \in Nat, from \in {"page", "bell"} :
                                 /\ c = Chore(op, n, from)
                                 /\ op \in {"read", "delete"} => n \in NoteIds
  <2>1. \A n \in NoteIds : n \in Nat
    BY NotesThere DEF NotesInv
  <2> QED
    BY <2>1 DEF OpenPage, LeavePage, RefreshPage, CountBadge, OpenPanel, ClosePanel, Connects,
           Disconnects, MarkAll, Delete, Activate, Refreshes, Starts
<1>3. \A c \in chores : c.op \notin {"panel", "badge"} => c \in chores'
  BY DEF OpenPage, LeavePage, RefreshPage, CountBadge, OpenPanel, ClosePanel, Connects,
         Disconnects, MarkAll, Delete, Activate, Refreshes, Starts
<1>4. \A c \in chores : c.at = {"stored"} => c \in chores'
  BY <1>3 DEF NotesInv, NotesFit, ErrandFits
<1>5. \A c \in chores' : c \in chores \/ (c \in Errand /\ c.at = {} /\ ErrandFits(c))
  BY <1>2, ErrandMade DEF NotesInv
<1>6. EventsTold' /\ inbox' \in Seq(Deed) /\ happened' \in Nat /\ (Saving' <=> Saving)
  BY <1>1, ToldStays
<1>7. panel' \in [open : BOOLEAN, loading : BOOLEAN, rows : Seq(NoteRow)] /\ taps' \in Nat
  <2>1. panel \in [open : BOOLEAN, loading : BOOLEAN, rows : Seq(NoteRow)] /\ taps \in Nat
    BY DEF NotesInv, NotesType
  <2>2. panel' \in [open : BOOLEAN, loading : BOOLEAN, rows : Seq(NoteRow)]
    BY <1>1, <2>1
  <2>3. taps' \in Nat
    BY <1>1, <2>1
  <2> QED BY <2>2, <2>3
<1>8. Rows(panel'.rows) \subseteq NoteIds
  <2>1. panel'.rows = panel.rows
    BY <1>1 DEF NotesInv, NotesType
  <2> QED BY <2>1 DEF NotesInv, NotesFit
<1> QED BY <1>1, <1>4, <1>5, <1>6, <1>7, <1>8, AsideStep

\* So are an answer for the panel, a request that has nothing to store, and a
\* failure of one that had stored nothing.
LEMMA AnswersAside ==
    ASSUME NotesInv, NEW c \in chores,
           \/ PanelDone(c)
           \/ (StoreRead(c) \/ StoreDelete(c)) /\ ~notes[c.id].kept
           \/ ChoreFails(c) /\ c.at # {"stored"}
    PROVE  NotesInv'
<1> USE DEF Fault, notesDb, notesUi, notesBounds, Finished
<1>1. /\ UNCHANGED <<notes, topic, items, unread, astray, inbox, happened, owed, uneven>>
      /\ panel' = panel \/ panel' = [panel EXCEPT !.loading = FALSE, !.rows = c.rows]
         \/ panel' = [panel EXCEPT !.loading = FALSE, !.rows = <<>>]
      /\ taps' = taps /\ chores' = chores \ {c} /\ c.at # {"stored"}
  <2>1. CASE PanelDone(c)
    BY <2>1 DEF PanelDone
  <2>2. CASE (StoreRead(c) \/ StoreDelete(c)) /\ ~notes[c.id].kept
    BY <2>2 DEF StoreRead, StoreDelete
  <2>3. CASE ChoreFails(c) /\ c.at # {"stored"}
    BY <2>3 DEF ChoreFails, NotesInv, NotesType
  <2> QED BY <2>1, <2>2, <2>3
<1>2. EventsTold' /\ inbox' \in Seq(Deed) /\ happened' \in Nat /\ (Saving' <=> Saving)
  BY <1>1, ToldStays
<1>3. c.rows \in Seq(NoteRow) /\ <<>> \in Seq(NoteRow) /\ Rows(c.rows) \subseteq NoteIds
      /\ Rows(<<>>) = {}
  BY DEF NotesInv, NotesType, NotesFit, ErrandFits, Errand, Rows
<1>4. panel' \in [open : BOOLEAN, loading : BOOLEAN, rows : Seq(NoteRow)] /\ taps' \in Nat
  BY <1>1, <1>3 DEF NotesInv, NotesType
<1>5. Rows(panel'.rows) \subseteq NoteIds
  <2>1. panel'.rows \in {panel.rows, c.rows, <<>>}
    BY <1>1 DEF NotesInv, NotesType
  <2> QED BY <1>3, <2>1 DEF NotesInv, NotesFit
<1>6. /\ \A d \in chores' : d \in chores
      /\ \A d \in chores : d.at = {"stored"} => d \in chores'
  BY <1>1
<1> QED BY <1>1, <1>2, <1>4, <1>5, <1>6, AsideStep

-----------------------------------------------------------------------------
(* Notices: events *)

\* The event that is handled leaves, and no other has been begun.
LEMMA EventLeaves ==
    ASSUME NotesInv, inbox # <<>>, inbox' = Tail(inbox)
    PROVE  /\ inbox' \in Seq(Deed) /\ ~Saving'
           /\ \A j, k \in 1..Len(inbox') : j < k => inbox'[j].nr < inbox'[k].nr
           /\ \A k \in 1..Len(inbox') : inbox'[k].at = "saved" => k = 1
           /\ Els(inbox) = Els(inbox') \cup {Current}
<1>1. inbox \in Seq(Deed) /\ IsList(inbox)
  BY TypedList DEF NotesInv, NotesType
<1>2. /\ inbox' \in Seq(Deed) /\ Len(inbox') = Len(inbox) - 1 /\ Len(inbox) \in Nat
      /\ \A i \in 1..Len(inbox') : inbox'[i] = inbox[i + 1]
      /\ Els(inbox) = Els(inbox') \cup {Current}
  <2>1. inbox' \in Seq(Deed) /\ Len(inbox) \in Nat
    BY <1>1
  <2>2. /\ Len(inbox') = Len(inbox) - 1 /\ Head(inbox) = inbox[1]
        /\ \A i \in 1..Len(inbox') : inbox'[i] = inbox[i + 1]
        /\ Els(inbox) = Els(inbox') \cup {Head(inbox)}
    BY <1>1, TailList
  <2> QED BY <2>1, <2>2 DEF Current
<1>3. \A i \in 1..Len(inbox') : i \in Nat /\ i + 1 \in 1..Len(inbox) /\ i + 1 # 1
  BY <1>2
<1>4. \A k \in 1..Len(inbox') : inbox'[k].at # "saved"
  BY <1>2, <1>3 DEF NotesInv, EventsTold
<1>5. \A j, k \in 1..Len(inbox') : j < k => inbox'[j].nr < inbox'[k].nr
  <2>1. ASSUME NEW j \in 1..Len(inbox'), NEW k \in 1..Len(inbox'), j < k
        PROVE  inbox'[j].nr < inbox'[k].nr
    <3>1. j + 1 < k + 1
      BY <2>1
    <3> QED BY <1>2, <1>3, <3>1 DEF NotesInv, EventsTold
  <2> QED BY <2>1
<1>6. ~Saving'
  <2>1. inbox' # <<>> => 1 \in 1..Len(inbox')
    BY <1>2
  <2> QED BY <1>4, <2>1 DEF Saving, Current
<1> QED BY <1>2, <1>4, <1>5, <1>6

\* Its notes are as they are to be, or a failure touched it.
LEMMA HandledTold ==
    ASSUME NotesInv, inbox # <<>>, inbox' = Tail(inbox), UNCHANGED <<notes, happened, owed>>,
           uneven \subseteq uneven', NotedAs(Current.nr) \/ Current.nr \in uneven'
    PROVE  EventsTold'
<1>1. NoteIds' = NoteIds /\ \A nr : NotesOf(nr)' = NotesOf(nr)
  BY DEF NoteIds, NotesOf
<1>2. /\ \A j, k \in 1..Len(inbox') : j < k => inbox'[j].nr < inbox'[k].nr
      /\ \A k \in 1..Len(inbox') : inbox'[k].at = "saved" => k = 1
      /\ Els(inbox) = Els(inbox') \cup {Current}
  BY EventLeaves
<1>3. (\A nr : NotedAs(nr)' <=> NotedAs(nr)) /\ \A e : Awaits(e) => Awaits(e)'
  BY <1>1 DEF NotedAs, Awaits
<1>4. \A e \in Els(inbox') : Awaits(e)'
  BY <1>2, <1>3 DEF NotesInv, EventsTold
<1>5. \A nr \in 1..happened' \ uneven' : (\E e \in Els(inbox') : e.nr = nr) \/ NotedAs(nr)'
  BY <1>2, <1>3 DEF NotesInv, EventsTold
<1>6. (\A n \in NoteIds' : notes'[n].of \in 1..happened') /\ owed' \subseteq 1..happened'
  BY <1>1 DEF NotesInv, EventsTold
<1> QED BY <1>2, <1>4, <1>5, <1>6 DEF EventsTold

\* The event that is handled
LEMMA CurrentHeld ==
    ASSUME NotesInv, inbox # <<>>
    PROVE  /\ Current \in Deed /\ Current \in Els(inbox) /\ Awaits(Current) /\ 1 \in 1..Len(inbox)
           /\ Current.nr \in 1..happened
<1>1. inbox \in Seq(Deed)
  BY DEF NotesInv, NotesType
<1>2. 1 \in 1..Len(inbox) /\ inbox[1] \in Deed
  BY <1>1
<1>3. Current \in Els(inbox)
  BY <1>2 DEF Current, Els
<1> QED BY <1>2, <1>3 DEF NotesInv, EventsTold, Current, Awaits

\* An event that happens waits behind the others.
LEMMA HappensInv ==
    ASSUME NotesInv, NEW e \in Events, Happens(e)
    PROVE  NotesInv'
<1>1. PICK x : x = [e EXCEPT !.nr = happened']
  OBVIOUS
<1>2. /\ happened' = happened + 1 /\ inbox' = Append(inbox, x) /\ happened \in Nat
      /\ owed' = IF Concerns(x) THEN owed \cup {happened'} ELSE owed
      /\ UNCHANGED <<notes, topic, items, unread, panel, astray, chores, taps, uneven>>
  BY <1>1 DEF Happens, Concerns, Events, Event, notesUi, NotesInv, NotesType
<1>3. x \in Deed /\ x.nr = happened' /\ x.at = "sent"
  <2>1. e \in Deed /\ e.at = "sent"
    <3>1. PICK what \in {"deed", "author", "post"}, by \in {"other", "me"}, shown \in BOOLEAN :
              e = Event(what, by, shown)
      BY DEF Events
    <3>2. e = [what |-> what, by |-> by, shown |-> shown, nr |-> 0, at |-> "sent"]
      BY <3>1 DEF Event
    <3> QED BY <3>2 DEF Deed
  <2>2. happened' \in Nat
    BY <1>2
  <2> QED BY <1>1, <2>1, <2>2 DEF Deed
<1>4. inbox \in Seq(Deed) /\ IsList(inbox) /\ Len(inbox) \in Nat
  BY TypedList DEF NotesInv, NotesType
<1>5. /\ inbox' \in Seq(Deed) /\ Len(inbox') = Len(inbox) + 1
      /\ \A i \in 1..Len(inbox) : inbox'[i] = inbox[i]
      /\ inbox'[Len(inbox) + 1] = x /\ Els(inbox') = Els(inbox) \cup {x}
  <2>1. inbox' \in Seq(Deed)
    BY <1>2, <1>3, <1>4
  <2> QED BY <1>2, <1>4, <2>1, AppendList
<1>6. \A k \in 1..Len(inbox') : k \in 1..Len(inbox) \/ k = Len(inbox) + 1
  BY <1>4, <1>5
<1>7. \A i \in 1..Len(inbox) : inbox[i] \in Els(inbox)
  BY DEF Els
<1>8. \A d \in Els(inbox) : d.nr \in 1..happened /\ d.nr # happened' /\ d.nr < happened'
  BY <1>2 DEF NotesInv, EventsTold, Awaits
<1>9. NoteIds' = NoteIds /\ \A nr : NotesOf(nr)' = NotesOf(nr)
  BY <1>2 DEF NoteIds, NotesOf
<1>10. EventsTold'
  <2>1. \A j, k \in 1..Len(inbox') : j < k => inbox'[j].nr < inbox'[k].nr
    <3>1. ASSUME NEW j \in 1..Len(inbox'), NEW k \in 1..Len(inbox'), j < k
          PROVE  inbox'[j].nr < inbox'[k].nr
      <4>1. j \in 1..Len(inbox)
        BY <1>4, <1>5, <3>1
      <4>2. CASE k \in 1..Len(inbox)
        BY <1>5, <3>1, <4>1, <4>2 DEF NotesInv, EventsTold
      <4>3. CASE k = Len(inbox) + 1
        BY <1>3, <1>5, <1>7, <1>8, <4>1, <4>3
      <4> QED BY <1>6, <4>2, <4>3
    <3> QED BY <3>1
  <2>2. \A k \in 1..Len(inbox') : inbox'[k].at = "saved" => k = 1
    BY <1>3, <1>5, <1>6 DEF NotesInv, EventsTold
  <2>3. \A n \in NoteIds' : notes'[n].of \in 1..happened /\ notes'[n].of # happened'
    BY <1>2, <1>9 DEF NotesInv, EventsTold
  <2>4. owed \subseteq 1..happened /\ happened' \notin owed /\ 1..happened \subseteq 1..happened'
    BY <1>2 DEF NotesInv, EventsTold
  <2>5. \A d \in Els(inbox) : Awaits(d)'
    BY <1>2, <1>8, <1>9, <2>4 DEF NotesInv, EventsTold, Awaits
  <2>6. Awaits(x)'
    <3>1. NotesOf(x.nr)' = {}
      BY <1>3, <2>3 DEF NotesOf
    <3>2. x.nr \in 1..happened'
      BY <1>2, <1>3
    <3>3. x.nr \in owed' <=> Concerns(x)
      BY <1>2, <1>3, <2>4
    <3> QED BY <1>3, <3>1, <3>2, <3>3 DEF Awaits
  <2>7. \A nr \in 1..happened' \ uneven' : (\E d \in Els(inbox') : d.nr = nr) \/ NotedAs(nr)'
    <3>1. ASSUME NEW nr \in 1..happened' \ uneven' PROVE (\E d \in Els(inbox') : d.nr = nr) \/ NotedAs(nr)'
      <4>1. CASE nr = happened'
        BY <1>3, <1>5, <4>1
      <4>2. CASE nr # happened'
        <5>1. nr \in 1..happened \ uneven
          BY <1>2, <4>2
        <5>2. (\E d \in Els(inbox) : d.nr = nr) \/ NotedAs(nr)
          BY <5>1 DEF NotesInv, EventsTold
        <5>3. NotedAs(nr) => NotedAs(nr)'
          BY <1>2, <1>9, <4>2 DEF NotedAs
        <5> QED BY <1>5, <5>2, <5>3
      <4> QED BY <4>1, <4>2
    <3> QED BY <3>1
  <2>8. owed' \subseteq 1..happened'
    <3>1. happened' \in 1..happened'
      BY <1>2
    <3> QED BY <1>2, <2>4, <3>1
  <2> QED BY <1>5, <2>1, <2>2, <2>3, <2>4, <2>5, <2>6, <2>7, <2>8 DEF EventsTold
<1>11. Saving' <=> Saving
  <2>1. CASE inbox = <<>>
    <3>1. inbox'[1] = x
      BY <1>4, <1>5, <2>1
    <3> QED BY <1>3, <2>1, <3>1 DEF Saving, Current
  <2>2. CASE inbox # <<>>
    <3>1. inbox'[1] = inbox[1] /\ inbox' # <<>>
      <4>1. 1 \in 1..Len(inbox)
        BY <1>4, <2>2
      <4>2. Len(inbox') # 0
        BY <1>4, <1>5
      <4>3. Len(<<>>) = 0
        OBVIOUS
      <4> QED BY <1>5, <4>1, <4>2, <4>3
    <3> QED BY <2>2, <3>1 DEF Saving, Current
  <2> QED BY <2>1, <2>2
<1>12. /\ panel' \in [open : BOOLEAN, loading : BOOLEAN, rows : Seq(NoteRow)] /\ taps' \in Nat
       /\ happened' \in Nat /\ Rows(panel'.rows) \subseteq NoteIds
  BY <1>2 DEF NotesInv, NotesType, NotesFit
<1>13. (\A c \in chores' : c \in chores) /\ (\A c \in chores : c \in chores')
  BY <1>2
<1> QED BY <1>2, <1>5, <1>10, <1>11, <1>12, <1>13, AsideStep

\* An event nobody is told of is left alone, and so is one that fails.
LEMMA TellsNobodyInv ==
    ASSUME NotesInv, TellNobody \/ SaveFails
    PROVE  NotesInv'
<1>1. /\ inbox # <<>> /\ Current.at = "sent" /\ inbox' = Tail(inbox)
      /\ UNCHANGED <<notes, topic, items, unread, panel, astray, chores, taps, happened, owed>>
      /\ uneven \subseteq uneven'
  BY DEF TellNobody, SaveFails, notesUi, notesBounds, Fault
<1>2. inbox' \in Seq(Deed) /\ ~Saving' /\ ~Saving
  BY <1>1, EventLeaves DEF Saving
<1>3. NotedAs(Current.nr) \/ Current.nr \in uneven'
  <2>1. CASE TellNobody
    <3>1. ~Concerns(Current)
      BY <1>1, <2>1, CurrentHeld DEF TellNobody, Concerns, Skipped, Deed
    <3> QED BY <1>1, <2>1, <3>1, CurrentHeld DEF TellNobody, NotedAs, Awaits
  <2>2. CASE SaveFails
    BY <2>2 DEF SaveFails
  <2> QED BY <2>1, <2>2
<1>4. EventsTold'
  BY <1>1, <1>3, HandledTold
<1>5. /\ panel' \in [open : BOOLEAN, loading : BOOLEAN, rows : Seq(NoteRow)] /\ taps' \in Nat
      /\ happened' \in Nat /\ Rows(panel'.rows) \subseteq NoteIds
  BY <1>1 DEF NotesInv, NotesType, NotesFit
<1>6. (\A c \in chores' : c \in chores) /\ (\A c \in chores : c \in chores')
  BY <1>1
<1> QED BY <1>1, <1>2, <1>4, <1>5, <1>6, AsideStep

-----------------------------------------------------------------------------
(* Notices: notes that are saved *)

\* What is stored and not shown is so after a step that keeps the requests,
\* but for putting answers out of date, and takes nothing back.
LEMMA LikeStored ==
    ASSUME NotesInv,
           \A c \in chores' : \E d \in chores : Like(c, d),
           \A n \in NoteIds : /\ n \in NoteIds'
                              /\ notes[n].read => notes'[n].read
                              /\ ~notes[n].kept => ~notes'[n].kept,
           Len(notes') >= Len(notes), Len(notes') \in Nat
    PROVE  /\ chores' \subseteq Errand /\ (\A c \in chores' : ErrandFits(c)')
           /\ StoredSound' /\ BadgeSound'
           /\ \A op : \A c \in StoredAs(op)' : \E d \in StoredAs(op) : Like(c, d)
<1>1. chores' \subseteq Errand
  BY DEF Like
<1>2. ASSUME NEW c \in chores' PROVE ErrandFits(c)'
  <2>1. PICK d \in chores : Like(c, d)
    OBVIOUS
  <2>2. ErrandFits(d) /\ d \in Errand
    BY DEF NotesInv, NotesFit, NotesType
  <2>3. d.count \in Nat /\ Len(notes) \in Nat
    BY <2>2, NotesThere DEF Errand, NotesInv
  <2>5. NoteIds \subseteq NoteIds'
    OBVIOUS
  <2>4. c.op = "all" => c.count <= Len(notes')
    BY <2>1, <2>2, <2>3 DEF Like, ErrandFits
  <2> QED BY <2>1, <2>2, <2>4, <2>5 DEF Like, ErrandFits
<1>3. \A op : \A c \in StoredAs(op)' : \E d \in StoredAs(op) : Like(c, d)
  BY DEF StoredAs, Like
<1>4. ASSUME NEW c \in StoredAs("read")' PROVE notes'[c.id].read
  <2>1. PICK d \in StoredAs("read") : Like(c, d)
    BY <1>3
  <2>2. d.id \in NoteIds
    BY <2>1 DEF NotesInv, StoredAs, NotesFit, ErrandFits
  <2>3. notes[d.id].read
    BY <2>1 DEF NotesInv, StoredSound
  <2> QED BY <2>1, <2>2, <2>3 DEF Like
<1>5. ASSUME NEW c \in StoredAs("delete")' PROVE ~notes'[c.id].kept
  <2>1. PICK d \in StoredAs("delete") : Like(c, d)
    BY <1>3
  <2>2. ~notes[d.id].kept /\ d.id \in NoteIds
    BY <2>1 DEF NotesInv, StoredSound, StoredAs, NotesFit, ErrandFits
  <2> QED BY <2>1, <2>2 DEF Like
<1>6. ASSUME NEW c \in StoredAs("all")', NEW n \in NoteIds', n <= c.count PROVE notes'[n].read
  <2>1. PICK d \in StoredAs("all") : Like(c, d)
    BY <1>3
  <2>2. d.count <= Len(notes) /\ d.count \in Nat /\ Len(notes) \in Nat
    BY <2>1, NotesThere DEF NotesInv, StoredAs, NotesFit, ErrandFits, NotesType, Errand
  <2>3. n \in Nat /\ n >= 1
    BY DEF NoteIds
  <2>4. n \in NoteIds /\ n <= d.count
    BY <1>6, <2>1, <2>2, <2>3 DEF Like, NoteIds
  <2>5. notes[n].read
    BY <2>1, <2>4 DEF NotesInv, StoredSound
  <2> QED BY <2>4, <2>5
<1>7. StoredSound'
  BY <1>4, <1>5, <1>6 DEF StoredSound
<1>8. BadgeSound'
  <2>1. ASSUME NEW c \in chores', c.op = "badge", "counted" \in c.at, ~c.stale, NEW e \in chores'
        PROVE  e.at # {"stored"}
    <3>1. PICK d \in chores, f \in chores : Like(c, d) /\ Like(e, f)
      OBVIOUS
    <3> QED BY <2>1, <3>1 DEF Like, NotesInv, BadgeSound
  <2> QED BY <2>1 DEF BadgeSound
<1> QED BY <1>1, <1>2, <1>3, <1>7, <1>8

\* The rows are as right as they were when what is stored is, too.
LEMMA LikeRows ==
    ASSUME \A c \in chores : c.at = {"stored"} => \E d \in chores' : Like(d, c)
    PROVE  /\ \A n : (\E c \in StoredAs("read") : c.id = n) => \E c \in StoredAs("read")' : c.id = n
           /\ \A n : (\E c \in StoredAs("delete") : c.id = n) => \E c \in StoredAs("delete")' : c.id = n
           /\ \A n : (\E c \in StoredAs("all") : n <= c.count) => \E c \in StoredAs("all")' : n <= c.count
           /\ StoredAs("all")' = {} => StoredAs("all") = {}
           /\ (\A c \in StoredAs("read")' \cup StoredAs("delete")' : c.id \in Rows(items))
                  => (\A c \in StoredAs("read") \cup StoredAs("delete") : c.id \in Rows(items))
<1>1. ASSUME NEW op, NEW c \in StoredAs(op) PROVE \E d \in StoredAs(op)' : Like(d, c)
  <2>1. c \in chores /\ c.at = {"stored"} /\ c.op = op
    BY DEF StoredAs
  <2>2. PICK d \in chores' : Like(d, c)
    BY <2>1
  <2>3. d \in StoredAs(op)'
    BY <2>1, <2>2 DEF StoredAs, Like
  <2> QED BY <2>2, <2>3
<1>2. ASSUME NEW c \in StoredAs("read")
      PROVE  \E d \in StoredAs("read")' : d.id = c.id
  BY <1>1 DEF Like
<1>3. ASSUME NEW c \in StoredAs("delete")
      PROVE  \E d \in StoredAs("delete")' : d.id = c.id
  BY <1>1 DEF Like
<1>4. ASSUME NEW c \in StoredAs("all")
      PROVE  \E d \in StoredAs("all")' : d.count = c.count
  BY <1>1 DEF Like
<1> QED BY <1>2, <1>3, <1>4

\* Saving puts the note of the event that is handled behind the others.
LEMMA SaveWorld ==
    ASSUME NotesInv, SaveNote, NEW N, N = Len(notes) + 1
    PROVE  /\ N \notin NoteIds /\ NoteIds' = NoteIds \cup {N} /\ (\A n \in NoteIds : n < N)
           /\ notes' \in Seq(Note) /\ Len(notes') = N /\ N \in Nat
           /\ \A n \in NoteIds : notes'[n] = notes[n]
           /\ notes'[N] = [of |-> Current.nr, read |-> FALSE, kept |-> TRUE]
           /\ UnreadNotes' = UnreadNotes \cup {N} /\ KeptNotes' = KeptNotes \cup {N}
<1>1. Len(notes) \in Nat /\ notes \in Seq(Note) /\ IsList(notes) /\ N \in Nat
  BY TypedList DEF NotesInv, NotesType
<1>2. inbox # <<>> /\ Current.nr \in Nat
  BY CurrentHeld DEF SaveNote, Deed
<1>3. PICK x : x = [of |-> Current.nr, read |-> FALSE, kept |-> TRUE]
  OBVIOUS
<1>4. x \in Note /\ x.read = FALSE /\ x.kept = TRUE
  BY <1>2, <1>3 DEF Note
<1>5. notes' = Append(notes, x)
  BY <1>3 DEF SaveNote
<1>6. /\ notes' \in Seq(Note) /\ Len(notes') = N /\ notes'[N] = x
      /\ \A n \in 1..Len(notes) : notes'[n] = notes[n]
  <2>1. notes' \in Seq(Note)
    BY <1>1, <1>4, <1>5
  <2> QED BY <1>1, <1>5, <2>1, AppendList
<1>7. NoteIds = 1..Len(notes) /\ NoteIds' = 1..N
  BY <1>6 DEF NoteIds
<1>8. N \notin NoteIds /\ NoteIds' = NoteIds \cup {N} /\ (\A n \in NoteIds : n < N)
  BY <1>1, <1>7
<1>9. UnreadNotes' = UnreadNotes \cup {N}
  BY <1>4, <1>6, <1>7, <1>8 DEF UnreadNotes
<1>10. KeptNotes' = KeptNotes \cup {N}
  BY <1>4, <1>6, <1>7, <1>8 DEF KeptNotes
<1> QED BY <1>1, <1>3, <1>6, <1>7, <1>8, <1>9, <1>10

\* Its push is to come.
LEMMA SaveToCome ==
    ASSUME NotesInv, SaveNote, NEW N, N = Len(notes) + 1
    PROVE  /\ ~Saving /\ Saving' /\ ToCome' = ToCome \cup {N}
           /\ inbox' \in Seq(Deed) /\ Len(inbox') = Len(inbox)
           /\ inbox'[1] = [inbox[1] EXCEPT !.at = "saved"]
           /\ \A k \in 1..Len(inbox) : k # 1 => inbox'[k] = inbox[k]
<1>1. inbox \in Seq(Deed) /\ 1 \in 1..Len(inbox) /\ inbox[1] \in Deed
  BY CurrentHeld DEF NotesInv, NotesType, SaveNote, Current
<1>2. PICK x : x = [inbox[1] EXCEPT !.at = "saved"]
  OBVIOUS
<1>3. x \in Deed /\ x.at = "saved"
  BY <1>1, <1>2 DEF Deed
<1>4. inbox' = [inbox EXCEPT ![1] = x]
  BY <1>2 DEF SaveNote
<1>5. /\ inbox' \in Seq(Deed) /\ Len(inbox') = Len(inbox) /\ inbox'[1] = x
      /\ \A k \in 1..Len(inbox) : k # 1 => inbox'[k] = inbox[k]
  BY <1>1, <1>3, <1>4
<1>6. inbox' # <<>> /\ Len(inbox) \in Nat
  BY <1>1, <1>5
<1>7. Saving' /\ ~Saving /\ Current'.at = "saved"
  BY <1>3, <1>5, <1>6 DEF Saving, Current, SaveNote
<1>8. N \notin NoteIds /\ NoteIds' = NoteIds \cup {N} /\ Len(notes') = N
  BY SaveWorld
<1>9. topic' = topic /\ \A k \in 1..Len(topic) : topic[k].id \in NoteIds
  BY DEF SaveNote, NotesInv, NotesFit
<1>10. ToCome' = {n \in NoteIds' : (\E k \in 1..Len(topic) : topic[k].id = n /\ ~topic[k].again)
                                    \/ n = N}
  BY <1>6, <1>7, <1>8, <1>9 DEF ToCome
<1>11. ToCome = {n \in NoteIds : \E k \in 1..Len(topic) : topic[k].id = n /\ ~topic[k].again}
  BY <1>7 DEF ToCome, Saving
<1>12. ToCome' = ToCome \cup {N}
  BY <1>8, <1>9, <1>10, <1>11
<1> QED BY <1>2, <1>5, <1>7, <1>12

\* A refresh that was given one of its answers only is out of date.
LEMMA SaveErrands ==
    ASSUME NotesInv, SaveNote
    PROVE  /\ \A c \in chores' : \E d \in chores :
                  Like(c, d) /\ (d.at \in {{"listed"}, {"counted"}} => c.stale)
           /\ \A d \in chores : \E c \in chores' : Like(c, d)
<1>1. Cardinality({"listed"}) = 1 /\ Cardinality({"counted"}) = 1
  BY FS_Singleton
<1>2. ASSUME NEW d \in chores
      PROVE  \E c \in Errand : /\ c = [d EXCEPT !.stale = @ \/ Cardinality(d.at) = 1]
                               /\ Like(c, d) /\ (d.at \in {{"listed"}, {"counted"}} => c.stale)
  <2>1. d \in Errand
    BY DEF NotesInv, NotesType
  <2>2. PICK c : c = [d EXCEPT !.stale = @ \/ Cardinality(d.at) = 1]
    OBVIOUS
  <2>3. /\ c \in Errand /\ (c.stale <=> d.stale \/ Cardinality(d.at) = 1)
        /\ c.op = d.op /\ c.id = d.id /\ c.from = d.from /\ c.at = d.at /\ c.rows = d.rows
        /\ c.count = d.count /\ c.early = d.early
    BY <2>1, <2>2 DEF Errand
  <2>4. Like(c, d) /\ (d.at \in {{"listed"}, {"counted"}} => c.stale)
    BY <1>1, <2>3 DEF Like
  <2> QED BY <2>2, <2>3, <2>4
<1>3. chores' = {[d EXCEPT !.stale = @ \/ Cardinality(d.at) = 1] : d \in chores}
  BY DEF SaveNote
<1> QED BY <1>2, <1>3

\* Saved once: the event has its note, and keeps its place.
LEMMA SaveTold ==
    ASSUME NotesInv, SaveNote
    PROVE  EventsTold'
<1>1. PICK N : N = Len(notes) + 1
  OBVIOUS
<1>2. /\ N \notin NoteIds /\ NoteIds' = NoteIds \cup {N}
      /\ \A n \in NoteIds : notes'[n] = notes[n]
      /\ notes'[N].of = Current.nr
  BY <1>1, SaveWorld
<1>3. /\ Len(inbox') = Len(inbox) /\ inbox'[1] = [inbox[1] EXCEPT !.at = "saved"]
      /\ \A k \in 1..Len(inbox) : k # 1 => inbox'[k] = inbox[k]
  BY <1>1, SaveToCome
<1>4. /\ inbox \in Seq(Deed) /\ Len(inbox) \in Nat /\ 1 \in 1..Len(inbox) /\ inbox[1] \in Deed
      /\ Current = inbox[1] /\ Awaits(Current)
  BY CurrentHeld DEF NotesInv, NotesType, SaveNote, Current
<1>5. PICK x : x = [inbox[1] EXCEPT !.at = "saved"]
  OBVIOUS
<1>6. /\ x.nr = Current.nr /\ x.at = "saved" /\ x.what = Current.what /\ x.by = Current.by
      /\ x.shown = Current.shown
  BY <1>4, <1>5 DEF Deed
<1>7. /\ UNCHANGED <<happened, owed, uneven>> /\ Current.at = "sent"
      /\ ~Skipped(Current) /\ Current.shown
  BY DEF SaveNote, notesBounds
<1>8. Concerns(x) /\ Concerns(Current)
  BY <1>4, <1>6, <1>7 DEF Concerns, Skipped, Deed
<1>9. \A k \in 1..Len(inbox') : inbox'[k].nr = inbox[k].nr
  BY <1>3, <1>4, <1>5, <1>6
<1>10. \A k \in 1..Len(inbox) : k # 1 => inbox[k].nr # Current.nr
  <2>1. ASSUME NEW k \in 1..Len(inbox), k # 1 PROVE inbox[k].nr # Current.nr
    <3>1. 1 < k /\ inbox[k] \in Deed
      BY <1>4, <2>1
    <3>2. inbox[1].nr < inbox[k].nr
      BY <1>4, <3>1 DEF NotesInv, EventsTold
    <3> QED BY <1>4, <3>1, <3>2 DEF Deed
  <2> QED BY <2>1
<1>11. \A nr : nr # Current.nr => NotesOf(nr)' = NotesOf(nr)
  BY <1>2 DEF NotesOf
<1>12. NotesOf(Current.nr) = {} => NotesOf(x.nr)' = {N}
  BY <1>2, <1>6 DEF NotesOf
<1>13. Awaits(x)'
  BY <1>2, <1>4, <1>6, <1>7, <1>8, <1>12 DEF Awaits
<1>14. \A e \in Els(inbox') : e = x \/ (e \in Els(inbox) /\ e.nr # Current.nr)
  <2>1. ASSUME NEW k \in 1..Len(inbox'), k # 1
        PROVE  inbox'[k] \in Els(inbox) /\ inbox'[k].nr # Current.nr
    BY <1>3, <1>10, <2>1 DEF Els
  <2> QED BY <1>3, <1>5, <2>1 DEF Els
<1>15. \A e \in Els(inbox') : Awaits(e)'
  <2>1. ASSUME NEW e \in Els(inbox), e.nr # Current.nr PROVE Awaits(e)'
    <3>1. Awaits(e) /\ NotesOf(e.nr)' = NotesOf(e.nr)
      BY <1>11, <2>1 DEF NotesInv, EventsTold
    <3> QED BY <1>2, <1>7, <3>1 DEF Awaits
  <2> QED BY <1>13, <1>14, <2>1
<1>16. \A e \in Els(inbox) : \E f \in Els(inbox') : f.nr = e.nr
  BY <1>3, <1>9 DEF Els
<1>17. ASSUME NEW nr \in 1..happened' \ uneven' PROVE (\E e \in Els(inbox') : e.nr = nr) \/ NotedAs(nr)'
  <2>1. CASE \E e \in Els(inbox) : e.nr = nr
    BY <1>16, <2>1
  <2>2. CASE NotedAs(nr) /\ nr # Current.nr
    BY <1>2, <1>7, <1>11, <2>2 DEF NotedAs
  <2>3. CASE nr = Current.nr
    BY <1>16, <2>3, CurrentHeld DEF SaveNote
  <2> QED BY <1>7, <2>1, <2>2, <2>3 DEF NotesInv, EventsTold
<1>18. \A j, k \in 1..Len(inbox') : j < k => inbox'[j].nr < inbox'[k].nr
  BY <1>3, <1>9 DEF NotesInv, EventsTold
<1>19. \A k \in 1..Len(inbox') : inbox'[k].at = "saved" => k = 1
  BY <1>3 DEF NotesInv, EventsTold
<1>20. \A n \in NoteIds' : notes'[n].of \in 1..happened'
  <2>1. Current.nr \in 1..happened
    BY <1>4 DEF Awaits
  <2> QED BY <1>2, <1>7, <2>1 DEF NotesInv, EventsTold
<1>21. owed' \subseteq 1..happened'
  BY <1>7 DEF NotesInv, EventsTold
<1> QED BY <1>15, <1>17, <1>18, <1>19, <1>20, <1>21 DEF EventsTold

\* The answers that are not out of date leave the new note to its push.
LEMMA SaveAnswers ==
    ASSUME NotesInv, SaveNote
    PROVE  AnswersSound'
<1>1. PICK N : N = Len(notes) + 1
  OBVIOUS
<1>2. /\ N \notin NoteIds /\ NoteIds' = NoteIds \cup {N} /\ (\A n \in NoteIds : n < N) /\ N \in Nat
      /\ \A n \in NoteIds : notes'[n] = notes[n]
      /\ UnreadNotes' = UnreadNotes \cup {N} /\ KeptNotes' = KeptNotes \cup {N}
  BY <1>1, SaveWorld
<1>3. ToCome' = ToCome \cup {N} /\ ToCome \subseteq NoteIds /\ UnreadNotes \subseteq NoteIds
      /\ KeptNotes \subseteq NoteIds
  BY <1>1, SaveToCome DEF ToCome, UnreadNotes, KeptNotes
<1>4. (\A n : Latest(n)' <=> Latest(n)) /\ Latest(N)
  BY <1>2, <1>3 DEF Latest
<1>5. ASSUME NEW c \in chores' PROVE CountSound(c)' /\ ListSound(c)'
  <2>1. PICK d \in chores : Like(c, d) /\ (d.at \in {{"listed"}, {"counted"}} => c.stale)
    BY SaveErrands
  <2>2. ErrandFits(d) /\ CountSound(d) /\ ListSound(d)
    BY DEF NotesInv, NotesFit, AnswersSound
  <2>3. /\ c.op = d.op /\ c.at = d.at /\ c.rows = d.rows /\ c.count = d.count
        /\ c.early = d.early /\ (~c.stale => ~d.stale)
    BY <2>1 DEF Like
  <2>4. Rows(c.rows) \subseteq NoteIds /\ c.early \subseteq NoteIds
    BY <2>2, <2>3 DEF ErrandFits
  <2>5. Above(N, c.rows)
    BY <1>2, <2>4, RowsHeld DEF Above
  <2>6. CountedNotes(c)' = CountedNotes(d)
    BY <1>2, <1>3, <2>3, <2>4 DEF CountedNotes
  <2>7. c.op \in {"refresh", "badge"} /\ c.at # {} /\ ~c.stale => c.at = {"listed", "counted"}
    BY <2>1, <2>2, <2>3 DEF ErrandFits
  <2>8. CountSound(c)'
    <3>1. SUFFICES ASSUME c.op \in {"refresh", "badge"}, "counted" \in c.at, ~c.stale
                   PROVE  /\ c.count = Cardinality(CountedNotes(c)')
                          /\ \A n \in (UnreadNotes' \cap ToCome') \ c.early :
                                 "listed" \in c.at /\ Latest(n)' /\ Above(n, c.rows)
      BY DEF CountSound
    <3>2. d.count = Cardinality(CountedNotes(d))
      BY <2>2, <2>3, <3>1 DEF CountSound
    <3>3. "listed" \in c.at
      BY <2>7, <3>1
    <3>4. \A n \in (UnreadNotes \cap ToCome) \ c.early : Latest(n) /\ Above(n, c.rows)
      BY <2>2, <2>3, <3>1 DEF CountSound
    <3> QED BY <1>2, <1>3, <1>4, <2>3, <2>5, <2>6, <3>2, <3>3, <3>4
  <2>9. ListSound(c)'
    <3>1. SUFFICES ASSUME c.op = "refresh", "listed" \in c.at, ~c.stale
                   PROVE  /\ Descends(c.rows)
                          /\ \A row \in Els(c.rows) :
                                 notes'[row.id].kept /\ notes'[row.id].read = row.read
                          /\ \A n \in KeptNotes' \ Rows(c.rows) :
                                 \/ Beneath(n, c.rows)
                                 \/ "counted" \in c.at /\ n \in ToCome' /\ Above(n, c.rows)
      BY DEF ListSound
    <3>2. "counted" \in c.at
      BY <2>7, <3>1
    <3>3. /\ Descends(c.rows)
          /\ \A row \in Els(c.rows) : notes[row.id].kept /\ notes[row.id].read = row.read
          /\ \A n \in KeptNotes \ Rows(c.rows) :
                 \/ Beneath(n, c.rows)
                 \/ "counted" \in c.at /\ n \in ToCome /\ Above(n, c.rows)
      BY <2>2, <2>3, <3>1 DEF ListSound
    <3>4. \A row \in Els(c.rows) : row.id \in NoteIds
      BY <2>4, RowsHeld
    <3> QED BY <1>2, <1>3, <2>5, <3>2, <3>3, <3>4
  <2> QED BY <2>8, <2>9
<1> QED BY <1>5 DEF AnswersSound

LEMMA SaveNoteInv ==
    ASSUME NotesInv, SaveNote
    PROVE  NotesInv'
<1>1. PICK N : N = Len(notes) + 1
  OBVIOUS
<1>2. /\ N \notin NoteIds /\ NoteIds' = NoteIds \cup {N} /\ (\A n \in NoteIds : n < N) /\ N \in Nat
      /\ \A n \in NoteIds : notes'[n] = notes[n]
      /\ UnreadNotes' = UnreadNotes \cup {N} /\ KeptNotes' = KeptNotes \cup {N}
      /\ notes' \in Seq(Note) /\ Len(notes') = N
  BY <1>1, SaveWorld
<1>3. /\ ToCome' = ToCome \cup {N} /\ inbox' \in Seq(Deed) /\ Saving'
      /\ ToCome \subseteq NoteIds /\ UnreadNotes \subseteq NoteIds /\ KeptNotes \subseteq NoteIds
  BY <1>1, SaveToCome DEF ToCome, UnreadNotes, KeptNotes
<1>4. UNCHANGED <<topic, items, unread, panel, happened, taps, astray>>
  BY DEF SaveNote, notesUi, notesBounds
<1>5. /\ \A c \in chores' : \E d \in chores : Like(c, d)
      /\ \A d \in chores : \E c \in chores' : Like(c, d)
  BY SaveErrands
<1>6. \A n \in NoteIds : /\ n \in NoteIds'
                         /\ notes[n].read => notes'[n].read
                         /\ ~notes[n].kept => ~notes'[n].kept
  BY <1>2
<1>7. Len(notes) \in Nat /\ Len(notes') >= Len(notes) /\ Len(notes') \in Nat
  BY <1>1, <1>2, NotesThere DEF NotesInv
<1>8. /\ chores' \subseteq Errand /\ (\A c \in chores' : ErrandFits(c)')
      /\ StoredSound' /\ BadgeSound'
  BY <1>5, <1>6, <1>7, LikeStored
<1>9. NotesType'
  BY <1>2, <1>3, <1>4, <1>8 DEF NotesInv, NotesType
<1>10. Rows(items) \subseteq NoteIds /\ Rows(panel.rows) \subseteq NoteIds
       /\ \A k \in 1..Len(topic) : topic[k].id \in NoteIds /\ topic[k].id < N
  BY <1>2 DEF NotesInv, NotesFit
<1>11. NotesFit'
  BY <1>2, <1>4, <1>8, <1>10 DEF NotesFit
<1>12. TopicSound'
  <2>1. Len(notes') > 0
    BY <1>1, <1>2, <1>7
  <2> QED BY <1>2, <1>4, <1>10, <2>1 DEF TopicSound, NotesInv
<1>13. (\A n : Latest(n)' <=> Latest(n)) /\ Latest(N)
  BY <1>2, <1>3 DEF Latest
<1>14. Above(N, items) /\ \A row \in Els(items) : row.id \in NoteIds
  BY <1>2, <1>10, RowsHeld DEF Above
<1>15. /\ Calm' => Calm
       /\ StoredAs("all")' = {} => StoredAs("all") = {}
       /\ \A n : (\E c \in StoredAs("read") : c.id = n) => \E c \in StoredAs("read")' : c.id = n
       /\ \A n : (\E c \in StoredAs("delete") : c.id = n) => \E c \in StoredAs("delete")' : c.id = n
       /\ \A n : (\E c \in StoredAs("all") : n <= c.count) => \E c \in StoredAs("all")' : n <= c.count
  BY <1>4, <1>5, LikeRows DEF Calm
<1>16. RowsSound => RowsSound'
  <2> SUFFICES ASSUME RowsSound PROVE RowsSound'
    OBVIOUS
  <2>1. Descends(items')
    BY <1>4 DEF RowsSound
  <2>2. \A n \in KeptNotes' \ Rows(items') :
            Beneath(n, items') \/ (n \in ToCome' /\ Above(n, items'))
    BY <1>2, <1>3, <1>4, <1>14 DEF RowsSound
  <2>3. \A n \in (UnreadNotes' \cap ToCome') \ Rows(items') : Latest(n)' /\ Above(n, items')
    BY <1>2, <1>3, <1>4, <1>13, <1>14 DEF RowsSound
  <2>4. ASSUME NEW row \in Els(items')
        PROVE  /\ row.read => notes'[row.id].read
               /\ notes'[row.id].read => \/ row.read
                                         \/ \E c \in StoredAs("read")' : c.id = row.id
                                         \/ \E c \in StoredAs("all")' : row.id <= c.count
               /\ notes'[row.id].kept \/ \E c \in StoredAs("delete")' : c.id = row.id
    <3>1. row \in Els(items) /\ notes'[row.id] = notes[row.id]
      BY <1>2, <1>4, <1>14
    <3>2. /\ row.read => notes[row.id].read
          /\ notes[row.id].read => \/ row.read
                                   \/ \E c \in StoredAs("read") : c.id = row.id
                                   \/ \E c \in StoredAs("all") : row.id <= c.count
          /\ notes[row.id].kept \/ \E c \in StoredAs("delete") : c.id = row.id
      BY <3>1 DEF RowsSound
    <3> QED BY <1>15, <3>1, <3>2
  <2> QED BY <2>1, <2>2, <2>3, <2>4 DEF RowsSound
<1>17. Due' = Due
  <2>1. \A n : ShownUnread(n)' <=> ShownUnread(n)
    BY <1>4 DEF ShownUnread
  <2>2. ~ShownUnread(N)
    <3>1. ShownUnread(N) => N \in Rows(items)
      BY DEF ShownUnread, Rows
    <3> QED BY <1>2, <1>10, <3>1
  <2> QED BY <1>2, <1>3, <2>1, <2>2 DEF Due
<1>18. StoreSound'
  BY <1>4, <1>15, <1>16, <1>17 DEF StoreSound, NotesInv
<1> QED BY <1>8, <1>9, <1>11, <1>12, <1>18, SaveTold, SaveAnswers DEF NotesInv

-----------------------------------------------------------------------------
(* Notices: pushes *)

\* A step that goes astray: it makes every answer on its way out of date, and
\* the store may be left behind.
LEMMA AstrayStep ==
    ASSUME NotesInv, notes' = notes, astray' = TRUE,
           \A c \in chores' : \E d \in chores : Like(c, d) /\ (c.at \in {{}, {"stored"}} \/ c.stale),
           EventsTold', TopicSound', inbox' \in Seq(Deed),
           topic' \in Seq([id : Nat, again : BOOLEAN]), \A k \in 1..Len(topic') : topic'[k].id \in NoteIds,
           items' \in Seq(NoteRow), Rows(items') \subseteq NoteIds, unread' \in Nat,
           panel' \in [open : BOOLEAN, loading : BOOLEAN, rows : Seq(NoteRow)],
           Rows(panel'.rows) \subseteq NoteIds, happened' \in Nat, taps' \in Nat
    PROVE  NotesInv'
<1>1. Len(notes) \in Nat /\ NoteIds' = NoteIds
  BY NotesThere DEF NotesInv, NoteIds
<1>2. /\ chores' \subseteq Errand /\ (\A c \in chores' : ErrandFits(c)')
      /\ StoredSound' /\ BadgeSound'
  <2>1. \A c \in chores' : \E d \in chores : Like(c, d)
    OBVIOUS
  <2>2. \A n \in NoteIds : /\ n \in NoteIds'
                           /\ notes[n].read => notes'[n].read
                           /\ ~notes[n].kept => ~notes'[n].kept
    BY <1>1
  <2>3. Len(notes') \in Nat /\ Len(notes') >= Len(notes)
    BY <1>1
  <2> QED BY <2>1, <2>2, <2>3, LikeStored
<1>3. NotesType'
  BY <1>2 DEF NotesInv, NotesType
<1>4. NotesFit'
  BY <1>1, <1>2 DEF NotesFit
<1>5. AnswersSound'
  <2>1. ASSUME NEW c \in chores' PROVE CountSound(c)' /\ ListSound(c)'
    BY DEF CountSound, ListSound
  <2> QED BY <2>1 DEF AnswersSound
<1>6. StoreSound'
  BY DEF StoreSound, Calm
<1> QED BY <1>2, <1>3, <1>4, <1>5, <1>6 DEF NotesInv

\* The types that such a step leaves alone
LEMMA PanelThere ==
    ASSUME NotesInv, UNCHANGED <<panel, happened, taps>>
    PROVE  /\ panel' \in [open : BOOLEAN, loading : BOOLEAN, rows : Seq(NoteRow)]
           /\ Rows(panel'.rows) \subseteq NoteIds /\ happened' \in Nat /\ taps' \in Nat
BY DEF NotesInv, NotesType, NotesFit

\* Every answer on its way that is crossed is out of date.
LEMMA CrossedAll ==
    ASSUME NotesInv, chores' = Crossed(chores)
    PROVE  /\ \A c \in chores' : \E d \in chores : Like(c, d) /\ (c.at \in {{}, {"stored"}} \/ c.stale)
           /\ \A d \in chores : \E c \in chores' : Like(c, d)
           /\ \A c \in chores' : c.at # {} => c.stale
<1>1. chores \in SUBSET Errand
  BY DEF NotesInv, NotesType
<1>2. \A c \in Crossed(chores) : \E d \in chores : Like(c, d) /\ (c.at # {} => c.stale)
  BY <1>1, CrossedLike
<1>3. \A d \in chores : \E c \in Crossed(chores) : Like(c, d)
  BY <1>1, CrossedLike
<1> QED BY <1>2, <1>3

\* A step that touches the events and the topic only, and takes no push away.
LEMMA SameStep ==
    ASSUME NotesInv, UNCHANGED <<notes, items, unread, astray, chores, panel, happened, taps>>,
           ToCome' = ToCome, EventsTold', TopicSound', inbox' \in Seq(Deed),
           topic' \in Seq([id : Nat, again : BOOLEAN]), \A k \in 1..Len(topic') : topic'[k].id \in NoteIds
    PROVE  NotesInv'
<1>1. /\ NoteIds' = NoteIds
      /\ \A c : CountSound(c)' <=> CountSound(c)
      /\ \A c : ListSound(c)' <=> ListSound(c)
      /\ \A c : ErrandFits(c)' <=> ErrandFits(c)
  BY SameNotes
<1>2. \A op : StoredAs(op)' = StoredAs(op)
  BY DEF StoredAs
<1>3. NotesType'
  BY DEF NotesInv, NotesType
<1>4. NotesFit'
  BY <1>1 DEF NotesInv, NotesFit
<1>5. StoredSound'
  BY <1>1, <1>2 DEF NotesInv, StoredSound
<1>6. AnswersSound'
  BY <1>1 DEF NotesInv, AnswersSound
<1>7. BadgeSound'
  BY DEF NotesInv, BadgeSound
<1>8. StoreSound'
  <2>1. (RowsSound' <=> RowsSound) /\ Due' = Due /\ (~astray' /\ ~astray => (Calm' <=> Calm))
    BY <1>2, SameRows
  <2>2. Calm' => ~astray' /\ ~astray
    BY DEF Calm
  <2> QED BY <1>2, <2>1, <2>2 DEF NotesInv, StoreSound
<1> QED BY <1>3, <1>4, <1>5, <1>6, <1>7, <1>8 DEF NotesInv

\* The push of the note that was saved comes last.
LEMMA PublishedTopic ==
    ASSUME NotesInv, Saving, ~Saving', notes' = notes,
           topic' = Append(topic, [id |-> Len(notes), again |-> FALSE])
    PROVE  /\ ToCome' = ToCome /\ TopicSound' /\ topic' \in Seq([id : Nat, again : BOOLEAN])
           /\ \A k \in 1..Len(topic') : topic'[k].id \in NoteIds
<1>1. PICK x : x = [id |-> Len(notes), again |-> FALSE]
  OBVIOUS
<1>2. /\ Len(notes) \in Nat /\ Len(notes) > 0 /\ Len(notes) \in NoteIds /\ NoteIds' = NoteIds
      /\ \A k \in 1..Len(topic) : topic[k].again \/ topic[k].id < Len(notes)
  BY NotesThere DEF NotesInv, TopicSound, NoteIds
<1>3. x \in [id : Nat, again : BOOLEAN] /\ x.id = Len(notes) /\ x.again = FALSE
  BY <1>1, <1>2
<1>4. topic \in Seq([id : Nat, again : BOOLEAN]) /\ IsList(topic) /\ Len(topic) \in Nat
  BY TypedList DEF NotesInv, NotesType
<1>5. /\ topic' \in Seq([id : Nat, again : BOOLEAN]) /\ Len(topic') = Len(topic) + 1
      /\ \A i \in 1..Len(topic) : topic'[i] = topic[i]
      /\ topic'[Len(topic) + 1] = x
  <2>1. topic' = Append(topic, x)
    BY <1>1
  <2>2. topic' \in Seq([id : Nat, again : BOOLEAN])
    BY <1>3, <1>4, <2>1
  <2> QED BY <1>4, <2>1, <2>2, AppendList
<1>6. \A k \in 1..Len(topic') : k \in 1..Len(topic) \/ k = Len(topic) + 1
  BY <1>4, <1>5
<1>7. \A k \in 1..Len(topic) : k \in 1..Len(topic')
  BY <1>4, <1>5
<1>8. Len(topic) + 1 \in 1..Len(topic')
  BY <1>4, <1>5
<1>9. \A k \in 1..Len(topic') : topic'[k].id \in NoteIds
  BY <1>2, <1>3, <1>5, <1>6 DEF NotesInv, NotesFit
<1>10. ToCome' = ToCome
  <2>1. \A n : (\E k \in 1..Len(topic') : topic'[k].id = n /\ ~topic'[k].again)
               <=> (\E k \in 1..Len(topic) : topic[k].id = n /\ ~topic[k].again) \/ n = Len(notes)
    BY <1>3, <1>5, <1>6, <1>7, <1>8
  <2>2. ToCome' = {n \in NoteIds : \E k \in 1..Len(topic') : topic'[k].id = n /\ ~topic'[k].again}
    BY <1>2 DEF ToCome, Saving, Current
  <2>3. ToCome = {n \in NoteIds : (\E k \in 1..Len(topic) : topic[k].id = n /\ ~topic[k].again)
                                  \/ n = Len(notes)}
    BY DEF ToCome, Saving
  <2> QED BY <2>1, <2>2, <2>3
<1>11. \A j, k \in 1..Len(topic') : j < k /\ ~topic'[j].again /\ ~topic'[k].again => topic'[j].id < topic'[k].id
  <2>1. ASSUME NEW j \in 1..Len(topic'), NEW k \in 1..Len(topic'), j < k,
               ~topic'[j].again, ~topic'[k].again
        PROVE  topic'[j].id < topic'[k].id
    <3>1. j \in 1..Len(topic)
      BY <1>4, <1>5, <2>1
    <3>2. CASE k \in 1..Len(topic)
      BY <1>5, <2>1, <3>1, <3>2 DEF NotesInv, TopicSound
    <3>3. CASE k = Len(topic) + 1
      BY <1>2, <1>3, <1>5, <2>1, <3>1, <3>3
    <3> QED BY <1>6, <3>2, <3>3
  <2> QED BY <2>1
<1> QED BY <1>5, <1>9, <1>10, <1>11 DEF TopicSound

\* Publishing ends the handler.
LEMMA PublishNoteInv ==
    ASSUME NotesInv, PublishNote
    PROVE  NotesInv'
<1>1. /\ inbox # <<>> /\ Current.at = "saved" /\ inbox' = Tail(inbox) /\ Saving
      /\ topic' = Append(topic, [id |-> Len(notes), again |-> FALSE])
      /\ UNCHANGED <<notes, items, unread, panel, astray, chores, taps, happened, owed, uneven>>
  BY DEF PublishNote, notesUi, notesBounds, Saving
<1>2. inbox' \in Seq(Deed) /\ ~Saving'
  BY <1>1, EventLeaves
<1>3. NotedAs(Current.nr) \/ Current.nr \in uneven'
  BY <1>1, CurrentHeld DEF NotedAs, Awaits
<1>4. EventsTold'
  BY <1>1, <1>3, HandledTold
<1>5. /\ ToCome' = ToCome /\ TopicSound' /\ topic' \in Seq([id : Nat, again : BOOLEAN])
      /\ \A k \in 1..Len(topic') : topic'[k].id \in NoteIds
  BY <1>1, <1>2, PublishedTopic
<1> QED BY <1>1, <1>2, <1>4, <1>5, SameStep

\* A note that is not published goes astray.
LEMMA PublishFailsInv ==
    ASSUME NotesInv, PublishFails
    PROVE  NotesInv'
<1>1. /\ inbox # <<>> /\ Current.at = "saved" /\ inbox' = Tail(inbox)
      /\ astray' = TRUE /\ chores' = Crossed(chores)
      /\ UNCHANGED <<notes, topic, items, unread, panel, taps, happened, owed, uneven>>
  BY DEF PublishFails, notesUi, Fault, Unpushed
<1>2. inbox' \in Seq(Deed) /\ ~Saving'
  BY <1>1, EventLeaves
<1>3. NotedAs(Current.nr) \/ Current.nr \in uneven'
  BY <1>1, CurrentHeld DEF NotedAs, Awaits
<1>4. EventsTold'
  BY <1>1, <1>3, HandledTold
<1>5. TopicSound'
  BY <1>1, <1>2 DEF NotesInv, TopicSound
<1>6. \A c \in chores' : \E d \in chores : Like(c, d) /\ (c.at \in {{}, {"stored"}} \/ c.stale)
  BY <1>1, CrossedAll
<1>7. /\ panel' \in [open : BOOLEAN, loading : BOOLEAN, rows : Seq(NoteRow)]
      /\ Rows(panel'.rows) \subseteq NoteIds /\ happened' \in Nat /\ taps' \in Nat
  BY <1>1, PanelThere
<1>8. /\ topic' \in Seq([id : Nat, again : BOOLEAN])
      /\ \A k \in 1..Len(topic') : topic'[k].id \in NoteIds
      /\ items' \in Seq(NoteRow) /\ Rows(items') \subseteq NoteIds /\ unread' \in Nat
  BY <1>1 DEF NotesInv, NotesType, NotesFit
<1> QED BY <1>1, <1>2, <1>4, <1>5, <1>6, <1>7, <1>8, AstrayStep

\* An event whose handler starts over
LEMMA AgainTold ==
    ASSUME NotesInv, inbox # <<>>, inbox' = [inbox EXCEPT ![1].at = "sent"],
           UNCHANGED <<notes, happened, owed>>, uneven' = uneven \cup {Current.nr}
    PROVE  EventsTold' /\ inbox' \in Seq(Deed) /\ ~Saving'
<1>1. inbox \in Seq(Deed) /\ 1 \in 1..Len(inbox) /\ inbox[1] \in Deed /\ Awaits(inbox[1])
  BY CurrentHeld DEF NotesInv, NotesType, Current
<1>2. PICK x : x = [inbox[1] EXCEPT !.at = "sent"]
  OBVIOUS
<1>3. /\ x \in Deed /\ x.at = "sent" /\ x.nr = inbox[1].nr /\ x.what = inbox[1].what
      /\ x.by = inbox[1].by /\ x.shown = inbox[1].shown
  BY <1>1, <1>2 DEF Deed
<1>4. inbox' = [inbox EXCEPT ![1] = x]
  BY <1>2
<1>5. /\ inbox' \in Seq(Deed) /\ Len(inbox') = Len(inbox) /\ inbox'[1] = x
      /\ \A k \in 1..Len(inbox) : k # 1 => inbox'[k] = inbox[k]
  BY <1>1, <1>3, <1>4
<1>6. ~Saving'
  BY <1>3, <1>5 DEF Saving, Current
<1>7. \A k \in 1..Len(inbox') : inbox'[k].nr = inbox[k].nr
  BY <1>3, <1>5
<1>8. NoteIds' = NoteIds /\ \A nr : NotesOf(nr)' = NotesOf(nr)
  BY DEF NoteIds, NotesOf
<1>9. (\A nr : NotedAs(nr)' <=> NotedAs(nr)) /\ \A e : Awaits(e) => Awaits(e)'
  BY <1>8 DEF NotedAs, Awaits
<1>10. Awaits(x)'
  BY <1>1, <1>3 DEF Awaits, Concerns, Current
<1>11. \A e \in Els(inbox') : e = x \/ e \in Els(inbox)
  BY <1>5 DEF Els
<1>12. \A e \in Els(inbox') : Awaits(e)'
  BY <1>9, <1>10, <1>11 DEF NotesInv, EventsTold
<1>13. \A e \in Els(inbox) : \E f \in Els(inbox') : f.nr = e.nr
  <2>1. \A k \in 1..Len(inbox') : inbox'[k] \in Els(inbox')
    BY DEF Els
  <2>2. \A e \in Els(inbox) : \E k \in 1..Len(inbox) : e = inbox[k]
    BY DEF Els
  <2>3. ASSUME NEW e \in Els(inbox) PROVE \E f \in Els(inbox') : f.nr = e.nr
    <3>1. PICK k \in 1..Len(inbox) : e = inbox[k]
      BY <2>2
    <3>2. k \in 1..Len(inbox')
      BY <1>5
    <3>3. inbox'[k] \in Els(inbox') /\ inbox'[k].nr = e.nr
      BY <1>7, <2>1, <3>1, <3>2
    <3> QED BY <3>3
  <2> QED BY <2>3
<1>14. \A j, k \in 1..Len(inbox') : j < k => inbox'[j].nr < inbox'[k].nr
  BY <1>5, <1>7 DEF NotesInv, EventsTold
<1>15. \A k \in 1..Len(inbox') : inbox'[k].at = "saved" => k = 1
  BY <1>5 DEF NotesInv, EventsTold
<1>16. \A nr \in 1..happened' \ uneven' : (\E e \in Els(inbox') : e.nr = nr) \/ NotedAs(nr)'
  <2>1. ASSUME NEW nr \in 1..happened \ uneven PROVE (\E e \in Els(inbox) : e.nr = nr) \/ NotedAs(nr)
    BY DEF NotesInv, EventsTold
  <2>2. ASSUME NEW nr \in 1..happened' \ uneven' PROVE (\E e \in Els(inbox') : e.nr = nr) \/ NotedAs(nr)'
    <3>1. (\E e \in Els(inbox) : e.nr = nr) \/ NotedAs(nr)
      BY <2>1
    <3> QED BY <1>9, <1>13, <3>1
  <2> QED BY <2>2
<1>17. (\A n \in NoteIds' : notes'[n].of \in 1..happened') /\ owed' \subseteq 1..happened'
  BY <1>8 DEF NotesInv, EventsTold
<1> QED BY <1>5, <1>6, <1>12, <1>14, <1>15, <1>16, <1>17 DEF EventsTold

\* The replica dies before or after it published.
LEMMA HandledAgainInv ==
    ASSUME NotesInv, HandledAgain
    PROVE  NotesInv'
<1>1. /\ inbox # <<>> /\ Saving /\ inbox' = [inbox EXCEPT ![1].at = "sent"]
      /\ uneven' = uneven \cup {Current.nr}
      /\ UNCHANGED <<notes, items, unread, panel, taps, happened, owed>>
  BY DEF HandledAgain, notesUi, Fault, Saving
<1>2. EventsTold' /\ inbox' \in Seq(Deed) /\ ~Saving'
  BY <1>1, AgainTold
<1>3. CASE Unpushed /\ UNCHANGED topic
  <2>1. astray' = TRUE /\ chores' = Crossed(chores) /\ topic' = topic
    BY <1>3 DEF Unpushed
  <2>2. TopicSound'
    BY <1>2, <2>1 DEF NotesInv, TopicSound
  <2>3. \A c \in chores' : \E d \in chores : Like(c, d) /\ (c.at \in {{}, {"stored"}} \/ c.stale)
    BY <2>1, CrossedAll
  <2>4. /\ panel' \in [open : BOOLEAN, loading : BOOLEAN, rows : Seq(NoteRow)]
        /\ Rows(panel'.rows) \subseteq NoteIds /\ happened' \in Nat /\ taps' \in Nat
    BY <1>1, PanelThere
  <2>5. /\ topic' \in Seq([id : Nat, again : BOOLEAN])
        /\ \A k \in 1..Len(topic') : topic'[k].id \in NoteIds
        /\ items' \in Seq(NoteRow) /\ Rows(items') \subseteq NoteIds /\ unread' \in Nat
    BY <1>1, <2>1 DEF NotesInv, NotesType, NotesFit
  <2> QED BY <1>1, <1>2, <2>1, <2>2, <2>3, <2>4, <2>5, AstrayStep
<1>4. CASE topic' = Append(topic, [id |-> Len(notes), again |-> FALSE]) /\ UNCHANGED <<astray, chores>>
  <2>1. /\ ToCome' = ToCome /\ TopicSound' /\ topic' \in Seq([id : Nat, again : BOOLEAN])
        /\ \A k \in 1..Len(topic') : topic'[k].id \in NoteIds
    BY <1>1, <1>2, <1>4, PublishedTopic
  <2> QED BY <1>1, <1>2, <1>4, <2>1, SameStep
<1> QED BY <1>3, <1>4 DEF HandledAgain

\* A push that is taken off the topic: it was the oldest of those to come,
\* unless it came again.
LEMMA PushTaken ==
    ASSUME NotesInv, topic # <<>>, topic' = Tail(topic), UNCHANGED <<notes, inbox>>,
           NEW h, h = Head(topic)
    PROVE  /\ topic' \in Seq([id : Nat, again : BOOLEAN]) /\ TopicSound'
           /\ \A k \in 1..Len(topic') : topic'[k].id \in NoteIds
           /\ h \in [id : Nat, again : BOOLEAN] /\ h.id \in NoteIds
           /\ h.again => ToCome' = ToCome
           /\ ~h.again => /\ h.id \in ToCome /\ ToCome' = ToCome \ {h.id}
                          /\ \A n \in ToCome' : h.id < n
<1>1. topic \in Seq([id : Nat, again : BOOLEAN]) /\ IsList(topic) /\ Len(topic) \in Nat
  BY TypedList DEF NotesInv, NotesType
<1>2. /\ topic' \in Seq([id : Nat, again : BOOLEAN]) /\ Len(topic') = Len(topic) - 1
      /\ \A i \in 1..Len(topic') : topic'[i] = topic[i + 1]
      /\ h = topic[1] /\ 1 \in 1..Len(topic)
  <2>1. topic' \in Seq([id : Nat, again : BOOLEAN]) /\ 1 \in 1..Len(topic)
    BY <1>1
  <2> QED BY <1>1, <2>1, TailList
<1>3. /\ \A i \in 1..Len(topic') : i + 1 \in 1..Len(topic) /\ 1 < i + 1
      /\ \A k \in 1..Len(topic) : k = 1 \/ \E i \in 1..Len(topic') : k = i + 1
  <2>1. \A i \in 1..Len(topic') : i + 1 \in 1..Len(topic) /\ 1 < i + 1
    BY <1>1, <1>2
  <2>2. ASSUME NEW k \in 1..Len(topic), k # 1 PROVE \E i \in 1..Len(topic') : k = i + 1
    <3>1. k - 1 \in 1..Len(topic') /\ k = (k - 1) + 1
      BY <1>1, <1>2, <2>2
    <3> QED BY <3>1
  <2> QED BY <2>1, <2>2
<1>4. \A k \in 1..Len(topic) : topic[k].id \in NoteIds /\ topic[k] \in [id : Nat, again : BOOLEAN]
  <2>1. \A k \in 1..Len(topic) : topic[k].id \in NoteIds
    BY DEF NotesInv, NotesFit
  <2>2. \A k \in 1..Len(topic) : topic[k] \in [id : Nat, again : BOOLEAN]
    <3>1. PICK R : R = [id : Nat, again : BOOLEAN]
      OBVIOUS
    <3>2. topic \in Seq(R)
      BY <1>1, <3>1
    <3>3. \A k \in 1..Len(topic) : topic[k] \in R
      BY <3>2
    <3> QED BY <3>1, <3>3
  <2> QED BY <2>1, <2>2
<1>5. \A j, k \in 1..Len(topic) : j < k /\ ~topic[j].again /\ ~topic[k].again => topic[j].id < topic[k].id
  BY DEF NotesInv, TopicSound
<1>6. (Saving' <=> Saving) /\ NoteIds' = NoteIds
  BY DEF Saving, Current, NoteIds
<1>7. \A j, k \in 1..Len(topic') : j < k /\ ~topic'[j].again /\ ~topic'[k].again => topic'[j].id < topic'[k].id
  <2>1. ASSUME NEW j \in 1..Len(topic'), NEW k \in 1..Len(topic'), j < k,
               ~topic'[j].again, ~topic'[k].again
        PROVE  topic'[j].id < topic'[k].id
    <3>1. j + 1 < k + 1
      BY <2>1
    <3> QED BY <1>2, <1>3, <1>5, <2>1, <3>1
  <2> QED BY <2>1
<1>8. TopicSound'
  <2>1. Saving => /\ Len(notes) > 0
                  /\ \A k \in 1..Len(topic) : topic[k].again \/ topic[k].id < Len(notes)
    BY DEF NotesInv, TopicSound
  <2>2. Saving => \A k \in 1..Len(topic') : topic'[k].again \/ topic'[k].id < Len(notes)
    BY <1>2, <1>3, <2>1
  <2> QED BY <1>6, <1>7, <2>1, <2>2 DEF TopicSound
<1> DEFINE Before(n) == \E k \in 1..Len(topic) : topic[k].id = n /\ ~topic[k].again
           After(n) == \E k \in 1..Len(topic') : topic'[k].id = n /\ ~topic'[k].again
           Last(n) == n = Len(notes) /\ Saving
<1>9. ToCome' = {n \in NoteIds : After(n) \/ Last(n)}
  BY <1>6 DEF ToCome, Saving
<1>10. ToCome = {n \in NoteIds : Before(n) \/ Last(n)}
  BY DEF ToCome, Saving
<1>11. \A n : Before(n) <=> (h.id = n /\ ~h.again) \/ After(n)
  BY <1>2, <1>3
<1>12. ASSUME h.again PROVE ToCome' = ToCome
  <2> HIDE DEF Before, After, Last
  <2> QED BY <1>9, <1>10, <1>11, <1>12
<1>13. ASSUME ~h.again PROVE /\ h.id \in ToCome /\ ToCome' = ToCome \ {h.id}
                            /\ \A n \in ToCome' : h.id < n
  <2>1. h.id \in NoteIds
    BY <1>2, <1>4
  <2>2. ASSUME NEW n \in ToCome' PROVE h.id < n
    <3>1. CASE After(n)
      <4>1. PICK k \in 1..Len(topic') : topic'[k].id = n /\ ~topic'[k].again
        BY <3>1
      <4> QED BY <1>2, <1>3, <1>5, <1>13, <4>1
    <3>2. CASE Last(n)
      BY <1>2, <1>13, <3>2 DEF NotesInv, TopicSound
    <3> QED BY <1>9, <2>2, <3>1, <3>2
  <2>3. h.id \notin ToCome' /\ h.id \in ToCome
    <3>1. ~(h.id < h.id)
      BY <1>2, <1>4
    <3> QED BY <1>10, <1>11, <1>13, <2>1, <2>2, <3>1
  <2>4. ToCome' = ToCome \ {h.id}
    <3> HIDE DEF Before, After, Last
    <3> QED BY <1>9, <1>10, <1>11, <1>13, <2>1, <2>3
  <2> QED BY <2>2, <2>3, <2>4
<1>14. \A k \in 1..Len(topic') : topic'[k].id \in NoteIds
  BY <1>2, <1>3, <1>4
<1> QED BY <1>2, <1>4, <1>8, <1>12, <1>13, <1>14

\* What the store is after a push
LEMMA PushedStore ==
    ASSUME NotesInv, NEW n \in NoteIds, Pushed(n)
    PROVE  /\ items' \in Seq(NoteRow) /\ unread' \in Nat /\ Rows(items') = Rows(items) \cup {n}
           /\ n \in Rows(items) => items' = items /\ unread' = unread
           /\ n \notin Rows(items) =>
                  /\ Els(items') = Els(items) \cup {[id |-> n, read |-> FALSE]}
                  /\ Descends(items) /\ Above(n, items) => Descends(items')
                  /\ unread' = unread + 1
<1>1. items \in Seq(NoteRow) /\ unread \in Nat /\ n \in Nat
  BY NotesThere DEF NotesInv, NotesType
<1>2. CASE n \in Rows(items)
  BY <1>1, <1>2 DEF Pushed
<1>3. CASE n \notin Rows(items)
  <2>1. items' = <<[id |-> n, read |-> FALSE]>> \o items /\ unread' = unread + 1
    BY <1>3 DEF Pushed
  <2>2. /\ items' \in Seq(NoteRow) /\ Els(items') = Els(items) \cup {[id |-> n, read |-> FALSE]}
        /\ Descends(items) /\ Above(n, items) => Descends(items')
    BY <1>1, <2>1, PushedRow
  <2>3. Rows(items') = {row.id : row \in Els(items')} /\ Rows(items) = {row.id : row \in Els(items)}
    BY RowsHeld
  <2>4. Rows(items') = Rows(items) \cup {n}
    <3>1. PICK row : row = [id |-> n, read |-> FALSE]
      OBVIOUS
    <3>2. row.id = n /\ Els(items') = Els(items) \cup {row}
      BY <2>2, <3>1
    <3> QED BY <2>3, <3>2
  <2>5. unread' \in Nat
    BY <1>1, <2>1
  <2> QED BY <1>3, <2>1, <2>2, <2>4, <2>5
<1> QED BY <1>2, <1>3

\* The rows after a push of an unread note: it was shown, or comes on top.
LEMMA RelayedRows ==
    ASSUME NotesInv, RowsSound, notes' = notes, NEW h, h.id \in UnreadNotes, Pushed(h.id),
           ~h.again \/ h.id \in Rows(items),
           h.again => ToCome' = ToCome,
           ~h.again => /\ h.id \in ToCome /\ ToCome' = ToCome \ {h.id}
                       /\ \A n \in ToCome' : h.id < n,
           \A n : (\E c \in StoredAs("read") : c.id = n) => \E c \in StoredAs("read")' : c.id = n,
           \A n : (\E c \in StoredAs("delete") : c.id = n) => \E c \in StoredAs("delete")' : c.id = n,
           \A n : (\E c \in StoredAs("all") : n <= c.count) => \E c \in StoredAs("all")' : n <= c.count
    PROVE  RowsSound' /\ (unread = Cardinality(Due) => unread' = Cardinality(Due'))
<1>1. PICK N : N = h.id
  OBVIOUS
<1>2. /\ N \in NoteIds /\ NoteIds' = NoteIds /\ UnreadNotes' = UnreadNotes /\ KeptNotes' = KeptNotes
      /\ notes[N].kept /\ ~notes[N].read /\ N \in UnreadNotes
  BY <1>1 DEF UnreadNotes, NoteIds, KeptNotes
<1>3. \A n \in NoteIds : n \in Nat
  BY NotesThere DEF NotesInv
<1>4. /\ Rows(items') = Rows(items) \cup {N}
      /\ N \in Rows(items) => items' = items /\ unread' = unread
      /\ N \notin Rows(items) =>
             /\ Els(items') = Els(items) \cup {[id |-> N, read |-> FALSE]}
             /\ Descends(items) /\ Above(N, items) => Descends(items')
             /\ unread' = unread + 1
  BY <1>1, <1>2, PushedStore
<1>5. /\ ToCome' \subseteq ToCome /\ (\A n \in ToCome : n = N \/ n \in ToCome') /\ ToCome \subseteq NoteIds
      /\ \A n \in ToCome \ ToCome' : n = N /\ \A m \in ToCome' : N < m
  BY <1>1 DEF ToCome
<1>6. ASSUME NEW row \in Els(items)
      PROVE  /\ row.read => notes'[row.id].read
             /\ notes'[row.id].read => \/ row.read
                                       \/ \E c \in StoredAs("read")' : c.id = row.id
                                       \/ \E c \in StoredAs("all")' : row.id <= c.count
             /\ notes'[row.id].kept \/ \E c \in StoredAs("delete")' : c.id = row.id
  <2>1. /\ row.read => notes[row.id].read
        /\ notes[row.id].read => \/ row.read
                                 \/ \E c \in StoredAs("read") : c.id = row.id
                                 \/ \E c \in StoredAs("all") : row.id <= c.count
        /\ notes[row.id].kept \/ \E c \in StoredAs("delete") : c.id = row.id
    BY DEF RowsSound
  <2> QED BY <2>1
<1>7. \A n \in ToCome' : Latest(n) => Latest(n)'
  BY <1>2, <1>5 DEF Latest
<1>8. KeptNotes \subseteq NoteIds /\ UnreadNotes \subseteq NoteIds
  BY DEF KeptNotes, UnreadNotes
<1>9. CASE N \in Rows(items)
  <2>1. items' = items /\ unread' = unread
    BY <1>4, <1>9
  <2>2. RowsSound'
    <3>1. \A n \in KeptNotes \ Rows(items) : Beneath(n, items) \/ (n \in ToCome' /\ Above(n, items))
      BY <1>5, <1>9 DEF RowsSound
    <3>2. \A n \in (UnreadNotes \cap ToCome') \ Rows(items) : Latest(n)' /\ Above(n, items)
      BY <1>5, <1>7 DEF RowsSound
    <3>3. Descends(items)
      BY DEF RowsSound
    <3> QED BY <1>2, <1>6, <2>1, <3>1, <3>2, <3>3 DEF RowsSound
  <2>3. ShownUnread(N)
    <3>1. PICK row \in Els(items) : row.id = N
      BY <1>9, RowsHeld
    <3>2. row \in NoteRow
      <4>1. items \in Seq(NoteRow)
        BY DEF NotesInv, NotesType
      <4> QED BY <3>1, <4>1, TypedList
    <3>3. ~row.read
      BY <1>2, <3>1 DEF RowsSound
    <3>4. row = [id |-> N, read |-> FALSE]
      BY <3>1, <3>2, <3>3 DEF NoteRow
    <3> QED BY <3>1, <3>4, ShownHeld
  <2>4. Due' = Due
    <3>1. \A n : ShownUnread(n)' <=> ShownUnread(n)
      BY <2>1 DEF ShownUnread
    <3> QED BY <1>2, <1>5, <2>3, <3>1 DEF Due
  <2> QED BY <2>1, <2>2, <2>4
<1>10. CASE N \notin Rows(items)
  <2>1. /\ ~h.again /\ N \in ToCome /\ ToCome' = ToCome \ {N} /\ \A n \in ToCome' : N < n
    BY <1>1, <1>10
  <2>2. Latest(N) /\ Above(N, items) /\ Descends(items)
    BY <1>2, <1>10, <2>1 DEF RowsSound
  <2>3. PICK new : new = [id |-> N, read |-> FALSE]
    OBVIOUS
  <2>4. /\ Els(items') = Els(items) \cup {new} /\ new.id = N /\ new.read = FALSE
        /\ Descends(items') /\ unread' = unread + 1
    BY <1>4, <1>10, <2>2, <2>3
  <2>5. \A row \in Els(items) : row.id \in Nat /\ row.id < N /\ N \in Nat
    <3>1. items \in Seq(NoteRow)
      BY DEF NotesInv, NotesType
    <3>2. \A row \in Els(items) : row.id \in Nat
      <4>1. \A row \in Els(items) : row \in NoteRow
        BY <3>1, TypedList
      <4> QED BY <4>1 DEF NoteRow
    <3> QED BY <1>2, <1>3, <2>2, <3>2 DEF Above
  <2>6. ASSUME NEW n \in ToCome' PROVE Above(n, items')
    <3>1. N < n /\ n \in Nat
      BY <1>3, <1>5, <2>1
    <3> QED BY <2>4, <2>5, <3>1 DEF Above
  <2>7. ASSUME NEW n \in KeptNotes \ Rows(items'), n \notin ToCome' PROVE Beneath(n, items')
    <3>1. n \notin ToCome /\ n # N /\ n \in NoteIds
      BY <1>4, <1>8, <2>1, <2>7
    <3>2. n < N
      BY <2>2, <3>1 DEF Latest
    <3>3. Beneath(n, items)
      BY <1>4, <3>1 DEF RowsSound
    <3> QED BY <2>4, <3>2, <3>3 DEF Beneath
  <2>8. RowsSound'
    <3>1. \A n \in KeptNotes \ Rows(items') : Beneath(n, items') \/ (n \in ToCome' /\ Above(n, items'))
      BY <2>6, <2>7
    <3>2. \A n \in (UnreadNotes \cap ToCome') \ Rows(items') : Latest(n)' /\ Above(n, items')
      BY <1>4, <1>5, <1>7, <2>6 DEF RowsSound
    <3>3. ASSUME NEW row \in Els(items')
          PROVE  /\ row.read => notes'[row.id].read
                 /\ notes'[row.id].read => \/ row.read
                                           \/ \E c \in StoredAs("read")' : c.id = row.id
                                           \/ \E c \in StoredAs("all")' : row.id <= c.count
                 /\ notes'[row.id].kept \/ \E c \in StoredAs("delete")' : c.id = row.id
      <4>1. CASE row \in Els(items)
        BY <1>6, <4>1
      <4>2. CASE row = new
        BY <1>2, <2>4, <4>2
      <4> QED BY <2>4, <4>1, <4>2
    <3> QED BY <1>2, <2>4, <3>1, <3>2, <3>3 DEF RowsSound
  <2>9. Due' = Due \cup {N} /\ N \notin Due
    <3>1. \A n : ShownUnread(n)' <=> ShownUnread(n) \/ n = N
      <4>1. ASSUME NEW n PROVE ShownUnread(n)' <=> ShownUnread(n) \/ n = N
        <5>1. PICK row : row = [id |-> n, read |-> FALSE]
          OBVIOUS
        <5>2. row.id = n
          BY <5>1
        <5>3. n = N => row = new
          BY <2>3, <5>1, Zenon
        <5>4. row = new => n = N
          BY <2>4, <5>2
        <5>5. ShownUnread(n) <=> row \in Els(items)
          BY <5>1, ShownHeld
        <5>6. ShownUnread(n)' <=> row \in Els(items')
          BY <5>1 DEF ShownUnread, Els
        <5> QED BY <2>4, <5>3, <5>4, <5>5, <5>6
      <4> QED BY <4>1
    <3>2. ~ShownUnread(N)
      BY <1>10 DEF ShownUnread, Rows
    <3> QED BY <1>2, <2>1, <3>1, <3>2 DEF Due
  <2>10. IsFiniteSet(Due)
    <3>1. Due \subseteq NoteIds /\ IsFiniteSet(NoteIds)
      BY NotesThere DEF Due, UnreadNotes, NotesInv
    <3> QED BY <3>1, FS_Subset
  <2>11. Cardinality(Due') = Cardinality(Due) + 1
    BY <2>9, <2>10, FS_AddElement
  <2> QED BY <2>4, <2>8, <2>11
<1> QED BY <1>9, <1>10

\* A note relayed that was shown already, or that is newer than all shown.
LEMMA RelayedInv ==
    ASSUME NotesInv, Relayed
    PROVE  NotesInv'
<1>1. PICK h : h = Head(topic)
  OBVIOUS
<1>2. /\ topic # <<>> /\ topic' = Tail(topic) /\ chores' = Crossed(chores)
      /\ UNCHANGED <<inbox, notes, panel, happened, taps, owed, uneven>>
  BY DEF Relayed, notesBounds, Unpushed
<1>3. /\ topic' \in Seq([id : Nat, again : BOOLEAN]) /\ TopicSound'
      /\ \A k \in 1..Len(topic') : topic'[k].id \in NoteIds
      /\ h \in [id : Nat, again : BOOLEAN] /\ h.id \in NoteIds
      /\ h.again => ToCome' = ToCome
      /\ ~h.again => /\ h.id \in ToCome /\ ToCome' = ToCome \ {h.id}
                     /\ \A n \in ToCome' : h.id < n
  BY <1>1, <1>2, PushTaken
<1>4. /\ \A c \in chores' : \E d \in chores : Like(c, d) /\ (c.at \in {{}, {"stored"}} \/ c.stale)
      /\ \A d \in chores : \E c \in chores' : Like(c, d)
      /\ \A c \in chores' : c.at # {} => c.stale
  BY <1>2, CrossedAll
<1>5. \A n \in NoteIds : notes'[n].of = notes[n].of
  BY <1>2
<1>6. EventsTold' /\ inbox' \in Seq(Deed) /\ happened' \in Nat /\ (Saving' <=> Saving)
  BY <1>2, <1>5, ToldStays
<1>7. /\ panel' \in [open : BOOLEAN, loading : BOOLEAN, rows : Seq(NoteRow)]
      /\ Rows(panel'.rows) \subseteq NoteIds /\ happened' \in Nat /\ taps' \in Nat
  BY <1>2, PanelThere
<1>8. IF connected
      THEN /\ Pushed(h.id)
           /\ astray' = (astray \/ h.id \notin UnreadNotes \/ (h.again /\ h.id \notin Rows(items)))
      ELSE astray' = TRUE /\ items' = items /\ unread' = unread
  BY <1>1 DEF Relayed, Unpushed
<1>9. items' \in Seq(NoteRow) /\ Rows(items') \subseteq NoteIds /\ unread' \in Nat
  <2>1. Rows(items) \subseteq NoteIds /\ items \in Seq(NoteRow) /\ unread \in Nat
    BY DEF NotesInv, NotesFit, NotesType
  <2>2. CASE connected
    <3>1. items' \in Seq(NoteRow) /\ unread' \in Nat /\ Rows(items') = Rows(items) \cup {h.id}
      BY <1>3, <1>8, <2>2, PushedStore
    <3> QED BY <1>3, <2>1, <3>1
  <2>3. CASE ~connected
    BY <1>8, <2>1, <2>3
  <2> QED BY <2>2, <2>3
<1>10. CASE astray' = TRUE
  BY <1>2, <1>3, <1>4, <1>6, <1>7, <1>9, <1>10, AstrayStep
<1>11. CASE astray' # TRUE
  <2>1. /\ connected /\ Pushed(h.id) /\ ~astray /\ h.id \in UnreadNotes
        /\ ~h.again \/ h.id \in Rows(items)
    BY <1>8, <1>11 DEF NotesInv, NotesType
  <2>2. Rows(items') = Rows(items) \cup {h.id}
    BY <1>3, <2>1, PushedStore
  <2>3. /\ chores' \subseteq Errand /\ (\A c \in chores' : ErrandFits(c)')
        /\ StoredSound' /\ BadgeSound'
        /\ \A op : \A c \in StoredAs(op)' : \E d \in StoredAs(op) : Like(c, d)
    <3>1. NoteIds' = NoteIds /\ Len(notes) \in Nat
      BY <1>2, NotesThere DEF NoteIds, NotesInv
    <3>2. \A n \in NoteIds : /\ n \in NoteIds'
                             /\ notes[n].read => notes'[n].read
                             /\ ~notes[n].kept => ~notes'[n].kept
      BY <1>2, <3>1
    <3>3. \A c \in chores' : \E d \in chores : Like(c, d)
      BY <1>4
    <3>4. Len(notes') >= Len(notes) /\ Len(notes') \in Nat
      BY <1>2, <3>1
    <3> QED BY <3>2, <3>3, <3>4, LikeStored
  <2>4. astray' = FALSE
    BY <1>8, <2>1 DEF NotesInv, NotesType
  <2>5. NotesType'
    BY <1>2, <1>3, <1>6, <1>7, <1>9, <2>3, <2>4 DEF NotesInv, NotesType
  <2>6. NotesFit'
    <3>1. NoteIds' = NoteIds
      BY <1>2 DEF NoteIds
    <3> QED BY <1>3, <1>7, <1>9, <2>3, <3>1 DEF NotesFit
  <2>7. AnswersSound'
    BY <1>4 DEF AnswersSound, CountSound, ListSound
  <2>8. /\ \A n : (\E c \in StoredAs("read") : c.id = n) => \E c \in StoredAs("read")' : c.id = n
        /\ \A n : (\E c \in StoredAs("delete") : c.id = n) => \E c \in StoredAs("delete")' : c.id = n
        /\ \A n : (\E c \in StoredAs("all") : n <= c.count) => \E c \in StoredAs("all")' : n <= c.count
        /\ StoredAs("all")' = {} => StoredAs("all") = {}
    BY <1>4, LikeRows
  <2>9. Calm' => Calm
    <3>1. SUFFICES ASSUME Calm', NEW c \in StoredAs("read") \cup StoredAs("delete")
                   PROVE  c.id \in Rows(items)
      BY <2>1 DEF Calm
    <3>2. c.id \in Rows(items')
      BY <2>8, <3>1 DEF Calm
    <3>3. c.id # h.id
      BY <2>1 DEF NotesInv, StoredSound, UnreadNotes, KeptNotes
    <3> QED BY <2>2, <3>2, <3>3
  <2>10. RowsSound => RowsSound' /\ (unread = Cardinality(Due) => unread' = Cardinality(Due'))
    BY <1>2, <1>3, <2>1, <2>8, RelayedRows
  <2>11. StoreSound'
    BY <2>8, <2>9, <2>10 DEF StoreSound, NotesInv
  <2> QED BY <1>3, <1>6, <2>3, <2>5, <2>6, <2>7, <2>11 DEF NotesInv
<1> QED BY <1>10, <1>11

\* A restart of the gateway's consumer pushes again what is shown on top.
LEMMA RelayedAgainInv ==
    ASSUME NotesInv, RelayedAgain
    PROVE  NotesInv'
<1>1. PICK x : x = [id |-> Head(items).id, again |-> TRUE]
  OBVIOUS
<1>2. /\ items # <<>> /\ topic' = <<x>> \o topic
      /\ UNCHANGED <<inbox, notes, items, unread, panel, chores, happened, taps, owed, uneven, astray>>
  BY <1>1 DEF RelayedAgain, Fault, notesUi
<1>3. Head(items).id \in NoteIds /\ Head(items).id \in Nat
  <2>1. items \in Seq(NoteRow) /\ IsList(items)
    BY TypedList DEF NotesInv, NotesType
  <2>2. Head(items) \in Els(items)
    BY <1>2, <2>1, TailList
  <2>3. Head(items).id \in Rows(items)
    BY <2>2, RowsHeld
  <2>4. Rows(items) \subseteq NoteIds /\ \A n \in NoteIds : n \in Nat
    BY NotesThere DEF NotesInv, NotesFit
  <2> QED BY <2>3, <2>4
<1>4. PICK R : R = [id : Nat, again : BOOLEAN]
  OBVIOUS
<1>5. x \in R /\ x.id \in NoteIds /\ x.again = TRUE
  BY <1>1, <1>3, <1>4
<1>6. topic \in Seq(R) /\ IsList(topic) /\ Len(topic) \in Nat
  BY <1>4, TypedList DEF NotesInv, NotesType
<1>7. PICK one : one = <<x>>
  OBVIOUS
<1>8. one \in Seq(R) /\ Len(one) = 1 /\ one[1] = x /\ IsList(one)
  <2>1. one \in Seq(R) /\ Len(one) = 1 /\ one[1] = x
    BY <1>5, <1>7
  <2> QED BY <2>1, TypedList
<1>9. topic' = one \o topic
  BY <1>2, <1>7, Zenon
<1>10. topic' \in Seq(R)
  <2>1. one \o topic \in Seq(R)
    BY <1>6, <1>8
  <2> QED BY <1>9, <2>1
<1>11. /\ Len(topic') = Len(topic) + 1 /\ topic'[1] = x
       /\ \A k \in 1..Len(topic) : topic'[k + 1] = topic[k]
  <2>1. /\ Len(topic') = Len(one) + Len(topic)
        /\ \A k \in 1..Len(one) : topic'[k] = one[k]
        /\ \A k \in 1..Len(topic) : topic'[Len(one) + k] = topic[k]
    <3>1. /\ Len(one \o topic) = Len(one) + Len(topic)
          /\ \A k \in 1..Len(one) : (one \o topic)[k] = one[k]
          /\ \A k \in 1..Len(topic) : (one \o topic)[Len(one) + k] = topic[k]
      <4>1. IsList(one) /\ IsList(topic)
        BY <1>6, <1>8
      <4> QED BY <4>1, ConcatList
    <3> QED BY <1>9, <3>1, Zenon
  <2>2. \A k \in 1..Len(topic) : 1 + k = k + 1
    BY <1>6
  <2>3. 1 \in 1..1 /\ 1 + Len(topic) = Len(topic) + 1
    BY <1>6
  <2> QED BY <1>8, <2>1, <2>2, <2>3
<1>12. /\ \A k \in 1..Len(topic) : k + 1 \in 1..Len(topic')
       /\ \A k \in 1..Len(topic') : k = 1 \/ \E i \in 1..Len(topic) : k = i + 1
  <2>1. \A k \in 1..Len(topic) : k + 1 \in 1..Len(topic')
    BY <1>6, <1>11
  <2>2. ASSUME NEW k \in 1..Len(topic'), k # 1 PROVE \E i \in 1..Len(topic) : k = i + 1
    <3>1. k - 1 \in 1..Len(topic) /\ k = (k - 1) + 1
      BY <1>6, <1>11, <2>2
    <3> QED BY <3>1
  <2> QED BY <2>1, <2>2
<1>13. (\A n \in NoteIds : notes'[n].of = notes[n].of) /\ Len(notes') = Len(notes)
  BY <1>2
<1>14. EventsTold' /\ inbox' \in Seq(Deed) /\ happened' \in Nat /\ (Saving' <=> Saving)
  BY <1>2, <1>13, ToldStays
<1>15. \A k \in 1..Len(topic') : topic'[k].id \in NoteIds
  BY <1>5, <1>11, <1>12 DEF NotesInv, NotesFit
<1>16. ToCome' = ToCome
  <2> DEFINE Before(n) == \E k \in 1..Len(topic) : topic[k].id = n /\ ~topic[k].again
             After(n) == \E k \in 1..Len(topic') : topic'[k].id = n /\ ~topic'[k].again
  <2>1. \A n : After(n) <=> Before(n)
    BY <1>5, <1>11, <1>12
  <2>2. NoteIds' = NoteIds
    BY <1>2 DEF NoteIds
  <2>3. ToCome' = {n \in NoteIds : After(n) \/ (n = Len(notes) /\ Saving)}
    BY <1>2, <1>14, <2>2 DEF ToCome, Saving
  <2>4. ToCome = {n \in NoteIds : Before(n) \/ (n = Len(notes) /\ Saving)}
    BY DEF ToCome, Saving
  <2> HIDE DEF Before, After
  <2> QED BY <2>1, <2>3, <2>4
<1>17. \A j, k \in 1..Len(topic') : j < k /\ ~topic'[j].again /\ ~topic'[k].again => topic'[j].id < topic'[k].id
  <2>1. ASSUME NEW j \in 1..Len(topic'), NEW k \in 1..Len(topic'), j < k,
               ~topic'[j].again, ~topic'[k].again
        PROVE  topic'[j].id < topic'[k].id
    <3>1. j # 1 /\ k # 1
      BY <1>5, <1>11, <2>1
    <3>2. PICK a \in 1..Len(topic), b \in 1..Len(topic) : j = a + 1 /\ k = b + 1
      BY <1>12, <3>1
    <3>3. a < b
      BY <2>1, <3>2
    <3>4. topic'[j] = topic[a] /\ topic'[k] = topic[b]
      BY <1>11, <3>2
    <3> QED BY <2>1, <3>3, <3>4 DEF NotesInv, TopicSound
  <2> QED BY <2>1
<1>18. TopicSound'
  <2>1. Saving => \A k \in 1..Len(topic') : topic'[k].again \/ topic'[k].id < Len(notes)
    BY <1>5, <1>11, <1>12 DEF NotesInv, TopicSound
  <2>2. Saving => Len(notes) > 0
    BY DEF NotesInv, TopicSound
  <2> QED BY <1>2, <1>14, <1>17, <2>1, <2>2 DEF TopicSound
<1> QED BY <1>2, <1>4, <1>10, <1>14, <1>15, <1>16, <1>18, SameStep

\* Signing out empties the store; what is under way is out of date.
LEMMA ClearedInv ==
    ASSUME NotesInv, Cleared
    PROVE  NotesInv'
<1>1. /\ UNCHANGED <<inbox, notes, topic, happened, owed, uneven>> /\ astray' = TRUE
      /\ items' = <<>> /\ unread' = 0 /\ taps' = taps + 1
      /\ panel' = [open |-> FALSE, loading |-> FALSE, rows |-> <<>>]
      /\ chores' = {[c EXCEPT !.stale = TRUE] : c \in {d \in chores : d.op # "panel"}}
  BY DEF Cleared, Tap, notesDb
<1>2. \A c \in chores' : \E d \in chores : Like(c, d) /\ (c.at \in {{}, {"stored"}} \/ c.stale)
  <2>1. ASSUME NEW d \in chores
        PROVE  LET c == [d EXCEPT !.stale = TRUE] IN Like(c, d) /\ c.stale
    <3>1. d \in Errand
      BY DEF NotesInv, NotesType
    <3>2. PICK c : c = [d EXCEPT !.stale = TRUE]
      OBVIOUS
    <3>3. /\ c \in Errand /\ c.stale
          /\ c.op = d.op /\ c.id = d.id /\ c.from = d.from /\ c.at = d.at /\ c.rows = d.rows
          /\ c.count = d.count /\ c.early = d.early
      BY <3>1, <3>2 DEF Errand
    <3> QED BY <3>2, <3>3 DEF Like
  <2> QED BY <1>1, <2>1
<1>3. (\A n \in NoteIds : notes'[n].of = notes[n].of) /\ Len(notes') = Len(notes)
  BY <1>1
<1>4. EventsTold' /\ inbox' \in Seq(Deed) /\ happened' \in Nat /\ (Saving' <=> Saving)
  BY <1>1, <1>3, ToldStays
<1>5. TopicSound'
  BY <1>1, <1>4 DEF NotesInv, TopicSound
<1>6. <<>> \in Seq(NoteRow) /\ Rows(<<>>) = {} /\ taps' \in Nat /\ unread' \in Nat
  BY <1>1 DEF Rows, NotesInv, NotesType
<1>7. panel' \in [open : BOOLEAN, loading : BOOLEAN, rows : Seq(NoteRow)] /\ panel'.rows = <<>>
  BY <1>1, <1>6
<1>8. /\ topic' \in Seq([id : Nat, again : BOOLEAN])
      /\ \A k \in 1..Len(topic') : topic'[k].id \in NoteIds
  BY <1>1 DEF NotesInv, NotesType, NotesFit
<1>9. items' \in Seq(NoteRow) /\ Rows(items') \subseteq NoteIds /\ Rows(panel'.rows) \subseteq NoteIds
  BY <1>1, <1>6, <1>7
<1> QED BY <1>1, <1>2, <1>4, <1>5, <1>6, <1>7, <1>8, <1>9, AstrayStep

-----------------------------------------------------------------------------
(* Notices: what is fetched *)

\* A request that is given an answer which is right
LEMMA AnswerStep ==
    ASSUME NotesInv, NEW c \in chores, NEW x \in Errand, chores' = (chores \ {c}) \cup {x},
           UNCHANGED <<inbox, notes, topic, items, unread, panel, happened, taps, owed, uneven, astray>>,
           c.at # {"stored"}, x.at # {"stored"}, ErrandFits(x), CountSound(x), ListSound(x),
           x.op = "badge" /\ "counted" \in x.at /\ ~x.stale => \A d \in chores : d.at # {"stored"}
    PROVE  NotesInv'
<1>1. (\A n \in NoteIds : notes'[n].of = notes[n].of) /\ Len(notes') = Len(notes)
  OBVIOUS
<1>2. EventsTold' /\ inbox' \in Seq(Deed) /\ happened' \in Nat /\ (Saving' <=> Saving)
  BY <1>1, ToldStays
<1>3. ToCome' = ToCome
  BY <1>2 DEF ToCome, NoteIds, Saving
<1>4. /\ NoteIds' = NoteIds
      /\ \A d : CountSound(d)' <=> CountSound(d)
      /\ \A d : ListSound(d)' <=> ListSound(d)
      /\ \A d : ErrandFits(d)' <=> ErrandFits(d)
  BY <1>3, SameNotes
<1>5. \A op : StoredAs(op)' = StoredAs(op)
  <2>1. (\A d \in chores' : d \in chores \/ d.at # {"stored"})
        /\ \A d \in chores : d.at = {"stored"} => d \in chores'
    OBVIOUS
  <2> QED BY <2>1, StoredStay
<1>6. NotesType'
  BY DEF NotesInv, NotesType
<1>7. NotesFit'
  <2>1. \A d \in chores' : ErrandFits(d)
    BY DEF NotesInv, NotesFit
  <2> QED BY <1>4, <2>1 DEF NotesInv, NotesFit
<1>8. TopicSound'
  BY <1>2 DEF NotesInv, TopicSound
<1>9. StoredSound'
  BY <1>4, <1>5 DEF NotesInv, StoredSound
<1>10. AnswersSound'
  <2>1. \A d \in chores' : CountSound(d) /\ ListSound(d)
    BY DEF NotesInv, AnswersSound
  <2> QED BY <1>4, <2>1 DEF AnswersSound
<1>11. BadgeSound'
  <2>1. \A d \in chores' : d.at = {"stored"} => d \in chores
    OBVIOUS
  <2> QED BY <2>1 DEF NotesInv, BadgeSound
<1>12. StoreSound'
  <2>1. (RowsSound' <=> RowsSound) /\ Due' = Due /\ (~astray' /\ ~astray => (Calm' <=> Calm))
    BY <1>3, <1>5, SameRows
  <2>2. Calm' => ~astray' /\ ~astray
    BY DEF Calm
  <2> QED BY <1>5, <2>1, <2>2 DEF NotesInv, StoreSound
<1> QED BY <1>2, <1>6, <1>7, <1>8, <1>9, <1>10, <1>11, <1>12 DEF NotesInv

\* The rows that are given are the newest notes as they are.
LEMMA ListRowsInv ==
    ASSUME NotesInv, NEW c \in chores, ListRows(c)
    PROVE  NotesInv'
<1>1. PICK limit : limit = IF c.op = "panel" THEN PanelRows ELSE PageRows
  OBVIOUS
<1>2. PICK list : list = Newest(limit)
  OBVIOUS
<1>3. limit \in Nat
  BY <1>1, NoticesAssumption
<1>4. /\ list \in Seq(NoteRow) /\ Descends(list)
      /\ \A row \in Els(list) :
             row.id \in NoteIds /\ notes[row.id].kept /\ row.read = notes[row.id].read
      /\ \A n \in KeptNotes \ Rows(list) : Beneath(n, list)
  BY <1>2, <1>3, NewestRows DEF NotesInv
<1>5. PICK x : x = [c EXCEPT !.at = @ \cup {"listed"}, !.rows = list]
  OBVIOUS
<1>6. /\ c.op \in {"refresh", "panel"} /\ "listed" \notin c.at /\ chores' = (chores \ {c}) \cup {x}
      /\ UNCHANGED <<inbox, notes, topic, items, unread, panel, happened, taps, owed, uneven, astray>>
  BY <1>1, <1>2, <1>5 DEF ListRows, Becomes, notesDb, notesUi, notesBounds
<1>7. c \in Errand /\ ErrandFits(c) /\ CountSound(c)
  BY DEF NotesInv, NotesType, NotesFit, AnswersSound
<1>8. /\ x.op = c.op /\ x.id = c.id /\ x.from = c.from /\ x.nr = c.nr /\ x.at = c.at \cup {"listed"}
      /\ x.rows = list /\ x.count = c.count /\ x.early = c.early /\ x.stale = c.stale
  BY <1>5, <1>7 DEF Errand
<1>9. x \in Errand
  <2>1. c.at \cup {"listed"} \in SUBSET {"listed", "counted", "stored"}
    BY <1>7 DEF Errand
  <2> QED BY <1>4, <1>5, <1>7, <2>1 DEF Errand
<1>10. Rows(list) \subseteq NoteIds
  BY <1>4, RowsHeld
<1>11. c.at \subseteq {"listed", "counted"}
  BY <1>6, <1>7 DEF ErrandFits
<1>12. ErrandFits(x)
  BY <1>6, <1>7, <1>8, <1>10 DEF ErrandFits
<1>13. CountSound(x)
  BY <1>6, <1>7, <1>8 DEF CountSound, CountedNotes
<1>14. ListSound(x)
  BY <1>4, <1>8 DEF ListSound
<1>15. c.at # {"stored"} /\ x.at # {"stored"} /\ x.op # "badge"
  BY <1>6, <1>8, <1>11
<1> QED BY <1>6, <1>9, <1>12, <1>13, <1>14, <1>15, AnswerStep

\* The count that is given is that of the unread notes.
LEMMA CountUnreadInv ==
    ASSUME NotesInv, NEW c \in chores, CountUnread(c)
    PROVE  NotesInv'
<1>1. PICK now : now = Cardinality(UnreadNotes)
  OBVIOUS
<1>2. PICK soon : soon = UnreadNotes \cap ToCome
  OBVIOUS
<1>3. PICK late \in BOOLEAN : late = (c.stale \/ (c.op = "badge" /\ \E d \in chores : "stored" \in d.at))
  OBVIOUS
<1>4. PICK x : x = [c EXCEPT !.at = @ \cup {"counted"}, !.count = now, !.early = soon, !.stale = late]
  OBVIOUS
<1>5. /\ c.op \in {"refresh", "badge"} /\ "counted" \notin c.at /\ chores' = (chores \ {c}) \cup {x}
      /\ UNCHANGED <<inbox, notes, topic, items, unread, panel, happened, taps, owed, uneven, astray>>
  <2>1. [c EXCEPT !.at = @ \cup {"counted"}, !.count = Cardinality(UnreadNotes),
                  !.early = UnreadNotes \cap ToCome,
                  !.stale = @ \/ (c.op = "badge" /\ \E d \in chores : "stored" \in d.at)] = x
    BY <1>1, <1>2, <1>3, <1>4
  <2> QED BY <2>1 DEF CountUnread, Becomes, notesDb, notesUi, notesBounds
<1>6. c \in Errand /\ ErrandFits(c) /\ ListSound(c)
  BY DEF NotesInv, NotesType, NotesFit, AnswersSound
<1>7. /\ x.op = c.op /\ x.id = c.id /\ x.from = c.from /\ x.nr = c.nr /\ x.at = c.at \cup {"counted"}
      /\ x.rows = c.rows /\ x.count = now /\ x.early = soon /\ x.stale = late
  BY <1>4, <1>6 DEF Errand
<1>8. now \in Nat /\ soon \subseteq NoteIds /\ soon \in SUBSET Nat
  <2>1. IsFiniteSet(UnreadNotes) /\ UnreadNotes \subseteq NoteIds /\ NoteIds \in SUBSET Nat
    BY NotesThere DEF NotesInv
  <2> QED BY <1>1, <1>2, <2>1, FS_CardinalityType
<1>9. x \in Errand
  <2>1. c.at \cup {"counted"} \in SUBSET {"listed", "counted", "stored"}
    BY <1>6 DEF Errand
  <2> QED BY <1>3, <1>4, <1>6, <1>8, <2>1 DEF Errand
<1>10. c.at \subseteq {"listed", "counted"}
  BY <1>5, <1>6 DEF ErrandFits
<1>11. ErrandFits(x)
  BY <1>5, <1>6, <1>7, <1>8 DEF ErrandFits
<1>12. CountSound(x)
  <2>1. CountedNotes(x) = UnreadNotes
    BY <1>2, <1>7 DEF CountedNotes
  <2> QED BY <1>1, <1>2, <1>7, <2>1 DEF CountSound
<1>13. ListSound(x)
  <2>1. ~x.stale => ~c.stale
    BY <1>3, <1>7
  <2> QED BY <1>5, <1>6, <1>7, <2>1 DEF ListSound
<1>14. x.op = "badge" /\ ~x.stale => \A d \in chores : d.at # {"stored"}
  BY <1>3, <1>7
<1>15. c.at # {"stored"} /\ x.at # {"stored"}
  BY <1>7, <1>10
<1> QED BY <1>5, <1>9, <1>11, <1>12, <1>13, <1>14, <1>15, AnswerStep

-----------------------------------------------------------------------------
(* Notices: what is shown *)

\* What is above or beneath rows depends on their ids.
LEMMA ByRows ==
    ASSUME NEW list
    PROVE  \A n : /\ Above(n, list) <=> \A m \in Rows(list) : n > m
                  /\ Beneath(n, list) <=> \A m \in Rows(list) : n < m
BY RowsHeld DEF Above, Beneath

\* A request that is answered, or fails, leaves the rest as right as it was.
LEMMA ShowStep ==
    ASSUME NotesInv, NEW c \in chores, chores' = chores \ {c},
           UNCHANGED <<inbox, notes, topic, happened, taps, owed, uneven>>,
           items' \in Seq(NoteRow), Rows(items') \subseteq NoteIds, unread' \in Nat, astray' \in BOOLEAN,
           panel' \in [open : BOOLEAN, loading : BOOLEAN, rows : Seq(NoteRow)],
           Rows(panel'.rows) \subseteq NoteIds, StoreSound'
    PROVE  NotesInv'
<1>1. (\A n \in NoteIds : notes'[n].of = notes[n].of) /\ Len(notes') = Len(notes)
  OBVIOUS
<1>2. EventsTold' /\ inbox' \in Seq(Deed) /\ happened' \in Nat /\ (Saving' <=> Saving)
  BY <1>1, ToldStays
<1>3. ToCome' = ToCome
  BY <1>2 DEF ToCome, NoteIds, Saving
<1>4. /\ NoteIds' = NoteIds
      /\ \A d : CountSound(d)' <=> CountSound(d)
      /\ \A d : ListSound(d)' <=> ListSound(d)
      /\ \A d : ErrandFits(d)' <=> ErrandFits(d)
  BY <1>3, SameNotes
<1>5. \A op : StoredAs(op)' \subseteq StoredAs(op)
  BY DEF StoredAs
<1>6. NotesType'
  BY DEF NotesInv, NotesType
<1>7. NotesFit'
  <2>1. \A d \in chores' : ErrandFits(d)
    BY DEF NotesInv, NotesFit
  <2> QED BY <1>4, <2>1 DEF NotesInv, NotesFit
<1>8. TopicSound'
  BY <1>2 DEF NotesInv, TopicSound
<1>9. StoredSound'
  BY <1>4, <1>5 DEF NotesInv, StoredSound
<1>10. AnswersSound'
  <2>1. \A d \in chores' : CountSound(d) /\ ListSound(d)
    BY DEF NotesInv, AnswersSound
  <2> QED BY <1>4, <2>1 DEF AnswersSound
<1>11. BadgeSound'
  BY DEF NotesInv, BadgeSound
<1> QED BY <1>2, <1>6, <1>7, <1>8, <1>9, <1>10, <1>11 DEF NotesInv

\* The types of the store, as such a step finds it
LEMMA StoreThere ==
    ASSUME NotesInv
    PROVE  /\ items \in Seq(NoteRow) /\ Rows(items) \subseteq NoteIds /\ unread \in Nat
           /\ astray \in BOOLEAN
           /\ panel \in [open : BOOLEAN, loading : BOOLEAN, rows : Seq(NoteRow)]
           /\ Rows(panel.rows) \subseteq NoteIds
           /\ \A row \in Els(items) : row \in NoteRow /\ row.id \in NoteIds
           /\ \A n \in Rows(items) : \E row \in Els(items) : row.id = n
<1>1. items \in Seq(NoteRow) /\ Rows(items) \subseteq NoteIds
  BY DEF NotesInv, NotesType, NotesFit
<1>2. Rows(items) = {row.id : row \in Els(items)}
  BY RowsHeld
<1>3. \A row \in Els(items) : row \in NoteRow
  BY <1>1, TypedList
<1>4. \A row \in Els(items) : row.id \in NoteIds
  BY <1>1, <1>2
<1>5. /\ unread \in Nat /\ astray \in BOOLEAN
      /\ panel \in [open : BOOLEAN, loading : BOOLEAN, rows : Seq(NoteRow)]
      /\ Rows(panel.rows) \subseteq NoteIds
  BY DEF NotesInv, NotesType, NotesFit
<1> QED BY <1>1, <1>2, <1>3, <1>4, <1>5

\* A row that is unread is shown as such.
LEMMA UnreadShown ==
    ASSUME NEW list, NEW row \in Els(list), row \in NoteRow, ~row.read
    PROVE  [id |-> row.id, read |-> FALSE] \in Els(list)
<1>1. row = [id |-> row.id, read |-> FALSE]
  BY DEF NoteRow
<1> QED BY <1>1

\* The two answers of a refresh, together
LEMMA RefreshDoneInv ==
    ASSUME NotesInv, NEW c \in chores, RefreshDone(c)
    PROVE  NotesInv'
<1>1. /\ c.op = "refresh" /\ c.at = {"listed", "counted"} /\ items' = c.rows /\ unread' = c.count
      /\ astray' = (c.stale \/ c.early \ Rows(c.rows) # {}) /\ chores' = chores \ {c}
      /\ UNCHANGED <<inbox, notes, topic, panel, happened, taps, owed, uneven>>
  BY DEF RefreshDone, Finished, notesDb, notesBounds
<1>2. c \in Errand /\ ErrandFits(c) /\ CountSound(c) /\ ListSound(c)
  BY DEF NotesInv, NotesType, NotesFit, AnswersSound
<1>3. /\ items' \in Seq(NoteRow) /\ Rows(items') \subseteq NoteIds /\ unread' \in Nat /\ astray' \in BOOLEAN
      /\ panel' \in [open : BOOLEAN, loading : BOOLEAN, rows : Seq(NoteRow)]
      /\ Rows(panel'.rows) \subseteq NoteIds
  <2>1. items' \in Seq(NoteRow) /\ unread' \in Nat /\ astray' \in BOOLEAN
    BY <1>1, <1>2 DEF Errand
  <2>2. Rows(items') \subseteq NoteIds
    BY <1>1, <1>2 DEF ErrandFits
  <2> QED BY <1>1, <2>1, <2>2, StoreThere
<1>4. ASSUME ~astray' PROVE RowsSound' /\ unread' = Cardinality(Due')
  <2>1. ~c.stale /\ c.early \subseteq Rows(c.rows)
    BY <1>1, <1>4
  <2>2. /\ c.count = Cardinality(CountedNotes(c))
        /\ \A n \in (UnreadNotes \cap ToCome) \ c.early : Latest(n) /\ Above(n, c.rows)
    BY <1>1, <1>2, <2>1 DEF CountSound
  <2>3. /\ Descends(c.rows)
        /\ \A row \in Els(c.rows) : notes[row.id].kept /\ notes[row.id].read = row.read
        /\ \A n \in KeptNotes \ Rows(c.rows) : Beneath(n, c.rows) \/ (n \in ToCome /\ Above(n, c.rows))
    BY <1>1, <1>2, <2>1 DEF ListSound
  <2>4. ToCome' = ToCome /\ NoteIds' = NoteIds
    BY <1>1 DEF ToCome, NoteIds, Current
  <2>5. UnreadNotes' = UnreadNotes /\ KeptNotes' = KeptNotes /\ \A n : Latest(n)' <=> Latest(n)
    BY <1>1, <2>4, SameNotes
  <2>6. RowsSound'
    <3>1. \A n \in (UnreadNotes \cap ToCome) \ Rows(c.rows) : Latest(n) /\ Above(n, c.rows)
      BY <2>1, <2>2
    <3>2. \A row \in Els(c.rows) : /\ row.read => notes[row.id].read
                                   /\ notes[row.id].read => row.read
                                   /\ notes[row.id].kept
      BY <2>3
    <3> QED BY <1>1, <2>3, <2>4, <2>5, <3>1, <3>2 DEF RowsSound
  <2>7. \A row \in Els(c.rows) : row \in NoteRow /\ row.id \in NoteIds
    <3>1. c.rows \in Seq(NoteRow)
      BY <1>2 DEF Errand
    <3>2. Rows(c.rows) = {row.id : row \in Els(c.rows)} /\ Rows(c.rows) \subseteq NoteIds
      BY <1>2, RowsHeld DEF ErrandFits
    <3>3. \A row \in Els(c.rows) : row \in NoteRow
      BY <3>1, TypedList
    <3> QED BY <3>2, <3>3
  <2>8. \A n : ShownUnread(n)' <=> [id |-> n, read |-> FALSE] \in Els(c.rows)
    BY <1>1 DEF ShownUnread, Els
  <2>9. ASSUME NEW n, ShownUnread(n)' PROVE n \in CountedNotes(c)
    <3>1. PICK row \in Els(c.rows) : row = [id |-> n, read |-> FALSE]
      BY <2>8, <2>9
    <3>2. row.id = n /\ row.read = FALSE
      BY <3>1
    <3>3. n \in UnreadNotes /\ n \in Nat
      <4>1. n \in NoteIds /\ notes[n].kept /\ ~notes[n].read
        BY <2>3, <2>7, <3>1, <3>2
      <4> QED BY <4>1, NotesThere DEF UnreadNotes, NotesInv
    <3>4. ~Above(n, c.rows)
      BY <3>1, <3>2, <3>3 DEF Above
    <3> QED BY <2>2, <3>3, <3>4 DEF CountedNotes
  <2>10. ASSUME NEW n \in CountedNotes(c), n \in ToCome PROVE ShownUnread(n)'
    <3>1. n \in UnreadNotes /\ n \in c.early
      BY <2>10 DEF CountedNotes
    <3>2. PICK row \in Els(c.rows) : row.id = n
      BY <2>1, <3>1, RowsHeld
    <3>3. ~row.read /\ row \in NoteRow
      BY <2>3, <2>7, <3>1, <3>2 DEF UnreadNotes
    <3> QED BY <2>8, <3>2, <3>3, UnreadShown
  <2>11. Due' = CountedNotes(c)
    <3>1. CountedNotes(c) \subseteq UnreadNotes /\ UnreadNotes \subseteq NoteIds
      BY DEF CountedNotes, UnreadNotes
    <3>2. \A n \in UnreadNotes : n \notin ToCome => n \in CountedNotes(c)
      BY DEF CountedNotes
    <3>3. Due' = {n \in NoteIds : ShownUnread(n)'} \cup (UnreadNotes \ ToCome)
      BY <2>4, <2>5 DEF Due
    <3> QED BY <2>9, <2>10, <3>1, <3>2, <3>3
  <2> QED BY <1>1, <2>2, <2>6, <2>11
<1>5. StoreSound'
  BY <1>4 DEF StoreSound, Calm
<1> QED BY <1>1, <1>3, <1>5, ShowStep

\* The count of the badge alone
LEMMA BadgeDoneInv ==
    ASSUME NotesInv, NEW c \in chores, BadgeDone(c)
    PROVE  NotesInv'
<1>1. /\ c.op = "badge" /\ c.at = {"counted"} /\ items' = items /\ unread' = c.count
      /\ astray' = (astray \/ c.stale \/ c.early \ Rows(items) # {}) /\ chores' = chores \ {c}
      /\ UNCHANGED <<inbox, notes, topic, panel, happened, taps, owed, uneven>>
  BY DEF BadgeDone, Finished, notesDb, notesBounds
<1>2. c \in Errand /\ ErrandFits(c) /\ CountSound(c)
  BY DEF NotesInv, NotesType, NotesFit, AnswersSound
<1>3. /\ items' \in Seq(NoteRow) /\ Rows(items') \subseteq NoteIds /\ unread' \in Nat /\ astray' \in BOOLEAN
      /\ panel' \in [open : BOOLEAN, loading : BOOLEAN, rows : Seq(NoteRow)]
      /\ Rows(panel'.rows) \subseteq NoteIds
  <2>1. unread' \in Nat /\ astray' \in BOOLEAN
    BY <1>1, <1>2 DEF Errand
  <2> QED BY <1>1, <2>1, StoreThere
<1>4. ASSUME ~astray' PROVE RowsSound' /\ unread' = Cardinality(Due')
  <2>1. ~astray /\ ~c.stale /\ c.early \subseteq Rows(items)
    BY <1>1, <1>4, StoreThere
  <2>2. \A op : StoredAs(op) = {} /\ StoredAs(op)' = {}
    BY <1>1, <2>1 DEF NotesInv, BadgeSound, StoredAs
  <2>3. Calm
    BY <2>1, <2>2 DEF Calm
  <2>4. RowsSound
    BY <2>3 DEF NotesInv, StoreSound
  <2>5. ToCome' = ToCome /\ NoteIds' = NoteIds
    BY <1>1 DEF ToCome, NoteIds, Current
  <2>6. RowsSound' /\ Due' = Due
    <3>1. \A op \in {"read", "delete", "all"} : StoredAs(op)' = StoredAs(op)
      BY <2>2
    <3> QED BY <1>1, <2>4, <2>5, <3>1, SameRows
  <2>7. /\ c.count = Cardinality(CountedNotes(c))
        /\ \A n \in UnreadNotes \cap ToCome : n \in c.early
    BY <1>1, <1>2, <2>1 DEF CountSound
  <2>8. CountedNotes(c) = UnreadNotes
    BY <2>7 DEF CountedNotes
  <2>9. ASSUME NEW n \in NoteIds, ShownUnread(n) PROVE n \in UnreadNotes
    <3>1. PICK row \in Els(items) : row = [id |-> n, read |-> FALSE]
      BY <2>9, ShownHeld
    <3>2. row.id = n /\ row.read = FALSE
      BY <3>1
    <3>3. (notes[row.id].read => row.read) /\ notes[row.id].kept
      BY <2>2, <2>4, <3>1 DEF RowsSound
    <3> QED BY <2>9, <3>2, <3>3 DEF UnreadNotes
  <2>10. ASSUME NEW n \in UnreadNotes, n \in ToCome PROVE ShownUnread(n)
    <3>1. PICK row \in Els(items) : row.id = n
      BY <2>1, <2>7, <2>10, StoreThere
    <3>2. ~row.read /\ row \in NoteRow
      BY <2>4, <3>1, StoreThere DEF RowsSound, UnreadNotes
    <3> QED BY <3>1, <3>2, UnreadShown, ShownHeld
  <2>11. Due = UnreadNotes
    BY <2>9, <2>10 DEF Due, UnreadNotes
  <2> QED BY <1>1, <2>6, <2>7, <2>8, <2>11
<1>5. StoreSound'
  BY <1>4 DEF StoreSound, Calm
<1> QED BY <1>1, <1>3, <1>5, ShowStep

\* A request that fails after it was stored goes astray.
LEMMA ChoreFailsInv ==
    ASSUME NotesInv, NEW c \in chores, ChoreFails(c)
    PROVE  NotesInv'
<1>1. CASE c.at # {"stored"}
  BY <1>1, AnswersAside
<1>2. CASE c.at = {"stored"}
  <2>1. c.op # "panel"
    BY <1>2 DEF NotesInv, NotesFit, ErrandFits
  <2>2. /\ chores' = chores \ {c} /\ astray' = TRUE
        /\ UNCHANGED <<inbox, notes, topic, items, unread, panel, happened, taps, owed, uneven>>
    BY <1>2, <2>1 DEF ChoreFails, Finished, Fault, notesDb
  <2>3. StoreSound'
    BY <2>2 DEF StoreSound, Calm
  <2> QED BY <2>2, <2>3, StoreThere, ShowStep
<1> QED BY <1>1, <1>2

\* Once a note is no longer unread, nor shown as such, the badge is to count
\* one less if it was shown so, and is right if it does.
LEMMA OneLess ==
    ASSUME NotesInv, NEW n \in NoteIds, UNCHANGED <<notes, topic, inbox>>, n \notin UnreadNotes,
           unread' = (IF ShownUnread(n) THEN Fewer ELSE unread), unread = Cardinality(Due),
           \A m : ShownUnread(m)' <=> ShownUnread(m) /\ m # n
    PROVE  unread' = Cardinality(Due')
<1>1. NoteIds' = NoteIds /\ UnreadNotes' = UnreadNotes /\ ToCome' = ToCome
  BY DEF NoteIds, UnreadNotes, ToCome, Current
<1>2. IsFiniteSet(Due)
  <2>1. Due \subseteq NoteIds /\ IsFiniteSet(NoteIds)
    BY NotesThere DEF Due, UnreadNotes, NotesInv
  <2> QED BY <2>1, FS_Subset
<1>3. Due' = Due \ {n}
  BY <1>1 DEF Due
<1>4. CASE ShownUnread(n)
  <2>1. n \in Due
    BY <1>4 DEF Due
  <2>2. Cardinality(Due \ {n}) = Cardinality(Due) - 1
    BY <1>2, <2>1, FS_RemoveElement
  <2>3. IsFiniteSet(Due \ {n})
    BY <1>2, FS_RemoveElement
  <2>4. Cardinality(Due) \in Nat /\ Cardinality(Due \ {n}) \in Nat
    BY <1>2, <2>3, FS_CardinalityType
  <2>5. unread > 0
    BY <2>2, <2>4
  <2> QED BY <1>3, <1>4, <2>2, <2>5 DEF Fewer
<1>5. CASE ~ShownUnread(n)
  <2>1. n \notin Due
    BY <1>5 DEF Due
  <2>2. Due' = Due
    BY <1>3, <2>1
  <2> QED BY <1>5, <2>2
<1> QED BY <1>4, <1>5

\* What is stored and not shown, as the answer to one such request is taken
LEMMA OneShown ==
    ASSUME NEW c \in chores, chores' = chores \ {c}
    PROVE  \A op : /\ op # c.op => StoredAs(op)' = StoredAs(op)
                   /\ \A d \in StoredAs(op) : d = c \/ d \in StoredAs(op)'
                   /\ StoredAs(op)' \subseteq StoredAs(op)
BY DEF StoredAs

\* The rows and the panel's, patched
LEMMA PatchedThere ==
    ASSUME NotesInv, NEW ids, items' = Patched(items, ids), NEW c \in chores,
           panel' = IF c.from = "bell" THEN [panel EXCEPT !.rows = Patched(@, ids)] ELSE panel
    PROVE  /\ items' \in Seq(NoteRow) /\ Rows(items') = Rows(items)
           /\ panel' \in [open : BOOLEAN, loading : BOOLEAN, rows : Seq(NoteRow)]
           /\ Rows(panel'.rows) \subseteq NoteIds
           /\ Descends(items) => Descends(items')
           /\ \A row \in Els(items') : \E old \in Els(items) :
                  row.id = old.id /\ (row.read <=> old.read \/ old.id \in ids)
           /\ \A m : ShownUnread(m)' <=> ShownUnread(m) /\ m \notin ids
<1>1. /\ items \in Seq(NoteRow) /\ panel \in [open : BOOLEAN, loading : BOOLEAN, rows : Seq(NoteRow)]
      /\ Rows(panel.rows) \subseteq NoteIds
  BY StoreThere
<1>2. items' \in Seq(NoteRow) /\ (Descends(items) => Descends(items'))
  BY <1>1, PatchedRows
<1>3. /\ Rows(items') = Rows(items)
      /\ \A row \in Els(items') : \E old \in Els(items) :
             row.id = old.id /\ (row.read <=> old.read \/ old.id \in ids)
      /\ \A old \in Els(items) : \E row \in Els(items') :
             row.id = old.id /\ (row.read <=> old.read \/ old.id \in ids)
  BY <1>1, PatchedHeld
<1>4. PICK list : list = Patched(panel.rows, ids)
  OBVIOUS
<1>5. panel.rows \in Seq(NoteRow)
  BY <1>1
<1>6. list \in Seq(NoteRow) /\ Rows(list) = Rows(panel.rows)
  BY <1>4, <1>5, PatchedRows, PatchedHeld
<1>7. panel' = panel \/ panel' = [panel EXCEPT !.rows = list]
  BY <1>4
<1>8. panel' \in [open : BOOLEAN, loading : BOOLEAN, rows : Seq(NoteRow)]
  BY <1>1, <1>6, <1>7
<1>9. panel'.rows \in {panel.rows, list}
  BY <1>1, <1>7
<1>10. Rows(panel'.rows) \subseteq NoteIds
  BY <1>1, <1>6, <1>9
<1>11. ASSUME NEW m PROVE ShownUnread(m)' <=> ShownUnread(m) /\ m \notin ids
  <2>1. PICK row : row = [id |-> m, read |-> FALSE]
    OBVIOUS
  <2>2. row.id = m /\ row.read = FALSE
    BY <2>1
  <2>3. ShownUnread(m) <=> row \in Els(items)
    BY <2>1, ShownHeld
  <2>4. ShownUnread(m)' <=> row \in Els(items')
    BY <2>1 DEF ShownUnread, Els
  <2>5. \A x \in Els(items) \cup Els(items') : x \in NoteRow
    BY <1>1, <1>2, TypedList
  <2>6. \A x \in NoteRow : x.id = m /\ ~x.read => x = row
    BY <2>1 DEF NoteRow
  <2>7. ASSUME row \in Els(items') PROVE row \in Els(items) /\ m \notin ids
    <3>1. PICK old \in Els(items) : row.id = old.id /\ (row.read <=> old.read \/ old.id \in ids)
      BY <1>3, <2>7
    <3> QED BY <2>2, <2>5, <2>6, <3>1
  <2>8. ASSUME row \in Els(items), m \notin ids PROVE row \in Els(items')
    <3>1. PICK new \in Els(items') : new.id = row.id /\ (new.read <=> row.read \/ row.id \in ids)
      BY <1>3, <2>8
    <3> QED BY <2>2, <2>5, <2>6, <2>8, <3>1
  <2> QED BY <2>3, <2>4, <2>7, <2>8
<1> QED BY <1>2, <1>3, <1>8, <1>10, <1>11

\* A note read is shown as read.
LEMMA ReadDoneInv ==
    ASSUME NotesInv, NEW c \in chores, ReadDone(c)
    PROVE  NotesInv'
<1>1. /\ c.op = "read" /\ c.at = {"stored"} /\ items' = Patched(items, {c.id})
      /\ unread' = (IF ShownUnread(c.id) THEN Fewer ELSE unread)
      /\ panel' = IF c.from = "bell" THEN [panel EXCEPT !.rows = Patched(@, {c.id})] ELSE panel
      /\ astray' = (astray \/ c.id \notin Rows(items)) /\ chores' = chores \ {c}
      /\ UNCHANGED <<inbox, notes, topic, happened, taps, owed, uneven>>
  BY DEF ReadDone, Finished, notesDb, notesBounds
<1>2. /\ items' \in Seq(NoteRow) /\ Rows(items') = Rows(items)
      /\ panel' \in [open : BOOLEAN, loading : BOOLEAN, rows : Seq(NoteRow)]
      /\ Rows(panel'.rows) \subseteq NoteIds
      /\ Descends(items) => Descends(items')
      /\ \A row \in Els(items') : \E old \in Els(items) :
             row.id = old.id /\ (row.read <=> old.read \/ old.id \in {c.id})
      /\ \A m : ShownUnread(m)' <=> ShownUnread(m) /\ m \notin {c.id}
  BY <1>1, PatchedThere
<1>3. Rows(items') \subseteq NoteIds /\ unread' \in Nat /\ astray' \in BOOLEAN
  <2>1. unread' \in Nat
    BY <1>1, StoreThere DEF Fewer
  <2>2. Rows(items') \subseteq NoteIds /\ astray' \in BOOLEAN
    BY <1>1, <1>2, StoreThere
  <2> QED BY <2>1, <2>2
<1>4. c \in StoredAs("read") /\ c.id \in NoteIds /\ notes[c.id].read
  BY <1>1 DEF StoredAs, NotesInv, NotesFit, ErrandFits, StoredSound
<1>5. \A op : /\ op # "read" => StoredAs(op)' = StoredAs(op)
              /\ \A d \in StoredAs(op) : d = c \/ d \in StoredAs(op)'
  BY <1>1, OneShown
<1>6. ASSUME Calm' PROVE RowsSound' /\ (StoredAs("all")' = {} => unread' = Cardinality(Due'))
  <2>1. ~astray /\ c.id \in Rows(items)
    BY <1>1, <1>6, StoreThere DEF Calm
  <2>2. Calm
    BY <1>2, <1>5, <1>6, <2>1 DEF Calm
  <2>3. RowsSound /\ (StoredAs("all") = {} => unread = Cardinality(Due))
    BY <2>2 DEF NotesInv, StoreSound
  <2>4. ToCome' = ToCome
    BY <1>1 DEF ToCome, NoteIds, Current
  <2>5. NoteIds' = NoteIds /\ UnreadNotes' = UnreadNotes /\ KeptNotes' = KeptNotes
        /\ \A n : Latest(n)' <=> Latest(n)
    BY <1>1, <2>4, SameNotes
  <2>6. \A n : (Above(n, items') <=> Above(n, items)) /\ (Beneath(n, items') <=> Beneath(n, items))
    BY <1>2, ByRows
  <2>7. ASSUME NEW row \in Els(items')
        PROVE  /\ row.read => notes[row.id].read
               /\ notes[row.id].read => \/ row.read
                                        \/ \E d \in StoredAs("read")' : d.id = row.id
                                        \/ \E d \in StoredAs("all")' : row.id <= d.count
               /\ notes[row.id].kept \/ \E d \in StoredAs("delete")' : d.id = row.id
    <3>1. PICK old \in Els(items) : row.id = old.id /\ (row.read <=> old.read \/ old.id \in {c.id})
      BY <1>2
    <3>2. /\ old.read => notes[old.id].read
          /\ notes[old.id].read => \/ old.read
                                   \/ \E d \in StoredAs("read") : d.id = old.id
                                   \/ \E d \in StoredAs("all") : old.id <= d.count
          /\ notes[old.id].kept \/ \E d \in StoredAs("delete") : d.id = old.id
      BY <2>3 DEF RowsSound
    <3> QED BY <1>4, <1>5, <3>1, <3>2
  <2>8. RowsSound'
    BY <1>1, <1>2, <2>3, <2>4, <2>5, <2>6, <2>7 DEF RowsSound
  <2>9. c.id \notin UnreadNotes
    BY <1>4 DEF UnreadNotes
  <2>10. ASSUME StoredAs("all")' = {} PROVE unread' = Cardinality(Due')
    <3>1. unread = Cardinality(Due)
      BY <1>5, <2>3, <2>10
    <3>2. \A m : ShownUnread(m)' <=> ShownUnread(m) /\ m # c.id
      BY <1>2
    <3> QED BY <1>1, <1>4, <2>9, <3>1, <3>2, OneLess
  <2> QED BY <2>8, <2>10
<1>7. StoreSound'
  BY <1>6 DEF StoreSound
<1> QED BY <1>1, <1>2, <1>3, <1>7, ShowStep

\* All that is shown is shown as read.
LEMMA AllReadDoneInv ==
    ASSUME NotesInv, NEW c \in chores, AllReadDone(c)
    PROVE  NotesInv'
<1>1. /\ c.op = "all" /\ c.at = {"stored"} /\ items' = Patched(items, NoteIds) /\ unread' = 0
      /\ panel' = IF c.from = "bell" THEN [panel EXCEPT !.rows = Patched(@, NoteIds)] ELSE panel
      /\ astray' = (astray \/ \E n \in Rows(items) \cup (UnreadNotes \ ToCome) : n > c.count)
      /\ chores' = chores \ {c}
      /\ UNCHANGED <<inbox, notes, topic, happened, taps, owed, uneven>>
  BY DEF AllReadDone, Finished, notesDb, notesBounds
<1>2. /\ items' \in Seq(NoteRow) /\ Rows(items') = Rows(items)
      /\ panel' \in [open : BOOLEAN, loading : BOOLEAN, rows : Seq(NoteRow)]
      /\ Rows(panel'.rows) \subseteq NoteIds
      /\ Descends(items) => Descends(items')
      /\ \A row \in Els(items') : \E old \in Els(items) :
             row.id = old.id /\ (row.read <=> old.read \/ old.id \in NoteIds)
      /\ \A m : ShownUnread(m)' <=> ShownUnread(m) /\ m \notin NoteIds
  BY <1>1, PatchedThere
<1>3. Rows(items') \subseteq NoteIds /\ unread' \in Nat /\ astray' \in BOOLEAN
  BY <1>1, <1>2, StoreThere
<1>4. /\ c \in StoredAs("all") /\ c.count \in Nat /\ \A n \in NoteIds : n \in Nat
      /\ \A n \in NoteIds : n <= c.count => notes[n].read
  <2>1. c \in StoredAs("all") /\ c.count \in Nat
    BY <1>1 DEF StoredAs, NotesInv, NotesType, Errand
  <2>2. \A n \in NoteIds : n <= c.count => notes[n].read
    BY <2>1 DEF NotesInv, StoredSound
  <2> QED BY <2>1, <2>2, NotesThere DEF NotesInv
<1>5. \A op : /\ op # "all" => StoredAs(op)' = StoredAs(op)
              /\ \A d \in StoredAs(op) : d = c \/ d \in StoredAs(op)'
  BY <1>1, OneShown
<1>6. ASSUME Calm' PROVE RowsSound' /\ unread' = Cardinality(Due')
  <2>1. ~astray /\ \A n \in Rows(items) \cup (UnreadNotes \ ToCome) : ~(n > c.count)
    BY <1>1, <1>6, StoreThere DEF Calm
  <2>2. Calm
    BY <1>2, <1>5, <1>6, <2>1 DEF Calm
  <2>3. RowsSound
    BY <2>2 DEF NotesInv, StoreSound
  <2>4. ToCome' = ToCome
    BY <1>1 DEF ToCome, NoteIds, Current
  <2>5. NoteIds' = NoteIds /\ UnreadNotes' = UnreadNotes /\ KeptNotes' = KeptNotes
        /\ \A n : Latest(n)' <=> Latest(n)
    BY <1>1, <2>4, SameNotes
  <2>6. \A n : (Above(n, items') <=> Above(n, items)) /\ (Beneath(n, items') <=> Beneath(n, items))
    BY <1>2, ByRows
  <2>7. ASSUME NEW row \in Els(items')
        PROVE  row.read /\ notes[row.id].read
               /\ (notes[row.id].kept \/ \E d \in StoredAs("delete")' : d.id = row.id)
    <3>1. PICK old \in Els(items) : row.id = old.id /\ (row.read <=> old.read \/ old.id \in NoteIds)
      BY <1>2
    <3>2. old.id \in NoteIds /\ old.id \in Rows(items)
      BY StoreThere, RowsHeld
    <3>3. notes[old.id].read
      BY <1>4, <2>1, <3>2
    <3>4. notes[old.id].kept \/ \E d \in StoredAs("delete") : d.id = old.id
      BY <2>3 DEF RowsSound
    <3> QED BY <1>5, <3>1, <3>2, <3>3, <3>4
  <2>8. RowsSound'
    BY <1>1, <1>2, <2>3, <2>4, <2>5, <2>6, <2>7 DEF RowsSound
  <2>9. Due' = {}
    <3>1. \A n \in NoteIds : ~ShownUnread(n)'
      BY <1>2
    <3>2. \A n \in UnreadNotes : n \in NoteIds /\ ~notes[n].read
      BY DEF UnreadNotes
    <3>3. UnreadNotes \ ToCome = {}
      BY <1>4, <2>1, <3>2
    <3> QED BY <2>4, <2>5, <3>1, <3>3 DEF Due
  <2> QED BY <1>1, <2>8, <2>9, FS_EmptySet
<1>7. StoreSound'
  BY <1>6 DEF StoreSound
<1> QED BY <1>1, <1>2, <1>3, <1>7, ShowStep

\* The row of a note deleted goes.
LEMMA DeleteDoneInv ==
    ASSUME NotesInv, NEW c \in chores, DeleteDone(c)
    PROVE  NotesInv'
<1>1. /\ c.op = "delete" /\ c.at = {"stored"}
      /\ items' = Filtered(items, {k \in 1..Len(items) : items[k].id # c.id})
      /\ unread' = (IF ShownUnread(c.id) THEN Fewer ELSE unread)
      /\ astray' = (astray \/ c.id \notin Rows(items)) /\ chores' = chores \ {c}
      /\ UNCHANGED <<inbox, notes, topic, panel, happened, taps, owed, uneven>>
  BY DEF DeleteDone, Finished, notesDb, notesBounds
<1>2. /\ items' \in Seq(NoteRow) /\ Els(items') = {row \in Els(items) : row.id # c.id}
      /\ Descends(items) => Descends(items')
  <2>1. items \in Seq(NoteRow)
    BY StoreThere
  <2>2. items' = Filtered(items, {k \in 1..Len(items) : items[k].id # c.id})
    BY <1>1
  <2>3. PICK P : P = {k \in 1..Len(items) : items[k].id # c.id}
    OBVIOUS
  <2>4. items' = Filtered(items, P)
    BY <2>2, <2>3
  <2>5. P \in SUBSET (1..Len(items)) /\ \A k \in 1..Len(items) : k \in P <=> items[k].id # c.id
    BY <2>3
  <2> QED BY <2>1, <2>4, <2>5, RemovedRows
<1>3. Rows(items') = Rows(items) \ {c.id}
  BY <1>2, RowsHeld
<1>4. /\ Rows(items') \subseteq NoteIds /\ unread' \in Nat /\ astray' \in BOOLEAN
      /\ panel' \in [open : BOOLEAN, loading : BOOLEAN, rows : Seq(NoteRow)]
      /\ Rows(panel'.rows) \subseteq NoteIds
  BY <1>1, <1>3, StoreThere DEF Fewer
<1>5. c \in StoredAs("delete") /\ c.id \in NoteIds /\ ~notes[c.id].kept
  BY <1>1 DEF StoredAs, NotesInv, NotesFit, ErrandFits, StoredSound
<1>6. \A op : /\ op # "delete" => StoredAs(op)' = StoredAs(op)
              /\ \A d \in StoredAs(op) : d = c \/ d \in StoredAs(op)'
  BY <1>1, OneShown
<1>7. ASSUME Calm' PROVE RowsSound' /\ (StoredAs("all")' = {} => unread' = Cardinality(Due'))
  <2>1. ~astray /\ c.id \in Rows(items)
    BY <1>1, <1>7, StoreThere DEF Calm
  <2>2. Calm
    BY <1>3, <1>6, <1>7, <2>1 DEF Calm
  <2>3. RowsSound /\ (StoredAs("all") = {} => unread = Cardinality(Due))
    BY <2>2 DEF NotesInv, StoreSound
  <2>4. ToCome' = ToCome
    BY <1>1 DEF ToCome, NoteIds, Current
  <2>5. NoteIds' = NoteIds /\ UnreadNotes' = UnreadNotes /\ KeptNotes' = KeptNotes
        /\ \A n : Latest(n)' <=> Latest(n)
    BY <1>1, <2>4, SameNotes
  <2>6. \A n : (Above(n, items) => Above(n, items')) /\ (Beneath(n, items) => Beneath(n, items'))
    BY <1>2 DEF Above, Beneath
  <2>7. c.id \notin UnreadNotes /\ c.id \notin KeptNotes
    BY <1>5 DEF UnreadNotes, KeptNotes
  <2>8. ASSUME NEW row \in Els(items')
        PROVE  /\ row.read => notes[row.id].read
               /\ notes[row.id].read => \/ row.read
                                        \/ \E d \in StoredAs("read")' : d.id = row.id
                                        \/ \E d \in StoredAs("all")' : row.id <= d.count
               /\ notes[row.id].kept \/ \E d \in StoredAs("delete")' : d.id = row.id
    <3>1. row \in Els(items) /\ row.id # c.id
      BY <1>2
    <3>2. /\ row.read => notes[row.id].read
          /\ notes[row.id].read => \/ row.read
                                   \/ \E d \in StoredAs("read") : d.id = row.id
                                   \/ \E d \in StoredAs("all") : row.id <= d.count
          /\ notes[row.id].kept \/ \E d \in StoredAs("delete") : d.id = row.id
      BY <2>3, <3>1 DEF RowsSound
    <3> QED BY <1>6, <3>1, <3>2
  <2>9. RowsSound'
    <3>1. \A n \in KeptNotes \ Rows(items') : Beneath(n, items') \/ (n \in ToCome /\ Above(n, items'))
      BY <1>3, <2>3, <2>6, <2>7 DEF RowsSound
    <3>2. \A n \in (UnreadNotes \cap ToCome) \ Rows(items') : Latest(n) /\ Above(n, items')
      BY <1>3, <2>3, <2>6, <2>7 DEF RowsSound
    <3>3. Descends(items')
      BY <1>2, <2>3 DEF RowsSound
    <3> QED BY <1>1, <2>4, <2>5, <2>8, <3>1, <3>2, <3>3 DEF RowsSound
  <2>10. ASSUME StoredAs("all")' = {} PROVE unread' = Cardinality(Due')
    <3>1. unread = Cardinality(Due)
      BY <1>6, <2>3, <2>10
    <3>2. ASSUME NEW m PROVE ShownUnread(m)' <=> ShownUnread(m) /\ m # c.id
      <4>1. PICK row : row = [id |-> m, read |-> FALSE]
        OBVIOUS
      <4>2. row.id = m
        BY <4>1
      <4>3. ShownUnread(m) <=> row \in Els(items)
        BY <4>1, ShownHeld
      <4>4. ShownUnread(m)' <=> row \in Els(items')
        BY <4>1 DEF ShownUnread, Els
      <4> QED BY <1>2, <4>2, <4>3, <4>4
    <3> QED BY <1>1, <1>5, <2>7, <3>1, <3>2, OneLess
  <2> QED BY <2>9, <2>10
<1>8. StoreSound'
  BY <1>7 DEF StoreSound
<1> QED BY <1>1, <1>2, <1>4, <1>8, ShowStep

-----------------------------------------------------------------------------
(* Notices: what is stored *)

\* A request that is stored, and the others crossed by it
LEMMA StoredErrands ==
    ASSUME NotesInv, NEW c \in chores, c.at = {},
           chores' = Crossed(chores \ {c}) \cup {[c EXCEPT !.at = {"stored"}, !.count = Len(notes)]}
    PROVE  \E x \in chores' \cap Errand :
               /\ x.op = c.op /\ x.id = c.id /\ x.at = {"stored"} /\ x.count = Len(notes)
               /\ x.rows = c.rows /\ x.early = c.early
               /\ \A d \in chores' : d = x \/ \E e \in chores : Like(d, e) /\ (d.at # {} => d.stale)
               /\ \A e \in chores : e.at = {"stored"} => \E d \in chores' : Like(d, e)
<1>1. PICK x : x = [c EXCEPT !.at = {"stored"}, !.count = Len(notes)]
  OBVIOUS
<1>2. PICK S : S = chores \ {c}
  OBVIOUS
<1>3. chores' = Crossed(S) \cup {x} /\ S \in SUBSET Errand /\ S \subseteq chores
  BY <1>1, <1>2 DEF NotesInv, NotesType
<1>4. c \in Errand /\ Len(notes) \in Nat
  BY NotesThere DEF NotesInv, NotesType
<1>5. /\ x \in Errand /\ x.op = c.op /\ x.id = c.id /\ x.at = {"stored"} /\ x.count = Len(notes)
      /\ x.rows = c.rows /\ x.early = c.early
  BY <1>1, <1>4 DEF Errand
<1>6. /\ \A d \in Crossed(S) : \E e \in S : Like(d, e) /\ (d.at # {} => d.stale)
      /\ \A e \in S : \E d \in Crossed(S) : Like(d, e)
  BY <1>3, CrossedLike
<1>7. \A e \in chores : e.at = {"stored"} => e \in S
  BY <1>2
<1>8. x \in chores' \cap Errand
  BY <1>3, <1>5
<1>9. \A d \in chores' : d = x \/ \E e \in chores : Like(d, e) /\ (d.at # {} => d.stale)
  BY <1>3, <1>6
<1>10. \A e \in chores : e.at = {"stored"} => \E d \in chores' : Like(d, e)
  BY <1>3, <1>6, <1>7
<1> QED BY <1>5, <1>8, <1>9, <1>10

\* What is read, or deleted, is so from then on: the rows follow when the
\* answer comes, the badge with them.
LEMMA StoresInv ==
    ASSUME NotesInv, NEW c \in chores, c.at = {}, c.op \in {"read", "all", "delete"},
           NEW changed \in Seq(Note), Stores(c, changed), Len(changed) = Len(notes),
           \A n \in NoteIds :
               /\ changed[n].of = notes[n].of
               /\ changed[n].read <=> \/ notes[n].read
                                      \/ c.op = "read" /\ n = c.id
                                      \/ c.op = "all"
               /\ changed[n].kept <=> notes[n].kept /\ ~(c.op = "delete" /\ n = c.id)
    PROVE  NotesInv'
<1>1. /\ notes' = changed
      /\ chores' = Crossed(chores \ {c}) \cup {[c EXCEPT !.at = {"stored"}, !.count = Len(notes)]}
      /\ UNCHANGED <<inbox, topic, items, unread, panel, happened, taps, owed, uneven, astray>>
  BY DEF Stores, notesUi, notesBounds
<1>2. PICK x \in chores' \cap Errand :
               /\ x.op = c.op /\ x.id = c.id /\ x.at = {"stored"} /\ x.count = Len(notes)
               /\ x.rows = c.rows /\ x.early = c.early
               /\ \A d \in chores' : d = x \/ \E e \in chores : Like(d, e) /\ (d.at # {} => d.stale)
               /\ \A e \in chores : e.at = {"stored"} => \E d \in chores' : Like(d, e)
  BY <1>1, StoredErrands
<1>3. /\ Len(notes) \in Nat /\ NoteIds' = NoteIds /\ Len(notes') = Len(notes)
      /\ \A n \in NoteIds : n \in Nat /\ n <= Len(notes)
  BY <1>1, NotesThere DEF NotesInv, NoteIds
<1>4. \A n \in NoteIds :
          /\ notes'[n].of = notes[n].of
          /\ notes'[n].read <=> \/ notes[n].read
                                \/ c.op = "read" /\ n = c.id
                                \/ c.op = "all"
          /\ notes'[n].kept <=> notes[n].kept /\ ~(c.op = "delete" /\ n = c.id)
  BY <1>1
<1>5. EventsTold' /\ inbox' \in Seq(Deed) /\ happened' \in Nat /\ (Saving' <=> Saving)
  <2>1. \A n \in NoteIds : notes'[n].of = notes[n].of
    BY <1>4
  <2> QED BY <1>1, <1>3, <2>1, ToldStays
<1>6. ToCome' = ToCome
  BY <1>1, <1>3, <1>5 DEF ToCome, Saving
<1>7. /\ \A n : Latest(n)' <=> Latest(n)
      /\ UnreadNotes' \subseteq UnreadNotes /\ KeptNotes' \subseteq KeptNotes
      /\ c.op \in {"read", "delete"} => \A n \in UnreadNotes : n = c.id \/ n \in UnreadNotes'
  <2>1. \A n : Latest(n)' <=> Latest(n)
    BY <1>3, <1>6 DEF Latest
  <2>2. UnreadNotes' \subseteq UnreadNotes
    BY <1>3, <1>4 DEF UnreadNotes
  <2>3. KeptNotes' \subseteq KeptNotes
    BY <1>3, <1>4 DEF KeptNotes
  <2>4. c.op \in {"read", "delete"} => \A n \in UnreadNotes : n = c.id \/ n \in UnreadNotes'
    BY <1>3, <1>4 DEF UnreadNotes
  <2> QED BY <2>1, <2>2, <2>3, <2>4
<1>8. c \in Errand /\ ErrandFits(c)
  BY DEF NotesInv, NotesType, NotesFit
<1>9. chores' \subseteq Errand
  BY <1>2 DEF Like
<1>10. NotesType'
  BY <1>1, <1>5, <1>9 DEF NotesInv, NotesType
<1>11. NotesFit'
  <2>1. ErrandFits(x)'
    BY <1>2, <1>3, <1>8 DEF ErrandFits
  <2>2. ASSUME NEW d \in chores', NEW e \in chores, Like(d, e) PROVE ErrandFits(d)'
    <3>1. ErrandFits(e)
      BY DEF NotesInv, NotesFit
    <3> QED BY <1>3, <2>2, <3>1 DEF Like, ErrandFits
  <2>3. \A d \in chores' : ErrandFits(d)'
    BY <1>2, <2>1, <2>2
  <2> QED BY <1>1, <1>3, <2>3 DEF NotesInv, NotesFit
<1>12. TopicSound'
  BY <1>1, <1>3, <1>5 DEF NotesInv, TopicSound
<1>13. \A op : \A d \in StoredAs(op)' : d = x \/ \E e \in StoredAs(op) : Like(d, e)
  BY <1>2 DEF StoredAs, Like
<1>14. StoredSound'
  <2>1. ASSUME NEW d \in StoredAs("read")' PROVE notes'[d.id].read
    <3>1. CASE d = x
      BY <1>2, <1>4, <1>8, <3>1 DEF StoredAs, ErrandFits
    <3>2. CASE \E e \in StoredAs("read") : Like(d, e)
      <4>1. PICK e \in StoredAs("read") : Like(d, e)
        BY <3>2
      <4>2. notes[e.id].read /\ e.id \in NoteIds /\ d.id = e.id
        BY <4>1 DEF NotesInv, StoredSound, StoredAs, NotesFit, ErrandFits, Like
      <4> QED BY <1>4, <4>2
    <3> QED BY <1>13, <3>1, <3>2
  <2>2. ASSUME NEW d \in StoredAs("delete")' PROVE ~notes'[d.id].kept
    <3>1. CASE d = x
      BY <1>2, <1>4, <1>8, <3>1 DEF StoredAs, ErrandFits
    <3>2. CASE \E e \in StoredAs("delete") : Like(d, e)
      <4>1. PICK e \in StoredAs("delete") : Like(d, e)
        BY <3>2
      <4>2. ~notes[e.id].kept /\ e.id \in NoteIds /\ d.id = e.id
        BY <4>1 DEF NotesInv, StoredSound, StoredAs, NotesFit, ErrandFits, Like
      <4> QED BY <1>4, <4>2
    <3> QED BY <1>13, <3>1, <3>2
  <2>3. ASSUME NEW d \in StoredAs("all")', NEW n \in NoteIds, n <= d.count PROVE notes'[n].read
    <3>1. CASE d = x
      BY <1>2, <1>4, <3>1 DEF StoredAs
    <3>2. CASE \E e \in StoredAs("all") : Like(d, e)
      <4>1. PICK e \in StoredAs("all") : Like(d, e)
        BY <3>2
      <4>2. n <= e.count
        BY <2>3, <4>1 DEF Like
      <4>3. notes[n].read
        BY <4>1, <4>2 DEF NotesInv, StoredSound
      <4> QED BY <1>4, <4>3
    <3> QED BY <1>13, <3>1, <3>2
  <2> QED BY <1>3, <2>1, <2>2, <2>3 DEF StoredSound
<1>15. \A d \in chores' : d.op \in {"refresh", "badge"} /\ d.at # {} => d.stale
  BY <1>2
<1>16. AnswersSound' /\ BadgeSound'
  BY <1>15 DEF AnswersSound, CountSound, ListSound, BadgeSound
<1>17. /\ \A n : (\E d \in StoredAs("read") : d.id = n) => \E d \in StoredAs("read")' : d.id = n
       /\ \A n : (\E d \in StoredAs("delete") : d.id = n) => \E d \in StoredAs("delete")' : d.id = n
       /\ \A n : (\E d \in StoredAs("all") : n <= d.count) => \E d \in StoredAs("all")' : n <= d.count
       /\ StoredAs("all")' = {} => StoredAs("all") = {}
       /\ (\A d \in StoredAs("read")' \cup StoredAs("delete")' : d.id \in Rows(items))
              => (\A d \in StoredAs("read") \cup StoredAs("delete") : d.id \in Rows(items))
  BY <1>2, LikeRows
<1>18. x \in StoredAs(c.op)'
  BY <1>2 DEF StoredAs
<1>19. ASSUME Calm' PROVE RowsSound' /\ (StoredAs("all")' = {} => unread' = Cardinality(Due'))
  <2>1. Calm
    BY <1>1, <1>17, <1>19 DEF Calm
  <2>2. RowsSound /\ (StoredAs("all") = {} => unread = Cardinality(Due))
    BY <2>1 DEF NotesInv, StoreSound
  <2>3. ASSUME NEW row \in Els(items)
        PROVE  /\ row.read => notes'[row.id].read
               /\ notes'[row.id].read => \/ row.read
                                         \/ \E d \in StoredAs("read")' : d.id = row.id
                                         \/ \E d \in StoredAs("all")' : row.id <= d.count
               /\ notes'[row.id].kept \/ \E d \in StoredAs("delete")' : d.id = row.id
    <3>1. /\ row.read => notes[row.id].read
          /\ notes[row.id].read => \/ row.read
                                   \/ \E d \in StoredAs("read") : d.id = row.id
                                   \/ \E d \in StoredAs("all") : row.id <= d.count
          /\ notes[row.id].kept \/ \E d \in StoredAs("delete") : d.id = row.id
      BY <2>2 DEF RowsSound
    <3>2. row.id \in NoteIds /\ row.id <= Len(notes)
      BY <1>3, StoreThere
    <3>3. c.op = "read" /\ row.id = c.id => \E d \in StoredAs("read")' : d.id = row.id
      BY <1>2, <1>18
    <3>4. c.op = "all" => \E d \in StoredAs("all")' : row.id <= d.count
      BY <1>2, <1>18, <3>2
    <3>5. c.op = "delete" /\ row.id = c.id => \E d \in StoredAs("delete")' : d.id = row.id
      BY <1>2, <1>18
    <3>6. row.read => notes'[row.id].read
      BY <1>4, <3>1, <3>2
    <3>7. notes'[row.id].read => \/ row.read
                                 \/ \E d \in StoredAs("read")' : d.id = row.id
                                 \/ \E d \in StoredAs("all")' : row.id <= d.count
      BY <1>4, <1>17, <3>1, <3>2, <3>3, <3>4
    <3>8. notes'[row.id].kept \/ \E d \in StoredAs("delete")' : d.id = row.id
      BY <1>4, <1>17, <3>1, <3>2, <3>5
    <3> QED BY <3>6, <3>7, <3>8
  <2>4. RowsSound'
    <3>1. /\ Descends(items)
          /\ \A n \in KeptNotes' \ Rows(items) : Beneath(n, items) \/ (n \in ToCome /\ Above(n, items))
          /\ \A n \in (UnreadNotes' \cap ToCome) \ Rows(items) : Latest(n) /\ Above(n, items)
      BY <1>7, <2>2 DEF RowsSound
    <3> QED BY <1>1, <1>6, <1>7, <2>3, <3>1 DEF RowsSound
  <2>5. ASSUME StoredAs("all")' = {} PROVE unread' = Cardinality(Due')
    <3>1. c.op \in {"read", "delete"} /\ unread = Cardinality(Due)
      BY <1>17, <1>18, <2>2, <2>5
    <3>2. c.id \in Rows(items)
      BY <1>1, <1>2, <1>18, <1>19, <3>1 DEF Calm
    <3>3. c.id \in UnreadNotes => ShownUnread(c.id)
      <4>1. PICK row \in Els(items) : row.id = c.id
        BY <3>2, StoreThere
      <4>2. row \in NoteRow /\ (c.id \in UnreadNotes => ~row.read)
        BY <2>2, <4>1, StoreThere DEF RowsSound, UnreadNotes
      <4> QED BY <4>1, <4>2, UnreadShown, ShownHeld
    <3>4. \A n : ShownUnread(n)' <=> ShownUnread(n)
      BY <1>1 DEF ShownUnread
    <3>5. UnreadNotes \subseteq NoteIds
      BY DEF UnreadNotes
    <3>6. Due' = Due
      BY <1>3, <1>6, <1>7, <3>1, <3>3, <3>4, <3>5 DEF Due
    <3> QED BY <1>1, <3>1, <3>6
  <2> QED BY <2>4, <2>5
<1>20. StoreSound'
  BY <1>19 DEF StoreSound
<1> QED BY <1>5, <1>10, <1>11, <1>12, <1>14, <1>16, <1>20 DEF NotesInv

\* The notes once one of them, or all, have been read, or one was deleted
LEMMA ChoreStored ==
    ASSUME NotesInv, NEW c \in chores,
           \/ StoreRead(c) /\ notes[c.id].kept
           \/ StoreAllRead(c)
           \/ StoreDelete(c) /\ notes[c.id].kept
    PROVE  NotesInv'
<1>1. notes \in Seq(Note) /\ Len(notes) \in Nat /\ NoteIds = 1..Len(notes)
  BY NotesThere DEF NotesInv, NotesType, NoteIds
<1>2. ErrandFits(c)
  BY DEF NotesInv, NotesFit
<1>3. CASE StoreRead(c) /\ notes[c.id].kept
  <2>1. c.op = "read" /\ c.at = {} /\ c.id \in NoteIds
    BY <1>2, <1>3 DEF StoreRead, ErrandFits
  <2>2. PICK x : x = [notes[c.id] EXCEPT !.read = TRUE]
    OBVIOUS
  <2>3. notes[c.id] \in Note
    BY <1>1, <2>1
  <2>4. x \in Note /\ x.read = TRUE /\ x.of = notes[c.id].of /\ x.kept = notes[c.id].kept
    BY <2>2, <2>3 DEF Note
  <2>5. PICK changed : changed = [notes EXCEPT ![c.id] = x]
    OBVIOUS
  <2>6. Stores(c, changed)
    <3>1. [notes EXCEPT ![c.id].read = TRUE] = changed
      BY <2>2, <2>5
    <3> QED BY <1>3, <3>1 DEF StoreRead
  <2>7. changed \in Seq(Note) /\ Len(changed) = Len(notes)
    BY <1>1, <2>1, <2>4, <2>5
  <2>8. \A n \in NoteIds : changed[n] = IF n = c.id THEN x ELSE notes[n]
    BY <1>1, <2>1, <2>5
  <2>9. \A n \in NoteIds :
            /\ changed[n].of = notes[n].of
            /\ changed[n].read <=> \/ notes[n].read
                                   \/ c.op = "read" /\ n = c.id
                                   \/ c.op = "all"
            /\ changed[n].kept <=> notes[n].kept /\ ~(c.op = "delete" /\ n = c.id)
    BY <2>1, <2>4, <2>8
  <2> QED BY <2>1, <2>6, <2>7, <2>9, StoresInv
<1>4. CASE StoreDelete(c) /\ notes[c.id].kept
  <2>1. c.op = "delete" /\ c.at = {} /\ c.id \in NoteIds
    BY <1>2, <1>4 DEF StoreDelete, ErrandFits
  <2>2. PICK x : x = [notes[c.id] EXCEPT !.kept = FALSE]
    OBVIOUS
  <2>3. notes[c.id] \in Note
    BY <1>1, <2>1
  <2>4. x \in Note /\ x.kept = FALSE /\ x.of = notes[c.id].of /\ x.read = notes[c.id].read
    BY <2>2, <2>3 DEF Note
  <2>5. PICK changed : changed = [notes EXCEPT ![c.id] = x]
    OBVIOUS
  <2>6. Stores(c, changed)
    <3>1. [notes EXCEPT ![c.id].kept = FALSE] = changed
      BY <2>2, <2>5
    <3> QED BY <1>4, <3>1 DEF StoreDelete
  <2>7. changed \in Seq(Note) /\ Len(changed) = Len(notes)
    BY <1>1, <2>1, <2>4, <2>5
  <2>8. \A n \in NoteIds : changed[n] = IF n = c.id THEN x ELSE notes[n]
    BY <1>1, <2>1, <2>5
  <2>9. \A n \in NoteIds :
            /\ changed[n].of = notes[n].of
            /\ changed[n].read <=> \/ notes[n].read
                                   \/ c.op = "read" /\ n = c.id
                                   \/ c.op = "all"
            /\ changed[n].kept <=> notes[n].kept /\ ~(c.op = "delete" /\ n = c.id)
    BY <2>1, <2>4, <2>8
  <2> QED BY <2>1, <2>6, <2>7, <2>9, StoresInv
<1>5. CASE StoreAllRead(c)
  <2>1. c.op = "all" /\ c.at = {}
    BY <1>5 DEF StoreAllRead
  <2>2. PICK changed : changed = [n \in NoteIds |-> [notes[n] EXCEPT !.read = TRUE]]
    OBVIOUS
  <2>3. Stores(c, changed)
    BY <1>5, <2>2 DEF StoreAllRead
  <2>4. ASSUME NEW n \in NoteIds
        PROVE  /\ changed[n] \in Note /\ changed[n].of = notes[n].of /\ changed[n].read = TRUE
               /\ changed[n].kept = notes[n].kept
    <3>1. notes[n] \in Note
      BY <1>1
    <3>2. changed[n] = [notes[n] EXCEPT !.read = TRUE]
      BY <2>2
    <3> QED BY <3>1, <3>2 DEF Note
  <2>5. changed \in Seq(Note) /\ Len(changed) = Len(notes)
    <3>1. changed = [n \in 1..Len(notes) |-> changed[n]]
      BY <1>1, <2>2
    <3>2. \A n \in 1..Len(notes) : changed[n] \in Note
      BY <1>1, <2>4
    <3> QED BY <1>1, <3>1, <3>2
  <2>6. \A n \in NoteIds :
            /\ changed[n].of = notes[n].of
            /\ changed[n].read <=> \/ notes[n].read
                                   \/ c.op = "read" /\ n = c.id
                                   \/ c.op = "all"
            /\ changed[n].kept <=> notes[n].kept /\ ~(c.op = "delete" /\ n = c.id)
    BY <2>1, <2>4
  <2> QED BY <2>1, <2>3, <2>5, <2>6, StoresInv
<1> QED BY <1>3, <1>4, <1>5

-----------------------------------------------------------------------------
(* Notices: the theorem *)

\* Nothing has happened at the start.
LEMMA NotesStart ==
    ASSUME NEW events \in Nat, NEW tapped \in Nat, NEW failed \in Nat,
           NoticesStart(events, tapped, failed)
    PROVE  NotesInv
<1>1. /\ inbox = <<>> /\ notes = <<>> /\ topic = <<>> /\ items = <<>> /\ unread = 0
      /\ panel = [open |-> FALSE, loading |-> FALSE, rows |-> <<>>]
      /\ chores = {} /\ happened = events /\ taps = tapped /\ owed = {} /\ uneven = {} /\ astray = FALSE
  BY DEF NoticesStart
<1>2. PICK none : none = <<>>
  OBVIOUS
<1>3. Len(none) = 0 /\ Els(none) = {} /\ Rows(none) = {} /\ Descends(none)
  BY <1>2 DEF Els, Rows, Descends
<1>4. NotesType
  <2>1. \A S : none \in Seq(S)
    BY <1>2
  <2>2. panel \in [open : BOOLEAN, loading : BOOLEAN, rows : Seq(NoteRow)]
    BY <1>1, <1>2, <2>1
  <2>3. inbox \in Seq(Deed) /\ notes \in Seq(Note) /\ items \in Seq(NoteRow)
        /\ topic \in Seq([id : Nat, again : BOOLEAN])
    BY <1>1, <1>2, <2>1
  <2>4. unread \in Nat /\ chores \subseteq Errand /\ happened \in Nat /\ taps \in Nat /\ astray \in BOOLEAN
    BY <1>1
  <2> QED BY <2>2, <2>3, <2>4 DEF NotesType
<1>5. NoteIds = {} /\ UnreadNotes = {} /\ ToCome = {} /\ Due = {}
  BY <1>1, <1>2, <1>3 DEF NoteIds, UnreadNotes, ToCome, Due
<1>6. NotesFit
  BY <1>1, <1>2, <1>3 DEF NotesFit
<1>7. EventsTold
  <2>1. \A nr : NotesOf(nr) = {} /\ NotedAs(nr)
    BY <1>1, <1>5 DEF NotesOf, NotedAs
  <2> QED BY <1>1, <1>2, <1>3, <1>5, <2>1 DEF EventsTold
<1>8. TopicSound
  BY <1>1, <1>2, <1>3 DEF TopicSound, Saving
<1>9. StoredSound /\ AnswersSound /\ BadgeSound
  BY <1>1 DEF StoredSound, StoredAs, AnswersSound, BadgeSound
<1>10. RowsSound
  BY <1>1, <1>2, <1>3, <1>5 DEF RowsSound, KeptNotes
<1>11. StoreSound
  BY <1>1, <1>5, <1>10, FS_EmptySet DEF StoreSound
<1> QED BY <1>4, <1>6, <1>7, <1>8, <1>9, <1>11 DEF NotesInv

\* Every step keeps what is said of the notices.
LEMMA NotesStep ==
    ASSUME NotesInv, [NoticesNext]_noticeVars
    PROVE  NotesInv'
<1>1. CASE UNCHANGED noticeVars
  <2>1. UNCHANGED <<inbox, notes, topic, items, unread, panel, chores, happened, taps, owed, uneven, astray>>
    BY <1>1 DEF noticeVars, notesDb, notesUi, notesBounds
  <2>2. (\A n \in NoteIds : notes'[n].of = notes[n].of) /\ Len(notes') = Len(notes)
    BY <2>1
  <2>3. EventsTold' /\ inbox' \in Seq(Deed) /\ (Saving' <=> Saving)
    BY <2>1, <2>2, ToldStays
  <2>4. /\ panel' \in [open : BOOLEAN, loading : BOOLEAN, rows : Seq(NoteRow)]
        /\ Rows(panel'.rows) \subseteq NoteIds /\ happened' \in Nat /\ taps' \in Nat
    BY <2>1, PanelThere
  <2>5. (\A c \in chores' : c \in chores) /\ \A c \in chores : c \in chores'
    BY <2>1
  <2> QED BY <2>1, <2>3, <2>4, <2>5, AsideStep
<1>2. CASE \E e \in Events : Happens(e)
  BY <1>2, HappensInv
<1>3. CASE TellNobody \/ SaveFails
  BY <1>3, TellsNobodyInv
<1>4. CASE SaveNote
  BY <1>4, SaveNoteInv
<1>5. CASE PublishNote
  BY <1>5, PublishNoteInv
<1>6. CASE PublishFails
  BY <1>6, PublishFailsInv
<1>7. CASE HandledAgain
  BY <1>7, HandledAgainInv
<1>8. CASE Relayed
  BY <1>8, RelayedInv
<1>9. CASE RelayedAgain
  BY <1>9, RelayedAgainInv
<1>10. CASE Cleared
  BY <1>10, ClearedInv
<1>11. CASE \/ OpenPage \/ LeavePage \/ RefreshPage \/ CountBadge \/ OpenPanel \/ ClosePanel
            \/ Connects \/ Disconnects
            \/ \E from \in {"page", "bell"} : MarkAll(from)
            \/ \E n \in NoteIds : Delete(n) \/ Activate(n, "page") \/ Activate(n, "bell")
  BY <1>11, TapsAside
<1>12. CASE \E c \in chores : ListRows(c)
  BY <1>12, ListRowsInv
<1>13. CASE \E c \in chores : CountUnread(c)
  BY <1>13, CountUnreadInv
<1>14. CASE \E c \in chores : RefreshDone(c)
  BY <1>14, RefreshDoneInv
<1>15. CASE \E c \in chores : BadgeDone(c)
  BY <1>15, BadgeDoneInv
<1>16. CASE \E c \in chores : PanelDone(c)
  BY <1>16, AnswersAside
<1>17. CASE \E c \in chores : StoreRead(c) \/ StoreAllRead(c) \/ StoreDelete(c)
  <2>1. PICK c \in chores : StoreRead(c) \/ StoreAllRead(c) \/ StoreDelete(c)
    BY <1>17
  <2>2. CASE (StoreRead(c) \/ StoreDelete(c)) /\ ~notes[c.id].kept
    BY <2>2, AnswersAside
  <2>3. CASE \/ StoreRead(c) /\ notes[c.id].kept
             \/ StoreAllRead(c)
             \/ StoreDelete(c) /\ notes[c.id].kept
    BY <2>3, ChoreStored
  <2> QED BY <2>1, <2>2, <2>3
<1>18. CASE \E c \in chores : ReadDone(c)
  BY <1>18, ReadDoneInv
<1>19. CASE \E c \in chores : AllReadDone(c)
  BY <1>19, AllReadDoneInv
<1>20. CASE \E c \in chores : DeleteDone(c)
  BY <1>20, DeleteDoneInv
<1>21. CASE \E c \in chores : ChoreFails(c)
  BY <1>21, ChoreFailsInv
<1> QED
  BY <1>1, <1>2, <1>3, <1>4, <1>5, <1>6, <1>7, <1>8, <1>9, <1>10, <1>11, <1>12, <1>13, <1>14, <1>15,
     <1>16, <1>17, <1>18, <1>19, <1>20, <1>21 DEF NoticesNext

\* Events that were handled without a failure have been told of as they are to.
LEMMA NotesTold ==
    ASSUME NotesInv
    PROVE  ToldOnce
<1>1. ASSUME NEW nr \in 1..happened, nr \notin uneven, ~(\E k \in 1..Len(inbox) : inbox[k].nr = nr)
      PROVE  Cardinality({n \in NoteIds : notes[n].of = nr}) = IF nr \in owed THEN 1 ELSE 0
  <2>1. ~(\E e \in Els(inbox) : e.nr = nr)
    BY <1>1 DEF Els
  <2>2. NotedAs(nr)
    BY <1>1, <2>1 DEF NotesInv, EventsTold
  <2>3. {n \in NoteIds : notes[n].of = nr} = NotesOf(nr)
    BY DEF NotesOf
  <2>4. CASE nr \in owed /\ \E n \in NoteIds : NotesOf(nr) = {n}
    BY <2>3, <2>4, FS_Singleton
  <2>5. CASE nr \notin owed /\ NotesOf(nr) = {}
    BY <2>3, <2>5, FS_EmptySet
  <2> QED BY <2>2, <2>4, <2>5 DEF NotedAs
<1> QED BY <1>1 DEF ToldOnce

\* Rows that descend, hold kept notes only and leave out none that is newer
\* than one of theirs are the newest notes.
LEMMA NotesAgreed ==
    ASSUME NotesInv
    PROVE  StoreAgrees
<1>1. SUFFICES ASSUME inbox = <<>>, topic = <<>>, chores = {}, ~astray
               PROVE  items = Newest(Len(items)) /\ unread = Cardinality(UnreadNotes)
  BY DEF StoreAgrees
<1>2. /\ \A op : StoredAs(op) = {}
      /\ Calm
  BY <1>1 DEF StoredAs, Calm
<1>3. RowsSound /\ unread = Cardinality(Due)
  BY <1>2 DEF NotesInv, StoreSound
<1>4. ToCome = {}
  <2>1. PICK none : none = topic
    OBVIOUS
  <2>2. Len(none) = 0
    BY <1>1, <2>1
  <2> QED BY <1>1, <2>1, <2>2 DEF ToCome
<1>5. /\ Descends(items) /\ \A n \in KeptNotes \ Rows(items) : Beneath(n, items)
      /\ \A row \in Els(items) : notes[row.id].kept /\ (notes[row.id].read <=> row.read)
  BY <1>2, <1>3, <1>4 DEF RowsSound
<1>6. Due = UnreadNotes
  <2>1. ASSUME NEW n \in NoteIds, ShownUnread(n) PROVE n \in UnreadNotes
    <3>1. PICK row \in Els(items) : row = [id |-> n, read |-> FALSE]
      BY <2>1, ShownHeld
    <3>2. row.id = n /\ row.read = FALSE
      BY <3>1
    <3> QED BY <1>5, <2>1, <3>2 DEF UnreadNotes
  <2> QED BY <1>4, <2>1 DEF Due
<1>7. PICK m \in Nat : m = Len(items)
  BY StoreThere
<1>8. /\ items \in Seq(NoteRow) /\ items = [k \in 1..m |-> items[k]]
      /\ \A k \in 1..m : items[k] \in NoteRow /\ items[k] \in Els(items)
  <2>1. items \in Seq(NoteRow)
    BY StoreThere
  <2>2. items = [k \in 1..m |-> items[k]] /\ \A k \in 1..m : items[k] \in NoteRow
    BY <1>7, <2>1
  <2> QED BY <1>7, <2>1, <2>2 DEF Els
<1>9. KeptNotes \in SUBSET Int /\ IsFiniteSet(KeptNotes) /\ KeptNotes \subseteq NoteIds
  BY NotesThere DEF NotesInv
<1>10. PICK f : f = [k \in 1..m |-> items[k].id]
  OBVIOUS
<1>11. f \in [1..m -> KeptNotes] /\ \A k \in 1..m : f[k] = items[k].id
  <2>1. \A row \in Els(items) : row.id \in KeptNotes
    BY <1>5, StoreThere DEF KeptNotes
  <2> QED BY <1>8, <1>10, <2>1
<1>12. \A i, j \in 1..m : i < j => f[j] < f[i]
  <2>1. ASSUME NEW i \in 1..m, NEW j \in 1..m, i < j PROVE f[j] < f[i]
    <3>1. items[i].id > items[j].id
      BY <1>5, <1>7, <2>1 DEF Descends
    <3>2. f[i] \in Int /\ f[j] \in Int
      BY <1>9, <1>11
    <3> QED BY <1>11, <3>1, <3>2
  <2> QED BY <2>1
<1>13. \A x \in KeptNotes : (\E k \in 1..m : f[k] = x) \/ \A k \in 1..m : x < f[k]
  <2>1. ASSUME NEW x \in KeptNotes PROVE (\E k \in 1..m : f[k] = x) \/ \A k \in 1..m : x < f[k]
    <3>1. CASE x \in Rows(items)
      BY <1>7, <1>11, <3>1 DEF Rows
    <3>2. CASE x \notin Rows(items)
      BY <1>5, <1>8, <1>11, <3>2 DEF Beneath
    <3> QED BY <3>1, <3>2
  <2> QED BY <2>1
<1>14. PICK down : down = Descending(KeptNotes)
  OBVIOUS
<1>15. m <= Cardinality(KeptNotes) /\ \A k \in 1..m : f[k] = down[k]
  BY <1>9, <1>11, <1>12, <1>13, <1>14, TopSorted
<1>16. Len(down) = Cardinality(KeptNotes) /\ Cardinality(KeptNotes) \in Nat
  BY <1>9, <1>14, DescendingList, FS_CardinalityType
<1>17. (IF Len(down) < m THEN Len(down) ELSE m) = m
  BY <1>15, <1>16
<1>18. Newest(m) = [k \in 1..m |-> [id |-> down[k], read |-> notes[down[k]].read]]
  <2>1. {n \in NoteIds : notes[n].kept} = KeptNotes
    BY DEF KeptNotes
  <2> QED BY <1>14, <1>17, <2>1 DEF Newest
<1>19. ASSUME NEW k \in 1..m PROVE items[k] = [id |-> down[k], read |-> notes[down[k]].read]
  <2>1. items[k] \in NoteRow /\ items[k].id = down[k]
    BY <1>8, <1>11, <1>15
  <2>2. notes[items[k].id] \in Note
    <3>1. items[k].id \in NoteIds
      BY <1>8, StoreThere
    <3> QED BY <3>1, NotesThere DEF NotesInv
  <2>3. items[k].read = notes[items[k].id].read
    BY <1>5, <1>8, <2>1, <2>2 DEF NoteRow, Note
  <2>4. items[k] = [id |-> items[k].id, read |-> items[k].read]
    BY <2>1 DEF NoteRow
  <2> QED BY <2>1, <2>3, <2>4
<1>20. items = Newest(m)
  BY <1>8, <1>18, <1>19
<1> QED BY <1>3, <1>6, <1>7, <1>20

\* For any number of events, notes, rows and failures: an event the user is
\* to be told of is told once, and once nothing is under way the rows and the
\* badge are what the service holds, but where a failure or a crossing that
\* the model marks has touched them.
THEOREM NoticesSettle ==
    ASSUME NEW events \in Nat, NEW tapped \in Nat, NEW failed \in Nat
    PROVE  NoticesStart(events, tapped, failed) /\ [][NoticesNext]_noticeVars => []NoticesAgree
<1>1. NoticesStart(events, tapped, failed) => NotesInv
  BY NotesStart
<1>2. NotesInv /\ [NoticesNext]_noticeVars => NotesInv'
  BY NotesStep
<1>3. NotesInv => NoticesAgree
  BY NotesTold, NotesAgreed DEF NoticesAgree
<1> QED BY <1>1, <1>2, <1>3, PTL

=============================================================================
