------------------------------ MODULE Sessions ------------------------------
(***************************************************************************)
(* One user's windows of the page and the session they share: the refresh  *)
(* token in a cookie, the access token in the local storage, both replaced *)
(* together by POST /auth/refresh (axios.ts, auth-service.service.ts).     *)
(* The n-th refresh token and the n-th access token are granted together.  *)
(***************************************************************************)
EXTENDS Integers, FiniteSets

CONSTANTS
    Windows,        \* windows of one browser
    MaxActs,        \* bound on what the user does and on what expires
    MaxCuts         \* bound on failures

\* "gone" stands for a window that has unloaded.
ASSUME SessionsAssumption == {MaxActs, MaxCuts} \subseteq Nat /\ "gone" \notin Windows

VARIABLES
    sessions,   \* refresh tokens stored
    granted,    \* how many were
    lapsed,     \* access tokens up to this one have expired
    jar,        \* the cookie, 0 for none
    key,        \* the access token in the local storage, 0 for none
    signed,     \* isAuthenticated, of each window
    fetches,    \* API calls under way
    renewals,   \* refresh requests: refreshPromise of each window
    leaving,    \* sign-out requests
    acts, cuts, \* auxiliary: at most MaxActs and MaxCuts
    evicted,    \* auxiliary: windows the interceptor sent to /login
    signedOut,  \* auxiliary: whether the last thing done was to sign out
    ended,      \* auxiliary: whether the session was ended, lost or cut short
    met         \* auxiliary: whether a renewal met another or a sign-out

tokensHeld == <<sessions, granted, lapsed>>
browser == <<jar, key, signed>>
underWay == <<fetches, renewals, leaving>>
sessionBounds == <<acts, cuts>>
sessionAux == <<evicted, signedOut, ended, met>>
sessionVars == <<tokensHeld, browser, underWay, sessionBounds, sessionAux>>

\* The windows on are signed in; some of the bounds is spent.
SessionsStart(on, done, failed) ==
    /\ sessions = {1} /\ granted = 1 /\ lapsed = 0
    /\ jar = 1 /\ key = 1 /\ signed = [w \in Windows |-> w \in on]
    /\ fetches = {} /\ renewals = {} /\ leaving = {}
    /\ acts = done /\ cuts = failed
    /\ evicted = {} /\ signedOut = FALSE /\ ended = FALSE /\ met = FALSE

Act == acts < MaxActs /\ acts' = acts + 1 /\ UNCHANGED cuts
Cut == cuts < MaxCuts /\ cuts' = cuts + 1 /\ UNCHANGED acts

-----------------------------------------------------------------------------
(* Calls and the interceptor *)

ApiCall(w) ==
    /\ Act
    /\ signed[w]
    /\ fetches' = fetches \cup {[win |-> w, nr |-> acts, token |-> key, at |-> "sent", again |-> FALSE]}
    /\ UNCHANGED <<tokensHeld, browser, renewals, leaving, sessionAux>>

Good(f) == f.token > lapsed

ApiAnswered(f) ==
    /\ f.at = "sent" /\ (Good(f) \/ f.again)
    /\ fetches' = fetches \ {f}
    /\ UNCHANGED <<tokensHeld, browser, renewals, leaving, sessionBounds, sessionAux>>

RenewalsOf(w) == {r \in renewals : r.win = w}

\* Mistake: every call renews for itself.
RenewingEach(w) ==
    /\ renewals' = renewals \cup {[win |-> w, of |-> jar, at |-> "sent", new |-> 0]}
    /\ met' = (met \/ renewals \ RenewalsOf(w) # {} \/ leaving # {})

\* refreshAccessToken: the calls of a window wait for one refresh request,
\* which carries the cookie there is.
Renewing(w) ==
    IF RenewalsOf(w) # {} THEN UNCHANGED <<renewals, met>>
    ELSE /\ renewals' = renewals \cup {[win |-> w, of |-> jar, at |-> "sent", new |-> 0]}
         /\ met' = (met \/ renewals # {} \/ leaving # {})

\* 401, once per call
Unauthorized(f) ==
    /\ f.at = "sent" /\ ~Good(f) /\ ~f.again
    /\ fetches' = (fetches \ {f}) \cup {[f EXCEPT !.at = "waiting"]}
    /\ Renewing(f.win)
    /\ UNCHANGED <<tokensHeld, browser, leaving, sessionBounds, evicted, signedOut, ended>>

Goes(r, changed) == renewals' = (renewals \ {r}) \cup {changed}

\* refresh: the token is found, deleted, and replaced.
RenewFind(r) ==
    /\ r.at = "sent"
    /\ Goes(r, [r EXCEPT !.at = IF r.of \in sessions THEN "found" ELSE "failed"])
    /\ UNCHANGED <<tokensHeld, browser, fetches, leaving, sessionBounds, sessionAux>>

RenewDelete(r) ==
    /\ r.at = "found"
    /\ Goes(r, [r EXCEPT !.at = IF r.of \in sessions THEN "deleted" ELSE "failed"])
    /\ sessions' = sessions \ {r.of}
    /\ UNCHANGED <<granted, lapsed, browser, fetches, leaving, sessionBounds, sessionAux>>

RenewCreate(r) ==
    /\ r.at = "deleted"
    /\ granted' = granted + 1 /\ sessions' = sessions \cup {granted'}
    /\ Goes(r, [r EXCEPT !.at = "granted", !.new = granted'])
    /\ UNCHANGED <<lapsed, browser, fetches, leaving, sessionBounds, sessionAux>>

\* The cookie and the access token are kept, and the calls sent again.
RenewDone(r) ==
    /\ r.at = "granted" /\ r.win \in Windows
    /\ jar' = r.new /\ key' = r.new
    /\ fetches' = {IF f.win = r.win /\ f.at = "waiting"
                   THEN [f EXCEPT !.at = "sent", !.again = TRUE, !.token = r.new] ELSE f : f \in fetches}
    /\ renewals' = renewals \ {r}
    /\ UNCHANGED <<tokensHeld, signed, leaving, sessionBounds, sessionAux>>

\* A window that unloads drops its calls; the service goes on with a refresh,
\* whose cookie never arrives.
Unloaded(w) ==
    /\ fetches' = {f \in fetches : f.win # w}
    /\ renewals' = {IF r.win = w THEN [r EXCEPT !.win = "gone"] ELSE r :
                       r \in {q \in renewals : ~(q.win = w /\ q.at \in {"failed", "granted"})}}
    /\ leaving' = {l \in leaving : l.win # w}

\* No new token: the storage is cleared and the window goes to /login.
RenewFailed(r) ==
    /\ r.at = "failed" /\ r.win \in Windows
    /\ key' = 0 /\ signed' = [signed EXCEPT ![r.win] = FALSE]
    /\ evicted' = evicted \cup {r.win}
    /\ Unloaded(r.win)
    /\ UNCHANGED <<tokensHeld, jar, sessionBounds, signedOut, ended, met>>

\* Nobody waits for the answer.
RenewForgotten(r) ==
    /\ r.at \in {"failed", "granted"} /\ r.win = "gone"
    /\ renewals' = renewals \ {r}
    /\ UNCHANGED <<tokensHeld, browser, fetches, leaving, sessionBounds, sessionAux>>

\* The request, a query of it or its answer fails.
RenewCut(r) ==
    /\ Cut
    /\ r.at # "failed" /\ r.win \in Windows
    /\ Goes(r, [r EXCEPT !.at = "failed"])
    /\ ended' = TRUE
    /\ UNCHANGED <<tokensHeld, browser, fetches, leaving, evicted, signedOut, met>>

-----------------------------------------------------------------------------
(* Windows, signing in and out *)

\* readStoredSession, when a window is opened or loaded again
Load(w) ==
    /\ Act
    /\ signed' = [signed EXCEPT ![w] = key # 0]
    /\ Unloaded(w)
    /\ ended' = (ended \/ RenewalsOf(w) # {} \/ \E l \in leaving : l.win = w)
    /\ UNCHANGED <<tokensHeld, jar, key, evicted, signedOut, met>>

\* signin and setAuth
SignIn(w) ==
    /\ Act
    /\ ~signed[w]
    /\ granted' = granted + 1 /\ sessions' = sessions \cup {granted'}
    /\ jar' = granted' /\ key' = granted'
    /\ signed' = [signed EXCEPT ![w] = TRUE]
    /\ signedOut' = FALSE /\ ended' = FALSE /\ evicted' = {}
    /\ met' = (renewals # {} \/ leaving # {})
    /\ UNCHANGED <<lapsed, underWay>>

SignOut(w) ==
    /\ Act
    /\ signed[w] /\ \A l \in leaving : l.win # w
    /\ leaving' = leaving \cup {[win |-> w, of |-> jar, at |-> "sent"]}
    /\ met' = (met \/ renewals # {})
    /\ UNCHANGED <<tokensHeld, browser, fetches, renewals, evicted, signedOut, ended>>

\* signout: the cookie is cleared unless the token is gone already.
SignoutDeletes(l) ==
    /\ l.at = "sent"
    /\ leaving' = (leaving \ {l}) \cup {[l EXCEPT !.at = "answered"]}
    /\ sessions' = sessions \ {l.of}
    /\ jar' = IF l.of \in sessions THEN 0 ELSE jar
    /\ ended' = TRUE
    /\ UNCHANGED <<granted, lapsed, key, signed, fetches, renewals, sessionBounds, evicted, signedOut, met>>

\* It fails: what it had to revoke stays.
SignoutFails(l) ==
    /\ Cut
    /\ l.at = "sent"
    /\ leaving' = (leaving \ {l}) \cup {[l EXCEPT !.at = "answered"]}
    /\ met' = TRUE /\ ended' = TRUE
    /\ UNCHANGED <<tokensHeld, browser, fetches, renewals, evicted, signedOut>>

\* logout, whatever the answer
SignedOut(l) ==
    /\ l.at = "answered"
    /\ leaving' = leaving \ {l}
    /\ key' = 0 /\ signed' = [signed EXCEPT ![l.win] = FALSE]
    /\ signedOut' = TRUE
    /\ UNCHANGED <<tokensHeld, jar, fetches, renewals, sessionBounds, evicted, ended, met>>

\* Access tokens are short-lived.
Lapses ==
    /\ Act
    /\ lapsed' = granted
    /\ UNCHANGED <<sessions, granted, browser, underWay, sessionAux>>

\* The refresh tokens expire, or are revoked with the account's standing.
SessionEnds ==
    /\ Cut
    /\ sessions # {}
    /\ sessions' = {} /\ ended' = TRUE
    /\ UNCHANGED <<granted, lapsed, browser, underWay, evicted, signedOut, met>>

SessionsNext ==
    \/ \E w \in Windows : ApiCall(w) \/ Load(w) \/ SignIn(w) \/ SignOut(w)
    \/ \E f \in fetches : ApiAnswered(f) \/ Unauthorized(f)
    \/ \E r \in renewals :
         \/ RenewFind(r) \/ RenewDelete(r) \/ RenewCreate(r) \/ RenewDone(r)
         \/ RenewFailed(r) \/ RenewForgotten(r) \/ RenewCut(r)
    \/ \E l \in leaving : SignoutDeletes(l) \/ SignoutFails(l) \/ SignedOut(l)
    \/ Lapses \/ SessionEnds

-----------------------------------------------------------------------------
(* Properties *)

Idle == fetches = {} /\ renewals = {} /\ leaving = {}

\* Nobody is sent to /login while the session lasts, however many calls find
\* the access token expired, unless two windows renew it at once.
NobodyEvicted == ended \/ met \/ evicted = {}

\* A session that is not ended can be renewed with the cookie.
Renewable == Idle /\ ~ended /\ ~met => jar \in sessions

\* Once signed out the browser holds nothing that opens the session again.
StaysOut == Idle /\ signedOut /\ ~met => key = 0 /\ jar \notin sessions

SessionsKept == NobodyEvicted /\ Renewable /\ StaysOut
=============================================================================
