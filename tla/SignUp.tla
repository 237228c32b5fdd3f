------------------------------- MODULE SignUp -------------------------------
(***************************************************************************)
(* One person's way in, from one or more windows: the account and the code *)
(* that verifies its address (auth-service.service.ts), the profile that   *)
(* follows, and the pages that lead from one to the next.  Each request is *)
(* a few queries, between which those of another window may come.          *)
(***************************************************************************)
EXTENDS Integers, Sequences, FiniteSets

CONSTANTS
    Screens,        \* windows of the person
    MaxCodes,       \* codes ever made
    MaxForms,       \* bound on what the person submits
    MaxMishaps      \* bound on failures, and on codes that expire

ASSUME SignUpAssumption == {MaxCodes, MaxForms, MaxMishaps} \subseteq Nat

VARIABLES
    account,    \* the user's row: made, verified, linked; and the profile
    code,       \* the one-time code stored: its number, 0 for none; expired
    codes,      \* how many were made
    outbox,     \* auth.user_created, the first being mailed
    received,   \* codes the person was mailed
    at,         \* the route of each window
    signedIn,   \* isAuthenticated, of each window
    asking,     \* requests under way
    forms, mishaps, \* auxiliary: at most MaxForms and MaxMishaps
    upset,      \* auxiliary: whether a failure or a crossing lost the code
    tardy,      \* auxiliary: whether a code was made for a verified address
    unguarded   \* auxiliary: whether a profile could not be looked up

accounts == <<account, code, codes, outbox, received>>
routes == <<at, signedIn>>
formBounds == <<forms, mishaps>>
signUpAux == <<upset, tardy, unguarded>>
signUpVars == <<accounts, routes, asking, formBounds, signUpAux>>

ResetLink == 0  \* among what is mailed
NoCode == [nr |-> 0, expired |-> FALSE]

\* Windows at the sign-up form, or at the forgotten password of an account
\* already verified
SignUpStart(verified, done, failed) ==
    /\ account = [made |-> verified, verified |-> verified, linked |-> FALSE, profile |-> FALSE]
    /\ code = NoCode /\ codes = 0 /\ outbox = <<>> /\ received = {}
    /\ at = [w \in Screens |-> IF verified THEN "forgot" ELSE "register"]
    /\ signedIn = [w \in Screens |-> FALSE]
    /\ asking = {}
    /\ forms = done /\ mishaps = failed
    /\ upset = FALSE /\ tardy = FALSE /\ unguarded = FALSE

Submit == forms < MaxForms /\ forms' = forms + 1 /\ UNCHANGED mishaps
Mishap == mishaps < MaxMishaps /\ mishaps' = mishaps + 1 /\ UNCHANGED forms

-----------------------------------------------------------------------------
(* The pages *)

Asks(w, op, nr) == [win |-> w, op |-> op, step |-> "asked", nr |-> nr, seen |-> 0]

\* The button of a form is disabled while its request is under way.
Loading(w, ops) == \E a \in asking : a.win = w /\ a.op \in ops

Sends(w, op, nr, page) ==
    /\ Submit
    /\ at[w] = page /\ ~Loading(w, {op})
    /\ asking' = asking \cup {Asks(w, op, nr)}
    /\ UNCHANGED <<accounts, routes, signUpAux>>

Register(w) == Sends(w, "signup", 0, "register")

\* The person types a code they were mailed; one that is none fails alike.
Verify(w, nr) == nr # ResetLink /\ Sends(w, "verify", nr, "verify")

Resend(w) == Sends(w, "resend", 0, "verify")

Login(w) == Sends(w, "signin", 0, "login")

\* The provider vouches for the address and comes back with a token; the
\* window has nothing else under way.
OAuthLogin(w) ==
    /\ at[w] \in {"login", "register"} /\ \A a \in asking : a.win # w
    /\ Sends(w, "oauth", 0, at[w])

Forgot(w) == Sends(w, "forgot", 0, "forgot")

ResetPassword(w) == Sends(w, "reset", 0, "reset")

\* OnboardPage shows its form once it has looked for a profile.
Onboard(w) == ~Loading(w, {"look"}) /\ Sends(w, "onboard", 0, "onboard")

\* Who is signed in is sent on from the login page, and meets
\* RequireUserProfile before the home page; who is not can neither be at home
\* nor onboard.
Landing(page, on) ==
    CASE page \in {"home", "login"} /\ on -> "entry"
      [] page \in {"home", "onboard"} /\ ~on -> "login"
      [] OTHER -> page

\* A page that is left cancels its look-up of the profile, and one that needs
\* the profile looks it up anew; other is what else is under way.
Enters(w, page, on, other) ==
    LET to == Landing(page, on)
        stays == to = at[w] \/ (to = "entry" /\ at[w] = "home" /\ signedIn[w])
        kept == {a \in other : ~(a.win = w /\ a.op \in {"guard", "look"})}
    IN
    /\ at' = IF stays THEN at ELSE [at EXCEPT ![w] = to]
    /\ asking' = CASE stays -> other
                   [] ~stays /\ to = "entry" -> kept \cup {Asks(w, "guard", 0)}
                   [] ~stays /\ to = "onboard" -> kept \cup {Asks(w, "look", 0)}
                   [] OTHER -> kept

\* Links of the pages, of the mail, and the address bar
GoTo(w, page) ==
    /\ Submit
    /\ at[w] # page
    /\ page = "reset" => ResetLink \in received
    /\ Enters(w, page, signedIn[w], asking)
    /\ UNCHANGED <<accounts, signedIn, signUpAux>>

-----------------------------------------------------------------------------
(* The services, query by query *)

LookUps == {"guard", "look", "welcome", "return"}

Step(a, step) == asking' = (asking \ {a}) \cup {[a EXCEPT !.step = step]}
Is(a, op, step) == a.op = op /\ a.step = step
Untouched == UNCHANGED <<routes, formBounds, tardy, unguarded>>

\* signup
SignupFind(a) ==
    /\ Is(a, "signup", "asked")
    /\ Step(a, IF account.made THEN "failed" ELSE "create")
    /\ UNCHANGED <<accounts, upset>> /\ Untouched

\* The address is unique.
SignupCreate(a) ==
    /\ Is(a, "signup", "create")
    /\ account' = [account EXCEPT !.made = TRUE]
    /\ Step(a, IF account.made THEN "failed" ELSE "code")
    /\ UNCHANGED <<code, codes, outbox, received, upset>> /\ Untouched

\* A code is unique to the address.
MakeCode(a) ==
    /\ a.op \in {"signup", "resend"} /\ a.step = "code"
    /\ IF code # NoCode
       THEN Step(a, "failed") /\ UNCHANGED <<code, codes, tardy>>
       ELSE /\ codes < MaxCodes /\ codes' = codes + 1
            /\ code' = [nr |-> codes', expired |-> FALSE]
            /\ tardy' = (tardy \/ account.verified)
            /\ asking' = (asking \ {a}) \cup {[a EXCEPT !.step = "mail", !.seen = codes']}
    /\ UNCHANGED <<account, outbox, received, routes, formBounds, upset, unguarded>>

\* emit, and the answer
MailCode(a) ==
    /\ a.op \in {"signup", "resend"} /\ a.step = "mail"
    /\ outbox' = Append(outbox, a.seen)
    /\ Step(a, "done")
    /\ upset' = (upset /\ code.nr # a.seen)
    /\ UNCHANGED <<account, code, codes, received>> /\ Untouched

\* resend_otp
ResendFind(a) ==
    /\ Is(a, "resend", "asked")
    /\ Step(a, IF account.made /\ ~account.verified THEN "clear" ELSE "failed")
    /\ UNCHANGED <<accounts, upset>> /\ Untouched

ResendClears(a) ==
    /\ Is(a, "resend", "clear")
    /\ code' = NoCode
    /\ Step(a, "code")
    /\ UNCHANGED <<account, codes, outbox, received, upset>> /\ Untouched

\* verify_otp
VerifyFind(a) ==
    /\ Is(a, "verify", "asked")
    /\ asking' = (asking \ {a}) \cup
           {[a EXCEPT !.seen = code.nr,
                      !.step = IF code = NoCode THEN "failed"
                               ELSE IF code.expired THEN "drop"
                               ELSE IF code.nr # a.nr THEN "failed" ELSE "mark"]}
    /\ UNCHANGED <<accounts, upset>> /\ Untouched

\* The code of the address is deleted, be it a newer one by now.
DropExpired(a) ==
    /\ Is(a, "verify", "drop")
    /\ code' = NoCode
    /\ Step(a, "failed")
    /\ upset' = TRUE
    /\ UNCHANGED <<account, codes, outbox, received>> /\ Untouched

MarkVerified(a) ==
    /\ Is(a, "verify", "mark")
    /\ account' = [account EXCEPT !.verified = TRUE]
    /\ Step(a, "delete")
    /\ UNCHANGED <<code, codes, outbox, received, upset>> /\ Untouched

\* The deletion fails when there is no code any more.
\* Mistake: the code stays.
KeepCode(a) ==
    /\ Is(a, "verify", "delete")
    /\ Step(a, IF code = NoCode THEN "failed" ELSE "done")
    /\ UNCHANGED <<accounts, upset>> /\ Untouched

SpendCode(a) ==
    /\ Is(a, "verify", "delete")
    /\ code' = NoCode
    /\ Step(a, IF code = NoCode THEN "failed" ELSE "done")
    /\ UNCHANGED <<account, codes, outbox, received, upset>> /\ Untouched

\* signin: an unverified address is told so before the password is looked at.
SigninChecks(a) ==
    /\ Is(a, "signin", "asked")
    /\ \/ Step(a, IF ~account.made THEN "failed" ELSE IF account.verified THEN "done" ELSE "unverified")
       \/ account.verified /\ Step(a, "failed")    \* a wrong password, or blocked
    /\ UNCHANGED <<accounts, upset>> /\ Untouched

\* oauthLogin: the provider's account, else the address, else a new account
OAuthFind(a) ==
    /\ Is(a, "oauth", "asked")
    /\ Step(a, IF account.linked THEN "done" ELSE IF account.made THEN "link" ELSE "create")
    /\ UNCHANGED <<accounts, upset>> /\ Untouched

OAuthLink(a) ==
    /\ Is(a, "oauth", "link")
    /\ account' = [account EXCEPT !.linked = TRUE]
    /\ Step(a, "done")
    /\ UNCHANGED <<code, codes, outbox, received, upset>> /\ Untouched

OAuthCreate(a) ==
    /\ Is(a, "oauth", "create")
    /\ account' = IF account.made THEN account
                  ELSE [account EXCEPT !.made = TRUE, !.verified = TRUE, !.linked = TRUE]
    /\ Step(a, IF account.made THEN "failed" ELSE "done")
    /\ UNCHANGED <<code, codes, outbox, received, upset>> /\ Untouched

\* create_user_profile
ProfileFind(a) ==
    /\ Is(a, "onboard", "asked")
    /\ Step(a, IF account.profile THEN "failed" ELSE "create")
    /\ UNCHANGED <<accounts, upset>> /\ Untouched

ProfileCreate(a) ==
    /\ Is(a, "onboard", "create")
    /\ account' = [account EXCEPT !.profile = TRUE]
    /\ Step(a, IF account.profile THEN "failed" ELSE "done")
    /\ UNCHANGED <<code, codes, outbox, received, upset>> /\ Untouched

\* get_profile
ProfileLooked(a) ==
    /\ a.op \in LookUps /\ a.step = "asked"
    /\ Step(a, IF account.profile THEN "done" ELSE "missing")
    /\ UNCHANGED <<accounts, upset>> /\ Untouched

\* forget_passwd: the answer is the same whether or not a link is mailed.
ForgotChecks(a) ==
    /\ Is(a, "forgot", "asked")
    /\ outbox' = IF account.verified THEN Append(outbox, ResetLink) ELSE outbox
    /\ Step(a, "done")
    /\ UNCHANGED <<account, code, codes, received, upset>> /\ Untouched

\* reset_passwd: the link may have expired.
ResetChecks(a) ==
    /\ Is(a, "reset", "asked")
    /\ Step(a, "done") \/ Step(a, "failed")
    /\ UNCHANGED <<accounts, upset>> /\ Untouched

\* A query fails, the replica dies, or the answer is lost.
RequestFails(a) ==
    /\ Mishap
    /\ a.step \notin {"done", "failed", "missing", "unverified"}
    /\ Step(a, "failed")
    /\ upset' = (upset \/ a.op \in {"signup", "resend"})
    /\ tardy' = (tardy \/ a.op = "verify")
    /\ unguarded' = (unguarded \/ a.op \in LookUps)
    /\ UNCHANGED <<accounts, routes>>

\* send_otp2email: a failure is only logged.
Mailed ==
    /\ outbox # <<>>
    /\ outbox' = Tail(outbox)
    /\ received' = received \cup {Head(outbox)}
    /\ UNCHANGED <<account, code, codes, routes, asking, formBounds, signUpAux>>

MailLost ==
    /\ Mishap
    /\ outbox # <<>>
    /\ outbox' = Tail(outbox)
    /\ upset' = (upset \/ Head(outbox) # ResetLink)
    /\ UNCHANGED <<account, code, codes, received, routes, asking, tardy, unguarded>>

CodeExpires ==
    /\ Mishap
    /\ code # NoCode /\ ~code.expired
    /\ code' = [code EXCEPT !.expired = TRUE]
    /\ UNCHANGED <<account, codes, outbox, received, routes, asking, signUpAux>>

-----------------------------------------------------------------------------
(* The answers: a page left behind still navigates *)

Leads(a, page) == Enters(a.win, page, signedIn[a.win], asking \ {a}) /\ UNCHANGED signedIn

Settles(a) == asking' = asking \ {a} /\ UNCHANGED routes

Told == UNCHANGED <<accounts, formBounds, signUpAux>>

SignedUp(a) == Is(a, "signup", "done") /\ Leads(a, "verify") /\ Told

VerifyAnswered(a) == Is(a, "verify", "done") /\ Leads(a, "login") /\ Told

ToldToVerify(a) == Is(a, "signin", "unverified") /\ Leads(a, "verify") /\ Told

\* setAuth, upon which the login page changes by itself; then
\* the profile decides (useLogin, completeOAuthSession).
SignedInNow(a) ==
    LET next == Asks(a.win, IF a.op = "oauth" THEN "return" ELSE "welcome", 0)
        rest == (asking \ {a}) \cup {next}
    IN
    /\ a.op \in {"signin", "oauth"} /\ a.step = "done"
    /\ signedIn' = [signedIn EXCEPT ![a.win] = TRUE]
    /\ IF at[a.win] = "login" THEN Enters(a.win, "login", TRUE, rest)
       ELSE asking' = rest /\ UNCHANGED at
    /\ Told

Onboarded(a) == Is(a, "onboard", "done") /\ Leads(a, "home") /\ Told

\* RequireUserProfile: a look-up that fails lets the page show.
GuardAnswered(a) ==
    /\ a.op = "guard" /\ a.step # "asked"
    /\ IF a.step = "missing" THEN Leads(a, "onboard")
       ELSE at' = [at EXCEPT ![a.win] = "home"] /\ asking' = asking \ {a} /\ UNCHANGED signedIn
    /\ Told

\* OnboardPage: who has a profile is sent home.
LookAnswered(a) ==
    /\ a.op = "look" /\ a.step # "asked"
    /\ IF a.step = "done" THEN Leads(a, "home") ELSE Settles(a)
    /\ Told

\* After a failure only the return from a provider goes on to onboarding.
WelcomeAnswered(a) ==
    /\ a.op \in {"welcome", "return"} /\ a.step # "asked"
    /\ CASE a.step = "done" -> Leads(a, "home")
         [] a.step = "missing" \/ (a.step = "failed" /\ a.op = "return") -> Leads(a, "onboard")
         [] OTHER -> Settles(a)
    /\ Told

\* The page stays, with an error or the message of a success.
Shown(a) ==
    /\ a.op \notin LookUps
    /\ a.step = "failed" \/ (a.step = "done" /\ a.op \in {"resend", "forgot", "reset"})
    /\ Settles(a)
    /\ Told

SignUpNext ==
    \/ \E w \in Screens :
         \/ Register(w) \/ Resend(w) \/ Login(w) \/ OAuthLogin(w) \/ Onboard(w)
         \/ Forgot(w) \/ ResetPassword(w)
         \/ \E nr \in received : Verify(w, nr)
         \/ \E page \in {"login", "register", "forgot", "reset", "onboard", "home"} : GoTo(w, page)
    \/ \E a \in asking :
         \/ SignupFind(a) \/ SignupCreate(a) \/ MakeCode(a) \/ MailCode(a)
         \/ ResendFind(a) \/ ResendClears(a)
         \/ VerifyFind(a) \/ DropExpired(a) \/ MarkVerified(a) \/ SpendCode(a)
         \/ SigninChecks(a) \/ OAuthFind(a) \/ OAuthLink(a) \/ OAuthCreate(a)
         \/ ProfileFind(a) \/ ProfileCreate(a) \/ ProfileLooked(a)
         \/ ForgotChecks(a) \/ ResetChecks(a) \/ RequestFails(a)
         \/ SignedUp(a) \/ VerifyAnswered(a) \/ ToldToVerify(a) \/ SignedInNow(a)
         \/ Onboarded(a) \/ GuardAnswered(a) \/ LookAnswered(a) \/ WelcomeAnswered(a)
         \/ Shown(a)
    \/ Mailed \/ MailLost \/ CodeExpires

-----------------------------------------------------------------------------
(* Properties *)

NothingAsked == asking = {}

\* An account that waits to be verified has a code, mailed or on its way.
CodeLives ==
    NothingAsked /\ account.made /\ ~account.verified /\ ~upset =>
        \/ code.nr \in received
        \/ \E k \in 1..Len(outbox) : outbox[k] = code.nr /\ code # NoCode

\* One that is verified has none left.
CodeSpent == NothingAsked /\ account.verified /\ ~tardy => code = NoCode

\* No window is left loading, or signed in before the login form; at home who
\* is signed in has a profile.
RoutesSettle ==
    \A w \in Screens : signedIn[w] =>
        /\ at[w] = "home" => account.profile \/ unguarded
        /\ NothingAsked => at[w] \notin {"entry", "login"}

SignUpHolds == CodeLives /\ CodeSpent /\ RoutesSettle
=============================================================================
