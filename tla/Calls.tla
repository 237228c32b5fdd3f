------------------------------- MODULE Calls -------------------------------
(***************************************************************************)
(* Calls between browser tabs.  Each tab keeps the call it is invited to,  *)
(* the call it is in, and the call another tab of its user is in.  It      *)
(* hears of changes over three channels with no common order: its socket   *)
(* (the gateway relays signals, chat.gateway.ts, and stores nothing), the  *)
(* BroadcastChannel its user's tabs share, and the meeting itself, held by *)
(* the video SDK (external).  MeetingRoomShell.tsx, mounted on /call only, *)
(* is what reacts to the meeting.                                          *)
(***************************************************************************)
EXTENDS Integers, Sequences, FiniteSets

CONSTANTS
    Tabs, People,
    Owner,          \* the user of each tab
    Meetings,       \* the rooms the SDK may create
    NoMeeting,
    MaxMoves,       \* bound on what users do
    MaxBreaks       \* bound on failures

ASSUME CallsAssumption ==
    /\ IsFiniteSet(Tabs)
    /\ Owner \in [Tabs -> People]
    /\ NoMeeting \notin Meetings
    /\ MaxMoves \in Nat /\ MaxBreaks \in Nat

VARIABLES
    calls,      \* the invitation of each room: from, to, group; none yet
    incoming,   \* the store: incoming
    session,    \* the store: activeSession
    elsewhere,  \* the store: remoteActiveMeetingId
    open,       \* the tabs open
    onCall,     \* the tabs that show /call
    requests,   \* tokens and rooms being fetched
    busyTabs,   \* busy of the banner, callStarting of the chat page
    sdk,        \* the SDK's state in each tab
    saw,        \* sawPeerRef: tabs whose shell saw somebody else in the room
    gone,       \* tabs whose shell is about to hear onParticipantLeft
    wire,       \* signals on each tab's socket, in order
    news,       \* broadcasts to each tab, in order
    moves, breaks,  \* auxiliary: at most MaxMoves and MaxBreaks
    finished,   \* auxiliary: calls somebody ended or declined
    touched     \* auxiliary: calls a race or a failure touched

store == <<incoming, session, elsewhere>>
meeting == <<sdk, saw, gone>>
bounds == <<moves, breaks>>
callVars == <<calls, store, open, onCall, requests, busyTabs, meeting, wire, news, bounds,
              finished, touched>>

\* Some tabs open, some rooms used in the past, and how much of the bounds
\* is spent.
CallsStart(tabs, past, moved, broken) ==
    /\ calls = [m \in Meetings |->
           IF m \in past THEN [from |-> Owner[CHOOSE t \in tabs : TRUE], to |-> {}, group |-> FALSE]
           ELSE <<>>]
    /\ incoming = [t \in Tabs |-> NoMeeting]
    /\ session = [t \in Tabs |-> NoMeeting]
    /\ elsewhere = [t \in Tabs |-> NoMeeting]
    /\ open = tabs
    /\ onCall = {}
    /\ requests = {} /\ busyTabs = {}
    /\ sdk = [t \in Tabs |-> "out"]
    /\ saw = {} /\ gone = {}
    /\ wire = [t \in Tabs |-> <<>>]
    /\ news = [t \in Tabs |-> <<>>]
    /\ moves = moved /\ breaks = broken
    /\ finished = {} /\ touched = {}

Move == moves < MaxMoves /\ moves' = moves + 1 /\ UNCHANGED breaks
Break == breaks < MaxBreaks /\ breaks' = breaks + 1 /\ UNCHANGED moves

TabsOf(who) == {t \in open : Owner[t] \in who}
Siblings(t) == TabsOf({Owner[t]}) \ {t}
Group(m) == calls[m].group

\* signalPeerIds: all invited for the caller, the caller for the invited.
SignalPeers(t, m) == IF Owner[t] = calls[m].from THEN calls[m].to ELSE {calls[m].from}

\* The gateway relays a signal to every socket of the users named.
Relay(who, type, m, all) ==
    wire' = [t \in Tabs |->
        IF t \in TabsOf(who) THEN Append(wire[t], [type |-> type, call |-> m, all |-> all])
        ELSE wire[t]]

\* postCallBroadcast
Announce(t, types, m) ==
    news' = [u \in Tabs |->
        IF u \in Siblings(t) THEN news[u] \o [i \in 1..Len(types) |-> [type |-> types[i], call |-> m]]
        ELSE news[u]]

-----------------------------------------------------------------------------
(* The meeting: what the SDK does when a session starts, changes or ends *)

Shell(t) == t \in onCall /\ session[t] # NoMeeting
Present(t) == sdk[t] \in {"in", "leaving"}
InRoom(m) == {t \in Tabs : session[t] = m /\ Present(t)}

\* The shells that hear of it when t leaves its room.
Bystanders(t) ==
    IF Present(t) THEN {u \in InRoom(session[t]) \ {t} : Shell(u)} ELSE {}

\* setActiveSession: CallProvider ends one meeting and CallMeetingJoiner
\* joins the other; the app below the provider is mounted anew.
SetActiveSession(t, m) ==
    /\ session' = [session EXCEPT ![t] = m]
    /\ sdk' = [sdk EXCEPT ![t] = IF m = NoMeeting THEN "out" ELSE "joining"]
    /\ saw' = saw \ {t}
    /\ gone' = (gone \ {t}) \cup Bystanders(t)
    /\ busyTabs' = {b \in busyTabs : b[1] # t}

\* Those who have a call under way, or an answer to it.
Engaged(who, m) ==
    \E t \in TabsOf(who) : session[t] = m \/ \E q \in requests : q.tab = t /\ q.call = m

Touch(ms) == touched' = touched \cup ms

-----------------------------------------------------------------------------
(* Calling and answering *)

\* startOutgoingCall: the room is fetched first.  Nobody is called who has
\* no tab open: that is a call nobody answers.
StartOutgoingCall(t, who) ==
    /\ Move
    /\ who \subseteq {Owner[u] : u \in open \ {t}} \ {Owner[t]} /\ who # {}
    /\ t \in open \ onCall /\ <<t, "start">> \notin busyTabs
    /\ busyTabs' = busyTabs \cup {<<t, "start">>}
    /\ requests' = requests \cup {[tab |-> t, to |-> who, call |-> NoMeeting]}
    /\ UNCHANGED <<calls, store, open, onCall, meeting, wire, news, finished, touched>>

\* The room is there: invite, and enter.  A session before is dropped
\* without a word to its peers.
RoomCreated(q) ==
    LET t == q.tab IN
    /\ q \in requests /\ q.call = NoMeeting
    /\ requests' = requests \ {q}
    /\ \E m \in Meetings :
         /\ calls[m] = <<>>
         /\ \A k \in Meetings : calls[k] # <<>> \/ m = CHOOSE j \in Meetings : calls[j] = <<>>
         /\ calls' = [calls EXCEPT ![m] = [from |-> Owner[t], to |-> q.to,
                                            group |-> Cardinality(q.to) > 1]]
         /\ Relay(q.to, "incoming", m, FALSE)
         /\ SetActiveSession(t, m)
         /\ Announce(t, <<"started">>, m)
    /\ onCall' = onCall \cup {t}
    /\ Touch({session[t]})
    /\ UNCHANGED <<incoming, elsewhere, open, bounds, finished>>

Refused(q) ==
    /\ q \in requests
    /\ Break
    /\ requests' = requests \ {q}
    /\ busyTabs' = busyTabs \ {<<q.tab, IF q.call = NoMeeting THEN "start" ELSE "answer">>}
    /\ UNCHANGED <<calls, store, open, onCall, meeting, wire, news, finished, touched>>

Banner(t) == incoming[t] # NoMeeting /\ elsewhere[t] # incoming[t]

\* accept: the token is fetched first.
Accept(t) ==
    /\ Move
    /\ t \in open /\ Banner(t) /\ <<t, "answer">> \notin busyTabs
    /\ busyTabs' = busyTabs \cup {<<t, "answer">>}
    /\ requests' = requests \cup {[tab |-> t, to |-> {}, call |-> incoming[t]]}
    /\ Touch(IF incoming[t] \in finished \/ Engaged({Owner[t]}, incoming[t])
             THEN {incoming[t]} ELSE {})
    /\ UNCHANGED <<calls, store, open, onCall, meeting, wire, news, finished>>

\* Whatever became of the call, or of the banner, meanwhile.  Nobody
\* listens to the call_accepted this sends.
Accepted(q) ==
    LET t == q.tab
        m == q.call
    IN
    /\ q \in requests /\ m # NoMeeting
    /\ requests' = requests \ {q}
    /\ incoming' = [incoming EXCEPT ![t] = NoMeeting]
    /\ SetActiveSession(t, m)
    /\ Announce(t, <<"cleared", "started">>, m)
    /\ onCall' = onCall \cup {t}
    /\ Touch({session[t], incoming[t]} \ {m})
    /\ UNCHANGED <<calls, elsewhere, open, wire, bounds, finished>>

\* decline, without its guard on the banner being shown.
Reject(t) ==
    LET m == incoming[t] IN
    /\ t \in open /\ m # NoMeeting /\ <<t, "answer">> \notin busyTabs
    /\ Relay({calls[m].from}, "rejected", m, FALSE)
    /\ incoming' = [incoming EXCEPT ![t] = NoMeeting]
    /\ Announce(t, <<"cleared">>, m)
    /\ finished' = finished \cup {m}
    /\ Touch(IF Engaged({Owner[t]}, m) THEN {m} ELSE {})
    /\ UNCHANGED <<calls, session, elsewhere, open, onCall, requests, busyTabs, meeting>>

Decline(t) == Banner(t) /\ Move /\ Reject(t)

\* CALL_RING_TIMEOUT_MS, also when the banner is hidden.
RingTimeout(t) == UNCHANGED bounds /\ Reject(t)

-----------------------------------------------------------------------------
(* What a tab is told *)

Heard(t, type) ==
    /\ t \in open /\ wire[t] # <<>> /\ Head(wire[t]).type = type
    /\ wire' = [wire EXCEPT ![t] = Tail(@)]
    /\ UNCHANGED <<calls, open, onCall, requests, news, bounds, finished>>

\* onIncoming: the last invitation is the one shown.
OnIncoming(t) ==
    LET m == Head(wire[t]).call IN
    /\ Heard(t, "incoming")
    /\ incoming' = [incoming EXCEPT ![t] = IF m \in {elsewhere[t], session[t]} THEN @ ELSE m]
    /\ Touch(IF m \in finished THEN {m} ELSE {incoming[t]} \ {m})
    /\ UNCHANGED <<session, elsewhere, busyTabs, meeting>>

\* onEnded, onRejected.  Of a group, only an end for everyone, or a
\* rejection, ends the session.
OnEnded(t) ==
    LET e == Head(wire[t])
        Clear(f) == [f EXCEPT ![t] = IF @ = e.call THEN NoMeeting ELSE @]
    IN
    /\ Heard(t, e.type) /\ e.type \in {"ended", "rejected"}
    /\ incoming' = Clear(incoming)
    /\ elsewhere' = Clear(elsewhere)
    /\ IF session[t] = e.call /\ (~Group(e.call) \/ e.type = "rejected" \/ e.all)
       THEN SetActiveSession(t, NoMeeting)
       ELSE UNCHANGED <<session, busyTabs, meeting>>
    /\ UNCHANGED touched

\* subscribeCallBroadcast: the note of a call elsewhere is of the last one.
OnNews(t) ==
    LET e == Head(news[t])
        Clear(f) == [f EXCEPT ![t] = IF @ = e.call THEN NoMeeting ELSE @]
    IN
    /\ t \in open /\ news[t] # <<>>
    /\ news' = [news EXCEPT ![t] = Tail(@)]
    /\ incoming' = IF e.type = "ended" THEN incoming ELSE Clear(incoming)
    /\ elsewhere' = CASE e.type = "cleared" -> elsewhere
                      [] e.type = "started" ->
                            [elsewhere EXCEPT ![t] = IF session[t] = e.call THEN @ ELSE e.call]
                      [] e.type = "ended" -> Clear(elsewhere)
    /\ IF e.type = "ended" /\ session[t] = e.call
       THEN SetActiveSession(t, NoMeeting) /\ Touch({e.call})
       ELSE /\ Touch(IF e.type = "started" THEN {elsewhere[t]} \ {elsewhere'[t]} ELSE {})
            /\ UNCHANGED <<session, busyTabs, meeting>>
    /\ UNCHANGED <<calls, open, onCall, requests, wire, bounds, finished>>

\* A new access token gives the tab a new socket: what is under way is lost.
SocketReplaced(t) ==
    /\ t \in open /\ wire[t] # <<>>
    /\ Break
    /\ wire' = [wire EXCEPT ![t] = <<>>]
    /\ Touch({wire[t][i].call : i \in 1..Len(wire[t])})
    /\ UNCHANGED <<calls, store, open, onCall, requests, busyTabs, meeting, news, finished>>

-----------------------------------------------------------------------------
(* In the meeting *)

\* onMeetingJoined, onParticipantJoined, and the participants found there.
Joined(t) ==
    LET others == InRoom(session[t]) IN
    /\ sdk[t] = "joining"
    /\ sdk' = [sdk EXCEPT ![t] = "in"]
    /\ saw' = saw \cup {u \in others : Shell(u)} \cup (IF Shell(t) /\ others # {} THEN {t} ELSE {})
    /\ UNCHANGED <<calls, store, open, onCall, requests, busyTabs, gone, wire, news, bounds,
                   finished, touched>>

\* onMeetingStateChanged: FAILED, heard by the shell only.  Nobody is told.
Failure(t) ==
    /\ sdk[t] \in {"joining", "in"}
    /\ Break
    /\ Touch({session[t]})
    /\ IF Shell(t) THEN SetActiveSession(t, NoMeeting)
       ELSE /\ sdk' = [sdk EXCEPT ![t] = "left"]
            /\ gone' = gone \cup Bystanders(t)
            /\ UNCHANGED <<session, saw, busyTabs>>
    /\ UNCHANGED <<calls, incoming, elsewhere, open, onCall, requests, wire, news, finished>>

\* safeLeave, where the SDK has joined.
SafeLeave(t) == sdk' = [sdk EXCEPT ![t] = IF @ = "in" THEN "leaving" ELSE @]

\* notifyPeersEndCall; a 1:1 call that is being left has been ended.
NotifyPeersEndCall(t, all) ==
    LET m == session[t] IN
    /\ Relay(SignalPeers(t, m), "ended", m, all)
    /\ finished' = finished \cup {m}
    /\ Touch(IF \E q \in requests : q.call = m THEN {m} ELSE {})

\* Mistake: of two, the other stays.
LeftAlone(t) ==
    LET m == session[t] IN
    /\ t \in gone
    /\ gone' = gone \ {t}
    /\ IF Group(m) /\ InRoom(m) = {t} /\ t \in saw THEN SafeLeave(t) ELSE UNCHANGED sdk
    /\ UNCHANGED <<calls, store, open, onCall, requests, busyTabs, saw, wire, news, bounds,
                   finished, touched>>

\* onParticipantLeft: of two, the other goes too; of a group, the last one.
ParticipantLeft(t) ==
    LET m == session[t] IN
    /\ t \in gone
    /\ gone' = gone \ {t}
    /\ IF Group(m)
       THEN /\ IF InRoom(m) = {t} /\ t \in saw THEN SafeLeave(t) ELSE UNCHANGED sdk
            /\ UNCHANGED <<wire, finished, touched>>
       ELSE /\ SafeLeave(t)
            /\ IF sdk[t] = "in" THEN NotifyPeersEndCall(t, FALSE)
               ELSE UNCHANGED <<wire, finished, touched>>
    /\ UNCHANGED <<calls, store, open, onCall, requests, busyTabs, saw, news, bounds>>

\* CALL_NO_ANSWER_TIMEOUT_MS: alone since the shell was mounted.
NoAnswer(t) ==
    /\ Shell(t) /\ sdk[t] = "in" /\ t \notin saw
    /\ NotifyPeersEndCall(t, FALSE)
    /\ SafeLeave(t)
    /\ UNCHANGED <<calls, store, open, onCall, requests, busyTabs, saw, gone, news, bounds>>

\* hangUp: at once when the SDK has not joined, else by leaving.
Exit(t) ==
    IF sdk[t] \in {"in", "leaving"}
    THEN SafeLeave(t) /\ UNCHANGED <<session, saw, gone, busyTabs>>
    ELSE SetActiveSession(t, NoMeeting)

HangUp(t) ==
    /\ Move
    /\ Shell(t) /\ sdk[t] # "leaving"
    /\ IF Group(session[t]) THEN UNCHANGED <<wire, finished, touched>>
       ELSE NotifyPeersEndCall(t, FALSE)
    /\ Exit(t)
    /\ UNCHANGED <<calls, incoming, elsewhere, open, onCall, requests, news>>

\* endForEveryone, from the menu of a group.
EndForEveryone(t) ==
    /\ Move
    /\ Shell(t) /\ Group(session[t])
    /\ NotifyPeersEndCall(t, TRUE)
    /\ Exit(t)
    /\ UNCHANGED <<calls, incoming, elsewhere, open, onCall, requests, news>>

\* onMeetingLeft: without its shell the store keeps the session.
MeetingLeft(t) ==
    /\ sdk[t] = "leaving"
    /\ IF Shell(t)
       THEN SetActiveSession(t, NoMeeting) /\ Announce(t, <<"ended">>, session[t])
            /\ UNCHANGED touched
       ELSE /\ sdk' = [sdk EXCEPT ![t] = "left"]
            /\ gone' = gone \cup Bystanders(t)
            /\ Touch({session[t]})
            /\ UNCHANGED <<session, saw, busyTabs, news>>
    /\ UNCHANGED <<calls, incoming, elsewhere, open, onCall, requests, wire, bounds, finished>>

-----------------------------------------------------------------------------
(* Between the pages, and closing the tab *)

\* The shell is unmounted; the call goes on.
GoToChat(t) ==
    /\ Move
    /\ t \in onCall
    /\ onCall' = onCall \ {t}
    /\ saw' = saw \ {t} /\ gone' = gone \ {t}
    /\ UNCHANGED <<calls, store, open, requests, busyTabs, sdk, wire, news, finished, touched>>

\* MiniCallBar
ReturnToCall(t) ==
    /\ Move
    /\ t \in open \ onCall /\ session[t] # NoMeeting
    /\ onCall' = onCall \cup {t}
    /\ saw' = IF Present(t) /\ InRoom(session[t]) # {t} THEN saw \cup {t} ELSE saw
    /\ Announce(t, <<"started">>, session[t])
    /\ UNCHANGED <<calls, store, open, requests, busyTabs, sdk, gone, wire, finished, touched>>

\* CallEndedScreen, or the redirect of CallRoomPage.
BackToChat(t) ==
    /\ t \in onCall /\ session[t] = NoMeeting
    /\ onCall' = onCall \ {t}
    /\ UNCHANGED <<calls, store, open, requests, busyTabs, meeting, wire, news, bounds,
                   finished, touched>>

\* beforeunload, where the shell is mounted.
CloseTab(t) ==
    LET m == session[t] IN
    /\ Move
    /\ t \in open
    /\ open' = open \ {t} /\ onCall' = onCall \ {t}
    /\ IF Shell(t) THEN Announce(t, <<"ended">>, m) ELSE UNCHANGED news
    /\ IF Shell(t) /\ ~Group(m) /\ sdk[t] # "leaving"
       THEN Relay(SignalPeers(t, m), "ended", m, FALSE) /\ finished' = finished \cup {m}
       ELSE UNCHANGED <<wire, finished>>
    /\ SetActiveSession(t, NoMeeting)
    /\ incoming' = [incoming EXCEPT ![t] = NoMeeting]
    /\ elsewhere' = [elsewhere EXCEPT ![t] = NoMeeting]
    /\ requests' = {q \in requests : q.tab # t}
    /\ Touch(IF Shell(t) /\ \A q \in requests : q.call # m THEN {} ELSE {m})
    /\ UNCHANGED calls

-----------------------------------------------------------------------------
(* All together *)

RequestStep(q) == RoomCreated(q) \/ Accepted(q) \/ Refused(q)

SignalStep(t) == OnIncoming(t) \/ OnEnded(t) \/ OnNews(t) \/ SocketReplaced(t)

TabStep(t) ==
    \/ \E who \in SUBSET People : StartOutgoingCall(t, who)
    \/ Accept(t) \/ Decline(t) \/ RingTimeout(t) \/ HangUp(t) \/ EndForEveryone(t)
    \/ GoToChat(t) \/ ReturnToCall(t) \/ BackToChat(t) \/ CloseTab(t)

MeetingStep(t) ==
    Joined(t) \/ Failure(t) \/ ParticipantLeft(t) \/ NoAnswer(t) \/ MeetingLeft(t)

CallsNext ==
    \/ \E q \in requests : RequestStep(q)
    \/ \E t \in Tabs : SignalStep(t) \/ TabStep(t) \/ MeetingStep(t)

-----------------------------------------------------------------------------
(* Properties *)

Settled ==
    /\ requests = {} /\ gone = {}
    /\ \A t \in open : wire[t] = <<>> /\ news[t] = <<>> /\ sdk[t] \notin {"joining", "leaving"}

\* When everything has arrived, a call between two rings only while its
\* caller is there; nobody is in one that was ended or declined; and nobody
\* whose shell saw company stays alone in a room.  The first two may fail
\* for a call that a failure or one of the races named above touched.
CallsSettle ==
    Settled => \A t \in open :
        LET ring == incoming[t]
            here == session[t]
        IN
        /\ ring \notin touched \cup {NoMeeting} /\ ~Group(ring)
             => \E u \in TabsOf({calls[ring].from}) : session[u] = ring
        /\ here \in finished \ touched => Group(here)
        /\ t \in saw /\ sdk[t] = "in" => InRoom(here) # {t}
=============================================================================
