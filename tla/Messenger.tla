----------------------------- MODULE Messenger -----------------------------
(***************************************************************************)
(* chat-service behind the gateway, and the chat page of each user's       *)
(* browser (ChatPage.tsx).  The gateway (chat.service.ts) passes a request *)
(* on, pushes what the answer says to the sockets of its receivers and     *)
(* answers the HTTP call.  The page thus hears of one change over two      *)
(* channels that keep no common order: its HTTP answers and its socket.    *)
(***************************************************************************)
EXTENDS Chat

CONSTANTS
    Online,     \* the users with a chat page open
    MaxClicks   \* bound on what they do there, all together

ASSUME PageAssumption == Online \subseteq Users /\ MaxClicks \in Nat

VARIABLES
    http,       \* answers on their way to the browsers
    socket,     \* events on each user's socket, in order
    rows,       \* conversations: the rows of each page's list
    active,     \* activeConversationId
    peer,       \* peerId: whom a first message would go to
    thread,     \* messages: what the open thread shows, as ids
    busy,       \* sending, leavingGroup, addingMembers, creatingGroup
    uploads,    \* attachments being uploaded, and where they will go
    typing,     \* typingFrom: in whose name the dots are shown
    clicks,     \* auxiliary: what users did so far, at most MaxClicks
    crossed     \* auxiliary: pages whose thread a race or fault touched

page == <<rows, active, peer, thread, busy, typing>>
vars == <<group, database, local, rpc, http, socket, page, uploads, clicks, crossed>>

Busy == {"sending", "leaving", "adding", "creating"}

\* The page is open, its list is loaded, and so is the conversation open.
PageInit(open) ==
    /\ rows = [u \in Online |-> RowsOf(u)]
    /\ active = [u \in Online |-> open[u]]
    /\ peer = [u \in Online |-> NoUser]
    /\ thread = [u \in Online |-> <<>>]
    /\ busy = [u \in Online |-> {}]
    /\ typing = [u \in Online |-> NoUser]

\* A start is the conversations the database holds, none with a message
\* yet, which of them each page has open, and how much of the bounds on
\* clicks and faults is spent.
StartFrom(groups, directs, open, clicked, failed) ==
    /\ inbox = {}
    /\ pc = [r \in Replicas |-> "idle"]
    /\ job = [r \in Replicas |-> NoRequest]
    /\ lease = [r \in Replicas |-> FALSE]
    /\ faults = failed
    /\ kind = [c \in Convs |-> IF c \in DOMAIN groups THEN "group"
                              ELSE IF c \in DOMAIN directs THEN "direct" ELSE "absent"]
    /\ members = [c \in Convs |-> IF c \in DOMAIN groups THEN groups[c]
                                 ELSE IF c \in DOMAIN directs THEN directs[c] ELSE {}]
    /\ preview = [c \in Convs |-> 0]
    /\ messages = <<>>
    /\ local = [r \in Replicas |-> Nothing]
    /\ awaiting = {} /\ answers = {} /\ http = {}
    /\ socket = [u \in Online |-> <<>>]
    /\ PageInit(open)
    /\ uploads = {}
    /\ clicks = clicked
    /\ crossed = [u \in Online |-> FALSE]

-----------------------------------------------------------------------------
(* Requests *)

InUse ==
    inbox \cup {job[r] : r \in {q \in Replicas : pc[q] # "idle"}}
    \cup awaiting \cup {a.req : a \in answers \cup http}

\* A request no other in use equals.
Call(u, pattern, c, v, who) ==
    LET used == {m.id : m \in {k \in InUse : k.from = u /\ k.pattern = pattern}}
        id == CHOOSE i \in 1..(Cardinality(used) + 1) : i \notin used
    IN [pattern |-> pattern, id |-> id, from |-> u, conv |-> c, to |-> v, who |-> who]

\* The gateway sends the requests on.
Issue(calls) == inbox' = inbox \cup calls /\ awaiting' = awaiting \cup calls

\* reloadConversations
Relist(u) == {Call(u, "chat.list_conversations", NoConv, NoUser, {})}

\* loadMessages, run by an effect whenever another conversation is selected.
Load(u, c) ==
    IF c \in {NoConv, active[u]} THEN {} ELSE {Call(u, "chat.list_messages", c, NoUser, {})}

Loading(u) ==
    \E m \in awaiting \cup {a.req : a \in answers \cup http} :
        m.from = u /\ m.pattern = "chat.list_messages"

\* Whether a race touched the thread: a load that starts alone will settle
\* it, one that meets another load, or a message, will not.
Judge(u, loads, met) ==
    crossed' = [crossed EXCEPT ![u] =
        IF loads # {} THEN Loading(u) ELSE @ \/ (met /\ Loading(u))]

Shown(u, k) == \E i \in 1..Len(thread[u]) : thread[u][i] = k

\* Mistake: a message is appended without asking whether it is shown.
AppendAlways(u, k) == Append(thread[u], k)

With(u, k) == IF Shown(u, k) THEN thread[u] ELSE Append(thread[u], k)

Upsert(u, row) == {w \in rows[u] : w.id # row.id} \cup {row}

-----------------------------------------------------------------------------
(* What the user does *)

handlers == <<pc, job, lease, faults>>
elsewhere == <<handlers, database, local, answers, http, socket>>

Click == clicks < MaxClicks /\ clicks' = clicks + 1

ActiveRow(u) == {w \in rows[u] : w.id = active[u]}
ActiveGroup(u) == {w \in ActiveRow(u) : w.group}

\* openConversation; the row that is open already changes nothing.
OpenConversation(u) ==
    /\ Click
    /\ \E w \in rows[u] :
         /\ w.id # active[u]
         /\ active' = [active EXCEPT ![u] = w.id]
         /\ Issue(Load(u, w.id))
         /\ Judge(u, Load(u, w.id), FALSE)
    /\ peer' = [peer EXCEPT ![u] = NoUser]
    /\ UNCHANGED <<elsewhere, rows, thread, busy, typing, uploads>>

\* selectPeer, from the people found; clearNewChat with nobody.
SelectPeer(u) ==
    /\ Click
    /\ \E v \in Users \cup {NoUser} :
         /\ v # u /\ <<active[u], peer[u]>> # <<NoConv, v>>
         /\ peer' = [peer EXCEPT ![u] = v]
    /\ active' = [active EXCEPT ![u] = NoConv]
    /\ thread' = [thread EXCEPT ![u] = <<>>]
    /\ UNCHANGED <<elsewhere, inbox, awaiting, rows, busy, typing, uploads, crossed>>

CanSend(u) == active[u] # NoConv \/ peer[u] # NoUser
Message(u, c, v) ==
    Call(u, "chat.send_message", c, IF c = NoConv THEN v ELSE NoUser, {})

Begins(u, what) ==
    /\ what \notin busy[u]
    /\ busy' = [busy EXCEPT ![u] = @ \cup {what}]

\* submitComposer, sendTextOnly
SendText(u) ==
    /\ Click
    /\ CanSend(u)
    /\ Begins(u, "sending")
    /\ Issue({Message(u, active[u], peer[u])})
    /\ UNCHANGED <<elsewhere, rows, active, peer, thread, typing, uploads, crossed>>

\* sendPendingMedia: where the attachment goes is fixed before the upload.
SendMedia(u) ==
    /\ Click
    /\ CanSend(u)
    /\ Begins(u, "sending")
    /\ uploads' = uploads \cup {[from |-> u, conv |-> active[u], to |-> peer[u]]}
    /\ UNCHANGED <<elsewhere, inbox, awaiting, rows, active, peer, thread, typing, crossed>>

LeaveGroup(u) ==
    /\ Click
    /\ \E w \in ActiveGroup(u) : Issue({Call(u, "chat.leave_group", w.id, NoUser, {})})
    /\ Begins(u, "leaving")
    /\ UNCHANGED <<elsewhere, rows, active, peer, thread, typing, uploads, crossed>>

\* submitAddMember: one person found who is not in the row.
AddMember(u) ==
    /\ Click
    /\ \E w \in ActiveGroup(u) : \E v \in Users \ (w.who \cup {u}) :
         Issue({Call(u, "chat.add_group_members", w.id, NoUser, {v})})
    /\ Begins(u, "adding")
    /\ UNCHANGED <<elsewhere, rows, active, peer, thread, typing, uploads, crossed>>

SubmitCreateGroup(u) ==
    /\ Click
    /\ \E who \in SUBSET (Users \ {u}) :
         /\ Cardinality(who) >= 2
         /\ Issue({Call(u, "chat.create_group", NoConv, NoUser, who)})
    /\ Begins(u, "creating")
    /\ UNCHANGED <<elsewhere, rows, active, peer, thread, typing, uploads, crossed>>

\* uploadChatMediaFile succeeds, and the message is posted; or it fails.
Uploaded(p) ==
    /\ p \in uploads
    /\ uploads' = uploads \ {p}
    /\ Issue({Message(p.from, p.conv, p.to)})
    /\ UNCHANGED <<elsewhere, page, clicks, crossed>>

UploadFails(p) ==
    /\ p \in uploads
    /\ Fault
    /\ uploads' = uploads \ {p}
    /\ busy' = [busy EXCEPT ![p.from] = @ \ {"sending"}]
    /\ UNCHANGED <<inbox, pc, job, lease, database, local, rpc, http, socket, rows, active,
                   peer, thread, typing, clicks, crossed>>

-----------------------------------------------------------------------------
(* Typing *)

\* Whose dots the page shows; the other side of a direct conversation.
OtherUser(u) ==
    IF \E w \in ActiveRow(u) : ~w.group
    THEN CHOOSE v \in UNION {w.who : w \in ActiveRow(u)} : v # u
    ELSE peer[u]

\* onDraftChange: a group's members, or the other user, without the
\* conversation.  The gateway relays it at once.
Type(u) ==
    LET others == UNION {w.who : w \in ActiveGroup(u)} \ {u}
        sent == [type |-> "typing", from |-> u,
                 conv |-> IF ActiveGroup(u) # {} THEN active[u] ELSE NoConv]
        to == IF ActiveGroup(u) # {} THEN others ELSE {OtherUser(u)}
    IN
    /\ Click
    /\ to \cap Online # {}
    /\ socket' = [v \in Online |-> IF v \in to THEN Append(socket[v], sent) ELSE socket[v]]
    /\ UNCHANGED <<handlers, inbox, database, local, rpc, http, page, uploads, crossed>>

\* onTyping: taken when it is about the open conversation.
TypingTaken(u, e) ==
    /\ active[u] # NoConv
    /\ IF e.conv # NoConv THEN e.conv = active[u]
       ELSE ActiveGroup(u) = {} /\ e.from = OtherUser(u)

TypingStops(u) ==
    /\ typing[u] # NoUser
    /\ typing' = [typing EXCEPT ![u] = NoUser]
    /\ UNCHANGED <<elsewhere, inbox, awaiting, rows, active, peer, thread, busy, uploads,
                   clicks, crossed>>

-----------------------------------------------------------------------------
(* The gateway: what an answer makes it push, and the HTTP answer *)

\* emitToUser: the message to its receivers, then group_updated.
Pushes(a) ==
    (IF a.msg = 0 THEN <<>> ELSE <<[type |-> "message", conv |-> a.conv, msg |-> a.msg]>>)
    \o CASE a.req.pattern = "chat.leave_group" -> <<[type |-> "left", conv |-> a.conv]>>
         [] a.req.pattern = "chat.add_group_members" ->
                <<[type |-> "added", row |-> CHOOSE w \in a.rows : TRUE]>>
         [] OTHER -> <<>>

Forward(a) ==
    /\ a \in answers
    /\ answers' = answers \ {a}
    /\ http' = http \cup {a}
    /\ socket' = [u \in Online |->
           IF a.ok /\ u \in a.to THEN socket[u] \o Pushes(a) ELSE socket[u]]
    /\ UNCHANGED <<group, database, local, awaiting, page, uploads, clicks, crossed>>

\* The lookup of names fails: 500, and what was done is pushed to nobody.
ForwardFails(a) ==
    /\ a \in answers /\ a.ok
    /\ a.req.pattern \in
           {"chat.list_conversations", "chat.create_group", "chat.add_group_members"}
    /\ Fault
    /\ answers' = answers \ {a}
    /\ http' = http \cup {Error(a.req)}
    /\ crossed' = [u \in Online |-> crossed[u] \/ (a.msg # 0 /\ active[u] = a.conv)]
    /\ UNCHANGED <<inbox, pc, job, lease, database, local, awaiting, socket, page, uploads, clicks>>

-----------------------------------------------------------------------------
(* The page: HTTP answers *)

Arrives(a, pattern, ok) ==
    /\ a \in http /\ a.req.pattern = pattern /\ a.ok = ok
    /\ http' = http \ {a}
    /\ UNCHANGED <<handlers, database, local, answers, socket, uploads, clicks>>

\* Mistake: only success ends the waiting.
NoFinally(u, what) == UNCHANGED busy

Ends(u, what) == busy' = [busy EXCEPT ![u] = @ \ {what}]

\* Any request fails: the error is shown and the control is free again.
\* A load that fails leaves the thread of the conversation shown before.
Failed(a) ==
    LET u == a.req.from
        p == a.req.pattern
    IN
    /\ Arrives(a, p, FALSE)
    /\ Ends(u, CASE p = "chat.send_message" -> "sending" [] p = "chat.leave_group" -> "leaving"
                 [] p = "chat.add_group_members" -> "adding"
                 [] p = "chat.create_group" -> "creating" [] OTHER -> "nothing")
    /\ crossed' = [crossed EXCEPT ![u] = @ \/ p = "chat.list_messages"]
    /\ UNCHANGED <<inbox, awaiting, rows, active, peer, thread, typing>>

ConversationsLoaded(a) ==
    /\ Arrives(a, "chat.list_conversations", TRUE)
    /\ rows' = [rows EXCEPT ![a.req.from] = a.rows]
    /\ UNCHANGED <<inbox, awaiting, active, peer, thread, busy, typing, crossed>>

\* Whichever conversation is open by now.
MessagesLoaded(a) ==
    /\ Arrives(a, "chat.list_messages", TRUE)
    /\ thread' = [thread EXCEPT ![a.req.from] = a.page]
    /\ UNCHANGED <<inbox, awaiting, rows, active, peer, busy, typing, crossed>>

\* Mistake: the history of a conversation a first message met is not loaded.
AppendSentOnly(a) ==
    LET u == a.req.from IN
    /\ Arrives(a, "chat.send_message", TRUE)
    /\ active' = [active EXCEPT ![u] = a.conv]
    /\ peer' = [peer EXCEPT ![u] = NoUser]
    /\ thread' = [thread EXCEPT ![u] = With(u, a.msg)]
    /\ Issue(Relist(u))
    /\ Judge(u, {}, TRUE)
    /\ Ends(u, "sending")
    /\ UNCHANGED <<rows, typing>>

\* appendSentMessage, and the effects of the conversation it selects.
AppendSentMessage(a) ==
    LET u == a.req.from IN
    /\ Arrives(a, "chat.send_message", TRUE)
    /\ active' = [active EXCEPT ![u] = a.conv]
    /\ peer' = [peer EXCEPT ![u] = NoUser]
    /\ thread' = [thread EXCEPT ![u] = With(u, a.msg)]
    /\ Issue(Load(u, a.conv) \cup Relist(u))
    /\ Judge(u, Load(u, a.conv), TRUE)
    /\ Ends(u, "sending")
    /\ UNCHANGED <<rows, typing>>

GroupLeft(a) ==
    LET u == a.req.from IN
    /\ Arrives(a, "chat.leave_group", TRUE)
    /\ rows' = [rows EXCEPT ![u] = {w \in @ : w.id # a.req.conv}]
    /\ active' = [active EXCEPT ![u] = NoConv]
    /\ thread' = [thread EXCEPT ![u] = <<>>]
    /\ Ends(u, "leaving")
    /\ UNCHANGED <<inbox, awaiting, peer, typing, crossed>>

MemberAdded(a) ==
    LET u == a.req.from IN
    /\ Arrives(a, "chat.add_group_members", TRUE)
    /\ \E w \in a.rows : rows' = [rows EXCEPT ![u] = Upsert(u, w)]
    /\ Ends(u, "adding")
    /\ UNCHANGED <<inbox, awaiting, active, peer, thread, typing, crossed>>

GroupCreated(a) ==
    LET u == a.req.from IN
    /\ Arrives(a, "chat.create_group", TRUE)
    /\ rows' = [rows EXCEPT ![u] =
           @ \cup {w \in a.rows : \A k \in rows[u] : k.id # w.id}]
    /\ active' = [active EXCEPT ![u] = a.conv]
    /\ peer' = [peer EXCEPT ![u] = NoUser]
    /\ Issue(Load(u, a.conv) \cup Relist(u))
    /\ Judge(u, Load(u, a.conv), FALSE)
    /\ Ends(u, "creating")
    /\ UNCHANGED <<thread, typing>>

-----------------------------------------------------------------------------
(* The page: socket events *)

Event(u, type) ==
    /\ socket[u] # <<>> /\ Head(socket[u]).type = type
    /\ socket' = [socket EXCEPT ![u] = Tail(@)]
    /\ UNCHANGED <<handlers, database, local, answers, http, active, peer, busy, uploads,
                   clicks>>

\* onReceive: into the open thread, or the list is loaded again.
Receive(u) ==
    LET e == Head(socket[u]) IN
    /\ Event(u, "message")
    /\ \/ /\ e.conv = active[u]
          /\ thread' = [thread EXCEPT ![u] = With(u, e.msg)]
          /\ Judge(u, {}, TRUE)
          /\ UNCHANGED <<inbox, awaiting>>
       \/ /\ e.conv # active[u]
          /\ Issue(Relist(u))
          /\ UNCHANGED <<thread, crossed>>
    /\ UNCHANGED <<rows, typing>>

\* onGroupUpdated: somebody left, or somebody was added.
SomeoneLeft(u) ==
    /\ Event(u, "left")
    /\ Issue(Relist(u))
    /\ UNCHANGED <<rows, thread, typing, crossed>>

SomeoneAdded(u) ==
    /\ Event(u, "added")
    /\ rows' = [rows EXCEPT ![u] = Upsert(u, Head(socket[u]).row)]
    /\ UNCHANGED <<inbox, awaiting, thread, typing, crossed>>

SomeoneTypes(u) ==
    LET e == Head(socket[u]) IN
    /\ Event(u, "typing")
    /\ typing' = [typing EXCEPT ![u] = IF TypingTaken(u, e) THEN e.from ELSE @]
    /\ UNCHANGED <<inbox, awaiting, rows, thread, crossed>>

\* The connection breaks: what is on it is lost, and nothing asks for it.
SocketBreaks(u) ==
    /\ socket[u] # <<>>
    /\ Fault
    /\ socket' = [socket EXCEPT ![u] = <<>>]
    /\ crossed' = [crossed EXCEPT ![u] = TRUE]
    /\ UNCHANGED <<inbox, pc, job, lease, database, local, rpc, http, page, uploads, clicks>>

-----------------------------------------------------------------------------
(* All together *)

\* The conversation of a message just stored, for a page it does not reach:
\* its user is neither told nor, of a text, its sender, or its handler tells
\* nobody, because a fault stops it or its answer is a second one.
Missed(r, u, nobody) ==
    /\ pc[r] \in {"send_preview", "system_preview"}
    /\ active[u] = local[r].conv
    /\ \/ nobody \/ job[r] \notin awaiting
       \/ u \notin local[r].to \cup (IF pc[r] = "send_preview" THEN {job[r].from} ELSE {})

Service(r) ==
    /\ ServiceStep(r)
    /\ crossed' = [u \in Online |-> crossed[u] \/ Missed(r, u, FALSE)]
    /\ UNCHANGED <<http, socket, page, uploads, clicks>>

ServiceFails(r) ==
    /\ ServiceFault(r)
    /\ crossed' = [u \in Online |-> crossed[u] \/ Missed(r, u, TRUE)]
    /\ UNCHANGED <<http, socket, page, uploads, clicks>>

UserStep(u) ==
    \/ OpenConversation(u) \/ SelectPeer(u) \/ SendText(u) \/ SendMedia(u)
    \/ LeaveGroup(u) \/ AddMember(u) \/ SubmitCreateGroup(u) \/ Type(u)

AnswerStep(a) ==
    \/ Failed(a) \/ ConversationsLoaded(a) \/ MessagesLoaded(a) \/ AppendSentMessage(a)
    \/ GroupLeft(a) \/ MemberAdded(a) \/ GroupCreated(a)

EventStep(u) == Receive(u) \/ SomeoneLeft(u) \/ SomeoneAdded(u) \/ SomeoneTypes(u)

Next ==
    \/ \E r \in Replicas : Service(r) \/ ServiceFails(r)
    \/ \E a \in answers : Forward(a) \/ ForwardFails(a)
    \/ \E a \in http : AnswerStep(a)
    \/ \E p \in uploads : Uploaded(p) \/ UploadFails(p)
    \/ \E u \in Online : UserStep(u) \/ EventStep(u) \/ TypingStops(u) \/ SocketBreaks(u)

-----------------------------------------------------------------------------
(* Properties *)

\* A page never shows a message twice, although a message may come with the
\* thread, over the socket, and as the answer to its own sending.
NoMessageTwice ==
    \A u \in Online : \A i, j \in 1..Len(thread[u]) : thread[u][i] = thread[u][j] => i = j

Quiet ==
    /\ inbox = {} /\ awaiting = {} /\ answers = {} /\ http = {} /\ uploads = {}
    /\ \A u \in Online : socket[u] = <<>>
    /\ Idle

\* When everything sent has arrived, an open thread shows what its
\* conversation holds, unless two loads, or a load and a message, crossed on
\* their way, a load failed, or a message was lost or not meant for the page.
ThreadAgrees ==
    Quiet => \A u \in Online :
        active[u] # NoConv /\ ~crossed[u] /\ Len(Thread(active[u])) <= PageSize
            => {thread[u][i] : i \in 1..Len(thread[u])}
                 = {Thread(active[u])[i] : i \in 1..Len(Thread(active[u]))}

\* When everything sent has been answered, no control of a page waits any
\* more: each request ended its waiting, whatever became of it.
ControlsComeBack == Quiet => \A u \in Online : busy[u] = {}
=============================================================================
