-------------------------------- MODULE Chat --------------------------------
(***************************************************************************)
(* chat-service (chat-service.service.ts): direct conversations, groups    *)
(* and their messages.  Every handler reads the conversation first and     *)
(* goes on with what it read; no index keeps two direct conversations of   *)
(* one pair apart, and no update checks the size of a group.               *)
(*                                                                         *)
(* A message's id is its place in the messages collection.  Text, media,   *)
(* names and the profiles looked up for them are left out.                 *)
(***************************************************************************)
EXTENDS ConsumerGroup, Lists, SequencesExt

CONSTANTS
    Users,
    Convs,       \* conversation ids the database can allocate
    NoConv,
    NoUser,
    GroupLimit,  \* add_group_members: 50
    PageSize     \* list_messages: take, 50

\* What the gateway sends (Requests is this set): `conv` and `to` say where, `who` names members.
Request ==
    [pattern: {"chat.send_message", "chat.list_messages", "chat.list_conversations",
               "chat.create_group", "chat.leave_group", "chat.add_group_members"},
     id: Nat, from: Users, conv: Convs \cup {NoConv}, to: Users \cup {NoUser},
     who: SUBSET Users]

ASSUME ChatAssumption ==
    /\ NoConv \notin Convs /\ NoUser \notin Users
    /\ GroupLimit \in Nat /\ PageSize \in Nat

VARIABLES
    kind,      \* conversations: "absent", "direct" or "group"
    members,   \* conversations: participant_ids
    preview,   \* conversations: the message last_message shows, 0 for none
    messages,  \* messages: conversation_id, sender_id and type, oldest first
    local,     \* what each handler keeps over its awaits
    awaiting,  \* requests whose first answer the gateway still waits for
    answers    \* answers on their way to the gateway

database == <<kind, members, preview, messages>>
rpc == <<awaiting, answers>>

Nothing == [conv |-> NoConv, to |-> {}, add |-> {}, msg |-> 0]

Stored(c) == kind[c] # "absent"
Row(c) == [id |-> c, group |-> kind[c] = "group", who |-> members[c]]
RowsOf(u) == {Row(c) : c \in {k \in Convs : Stored(k) /\ u \in members[k]}}

\* The id the database allocates next; the instance must leave it one.
Fresh == CHOOSE c \in Convs : ~Stored(c)

Create(k, who) ==
    /\ \E c \in Convs : ~Stored(c)
    /\ kind' = [kind EXCEPT ![Fresh] = k]
    /\ members' = [members EXCEPT ![Fresh] = who]

\* Ids of the messages of a conversation, oldest first.
Thread(c) == Ascending({i \in 1..Len(messages) : messages[i].conv = c})

\* Sorted oldest first and cut after PageSize: the oldest page.
Page(c) == SubSeq(Thread(c), 1, IF Len(Thread(c)) < PageSize THEN Len(Thread(c)) ELSE PageSize)

-----------------------------------------------------------------------------
(* Answers *)

\* The gateway takes the first answer to a request and drops any later one.
Answer(m, a) ==
    /\ answers' = IF m \in awaiting THEN answers \cup {a} ELSE answers
    /\ awaiting' = awaiting \ {m}

\* What the answer to m carries: a message and whom to push it to, rows, a page.
Reply(m, conv, msg, to, rows, page) ==
    [req |-> m, ok |-> TRUE, conv |-> conv, msg |-> msg, to |-> to, rows |-> rows,
     page |-> page]
Error(m) ==
    [req |-> m, ok |-> FALSE, conv |-> NoConv, msg |-> 0, to |-> {}, rows |-> {},
     page |-> <<>>]

Done(r, a) ==
    /\ Finish(r)
    /\ Answer(job[r], a)
    /\ local' = [local EXCEPT ![r] = Nothing]

\* RpcException: a condition of the handler fails.
Refuse(r) == Done(r, Error(job[r])) /\ UNCHANGED database

Keep(r, l, label) ==
    /\ local' = [local EXCEPT ![r] = l]
    /\ Goto(r, label)
    /\ UNCHANGED rpc

Posted(c, u, t) == Append(messages, [conv |-> c, from |-> u, type |-> t])

-----------------------------------------------------------------------------
(* send_message *)

\* Mistake: only a conversation that has a message is found.
DirectInUse(u, v) ==
    {c \in Convs : kind[c] = "direct" /\ members[c] = {u, v} /\ preview[c] # 0}

\* findDmConversationId: whichever conversation of just these two.
Direct(u, v) == {c \in Convs : kind[c] = "direct" /\ members[c] = {u, v}}

\* Into a conversation: only a participant may, and the others are told.
SendInto(r) ==
    LET m == job[r] IN
    /\ pc[r] = "chat.send_message" /\ m.conv # NoConv
    /\ IF Stored(m.conv) /\ m.from \in members[m.conv]
       THEN Keep(r, [Nothing EXCEPT !.conv = m.conv, !.to = members[m.conv] \ {m.from}],
                 "send_store") /\ UNCHANGED database
       ELSE Refuse(r)

\* To a person: the conversation is looked up, and made if there is none.
SendTo(r) ==
    LET m == job[r]
        found == Direct(m.from, m.to)
    IN
    /\ pc[r] = "chat.send_message" /\ m.conv = NoConv
    /\ \/ m.to \in {NoUser, m.from} /\ Refuse(r)
       \/ /\ m.to \notin {NoUser, m.from}
          /\ \E c \in IF found = {} THEN {NoConv} ELSE found :
               Keep(r, [Nothing EXCEPT !.conv = c, !.to = {m.to}],
                    IF c = NoConv THEN "send_create" ELSE "send_store")
          /\ UNCHANGED database

SendCreate(r) ==
    /\ pc[r] = "send_create"
    /\ Create("direct", {job[r].from, job[r].to})
    /\ Keep(r, [local[r] EXCEPT !.conv = Fresh], "send_store")
    /\ UNCHANGED <<preview, messages>>

SendStore(r) ==
    /\ pc[r] = "send_store"
    /\ messages' = Posted(local[r].conv, job[r].from, "text")
    /\ Keep(r, [local[r] EXCEPT !.msg = Len(messages) + 1], "send_preview")
    /\ UNCHANGED <<kind, members, preview>>

\* updateOne of last_message, then the events and the answer.
SendPreview(r) ==
    LET l == local[r] IN
    /\ pc[r] = "send_preview"
    /\ preview' = [preview EXCEPT ![l.conv] = l.msg]
    /\ Done(r, Reply(job[r], l.conv, l.msg, l.to, {}, <<>>))
    /\ UNCHANGED <<kind, members, messages>>

-----------------------------------------------------------------------------
(* create_group, leave_group, add_group_members *)

\* At least two others; the size has no upper limit here.
CreateGroup(r) ==
    LET m == job[r]
        others == m.who \ {m.from}
    IN
    /\ pc[r] = "chat.create_group"
    /\ \/ Cardinality(others) < 2 /\ Refuse(r)
       \/ /\ Cardinality(others) >= 2
          /\ Create("group", others \cup {m.from})
          /\ Keep(r, [Nothing EXCEPT !.conv = Fresh, !.to = others \cup {m.from}],
                  "create_answer")
          /\ UNCHANGED <<preview, messages>>

\* The row, once the names of its members are looked up.
CreateAnswer(r) ==
    LET l == local[r] IN
    /\ pc[r] = "create_answer"
    /\ Done(r, Reply(job[r], l.conv, 0, {}, {[id |-> l.conv, group |-> TRUE, who |-> l.to]},
                     <<>>))
    /\ UNCHANGED database

\* getGroupForParticipant
GroupOf(m) == kind[m.conv] = "group" /\ m.from \in members[m.conv]

LeaveFind(r) ==
    LET m == job[r] IN
    /\ pc[r] = "chat.leave_group"
    /\ IF GroupOf(m)
       THEN Keep(r, [Nothing EXCEPT !.conv = m.conv, !.to = members[m.conv] \ {m.from}],
                 "leave_pull") /\ UNCHANGED database
       ELSE Refuse(r)

\* $pull; those left behind are told by a system message, if anyone is.
LeavePull(r) ==
    LET l == local[r] IN
    /\ pc[r] = "leave_pull"
    /\ members' = [members EXCEPT ![l.conv] = @ \ {job[r].from}]
    /\ IF l.to = {} THEN Done(r, Reply(job[r], l.conv, 0, {}, {}, <<>>))
                    ELSE Keep(r, l, "system_store")
    /\ UNCHANGED <<kind, preview, messages>>

\* Mistake: only the members there are counted against the limit.
FitsNow(c, add) == Cardinality(members[c]) <= GroupLimit

Fits(c, add) == Cardinality(members[c]) + Cardinality(add) <= GroupLimit

AddFind(r) ==
    LET m == job[r]
        add == m.who \ (members[m.conv] \cup {m.from})
    IN
    /\ pc[r] = "chat.add_group_members"
    /\ IF GroupOf(m) /\ add # {} /\ Fits(m.conv, add)
       THEN Keep(r, [Nothing EXCEPT !.conv = m.conv, !.add = add], "add_set")
            /\ UNCHANGED database
       ELSE Refuse(r)

\* $addToSet of those found missing before.
AddSet(r) ==
    /\ pc[r] = "add_set"
    /\ members' = [members EXCEPT ![local[r].conv] = @ \cup local[r].add]
    /\ Keep(r, local[r], "add_reload")
    /\ UNCHANGED <<kind, preview, messages>>

\* The new members are told too: the group is read again.
AddReload(r) ==
    /\ pc[r] = "add_reload"
    /\ Keep(r, [local[r] EXCEPT !.to = members[local[r].conv]], "system_store")
    /\ UNCHANGED database

\* insertSystemMessage
SystemStore(r) ==
    /\ pc[r] = "system_store"
    /\ messages' = Posted(local[r].conv, job[r].from, "system")
    /\ Keep(r, [local[r] EXCEPT !.msg = Len(messages) + 1], "system_preview")
    /\ UNCHANGED <<kind, members, preview>>

\* An addition answers with the row as read after the update.
SystemPreview(r) ==
    LET l == local[r] IN
    /\ pc[r] = "system_preview"
    /\ preview' = [preview EXCEPT ![l.conv] = l.msg]
    /\ Done(r, Reply(job[r], l.conv, l.msg, l.to,
                     IF job[r].pattern = "chat.leave_group" THEN {}
                     ELSE {[id |-> l.conv, group |-> TRUE, who |-> l.to]}, <<>>))
    /\ UNCHANGED <<kind, members, messages>>

-----------------------------------------------------------------------------
(* list_messages, list_conversations *)

ListFind(r) ==
    LET m == job[r] IN
    /\ pc[r] = "chat.list_messages"
    /\ IF Stored(m.conv) /\ m.from \in members[m.conv]
       THEN Keep(r, Nothing, "list_find") /\ UNCHANGED database
       ELSE Refuse(r)

ListMessages(r) ==
    /\ pc[r] = "list_find"
    /\ Done(r, Reply(job[r], job[r].conv, 0, {}, {}, Page(job[r].conv)))
    /\ UNCHANGED database

ListConversations(r) ==
    /\ pc[r] = "chat.list_conversations"
    /\ Done(r, Reply(job[r], NoConv, 0, {}, RowsOf(job[r].from), <<>>))
    /\ UNCHANGED database

-----------------------------------------------------------------------------
(* Taking messages, and faults *)

Begin(r) ==
    /\ \E m \in inbox : Take(r, m)
    /\ UNCHANGED <<database, local, rpc>>

Forget(r) == local' = [local EXCEPT ![r] = Nothing]
Crash(r) == Die(r) /\ Forget(r) /\ UNCHANGED <<database, rpc>>
ExpireSession(r) == OutliveSession(r) /\ UNCHANGED <<database, local, rpc>>
QueryFails(r) ==
    /\ pc[r] # "idle"
    /\ Throw(r)
    /\ Answer(job[r], Error(job[r]))
    /\ Forget(r)
    /\ UNCHANGED database

SendStep(r) == SendInto(r) \/ SendTo(r) \/ SendCreate(r) \/ SendStore(r) \/ SendPreview(r)
GroupStep(r) ==
    \/ CreateGroup(r) \/ CreateAnswer(r) \/ LeaveFind(r) \/ LeavePull(r)
    \/ AddFind(r) \/ AddSet(r) \/ AddReload(r) \/ SystemStore(r) \/ SystemPreview(r)
ListStep(r) == ListFind(r) \/ ListMessages(r) \/ ListConversations(r)
ServiceStep(r) == Begin(r) \/ SendStep(r) \/ GroupStep(r) \/ ListStep(r)
ServiceFault(r) == Crash(r) \/ ExpireSession(r) \/ QueryFails(r)

-----------------------------------------------------------------------------
(* Properties *)

\* Additions that race, each finding room, grow a group beyond the limit by no
\* more members than there are other replicas: one replica keeps to the limit.
\* (A page adds one person at a time; a group may be created larger.)
GroupNearLimit == [][\A c \in Convs :
    kind[c] = "group" /\ Cardinality(members'[c]) > Cardinality(members[c])
        => Cardinality(members'[c]) <= GroupLimit + Cardinality(Replicas) - 1]_members

\* In a service that runs one handler at a time, two people have one direct
\* conversation, although each may write to the other first and a message may
\* be delivered again.
DirectIsUnique ==
    \A c, d \in Convs : kind[c] = "direct" /\ kind[d] = "direct" /\ members[c] = members[d]
        => c = d
=============================================================================
