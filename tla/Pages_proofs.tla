---------------------------- MODULE Pages_proofs ----------------------------
(***************************************************************************)
(* What the chat page and the page of a post guarantee for every set of    *)
(* users, conversations, comments and faults: the controls of the chat     *)
(* page, the size of groups and the open thread for every number of        *)
(* replicas, direct conversations for one, and the comments of a post that *)
(* is open.                                                                *)
(***************************************************************************)
EXTENDS Messenger, Thread, Lists_proofs

-----------------------------------------------------------------------------
(* What a request that is made carries *)

\* Call makes a request of the fields it is given.
LEMMA CallFields ==
    ASSUME NEW u, NEW p, NEW c, NEW v, NEW who
    PROVE  /\ Call(u, p, c, v, who).pattern = p
           /\ Call(u, p, c, v, who).from = u
           /\ Call(u, p, c, v, who).who = who
BY DEF Call

-----------------------------------------------------------------------------
(* A control that waits has something under way that will end the waiting. *)

\* The request whose answer ends the waiting of a control.
Ending(what) ==
    CASE what = "sending" -> "chat.send_message" [] what = "leaving" -> "chat.leave_group"
      [] what = "adding" -> "chat.add_group_members" [] OTHER -> "chat.create_group"

\* Requests the gateway waits for, and those whose answer is on its way.
UnderWay == awaiting \cup {a.req : a \in answers \cup http}

Awaited(u, what) ==
    \/ \E m \in UnderWay : m.from = u /\ m.pattern = Ending(what)
    \/ what = "sending" /\ \E p \in uploads : p.from = u

BusyInv ==
    /\ busy \in [Online -> SUBSET Busy]
    /\ \A u \in Online : \A what \in busy[u] : Awaited(u, what)

\* Nothing that was under way is lost while no control is freed.
LEMMA StillAwaited ==
    ASSUME BusyInv, busy' = busy, UnderWay \subseteq UnderWay', uploads \subseteq uploads'
    PROVE  BusyInv'
<1>1. ASSUME NEW u \in Online, NEW what \in busy[u] PROVE Awaited(u, what)'
  <2>1. CASE \E m \in UnderWay : m.from = u /\ m.pattern = Ending(what)
    BY <2>1 DEF Awaited, Ending
  <2>2. CASE what = "sending" /\ \E p \in uploads : p.from = u
    BY <2>2 DEF Awaited
  <2> QED BY <1>1, <2>1, <2>2 DEF BusyInv, Awaited
<1> QED BY <1>1 DEF BusyInv

\* An answer takes the place of the request the gateway waited for.
LEMMA AnswerKeeps ==
    ASSUME NEW m, NEW a, a.req = m, Answer(m, a), UNCHANGED http
    PROVE  UnderWay \subseteq UnderWay'
BY DEF Answer, UnderWay

\* chat-service leaves every request under way, whatever fails.
LEMMA ServiceKeeps ==
    ASSUME NEW r \in Replicas, Service(r) \/ ServiceFails(r)
    PROVE  /\ UnderWay \subseteq UnderWay'
           /\ uploads' = uploads /\ busy' = busy
<1>1. uploads' = uploads /\ busy' = busy /\ http' = http
  BY DEF Service, ServiceFails, page
<1>2. ASSUME NEW a, a.req = job[r], Done(r, a) PROVE UnderWay \subseteq UnderWay'
  BY <1>1, <1>2, AnswerKeeps DEF Done
<1>3. ASSUME UNCHANGED rpc PROVE UnderWay \subseteq UnderWay'
  BY <1>1, <1>3 DEF rpc, UnderWay
<1>4. \A conv, msg, to, rws, pg : Reply(job[r], conv, msg, to, rws, pg).req = job[r]
  BY DEF Reply
<1>5. Error(job[r]).req = job[r]
  BY DEF Error
<1>6. ASSUME Refuse(r) PROVE UnderWay \subseteq UnderWay'
  BY <1>2, <1>5, <1>6 DEF Refuse
<1>7. ASSUME Begin(r) PROVE UnderWay \subseteq UnderWay'
  BY <1>3, <1>7 DEF Begin
<1>8. ASSUME SendStep(r) PROVE UnderWay \subseteq UnderWay'
  <2>1. CASE SendInto(r)
    BY <1>3, <1>6, <2>1 DEF SendInto, Keep
  <2>2. CASE SendTo(r)
    BY <1>3, <1>6, <2>2 DEF SendTo, Keep
  <2>3. CASE SendCreate(r) \/ SendStore(r)
    BY <1>3, <2>3 DEF SendCreate, SendStore, Keep
  <2>4. CASE SendPreview(r)
    BY <1>2, <1>4, <2>4 DEF SendPreview
  <2> QED BY <1>8, <2>1, <2>2, <2>3, <2>4 DEF SendStep
<1>9. ASSUME GroupStep(r) PROVE UnderWay \subseteq UnderWay'
  <2>1. CASE CreateGroup(r)
    BY <1>3, <1>6, <2>1 DEF CreateGroup, Keep
  <2>2. CASE CreateAnswer(r)
    BY <1>2, <1>4, <2>2 DEF CreateAnswer
  <2>3. CASE LeaveFind(r)
    BY <1>3, <1>6, <2>3 DEF LeaveFind, Keep
  <2>4. CASE LeavePull(r)
    BY <1>2, <1>3, <1>4, <2>4 DEF LeavePull, Keep
  <2>5. CASE AddFind(r)
    BY <1>3, <1>6, <2>5 DEF AddFind, Keep
  <2>6. CASE AddSet(r) \/ AddReload(r) \/ SystemStore(r)
    BY <1>3, <2>6 DEF AddSet, AddReload, SystemStore, Keep
  <2>7. CASE SystemPreview(r)
    BY <1>2, <1>4, <2>7 DEF SystemPreview
  <2> QED BY <1>9, <2>1, <2>2, <2>3, <2>4, <2>5, <2>6, <2>7 DEF GroupStep
<1>10. ASSUME ListStep(r) PROVE UnderWay \subseteq UnderWay'
  <2>1. CASE ListFind(r)
    BY <1>3, <1>6, <2>1 DEF ListFind, Keep
  <2>2. CASE ListMessages(r) \/ ListConversations(r)
    BY <1>2, <1>4, <2>2 DEF ListMessages, ListConversations
  <2> QED BY <1>10, <2>1, <2>2 DEF ListStep
<1>11. ASSUME ServiceFault(r) PROVE UnderWay \subseteq UnderWay'
  <2>1. CASE Crash(r) \/ ExpireSession(r)
    BY <1>3, <2>1 DEF Crash, ExpireSession
  <2>2. CASE QueryFails(r)
    BY <1>1, <1>5, <2>2, AnswerKeeps DEF QueryFails
  <2> QED BY <1>11, <2>1, <2>2 DEF ServiceFault
<1> QED BY <1>1, <1>7, <1>8, <1>9, <1>10, <1>11 DEF Service, ServiceFails, ServiceStep

\* The gateway passes an answer on, or an error in its place.
LEMMA ForwardKeeps ==
    ASSUME NEW a \in answers, Forward(a) \/ ForwardFails(a)
    PROVE  /\ UnderWay \subseteq UnderWay'
           /\ uploads' = uploads /\ busy' = busy
<1>1. uploads' = uploads /\ busy' = busy /\ awaiting' = awaiting
  BY DEF Forward, ForwardFails, page
<1>2. answers' = answers \ {a} /\ \E b : http' = http \cup {b} /\ b.req = a.req
  <2>1. Error(a.req).req = a.req
    BY DEF Error
  <2> QED BY <2>1 DEF Forward, ForwardFails
<1> QED BY <1>1, <1>2 DEF UnderWay

\* What the user does puts under way what a control then waits for.
LEMMA UserAwaits ==
    ASSUME BusyInv, NEW u \in Online, UserStep(u)
    PROVE  BusyInv'
<1>1. UnderWay \subseteq UnderWay' /\ uploads \subseteq uploads'
  BY DEF UserStep, OpenConversation, SelectPeer, SendText, SendMedia, LeaveGroup, AddMember,
     SubmitCreateGroup, Type, Issue, UnderWay, elsewhere, rpc, handlers
<1>2. ASSUME NEW what \in Busy, Begins(u, what), Awaited(u, what)' PROVE BusyInv'
  <2>1. busy' = [busy EXCEPT ![u] = @ \cup {what}]
    BY <1>2 DEF Begins
  <2>2. busy' \in [Online -> SUBSET Busy]
    BY <2>1 DEF BusyInv
  <2>3. ASSUME NEW v \in Online, NEW w \in busy'[v] PROVE Awaited(v, w)'
    <3>1. CASE v = u /\ w = what
      BY <1>2, <3>1
    <3>2. CASE ~(v = u /\ w = what)
      <4>1. w \in busy[v]
        BY <2>1, <2>3, <3>2 DEF BusyInv
      <4> QED BY <1>1, <4>1 DEF BusyInv, Awaited, Ending
    <3> QED BY <3>1, <3>2
  <2> QED BY <2>2, <2>3 DEF BusyInv
<1>3. CASE OpenConversation(u) \/ SelectPeer(u) \/ Type(u)
  BY <1>1, <1>3, StillAwaited DEF OpenConversation, SelectPeer, Type, page
<1>4. CASE SendText(u)
  BY <1>2, <1>4, CallFields
     DEF SendText, Issue, Message, Awaited, UnderWay, Ending, Busy
<1>5. CASE SendMedia(u)
  <2>1. \E p \in uploads' : p.from = u
    <3>1. [from |-> u, conv |-> active[u], to |-> peer[u]] \in uploads'
      BY <1>5, Zenon DEF SendMedia
    <3> QED BY <3>1
  <2>2. "sending" \in Busy /\ Begins(u, "sending")
    BY <1>5 DEF SendMedia, Busy
  <2> QED BY <1>2, <2>1, <2>2 DEF Awaited
<1>6. CASE LeaveGroup(u)
  BY <1>2, <1>6, CallFields DEF LeaveGroup, Issue, Awaited, UnderWay, Ending, Busy
<1>7. CASE AddMember(u)
  BY <1>2, <1>7, CallFields DEF AddMember, Issue, Awaited, UnderWay, Ending, Busy
<1>8. CASE SubmitCreateGroup(u)
  BY <1>2, <1>8, CallFields DEF SubmitCreateGroup, Issue, Awaited, UnderWay, Ending, Busy
<1> QED BY <1>3, <1>4, <1>5, <1>6, <1>7, <1>8 DEF UserStep

\* An upload leads to the request it was for, or frees the control.
LEMMA UploadAwaits ==
    ASSUME BusyInv, NEW p \in uploads, Uploaded(p) \/ UploadFails(p)
    PROVE  BusyInv'
<1>1. CASE Uploaded(p)
  <2>1. busy' = busy /\ UnderWay \subseteq UnderWay' /\ uploads' = uploads \ {p}
    BY <1>1 DEF Uploaded, Issue, UnderWay, page, elsewhere
  <2>2. \E m \in UnderWay' : m.from = p.from /\ m.pattern = "chat.send_message"
    BY <1>1, CallFields DEF Uploaded, Issue, Message, UnderWay
  <2>3. ASSUME NEW u \in Online, NEW what \in busy[u] PROVE Awaited(u, what)'
    <3>1. CASE \E m \in UnderWay : m.from = u /\ m.pattern = Ending(what)
      BY <2>1, <3>1 DEF Awaited, Ending
    <3>2. CASE what = "sending" /\ \E q \in uploads : q.from = u
      BY <2>1, <2>2, <3>2 DEF Awaited, Ending
    <3> QED BY <2>3, <3>1, <3>2 DEF BusyInv, Awaited
  <2> QED BY <2>1, <2>3 DEF BusyInv
<1>2. CASE UploadFails(p)
  <2>1. /\ busy' = [busy EXCEPT ![p.from] = @ \ {"sending"}]
        /\ UnderWay' = UnderWay /\ uploads' = uploads \ {p}
    BY <1>2 DEF UploadFails, UnderWay, rpc
  <2>2. busy' \in [Online -> SUBSET Busy]
    BY <2>1 DEF BusyInv
  <2>3. ASSUME NEW u \in Online, NEW what \in busy'[u] PROVE Awaited(u, what)'
    <3>1. what \in busy[u] /\ (u = p.from => what # "sending")
      BY <2>1, <2>3 DEF BusyInv
    <3>2. CASE \E m \in UnderWay : m.from = u /\ m.pattern = Ending(what)
      BY <2>1, <3>2 DEF Awaited, Ending
    <3>3. CASE what = "sending" /\ \E q \in uploads : q.from = u
      BY <2>1, <3>1, <3>3 DEF Awaited
    <3> QED BY <3>1, <3>2, <3>3 DEF BusyInv, Awaited
  <2> QED BY <2>2, <2>3 DEF BusyInv
<1> QED BY <1>1, <1>2

\* The answer that reaches the page frees the control that waited for it.
LEMMA AnswerFrees ==
    ASSUME BusyInv, NEW a \in http, AnswerStep(a)
    PROVE  BusyInv'
<1>1. UnderWay \ {a.req} \subseteq UnderWay' /\ uploads' = uploads
  BY DEF AnswerStep, Arrives, Failed, ConversationsLoaded, MessagesLoaded,
     AppendSentMessage, GroupLeft, MemberAdded, GroupCreated, Issue, UnderWay
<1>2. \A what \in Busy :
        a.req.pattern = Ending(what) =>
            busy' = [busy EXCEPT ![a.req.from] = @ \ {what}]
  BY DEF AnswerStep, Arrives, Failed, ConversationsLoaded, MessagesLoaded,
     AppendSentMessage, GroupLeft, MemberAdded, GroupCreated, Ends, Ending, Busy
<1>3. busy' = busy \/ \E what : busy' = [busy EXCEPT ![a.req.from] = @ \ {what}]
  BY Zenon DEF AnswerStep, Failed, ConversationsLoaded, MessagesLoaded, AppendSentMessage,
     GroupLeft, MemberAdded, GroupCreated, Ends
<1>4. busy' \in [Online -> SUBSET Busy] /\ \A u \in Online : busy'[u] \subseteq busy[u]
  BY <1>3 DEF BusyInv
<1>5. ASSUME NEW u \in Online, NEW what \in busy'[u] PROVE Awaited(u, what)'
  <2>1. what \in busy[u] /\ what \in Busy
    BY <1>4, <1>5 DEF BusyInv
  <2>2. ASSUME NEW m \in UnderWay, m.from = u, m.pattern = Ending(what)
        PROVE  Awaited(u, what)'
    <3>1. m # a.req
      BY <1>2, <1>5, <2>1, <2>2 DEF BusyInv
    <3> QED BY <1>1, <2>2, <3>1 DEF Awaited, Ending
  <2>3. CASE what = "sending" /\ \E p \in uploads : p.from = u
    BY <1>1, <2>3 DEF Awaited
  <2> QED BY <2>1, <2>2, <2>3 DEF BusyInv, Awaited
<1> QED BY <1>4, <1>5 DEF BusyInv

\* Events on the socket free nothing and answer nothing.
LEMMA EventKeeps ==
    ASSUME NEW u \in Online, EventStep(u) \/ TypingStops(u) \/ SocketBreaks(u)
    PROVE  /\ UnderWay \subseteq UnderWay'
           /\ uploads' = uploads /\ busy' = busy
BY DEF EventStep, Event, Receive, SomeoneLeft, SomeoneAdded, SomeoneTypes, TypingStops,
   SocketBreaks, Issue, UnderWay, page, rpc, elsewhere, handlers

\* Whatever the replicas, the gateway and the sockets do, each control that
\* waits is freed: when all is answered none is left waiting.
THEOREM ControlsReturn ==
    ASSUME NEW groups, NEW directs, NEW opened, NEW clicked, NEW failed
    PROVE  StartFrom(groups, directs, opened, clicked, failed) /\ [][Next]_vars
               => []ControlsComeBack
<1>1. StartFrom(groups, directs, opened, clicked, failed) => BusyInv
  BY DEF StartFrom, PageInit, BusyInv
<1>2. BusyInv /\ [Next]_vars => BusyInv'
  <2>1. ASSUME BusyInv, UNCHANGED vars PROVE BusyInv'
    BY <2>1, StillAwaited DEF vars, page, rpc, UnderWay
  <2> QED BY <2>1, StillAwaited, ServiceKeeps, ForwardKeeps, UserAwaits, UploadAwaits,
             AnswerFrees, EventKeeps DEF Next
<1>3. BusyInv => ControlsComeBack
  BY DEF BusyInv, ControlsComeBack, Quiet, Awaited, UnderWay
<1> QED BY <1>1, <1>2, <1>3, PTL
-----------------------------------------------------------------------------
(* Conversations and their members: additions that race, for every number   *)
(* of replicas, and first messages, for one.                                *)

Patterns ==
    {"chat.send_message", "chat.list_messages", "chat.list_conversations",
     "chat.create_group", "chat.leave_group", "chat.add_group_members"}

Labels ==
    Patterns \cup
    {"idle", "send_create", "send_store", "send_preview", "create_answer", "leave_pull",
     "add_set", "add_reload", "system_store", "system_preview", "list_find"}

\* A request of chat-service; a page adds one person at a time.
Sound(m) ==
    /\ m.pattern \in Patterns /\ IsFiniteSet(m.who)
    /\ m.pattern = "chat.add_group_members" => \E v : m.who = {v}

\* Conversations have a kind and finitely many members, and what is in the
\* inbox is a request of chat-service.
StoreType ==
    /\ kind \in [Convs -> {"absent", "direct", "group"}]
    /\ members = [c \in Convs |-> members[c]]
    /\ \A c \in Convs : IsFiniteSet(members[c])
    /\ \A m \in inbox : Sound(m)
    /\ pc \in [Replicas -> Labels]
    /\ job = [r \in Replicas |-> job[r]]
    /\ local = [r \in Replicas |-> local[r]]

\* What the handler of replica r has in hand.
InHand(r) ==
    /\ pc[r] # "idle" => Sound(job[r])
    /\ pc[r] = "chat.add_group_members" => job[r].pattern = "chat.add_group_members"
    /\ pc[r] \in {"leave_pull", "add_set"} /\ local[r].conv \in Convs =>
           kind[local[r].conv] = "group"
    /\ pc[r] = "add_set" => \E v : local[r].add = {v}

\* The replicas about to add somebody to a conversation they found room in.
Adding(c) == {r \in Replicas : pc[r] = "add_set" /\ local[r].conv = c}

\* The handler that found room last found one place at least, and all that
\* are added since, or are about to be, are added by the other replicas.
RoomInv ==
    \A c \in Convs : Adding(c) # {} =>
        Cardinality(members[c]) + Cardinality(Adding(c)) < GroupLimit + Cardinality(Replicas)

ChatInv == StoreType /\ (\A r \in Replicas : InHand(r)) /\ RoomInv

\* A step as GroupNearLimit has it.
GrowsNear ==
    \A c \in Convs :
        kind[c] = "group" /\ Cardinality(members'[c]) > Cardinality(members[c]) =>
            Cardinality(members'[c]) <= GroupLimit + Cardinality(Replicas) - 1

\* Replica r is the only one that moves.
Singly(r) ==
    /\ pc' \in [Replicas -> Labels]
    /\ job' = [q \in Replicas |-> job'[q]] /\ local' = [q \in Replicas |-> local'[q]]
    /\ \A s \in Replicas \ {r} : pc'[s] = pc[s] /\ job'[s] = job[s] /\ local'[s] = local[s]

\* Moving on and ending keep the types.
LEMMA KeepMoves ==
    ASSUME StoreType, NEW r \in Replicas, NEW l, NEW label \in Labels, Keep(r, l, label)
    PROVE  /\ inbox' = inbox /\ Singly(r) /\ pc'[r] = label /\ job' = job /\ local'[r] = l
BY DEF StoreType, Keep, Goto, Labels, Singly

LEMMA DoneMoves ==
    ASSUME StoreType, NEW r \in Replicas, NEW a, Done(r, a)
    PROVE  inbox' = inbox /\ Singly(r) /\ pc'[r] = "idle"
BY DEF StoreType, Done, Finish, Release, Labels, Singly

\* What the other replicas have in hand stays as it is, when no group ceases
\* to be one.
LEMMA OthersHold ==
    ASSUME ChatInv, NEW r \in Replicas, Singly(r),
           \A c \in Convs : kind[c] = "group" => kind'[c] = "group", InHand(r)'
    PROVE  \A s \in Replicas : InHand(s)'
<1>1. ASSUME NEW s \in Replicas, s # r PROVE InHand(s)'
  <2>1. pc'[s] = pc[s] /\ job'[s] = job[s] /\ local'[s] = local[s]
    BY <1>1 DEF Singly
  <2> QED BY <1>1, <2>1 DEF ChatInv, InHand, Sound
<1> QED BY <1>1

\* Away from the awaits before a write, a handler has nothing to remember.
LEMMA NothingHeld ==
    ASSUME ChatInv, NEW r \in Replicas,
           pc'[r] \notin {"chat.add_group_members", "leave_pull", "add_set"},
           pc'[r] # "idle" => pc[r] # "idle" /\ job'[r] = job[r]
    PROVE  InHand(r)'
BY DEF ChatInv, InHand, Sound

\* A conversation that no more replicas are about to add to, and that does
\* not grow, has room as before.
LEMMA RoomKept ==
    ASSUME ChatInv, IsFiniteSet(Replicas), NEW c \in Convs, Adding(c)' \subseteq Adding(c),
           IsFiniteSet(members'[c]), Cardinality(members'[c]) <= Cardinality(members[c]),
           Adding(c)' # {}
    PROVE  Cardinality(members'[c]) + Cardinality(Adding(c)')
               < GroupLimit + Cardinality(Replicas)
<1>1. PICK A, B : A = Adding(c) /\ B = Adding(c)'
  OBVIOUS
<1>2. IsFiniteSet(A) /\ B \subseteq A /\ B # {}
  BY <1>1, FS_Subset DEF Adding
<1>3. IsFiniteSet(B) /\ Cardinality(B) <= Cardinality(A)
  BY <1>2, FS_Subset
<1>4. /\ Cardinality(A) \in Nat /\ Cardinality(B) \in Nat /\ Cardinality(Replicas) \in Nat
      /\ Cardinality(members[c]) \in Nat /\ Cardinality(members'[c]) \in Nat
  BY <1>2, <1>3, FS_CardinalityType DEF ChatInv, StoreType
<1>5. Cardinality(members[c]) + Cardinality(A) < GroupLimit + Cardinality(Replicas)
  BY <1>1, <1>2 DEF ChatInv, RoomInv
<1> QED BY <1>1, <1>3, <1>4, <1>5, ChatAssumption

\* A step that writes no conversation and begins no addition.
LEMMA SameConversations ==
    ASSUME ChatInv, IsFiniteSet(Replicas), UNCHANGED <<kind, members>>,
           NEW r \in Replicas, Singly(r), \A m \in inbox' : Sound(m), InHand(r)',
           \/ pc'[r] # "add_set"
           \/ pc[r] = "add_set" /\ local'[r] = local[r]
    PROVE  ChatInv' /\ GrowsNear
<1>1. StoreType'
  BY DEF ChatInv, StoreType, Sound, Singly
<1>2. \A s \in Replicas : InHand(s)'
  BY OthersHold
<1>3. \A c \in Convs : IsFiniteSet(members[c]) /\ Cardinality(members[c]) \in Nat
  BY FS_CardinalityType DEF ChatInv, StoreType
<1>4. RoomInv'
  <2>1. ASSUME NEW c \in Convs PROVE Adding(c)' \subseteq Adding(c)
    BY DEF Adding, Singly
  <2>2. ASSUME NEW c \in Convs, Adding(c)' # {}
        PROVE  Cardinality(members'[c]) + Cardinality(Adding(c)')
                   < GroupLimit + Cardinality(Replicas)
    BY <1>3, <2>1, <2>2, RoomKept
  <2> QED BY <2>2 DEF RoomInv
<1>5. GrowsNear
  BY <1>3 DEF GrowsNear
<1> QED BY <1>1, <1>2, <1>4, <1>5 DEF ChatInv

\* Fresh is a conversation that is not stored.
LEMMA FreshAbsent ==
    ASSUME \E c \in Convs : ~Stored(c)
    PROVE  Fresh \in Convs /\ kind[Fresh] = "absent"
BY DEF Fresh, Stored

\* A conversation is made: nobody is about to add to it yet.
LEMMA MakeKeeps ==
    ASSUME ChatInv, IsFiniteSet(Replicas), NEW r \in Replicas, Singly(r),
           inbox' = inbox, InHand(r)', pc'[r] # "add_set",
           NEW k \in {"direct", "group"}, NEW who, IsFiniteSet(who), Create(k, who)
    PROVE  ChatInv' /\ GrowsNear
<1>1. PICK f : f = Fresh /\ f \in Convs /\ kind[f] = "absent"
  BY FreshAbsent DEF Create
<1>2. kind' = [kind EXCEPT ![f] = k] /\ members' = [members EXCEPT ![f] = who]
  BY <1>1 DEF Create
<1>3. StoreType'
  BY <1>1, <1>2 DEF ChatInv, StoreType, Sound, Singly
<1>4. \A c \in Convs : kind[c] = "group" => kind'[c] = "group"
  BY <1>1, <1>2 DEF ChatInv, StoreType
<1>5. \A s \in Replicas : InHand(s)'
  BY <1>4, OthersHold
<1>6. \A c \in Convs : c # f => members'[c] = members[c]
  BY <1>2 DEF ChatInv, StoreType
<1>7. \A c \in Convs : Cardinality(members[c]) \in Nat
  BY FS_CardinalityType DEF ChatInv, StoreType
<1>8. RoomInv'
  <2>1. ASSUME NEW c \in Convs PROVE Adding(c)' \subseteq Adding(c)
    BY DEF Adding, Singly
  <2>2. Adding(f)' = {}
    <3>1. Adding(f) = {}
      BY <1>1 DEF ChatInv, InHand, Adding
    <3> QED BY <1>1, <2>1, <3>1
  <2>3. ASSUME NEW c \in Convs, Adding(c)' # {}
        PROVE  Cardinality(members'[c]) + Cardinality(Adding(c)')
                   < GroupLimit + Cardinality(Replicas)
    <3>1. c # f
      BY <2>2, <2>3
    <3>2. members'[c] = members[c] /\ IsFiniteSet(members'[c])
      BY <1>6, <3>1 DEF ChatInv, StoreType
    <3>3. Cardinality(members'[c]) <= Cardinality(members[c])
      BY <1>7, <3>2
    <3> QED BY <2>1, <2>3, <3>2, <3>3, RoomKept
  <2> QED BY <2>3 DEF RoomInv
<1>9. GrowsNear
  <2>1. ASSUME NEW c \in Convs, kind[c] = "group" PROVE members'[c] = members[c]
    BY <1>1, <1>6, <2>1
  <2> QED BY <1>7, <2>1 DEF GrowsNear
<1> QED BY <1>3, <1>5, <1>8, <1>9 DEF ChatInv

\* A member leaves: no group grows.
LEMMA LeaveKeeps ==
    ASSUME ChatInv, IsFiniteSet(Replicas), NEW r \in Replicas, LeavePull(r)
    PROVE  ChatInv' /\ GrowsNear
<1>1. PICK c : c = local[r].conv
  OBVIOUS
<1>2. /\ pc[r] = "leave_pull" /\ kind' = kind
      /\ members' = [members EXCEPT ![c] = @ \ {job[r].from}]
  BY <1>1 DEF LeavePull
<1>3. /\ inbox' = inbox /\ Singly(r) /\ pc'[r] \in {"idle", "system_store"}
      /\ pc'[r] # "idle" => job'[r] = job[r]
  <2>1. "system_store" \in Labels
    BY DEF Labels
  <2> QED BY <2>1, KeepMoves, DoneMoves DEF LeavePull, ChatInv
<1>4. ASSUME NEW d \in Convs
      PROVE  IsFiniteSet(members'[d]) /\ Cardinality(members'[d]) <= Cardinality(members[d])
  <2>1. members'[d] \subseteq members[d]
    BY <1>2, <1>4 DEF ChatInv, StoreType
  <2> QED BY <2>1, FS_Subset DEF ChatInv, StoreType
<1>5. StoreType'
  BY <1>2, <1>3, <1>4 DEF ChatInv, StoreType, Sound, Singly
<1>6. \A s \in Replicas : InHand(s)'
  <2>1. InHand(r)'
    BY <1>2, <1>3, NothingHeld
  <2> QED BY <1>2, <1>3, <2>1, OthersHold
<1>7. RoomInv'
  <2>1. ASSUME NEW d \in Convs PROVE Adding(d)' \subseteq Adding(d)
    BY <1>3 DEF Adding, Singly
  <2> QED BY <1>4, <2>1, RoomKept DEF RoomInv
<1>8. GrowsNear
  <2>1. \A d \in Convs : Cardinality(members'[d]) \in Nat /\ Cardinality(members[d]) \in Nat
    BY <1>4, FS_CardinalityType DEF ChatInv, StoreType
  <2> QED BY <1>4, <2>1 DEF GrowsNear
<1> QED BY <1>5, <1>6, <1>7, <1>8 DEF ChatInv

\* Room is found for one: with the one there is, no more replicas than there
\* are will add to the group.
LEMMA FindKeeps ==
    ASSUME ChatInv, IsFiniteSet(Replicas), NEW r \in Replicas, AddFind(r), ~Refuse(r)
    PROVE  ChatInv' /\ GrowsNear
<1>1. PICK add : add = job[r].who \ (members[job[r].conv] \cup {job[r].from})
  OBVIOUS
<1>2. PICK l : l = [Nothing EXCEPT !.conv = job[r].conv, !.add = add]
  OBVIOUS
<1>3. /\ pc[r] = "chat.add_group_members" /\ GroupOf(job[r]) /\ add # {}
      /\ Fits(job[r].conv, add) /\ Keep(r, l, "add_set") /\ UNCHANGED database
  BY <1>1, <1>2 DEF AddFind
<1>4. PICK v : add = {v}
  <2>1. Sound(job[r]) /\ job[r].pattern = "chat.add_group_members"
    BY <1>3 DEF ChatInv, InHand
  <2>2. \E v : job[r].who = {v}
    BY <2>1 DEF Sound
  <2> QED BY <1>1, <1>3, <2>2
<1>5. PICK c : c = job[r].conv /\ l.conv = c /\ l.add = add /\ kind[c] = "group"
  BY <1>2, <1>3 DEF GroupOf, Nothing
<1>6. Cardinality(members[c]) + 1 <= GroupLimit
  <2>1. Cardinality(add) = 1
    BY <1>4, FS_Singleton
  <2> QED BY <1>3, <1>5, <2>1 DEF Fits
<1>7. /\ inbox' = inbox /\ Singly(r) /\ pc'[r] = "add_set" /\ job' = job /\ local'[r] = l
      /\ UNCHANGED <<kind, members>>
  <2>1. "add_set" \in Labels
    BY DEF Labels
  <2> QED BY <1>3, <2>1, KeepMoves DEF ChatInv, database
<1>8. StoreType'
  BY <1>7 DEF ChatInv, StoreType, Sound, Singly
<1>9. \A s \in Replicas : InHand(s)'
  <2>1. InHand(r)'
    BY <1>3, <1>4, <1>5, <1>7 DEF ChatInv, InHand, Sound
  <2> QED BY <1>7, <2>1, OthersHold
<1>10. \A d \in Convs : IsFiniteSet(members[d]) /\ Cardinality(members[d]) \in Nat
  BY FS_CardinalityType DEF ChatInv, StoreType
<1>11. ASSUME NEW d \in Convs, Adding(d)' # {}
       PROVE  Cardinality(members'[d]) + Cardinality(Adding(d)')
                  < GroupLimit + Cardinality(Replicas)
  <2>1. CASE d = c
    <3>1. PICK B : B = Adding(d)'
      OBVIOUS
    <3>2. B \subseteq Replicas
      BY <3>1 DEF Adding
    <3>3. IsFiniteSet(B) /\ Cardinality(B) <= Cardinality(Replicas)
      BY <3>2, FS_Subset
    <3>4. Cardinality(B) \in Nat /\ Cardinality(Replicas) \in Nat
      BY <3>3, FS_CardinalityType
    <3> QED BY <1>6, <1>7, <1>10, <2>1, <3>1, <3>3, <3>4, ChatAssumption
  <2>2. CASE d # c
    <3>1. Adding(d)' \subseteq Adding(d)
      BY <1>5, <1>7, <2>2 DEF Adding, Singly
    <3>2. members'[d] = members[d] /\ Cardinality(members'[d]) <= Cardinality(members[d])
      BY <1>7, <1>10
    <3> QED BY <1>10, <1>11, <3>1, <3>2, RoomKept
  <2> QED BY <2>1, <2>2
<1>12. GrowsNear
  BY <1>7, <1>10 DEF GrowsNear
<1> QED BY <1>8, <1>9, <1>11, <1>12 DEF ChatInv, RoomInv

\* One is added, and the replica that does no longer is about to.
LEMMA AddKeeps ==
    ASSUME ChatInv, IsFiniteSet(Replicas), NEW r \in Replicas, AddSet(r)
    PROVE  ChatInv' /\ GrowsNear
<1>1. PICK c, v : c = local[r].conv /\ local[r].add = {v}
  BY DEF AddSet, ChatInv, InHand
<1>2. /\ pc[r] = "add_set" /\ kind' = kind
      /\ members' = [members EXCEPT ![c] = @ \cup {v}]
      /\ Keep(r, local[r], "add_reload")
  BY <1>1 DEF AddSet
<1>3. inbox' = inbox /\ Singly(r) /\ pc'[r] = "add_reload" /\ job' = job /\ local'[r] = local[r]
  <2>1. "add_reload" \in Labels
    BY DEF Labels
  <2> QED BY <1>2, <2>1, KeepMoves DEF ChatInv
<1>4. \A d \in Convs : IsFiniteSet(members[d]) /\ Cardinality(members[d]) \in Nat
  BY FS_CardinalityType DEF ChatInv, StoreType
<1>5. ASSUME NEW d \in Convs
      PROVE  /\ IsFiniteSet(members'[d])
             /\ d # c => members'[d] = members[d]
             /\ d = c => /\ Cardinality(members'[d]) \in Nat
                         /\ Cardinality(members'[d]) <= Cardinality(members[d]) + 1
  <2>1. CASE d # c
    BY <1>2, <1>4, <2>1 DEF ChatInv, StoreType
  <2>2. CASE d = c
    <3>1. members'[d] = members[d] \cup {v}
      BY <1>2, <2>2 DEF ChatInv, StoreType
    <3>2. PICK M : M = members[d] /\ IsFiniteSet(M) /\ Cardinality(M) \in Nat
      BY <1>4
    <3>3. /\ IsFiniteSet(M \cup {v})
          /\ Cardinality(M \cup {v}) \in {Cardinality(M), Cardinality(M) + 1}
      BY <3>2, FS_AddElement
    <3>4. IsFiniteSet(members'[d]) /\ members'[d] = M \cup {v}
      BY <3>1, <3>2, <3>3
    <3> QED BY <2>2, <3>2, <3>3, <3>4
  <2> QED BY <2>1, <2>2
<1>6. StoreType'
  BY <1>2, <1>3, <1>5 DEF ChatInv, StoreType, Sound, Singly
<1>7. \A s \in Replicas : InHand(s)'
  <2>1. InHand(r)'
    BY <1>2, <1>3, NothingHeld
  <2> QED BY <1>2, <1>3, <2>1, OthersHold
<1>8. PICK A : A = Adding(c)
  OBVIOUS
<1>9. /\ r \in A /\ IsFiniteSet(A) /\ Adding(c)' = A \ {r}
      /\ IsFiniteSet(A \ {r}) /\ Cardinality(A \ {r}) = Cardinality(A) - 1
      /\ Cardinality(A) \in Nat \ {0} /\ Cardinality(Replicas) \in Nat
  <2>1. r \in A /\ A \subseteq Replicas /\ Adding(c)' = A \ {r}
    BY <1>1, <1>2, <1>3, <1>8 DEF Adding, Singly
  <2>2. IsFiniteSet(A)
    BY <2>1, FS_Subset
  <2>3. IsFiniteSet(A \ {r}) /\ Cardinality(A \ {r}) = Cardinality(A) - 1
    BY <2>1, <2>2, FS_RemoveElement
  <2>4. Cardinality(A \ {r}) \in Nat /\ Cardinality(A) \in Nat /\ Cardinality(Replicas) \in Nat
    BY <2>2, <2>3, FS_CardinalityType
  <2> QED BY <2>1, <2>2, <2>3, <2>4
<1>10. c \in Convs => Cardinality(members[c]) + Cardinality(A) < GroupLimit + Cardinality(Replicas)
  BY <1>8, <1>9 DEF ChatInv, RoomInv
<1>11. ASSUME NEW d \in Convs, Adding(d)' # {}
       PROVE  Cardinality(members'[d]) + Cardinality(Adding(d)')
                  < GroupLimit + Cardinality(Replicas)
  <2>1. CASE d = c
    <3>1. Cardinality(Adding(d)') = Cardinality(A) - 1
      BY <1>9, <2>1
    <3>2. Cardinality(members'[d]) <= Cardinality(members[c]) + 1
      BY <1>5, <2>1
    <3> QED
      BY <1>4, <1>5, <1>9, <1>10, <2>1, <3>1, <3>2, ChatAssumption
  <2>2. CASE d # c
    <3>1. Adding(d)' \subseteq Adding(d)
      BY <1>3 DEF Adding, Singly
    <3>2. members'[d] = members[d] /\ Cardinality(members'[d]) <= Cardinality(members[d])
      BY <1>4, <1>5, <2>2
    <3> QED BY <1>4, <1>11, <3>1, <3>2, RoomKept
  <2> QED BY <2>1, <2>2
<1>12. GrowsNear
  <2>1. ASSUME NEW d \in Convs, Cardinality(members'[d]) > Cardinality(members[d])
        PROVE  Cardinality(members'[d]) <= GroupLimit + Cardinality(Replicas) - 1
    <3>1. d = c
      BY <1>4, <1>5, <2>1
    <3> QED BY <1>4, <1>5, <1>9, <1>10, <3>1, ChatAssumption
  <2> QED BY <2>1 DEF GrowsNear
<1> QED BY <1>6, <1>7, <1>11, <1>12 DEF ChatInv, RoomInv

\* Every step of a handler keeps the invariant.
LEMMA HandlerKeeps ==
    ASSUME ChatInv, IsFiniteSet(Replicas), NEW r \in Replicas,
           ServiceStep(r) \/ ServiceFault(r)
    PROVE  ChatInv' /\ GrowsNear
<1> USE DEF database, Labels, Patterns
<1>1. \A m \in inbox : Sound(m)
  BY DEF ChatInv, StoreType
<1>2. ASSUME UNCHANGED <<kind, members>>, NEW a, Done(r, a) PROVE ChatInv' /\ GrowsNear
  <2>1. inbox' = inbox /\ Singly(r) /\ pc'[r] = "idle"
    BY <1>2, DoneMoves DEF ChatInv
  <2>2. InHand(r)' /\ \A m \in inbox' : Sound(m)
    BY <1>1, <2>1, NothingHeld DEF Sound
  <2> QED BY <1>2, <2>1, <2>2, SameConversations
<1>3. ASSUME UNCHANGED <<kind, members>>, NEW l, NEW label \in Labels, Keep(r, l, label),
             InHand(r)', label # "add_set"
      PROVE  ChatInv' /\ GrowsNear
  <2>1. inbox' = inbox /\ Singly(r) /\ pc'[r] = label
    BY <1>3, KeepMoves DEF ChatInv
  <2>2. \A m \in inbox' : Sound(m)
    BY <1>1, <2>1 DEF Sound
  <2> QED BY <1>3, <2>1, <2>2, SameConversations
<1>4. ASSUME UNCHANGED <<kind, members>>, NEW l, NEW label \in Labels, Keep(r, l, label),
             label \notin {"chat.add_group_members", "leave_pull", "add_set", "idle"},
             pc[r] # "idle"
      PROVE  ChatInv' /\ GrowsNear
  <2>1. InHand(r)'
    BY <1>4, KeepMoves, NothingHeld DEF ChatInv
  <2> QED BY <1>3, <1>4, <2>1
<1>5. ASSUME Refuse(r) PROVE ChatInv' /\ GrowsNear
  BY <1>2, <1>5 DEF Refuse
<1>6. CASE Begin(r)
  <2>1. PICK m \in inbox : Take(r, m)
    BY <1>6 DEF Begin
  <2>2. /\ pc' = [pc EXCEPT ![r] = m.pattern] /\ job' = [job EXCEPT ![r] = m]
        /\ local' = local /\ inbox' \subseteq inbox /\ UNCHANGED <<kind, members>>
    BY <1>6, <2>1 DEF Begin, Take
  <2>3. Sound(m) /\ m.pattern \in Labels
    BY <1>1 DEF Sound
  <2>4. Singly(r) /\ pc'[r] = m.pattern /\ job'[r] = m
    BY <2>2, <2>3 DEF ChatInv, StoreType, Singly
  <2>5. InHand(r)' /\ m.pattern # "add_set"
    BY <2>3, <2>4 DEF InHand, Sound
  <2>6. \A k \in inbox' : Sound(k)
    BY <1>1, <2>2 DEF Sound
  <2> QED BY <2>2, <2>4, <2>5, <2>6, SameConversations
<1>7. CASE SendInto(r)
  BY <1>4, <1>5, <1>7 DEF SendInto
<1>8. CASE SendTo(r)
  <2>1. ASSUME NEW c, NEW label \in {"send_create", "send_store"}, UNCHANGED database,
               Keep(r, [Nothing EXCEPT !.conv = c, !.to = {job[r].to}], label)
        PROVE  ChatInv' /\ GrowsNear
    <3>1. pc[r] # "idle"
      BY <1>8 DEF SendTo
    <3>2. PICK l : l = [Nothing EXCEPT !.conv = c, !.to = {job[r].to}]
      OBVIOUS
    <3> QED BY <1>4, <2>1, <3>1, <3>2
  <2> QED BY <1>5, <1>8, <2>1 DEF SendTo
<1>9. CASE SendCreate(r)
  <2>1. PICK who : who = {job[r].from, job[r].to}
    OBVIOUS
  <2>2. pc[r] = "send_create" /\ Create("direct", who) /\ \E l : Keep(r, l, "send_store")
    BY <1>9, <2>1 DEF SendCreate
  <2>3. IsFiniteSet(who)
    <3>1. IsFiniteSet({job[r].from}) /\ IsFiniteSet({job[r].to})
      BY FS_Singleton
    <3>2. IsFiniteSet({job[r].from} \cup {job[r].to})
      BY <3>1, FS_Union
    <3> QED BY <2>1, <3>2
  <2>4. inbox' = inbox /\ Singly(r) /\ pc'[r] = "send_store" /\ job' = job
    BY <2>2, KeepMoves DEF ChatInv
  <2>5. InHand(r)'
    BY <2>2, <2>4, NothingHeld
  <2> QED BY <2>2, <2>3, <2>4, <2>5, MakeKeeps
<1>10. CASE SendStore(r)
  BY <1>4, <1>10 DEF SendStore
<1>11. CASE SendPreview(r)
  BY <1>2, <1>11 DEF SendPreview
<1>12. CASE CreateGroup(r)
  <2>1. CASE Refuse(r)
    BY <1>5, <2>1
  <2>2. CASE ~Refuse(r)
    <3>1. PICK who : who = (job[r].who \ {job[r].from}) \cup {job[r].from}
      OBVIOUS
    <3>2. /\ pc[r] = "chat.create_group" /\ Create("group", who)
          /\ \E l : Keep(r, l, "create_answer")
      BY <1>12, <2>2, <3>1 DEF CreateGroup
    <3>3. IsFiniteSet(who)
      <4>1. IsFiniteSet(job[r].who)
        BY <3>2 DEF ChatInv, InHand, Sound
      <4>2. IsFiniteSet(job[r].who \ {job[r].from})
        BY <4>1, FS_Subset
      <4> QED BY <3>1, <4>2, FS_AddElement
    <3>4. inbox' = inbox /\ Singly(r) /\ pc'[r] = "create_answer" /\ job' = job
      BY <3>2, KeepMoves DEF ChatInv
    <3>5. InHand(r)'
      BY <3>2, <3>4, NothingHeld
    <3> QED BY <3>2, <3>3, <3>4, <3>5, MakeKeeps
  <2> QED BY <2>1, <2>2
<1>13. CASE CreateAnswer(r)
  BY <1>2, <1>13 DEF CreateAnswer
<1>14. CASE LeaveFind(r)
  <2>1. CASE Refuse(r)
    BY <1>5, <2>1
  <2>2. CASE ~Refuse(r)
    <3>1. PICK l : l = [Nothing EXCEPT !.conv = job[r].conv,
                                       !.to = members[job[r].conv] \ {job[r].from}]
      OBVIOUS
    <3>2. /\ pc[r] = "chat.leave_group" /\ GroupOf(job[r]) /\ Keep(r, l, "leave_pull")
          /\ UNCHANGED database
      BY <1>14, <2>2, <3>1 DEF LeaveFind
    <3>3. kind[l.conv] = "group"
      BY <3>1, <3>2 DEF GroupOf, Nothing
    <3>4. /\ pc'[r] = "leave_pull" /\ job' = job /\ local'[r] = l /\ kind' = kind
          /\ Sound(job[r])
      BY <3>2, KeepMoves DEF ChatInv, InHand
    <3>5. InHand(r)'
      BY <3>3, <3>4 DEF InHand, Sound
    <3> QED BY <1>3, <3>2, <3>5
  <2> QED BY <2>1, <2>2
<1>15. CASE LeavePull(r)
  BY <1>15, LeaveKeeps
<1>16. CASE AddFind(r)
  BY <1>5, <1>16, FindKeeps
<1>17. CASE AddSet(r)
  BY <1>17, AddKeeps
<1>18. CASE AddReload(r)
  BY <1>4, <1>18 DEF AddReload
<1>19. CASE SystemStore(r)
  BY <1>4, <1>19 DEF SystemStore
<1>20. CASE SystemPreview(r)
  BY <1>2, <1>20 DEF SystemPreview
<1>21. CASE ListFind(r)
  BY <1>4, <1>5, <1>21 DEF ListFind
<1>22. CASE ListMessages(r) \/ ListConversations(r)
  BY <1>2, <1>22 DEF ListMessages, ListConversations
<1>23. CASE Crash(r) \/ ExpireSession(r) \/ QueryFails(r)
  <2>1. UNCHANGED <<kind, members>>
    BY <1>23 DEF Crash, ExpireSession, QueryFails
  <2>2. Singly(r)
    BY <1>23 DEF Crash, ExpireSession, QueryFails, Die, OutliveSession, Throw, Release,
       Forget, ChatInv, StoreType, Singly
  <2>3. \A m \in inbox' : m \in inbox \/ (m = job[r] /\ pc[r] # "idle")
    BY <1>23 DEF Crash, ExpireSession, QueryFails, Die, OutliveSession, Throw, Redeliver
  <2>4. \A m \in inbox' : Sound(m)
    BY <1>1, <2>3 DEF ChatInv, InHand
  <2>5. CASE pc'[r] = "idle"
    <3>1. InHand(r)'
      BY <2>5, NothingHeld
    <3> QED BY <2>1, <2>2, <2>4, <2>5, <3>1, SameConversations
  <2>6. CASE pc'[r] # "idle"
    <3>1. UNCHANGED <<pc, job, local>>
      BY <1>23, <2>6 DEF Crash, ExpireSession, QueryFails, Die, OutliveSession, Throw,
         Release, ChatInv, StoreType
    <3>2. InHand(r)'
      BY <2>1, <3>1 DEF ChatInv, InHand, Sound
    <3> QED BY <2>1, <2>2, <2>4, <3>1, <3>2, SameConversations
  <2> QED BY <2>5, <2>6
<1> QED
  BY <1>6, <1>7, <1>8, <1>9, <1>10, <1>11, <1>12, <1>13, <1>14, <1>15, <1>16, <1>17,
     <1>18, <1>19, <1>20, <1>21, <1>22, <1>23
     DEF ServiceStep, ServiceFault, SendStep, GroupStep, ListStep

\* What the pages ask for is sound, of finitely many users.
Asked(m) ==
    /\ m.pattern \in Patterns /\ (IsFiniteSet(Users) => IsFiniteSet(m.who))
    /\ m.pattern = "chat.add_group_members" => \E v : m.who = {v}

LEMMA CallAsked ==
    ASSUME NEW u, NEW p \in Patterns, NEW c, NEW v, NEW who,
           IsFiniteSet(Users) => IsFiniteSet(who),
           p = "chat.add_group_members" => \E w : who = {w}
    PROVE  Asked(Call(u, p, c, v, who))
<1>1. PICK m : m = Call(u, p, c, v, who)
  OBVIOUS
<1>2. m.pattern = p /\ m.who = who
  BY <1>1, CallFields
<1>3. Asked(m)
  BY <1>2 DEF Asked
<1> QED BY <1>1, <1>3

\* The gateway and the pages leave chat-service alone, and ask it properly.
Outside ==
    /\ UNCHANGED <<kind, members, messages, pc, job, local>>
    /\ \A m \in inbox' : m \in inbox \/ Asked(m)

LEMMA PagesOutside ==
    ASSUME Next, \A r \in Replicas : ~Service(r) /\ ~ServiceFails(r)
    PROVE  Outside
<1> USE DEF Outside, elsewhere, handlers, database, group
<1>1. /\ \A u, c, v : Asked(Call(u, "chat.send_message", c, v, {}))
      /\ \A u, c, v : Asked(Call(u, "chat.leave_group", c, v, {}))
      /\ \A u, c, v : Asked(Call(u, "chat.list_messages", c, v, {}))
      /\ \A u, c, v : Asked(Call(u, "chat.list_conversations", c, v, {}))
      /\ \A u, c, v, w : Asked(Call(u, "chat.add_group_members", c, v, {w}))
      /\ \A u, c, v : \A who \in SUBSET Users :
             Asked(Call(u, "chat.create_group", c, v, who))
  <2>1. /\ IsFiniteSet({}) /\ \A w : IsFiniteSet({w})
        /\ \A who \in SUBSET Users : IsFiniteSet(Users) => IsFiniteSet(who)
    BY FS_EmptySet, FS_Singleton, FS_Subset
  <2> QED BY <2>1, CallAsked DEF Patterns
<1>2. /\ \A u, c : \A m \in Load(u, c) \cup Relist(u) : Asked(m)
      /\ \A u, c, v : Asked(Message(u, c, v))
  BY <1>1 DEF Load, Relist, Message
<1>3. ASSUME NEW a, Forward(a) \/ ForwardFails(a) PROVE Outside
  BY <1>3 DEF Forward, ForwardFails
<1>4. ASSUME NEW a, AnswerStep(a) PROVE Outside
  <2>1. CASE \/ Failed(a) \/ ConversationsLoaded(a) \/ MessagesLoaded(a)
             \/ GroupLeft(a) \/ MemberAdded(a)
    BY <2>1 DEF Failed, ConversationsLoaded, MessagesLoaded, GroupLeft, MemberAdded, Arrives
  <2>2. CASE AppendSentMessage(a) \/ GroupCreated(a)
    BY <1>2, <2>2 DEF AppendSentMessage, GroupCreated, Arrives, Issue
  <2> QED BY <1>4, <2>1, <2>2 DEF AnswerStep
<1>5. ASSUME NEW p, Uploaded(p) \/ UploadFails(p) PROVE Outside
  BY <1>2, <1>5 DEF Uploaded, UploadFails, Issue
<1>6. ASSUME NEW u, UserStep(u) PROVE Outside
  <2>1. CASE OpenConversation(u)
    BY <1>2, <2>1 DEF OpenConversation, Issue
  <2>2. CASE SelectPeer(u) \/ SendMedia(u) \/ Type(u)
    BY <2>2 DEF SelectPeer, SendMedia, Type
  <2>3. CASE SendText(u)
    BY <1>2, <2>3 DEF SendText, Issue
  <2>4. CASE LeaveGroup(u)
    BY <1>1, <2>4 DEF LeaveGroup, Issue
  <2>5. CASE AddMember(u)
    <3>1. PICK w \in ActiveGroup(u) : \E v \in Users \ (w.who \cup {u}) :
            Issue({Call(u, "chat.add_group_members", w.id, NoUser, {v})})
      BY <2>5, Zenon DEF AddMember
    <3>2. PICK v : Issue({Call(u, "chat.add_group_members", w.id, NoUser, {v})})
      BY <3>1, Zenon
    <3>3. \A m \in inbox' : m \in inbox
                            \/ m = Call(u, "chat.add_group_members", w.id, NoUser, {v})
      BY <3>2 DEF Issue
    <3>4. UNCHANGED <<kind, members, messages, pc, job, local>>
      BY <2>5 DEF AddMember
    <3> QED BY <1>1, <3>3, <3>4
  <2>6. CASE SubmitCreateGroup(u)
    BY <1>1, <2>6 DEF SubmitCreateGroup, Issue
  <2> QED BY <1>6, <2>1, <2>2, <2>3, <2>4, <2>5, <2>6 DEF UserStep
<1>7. ASSUME NEW u, EventStep(u) \/ TypingStops(u) \/ SocketBreaks(u) PROVE Outside
  BY <1>2, <1>7 DEF EventStep, Event, Receive, SomeoneLeft, SomeoneAdded, SomeoneTypes,
     TypingStops, SocketBreaks, Issue
<1> QED BY <1>3, <1>4, <1>5, <1>6, <1>7 DEF Next

\* So they keep the invariant.
LEMMA OutsideKeeps ==
    ASSUME IsFiniteSet(Users), ChatInv, Outside
    PROVE  ChatInv' /\ GrowsNear
<1>1. \A r \in Replicas : InHand(r)'
  BY DEF Outside, ChatInv, InHand, Sound
<1>2. StoreType'
  BY DEF Outside, ChatInv, StoreType, Asked, Sound
<1>3. RoomInv'
  BY DEF Outside, ChatInv, RoomInv, Adding
<1>4. GrowsNear
  <2>1. \A c \in Convs : Cardinality(members[c]) \in Nat
    BY FS_CardinalityType DEF ChatInv, StoreType
  <2> QED BY <2>1 DEF Outside, GrowsNear
<1> QED BY <1>1, <1>2, <1>3, <1>4 DEF ChatInv

\* Every step keeps the invariant, and every group near the limit.
LEMMA ChatStep ==
    ASSUME IsFiniteSet(Users), IsFiniteSet(Replicas), ChatInv, [Next]_vars
    PROVE  ChatInv' /\ [GrowsNear]_members
<1>1. CASE \E r \in Replicas : Service(r) \/ ServiceFails(r)
  BY <1>1, HandlerKeeps DEF Service, ServiceFails
<1>2. CASE Next /\ \A r \in Replicas : ~Service(r) /\ ~ServiceFails(r)
  BY <1>2, PagesOutside, OutsideKeeps
<1>3. CASE UNCHANGED vars
  <2>1. Outside /\ members' = members
    BY <1>3 DEF vars, group, database, Outside
  <2> QED BY <2>1, OutsideKeeps
<1> QED BY <1>1, <1>2, <1>3

\* The conversations of a start: groups and pairs of users, one direct
\* conversation to a pair.
Proper(groups, directs) ==
    /\ \A c \in DOMAIN groups : groups[c] \subseteq Users
    /\ \A c \in DOMAIN directs : directs[c] \subseteq Users
    /\ \A c, d \in DOMAIN directs : directs[c] = directs[d] => c = d

LEMMA ChatStart ==
    ASSUME IsFiniteSet(Users), NEW groups, NEW directs, NEW opened, NEW clicked, NEW failed,
           Proper(groups, directs), StartFrom(groups, directs, opened, clicked, failed)
    PROVE  ChatInv
<1>1. \A c \in Convs : IsFiniteSet(members[c])
  <2>1. \A c \in Convs : members[c] \subseteq Users
    BY DEF StartFrom, Proper
  <2> QED BY <2>1, FS_Subset
<1>2. StoreType
  BY <1>1 DEF StartFrom, StoreType, Labels
<1>3. (\A r \in Replicas : InHand(r)) /\ RoomInv
  BY DEF StartFrom, InHand, RoomInv, Adding
<1> QED BY <1>2, <1>3 DEF ChatInv

\* Whatever the number of replicas, racing additions grow a group beyond the
\* limit by one member less than there are replicas; one replica keeps to it.
THEOREM GroupStaysNear ==
    ASSUME IsFiniteSet(Users), IsFiniteSet(Replicas),
           NEW groups, NEW directs, NEW opened, NEW clicked, NEW failed,
           Proper(groups, directs)
    PROVE  StartFrom(groups, directs, opened, clicked, failed) /\ [][Next]_vars
               => GroupNearLimit
<1>1. StartFrom(groups, directs, opened, clicked, failed) => ChatInv
  BY ChatStart
<1>2. ChatInv /\ [Next]_vars => ChatInv' /\ [GrowsNear]_members
  BY ChatStep
<1> QED BY <1>1, <1>2, PTL DEF GroupNearLimit, GrowsNear

\* What a handler found of a pair is still so when it makes their conversation.
DirectInv ==
    /\ DirectIsUnique
    /\ \A r \in Replicas : pc[r] = "send_create" =>
           \A c \in Convs : kind[c] = "direct" => members[c] # {job[r].from, job[r].to}

\* Only SendTo comes to make a conversation.
LEMMA ComesToCreate ==
    ASSUME ChatInv, NEW r \in Replicas, ServiceStep(r) \/ ServiceFault(r),
           pc'[r] = "send_create", ~SendTo(r), pc[r] # "send_create"
    PROVE  FALSE
<1> USE DEF ChatInv, StoreType, Keep, Goto, Done, Refuse, Finish, Release
<1>1. CASE Begin(r)
  BY <1>1 DEF Begin, Take, Sound, Patterns
<1>2. CASE SendInto(r) \/ SendCreate(r) \/ SendStore(r) \/ SendPreview(r)
  BY <1>2 DEF SendInto, SendCreate, SendStore, SendPreview
<1>3. CASE CreateGroup(r) \/ CreateAnswer(r) \/ LeaveFind(r) \/ LeavePull(r)
  BY <1>3 DEF CreateGroup, CreateAnswer, LeaveFind, LeavePull
<1>4. CASE AddFind(r) \/ AddSet(r) \/ AddReload(r) \/ SystemStore(r) \/ SystemPreview(r)
  BY <1>4 DEF AddFind, AddSet, AddReload, SystemStore, SystemPreview
<1>5. CASE ListFind(r) \/ ListMessages(r) \/ ListConversations(r)
  BY <1>5 DEF ListFind, ListMessages, ListConversations
<1>6. CASE Crash(r) \/ ExpireSession(r) \/ QueryFails(r)
  BY <1>6 DEF Crash, ExpireSession, QueryFails, Die, OutliveSession, Throw
<1> QED BY <1>1, <1>2, <1>3, <1>4, <1>5, <1>6
           DEF ServiceStep, ServiceFault, SendStep, GroupStep, ListStep

\* The direct conversations after a step: those of before, and one made.
LEMMA DirectsAfter ==
    ASSUME ChatInv, NEW r \in Replicas, ServiceStep(r) \/ ServiceFault(r)
    PROVE  \/ \A c \in Convs : kind'[c] = "direct" =>
                  kind[c] = "direct" /\ members'[c] = members[c]
           \/ /\ SendCreate(r)
              /\ \E f \in Convs : \A c \in Convs : kind'[c] = "direct" =>
                     \/ c = f /\ members'[c] = {job[r].from, job[r].to}
                     \/ kind[c] = "direct" /\ members'[c] = members[c]
<1> USE DEF ChatInv, StoreType
<1>1. CASE SendCreate(r)
  <2>1. PICK f, who : /\ f = Fresh /\ who = {job[r].from, job[r].to}
    OBVIOUS
  <2>2. f \in Convs /\ kind' = [kind EXCEPT ![f] = "direct"] /\ members' = [members EXCEPT ![f] = who]
    BY <1>1, <2>1, FreshAbsent DEF SendCreate, Create
  <2> QED BY <1>1, <2>1, <2>2
<1>2. CASE CreateGroup(r)
  <2>1. CASE Refuse(r)
    BY <2>1 DEF Refuse, database
  <2>2. CASE ~Refuse(r)
    <3>1. PICK f, who : /\ f = Fresh /\ who = (job[r].who \ {job[r].from}) \cup {job[r].from}
      OBVIOUS
    <3>2. kind' = [kind EXCEPT ![f] = "group"] /\ members' = [members EXCEPT ![f] = who]
      BY <1>2, <2>2, <3>1 DEF CreateGroup, Create
    <3> QED BY <3>2
  <2> QED BY <2>1, <2>2
<1>3. CASE LeavePull(r) \/ AddSet(r)
  <2>1. PICK c, new : c = local[r].conv /\ kind' = kind /\ members' = [members EXCEPT ![c] = new]
    BY <1>3 DEF LeavePull, AddSet
  <2>2. c \in Convs => kind[c] = "group"
    BY <1>3, <2>1 DEF InHand, LeavePull, AddSet
  <2> QED BY <2>1, <2>2
<1>4. CASE UNCHANGED <<kind, members>>
  BY <1>4
<1>5. ~SendCreate(r) /\ ~CreateGroup(r) /\ ~LeavePull(r) /\ ~AddSet(r)
          => UNCHANGED <<kind, members>>
  BY DEF ServiceStep, ServiceFault, SendStep, GroupStep, ListStep, Begin, SendInto, SendTo,
     SendStore, SendPreview, CreateAnswer, LeaveFind, AddFind, AddReload, SystemStore,
     SystemPreview, ListFind, ListMessages, ListConversations, Crash, ExpireSession,
     QueryFails, Refuse, database
<1> QED BY <1>1, <1>2, <1>3, <1>4, <1>5

\* One replica makes no second conversation for a pair.
LEMMA DirectKept ==
    ASSUME \A r, s \in Replicas : r = s, ChatInv, DirectInv, NEW r \in Replicas,
           ServiceStep(r) \/ ServiceFault(r)
    PROVE  DirectInv'
<1>1. SendCreate(r) => \A c \in Convs : kind[c] = "direct" => members[c] # {job[r].from, job[r].to}
  BY DEF SendCreate, DirectInv
<1>2. DirectIsUnique'
  BY <1>1, DirectsAfter DEF DirectInv, DirectIsUnique
<1>3. ASSUME pc'[r] = "send_create", NEW c \in Convs, kind'[c] = "direct"
      PROVE  members'[c] # {job'[r].from, job'[r].to}
  <2>1. CASE SendTo(r)
    <3>1. /\ UNCHANGED <<kind, members>> /\ job'[r] = job[r]
          /\ Direct(job[r].from, job[r].to) = {}
      BY <1>3, <2>1, ChatAssumption
         DEF SendTo, Keep, Goto, Refuse, Done, Finish, Release, database, ChatInv, StoreType, Direct
    <3> QED BY <1>3, <3>1 DEF Direct
  <2>2. CASE ~SendTo(r)
    <3>1. pc[r] = "send_create"
      BY <1>3, <2>2, ComesToCreate
    <3>2. UNCHANGED <<kind, members, job>>
      BY <1>3, <3>1 DEF ServiceStep, ServiceFault, SendStep, GroupStep, ListStep, Begin, Take,
         SendInto, SendTo, SendCreate, SendStore, SendPreview, CreateGroup, CreateAnswer,
         LeaveFind, LeavePull, AddFind, AddSet, AddReload, SystemStore, SystemPreview,
         ListFind, ListMessages, ListConversations, Crash, ExpireSession, QueryFails,
         Die, Throw, OutliveSession, Release, Keep, Goto, database, ChatInv, StoreType
    <3> QED BY <1>3, <3>1, <3>2 DEF DirectInv
  <2> QED BY <2>1, <2>2
<1> QED BY <1>2, <1>3 DEF DirectInv

\* Run by one replica, chat-service never makes a second direct conversation
\* for two people, whoever writes first and however often a message comes.
THEOREM SerialDirectUnique ==
    ASSUME \A r, s \in Replicas : r = s, IsFiniteSet(Users),
           NEW groups, NEW directs, NEW opened, NEW clicked, NEW failed,
           Proper(groups, directs)
    PROVE  StartFrom(groups, directs, opened, clicked, failed) /\ [][Next]_vars
               => []DirectIsUnique
<1>0. IsFiniteSet(Replicas)
  <2>1. CASE Replicas = {}
    BY <2>1, FS_EmptySet
  <2>2. CASE \E r \in Replicas : Replicas = {r}
    BY <2>2, FS_Singleton
  <2> QED BY <2>1, <2>2
<1>1. StartFrom(groups, directs, opened, clicked, failed) => ChatInv /\ DirectInv
  BY ChatStart DEF StartFrom, Proper, DirectInv, DirectIsUnique
<1>2. ChatInv /\ DirectInv /\ [Next]_vars => ChatInv' /\ DirectInv'
  <2> SUFFICES ASSUME ChatInv, DirectInv, [Next]_vars PROVE ChatInv' /\ DirectInv'
    OBVIOUS
  <2>1. CASE \E r \in Replicas : Service(r) \/ ServiceFails(r)
    BY <1>0, <2>1, ChatStep, DirectKept DEF Service, ServiceFails
  <2>2. CASE Next /\ \A r \in Replicas : ~Service(r) /\ ~ServiceFails(r)
    BY <1>0, <2>2, ChatStep, PagesOutside DEF Outside, DirectInv, DirectIsUnique
  <2>3. CASE UNCHANGED vars
    BY <1>0, <2>3, ChatStep DEF vars, group, database, DirectInv, DirectIsUnique
  <2> QED BY <2>1, <2>2, <2>3
<1>3. DirectInv => DirectIsUnique
  BY DEF DirectInv
<1> QED BY <1>1, <1>2, <1>3, PTL

-----------------------------------------------------------------------------
(* The open thread: nothing twice, and nothing missing.  For every number   *)
(* of replicas.                                                             *)

\* What a handler keeps over its awaits.
Kept(l) == l = [conv |-> l.conv, to |-> l.to, add |-> l.add, msg |-> l.msg]

\* Every request is one of the six, and each await is one of its handler.
Handles ==
    /\ \A m \in inbox : m.pattern \in Patterns
    /\ pc = [r \in Replicas |-> pc[r]]
    /\ job = [r \in Replicas |-> job[r]]
    /\ local = [r \in Replicas |-> local[r]]
    /\ \A r \in Replicas :
           /\ Kept(local[r])
           /\ pc[r] # "idle" => job[r].pattern \in Patterns
           /\ pc[r] \in Patterns => job[r].pattern = pc[r]
           /\ pc[r] \in {"send_create", "send_store", "send_preview"} =>
                  job[r].pattern = "chat.send_message"
           /\ pc[r] = "create_answer" => job[r].pattern = "chat.create_group"
           /\ pc[r] \in {"leave_pull", "add_set", "add_reload", "system_store",
                         "system_preview"} =>
                  job[r].pattern \in {"chat.leave_group", "chat.add_group_members"}
           /\ pc[r] = "list_find" => job[r].pattern = "chat.list_messages"

Storing == {"send_store", "system_store"}
Telling == {"send_preview", "system_preview"}

\* The three ways a step of the service bears on the threads: a message is
\* stored, a request is answered, or neither.
Stores(r) ==
    /\ pc[r] \in Storing /\ pc'[r] \in Telling
    /\ UNCHANGED rpc
    /\ \E e : e.conv = local[r].conv /\ messages' = Append(messages, e)
    /\ local'[r].msg = Len(messages) + 1 /\ local'[r].conv = local[r].conv

Moves(r) ==
    /\ UNCHANGED <<messages, rpc>>
    /\ pc'[r] \notin Telling \/ UNCHANGED <<pc, local>>

Answers(r, a) ==
    /\ UNCHANGED messages
    /\ a.req = job[r] /\ Answer(job[r], a)
    /\ pc'[r] = "idle"
    /\ \/ ~a.ok
       \/ /\ a.ok /\ pc[r] \in Telling
          /\ a.conv = local[r].conv /\ a.msg = local[r].msg /\ a.to = local[r].to
          /\ job[r].pattern = "chat.send_message" <=> pc[r] = "send_preview"
          /\ job[r].pattern # "chat.list_messages"
       \/ /\ a.ok /\ pc[r] = "list_find" /\ job[r].pattern = "chat.list_messages"
          /\ a.msg = 0 /\ a.page = Page(job[r].conv)
       \/ /\ a.ok /\ pc[r] \notin Telling
          /\ job[r].pattern \notin {"chat.send_message", "chat.list_messages"}
          /\ a.msg = 0

\* Only the replica at work moves.
Alone(r) ==
    \A q \in Replicas \ {r} : pc'[q] = pc[q] /\ job'[q] = job[q] /\ local'[q] = local[q]

\* What the moves of a handler do to its place.
LEMMA KeepPlace ==
    ASSUME Handles, NEW r \in Replicas, NEW l, NEW label, Keep(r, l, label)
    PROVE  /\ UNCHANGED <<inbox, job, rpc>> /\ Alone(r)
           /\ pc'[r] = label /\ local'[r] = l
           /\ pc' = [q \in Replicas |-> pc'[q]] /\ local' = [q \in Replicas |-> local'[q]]
BY DEF Handles, Keep, Goto, Alone, rpc

LEMMA FreePlace ==
    ASSUME Handles, NEW r \in Replicas, Release(r), Forget(r)
    PROVE  /\ Alone(r) /\ pc'[r] = "idle"
           /\ pc' = [q \in Replicas |-> pc'[q]] /\ job' = [q \in Replicas |-> job'[q]]
           /\ local' = [q \in Replicas |-> local'[q]] /\ Kept(local'[r])
BY DEF Handles, Release, Forget, Alone, Kept, Nothing

\* The awaits stay those of the handlers while one of them moves.
LEMMA PlacesKept ==
    ASSUME Handles, NEW r \in Replicas, Alone(r),
           pc' = [q \in Replicas |-> pc'[q]], job' = [q \in Replicas |-> job'[q]],
           local' = [q \in Replicas |-> local'[q]],
           \A m \in inbox' : m \in inbox \/ (pc[r] # "idle" /\ m = job[r]), Kept(local'[r]),
           \/ pc'[r] = "idle"
           \/ /\ job'[r].pattern \in Patterns
              /\ pc'[r] \in Patterns => job'[r].pattern = pc'[r]
              /\ pc'[r] \in {"send_create", "send_store", "send_preview"} =>
                     job'[r].pattern = "chat.send_message"
              /\ pc'[r] = "create_answer" => job'[r].pattern = "chat.create_group"
              /\ pc'[r] \in {"leave_pull", "add_set", "add_reload", "system_store",
                             "system_preview"} =>
                     job'[r].pattern \in {"chat.leave_group", "chat.add_group_members"}
              /\ pc'[r] = "list_find" => job'[r].pattern = "chat.list_messages"
    PROVE  Handles'
<1>1. \A m \in inbox' : m.pattern \in Patterns
  BY DEF Handles
<1>2. "idle" \notin Patterns
  BY DEF Patterns
<1>3. ASSUME NEW q \in Replicas
      PROVE  /\ Kept(local'[q])
             /\ pc'[q] # "idle" => job'[q].pattern \in Patterns
             /\ pc'[q] \in Patterns => job'[q].pattern = pc'[q]
             /\ pc'[q] \in {"send_create", "send_store", "send_preview"} =>
                    job'[q].pattern = "chat.send_message"
             /\ pc'[q] = "create_answer" => job'[q].pattern = "chat.create_group"
             /\ pc'[q] \in {"leave_pull", "add_set", "add_reload", "system_store",
                            "system_preview"} =>
                    job'[q].pattern \in {"chat.leave_group", "chat.add_group_members"}
             /\ pc'[q] = "list_find" => job'[q].pattern = "chat.list_messages"
  <2>1. CASE q # r
    <3>1. pc'[q] = pc[q] /\ job'[q] = job[q] /\ local'[q] = local[q]
      BY <2>1 DEF Alone
    <3> QED BY <3>1 DEF Handles
  <2>2. CASE q = r
    BY <1>2, <2>2
  <2> QED BY <2>1, <2>2
<1> QED BY <1>1, <1>3 DEF Handles

\* What a handler finds first.
LEMMA FoundKept ==
    \A c, to, add :
        /\ Kept([Nothing EXCEPT !.conv = c, !.to = to])
        /\ Kept([Nothing EXCEPT !.conv = c, !.add = add])
<1>1. ASSUME NEW c, NEW to, NEW l, l = [Nothing EXCEPT !.conv = c, !.to = to] PROVE Kept(l)
  BY <1>1 DEF Kept, Nothing
<1>2. ASSUME NEW c, NEW add, NEW l, l = [Nothing EXCEPT !.conv = c, !.add = add] PROVE Kept(l)
  BY <1>2 DEF Kept, Nothing
<1> QED BY <1>1, <1>2

\* Each step of the service is one of the three.
LEMMA ServiceShape ==
    ASSUME Handles, NEW r \in Replicas, ServiceStep(r) \/ ServiceFault(r)
    PROVE  /\ Handles' /\ Alone(r)
           /\ Stores(r) \/ Moves(r) \/ \E a : Answers(r, a)
<1> DEFINE Goal == /\ Handles' /\ Alone(r)
                   /\ Stores(r) \/ Moves(r) \/ \E a : Answers(r, a)
<1> SUFFICES Goal
  OBVIOUS
<1>1. ASSUME NEW l, Kept(l), NEW label, Keep(r, l, label), UNCHANGED messages, label \notin Telling,
             pc[r] # "idle",
             /\ label \notin Patterns
             /\ label \in {"send_create", "send_store"} => job[r].pattern = "chat.send_message"
             /\ label = "create_answer" => job[r].pattern = "chat.create_group"
             /\ label \in {"leave_pull", "add_set", "add_reload", "system_store"} =>
                    job[r].pattern \in {"chat.leave_group", "chat.add_group_members"}
             /\ label = "list_find" => job[r].pattern = "chat.list_messages"
      PROVE  Goal
  <2>1. /\ UNCHANGED <<inbox, job, rpc>> /\ Alone(r)
        /\ pc'[r] = label /\ local'[r] = l
        /\ pc' = [q \in Replicas |-> pc'[q]] /\ local' = [q \in Replicas |-> local'[q]]
    BY <1>1, KeepPlace
  <2>2. Moves(r)
    BY <1>1, <2>1 DEF Moves
  <2>3. job' = [q \in Replicas |-> job'[q]] /\ job'[r].pattern \in Patterns
    BY <1>1, <2>1 DEF Handles
  <2>4. Kept(local'[r])
    BY <1>1, <2>1
  <2>5. Handles'
    BY <2>4, <1>1, <2>1, <2>3, PlacesKept DEF Telling
  <2> QED BY <2>1, <2>2, <2>5
<1>2. ASSUME NEW a, a.req = job[r], Done(r, a) PROVE Handles' /\ Alone(r)
  <2>1. Release(r) /\ Forget(r) /\ inbox' = inbox
    BY <1>2 DEF Done, Finish, Forget
  <2> QED BY <2>1, FreePlace, PlacesKept
<1>3. ASSUME NEW a, a.req = job[r], Done(r, a), UNCHANGED messages,
             \/ ~a.ok
             \/ /\ a.ok /\ pc[r] \in Telling
                /\ a.conv = local[r].conv /\ a.msg = local[r].msg /\ a.to = local[r].to
                /\ job[r].pattern = "chat.send_message" <=> pc[r] = "send_preview"
                /\ job[r].pattern # "chat.list_messages"
             \/ /\ a.ok /\ pc[r] = "list_find" /\ job[r].pattern = "chat.list_messages"
                /\ a.msg = 0 /\ a.page = Page(job[r].conv)
             \/ /\ a.ok /\ pc[r] \notin Telling
                /\ job[r].pattern \notin {"chat.send_message", "chat.list_messages"}
                /\ a.msg = 0
      PROVE  Goal
  <2>1. pc'[r] = "idle" /\ Answer(job[r], a)
    BY <1>3 DEF Done, Finish, Release, Handles
  <2>2. Answers(r, a)
    BY <1>3, <2>1 DEF Answers
  <2> QED BY <1>2, <1>3, <2>2
<1>4. ASSUME Refuse(r) PROVE Goal
  <2>1. PICK a : a = Error(job[r])
    OBVIOUS
  <2>2. a.req = job[r] /\ ~a.ok /\ Done(r, a) /\ UNCHANGED messages
    BY <1>4, <2>1 DEF Refuse, Error, database
  <2> QED BY <1>3, <2>2
<1>5. ASSUME NEW l, Kept(l), Keep(r, l, "send_preview") \/ Keep(r, l, "system_preview"),
             NEW e, messages' = Append(messages, e), e.conv = local[r].conv,
             l.msg = Len(messages) + 1, l.conv = local[r].conv,
             \/ pc[r] = "send_store" /\ Keep(r, l, "send_preview")
             \/ pc[r] = "system_store" /\ Keep(r, l, "system_preview")
      PROVE  Goal
  <2>1. /\ UNCHANGED <<inbox, job, rpc>> /\ Alone(r)
        /\ pc'[r] \in Telling /\ local'[r] = l
        /\ pc' = [q \in Replicas |-> pc'[q]] /\ local' = [q \in Replicas |-> local'[q]]
    BY <1>5, KeepPlace DEF Telling
  <2>2. Stores(r)
    BY <1>5, <2>1 DEF Stores, Storing
  <2>3. /\ job' = [q \in Replicas |-> job'[q]] /\ job'[r].pattern \in Patterns
        /\ pc'[r] = "send_preview" => job'[r].pattern = "chat.send_message"
        /\ pc'[r] = "system_preview" =>
               job'[r].pattern \in {"chat.leave_group", "chat.add_group_members"}
    BY <1>5, <2>1, KeepPlace DEF Handles
  <2>4. Kept(local'[r])
    BY <1>5, <2>1
  <2>5. Handles'
    BY <2>4, <2>1, <2>3, PlacesKept DEF Telling, Patterns
  <2> QED BY <2>1, <2>2, <2>5
<1>6. CASE Begin(r)
  <2>1. PICK m \in inbox : Take(r, m)
    BY <1>6 DEF Begin
  <2>2. /\ pc' = [pc EXCEPT ![r] = m.pattern] /\ job' = [job EXCEPT ![r] = m]
        /\ inbox' \subseteq inbox /\ UNCHANGED <<local, messages, rpc>>
    BY <1>6, <2>1 DEF Begin, Take, database
  <2>3. /\ pc'[r] = m.pattern /\ job'[r] = m /\ m.pattern \in Patterns
        /\ pc' = [q \in Replicas |-> pc'[q]] /\ job' = [q \in Replicas |-> job'[q]]
        /\ local' = [q \in Replicas |-> local'[q]]
    BY <2>2 DEF Handles
  <2>4. Alone(r) /\ Kept(local'[r])
    BY <2>2 DEF Alone, Handles
  <2>5. Handles'
    BY <2>2, <2>3, <2>4, PlacesKept DEF Patterns
  <2>6. Moves(r)
    BY <2>2, <2>3 DEF Moves, Telling, Patterns
  <2> QED BY <2>4, <2>5, <2>6
<1> HIDE DEF Goal
<1>7. CASE SendStep(r)
  <2>1. CASE SendInto(r) \/ SendTo(r)
    <3>1. pc[r] = "chat.send_message" /\ job[r].pattern = "chat.send_message"
      BY <2>1 DEF SendInto, SendTo, Handles, Patterns
    <3>2. \/ Refuse(r)
          \/ UNCHANGED messages /\ \E l : Kept(l) /\ (Keep(r, l, "send_store") \/ Keep(r, l, "send_create"))
      BY <2>1, FoundKept DEF SendInto, SendTo, database
    <3>3. ASSUME NEW l, Kept(l), NEW label \in {"send_store", "send_create"}, Keep(r, l, label),
                 UNCHANGED messages
          PROVE  Goal
      BY <1>1, <3>1, <3>3 DEF Telling, Patterns
    <3> QED BY <1>4, <3>2, <3>3
  <2>2. CASE SendCreate(r)
    <3>1. /\ pc[r] = "send_create" /\ job[r].pattern = "chat.send_message"
          /\ UNCHANGED messages /\ \E l : Kept(l) /\ Keep(r, l, "send_store")
      BY <2>2 DEF SendCreate, Handles, Kept
    <3> QED BY <1>1, <3>1 DEF Telling, Patterns
  <2>3. CASE SendStore(r)
    <3>1. PICK l : l = [local[r] EXCEPT !.msg = Len(messages) + 1]
      OBVIOUS
    <3>2. PICK e : e = [conv |-> local[r].conv, from |-> job[r].from, type |-> "text"]
      OBVIOUS
    <3>3. /\ messages' = Append(messages, e) /\ e.conv = local[r].conv
          /\ pc[r] = "send_store" /\ Keep(r, l, "send_preview")
      BY <2>3, <3>1, <3>2 DEF SendStore, Posted
    <3>4. Kept(l) /\ l.msg = Len(messages) + 1 /\ l.conv = local[r].conv
      BY <3>1 DEF Handles, Kept
    <3> QED BY <1>5, <3>3, <3>4
  <2>4. CASE SendPreview(r)
    <3>1. PICK a : a = Reply(job[r], local[r].conv, local[r].msg, local[r].to, {}, <<>>)
      OBVIOUS
    <3>2. /\ a.req = job[r] /\ Done(r, a) /\ UNCHANGED messages /\ pc[r] = "send_preview"
          /\ a.ok /\ a.conv = local[r].conv /\ a.msg = local[r].msg /\ a.to = local[r].to
          /\ job[r].pattern = "chat.send_message"
      BY <2>4, <3>1 DEF SendPreview, Reply, Handles
    <3> QED BY <1>3, <3>2 DEF Telling
  <2> QED BY <1>7, <2>1, <2>2, <2>3, <2>4 DEF SendStep
<1>8. CASE GroupStep(r)
  <2>1. CASE CreateGroup(r) \/ LeaveFind(r) \/ AddFind(r)
    <3>1. /\ pc[r] \in {"chat.create_group", "chat.leave_group", "chat.add_group_members"}
          /\ job[r].pattern = pc[r]
      BY <2>1 DEF CreateGroup, LeaveFind, AddFind, Handles, Patterns
    <3>2. \/ Refuse(r)
          \/ UNCHANGED messages
             /\ \E l : /\ Kept(l)
                       /\ \/ pc[r] = "chat.create_group" /\ Keep(r, l, "create_answer")
                          \/ pc[r] = "chat.leave_group" /\ Keep(r, l, "leave_pull")
                          \/ pc[r] = "chat.add_group_members" /\ Keep(r, l, "add_set")
      BY <2>1, FoundKept DEF CreateGroup, LeaveFind, AddFind, database
    <3>3. ASSUME NEW l, Kept(l), NEW label, Keep(r, l, label), UNCHANGED messages,
                 \/ pc[r] = "chat.create_group" /\ label = "create_answer"
                 \/ pc[r] = "chat.leave_group" /\ label = "leave_pull"
                 \/ pc[r] = "chat.add_group_members" /\ label = "add_set"
          PROVE  Goal
      BY <1>1, <3>1, <3>3 DEF Telling, Patterns
    <3> QED BY <1>4, <3>2, <3>3
  <2>2. CASE CreateAnswer(r)
    <3>1. PICK a : a = Reply(job[r], local[r].conv, 0, {},
                             {[id |-> local[r].conv, group |-> TRUE, who |-> local[r].to]}, <<>>)
      OBVIOUS
    <3>2. /\ a.req = job[r] /\ Done(r, a) /\ UNCHANGED messages /\ pc[r] = "create_answer"
          /\ a.ok /\ a.msg = 0 /\ job[r].pattern = "chat.create_group"
      BY <2>2, <3>1 DEF CreateAnswer, Reply, Handles, database
    <3> QED BY <1>3, <3>2 DEF Telling
  <2>3. CASE LeavePull(r)
    <3>1. /\ pc[r] = "leave_pull" /\ UNCHANGED messages
          /\ job[r].pattern \in {"chat.leave_group", "chat.add_group_members"}
      BY <2>3 DEF LeavePull, Handles
    <3>2. PICK a : a = Reply(job[r], local[r].conv, 0, {}, {}, <<>>)
      OBVIOUS
    <3>3. a.req = job[r] /\ a.ok /\ a.msg = 0
      BY <3>2 DEF Reply
    <3>4. Done(r, a) \/ Keep(r, local[r], "system_store")
      BY <2>3, <3>2 DEF LeavePull
    <3>5. CASE Done(r, a)
      BY <1>3, <3>1, <3>3, <3>5 DEF Telling
    <3>6. CASE Keep(r, local[r], "system_store")
      BY <1>1, <3>1, <3>6 DEF Telling, Patterns, Handles
    <3> QED BY <3>4, <3>5, <3>6
  <2>4. CASE AddSet(r) \/ AddReload(r)
    <3>1. /\ pc[r] \in {"add_set", "add_reload"} /\ UNCHANGED messages
          /\ job[r].pattern \in {"chat.leave_group", "chat.add_group_members"}
          /\ \E l : Kept(l) /\ (Keep(r, l, "add_reload") \/ Keep(r, l, "system_store"))
      BY <2>4 DEF AddSet, AddReload, Handles, database, Kept
    <3> QED BY <1>1, <3>1 DEF Telling, Patterns
  <2>5. CASE SystemStore(r)
    <3>1. PICK l : l = [local[r] EXCEPT !.msg = Len(messages) + 1]
      OBVIOUS
    <3>2. PICK e : e = [conv |-> local[r].conv, from |-> job[r].from, type |-> "system"]
      OBVIOUS
    <3>3. /\ messages' = Append(messages, e) /\ e.conv = local[r].conv
          /\ pc[r] = "system_store" /\ Keep(r, l, "system_preview")
      BY <2>5, <3>1, <3>2 DEF SystemStore, Posted
    <3>4. Kept(l) /\ l.msg = Len(messages) + 1 /\ l.conv = local[r].conv
      BY <3>1 DEF Handles, Kept
    <3> QED BY <1>5, <3>3, <3>4
  <2>6. CASE SystemPreview(r)
    <3>1. PICK a : a = Reply(job[r], local[r].conv, local[r].msg, local[r].to,
                     IF job[r].pattern = "chat.leave_group" THEN {}
                     ELSE {[id |-> local[r].conv, group |-> TRUE, who |-> local[r].to]}, <<>>)
      OBVIOUS
    <3>2. /\ a.req = job[r] /\ Done(r, a) /\ UNCHANGED messages /\ pc[r] = "system_preview"
          /\ a.ok /\ a.conv = local[r].conv /\ a.msg = local[r].msg /\ a.to = local[r].to
          /\ job[r].pattern \in {"chat.leave_group", "chat.add_group_members"}
      BY <2>6, <3>1 DEF SystemPreview, Reply, Handles
    <3> QED BY <1>3, <3>2 DEF Telling
  <2> QED BY <1>8, <2>1, <2>2, <2>3, <2>4, <2>5, <2>6 DEF GroupStep
<1>9. CASE ListStep(r)
  <2>1. CASE ListFind(r)
    <3>1. pc[r] = "chat.list_messages" /\ job[r].pattern = "chat.list_messages"
      BY <2>1 DEF ListFind, Handles, Patterns
    <3>2. Refuse(r) \/ (UNCHANGED messages /\ \E l : Kept(l) /\ Keep(r, l, "list_find"))
      BY <2>1 DEF ListFind, database, Kept, Nothing
    <3> QED BY <1>1, <1>4, <3>1, <3>2 DEF Telling, Patterns
  <2>2. CASE ListMessages(r)
    <3>1. PICK a : a = Reply(job[r], job[r].conv, 0, {}, {}, Page(job[r].conv))
      OBVIOUS
    <3>2. /\ a.req = job[r] /\ Done(r, a) /\ UNCHANGED messages /\ pc[r] = "list_find"
          /\ a.ok /\ a.msg = 0 /\ a.page = Page(job[r].conv)
          /\ job[r].pattern = "chat.list_messages"
      BY <2>2, <3>1 DEF ListMessages, Reply, Handles, database
    <3> QED BY <1>3, <3>2
  <2>3. CASE ListConversations(r)
    <3>1. PICK a : a = Reply(job[r], NoConv, 0, {}, RowsOf(job[r].from), <<>>)
      OBVIOUS
    <3>2. /\ a.req = job[r] /\ Done(r, a) /\ UNCHANGED messages
          /\ pc[r] = "chat.list_conversations" /\ a.ok /\ a.msg = 0
          /\ job[r].pattern = "chat.list_conversations"
      BY <2>3, <3>1 DEF ListConversations, Reply, Handles, database, Patterns
    <3> QED BY <1>3, <3>2 DEF Telling
  <2> QED BY <1>9, <2>1, <2>2, <2>3 DEF ListStep
<1>10. CASE Crash(r)
  <2>1. /\ pc[r] # "idle" /\ Release(r) /\ Forget(r) /\ UNCHANGED <<messages, rpc>>
        /\ \A m \in inbox' : m \in inbox \/ m = job[r]
    BY <1>10 DEF Crash, Die, Redeliver, database
  <2>2. Handles' /\ Alone(r) /\ pc'[r] = "idle"
    BY <2>1, FreePlace, PlacesKept
  <2>3. Moves(r)
    BY <2>1, <2>2 DEF Moves, Telling
  <2> QED BY <2>2, <2>3 DEF Goal
<1>11. CASE ExpireSession(r)
  <2>1. /\ pc[r] # "idle" /\ UNCHANGED <<messages, rpc, pc, job, local>>
        /\ \A m \in inbox' : m \in inbox \/ m = job[r]
    BY <1>11 DEF ExpireSession, OutliveSession, Redeliver, database
  <2>2. Alone(r) /\ Moves(r)
    BY <2>1 DEF Alone, Moves
  <2>3. Handles'
    BY <2>1 DEF Handles
  <2> QED BY <2>2, <2>3 DEF Goal
<1>12. CASE QueryFails(r)
  <2>1. PICK a : a = Error(job[r])
    OBVIOUS
  <2>2. /\ a.req = job[r] /\ ~a.ok /\ Answer(job[r], a) /\ UNCHANGED <<messages, inbox>>
        /\ Release(r) /\ Forget(r)
    BY <1>12, <2>1 DEF QueryFails, Error, Throw, database
  <2>3. Handles' /\ Alone(r) /\ pc'[r] = "idle"
    BY <2>2, FreePlace, PlacesKept
  <2>4. Answers(r, a)
    BY <2>2, <2>3 DEF Answers
  <2> QED BY <2>2, <2>3, <2>4 DEF Goal
<1> QED
  BY <1>6, <1>7, <1>8, <1>9, <1>10, <1>11, <1>12 DEF ServiceStep, ServiceFault

\* A fault stores nothing, and what it answers is an error.
LEMMA FaultShape ==
    ASSUME Handles, NEW r \in Replicas, ServiceFault(r)
    PROVE  Moves(r) \/ \E a : Answers(r, a) /\ ~a.ok
<1>1. CASE Crash(r) \/ ExpireSession(r)
  <2>1. UNCHANGED <<messages, rpc>>
    BY <1>1 DEF Crash, ExpireSession, database
  <2>2. pc'[r] = "idle" \/ UNCHANGED <<pc, local>>
    BY <1>1 DEF Crash, ExpireSession, Die, Release, OutliveSession, Handles
  <2> QED BY <2>1, <2>2 DEF Moves, Telling
<1>2. CASE QueryFails(r)
  <2>1. PICK a : a = Error(job[r])
    OBVIOUS
  <2>2. /\ a.req = job[r] /\ ~a.ok /\ Answer(job[r], a) /\ UNCHANGED messages
        /\ pc'[r] = "idle"
    BY <1>2, <2>1 DEF QueryFails, Error, Throw, Release, database, Handles
  <2> QED BY <2>2 DEF Answers
<1> QED BY <1>1, <1>2 DEF ServiceFault

\* What is not chat-service moves no handler.
LEMMA OutsideHandles ==
    ASSUME Handles, Outside
    PROVE  Handles'
<1>1. \A m \in inbox' : m.pattern \in Patterns
  BY DEF Handles, Outside, Asked
<1> QED BY <1>1 DEF Handles, Outside

-----------------------------------------------------------------------------
(* What is in a conversation, and what is sent of it *)

InConv(c) == {i \in 1..Len(messages) : messages[i].conv = c}

\* A thread is its conversation's messages, and a page the first of them.
LEMMA ThreadIs ==
    ASSUME IsList(messages), NEW c
    PROVE  /\ IsFiniteSet(InConv(c)) /\ InConv(c) \in SUBSET Int
           /\ Els(Thread(c)) = InConv(c) /\ Len(Thread(c)) = Cardinality(InConv(c))
           /\ IsList(Page(c)) /\ Once(Page(c)) /\ Els(Page(c)) \subseteq InConv(c)
           /\ Cardinality(InConv(c)) <= PageSize => Els(Page(c)) = InConv(c)
<1>1. Len(messages) \in Nat
  BY ListLen
<1>2. IsFiniteSet(InConv(c)) /\ InConv(c) \in SUBSET Int
  <2>1. IsFiniteSet(1..Len(messages)) /\ InConv(c) \subseteq 1..Len(messages)
    BY <1>1, FS_Interval DEF InConv
  <2>2. IsFiniteSet(InConv(c))
    BY <2>1, FS_Subset
  <2>3. \A i \in InConv(c) : i \in Int
    BY <1>1, <2>1
  <2> QED BY <2>2, <2>3
<1>3. PICK t, n : t = Thread(c) /\ n = Cardinality(InConv(c))
  OBVIOUS
<1>4. IsList(t) /\ Len(t) = n /\ Els(t) = InConv(c) /\ Once(t)
  BY <1>2, <1>3, AscendingList DEF Thread, InConv
<1>5. PICK k : k = IF n < PageSize THEN n ELSE PageSize
  OBVIOUS
<1>6. n \in Nat /\ k \in 0..n /\ (n <= PageSize => k = n)
  BY <1>2, <1>3, <1>5, ChatAssumption, FS_CardinalityType
<1>7. Page(c) = SubSeq(t, 1, k)
  BY <1>3, <1>4, <1>5 DEF Page
<1>8. /\ IsList(Page(c)) /\ Els(Page(c)) \subseteq Els(t) /\ Once(Page(c))
      /\ k = n => Els(Page(c)) = Els(t)
  BY <1>4, <1>6, <1>7, FirstList
<1> QED BY <1>2, <1>3, <1>4, <1>6, <1>8

\* A list of one.
LEMMA SingleList ==
    ASSUME NEW e
    PROVE  IsList(<<e>>) /\ Els(<<e>>) = {e}
<1>1. PICK t : t = <<e>>
  OBVIOUS
<1>2. t \in Seq({e}) /\ Len(t) = 1 /\ t[1] = e
  BY <1>1
<1>3. \A i \in 1..Len(t) : t[i] = e
  BY <1>2
<1>4. e \in Els(t)
  BY <1>2 DEF Els
<1>5. Els(t) = {e}
  BY <1>3, <1>4 DEF Els
<1> QED BY <1>1, <1>2, <1>5 DEF IsList

\* What is pushed of an answer: its message, and perhaps a change of a group.
LEMMA PushesList ==
    ASSUME NEW a
    PROVE  /\ IsList(Pushes(a))
           /\ \A e \in Els(Pushes(a)) :
                  e.type = "message" => a.msg # 0 /\ e.msg = a.msg /\ e.conv = a.conv
           /\ a.msg # 0 => \E e \in Els(Pushes(a)) :
                  e.type = "message" /\ e.msg = a.msg /\ e.conv = a.conv
<1>1. PICK first : first = IF a.msg = 0 THEN <<>>
                           ELSE <<[type |-> "message", conv |-> a.conv, msg |-> a.msg]>>
  OBVIOUS
<1>2. PICK then : then = CASE a.req.pattern = "chat.leave_group" ->
                                  <<[type |-> "left", conv |-> a.conv]>>
                           [] a.req.pattern = "chat.add_group_members" ->
                                  <<[type |-> "added", row |-> CHOOSE w \in a.rows : TRUE]>>
                           [] OTHER -> <<>>
  OBVIOUS
<1>3. Pushes(a) = first \o then
  BY <1>1, <1>2 DEF Pushes
<1>4. /\ IsList(first)
      /\ \A e \in Els(first) : a.msg # 0 /\ e.msg = a.msg /\ e.conv = a.conv
      /\ a.msg # 0 => \E e \in Els(first) :
             e.type = "message" /\ e.msg = a.msg /\ e.conv = a.conv
  <2>1. CASE a.msg = 0
    BY <1>1, <2>1, EmptyList
  <2>2. CASE a.msg # 0
    <3>1. PICK e : e = [type |-> "message", conv |-> a.conv, msg |-> a.msg]
      OBVIOUS
    <3>2. e.type = "message" /\ e.msg = a.msg /\ e.conv = a.conv
      BY <3>1
    <3>3. first = <<e>>
      BY <1>1, <2>2, <3>1
    <3>4. IsList(first) /\ Els(first) = {e}
      BY <3>3, SingleList
    <3> QED BY <2>2, <3>2, <3>4
  <2> QED BY <2>1, <2>2
<1>5. IsList(then) /\ \A e \in Els(then) : e.type # "message"
  <2>1. CASE then = <<>>
    BY <2>1, EmptyList
  <2>2. CASE \E e : then = <<e>> /\ e.type # "message"
    BY <2>2, SingleList
  <2>3. then = <<>> \/ \E e : then = <<e>> /\ e.type # "message"
    <3>1. PICK e, f : /\ e = [type |-> "left", conv |-> a.conv]
                      /\ f = [type |-> "added", row |-> CHOOSE w \in a.rows : TRUE]
      OBVIOUS
    <3>2. then \in {<<>>, <<e>>, <<f>>}
      BY <1>2, <3>1
    <3>3. e.type # "message" /\ f.type # "message"
      BY <3>1
    <3> QED BY <3>2, <3>3
  <2> QED BY <2>1, <2>2, <2>3
<1>6. IsList(first \o then) /\ Els(first \o then) = Els(first) \cup Els(then)
  BY <1>4, <1>5, ConcatList
<1> QED BY <1>3, <1>4, <1>5, <1>6

\* An answer names messages where they are, and a page names none twice.
Sent(a) ==
    a.ok =>
        /\ a.msg # 0 \/ a.req.pattern = "chat.send_message" => a.msg \in InConv(a.conv)
        /\ a.req.pattern = "chat.list_messages" => IsList(a.page) /\ Once(a.page)

\* A message a handler is about to tell of is where it says.
Tells(r) == pc[r] \in Telling => local[r].msg \in InConv(local[r].conv)

\* Lists are lists, threads show nothing twice, and whatever names a message
\* names one that is stored.
PagesInv ==
    /\ IsList(messages)
    /\ active = [u \in Online |-> active[u]]
    /\ crossed \in [Online -> BOOLEAN]
    /\ thread = [u \in Online |-> thread[u]]
    /\ socket = [u \in Online |-> socket[u]]
    /\ \A u \in Online :
           /\ IsList(thread[u]) /\ Once(thread[u])
           /\ IsList(socket[u])
           /\ \A e \in Els(socket[u]) : e.type = "message" => e.msg \in InConv(e.conv)
    /\ \A r \in Replicas : Tells(r)
    /\ \A a \in answers \cup http : Sent(a)

\* No message leaves its conversation.
LEMMA ConvGrows ==
    ASSUME IsList(messages), NEW e, messages' = Append(messages, e)
    PROVE  /\ IsList(messages') /\ \A c : InConv(c) \subseteq InConv(c)'
           /\ Len(messages) + 1 \in InConv(e.conv)'
           /\ \A c, k : k \in InConv(c)' => k \in InConv(c) \/ (k = Len(messages) + 1 /\ c = e.conv)
<1>1. /\ IsList(messages') /\ Len(messages') = Len(messages) + 1 /\ Len(messages) \in Nat
      /\ \A i \in 1..Len(messages) : messages'[i] = messages[i]
      /\ messages'[Len(messages) + 1] = e
  BY AppendList, ListLen
<1>2. /\ 1..Len(messages) \subseteq 1..Len(messages')
      /\ \A i \in 1..Len(messages') : i \in 1..Len(messages) \/ i = Len(messages) + 1
      /\ Len(messages) + 1 \in 1..Len(messages')
  BY <1>1
<1> QED BY <1>1, <1>2 DEF InConv

\* The service stores messages, and answers with what it stored or found.
LEMMA ServicePages ==
    ASSUME Handles, PagesInv, NEW r \in Replicas, Service(r) \/ ServiceFails(r)
    PROVE  PagesInv'
<1>1. /\ Handles' /\ Alone(r)
      /\ Stores(r) \/ Moves(r) \/ \E a : Answers(r, a)
  BY ServiceShape DEF Service, ServiceFails
<1>2. /\ UNCHANGED <<http, socket, thread, active>>
      /\ crossed' \in [Online -> BOOLEAN]
  BY DEF Service, ServiceFails, page, PagesInv, Missed
<1>3. ASSUME IsList(messages'), \A c : InConv(c) \subseteq InConv(c)',
             Tells(r)',
             \A a \in answers' : a \in answers \/ Sent(a)'
      PROVE  PagesInv'
  <2>1. ASSUME NEW q \in Replicas PROVE Tells(q)'
    <3>1. CASE q = r
      BY <1>3, <3>1
    <3>2. CASE q # r
      <4>1. pc'[q] = pc[q] /\ local'[q] = local[q]
        BY <1>1, <3>2 DEF Alone
      <4>2. PICK c : c = local[q].conv
        OBVIOUS
      <4>3. pc[q] \in Telling => local[q].msg \in InConv(c)'
        BY <1>3, <4>2 DEF PagesInv, Tells
      <4> QED BY <4>1, <4>2, <4>3 DEF Tells, InConv
    <3> QED BY <3>1, <3>2
  <2>2. ASSUME NEW a \in answers' \cup http' PROVE Sent(a)'
    <3>1. CASE a \in answers \cup http
      BY <1>3, <3>1 DEF PagesInv, Sent
    <3>2. CASE a \notin answers \cup http
      BY <1>2, <1>3, <2>2, <3>2
    <3> QED BY <3>1, <3>2
  <2>3. ASSUME NEW u \in Online
        PROVE  /\ IsList(thread'[u]) /\ Once(thread'[u]) /\ IsList(socket'[u])
               /\ \A e \in Els(socket'[u]) : e.type = "message" => e.msg \in InConv(e.conv)'
    <3>1. /\ thread'[u] = thread[u] /\ socket'[u] = socket[u]
          /\ IsList(thread[u]) /\ Once(thread[u]) /\ IsList(socket[u])
          /\ \A e \in Els(socket[u]) : e.type = "message" => e.msg \in InConv(e.conv)
      BY <1>2 DEF PagesInv
    <3> QED BY <1>3, <3>1
  <2> QED BY <1>2, <1>3, <2>1, <2>2, <2>3 DEF PagesInv
<1>4. CASE Stores(r)
  <2>1. PICK e : e.conv = local[r].conv /\ messages' = Append(messages, e)
    BY <1>4 DEF Stores
  <2>2. /\ local'[r].msg = Len(messages) + 1 /\ local'[r].conv = e.conv
        /\ answers' = answers
    BY <1>4, <2>1 DEF Stores, rpc
  <2>3. /\ IsList(messages') /\ \A c : InConv(c) \subseteq InConv(c)'
        /\ Len(messages) + 1 \in InConv(e.conv)'
    BY <2>1, ConvGrows DEF PagesInv
  <2>4. Tells(r)'
    BY <2>2, <2>3 DEF Tells, InConv
  <2> QED BY <1>3, <2>2, <2>3, <2>4
<1>5. CASE Moves(r)
  <2>1. messages' = messages /\ answers' = answers /\ \A c : InConv(c)' = InConv(c)
    BY <1>5 DEF Moves, rpc, InConv
  <2>2. Tells(r)'
    BY <1>5, <2>1 DEF Moves, PagesInv, Tells, InConv
  <2> QED BY <1>3, <2>1, <2>2 DEF PagesInv
<1>6. ASSUME NEW a, Answers(r, a) PROVE PagesInv'
  <2>1. messages' = messages /\ \A c : InConv(c)' = InConv(c)
    BY <1>6 DEF Answers, InConv
  <2>2. pc'[r] \notin Telling /\ a.req = job[r]
    BY <1>6 DEF Answers, Telling
  <2>3. Sent(a)
    <3>1. CASE ~a.ok
      BY <3>1 DEF Sent
    <3>2. CASE a.ok /\ pc[r] \in Telling
      <4>1. /\ a.conv = local[r].conv /\ a.msg = local[r].msg
            /\ a.req.pattern # "chat.list_messages"
        BY <1>6, <2>2, <3>2 DEF Answers, Telling
      <4> QED BY <3>2, <4>1 DEF Sent, PagesInv, Tells
    <3>3. CASE a.ok /\ pc[r] = "list_find"
      <4>1. a.msg = 0 /\ a.page = Page(job[r].conv) /\ a.req.pattern # "chat.send_message"
        BY <1>6, <2>2, <3>3 DEF Answers, Telling, Handles
      <4>2. IsList(a.page) /\ Once(a.page)
        BY <4>1, ThreadIs DEF PagesInv
      <4> QED BY <4>1, <4>2 DEF Sent
    <3>4. CASE a.ok /\ pc[r] \notin Telling /\ pc[r] # "list_find"
      <4>1. a.msg = 0 /\ a.req.pattern \notin {"chat.send_message", "chat.list_messages"}
        BY <1>6, <2>2, <3>4 DEF Answers
      <4> QED BY <4>1 DEF Sent
    <3> QED BY <3>1, <3>2, <3>3, <3>4
  <2>4. \A b \in answers' : b \in answers \/ b = a
    BY <1>6 DEF Answers, Answer
  <2>5. \A b \in answers' : b \in answers \/ Sent(b)'
    BY <2>1, <2>3, <2>4 DEF Sent
  <2> QED BY <1>3, <2>1, <2>2, <2>5 DEF PagesInv, Tells
<1> QED BY <1>1, <1>4, <1>5, <1>6

\* What a page shows and what is on its socket, as lists.
Listed(u) == IsList(thread[u]) /\ Once(thread[u])
Heard(u) ==
    /\ IsList(socket[u])
    /\ \A e \in Els(socket[u]) : e.type = "message" => e.msg \in InConv(e.conv)

\* The functions of the pages stay functions.
PagesAre ==
    /\ active = [u \in Online |-> active[u]]
    /\ crossed \in [Online -> BOOLEAN]
    /\ thread = [u \in Online |-> thread[u]]
    /\ socket = [u \in Online |-> socket[u]]

LEMMA OutsidePages ==
    ASSUME PagesInv, Outside, PagesAre', \A u \in Online : Listed(u)' /\ Heard(u)',
           \A a \in answers' \cup http' : a \in answers \cup http \/ Sent(a)
    PROVE  PagesInv'
<1>1. /\ messages' = messages /\ pc' = pc /\ local' = local
      /\ \A c : InConv(c)' = InConv(c)
  BY DEF Outside, InConv
<1>2. ASSUME NEW r \in Replicas PROVE Tells(r)'
  BY <1>1 DEF PagesInv, Tells, InConv
<1>3. ASSUME NEW a \in answers' \cup http' PROVE Sent(a)'
  <2>1. Sent(a)
    BY <1>3 DEF PagesInv
  <2> QED BY <1>1, <2>1 DEF Sent
<1>4. IsList(messages')
  BY <1>1 DEF PagesInv
<1> QED BY <1>2, <1>3, <1>4 DEF PagesInv, PagesAre, Listed, Heard

\* What did not change is as it was.
LEMMA SameListed ==
    ASSUME PagesInv, NEW u \in Online, thread'[u] = thread[u]
    PROVE  Listed(u)'
BY DEF PagesInv, Listed

LEMMA SameHeard ==
    ASSUME PagesInv, Outside, NEW u \in Online, socket'[u] = socket[u]
    PROVE  Heard(u)'
<1>1. \A c : InConv(c)' = InConv(c)
  BY DEF Outside, InConv
<1>2. IsList(socket[u]) /\ \A e \in Els(socket[u]) : e.type = "message" => e.msg \in InConv(e.conv)
  BY DEF PagesInv
<1> QED BY <1>1, <1>2 DEF Heard

\* A message is shown only if it is not shown yet.
LEMMA WithOnce ==
    ASSUME PagesInv, NEW u \in Online, NEW k
    PROVE  /\ IsList(With(u, k)) /\ Once(With(u, k))
           /\ Els(With(u, k)) = Els(thread[u]) \cup {k}
<1>1. IsList(thread[u]) /\ Once(thread[u])
  BY DEF PagesInv
<1>2. CASE Shown(u, k)
  <2>1. With(u, k) = thread[u] /\ k \in Els(thread[u])
    BY <1>2 DEF With, Shown, Els
  <2> QED BY <1>1, <2>1
<1>3. CASE ~Shown(u, k)
  <2>1. With(u, k) = Append(thread[u], k) /\ k \notin Els(thread[u])
    BY <1>3 DEF With, Shown, Els
  <2> QED BY <1>1, <2>1, AppendList
<1> QED BY <1>2, <1>3

LEMMA JudgeIs ==
    ASSUME crossed \in [Online -> BOOLEAN], NEW u, NEW loads, NEW met \in BOOLEAN,
           Judge(u, loads, met)
    PROVE  /\ crossed' \in [Online -> BOOLEAN]
           /\ \A v \in Online \ {u} : crossed'[v] = crossed[v]
           /\ u \in Online /\ loads # {} => crossed'[u] = Loading(u)
           /\ u \in Online /\ loads = {} => crossed'[u] = (crossed[u] \/ (met /\ Loading(u)))
<1>1. PICK b \in BOOLEAN : b = Loading(u)
  BY DEF Loading
<1>2. crossed' = [crossed EXCEPT ![u] = IF loads # {} THEN b ELSE @ \/ (met /\ b)]
  BY <1>1 DEF Judge
<1> QED BY <1>1, <1>2

\* The gateway pushes messages that are stored.
LEMMA ForwardPages ==
    ASSUME PagesInv, Outside, NEW a \in answers, Forward(a) \/ ForwardFails(a)
    PROVE  PagesInv'
<1>1. CASE Forward(a)
  <2>1. /\ thread' = thread /\ active' = active /\ crossed' = crossed
        /\ answers' \cup http' \subseteq answers \cup http
    BY <1>1 DEF Forward, page
  <2>2. socket' = [u \in Online |->
                       IF a.ok /\ u \in a.to THEN socket[u] \o Pushes(a) ELSE socket[u]]
    BY <1>1 DEF Forward
  <2>3. PagesAre'
    BY <2>1, <2>2 DEF PagesInv, PagesAre
  <2>4. ASSUME NEW u \in Online PROVE Heard(u)'
    <3>1. CASE a.ok /\ u \in a.to
      <4>1. socket'[u] = socket[u] \o Pushes(a)
        BY <2>2, <3>1
      <4>2. /\ IsList(socket'[u]) /\ Els(socket'[u]) = Els(socket[u]) \cup Els(Pushes(a))
        BY <4>1, PushesList, ConcatList DEF PagesInv
      <4>3. a.msg # 0 => a.msg \in InConv(a.conv)
        BY <3>1 DEF PagesInv, Sent
      <4>4. \A e \in Els(socket'[u]) : e.type = "message" => e.msg \in InConv(e.conv)
        BY <4>2, <4>3, PushesList DEF PagesInv
      <4>5. \A c : InConv(c)' = InConv(c)
        BY DEF Outside, InConv
      <4> QED BY <4>2, <4>4, <4>5 DEF Heard
    <3>2. CASE ~(a.ok /\ u \in a.to)
      BY <2>2, <3>2, SameHeard
    <3> QED BY <3>1, <3>2
  <2> QED BY <2>1, <2>3, <2>4, SameListed, OutsidePages
<1>2. CASE ForwardFails(a)
  <2>1. /\ thread' = thread /\ active' = active /\ socket' = socket
        /\ crossed' \in [Online -> BOOLEAN]
        /\ \A b \in answers' \cup http' : b \in answers \cup http \/ b = Error(a.req)
    BY <1>2 DEF ForwardFails, page, PagesInv
  <2>2. Sent(Error(a.req))
    BY DEF Sent, Error
  <2>3. PagesAre'
    BY <2>1 DEF PagesInv, PagesAre
  <2> QED BY <2>1, <2>2, <2>3, SameListed, SameHeard, OutsidePages
<1> QED BY <1>1, <1>2

\* An answer is shown as the thread, or as one message more.
LEMMA AnswerPages ==
    ASSUME PagesInv, Outside, NEW a \in http, AnswerStep(a)
    PROVE  PagesInv'
<1>1. /\ socket' = socket /\ answers' = answers /\ http' = http \ {a}
  BY DEF AnswerStep, Failed, ConversationsLoaded, MessagesLoaded, AppendSentMessage,
     GroupLeft, MemberAdded, GroupCreated, Arrives
<1>2. ASSUME PagesAre', \A u \in Online : Listed(u)' PROVE PagesInv'
  BY <1>1, <1>2, SameHeard, OutsidePages
<1>3. CASE Failed(a)
  <2>1. thread' = thread /\ active' = active
    BY <1>3 DEF Failed
  <2>2. crossed' = [crossed EXCEPT ![a.req.from] = @ \/ a.req.pattern = "chat.list_messages"]
    BY <1>3 DEF Failed
  <2>3. crossed' \in [Online -> BOOLEAN]
    BY <2>2 DEF PagesInv
  <2> QED BY <1>1, <1>2, <2>1, <2>3, SameListed DEF PagesAre, PagesInv
<1>4. CASE ConversationsLoaded(a) \/ MemberAdded(a)
  <2>1. thread' = thread /\ active' = active /\ crossed' = crossed
    BY <1>4 DEF ConversationsLoaded, MemberAdded
  <2> QED BY <1>1, <1>2, <2>1, SameListed DEF PagesAre, PagesInv
<1>5. CASE MessagesLoaded(a)
  <2>1. /\ thread' = [thread EXCEPT ![a.req.from] = a.page]
        /\ active' = active /\ crossed' = crossed
        /\ IsList(a.page) /\ Once(a.page)
    BY <1>5 DEF MessagesLoaded, Arrives, PagesInv, Sent
  <2>2. ASSUME NEW u \in Online PROVE Listed(u)'
    <3>1. thread'[u] = thread[u] \/ thread'[u] = a.page
      BY <2>1 DEF PagesInv
    <3> QED BY <2>1, <3>1, SameListed DEF Listed
  <2> QED BY <1>1, <1>2, <2>1, <2>2 DEF PagesAre, PagesInv
<1>6. CASE AppendSentMessage(a)
  <2>1. PICK t : t = With(a.req.from, a.msg)
    OBVIOUS
  <2>2. /\ thread' = [thread EXCEPT ![a.req.from] = t]
        /\ active' = [active EXCEPT ![a.req.from] = a.conv]
        /\ Judge(a.req.from, Load(a.req.from, a.conv), TRUE)
    BY <1>6, <2>1 DEF AppendSentMessage
  <2>3. crossed' \in [Online -> BOOLEAN]
    BY <2>2, JudgeIs DEF PagesInv
  <2>4. ASSUME NEW u \in Online PROVE Listed(u)'
    <3>1. thread'[u] = thread[u] \/ (u = a.req.from /\ thread'[u] = t)
      BY <2>2 DEF PagesInv
    <3>2. CASE u = a.req.from /\ thread'[u] = t
      BY <2>1, <3>2, WithOnce DEF Listed
    <3> QED BY <3>1, <3>2, SameListed
  <2> QED BY <1>1, <1>2, <2>2, <2>3, <2>4 DEF PagesAre, PagesInv
<1>7. CASE GroupLeft(a)
  <2>1. /\ thread' = [thread EXCEPT ![a.req.from] = <<>>]
        /\ active' = [active EXCEPT ![a.req.from] = NoConv] /\ crossed' = crossed
    BY <1>7 DEF GroupLeft
  <2>2. ASSUME NEW u \in Online PROVE Listed(u)'
    <3>1. thread'[u] = thread[u] \/ thread'[u] = <<>>
      BY <2>1 DEF PagesInv
    <3> QED BY <3>1, SameListed, EmptyList DEF Listed
  <2> QED BY <1>1, <1>2, <2>1, <2>2 DEF PagesAre, PagesInv
<1>8. CASE GroupCreated(a)
  <2>1. /\ thread' = thread /\ active' = [active EXCEPT ![a.req.from] = a.conv]
        /\ Judge(a.req.from, Load(a.req.from, a.conv), FALSE)
    BY <1>8 DEF GroupCreated
  <2>2. crossed' \in [Online -> BOOLEAN]
    BY <2>1, JudgeIs DEF PagesInv
  <2> QED BY <1>1, <1>2, <2>1, <2>2, SameListed DEF PagesAre, PagesInv
<1> QED BY <1>3, <1>4, <1>5, <1>6, <1>7, <1>8 DEF AnswerStep

\* Typing sends one event, which is no message.
LEMMA TypeSends ==
    ASSUME NEW u, Type(u)
    PROVE  \E e, to : /\ e.type = "typing"
                      /\ socket' = [v \in Online |->
                             IF v \in to THEN Append(socket[v], e) ELSE socket[v]]
<1>1. PICK e : e = [type |-> "typing", from |-> u,
                    conv |-> IF ActiveGroup(u) # {} THEN active[u] ELSE NoConv]
  OBVIOUS
<1>2. PICK to : to = IF ActiveGroup(u) # {} THEN UNION {w.who : w \in ActiveGroup(u)} \ {u}
                     ELSE {OtherUser(u)}
  OBVIOUS
<1>3. e.type = "typing"
  BY <1>1
<1>4. socket' = [v \in Online |-> IF v \in to THEN Append(socket[v], e) ELSE socket[v]]
  BY <1>1, <1>2 DEF Type
<1> QED BY <1>3, <1>4

\* A user's step closes the thread or leaves it, and only typing is relayed.
LEMMA UserPages ==
    ASSUME PagesInv, Outside, NEW u \in Online, UserStep(u)
    PROVE  PagesInv'
<1>1. answers' = answers /\ http' = http
  BY DEF UserStep, OpenConversation, SelectPeer, SendText, SendMedia, LeaveGroup, AddMember,
     SubmitCreateGroup, Type, elsewhere, rpc
<1>2. ASSUME PagesAre', \A v \in Online : Listed(v)' /\ Heard(v)' PROVE PagesInv'
  BY <1>1, <1>2, OutsidePages
<1>3. CASE OpenConversation(u)
  <2>1. PICK c : /\ active' = [active EXCEPT ![u] = c] /\ Judge(u, Load(u, c), FALSE)
                 /\ thread' = thread /\ socket' = socket
    BY <1>3 DEF OpenConversation, elsewhere
  <2>2. crossed' \in [Online -> BOOLEAN]
    BY <2>1, JudgeIs DEF PagesInv
  <2> QED BY <1>2, <2>1, <2>2, SameListed, SameHeard DEF PagesAre, PagesInv
<1>4. CASE SelectPeer(u)
  <2>1. /\ thread' = [thread EXCEPT ![u] = <<>>] /\ active' = [active EXCEPT ![u] = NoConv]
        /\ crossed' = crossed /\ socket' = socket
    BY <1>4 DEF SelectPeer, elsewhere
  <2>2. ASSUME NEW v \in Online PROVE Listed(v)'
    <3>1. thread'[v] = thread[v] \/ thread'[v] = <<>>
      BY <2>1 DEF PagesInv
    <3> QED BY <3>1, SameListed, EmptyList DEF Listed
  <2> QED BY <1>2, <2>1, <2>2, SameHeard DEF PagesAre, PagesInv
<1>5. CASE SendText(u) \/ SendMedia(u) \/ LeaveGroup(u) \/ AddMember(u) \/ SubmitCreateGroup(u)
  <2>1. UNCHANGED <<thread, active, crossed, socket>>
    BY <1>5 DEF SendText, SendMedia, LeaveGroup, AddMember, SubmitCreateGroup, elsewhere
  <2> QED BY <1>2, <2>1, SameListed, SameHeard DEF PagesAre, PagesInv
<1>6. CASE Type(u)
  <2>1. UNCHANGED <<thread, active, crossed>>
    BY <1>6 DEF Type, page
  <2>2. PICK e, to : /\ e.type = "typing"
                     /\ socket' = [v \in Online |->
                            IF v \in to THEN Append(socket[v], e) ELSE socket[v]]
    BY <1>6, TypeSends
  <2>3. ASSUME NEW v \in Online PROVE Heard(v)'
    <3>1. CASE v \in to
      <4>1. socket'[v] = Append(socket[v], e) /\ IsList(socket[v])
        BY <2>2, <3>1 DEF PagesInv
      <4>2. IsList(socket'[v]) /\ Els(socket'[v]) = Els(socket[v]) \cup {e}
        BY <4>1, AppendList
      <4>3. \A d \in Els(socket'[v]) : d.type = "message" => d.msg \in InConv(d.conv)
        BY <2>2, <4>2 DEF PagesInv
      <4>4. \A c : InConv(c)' = InConv(c)
        BY DEF Outside, InConv
      <4> QED BY <4>2, <4>3, <4>4 DEF Heard
    <3>2. CASE v \notin to
      BY <2>2, <3>2, SameHeard
    <3> QED BY <3>1, <3>2
  <2>4. PagesAre'
    BY <2>1, <2>2 DEF PagesAre, PagesInv
  <2> QED BY <1>2, <2>1, <2>3, <2>4, SameListed
<1> QED BY <1>3, <1>4, <1>5, <1>6 DEF UserStep

\* An event is taken from the socket, and a message shown once.
LEMMA EventPages ==
    ASSUME PagesInv, Outside, NEW u \in Online,
           EventStep(u) \/ TypingStops(u) \/ SocketBreaks(u)
    PROVE  PagesInv'
<1>1. answers' = answers /\ http' = http /\ active' = active
  BY DEF EventStep, Event, Receive, SomeoneLeft, SomeoneAdded, SomeoneTypes, TypingStops,
     SocketBreaks, page, rpc, elsewhere
<1>2. ASSUME PagesAre', \A v \in Online : Listed(v)' /\ Heard(v)' PROVE PagesInv'
  BY <1>1, <1>2, OutsidePages
<1>3. CASE TypingStops(u)
  <2>1. UNCHANGED <<thread, crossed, socket>>
    BY <1>3 DEF TypingStops, elsewhere
  <2> QED BY <1>1, <1>2, <2>1, SameListed, SameHeard DEF PagesAre, PagesInv
<1>4. CASE SocketBreaks(u)
  <2>1. /\ thread' = thread /\ socket' = [socket EXCEPT ![u] = <<>>]
        /\ crossed' = [crossed EXCEPT ![u] = TRUE]
    BY <1>4 DEF SocketBreaks, page
  <2>2. ASSUME NEW v \in Online PROVE Heard(v)'
    <3>1. socket'[v] = socket[v] \/ socket'[v] = <<>>
      BY <2>1 DEF PagesInv
    <3> QED BY <3>1, SameHeard, EmptyList DEF Heard
  <2> QED BY <1>1, <1>2, <2>1, <2>2, SameListed DEF PagesAre, PagesInv
<1>5. CASE EventStep(u)
  <2>1. socket[u] # <<>> /\ socket' = [socket EXCEPT ![u] = Tail(@)]
    BY <1>5 DEF EventStep, Event, Receive, SomeoneLeft, SomeoneAdded, SomeoneTypes
  <2>2. ASSUME NEW v \in Online PROVE Heard(v)'
    <3>1. CASE v = u
      <4>1. socket'[v] = Tail(socket[v]) /\ IsList(socket[v]) /\ socket[v] # <<>>
        BY <2>1, <3>1 DEF PagesInv
      <4>2. IsList(socket'[v]) /\ Els(socket'[v]) \subseteq Els(socket[v])
        BY <4>1, TailList
      <4>3. \A d \in Els(socket'[v]) : d.type = "message" => d.msg \in InConv(d.conv)
        BY <4>2 DEF PagesInv
      <4>4. \A c : InConv(c)' = InConv(c)
        BY DEF Outside, InConv
      <4> QED BY <4>2, <4>3, <4>4 DEF Heard
    <3>2. CASE v # u
      BY <2>1, <3>2, SameHeard DEF PagesInv
    <3> QED BY <3>1, <3>2
  <2>3. /\ crossed' \in [Online -> BOOLEAN]
        /\ thread' = thread \/ \E k : thread' = [thread EXCEPT ![u] = With(u, k)]
    <3>1. CASE thread' = thread /\ crossed' = crossed
      BY <3>1 DEF PagesInv
    <3>2. CASE ~(thread' = thread /\ crossed' = crossed)
      <4>1. /\ Judge(u, {}, TRUE)
            /\ \E k : thread' = [thread EXCEPT ![u] = With(u, k)]
        BY <1>5, <3>2 DEF EventStep, Receive, SomeoneLeft, SomeoneAdded, SomeoneTypes
      <4> QED BY <4>1, JudgeIs DEF PagesInv
    <3> QED BY <3>1, <3>2
  <2>4. ASSUME NEW v \in Online PROVE Listed(v)'
    <3>1. thread'[v] = thread[v] \/ (v = u /\ \E k : thread'[v] = With(u, k))
      BY <2>3 DEF PagesInv
    <3>2. CASE v = u /\ \E k : thread'[v] = With(u, k)
      BY <3>2, WithOnce DEF Listed
    <3> QED BY <3>1, <3>2, SameListed
  <2>5. PagesAre'
    BY <1>1, <2>1, <2>3 DEF PagesAre, PagesInv
  <2> QED BY <1>2, <2>2, <2>4, <2>5
<1> QED BY <1>3, <1>4, <1>5

\* Every step keeps the pages and the places of the handlers.
LEMMA PagesStep ==
    ASSUME Handles, PagesInv, [Next]_vars
    PROVE  Handles' /\ PagesInv'
<1>1. CASE \E r \in Replicas : Service(r) \/ ServiceFails(r)
  BY <1>1, ServicePages, ServiceShape DEF Service, ServiceFails
<1>2. CASE Next /\ \A r \in Replicas : ~Service(r) /\ ~ServiceFails(r)
  <2>1. Outside
    BY <1>2, PagesOutside
  <2>2. CASE \E p \in uploads : Uploaded(p) \/ UploadFails(p)
    <3>1. UNCHANGED <<thread, active, crossed, socket, answers, http>>
      BY <2>2 DEF Uploaded, UploadFails, elsewhere, page, rpc
    <3>2. PagesAre'
      BY <3>1 DEF PagesAre, PagesInv
    <3> QED BY <2>1, <3>1, <3>2, SameListed, SameHeard, OutsidePages, OutsideHandles
  <2> QED BY <1>2, <2>1, <2>2, ForwardPages, AnswerPages, UserPages, EventPages,
             OutsideHandles DEF Next
<1>3. CASE UNCHANGED vars
  <2>1. UNCHANGED <<thread, active, crossed, socket, answers, http>> /\ Outside
    BY <1>3 DEF vars, group, database, page, rpc, Outside
  <2>2. PagesAre'
    BY <2>1 DEF PagesAre, PagesInv
  <2> QED BY <2>1, <2>2, SameListed, SameHeard, OutsidePages, OutsideHandles
<1> QED BY <1>1, <1>2, <1>3

LEMMA PagesStart ==
    ASSUME NEW groups, NEW directs, NEW opened, NEW clicked, NEW failed,
           StartFrom(groups, directs, opened, clicked, failed)
    PROVE  Handles /\ PagesInv
<1>1. IsList(messages) /\ \A u \in Online : thread[u] = <<>> /\ socket[u] = <<>>
  BY EmptyList DEF StartFrom, PageInit
<1>2. Handles
  BY DEF StartFrom, Handles, Patterns, Kept, Nothing
<1>3. PagesInv
  BY <1>1, EmptyList DEF StartFrom, PageInit, PagesInv, Tells, Telling
<1> QED BY <1>2, <1>3

\* However a message reaches a page, it is shown once.
THEOREM ShownOnce ==
    ASSUME NEW groups, NEW directs, NEW opened, NEW clicked, NEW failed
    PROVE  StartFrom(groups, directs, opened, clicked, failed) /\ [][Next]_vars
               => []NoMessageTwice
<1>1. StartFrom(groups, directs, opened, clicked, failed) => Handles /\ PagesInv
  BY PagesStart
<1>2. Handles /\ PagesInv /\ [Next]_vars => (Handles /\ PagesInv)'
  BY PagesStep
<1>3. PagesInv => NoMessageTwice
  BY DEF PagesInv, NoMessageTwice, Once
<1> QED BY <1>1, <1>2, <1>3, PTL

-----------------------------------------------------------------------------
(* What an open thread still lacks is on its way to it. *)

\* A message that a handler has stored and will tell of, an answer will push
\* or bring to its sender, or the socket holds.
Coming(u, c, k) ==
    \/ \E r \in Replicas : pc[r] \in Telling /\ local[r].msg = k /\ local[r].conv = c
    \/ \E a \in answers :
           /\ a.ok /\ a.msg = k /\ a.conv = c
           /\ u \in a.to \/ (u = a.req.from /\ a.req.pattern = "chat.send_message")
    \/ \E a \in http :
           /\ a.ok /\ a.msg = k /\ a.conv = c
           /\ u = a.req.from /\ a.req.pattern = "chat.send_message"
    \/ \E e \in Els(socket[u]) : e.type = "message" /\ e.msg = k /\ e.conv = c

\* A set of messages holds a conversation but for what is coming.
Shows(S, u, c) ==
    /\ S \subseteq InConv(c)
    /\ Cardinality(InConv(c)) <= PageSize => \A k \in InConv(c) : k \in S \/ Coming(u, c, k)

IsLoad(m, u) == m.from = u /\ m.pattern = "chat.list_messages"

\* A page no race has touched loads its conversation once, and what the load
\* brings, or the thread when it is loaded, holds all but what is coming.
Follows(u, c) ==
    /\ \A m \in awaiting : IsLoad(m, u) =>
          /\ m.conv = c
          /\ \A n \in awaiting : IsLoad(n, u) => n = m
          /\ \A a \in answers \cup http : ~IsLoad(a.req, u)
    /\ \A a \in answers \cup http : IsLoad(a.req, u) =>
          /\ \A b \in answers \cup http : IsLoad(b.req, u) => b = a
          /\ a.ok => Shows(Els(a.page), u, c)
    /\ \A a \in answers \cap http : ~IsLoad(a.req, u)
    /\ ~Loading(u) => Shows(Els(thread[u]), u, c)

\* The conversation open on a page no race has touched.
Watched(u, c) == active[u] = c /\ c # NoConv /\ ~crossed[u]
Follow == \A u \in Online : \A c : Watched(u, c) => Follows(u, c)

LEMMA LoadingIs ==
    ASSUME NEW u
    PROVE  Loading(u) <=> \/ \E m \in awaiting : IsLoad(m, u)
                          \/ \E a \in answers \cup http : IsLoad(a.req, u)
BY DEF Loading, IsLoad

\* What a set holds of a conversation it still holds when a message is stored
\* that is coming.
LEMMA ShowsOn ==
    ASSUME PagesInv, PagesInv', NEW u, NEW c, NEW S, NEW T, Shows(S, u, c),
           S \subseteq T, T \subseteq InConv(c)', InConv(c) \subseteq InConv(c)',
           \A k \in InConv(c)' :
               k \in T \/ Coming(u, c, k)' \/ (k \in InConv(c) /\ ~Coming(u, c, k))
    PROVE  Shows(T, u, c)'
<1>1. SUFFICES ASSUME Cardinality(InConv(c)') <= PageSize, NEW k \in InConv(c)', k \notin T
               PROVE  Coming(u, c, k)'
  BY DEF Shows
<1>2. IsFiniteSet(InConv(c)) /\ IsFiniteSet(InConv(c)')
  <2>1. IsFiniteSet(InConv(c))
    BY ThreadIs DEF PagesInv
  <2>2. Len(messages') \in Nat
    BY ListLen DEF PagesInv
  <2>3. IsFiniteSet(1..Len(messages'))
    BY <2>2, FS_Interval
  <2>4. InConv(c)' \subseteq 1..Len(messages')
    BY DEF InConv
  <2> QED BY <2>1, <2>3, <2>4, FS_Subset
<1>3. Cardinality(InConv(c)) <= Cardinality(InConv(c)')
  BY <1>2, FS_Subset
<1>4. Cardinality(InConv(c)) \in Nat /\ Cardinality(InConv(c)') \in Nat /\ PageSize \in Nat
  BY <1>2, FS_CardinalityType, ChatAssumption
<1>5. Cardinality(InConv(c)) <= PageSize
  BY <1>1, <1>3, <1>4
<1>6. Coming(u, c, k)' \/ (k \in InConv(c) /\ ~Coming(u, c, k))
  BY <1>1
<1>7. ASSUME k \in InConv(c), ~Coming(u, c, k) PROVE FALSE
  <2>1. k \in S
    BY <1>5, <1>7 DEF Shows
  <2> QED BY <1>1, <2>1
<1> QED BY <1>6, <1>7

\* A page follows on while its loads and its thread stay, and what is stored
\* or was coming is coming.
LEMMA FollowsOn ==
    ASSUME PagesInv, PagesInv', NEW u \in Online, NEW c, thread'[u] = thread[u], Follows(u, c),
           \A m : IsLoad(m, u) => (m \in awaiting' <=> m \in awaiting),
           \A a : IsLoad(a.req, u) => (a \in answers' \cup http' <=> a \in answers \cup http),
           \A a \in answers' \cap http' : IsLoad(a.req, u) => a \in answers \cap http,
           InConv(c) \subseteq InConv(c)',
           \A k \in InConv(c)' : Coming(u, c, k)' \/ (k \in InConv(c) /\ ~Coming(u, c, k))
    PROVE  Follows(u, c)'
<1>1. ASSUME NEW S, Shows(S, u, c) PROVE Shows(S, u, c)'
  <2>1. S \subseteq InConv(c)'
    BY <1>1 DEF Shows
  <2> QED BY <1>1, <2>1, ShowsOn
<1>2. Loading(u)' <=> Loading(u)
  BY DEF Loading, IsLoad
<1>3. ASSUME NEW m \in awaiting', IsLoad(m, u)
      PROVE  /\ m.conv = c
             /\ \A n \in awaiting' : IsLoad(n, u) => n = m
             /\ \A a \in answers' \cup http' : ~IsLoad(a.req, u)
  <2>1. m \in awaiting
    BY <1>3
  <2> QED BY <1>3, <2>1 DEF Follows
<1>4. ASSUME NEW a \in answers' \cup http', IsLoad(a.req, u)
      PROVE  /\ \A b \in answers' \cup http' : IsLoad(b.req, u) => b = a
             /\ a.ok => Shows(Els(a.page), u, c)'
  <2>1. a \in answers \cup http
    BY <1>4
  <2>2. a.ok => Shows(Els(a.page), u, c)
    BY <1>4, <2>1 DEF Follows
  <2>3. \A b \in answers' \cup http' : IsLoad(b.req, u) => b = a
    BY <1>4, <2>1 DEF Follows
  <2> QED BY <1>1, <2>2, <2>3
<1>5. \A a \in answers' \cap http' : ~IsLoad(a.req, u)
  BY DEF Follows
<1>6. ~Loading(u)' => Shows(Els(thread[u]), u, c)'
  BY <1>1, <1>2 DEF Follows
<1> QED BY <1>3, <1>4, <1>5, <1>6 DEF Follows, IsLoad

\* A handler that is to tell of its message does, unless a fault stops it.
LEMMA TellAnswers ==
    ASSUME Handles, NEW r \in Replicas, ServiceStep(r), pc[r] \in Telling
    PROVE  \E a : Answers(r, a) /\ a.ok
<1>1. SendPreview(r) \/ SystemPreview(r)
  <2>1. ~Begin(r)
    BY DEF Begin, Take, Telling
  <2>2. ~SendInto(r) /\ ~SendTo(r) /\ ~SendCreate(r) /\ ~SendStore(r)
    BY DEF SendInto, SendTo, SendCreate, SendStore, Telling
  <2>3. /\ ~CreateGroup(r) /\ ~CreateAnswer(r) /\ ~LeaveFind(r) /\ ~LeavePull(r)
        /\ ~AddFind(r) /\ ~AddSet(r) /\ ~AddReload(r) /\ ~SystemStore(r)
    BY DEF CreateGroup, CreateAnswer, LeaveFind, LeavePull, AddFind, AddSet, AddReload,
       SystemStore, Telling
  <2>4. ~ListFind(r) /\ ~ListMessages(r) /\ ~ListConversations(r)
    BY DEF ListFind, ListMessages, ListConversations, Telling
  <2> QED BY <2>1, <2>2, <2>3, <2>4 DEF ServiceStep, SendStep, GroupStep, ListStep
<1>2. PICK conv, msg, to, rws :
          /\ Done(r, Reply(job[r], conv, msg, to, rws, <<>>)) /\ UNCHANGED messages
          /\ conv = local[r].conv /\ msg = local[r].msg /\ to = local[r].to
          /\ \/ pc[r] = "send_preview" /\ job[r].pattern = "chat.send_message"
             \/ /\ pc[r] = "system_preview"
                /\ job[r].pattern \in {"chat.leave_group", "chat.add_group_members"}
  <2>1. CASE SendPreview(r)
    BY <2>1 DEF SendPreview, Handles
  <2>2. CASE SystemPreview(r)
    BY <2>2 DEF SystemPreview, Handles
  <2> QED BY <1>1, <2>1, <2>2
<1>3. PICK a : a = Reply(job[r], conv, msg, to, rws, <<>>)
  OBVIOUS
<1>4. /\ a.req = job[r] /\ a.ok /\ a.conv = local[r].conv /\ a.msg = local[r].msg
      /\ a.to = local[r].to
  BY <1>2, <1>3 DEF Reply
<1>5. pc'[r] = "idle" /\ Answer(job[r], a)
  BY <1>2, <1>3 DEF Done, Finish, Release, Handles
<1> QED BY <1>2, <1>4, <1>5 DEF Answers

\* What is coming still is, unless it was for the handler at work to tell.
LEMMA ComingOn ==
    ASSUME NEW r \in Replicas, Alone(r), UNCHANGED <<http, socket>>, answers \subseteq answers',
           NEW u, NEW c, NEW k, Coming(u, c, k),
           ~(pc[r] \in Telling /\ local[r].msg = k /\ local[r].conv = c)
    PROVE  Coming(u, c, k)'
<1>1. CASE \E q \in Replicas : pc[q] \in Telling /\ local[q].msg = k /\ local[q].conv = c
  <2>1. PICK q \in Replicas : pc[q] \in Telling /\ local[q].msg = k /\ local[q].conv = c
    BY <1>1
  <2>2. pc'[q] = pc[q] /\ local'[q] = local[q]
    BY <2>1 DEF Alone
  <2> QED BY <2>1, <2>2 DEF Coming
<1>2. CASE \E a \in answers :
               /\ a.ok /\ a.msg = k /\ a.conv = c
               /\ u \in a.to \/ (u = a.req.from /\ a.req.pattern = "chat.send_message")
  BY <1>2 DEF Coming
<1>3. CASE \E a \in http :
               /\ a.ok /\ a.msg = k /\ a.conv = c
               /\ u = a.req.from /\ a.req.pattern = "chat.send_message"
  BY <1>3 DEF Coming
<1>4. CASE \E e \in Els(socket[u]) : e.type = "message" /\ e.msg = k /\ e.conv = c
  <2>1. socket'[u] = socket[u]
    OBVIOUS
  <2> QED BY <1>4, <2>1 DEF Coming
<1> QED BY <1>1, <1>2, <1>3, <1>4 DEF Coming

\* The load of a page is answered with all there is, or with an error.
LEMMA LoadAnswered ==
    ASSUME NEW u \in Online, NEW c, Follows(u, c), NEW m \in awaiting, IsLoad(m, u),
           NEW a, a.req = m, answers' = answers \cup {a}, awaiting' = awaiting \ {m},
           http' = http, a.ok => Shows(Els(a.page), u, c)'
    PROVE  Follows(u, c)'
<1>1. \A n \in awaiting' : ~IsLoad(n, u)
  BY DEF Follows
<1>2. \A b \in answers' \cup http' : IsLoad(b.req, u) => b = a
  BY DEF Follows
<1>3. Loading(u)'
  BY DEF Loading, IsLoad
<1>4. \A b \in answers' \cap http' : ~IsLoad(b.req, u)
  BY DEF Follows
<1> QED BY <1>1, <1>2, <1>3, <1>4 DEF Follows, IsLoad

\* chat-service keeps what is coming to a page coming, or the page is no
\* longer one that no race or fault touched.
LEMMA ServiceFollow ==
    ASSUME Handles, PagesInv, PagesInv', Follow, NEW r \in Replicas,
           Service(r) \/ ServiceFails(r)
    PROVE  Follow'
<1>1. /\ UNCHANGED <<http, socket, thread, active>> /\ Alone(r)
      /\ Stores(r) \/ Moves(r) \/ \E a : Answers(r, a)
  BY ServiceShape DEF Service, ServiceFails, page
<1>2. SUFFICES ASSUME NEW u \in Online, NEW c, Watched(u, c)' PROVE Follows(u, c)'
  BY DEF Follow
<1>3. /\ Watched(u, c)
      /\ \/ ServiceStep(r) /\ ~Missed(r, u, FALSE)
         \/ ServiceFault(r) /\ ~Missed(r, u, TRUE)
  <2>1. active'[u] = c /\ c # NoConv /\ ~crossed'[u]
    BY <1>2 DEF Watched
  <2>2. CASE Service(r)
    BY <1>1, <2>1, <2>2 DEF Service, Watched
  <2>3. CASE ServiceFails(r)
    BY <1>1, <2>1, <2>3 DEF ServiceFails, Watched
  <2> QED BY <2>2, <2>3
<1>4. Follows(u, c) /\ active[u] = c
  BY <1>3 DEF Follow, Watched
<1>5. ASSUME rpc' = rpc PROVE
          /\ \A m : IsLoad(m, u) => (m \in awaiting' <=> m \in awaiting)
          /\ \A a : IsLoad(a.req, u) => (a \in answers' \cup http' <=> a \in answers \cup http)
          /\ \A a \in answers' \cap http' : IsLoad(a.req, u) => a \in answers \cap http
  BY <1>1, <1>5 DEF rpc
<1>6. CASE Stores(r)
  <2>1. PICK e : e.conv = local[r].conv /\ messages' = Append(messages, e)
    BY <1>6 DEF Stores
  <2>2. /\ local'[r].msg = Len(messages) + 1 /\ local'[r].conv = e.conv
        /\ rpc' = rpc /\ pc[r] \notin Telling /\ pc'[r] \in Telling
    BY <1>6, <2>1 DEF Stores, Storing, Telling
  <2>3. /\ InConv(c) \subseteq InConv(c)'
        /\ \A k : k \in InConv(c)' => k \in InConv(c) \/ (k = Len(messages) + 1 /\ c = e.conv)
    BY <2>1, ConvGrows DEF PagesInv
  <2>4. ASSUME NEW k \in InConv(c)' PROVE Coming(u, c, k)' \/ (k \in InConv(c) /\ ~Coming(u, c, k))
    <3>1. CASE k = Len(messages) + 1 /\ c = e.conv
      BY <2>2, <3>1 DEF Coming
    <3>2. CASE k \in InConv(c) /\ Coming(u, c, k)
      BY <1>1, <2>2, <3>2, ComingOn DEF rpc
    <3> QED BY <2>3, <3>1, <3>2
  <2> QED BY <1>1, <1>4, <1>5, <2>2, <2>3, <2>4, FollowsOn
<1>7. CASE Moves(r) /\ (ServiceStep(r) => pc[r] \notin Telling)
  <2>1. /\ messages' = messages /\ rpc' = rpc /\ InConv(c)' = InConv(c)
        /\ pc'[r] \notin Telling \/ UNCHANGED <<pc, local>>
    BY <1>7 DEF Moves, InConv
  <2>2. ASSUME NEW k \in InConv(c), Coming(u, c, k) PROVE Coming(u, c, k)'
    <3>1. CASE UNCHANGED <<pc, local>>
      BY <1>1, <2>1, <2>2, <3>1 DEF Coming, rpc
    <3>2. CASE pc'[r] \notin Telling
      <4>1. ~(pc[r] \in Telling /\ local[r].conv = c)
        BY <1>3, <1>4, <1>7 DEF Missed, Telling
      <4> QED BY <1>1, <2>1, <2>2, <4>1, ComingOn DEF rpc
    <3> QED BY <2>1, <3>1, <3>2
  <2> QED BY <1>1, <1>4, <1>5, <2>1, <2>2, FollowsOn
<1>8. ASSUME NEW a, Answers(r, a), ServiceStep(r) /\ pc[r] \in Telling => a.ok
      PROVE  Follows(u, c)'
  <2>1. /\ messages' = messages /\ InConv(c)' = InConv(c) /\ a.req = job[r]
        /\ answers' = IF job[r] \in awaiting THEN answers \cup {a} ELSE answers
        /\ awaiting' = awaiting \ {job[r]}
    BY <1>8 DEF Answers, Answer, InConv
  <2>2. CASE job[r] \in awaiting /\ IsLoad(job[r], u)
    <3>1. job[r].conv = c /\ job[r].pattern = "chat.list_messages"
      BY <1>4, <2>2 DEF Follows, IsLoad
    <3>2. ASSUME a.ok PROVE Shows(Els(a.page), u, c)'
      <4>1. a.page = Page(c)
        BY <1>8, <3>1, <3>2 DEF Answers
      <4>2. /\ Els(a.page) \subseteq InConv(c)
            /\ Cardinality(InConv(c)) <= PageSize => Els(a.page) = InConv(c)
        BY <4>1, ThreadIs DEF PagesInv
      <4> QED BY <2>1, <4>2 DEF Shows
    <3> QED BY <1>1, <1>4, <2>1, <2>2, <3>2, LoadAnswered
  <2>3. CASE ~(job[r] \in awaiting /\ IsLoad(job[r], u))
    <3>1. /\ \A m : IsLoad(m, u) => (m \in awaiting' <=> m \in awaiting)
          /\ \A b : IsLoad(b.req, u) => (b \in answers' \cup http' <=> b \in answers \cup http)
          /\ \A b \in answers' \cap http' : IsLoad(b.req, u) => b \in answers \cap http
      BY <1>1, <2>1, <2>3
    <3>2. ASSUME NEW k \in InConv(c), Coming(u, c, k) PROVE Coming(u, c, k)'
      <4>1. CASE pc[r] \in Telling /\ local[r].msg = k /\ local[r].conv = c
        <5>1. /\ ServiceStep(r) /\ job[r] \in awaiting
              /\ u \in local[r].to \/ (pc[r] = "send_preview" /\ u = job[r].from)
          BY <1>3, <1>4, <4>1 DEF Missed, Telling
        <5>2. /\ a.ok /\ a.msg = k /\ a.conv = c /\ a.to = local[r].to /\ a \in answers'
              /\ pc[r] = "send_preview" => a.req.pattern = "chat.send_message"
          BY <1>8, <2>1, <4>1, <5>1 DEF Answers, Telling
        <5> QED BY <2>1, <5>1, <5>2 DEF Coming
      <4>2. CASE ~(pc[r] \in Telling /\ local[r].msg = k /\ local[r].conv = c)
        <5>1. answers \subseteq answers'
          BY <2>1
        <5> QED BY <1>1, <3>2, <4>2, <5>1, ComingOn
      <4> QED BY <4>1, <4>2
    <3> QED BY <1>1, <1>4, <2>1, <3>1, <3>2, FollowsOn
  <2> QED BY <2>2, <2>3
<1>9. CASE ServiceStep(r) /\ pc[r] \in Telling
  BY <1>8, <1>9, TellAnswers
<1> QED BY <1>1, <1>6, <1>7, <1>8, <1>9

\* Outside chat-service nothing is stored: what a page follows it follows on
\* while its thread and loads stay and what is coming stays so.
LEMMA OutsideFollows ==
    ASSUME PagesInv, PagesInv', Outside, NEW u \in Online, NEW c, Follows(u, c),
           thread'[u] = thread[u],
           \A m : IsLoad(m, u) => (m \in awaiting' <=> m \in awaiting),
           \A a : IsLoad(a.req, u) => (a \in answers' \cup http' <=> a \in answers \cup http),
           \A a \in answers' \cap http' : IsLoad(a.req, u) => a \in answers \cap http,
           \A k \in InConv(c) : Coming(u, c, k) => Coming(u, c, k)'
    PROVE  Follows(u, c)'
<1>1. InConv(c)' = InConv(c)
  BY DEF Outside, InConv
<1> QED BY <1>1, FollowsOn

LEMMA ComingOutside ==
    ASSUME Outside, answers' = answers, NEW u, NEW c, NEW k, Coming(u, c, k),
           \A a \in http : a \in http' \/ ~a.ok \/ u # a.req.from
                           \/ a.req.pattern # "chat.send_message",
           \A e \in Els(socket[u]) :
               e.type = "message" /\ e.msg = k /\ e.conv = c => e \in Els(socket'[u])
    PROVE  Coming(u, c, k)'
<1>1. pc' = pc /\ local' = local
  BY DEF Outside
<1> QED BY <1>1 DEF Coming

\* What is asked for when a list or a conversation is loaded.
LEMMA CallsOf ==
    /\ \A u : \A m \in Relist(u) : m.from = u /\ m.pattern = "chat.list_conversations"
    /\ \A u, c : c \in {NoConv, active[u]} => Load(u, c) = {}
    /\ \A u, c : c \notin {NoConv, active[u]} =>
           \E m : Load(u, c) = {m} /\ IsLoad(m, u) /\ m.conv = c
    /\ \A u, c, v, w : ~IsLoad(Message(u, c, v), w)
<1>1. \A u, p, c, v, who : Call(u, p, c, v, who).conv = c
  BY DEF Call
<1> QED BY <1>1, CallFields DEF Relist, Load, IsLoad, Message

\* A load that starts alone is the one the page follows.
LEMMA LoadStarts ==
    ASSUME NEW u \in Online, NEW c, ~Loading(u), NEW m, IsLoad(m, u), m.conv = c,
           NEW others, \A n \in others : ~IsLoad(n, u),
           awaiting' = awaiting \cup ({m} \cup others),
           answers' \cup http' \subseteq answers \cup http
    PROVE  Follows(u, c)'
<1>1. \A n \in awaiting' : IsLoad(n, u) => n = m
  BY DEF Loading, IsLoad
<1>2. \A a \in answers' \cup http' : ~IsLoad(a.req, u)
  BY DEF Loading, IsLoad
<1>3. Loading(u)'
  BY DEF Loading, IsLoad
<1> QED BY <1>1, <1>2, <1>3 DEF Follows, IsLoad

\* The gateway puts on the socket what was coming with an answer.
LEMMA ForwardFollow ==
    ASSUME PagesInv, PagesInv', Follow, Outside, NEW a \in answers, Forward(a) \/ ForwardFails(a)
    PROVE  Follow'
<1>1. SUFFICES ASSUME NEW u \in Online, NEW c, Watched(u, c)' PROVE Follows(u, c)'
  BY DEF Follow
<1>2. thread' = thread /\ active' = active /\ awaiting' = awaiting /\ answers' = answers \ {a}
  BY DEF Forward, ForwardFails, page
<1>3. pc' = pc /\ local' = local
  BY DEF Outside
<1>4. CASE Forward(a)
  <2>1. /\ http' = http \cup {a} /\ crossed' = crossed
        /\ socket' = [v \in Online |->
               IF a.ok /\ v \in a.to THEN socket[v] \o Pushes(a) ELSE socket[v]]
    BY <1>4 DEF Forward
  <2>2. Follows(u, c)
    BY <1>1, <1>2, <2>1 DEF Follow, Watched
  <2>3. Els(socket[u]) \subseteq Els(socket'[u])
    <3>1. CASE a.ok /\ u \in a.to
      <4>1. socket'[u] = socket[u] \o Pushes(a)
        BY <2>1, <3>1
      <4> QED BY <4>1, PushesList, ConcatList DEF PagesInv
    <3>2. CASE ~(a.ok /\ u \in a.to)
      BY <2>1, <3>2
    <3> QED BY <3>1, <3>2
  <2>4. ASSUME NEW k \in InConv(c), a.ok, a.msg = k, a.conv = c,
               u \in a.to \/ (u = a.req.from /\ a.req.pattern = "chat.send_message")
        PROVE  Coming(u, c, k)'
    <3>1. CASE u \in a.to
      <4>1. socket'[u] = socket[u] \o Pushes(a)
        BY <2>1, <2>4, <3>1
      <4>2. Els(socket'[u]) = Els(socket[u]) \cup Els(Pushes(a))
        BY <4>1, PushesList, ConcatList DEF PagesInv
      <4>3. k # 0
        <5>1. Len(messages) \in Nat
          BY ListLen DEF PagesInv
        <5>2. k \in 1..Len(messages)
          BY DEF InConv
        <5> QED BY <5>1, <5>2
      <4>4. \E e \in Els(Pushes(a)) : e.type = "message" /\ e.msg = k /\ e.conv = c
        BY <2>4, <4>3, PushesList
      <4> QED BY <4>2, <4>4 DEF Coming
    <3>2. CASE u = a.req.from /\ a.req.pattern = "chat.send_message"
      <4>1. a \in http'
        BY <2>1
      <4> QED BY <2>4, <3>2, <4>1 DEF Coming
    <3> QED BY <2>4, <3>1, <3>2
  <2>5. ASSUME NEW k \in InConv(c), Coming(u, c, k) PROVE Coming(u, c, k)'
    <3>1. CASE \E b \in answers :
                   /\ b.ok /\ b.msg = k /\ b.conv = c
                   /\ u \in b.to \/ (u = b.req.from /\ b.req.pattern = "chat.send_message")
      <4>1. PICK b \in answers :
                   /\ b.ok /\ b.msg = k /\ b.conv = c
                   /\ u \in b.to \/ (u = b.req.from /\ b.req.pattern = "chat.send_message")
        BY <3>1
      <4>2. CASE b = a
        BY <2>4, <4>1, <4>2
      <4>3. CASE b # a
        BY <1>2, <4>1, <4>3 DEF Coming
      <4> QED BY <4>2, <4>3
    <3>2. CASE ~\E b \in answers :
                   /\ b.ok /\ b.msg = k /\ b.conv = c
                   /\ u \in b.to \/ (u = b.req.from /\ b.req.pattern = "chat.send_message")
      BY <1>3, <2>1, <2>3, <2>5, <3>2 DEF Coming
    <3> QED BY <3>1, <3>2
  <2>6. /\ answers' \cup http' = answers \cup http
        /\ answers' \cap http' \subseteq answers \cap http
    BY <1>2, <2>1
  <2> QED BY <1>2, <2>2, <2>5, <2>6, OutsideFollows
<1>5. CASE ForwardFails(a)
  <2>1. /\ http' = http \cup {Error(a.req)} /\ socket' = socket
        /\ crossed' = [v \in Online |-> crossed[v] \/ (a.msg # 0 /\ active[v] = a.conv)]
        /\ a.req.pattern \notin {"chat.send_message", "chat.list_messages"}
    BY <1>5 DEF ForwardFails
  <2>2. ~crossed[u] /\ active[u] = c /\ c # NoConv /\ (a.msg = 0 \/ c # a.conv)
    BY <1>1, <1>2, <2>1 DEF Watched
  <2>3. Follows(u, c)
    BY <2>2 DEF Follow, Watched
  <2>4. /\ \A b : IsLoad(b.req, u) => (b \in answers' \cup http' <=> b \in answers \cup http)
        /\ \A b \in answers' \cap http' : IsLoad(b.req, u) => b \in answers \cap http
    <3>1. Error(a.req).req = a.req
      BY DEF Error
    <3> QED BY <1>2, <2>1, <3>1 DEF IsLoad
  <2>5. ASSUME NEW k \in InConv(c), Coming(u, c, k) PROVE Coming(u, c, k)'
    <3>1. k # 0
      <4>1. Len(messages) \in Nat
        BY ListLen DEF PagesInv
      <4>2. k \in 1..Len(messages)
        BY DEF InConv
      <4> QED BY <4>1, <4>2
    <3>2. ~(a.msg = k /\ a.conv = c)
      BY <2>2, <3>1
    <3> QED BY <1>2, <1>3, <2>1, <2>5, <3>2 DEF Coming
  <2> QED BY <1>2, <2>3, <2>4, <2>5, OutsideFollows
<1> QED BY <1>4, <1>5

\* An answer changes nothing of the pages it is not for.
LEMMA AnswerElsewhere ==
    ASSUME PagesInv, NEW a \in http, AnswerStep(a), NEW v \in Online, v # a.req.from
    PROVE  /\ thread'[v] = thread[v] /\ active'[v] = active[v] /\ crossed'[v] = crossed[v]
           /\ awaiting \subseteq awaiting'
           /\ \A m \in awaiting' : m \in awaiting \/ m.from = a.req.from
<1> DEFINE u == a.req.from
<1>1. crossed'[v] = crossed[v]
  <2>1. CASE \/ Failed(a) \/ ConversationsLoaded(a) \/ MessagesLoaded(a) \/ GroupLeft(a)
             \/ MemberAdded(a)
    BY <2>1 DEF Failed, ConversationsLoaded, MessagesLoaded, GroupLeft, MemberAdded, PagesInv
  <2>2. crossed \in [Online -> BOOLEAN]
    BY DEF PagesInv
  <2>3. CASE AppendSentMessage(a)
    <3>1. \E loads : \E met \in BOOLEAN : Judge(u, loads, met)
      BY <2>3 DEF AppendSentMessage
    <3> QED BY <2>2, <3>1, JudgeIs
  <2>4. CASE GroupCreated(a)
    <3>1. \E loads : \E met \in BOOLEAN : Judge(u, loads, met)
      BY <2>4 DEF GroupCreated
    <3> QED BY <2>2, <3>1, JudgeIs
  <2> QED BY <2>1, <2>3, <2>4 DEF AnswerStep
<1>2. thread'[v] = thread[v] /\ active'[v] = active[v]
  <2>1. /\ thread' = thread \/ \E t : thread' = [thread EXCEPT ![u] = t]
        /\ active' = active \/ \E c : active' = [active EXCEPT ![u] = c]
    BY DEF AnswerStep, Failed, ConversationsLoaded, MessagesLoaded, AppendSentMessage,
       GroupLeft, MemberAdded, GroupCreated
  <2> QED BY <2>1 DEF PagesInv
<1>3. awaiting' = awaiting \/ \E c : awaiting' = awaiting \cup (Load(u, c) \cup Relist(u))
  BY DEF AnswerStep, Failed, ConversationsLoaded, MessagesLoaded, AppendSentMessage,
     GroupLeft, MemberAdded, GroupCreated, Issue
<1>4. \A c : \A m \in Load(u, c) \cup Relist(u) : m.from = u
  BY CallFields DEF Load, Relist
<1> QED BY <1>1, <1>2, <1>3, <1>4

\* A page's own answers: what was loaded, what it sent, what it opens.
LEMMA AnswerFollow ==
    ASSUME PagesInv, PagesInv', Follow, Outside, NEW a \in http, AnswerStep(a)
    PROVE  Follow'
<1>1. SUFFICES ASSUME NEW u \in Online, NEW c, Watched(u, c)' PROVE Follows(u, c)'
  BY DEF Follow
<1>2. /\ socket' = socket /\ answers' = answers /\ http' = http \ {a}
  BY DEF AnswerStep, Failed, ConversationsLoaded, MessagesLoaded, AppendSentMessage,
     GroupLeft, MemberAdded, GroupCreated, Arrives
<1>3. /\ active'[u] = c /\ c # NoConv /\ ~crossed'[u]
  BY <1>1 DEF Watched
<1>4. CASE u # a.req.from
  <2>1. /\ thread'[u] = thread[u] /\ active'[u] = active[u] /\ crossed'[u] = crossed[u]
        /\ awaiting \subseteq awaiting'
        /\ \A m \in awaiting' : m \in awaiting \/ m.from = a.req.from
    BY <1>4, AnswerElsewhere
  <2>2. Follows(u, c)
    BY <1>3, <2>1 DEF Follow, Watched
  <2>3. /\ \A m : IsLoad(m, u) => (m \in awaiting' <=> m \in awaiting)
        /\ \A b : IsLoad(b.req, u) => (b \in answers' \cup http' <=> b \in answers \cup http)
    BY <1>2, <1>4, <2>1 DEF IsLoad
  <2>4. \A k \in InConv(c) : Coming(u, c, k) => Coming(u, c, k)'
    BY <1>2, <1>4, ComingOutside
  <2> QED BY <1>2, <2>1, <2>2, <2>3, <2>4, OutsideFollows
<1>5. ASSUME u = a.req.from, thread'[u] = thread[u], active[u] = c, ~crossed[u],
             \A m : IsLoad(m, u) => (m \in awaiting' <=> m \in awaiting),
             a.req.pattern # "chat.list_messages",
             ~a.ok \/ a.req.pattern # "chat.send_message"
      PROVE  Follows(u, c)'
  <2>1. Follows(u, c)
    BY <1>3, <1>5 DEF Follow, Watched
  <2>2. \A b : IsLoad(b.req, u) => (b \in answers' \cup http' <=> b \in answers \cup http)
    BY <1>2, <1>5 DEF IsLoad
  <2>3. \A k \in InConv(c) : Coming(u, c, k) => Coming(u, c, k)'
    BY <1>2, <1>5, ComingOutside
  <2> QED BY <1>2, <1>5, <2>1, <2>2, <2>3, OutsideFollows
<1>6. CASE u = a.req.from /\ Failed(a)
  <2>1. /\ thread' = thread /\ active' = active /\ awaiting' = awaiting /\ ~a.ok
        /\ crossed' = [crossed EXCEPT ![u] = @ \/ a.req.pattern = "chat.list_messages"]
    BY <1>6 DEF Failed, Arrives
  <2>2. ~crossed[u] /\ a.req.pattern # "chat.list_messages"
    BY <1>3, <2>1 DEF PagesInv
  <2> QED BY <1>3, <1>5, <1>6, <2>1, <2>2
<1>7. CASE u = a.req.from /\ (ConversationsLoaded(a) \/ MemberAdded(a))
  <2>1. /\ thread' = thread /\ active' = active /\ awaiting' = awaiting /\ crossed' = crossed
        /\ a.req.pattern \notin {"chat.list_messages", "chat.send_message"}
    BY <1>7 DEF ConversationsLoaded, MemberAdded, Arrives
  <2> QED BY <1>3, <1>5, <1>7, <2>1
<1>8. CASE u = a.req.from /\ MessagesLoaded(a)
  <2>1. /\ thread'[u] = a.page /\ active' = active /\ awaiting' = awaiting
        /\ crossed' = crossed /\ a.ok /\ a.req.pattern = "chat.list_messages"
    BY <1>8 DEF MessagesLoaded, Arrives, PagesInv
  <2>2. Follows(u, c)
    BY <1>3, <2>1 DEF Follow, Watched
  <2>3. IsLoad(a.req, u)
    BY <1>8, <2>1 DEF IsLoad
  <2>4. /\ \A m \in awaiting : ~IsLoad(m, u)
        /\ \A b \in answers \cup http : IsLoad(b.req, u) => b = a
        /\ a \notin answers
        /\ Shows(Els(a.page), u, c)
    BY <2>1, <2>2, <2>3 DEF Follows
  <2>5. /\ \A m \in awaiting' : ~IsLoad(m, u)
        /\ \A b \in answers' \cup http' : ~IsLoad(b.req, u)
    BY <1>2, <2>1, <2>4
  <2>6. InConv(c)' = InConv(c)
    BY DEF Outside, InConv
  <2>7. \A k \in InConv(c) : Coming(u, c, k) => Coming(u, c, k)'
    BY <1>2, <2>1, ComingOutside
  <2>8. Shows(Els(a.page), u, c)'
    BY <2>4, <2>6, <2>7 DEF Shows
  <2> QED BY <2>1, <2>5, <2>8 DEF Follows, IsLoad
<1>9. ASSUME u = a.req.from, c # active[u], NEW met \in BOOLEAN, Judge(u, Load(u, c), met),
             awaiting' = awaiting \cup (Load(u, c) \cup Relist(u))
      PROVE  Follows(u, c)'
  <2>1. PICK m : Load(u, c) = {m} /\ IsLoad(m, u) /\ m.conv = c
    BY <1>3, <1>9, CallsOf
  <2>2. ~Loading(u)
    BY <1>3, <1>9, <2>1, JudgeIs DEF PagesInv
  <2>3. \A n \in Relist(u) : ~IsLoad(n, u)
    BY CallsOf DEF IsLoad
  <2> QED BY <1>2, <1>9, <2>1, <2>2, <2>3, LoadStarts
<1>10. CASE u = a.req.from /\ AppendSentMessage(a)
  <2>1. /\ active' = [active EXCEPT ![u] = a.conv] /\ Judge(u, Load(u, a.conv), TRUE)
        /\ thread' = [thread EXCEPT ![u] = With(u, a.msg)]
        /\ awaiting' = awaiting \cup (Load(u, a.conv) \cup Relist(u))
        /\ a.ok /\ a.req.pattern = "chat.send_message"
    BY <1>10 DEF AppendSentMessage, Arrives, Issue
  <2>2. a.conv = c /\ thread'[u] = With(u, a.msg)
    BY <1>3, <2>1 DEF PagesInv
  <2>3. CASE c # active[u]
    BY <1>9, <1>10, <2>1, <2>2, <2>3
  <2>4. CASE c = active[u]
    <3>1. Load(u, c) = {}
      BY <2>4, CallsOf
    <3>2. ~crossed[u] /\ ~Loading(u)
      BY <1>3, <2>1, <2>2, <3>1, JudgeIs DEF PagesInv
    <3>3. Follows(u, c)
      BY <1>3, <2>4, <3>2 DEF Follow, Watched
    <3>4. Shows(Els(thread[u]), u, c)
      BY <3>2, <3>3 DEF Follows
    <3>5. PICK T : T = Els(thread'[u])
      OBVIOUS
    <3>6. T = Els(thread[u]) \cup {a.msg}
      BY <2>2, <3>5, WithOnce
    <3>7. InConv(c)' = InConv(c)
      BY DEF Outside, InConv
    <3>8. a.msg \in InConv(c)
      BY <2>1, <2>2 DEF PagesInv, Sent
    <3>9. ASSUME NEW k \in InConv(c), k \notin T, Coming(u, c, k) PROVE Coming(u, c, k)'
      <4>1. pc' = pc /\ local' = local
        BY DEF Outside
      <4>2. a.msg # k
        BY <3>6, <3>9
      <4> QED BY <1>2, <3>9, <4>1, <4>2 DEF Coming
    <3>10. T \subseteq InConv(c)'
      BY <3>4, <3>6, <3>7, <3>8 DEF Shows
    <3>11. Shows(T, u, c)'
      BY <3>4, <3>6, <3>7, <3>9, <3>10, ShowsOn
    <3>12. /\ \A m \in awaiting' : ~IsLoad(m, u)
           /\ \A b \in answers' \cup http' : ~IsLoad(b.req, u)
      <4>1. \A m \in awaiting' : m \in awaiting \/ m \in Relist(u)
        BY <2>1, <2>2, <3>1
      <4> QED BY <1>2, <3>2, <4>1, CallsOf, LoadingIs DEF IsLoad
    <3> QED BY <3>5, <3>11, <3>12 DEF Follows, IsLoad
  <2> QED BY <2>3, <2>4
<1>11. CASE u = a.req.from /\ GroupLeft(a)
  <2>1. active'[u] = NoConv
    BY <1>11 DEF GroupLeft, PagesInv
  <2> QED BY <1>3, <2>1
<1>12. CASE u = a.req.from /\ GroupCreated(a)
  <2>1. /\ active' = [active EXCEPT ![u] = a.conv] /\ Judge(u, Load(u, a.conv), FALSE)
        /\ thread' = thread
        /\ awaiting' = awaiting \cup (Load(u, a.conv) \cup Relist(u))
        /\ a.req.pattern = "chat.create_group"
    BY <1>12 DEF GroupCreated, Arrives, Issue
  <2>2. a.conv = c
    BY <1>3, <2>1 DEF PagesInv
  <2>3. CASE c # active[u]
    BY <1>9, <1>12, <2>1, <2>2, <2>3
  <2>4. CASE c = active[u]
    <3>1. Load(u, c) = {}
      BY <2>4, CallsOf
    <3>2. ~crossed[u]
      BY <1>3, <2>1, <2>2, <3>1, JudgeIs DEF PagesInv
    <3>3. \A m : IsLoad(m, u) => (m \in awaiting' <=> m \in awaiting)
      BY <2>1, <2>2, <3>1, CallsOf DEF IsLoad
    <3> QED BY <1>5, <1>12, <2>1, <2>4, <3>2, <3>3
  <2> QED BY <2>3, <2>4
<1> QED BY <1>4, <1>6, <1>7, <1>8, <1>10, <1>11, <1>12 DEF AnswerStep

\* A user who opens a conversation starts its load.
LEMMA UserFollow ==
    ASSUME PagesInv, PagesInv', Follow, Outside, NEW v \in Online, UserStep(v)
    PROVE  Follow'
<1>1. SUFFICES ASSUME NEW u \in Online, NEW c, Watched(u, c)' PROVE Follows(u, c)'
  BY DEF Follow
<1>2. active'[u] = c /\ c # NoConv /\ ~crossed'[u]
  BY <1>1 DEF Watched
<1>3. answers' = answers /\ http' = http
  BY DEF UserStep, OpenConversation, SelectPeer, SendText, SendMedia, LeaveGroup, AddMember,
     SubmitCreateGroup, Type, elsewhere, rpc
<1>4. ASSUME thread'[u] = thread[u], active[u] = c, ~crossed[u],
             Els(socket[u]) \subseteq Els(socket'[u]),
             \A m : IsLoad(m, u) => (m \in awaiting' <=> m \in awaiting)
      PROVE  Follows(u, c)'
  <2>1. Follows(u, c)
    BY <1>2, <1>4 DEF Follow, Watched
  <2>2. \A k \in InConv(c) : Coming(u, c, k) => Coming(u, c, k)'
    BY <1>3, <1>4, ComingOutside
  <2> QED BY <1>3, <1>4, <2>1, <2>2, OutsideFollows
<1>5. CASE OpenConversation(v)
  <2>1. PICK d : /\ d # active[v] /\ active' = [active EXCEPT ![v] = d]
                 /\ Issue(Load(v, d)) /\ Judge(v, Load(v, d), FALSE)
                 /\ thread' = thread /\ socket' = socket
    BY <1>5 DEF OpenConversation, elsewhere
  <2>2. CASE u = v
    <3>1. d = c /\ c # active[u]
      BY <1>2, <2>1, <2>2 DEF PagesInv
    <3>2. PICK m : Load(u, c) = {m} /\ IsLoad(m, u) /\ m.conv = c
      BY <1>2, <3>1, CallsOf
    <3>3. ~Loading(u)
      BY <1>2, <2>1, <2>2, <3>1, <3>2, JudgeIs DEF PagesInv
    <3>4. PICK others : others = {}
      OBVIOUS
    <3>5. awaiting' = awaiting \cup ({m} \cup others)
      BY <2>1, <2>2, <3>1, <3>2, <3>4 DEF Issue
    <3> QED BY <1>3, <3>2, <3>3, <3>4, <3>5, LoadStarts
  <2>3. CASE u # v
    <3>1. active[u] = c /\ ~crossed[u]
      BY <1>2, <2>1, <2>3, JudgeIs DEF PagesInv
    <3>2. \A m : IsLoad(m, u) => (m \in awaiting' <=> m \in awaiting)
      BY <2>1, <2>3, CallFields DEF Issue, Load, IsLoad
    <3> QED BY <1>4, <2>1, <3>1, <3>2
  <2> QED BY <2>2, <2>3
<1>6. CASE SelectPeer(v)
  <2>1. /\ thread' = [thread EXCEPT ![v] = <<>>] /\ active' = [active EXCEPT ![v] = NoConv]
        /\ crossed' = crossed /\ socket' = socket /\ awaiting' = awaiting
    BY <1>6 DEF SelectPeer, elsewhere
  <2>2. u # v /\ thread'[u] = thread[u] /\ active[u] = c
    BY <1>2, <2>1 DEF PagesInv
  <2> QED BY <1>2, <1>4, <2>1, <2>2
<1>7. CASE SendText(v) \/ SendMedia(v) \/ LeaveGroup(v) \/ AddMember(v) \/ SubmitCreateGroup(v)
  <2>1. UNCHANGED <<thread, active, crossed, socket>>
    BY <1>7 DEF SendText, SendMedia, LeaveGroup, AddMember, SubmitCreateGroup, elsewhere
  <2>2. awaiting' = awaiting \/ \E m : awaiting' = awaiting \cup {m} /\ ~IsLoad(m, u)
    <3>1. CASE SendText(v)
      BY <3>1, CallsOf DEF SendText, Issue
    <3>2. CASE SendMedia(v)
      BY <3>2 DEF SendMedia
    <3>3. CASE LeaveGroup(v)
      BY <3>3, CallFields DEF LeaveGroup, Issue, IsLoad
    <3>4. CASE AddMember(v)
      BY <3>4, CallFields DEF AddMember, Issue, IsLoad
    <3>5. CASE SubmitCreateGroup(v)
      BY <3>5, CallFields DEF SubmitCreateGroup, Issue, IsLoad
    <3> QED BY <1>7, <3>1, <3>2, <3>3, <3>4, <3>5
  <2> QED BY <1>2, <1>4, <2>1, <2>2
<1>8. CASE Type(v)
  <2>1. UNCHANGED <<thread, active, crossed, awaiting>>
    BY <1>8 DEF Type, page, rpc
  <2>2. PICK e, to : socket' = [w \in Online |->
                         IF w \in to THEN Append(socket[w], e) ELSE socket[w]]
    BY <1>8, TypeSends
  <2>3. Els(socket[u]) \subseteq Els(socket'[u])
    <3>1. CASE u \in to
      <4>1. socket'[u] = Append(socket[u], e) /\ IsList(socket[u])
        BY <2>2, <3>1 DEF PagesInv
      <4> QED BY <4>1, AppendList
    <3>2. CASE u \notin to
      BY <2>2, <3>2
    <3> QED BY <3>1, <3>2
  <2> QED BY <1>2, <1>4, <2>1, <2>3
<1> QED BY <1>5, <1>6, <1>7, <1>8 DEF UserStep

\* An event is shown when its conversation is open.
LEMMA EventFollow ==
    ASSUME PagesInv, PagesInv', Follow, Outside, NEW v \in Online,
           EventStep(v) \/ TypingStops(v) \/ SocketBreaks(v)
    PROVE  Follow'
<1>1. SUFFICES ASSUME NEW u \in Online, NEW c, Watched(u, c)' PROVE Follows(u, c)'
  BY DEF Follow
<1>2. active'[u] = c /\ c # NoConv /\ ~crossed'[u]
  BY <1>1 DEF Watched
<1>3. answers' = answers /\ http' = http /\ active' = active
  BY DEF EventStep, Event, Receive, SomeoneLeft, SomeoneAdded, SomeoneTypes, TypingStops,
     SocketBreaks, page, rpc, elsewhere
<1>4. \A m : IsLoad(m, u) => (m \in awaiting' <=> m \in awaiting)
  <2>1. awaiting' = awaiting \/ awaiting' = awaiting \cup Relist(v)
    BY DEF EventStep, Event, Receive, SomeoneLeft, SomeoneAdded, SomeoneTypes, TypingStops,
       SocketBreaks, Issue, page, rpc, elsewhere
  <2> QED BY <2>1, CallsOf DEF IsLoad
<1>5. ASSUME thread'[u] = thread[u], ~crossed[u],
             \A e \in Els(socket[u]) :
                 e.type = "message" /\ e.conv = c => e \in Els(socket'[u])
      PROVE  Follows(u, c)'
  <2>1. Follows(u, c)
    BY <1>2, <1>3, <1>5 DEF Follow, Watched
  <2>2. \A k \in InConv(c) : Coming(u, c, k) => Coming(u, c, k)'
    BY <1>3, <1>5, ComingOutside
  <2> QED BY <1>3, <1>4, <1>5, <2>1, <2>2, OutsideFollows
<1>6. CASE TypingStops(v)
  <2>1. UNCHANGED <<thread, crossed, socket>>
    BY <1>6 DEF TypingStops, elsewhere
  <2> QED BY <1>2, <1>5, <2>1
<1>7. CASE SocketBreaks(v)
  <2>1. /\ thread' = thread /\ socket' = [socket EXCEPT ![v] = <<>>]
        /\ crossed' = [crossed EXCEPT ![v] = TRUE]
    BY <1>7 DEF SocketBreaks, page
  <2>2. u # v /\ socket'[u] = socket[u] /\ ~crossed[u]
    BY <1>2, <2>1 DEF PagesInv
  <2> QED BY <1>5, <2>1, <2>2
<1>8. CASE EventStep(v)
  <2>1. socket[v] # <<>> /\ socket' = [socket EXCEPT ![v] = Tail(@)]
    BY <1>8 DEF EventStep, Event, Receive, SomeoneLeft, SomeoneAdded, SomeoneTypes
  <2>2. PICK e : e = Head(socket[v])
    OBVIOUS
  <2>3. Els(socket[v]) = Els(Tail(socket[v])) \cup {e}
    BY <2>1, <2>2, TailList DEF PagesInv
  <2>4. \/ thread' = thread /\ crossed' = crossed
           /\ ~(e.type = "message" /\ e.conv = active[v])
        \/ /\ e.type = "message" /\ e.conv = active[v] /\ Judge(v, {}, TRUE)
           /\ thread' = [thread EXCEPT ![v] = With(v, e.msg)]
    BY <1>8, <2>2 DEF EventStep, Event, Receive, SomeoneLeft, SomeoneAdded, SomeoneTypes
  <2>5. CASE u # v
    <3>1. socket'[u] = socket[u] /\ thread'[u] = thread[u]
      BY <2>1, <2>4, <2>5 DEF PagesInv
    <3>2. ~crossed[u]
      BY <1>2, <2>4, <2>5, JudgeIs DEF PagesInv
    <3> QED BY <1>5, <3>1, <3>2
  <2>6. CASE u = v /\ thread' = thread /\ crossed' = crossed
             /\ ~(e.type = "message" /\ e.conv = active[v])
    <3>1. socket'[u] = Tail(socket[u])
      BY <2>1, <2>6 DEF PagesInv
    <3>2. ~(e.type = "message" /\ e.conv = c)
      BY <1>2, <1>3, <2>6
    <3> QED BY <1>2, <1>5, <2>3, <2>6, <3>1, <3>2
  <2>7. CASE u = v /\ e.type = "message" /\ e.conv = active[v] /\ Judge(v, {}, TRUE)
             /\ thread' = [thread EXCEPT ![v] = With(v, e.msg)]
    <3>1. /\ socket'[u] = Tail(socket[u]) /\ thread'[u] = With(u, e.msg)
          /\ active[u] = c /\ e.conv = c
      BY <1>2, <1>3, <2>1, <2>7 DEF PagesInv
    <3>2. ~crossed[u] /\ ~Loading(u)
      BY <1>2, <2>7, JudgeIs DEF PagesInv
    <3>3. Shows(Els(thread[u]), u, c)
      BY <1>2, <3>1, <3>2 DEF Follow, Watched, Follows
    <3>4. PICK T : T = Els(thread'[u])
      OBVIOUS
    <3>5. T = Els(thread[u]) \cup {e.msg}
      BY <3>1, <3>4, WithOnce
    <3>6. InConv(c)' = InConv(c)
      BY DEF Outside, InConv
    <3>7. e.msg \in InConv(c)
      BY <2>3, <2>7, <3>1 DEF PagesInv
    <3>8. ASSUME NEW k \in InConv(c), k \notin T, Coming(u, c, k) PROVE Coming(u, c, k)'
      <4>1. e.msg # k
        BY <3>5, <3>8
      <4>2. \A d \in Els(socket[u]) :
                d.type = "message" /\ d.msg = k /\ d.conv = c => d \in Els(socket'[u])
        BY <2>3, <2>7, <3>1, <4>1
      <4> QED BY <1>3, <3>8, <4>2, ComingOutside
    <3>9. T \subseteq InConv(c)'
      BY <3>3, <3>5, <3>6, <3>7 DEF Shows
    <3>10. Shows(T, u, c)'
      BY <3>3, <3>5, <3>6, <3>8, <3>9, ShowsOn
    <3>11. /\ \A m \in awaiting' : ~IsLoad(m, u)
           /\ \A b \in answers' \cup http' : ~IsLoad(b.req, u)
      BY <1>3, <1>4, <3>2, LoadingIs
    <3> QED BY <3>4, <3>10, <3>11 DEF Follows, IsLoad
  <2> QED BY <2>4, <2>5, <2>6, <2>7
<1> QED BY <1>6, <1>7, <1>8

\* Every step keeps what the pages follow.
LEMMA FollowStep ==
    ASSUME Handles, PagesInv, Follow, [Next]_vars
    PROVE  Follow'
<1>1. PagesInv'
  BY PagesStep
<1>2. CASE \E r \in Replicas : Service(r) \/ ServiceFails(r)
  BY <1>1, <1>2, ServiceFollow
<1>3. ASSUME Outside, UNCHANGED <<thread, active, crossed, socket, answers, http>>,
             \A u : \A m : IsLoad(m, u) => (m \in awaiting' <=> m \in awaiting)
      PROVE  Follow'
  <2>1. ASSUME NEW u \in Online, NEW c, Watched(u, c)' PROVE Follows(u, c)'
    <3>1. Follows(u, c)
      BY <1>3, <2>1 DEF Follow, Watched
    <3>2. \A k \in InConv(c) : Coming(u, c, k) => Coming(u, c, k)'
      BY <1>3, ComingOutside
    <3> QED BY <1>1, <1>3, <3>1, <3>2, OutsideFollows
  <2> QED BY <2>1 DEF Follow
<1>4. CASE Next /\ \A r \in Replicas : ~Service(r) /\ ~ServiceFails(r)
  <2>1. Outside
    BY <1>4, PagesOutside
  <2>2. CASE \E p \in uploads : Uploaded(p) \/ UploadFails(p)
    <3>1. UNCHANGED <<thread, active, crossed, socket, answers, http>>
      BY <2>2 DEF Uploaded, UploadFails, elsewhere, page, rpc
    <3>2. awaiting' = awaiting \/ \E u, c, v : awaiting' = awaiting \cup {Message(u, c, v)}
      BY <2>2 DEF Uploaded, UploadFails, Issue, rpc
    <3> QED BY <1>3, <2>1, <3>1, <3>2, CallsOf
  <2> QED BY <1>1, <1>4, <2>1, <2>2, ForwardFollow, AnswerFollow, UserFollow, EventFollow
          DEF Next
<1>5. CASE UNCHANGED vars
  <2>1. UNCHANGED <<thread, active, crossed, socket, answers, http, awaiting>> /\ Outside
    BY <1>5 DEF vars, group, database, page, rpc, Outside
  <2> QED BY <1>3, <2>1
<1> QED BY <1>2, <1>4, <1>5

LEMMA FollowStart ==
    ASSUME NEW groups, NEW directs, NEW opened, NEW clicked, NEW failed,
           StartFrom(groups, directs, opened, clicked, failed)
    PROVE  Follow
<1>1. /\ messages = <<>> /\ awaiting = {} /\ answers = {} /\ http = {}
      /\ \A u \in Online : thread[u] = <<>>
  BY DEF StartFrom, PageInit
<1>2. \A c : InConv(c) = {}
  BY <1>1, EmptyList DEF InConv
<1>3. ASSUME NEW u \in Online, NEW c PROVE Follows(u, c)
  <2>1. Shows(Els(thread[u]), u, c)
    BY <1>1, <1>2, EmptyList DEF Shows
  <2> QED BY <1>1, <2>1 DEF Follows
<1> QED BY <1>3 DEF Follow

\* When all that was sent has arrived, an open thread that no race or fault
\* touched shows its conversation, however the answers and the socket met.
THEOREM ThreadSettles ==
    ASSUME NEW groups, NEW directs, NEW opened, NEW clicked, NEW failed
    PROVE  StartFrom(groups, directs, opened, clicked, failed) /\ [][Next]_vars
               => []ThreadAgrees
<1>1. StartFrom(groups, directs, opened, clicked, failed) => Handles /\ PagesInv /\ Follow
  BY PagesStart, FollowStart
<1>2. Handles /\ PagesInv /\ Follow /\ [Next]_vars => (Handles /\ PagesInv /\ Follow)'
  BY PagesStep, FollowStep
<1>3. PagesInv /\ Follow => ThreadAgrees
  <2>1. SUFFICES ASSUME PagesInv, Follow, Quiet, NEW u \in Online, NEW c, active[u] = c,
                        c # NoConv, ~crossed[u], Len(Thread(c)) <= PageSize
                 PROVE  Els(thread[u]) = Els(Thread(c))
    BY DEF ThreadAgrees, Els
  <2>2. Follows(u, c) /\ ~Loading(u)
    BY <2>1 DEF Follow, Watched, Quiet, Loading
  <2>3. Shows(Els(thread[u]), u, c)
    BY <2>2 DEF Follows
  <2>4. Els(Thread(c)) = InConv(c) /\ Cardinality(InConv(c)) <= PageSize
    BY <2>1, ThreadIs DEF PagesInv
  <2>5. \A k \in InConv(c) : ~Coming(u, c, k)
    <3>1. /\ answers = {} /\ http = {} /\ Els(socket[u]) = {}
          /\ \A r \in Replicas : pc[r] \notin Telling
      BY <2>1, EmptyList DEF Quiet, Idle, Telling
    <3> QED BY <3>1 DEF Coming
  <2> QED BY <2>3, <2>4, <2>5 DEF Shows
<1> QED BY <1>1, <1>2, <1>3, PTL
-----------------------------------------------------------------------------
(* Threads: the invariant *)

Comment ==
    [nr : Nat, post : Discussed, under : Nat, by : {"me", "other"}, liked : BOOLEAN]
CommentRow ==
    [nr : Nat, post : Discussed, by : {"me", "other"}, under : Nat, replies : Nat, likes : Nat]
Listing == [op : {"load"}, id : Nat, post : Discussed, count : Int, list : Seq(CommentRow),
         at : SUBSET {"post", "list"}]
Reading == [op : {"replies"}, id : Nat, nr : Nat, inst : Nat, list : Seq(CommentRow),
            at : {"sent", "read"}]
Writing == [op : {"comment", "reply"}, id : Nat, nr : Nat, post : Discussed, inst : Nat, made : Nat]
Removing == [op : {"delete"}, id : Nat, under : Nat, inst : Nat, of : Nat, at : {"sent", "done"}]
Hearting == [op : {"heart"}, id : Nat, inst : Nat, on : BOOLEAN, at : {"sent", "done", "failed"}]
ThreadState == [open : BOOLEAN, replies : Seq(CommentRow), loading : BOOLEAN, inst : Nat]
HeartState == [liked : BOOLEAN, busy : BOOLEAN, inst : Nat, count : Nat]

\* Comments have a number of their own, and stand under what they say.
InTalk(n) == \E d \in talk : d.nr = n
Under(n, u) == n \in 1..uttered /\ \A d \in talk : d.nr = n => d.under = u
AllUnder(list, u) == \A k \in 1..Len(list) : Under(list[k].nr, u) /\ list[k].under = u

NrsOf(list) == {list[k].nr : k \in 1..Len(list)}
OnceEach(list) == \A j, k \in 1..Len(list) : list[j].nr = list[k].nr => j = k

TalkSound ==
    /\ uttered \in Nat
    /\ talk \subseteq Comment /\ IsFiniteSet(talk)
    /\ \A c \in talk : c.nr \in 1..uttered
    /\ \A c, d \in talk : c.nr = d.nr => c = d

InquiryFits(a) ==
    \/ /\ a \in Listing /\ AllUnder(a.list, Top) /\ OnceEach(a.list)
       /\ \A k \in 1..Len(a.list) : a.list[k].post = a.post
    \/ a \in Reading /\ a.id \in 1..uttered /\ AllUnder(a.list, a.id)
    \/ /\ a \in Writing
       /\ IF a.op = "comment" THEN a.id = Top ELSE a.id \in 1..uttered
       /\ a.made # 0 => Under(a.made, a.id)
    \/ /\ a \in Removing /\ Under(a.id, a.under) /\ a.under \in 0..uttered
       /\ a.at = "done" => ~InTalk(a.id)
    \/ a \in Hearting /\ a.id \in 1..uttered

InquiriesSound ==
    /\ \A a \in inquiries : InquiryFits(a)
    /\ \A a, b \in inquiries : a \in Writing /\ b \in Writing /\ a.made # 0 /\ a.made = b.made => a = b
    /\ \A a, b \in inquiries :
           a \in Removing /\ b \in Removing /\ a.id = b.id /\ a.at = "done" /\ b.at = "done" => a = b

PageSound ==
    /\ address \in Discussed
    /\ shownPost \in [post : Discussed \cup {"none"}, count : Int]
    /\ strokes \in Nat /\ mounts \in Nat
    /\ wandered \in BOOLEAN /\ lopsided \in BOOLEAN
    /\ listed \in Seq(CommentRow) /\ AllUnder(listed, Top)
    /\ DOMAIN threads = IF Ready THEN NrsOf(listed) ELSE {}
    /\ \A n \in DOMAIN threads : threads[n] \in ThreadState /\ AllUnder(threads[n].replies, n)
    /\ threads = [n \in DOMAIN threads |-> threads[n]]
    /\ DOMAIN hearts \subseteq 1..uttered
    /\ \A n \in DOMAIN hearts : hearts[n] \in HeartState
    /\ hearts = [n \in DOMAIN hearts |-> hearts[n]]

ThreadTypes == TalkSound /\ InquiriesSound /\ PageSound

\* The heart of a comment that was not dark knows its request under way, and
\* shows what is stored, or what that request is about to store.
Beats(a, n) == a.op = "heart" /\ a.id = n
HeartsKept ==
    \A n \in DOMAIN hearts \ dark :
        /\ hearts[n].count = IF hearts[n].liked THEN 1 ELSE 0
        /\ \A a, b \in inquiries : Beats(a, n) /\ Beats(b, n) => a = b
        /\ \A a \in inquiries : Beats(a, n) =>
               /\ hearts[n].busy /\ a.inst = hearts[n].inst /\ a.on = hearts[n].liked
               /\ \A c \in talk : c.nr = n => (c.liked = a.on <=> a.at = "done")
        /\ ~hearts[n].busy => \A c \in talk : c.nr = n => hearts[n].liked = c.liked

\* A page nobody left too early loads alone; what is under way otherwise is
\* about its post, and what is to be added or taken away is not there, or is.
ListHere ==
    /\ shownPost.post = address
    /\ \A k \in 1..Len(listed) : listed[k].post = address
    /\ OnceEach(listed)
    /\ lopsided \/ shownPost.count = Len(listed)
PageHere ==
    /\ \A a \in inquiries : a.op = "load" => inquiries = {a} /\ ~Ready /\ a.post = address
    /\ ~Ready => \A a \in inquiries : a.op = "load"
    /\ \A a \in inquiries : a.op = "comment" =>
           a.post = address /\ (a.made # 0 => a.made \notin NrsOf(listed))
    /\ Ready => ListHere
    /\ \A a \in inquiries : a.op = "delete" /\ a.under = Top =>
           a.id \in NrsOf(listed) \/ (a.at = "sent" /\ ~InTalk(a.id))
PageKept == ~wandered => PageHere

\* What is under way for the replies of a comment
Reads(a, n) == a.op = "replies" /\ a.id = n
Replies(a, n) == a.op = "reply" /\ a.id = n
Drops(a, n) == a.op = "delete" /\ a.under = n

\* A thread that shows its replies: each answer changes rows and count alike.
Settled(c, th) ==
    /\ c.replies = Len(th.replies) /\ OnceEach(th.replies)
    /\ \A a \in inquiries :
           /\ ~Reads(a, c.nr)
           /\ Replies(a, c.nr) => a.inst = th.inst /\ (a.made # 0 => a.made \notin NrsOf(th.replies))
           /\ Drops(a, c.nr) =>
                  /\ a.of = th.inst
                  /\ a.id \in NrsOf(th.replies) \/ (a.at = "sent" /\ ~InTalk(a.id))

\* A thread that does not: nobody changes them, and one request may read them.
Unread(c, th) ==
    /\ th.replies = <<>> /\ c.replies > 0 /\ c.replies = Cardinality(RepliesTo(c.nr))
    /\ th.open => th.loading
    /\ \A a \in inquiries :
           /\ ~Replies(a, c.nr) /\ ~Drops(a, c.nr)
           /\ Reads(a, c.nr) =>
                  /\ th.loading /\ a.inst = th.inst
                  /\ a.at = "read" => OnceEach(a.list) /\ Len(a.list) = c.replies
                  /\ \A b \in inquiries : Reads(b, c.nr) => b = a

\* What is watched of a comment listed; its count was right when it was read.
Watching(n) == InTalk(n) /\ n \notin mixed
RowKept(c, th) == Settled(c, th) \/ Unread(c, th)
CountsRight(list) ==
    \A k \in 1..Len(list) : Watching(list[k].nr) => list[k].replies = Cardinality(RepliesTo(list[k].nr))
MadeAlone ==
    \A a, b \in inquiries : a.op = "comment" /\ a.made # 0 =>
        ~Reads(b, a.made) /\ ~Replies(b, a.made) /\ ~Drops(b, a.made)
RowsKept ==
    \A k \in 1..Len(listed) : Watching(listed[k].nr) => RowKept(listed[k], threads[listed[k].nr])
ThreadsKept ==
    /\ \A a \in inquiries : a.op = "load" /\ "list" \notin a.at => CountsRight(a.list)
    /\ ~wandered => MadeAlone /\ (Ready => RowsKept)

ThreadInv == ThreadTypes /\ HeartsKept /\ PageKept /\ ThreadsKept

-----------------------------------------------------------------------------
(* Lists of comments *)

LEMMA Greater == ASSUME NEW x \in Int PROVE Max({0, x}) = IF x >= 0 THEN x ELSE 0
<1>1. CASE x >= 0
  <2>1. \A y \in {0, x} : x >= y
    BY <1>1
  <2>2. \A z \in {0, x} : (\A y \in {0, x} : z >= y) => z = x
    BY <1>1
  <2> QED BY <1>1, <2>1, <2>2 DEF Max
<1>2. CASE ~(x >= 0)
  <2>1. \A y \in {0, x} : 0 >= y
    BY <1>2
  <2>2. \A z \in {0, x} : (\A y \in {0, x} : z >= y) => z = 0
    BY <1>2
  <2> QED BY <1>2, <2>1, <2>2 DEF Max
<1> QED BY <1>1, <1>2

\* The places and members of a list of rows.
LEMMA RowsIn ==
    ASSUME NEW s \in Seq(CommentRow)
    PROVE  /\ IsList(s) /\ Len(s) \in Nat /\ DOMAIN s = 1..Len(s)
           /\ \A k \in 1..Len(s) : s[k] \in CommentRow
           /\ ToSet(s) = {s[k] : k \in 1..Len(s)}
<1>1. PICK R : R = CommentRow
  OBVIOUS
<1>2. s \in Seq(R)
  BY <1>1
<1>3. Len(s) \in Nat /\ DOMAIN s = 1..Len(s) /\ \A k \in 1..Len(s) : s[k] \in R
  BY <1>2
<1>4. IsList(s)
  BY <1>2 DEF IsList
<1> QED BY <1>1, <1>3, <1>4 DEF ToSet

\* A list whose places are given is a list of rows when each is one.
LEMMA RowsAre ==
    ASSUME NEW s, IsList(s), \A k \in 1..Len(s) : s[k] \in CommentRow
    PROVE  s \in Seq(CommentRow)
<1>1. PICK R : R = CommentRow
  OBVIOUS
<1>2. PICK S : s \in Seq(S)
  BY DEF IsList
<1>3. s \in [1..Len(s) -> R] /\ Len(s) \in Nat
  BY <1>1, <1>2
<1>4. s \in Seq(R)
  BY <1>3
<1> QED BY <1>1, <1>4

\* Without the rows of a number.
LEMMA RowDropped ==
    ASSUME NEW s \in Seq(CommentRow), NEW n, NEW P \in SUBSET (1..Len(s)),
           \A k \in 1..Len(s) : k \in P <=> s[k].nr # n,
           NEW r, r = Filtered(s, P)
    PROVE  /\ r \in Seq(CommentRow) /\ NrsOf(r) = NrsOf(s) \ {n}
           /\ ToSet(r) \subseteq ToSet(s)
           /\ OnceEach(s) => OnceEach(r)
           /\ OnceEach(s) /\ n \in NrsOf(s) => Len(r) = Len(s) - 1
<1>1. /\ IsList(s) /\ Len(s) \in Nat /\ P \in SUBSET (1..Len(s))
      /\ \A k \in 1..Len(s) : s[k] \in CommentRow
      /\ \A k \in P : s[k].nr # n
  BY RowsIn
<1>2. /\ IsList(r) /\ Len(r) = Cardinality(P) /\ Cardinality(P) \in Nat
      /\ Els(r) = {s[p] : p \in P}
      /\ \A i \in 1..Cardinality(P) : Ascending(P)[i] \in P /\ r[i] = s[Ascending(P)[i]]
  <2>1. IsList(s) /\ P \in SUBSET (1..Len(s)) /\ r = Filtered(s, P)
    BY <1>1
  <2> QED BY <2>1, FilteredList
<1>3. \A k \in 1..Len(r) : \E j \in 1..Len(s) : r[k] = s[j] /\ s[j].nr # n
  BY <1>1, <1>2
<1>4. r \in Seq(CommentRow)
  BY <1>1, <1>2, <1>3, RowsAre
<1>5. ASSUME NEW j \in 1..Len(s), s[j].nr # n PROVE \E k \in 1..Len(r) : r[k] = s[j]
  <2>1. s[j] \in Els(r)
    BY <1>1, <1>2, <1>5
  <2> QED BY <2>1 DEF Els
<1>6. NrsOf(r) = NrsOf(s) \ {n}
  <2>1. ASSUME NEW x \in NrsOf(r) PROVE x \in NrsOf(s) \ {n}
    BY <1>3 DEF NrsOf
  <2>2. ASSUME NEW x \in NrsOf(s) \ {n} PROVE x \in NrsOf(r)
    BY <1>5 DEF NrsOf
  <2> QED BY <2>1, <2>2
<1>7. ASSUME OnceEach(s) PROVE OnceEach(r)
  <2> DEFINE A == Ascending(P)
  <2>1. P \in SUBSET Int /\ IsFiniteSet(P)
    <3>1. IsFiniteSet(1..Len(s))
      BY <1>1, FS_Interval
    <3>2. IsFiniteSet(P)
      BY <3>1, FS_Subset
    <3> QED BY <1>1, <3>2
  <2>2. \A i, j \in 1..Cardinality(P) : i < j => A[i] < A[j]
    BY <2>1, AscendingList
  <2>3. ASSUME NEW i \in 1..Len(r), NEW j \in 1..Len(r), r[i].nr = r[j].nr PROVE i = j
    <3>1. A[i] \in 1..Len(s) /\ A[j] \in 1..Len(s) /\ r[i] = s[A[i]] /\ r[j] = s[A[j]]
      BY <1>1, <1>2
    <3>2. A[i] = A[j]
      BY <1>7, <2>3, <3>1 DEF OnceEach
    <3>3. ~(i < j) /\ ~(j < i)
      BY <1>1, <1>2, <2>2, <3>1, <3>2
    <3> QED BY <1>2, <3>3
  <2> QED BY <2>3 DEF OnceEach
<1>8. ASSUME OnceEach(s), n \in NrsOf(s) PROVE Len(r) = Len(s) - 1
  <2>1. PICK j \in 1..Len(s) : s[j].nr = n
    BY <1>8 DEF NrsOf
  <2>2. P = (1..Len(s)) \ {j}
    BY <1>1, <1>8, <2>1 DEF OnceEach
  <2>3. IsFiniteSet(1..Len(s)) /\ Cardinality(1..Len(s)) = Len(s)
    BY <1>1, FS_Interval
  <2>4. Cardinality(P) = Len(s) - 1
    BY <2>2, <2>3, FS_RemoveElement
  <2> QED BY <1>2, <2>4
<1>9. ToSet(r) \subseteq ToSet(s)
  BY <1>3, <1>4, RowsIn
<1> QED BY <1>4, <1>6, <1>7, <1>8, <1>9

\* A row behind the others.
LEMMA RowBehind ==
    ASSUME NEW s \in Seq(CommentRow), NEW c \in CommentRow, NEW r, r = Append(s, c)
    PROVE  /\ r \in Seq(CommentRow) /\ NrsOf(r) = NrsOf(s) \cup {c.nr}
           /\ Len(r) = Len(s) + 1
           /\ \A k \in 1..Len(r) : r[k] = c \/ \E j \in 1..Len(s) : r[k] = s[j]
           /\ OnceEach(s) /\ c.nr \notin NrsOf(s) => OnceEach(r)
<1>1. /\ IsList(s) /\ Len(s) \in Nat /\ \A k \in 1..Len(s) : s[k] \in CommentRow
  BY RowsIn
<1>2. /\ IsList(r) /\ Len(r) = Len(s) + 1
      /\ \A i \in 1..Len(s) : r[i] = s[i]
      /\ r[Len(s) + 1] = c
  BY <1>1, AppendList
<1>3. \A k \in 1..Len(r) : k \in 1..Len(s) \/ k = Len(s) + 1
  BY <1>1, <1>2
<1>4. \A k \in 1..Len(r) : r[k] = c \/ \E j \in 1..Len(s) : r[k] = s[j]
  BY <1>2, <1>3
<1>5. r \in Seq(CommentRow)
  BY <1>1, <1>2, <1>4, RowsAre
<1>6. NrsOf(r) = NrsOf(s) \cup {c.nr}
  <2>1. ASSUME NEW x \in NrsOf(r) PROVE x \in NrsOf(s) \cup {c.nr}
    BY <1>4 DEF NrsOf
  <2>2. ASSUME NEW x \in NrsOf(s) \cup {c.nr} PROVE x \in NrsOf(r)
    <3>1. Len(s) + 1 \in 1..Len(r) /\ \A k \in 1..Len(s) : k \in 1..Len(r)
      BY <1>1, <1>2
    <3> QED BY <1>2, <3>1 DEF NrsOf
  <2> QED BY <2>1, <2>2
<1>7. ASSUME OnceEach(s), c.nr \notin NrsOf(s) PROVE OnceEach(r)
  <2>1. ASSUME NEW i \in 1..Len(r), NEW j \in 1..Len(r), r[i].nr = r[j].nr PROVE i = j
    <3>1. \A k \in 1..Len(s) : r[k] = s[k] /\ s[k].nr # c.nr
      BY <1>2, <1>7 DEF NrsOf
    <3>2. r[Len(s) + 1] = c
      BY <1>2
    <3>3. CASE i \in 1..Len(s) /\ j \in 1..Len(s)
      BY <1>7, <2>1, <3>1, <3>3 DEF OnceEach
    <3>4. CASE ~(i \in 1..Len(s) /\ j \in 1..Len(s))
      BY <1>3, <2>1, <3>1, <3>2, <3>4
    <3> QED BY <3>3, <3>4
  <2> QED BY <2>1 DEF OnceEach
<1> QED BY <1>2, <1>4, <1>5, <1>6, <1>7

\* A row in front of the others.
LEMMA RowInFront ==
    ASSUME NEW s \in Seq(CommentRow), NEW c \in CommentRow, NEW r, r = <<c>> \o s
    PROVE  /\ r \in Seq(CommentRow) /\ NrsOf(r) = NrsOf(s) \cup {c.nr}
           /\ Len(r) = Len(s) + 1
           /\ \A k \in 1..Len(r) : r[k] = c \/ \E j \in 1..Len(s) : r[k] = s[j]
           /\ OnceEach(s) /\ c.nr \notin NrsOf(s) => OnceEach(r)
<1>1. /\ IsList(s) /\ Len(s) \in Nat /\ \A k \in 1..Len(s) : s[k] \in CommentRow
  BY RowsIn
<1>2. IsList(<<c>>) /\ Len(<<c>>) = 1 /\ <<c>>[1] = c
  <2>1. <<c>> \in Seq({c})
    OBVIOUS
  <2> QED BY <2>1 DEF IsList
<1>3. /\ IsList(r) /\ Len(r) = Len(s) + 1
      /\ r[1] = c
      /\ \A i \in 1..Len(s) : r[1 + i] = s[i]
  <2>1. PICK t : t = <<c>>
    OBVIOUS
  <2>2. /\ IsList(t \o s) /\ Len(t \o s) = Len(t) + Len(s)
        /\ \A i \in 1..Len(t) : (t \o s)[i] = t[i]
        /\ \A i \in 1..Len(s) : (t \o s)[Len(t) + i] = s[i]
    BY <1>1, <1>2, <2>1, ConcatList
  <2>3. r = t \o s /\ Len(t) = 1 /\ t[1] = c
    BY <1>2, <2>1
  <2>4. Len(r) = Len(s) + 1
    BY <1>1, <2>2, <2>3
  <2>5. r[1] = c /\ \A i \in 1..Len(s) : r[1 + i] = s[i]
    BY <2>2, <2>3
  <2> QED BY <2>2, <2>3, <2>4, <2>5
<1>4. \A k \in 1..Len(r) : k = 1 \/ \E i \in 1..Len(s) : k = 1 + i
  <2>1. ASSUME NEW k \in 1..Len(r), k # 1 PROVE k - 1 \in 1..Len(s) /\ k = 1 + (k - 1)
    BY <1>1, <1>3, <2>1
  <2> QED BY <2>1
<1>5. \A k \in 1..Len(r) : r[k] = c \/ \E j \in 1..Len(s) : r[k] = s[j]
  BY <1>3, <1>4
<1>6. r \in Seq(CommentRow)
  BY <1>1, <1>3, <1>5, RowsAre
<1>7. NrsOf(r) = NrsOf(s) \cup {c.nr}
  <2>1. ASSUME NEW x \in NrsOf(r) PROVE x \in NrsOf(s) \cup {c.nr}
    BY <1>5 DEF NrsOf
  <2>2. ASSUME NEW x \in NrsOf(s) \cup {c.nr} PROVE x \in NrsOf(r)
    <3>1. 1 \in 1..Len(r) /\ \A k \in 1..Len(s) : 1 + k \in 1..Len(r)
      BY <1>1, <1>3
    <3> QED BY <1>3, <3>1 DEF NrsOf
  <2> QED BY <2>1, <2>2
<1>8. ASSUME OnceEach(s), c.nr \notin NrsOf(s) PROVE OnceEach(r)
  <2>1. ASSUME NEW i \in 1..Len(r), NEW j \in 1..Len(r), r[i].nr = r[j].nr PROVE i = j
    <3>1. \A k \in 1..Len(s) : r[1 + k] = s[k] /\ s[k].nr # c.nr
      BY <1>3, <1>8 DEF NrsOf
    <3>2. CASE i = 1 \/ j = 1
      BY <1>3, <1>4, <2>1, <3>1, <3>2
    <3>3. CASE i # 1 /\ j # 1
      <4>1. PICK k \in 1..Len(s) : i = 1 + k
        BY <1>4, <3>3
      <4>2. PICK l \in 1..Len(s) : j = 1 + l
        BY <1>4, <3>3
      <4> QED BY <1>8, <2>1, <3>1, <4>1, <4>2 DEF OnceEach
    <3> QED BY <3>2, <3>3
  <2> QED BY <2>1 DEF OnceEach
<1> QED BY <1>3, <1>5, <1>6, <1>7, <1>8

\* Counting a reply changes one number of the rows of a comment.
LEMMA RowsCounted ==
    ASSUME NEW s \in Seq(CommentRow), NEW n, NEW d \in Int, NEW r, r = Counted(s, n, d)
    PROVE  /\ r \in Seq(CommentRow) /\ Len(r) = Len(s)
           /\ NrsOf(r) = NrsOf(s) /\ (OnceEach(s) => OnceEach(r))
<1>1. /\ Len(s) \in Nat /\ DOMAIN s = 1..Len(s) /\ \A k \in 1..Len(s) : s[k] \in CommentRow
  BY RowsIn
<1>2. r = [k \in 1..Len(s) |->
              IF s[k].nr = n THEN [s[k] EXCEPT !.replies = Max({0, @ + d})] ELSE s[k]]
  BY <1>1 DEF Counted
<1>3. IsList(r) /\ Len(r) = Len(s)
  <2>1. \A k \in 1..Len(s) : r[k] = IF s[k].nr = n THEN [s[k] EXCEPT !.replies = Max({0, @ + d})] ELSE s[k]
    BY <1>2
  <2>2. r = [k \in 1..Len(s) |-> r[k]]
    BY <1>2
  <2> QED BY <1>1, <2>2, FunctionList
<1>4. ASSUME NEW k \in 1..Len(s) PROVE r[k] \in CommentRow /\ r[k].nr = s[k].nr
  <2>1. PICK c \in CommentRow : c = s[k]
    BY <1>1
  <2>2. PICK m \in Nat : m = Max({0, c.replies + d})
    <3>1. c.replies + d \in Int
      BY DEF CommentRow
    <3> QED BY <3>1, Greater
  <2>3. r[k] = IF c.nr = n THEN [c EXCEPT !.replies = m] ELSE c
    BY <1>2, <2>1, <2>2
  <2> QED BY <2>1, <2>2, <2>3 DEF CommentRow
<1>5. r \in Seq(CommentRow)
  BY <1>3, <1>4, RowsAre
<1>6. NrsOf(r) = NrsOf(s) /\ (OnceEach(s) => OnceEach(r))
  BY <1>3, <1>4 DEF NrsOf, OnceEach
<1> QED BY <1>3, <1>5, <1>6

LEMMA RowCounted ==
    ASSUME NEW s \in Seq(CommentRow), NEW n, NEW d \in Int, NEW r, r = Counted(s, n, d), NEW k \in 1..Len(s)
    PROVE  /\ r[k].nr = s[k].nr /\ r[k].post = s[k].post /\ r[k].under = s[k].under
           /\ s[k].nr # n => r[k].replies = s[k].replies
           /\ s[k].nr = n /\ s[k].replies + d >= 0 => r[k].replies = s[k].replies + d
<1>1. /\ DOMAIN s = 1..Len(s) /\ s[k] \in CommentRow
  BY RowsIn
<1>2. r[k] = IF s[k].nr = n THEN [s[k] EXCEPT !.replies = Max({0, @ + d})] ELSE s[k]
  BY <1>1 DEF Counted
<1>3. PICK c \in CommentRow : c = s[k]
  BY <1>1
<1>4. c.replies + d \in Int
  BY DEF CommentRow
<1>5. PICK m : m = Max({0, c.replies + d})
  OBVIOUS
<1>6. c.replies + d >= 0 => m = c.replies + d
  BY <1>4, <1>5, Greater
<1>7. r[k] = IF c.nr = n THEN [c EXCEPT !.replies = m] ELSE c
  BY <1>2, <1>3, <1>5
<1> QED BY <1>3, <1>6, <1>7 DEF CommentRow

-----------------------------------------------------------------------------
(* What the service answers *)

LEMMA StoredOne ==
    ASSUME TalkSound, NEW d \in talk
    PROVE  d \in Comment /\ (CHOOSE c \in talk : c.nr = d.nr) = d
BY DEF TalkSound

\* The replies to a comment are so many.
LEMMA RepliesFinite ==
    ASSUME TalkSound, NEW n
    PROVE  IsFiniteSet(RepliesTo(n)) /\ Cardinality(RepliesTo(n)) \in Nat
<1>1. IsFiniteSet(RepliesTo(n))
  BY FS_Subset DEF RepliesTo, TalkSound
<1> QED BY <1>1, FS_CardinalityType

LEMMA GivenIs ==
    ASSUME TalkSound, NEW d \in talk
    PROVE  /\ Given(d) \in CommentRow
           /\ Given(d).nr = d.nr /\ Given(d).post = d.post /\ Given(d).under = d.under
           /\ Given(d).replies = Cardinality(RepliesTo(d.nr))
<1>1. d \in Comment /\ Cardinality(RepliesTo(d.nr)) \in Nat
  BY StoredOne, RepliesFinite
<1> QED BY <1>1 DEF Given, Comment, CommentRow

\* Comments have as many numbers as there are of them.
LEMMA NumbersAre ==
    ASSUME NEW S, IsFiniteSet(S), \A c \in S : c.nr \in Int, \A c, d \in S : c.nr = d.nr => c = d
    PROVE  /\ Numbers(S) \in SUBSET Int /\ IsFiniteSet(Numbers(S))
           /\ Cardinality(Numbers(S)) = Cardinality(S)
<1> DEFINE f == [c \in S |-> c.nr]
<1>1. f \in Bijection(S, Numbers(S))
  <2>1. f \in [S -> Numbers(S)]
    BY DEF Numbers
  <2>2. \A c, d \in S : f[c] = f[d] => c = d
    OBVIOUS
  <2>3. \A n \in Numbers(S) : \E c \in S : f[c] = n
    BY DEF Numbers
  <2> HIDE DEF f
  <2> QED BY <2>1, <2>2, <2>3 DEF Bijection, Injection, Surjection, IsInjective
<1>2. IsFiniteSet(Numbers(S)) /\ Cardinality(Numbers(S)) = Cardinality(S)
  BY <1>1, FS_Bijection DEF ExistsBijection
<1> QED BY <1>2 DEF Numbers

LEMMA AsManyNumbers ==
    ASSUME TalkSound, NEW S \in SUBSET talk
    PROVE  /\ Numbers(S) \in SUBSET Int /\ IsFiniteSet(Numbers(S))
           /\ Cardinality(Numbers(S)) = Cardinality(S)
<1>1. IsFiniteSet(S)
  BY FS_Subset DEF TalkSound
<1>2. \A c \in S : c.nr \in Int
  BY DEF TalkSound
<1>3. \A c, d \in S : c.nr = d.nr => c = d
  BY DEF TalkSound
<1> QED BY <1>1, <1>2, <1>3, NumbersAre

\* The rows of some comments, in the order of their numbers.
LEMMA AsGivenIs ==
    ASSUME TalkSound, NEW S \in SUBSET talk, NEW nrs, IsList(nrs), Once(nrs),
           Els(nrs) = Numbers(S), Len(nrs) = Cardinality(S), NEW r, r = AsGiven(nrs)
    PROVE  /\ r \in Seq(CommentRow) /\ Len(r) = Cardinality(S) /\ OnceEach(r)
           /\ \A k \in 1..Len(r) : \E d \in S : r[k] = Given(d)
<1>1. Len(nrs) \in Nat
  BY ListLen
<1>2. r = [k \in 1..Len(nrs) |-> r[k]] /\ \A k \in 1..Len(nrs) : r[k] = Given(CHOOSE c \in talk : c.nr = nrs[k])
  BY DEF AsGiven
<1>3. IsList(r) /\ Len(r) = Len(nrs)
  BY <1>1, <1>2, FunctionList
<1>4. ASSUME NEW k \in 1..Len(nrs)
      PROVE  \E d \in S : r[k] = Given(d) /\ r[k].nr = nrs[k] /\ r[k] \in CommentRow
  <2>1. nrs[k] \in Numbers(S)
    BY DEF Els
  <2>2. PICK d \in S : nrs[k] = d.nr
    BY <2>1 DEF Numbers
  <2>3. r[k] = Given(d)
    BY <1>2, <2>2, StoredOne
  <2> QED BY <2>2, <2>3, GivenIs
<1>5. r \in Seq(CommentRow)
  BY <1>3, <1>4, RowsAre
<1>6. OnceEach(r)
  BY <1>3, <1>4 DEF OnceEach, Once
<1> QED BY <1>3, <1>4, <1>5, <1>6

LEMMA CommentsOfIs ==
    ASSUME TalkSound, NEW p, NEW r, r = CommentsOf(p)
    PROVE  /\ r \in Seq(CommentRow) /\ OnceEach(r) /\ AllUnder(r, Top)
           /\ \A k \in 1..Len(r) : r[k].post = p /\ r[k].replies = Cardinality(RepliesTo(r[k].nr))
<1>1. Roots(p) \in SUBSET talk
  BY DEF Roots
<1>2. /\ Numbers(Roots(p)) \in SUBSET Int /\ IsFiniteSet(Numbers(Roots(p)))
      /\ Cardinality(Numbers(Roots(p))) = Cardinality(Roots(p))
  BY <1>1, AsManyNumbers
<1>3. PICK nrs : nrs = Descending(Numbers(Roots(p)))
  OBVIOUS
<1>4. /\ IsList(nrs) /\ Once(nrs) /\ Els(nrs) = Numbers(Roots(p)) /\ Len(nrs) = Cardinality(Roots(p))
  BY <1>2, <1>3, DescendingList
<1>5. r = AsGiven(nrs)
  BY <1>3 DEF CommentsOf
<1>6. /\ r \in Seq(CommentRow) /\ OnceEach(r)
      /\ \A k \in 1..Len(r) : \E d \in Roots(p) : r[k] = Given(d)
  BY <1>1, <1>4, <1>5, AsGivenIs
<1>7. ASSUME NEW k \in 1..Len(r)
      PROVE  /\ r[k].post = p /\ r[k].replies = Cardinality(RepliesTo(r[k].nr))
             /\ Under(r[k].nr, Top) /\ r[k].under = Top
  <2>1. PICK d \in talk : r[k] = Given(d) /\ d.post = p /\ d.under = Top
    BY <1>6 DEF Roots
  <2>2. /\ r[k].nr = d.nr /\ r[k].post = p /\ r[k].under = Top
        /\ r[k].replies = Cardinality(RepliesTo(d.nr))
    BY <2>1, GivenIs
  <2>3. Under(d.nr, Top)
    BY <2>1 DEF TalkSound, Under
  <2> QED BY <2>2, <2>3
<1> QED BY <1>6, <1>7 DEF AllUnder

LEMMA RepliesOfIs ==
    ASSUME TalkSound, NEW n, NEW r, r = RepliesOf(n)
    PROVE  /\ r \in Seq(CommentRow) /\ OnceEach(r) /\ AllUnder(r, n)
           /\ Len(r) = Cardinality(RepliesTo(n))
<1>1. RepliesTo(n) \in SUBSET talk
  BY DEF RepliesTo
<1>2. /\ Numbers(RepliesTo(n)) \in SUBSET Int /\ IsFiniteSet(Numbers(RepliesTo(n)))
      /\ Cardinality(Numbers(RepliesTo(n))) = Cardinality(RepliesTo(n))
  BY <1>1, AsManyNumbers
<1>3. PICK nrs : nrs = Ascending(Numbers(RepliesTo(n)))
  OBVIOUS
<1>4. /\ IsList(nrs) /\ Once(nrs) /\ Els(nrs) = Numbers(RepliesTo(n)) /\ Len(nrs) = Cardinality(RepliesTo(n))
  BY <1>2, <1>3, AscendingList
<1>5. r = AsGiven(nrs)
  BY <1>3 DEF RepliesOf
<1>6. /\ r \in Seq(CommentRow) /\ OnceEach(r) /\ Len(r) = Cardinality(RepliesTo(n))
      /\ \A k \in 1..Len(r) : \E d \in RepliesTo(n) : r[k] = Given(d)
  BY <1>1, <1>4, <1>5, AsGivenIs
<1>7. ASSUME NEW k \in 1..Len(r)
      PROVE  Under(r[k].nr, n) /\ r[k].under = n
  <2>1. PICK d \in talk : r[k] = Given(d) /\ d.under = n
    BY <1>6 DEF RepliesTo
  <2>2. /\ r[k].nr = d.nr /\ r[k].under = n
    BY <2>1, GivenIs
  <2>3. Under(d.nr, n)
    BY <2>1 DEF TalkSound, Under
  <2> QED BY <2>2, <2>3
<1> QED BY <1>6, <1>7 DEF AllUnder

-----------------------------------------------------------------------------
(* What a step does to the comments stored, to requests and to what is shown *)

\* A request is of the kind its name says.
LEMMA Kinds ==
    ASSUME InquiriesSound, NEW a \in inquiries
    PROVE  /\ a.op = "load" => a \in Listing /\ AllUnder(a.list, Top) /\ OnceEach(a.list)
                                /\ \A k \in 1..Len(a.list) : a.list[k].post = a.post
           /\ a.op = "replies" => a \in Reading /\ a.id \in 1..uttered /\ AllUnder(a.list, a.id)
           /\ a.op \in {"comment", "reply"} => a \in Writing /\ (a.made # 0 => Under(a.made, a.id))
           /\ a.op = "comment" => a.id = Top
           /\ a.op = "reply" => a.id \in 1..uttered
           /\ a.op = "delete" => /\ a \in Removing /\ Under(a.id, a.under) /\ a.under \in 0..uttered
                                 /\ a.at = "done" => ~InTalk(a.id)
           /\ a.op = "heart" => a \in Hearting /\ a.id \in 1..uttered
           /\ a.op \in {"load", "replies", "comment", "reply", "delete", "heart"}
<1>1. InquiryFits(a)
  BY DEF InquiriesSound
<1> QED BY <1>1 DEF InquiryFits, Listing, Reading, Writing, Removing, Hearting

\* The comments stored change in their likes, go, or are new.
TalkGoes ==
    /\ uttered' \in Nat /\ uttered <= uttered'
    /\ \A d \in talk' : (\E c \in talk : c.nr = d.nr /\ c.under = d.under) \/ d.nr \notin 1..uttered

LEMMA TalkStep ==
    ASSUME ThreadTypes, ThreadNext
    PROVE  TalkSound' /\ TalkGoes
<1>1. /\ uttered \in Nat /\ talk \subseteq Comment /\ IsFiniteSet(talk)
      /\ \A c \in talk : c.nr \in 1..uttered
      /\ \A c, d \in talk : c.nr = d.nr => c = d
  BY DEF ThreadTypes, TalkSound
<1>2. CASE UNCHANGED talkDb
  BY <1>1, <1>2 DEF talkDb, TalkSound, TalkGoes
<1>3. ASSUME NEW p \in Discussed, NEW u \in Nat, NEW by \in {"me", "other"}, Utters(p, u, by)
      PROVE  TalkSound' /\ TalkGoes
  <2>1. PICK d : d = [nr |-> uttered', post |-> p, under |-> u, by |-> by, liked |-> FALSE]
    OBVIOUS
  <2>2. uttered' = uttered + 1 /\ talk' = talk \cup {d}
    BY <1>3, <2>1 DEF Utters
  <2>3. d \in Comment /\ d.nr = uttered + 1
    BY <1>1, <2>1, <2>2 DEF Comment
  <2>4. IsFiniteSet(talk')
    BY <1>1, <2>2, FS_AddElement
  <2>5. \A c \in talk : c.nr # d.nr
    BY <1>1, <2>3
  <2>6. TalkSound'
    BY <1>1, <2>2, <2>3, <2>4, <2>5 DEF TalkSound
  <2>7. TalkGoes
    BY <1>1, <2>2, <2>3 DEF TalkGoes
  <2> QED BY <2>6, <2>7
<1>4. ASSUME NEW n, talk' = Without(n), UNCHANGED uttered PROVE TalkSound' /\ TalkGoes
  <2>1. talk' \subseteq talk
    BY <1>4 DEF Without
  <2>2. IsFiniteSet(talk')
    BY <1>1, <2>1, FS_Subset
  <2>3. TalkSound'
    BY <1>1, <1>4, <2>1, <2>2 DEF TalkSound
  <2> QED BY <1>1, <1>4, <2>1, <2>3 DEF TalkGoes
<1>5. ASSUME NEW a \in inquiries, StoreHeart(a) PROVE TalkSound' /\ TalkGoes
  <2>1. PICK c : c = {d \in talk : d.nr = a.id /\ d.liked # a.on}
    OBVIOUS
  <2>2. PICK f : f = {[d EXCEPT !.liked = a.on] : d \in c}
    OBVIOUS
  <2>3. talk' = (talk \ c) \cup f /\ uttered' = uttered
    BY <1>5, <2>1, <2>2 DEF StoreHeart
  <2>4. a.on \in BOOLEAN
    BY <1>5, Kinds DEF ThreadTypes, StoreHeart, Hearting
  <2>5. ASSUME NEW e \in f
        PROVE  /\ e \in Comment
               /\ \E d \in c : e = [d EXCEPT !.liked = a.on] /\ e.nr = d.nr /\ e.under = d.under
    BY <1>1, <2>1, <2>2, <2>4 DEF Comment
  <2>6. \A d, e \in c : d = e
    BY <1>1, <2>1
  <2>7. IsFiniteSet(talk')
    <3>1. f = {} \/ \E e : f = {e}
      BY <2>2, <2>6
    <3>2. IsFiniteSet(f)
      BY <3>1, FS_EmptySet, FS_Singleton
    <3>3. IsFiniteSet(talk \ c)
      BY <1>1, FS_Subset
    <3> QED BY <2>3, <3>2, <3>3, FS_Union
  <2>8. \A e \in talk' : \E d \in talk : d.nr = e.nr /\ d.under = e.under
    BY <2>1, <2>3, <2>5
  <2>9. \A d, e \in talk' : d.nr = e.nr => d = e
    <3>1. \A d \in talk \ c, e \in f : d.nr # e.nr
      <4>1. ASSUME NEW d \in talk \ c, NEW e \in f PROVE d.nr # e.nr
        <5>1. PICK g \in c : e.nr = g.nr
          BY <2>5
        <5> QED BY <1>1, <2>1, <5>1
      <4> QED BY <4>1
    <3>2. \A d, e \in f : d = e
      BY <2>2, <2>6
    <3> QED BY <1>1, <2>3, <3>1, <3>2
  <2>10. talk' \subseteq Comment
    BY <1>1, <2>3, <2>5
  <2>11. \A e \in talk' : e.nr \in 1..uttered'
    BY <1>1, <2>3, <2>8
  <2>12. TalkSound'
    BY <1>1, <2>3, <2>7, <2>9, <2>10, <2>11 DEF TalkSound
  <2> QED BY <1>1, <2>3, <2>8, <2>12 DEF TalkGoes
<1>6. CASE \E p \in Discussed : GoToPost(p) \/ (\E n \in {Top} \cup {c.nr : c \in talk} : OthersSay(p, n))
  <2>1. CASE \E p \in Discussed : GoToPost(p)
    BY <1>2, <2>1 DEF GoToPost
  <2>2. CASE \E p \in Discussed : \E n \in {Top} \cup {c.nr : c \in talk} : OthersSay(p, n)
    <3>1. PICK p \in Discussed, n \in {Top} \cup {c.nr : c \in talk} : OthersSay(p, n)
      BY <2>2
    <3>2. n \in Nat
      BY <1>1 DEF Top
    <3> QED BY <1>3, <3>1, <3>2 DEF OthersSay
  <2> QED BY <1>6, <2>1, <2>2
<1>7. CASE \/ WriteComment
           \/ \E c \in ToSet(listed) : c.nr \in DOMAIN threads /\ (ToggleReplies(c) \/ WriteReply(c))
           \/ \E c \in Items(listed, threads) : c.nr \in DOMAIN hearts /\ DeleteComment(c)
           \/ \E n \in DOMAIN hearts : ToggleHeart(n)
  BY <1>2, <1>7 DEF WriteComment, ToggleReplies, WriteReply, DeleteComment, ToggleHeart
<1>8. CASE \E c \in talk : OthersTakeBack(c)
  BY <1>4, <1>8 DEF OthersTakeBack
<1>9. ASSUME NEW a \in inquiries,
             \/ ReadPost(a) \/ ReadComments(a) \/ LoadDone(a) \/ LoadFails(a)
             \/ ReadReplies(a) \/ RepliesDone(a) \/ RepliesFail(a)
             \/ CommentDone(a) \/ ReplyDone(a) \/ WriteFails(a)
             \/ CommentRemoved(a) \/ ReplyRemoved(a) \/ RemovalFails(a)
             \/ HeartFails(a) \/ HeartAnswered(a)
      PROVE  TalkSound' /\ TalkGoes
  BY <1>2, <1>9 DEF ReadPost, ReadComments, LoadDone, LoadFails, ReadReplies, RepliesDone,
     RepliesFail, CommentDone, ReplyDone, WriteFails, CommentRemoved, ReplyRemoved,
     RemovalFails, HeartFails, HeartAnswered
<1>10. ASSUME NEW a \in inquiries, StoreComment(a) PROVE TalkSound' /\ TalkGoes
  <2>1. a.post \in Discussed /\ a.id \in Nat
    BY <1>10, Kinds DEF ThreadTypes, StoreComment, Writing
  <2> QED BY <1>3, <1>10, <2>1 DEF StoreComment
<1>11. ASSUME NEW a \in inquiries, StoreRemoval(a) PROVE TalkSound' /\ TalkGoes
  BY <1>4, <1>11 DEF StoreRemoval
<1> QED BY <1>5, <1>6, <1>7, <1>8, <1>9, <1>10, <1>11 DEF ThreadNext

\* What stands under something stays there, and what is gone stays gone.
LEMMA UnderStays ==
    ASSUME TalkSound, TalkGoes
    PROVE  /\ \A n, u : Under(n, u) => Under(n, u)'
           /\ \A n \in 1..uttered : ~InTalk(n) => ~InTalk(n)'
           /\ \A list, u : AllUnder(list, u) => AllUnder(list, u)'
           /\ \A n \in 1..uttered : n \in 1..uttered'
<1>1. uttered \in Nat /\ \A c \in talk : c.nr \in 1..uttered
  BY DEF TalkSound
<1>2. \A n \in 1..uttered : n \in 1..uttered'
  BY <1>1 DEF TalkGoes
<1>3. ASSUME NEW n, NEW u, Under(n, u) PROVE Under(n, u)'
  BY <1>2, <1>3 DEF TalkGoes, Under
<1>4. ASSUME NEW n \in 1..uttered, ~InTalk(n) PROVE ~InTalk(n)'
  BY <1>4 DEF TalkGoes, InTalk
<1>5. ASSUME NEW list, NEW u, AllUnder(list, u) PROVE AllUnder(list, u)'
  BY <1>3, <1>5 DEF AllUnder
<1> QED BY <1>2, <1>3, <1>4, <1>5

\* What fits goes on to fit.
LEMMA FitsStays ==
    ASSUME TalkSound, TalkGoes, NEW a, InquiryFits(a)
    PROVE  InquiryFits(a)'
<1>1. CASE a \in Listing /\ AllUnder(a.list, Top) /\ OnceEach(a.list)
           /\ \A k \in 1..Len(a.list) : a.list[k].post = a.post
  BY <1>1, UnderStays DEF InquiryFits
<1>2. CASE a \in Reading /\ a.id \in 1..uttered /\ AllUnder(a.list, a.id)
  BY <1>2, UnderStays DEF InquiryFits
<1>3. CASE /\ a \in Writing
           /\ IF a.op = "comment" THEN a.id = Top ELSE a.id \in 1..uttered
           /\ a.made # 0 => Under(a.made, a.id)
  <2>1. a.made # 0 => Under(a.made, a.id)'
    BY <1>3, UnderStays
  <2>2. IF a.op = "comment" THEN a.id = Top ELSE a.id \in 1..uttered'
    BY <1>3, UnderStays
  <2> QED BY <1>3, <2>1, <2>2 DEF InquiryFits
<1>4. CASE /\ a \in Removing /\ Under(a.id, a.under) /\ a.under \in 0..uttered
           /\ a.at = "done" => ~InTalk(a.id)
  <2>1. Under(a.id, a.under)' /\ a.id \in 1..uttered
    BY <1>4, UnderStays DEF Under
  <2>2. a.at = "done" => ~InTalk(a.id)'
    BY <1>4, <2>1, UnderStays
  <2>3. a.under \in 0..uttered'
    BY <1>4 DEF TalkSound, TalkGoes
  <2> QED BY <1>4, <2>1, <2>2, <2>3 DEF InquiryFits
<1>5. CASE a \in Hearting /\ a.id \in 1..uttered
  BY <1>5, UnderStays DEF InquiryFits
<1> QED BY <1>1, <1>2, <1>3, <1>4, <1>5 DEF InquiryFits

\* A request that is new, or has got further, leaves the others as they are.
LEMMA InquiriesGoOn ==
    ASSUME ThreadTypes, TalkGoes, NEW b, inquiries' \subseteq inquiries \cup {b}, InquiryFits(b)',
           b \in Writing => b.made \notin {c.made : c \in {d \in inquiries : d \in Writing}} \/ b.made = 0,
           b \in Removing /\ b.at = "done" =>
               \A c \in inquiries : c \in Removing /\ c.at = "done" => c.id # b.id
    PROVE  InquiriesSound'
<1>1. TalkSound /\ InquiriesSound
  BY DEF ThreadTypes
<1>2. \A a \in inquiries' : InquiryFits(a)'
  BY <1>1, FitsStays DEF InquiriesSound
<1>3. ASSUME NEW a \in inquiries', NEW c \in inquiries',
             a \in Writing, c \in Writing, a.made # 0, a.made = c.made
      PROVE  a = c
  BY <1>1, <1>3 DEF InquiriesSound
<1>4. ASSUME NEW a \in inquiries', NEW c \in inquiries',
             a \in Removing, c \in Removing, a.id = c.id, a.at = "done", c.at = "done"
      PROVE  a = c
  BY <1>1, <1>4 DEF InquiriesSound
<1> QED BY <1>2, <1>3, <1>4 DEF InquiriesSound

LEMMA InquiriesFewer ==
    ASSUME ThreadTypes, TalkGoes, inquiries' \subseteq inquiries
    PROVE  InquiriesSound'
<1>1. TalkSound /\ InquiriesSound
  BY DEF ThreadTypes
<1>2. \A a \in inquiries' : InquiryFits(a)'
  BY <1>1, FitsStays DEF InquiriesSound
<1> QED BY <1>1, <1>2 DEF InquiriesSound

-----------------------------------------------------------------------------
(* What is mounted *)

\* A function of the threads, or of the hearts, of the page.
IsMap(f) == f = [n \in DOMAIN f |-> f[n]]

LEMMA EmptyMap == IsMap(<<>>) /\ DOMAIN <<>> = {}
<1>1. <<>> \in Seq({}) /\ Len(<<>>) = 0
  OBVIOUS
<1>2. DOMAIN <<>> = 1..0
  BY <1>1
<1>3. <<>> = [n \in 1..0 |-> <<>>[n]]
  BY <1>1
<1> QED BY <1>2, <1>3 DEF IsMap

ThreadsFit(ths) ==
    IsMap(ths) /\ \A n \in DOMAIN ths : ths[n] \in ThreadState /\ AllUnder(ths[n].replies, n)
HeartsFit(hs) ==
    IsMap(hs) /\ DOMAIN hs \subseteq 1..uttered /\ \A n \in DOMAIN hs : hs[n] \in HeartState

\* A heart that starts, and that nothing is known of which it does not show.
NewItems(h, n) ==
    /\ ~h.liked /\ ~h.busy /\ h.count = 0
    /\ \A t \in talk : t.nr = n => ~t.liked
    /\ \A a \in inquiries : ~Beats(a, n)

LEMMA NewThreadIs ==
    ASSUME mounts \in Nat, NEW n
    PROVE  /\ NewThread(mounts + 1) \in ThreadState /\ AllUnder(NewThread(mounts + 1).replies, n)
           /\ NewThread(mounts + 1).replies = <<>>
           /\ ~NewThread(mounts + 1).open /\ ~NewThread(mounts + 1).loading
<1>1. <<>> \in Seq(CommentRow) /\ Len(<<>>) = 0
  OBVIOUS
<1>2. NewThread(mounts + 1) = [open |-> FALSE, replies |-> <<>>, loading |-> FALSE, inst |-> mounts + 1]
  BY DEF NewThread
<1>3. PICK th : th = NewThread(mounts + 1)
  OBVIOUS
<1>4. /\ th \in ThreadState /\ th.replies = <<>> /\ ~th.open /\ ~th.loading
  <2>1. PICK e \in Seq(CommentRow) : e = <<>>
    BY <1>1
  <2>2. PICK m \in Nat : m = mounts + 1
    OBVIOUS
  <2>3. PICK S : S = Seq(CommentRow)
    OBVIOUS
  <2>4. th = [open |-> FALSE, replies |-> e, loading |-> FALSE, inst |-> m] /\ e \in S
    BY <1>2, <1>3, <2>1, <2>2, <2>3
  <2>5. th \in [open : BOOLEAN, replies : S, loading : BOOLEAN, inst : Nat]
    BY <2>4
  <2> QED BY <2>1, <2>3, <2>4, <2>5 DEF ThreadState
<1>5. AllUnder(<<>>, n)
  BY <1>1 DEF AllUnder
<1> QED BY <1>3, <1>4, <1>5

\* The rows shown are those of the list, and of its threads.
LEMMA ItemsAre ==
    ASSUME NEW list \in Seq(CommentRow), AllUnder(list, Top), NEW ths, ThreadsFit(ths),
           NEW c \in Items(list, ths)
    PROVE  /\ c \in CommentRow /\ c.nr \in 1..uttered
           /\ \/ \E k \in 1..Len(list) : c = list[k] /\ c.under = Top
              \/ \E n \in DOMAIN ths : \E k \in 1..Len(ths[n].replies) :
                     c = ths[n].replies[k] /\ c.under = n
           /\ Under(c.nr, c.under)
<1>1. CASE c \in ToSet(list)
  <2>1. PICK k \in 1..Len(list) : c = list[k]
    BY <1>1, RowsIn
  <2>2. list[k] \in CommentRow /\ Under(list[k].nr, Top) /\ list[k].under = Top
    BY RowsIn DEF AllUnder
  <2> QED BY <2>1, <2>2 DEF Under
<1>2. ASSUME NEW n \in DOMAIN ths, c \in ToSet(ths[n].replies)
      PROVE  /\ c \in CommentRow /\ c.nr \in 1..uttered /\ Under(c.nr, c.under)
             /\ \E k \in 1..Len(ths[n].replies) : c = ths[n].replies[k] /\ c.under = n
  <2>1. ths[n].replies \in Seq(CommentRow) /\ AllUnder(ths[n].replies, n)
    BY DEF ThreadsFit, ThreadState
  <2>2. PICK k \in 1..Len(ths[n].replies) : c = ths[n].replies[k]
    BY <1>2, <2>1, RowsIn
  <2>3. ths[n].replies[k] \in CommentRow
    BY <2>1, <2>2, RowsIn
  <2>4. Under(ths[n].replies[k].nr, n) /\ ths[n].replies[k].under = n
    BY <2>1, <2>2 DEF AllUnder
  <2> QED BY <2>2, <2>3, <2>4 DEF Under
<1>3. c \in ToSet(list) \/ \E n \in DOMAIN ths : c \in ToSet(ths[n].replies)
  BY DEF Items
<1> QED BY <1>1, <1>2, <1>3

LEMMA MountsIs ==
    ASSUME PageSound, NEW on \in BOOLEAN, NEW list \in Seq(CommentRow), AllUnder(list, Top),
           NEW ths, ThreadsFit(ths), NEW heart, HeartsFit(heart),
           Mounts(on, list, ths, heart)
    PROVE  /\ listed' = list /\ mounts' = mounts + 1
           /\ DOMAIN threads' = IF on THEN NrsOf(list) ELSE {}
           /\ \A n \in DOMAIN threads' :
                  threads'[n] = IF n \in DOMAIN ths THEN ths[n] ELSE NewThread(mounts + 1)
           /\ IsMap(threads')
           /\ \A n \in DOMAIN threads' : threads'[n] \in ThreadState /\ AllUnder(threads'[n].replies, n)
           /\ IsMap(hearts') /\ DOMAIN hearts' \subseteq 1..uttered
           /\ \A n \in DOMAIN hearts' : hearts'[n] \in HeartState
           /\ \A n \in DOMAIN hearts' \ dark' :
                  n \notin dark /\ IF n \in DOMAIN heart THEN hearts'[n] = heart[n] ELSE NewItems(hearts'[n], n)
           /\ dark \subseteq dark'
           /\ ~on => DOMAIN hearts' = {}
<1> DEFINE ids == IF on THEN {c.nr : c \in ToSet(list)} ELSE {}
           next == [n \in ids |-> IF n \in DOMAIN ths THEN ths[n] ELSE NewThread(mounts + 1)]
           items == IF on THEN Items(list, next) ELSE {}
           fresh == {c \in items : c.nr \notin DOMAIN heart}
<1>1. /\ listed' = list /\ mounts' = mounts + 1 /\ threads' = next
      /\ hearts' = [n \in {c.nr : c \in items} |->
                     IF n \in DOMAIN heart THEN heart[n]
                     ELSE [liked |-> FALSE, busy |-> FALSE, inst |-> mounts + 1,
                           count |-> (CHOOSE c \in items : c.nr = n).likes]]
      /\ dark' = dark \cup {c.nr : c \in {d \in fresh :
                   \/ \E t \in talk : t.nr = d.nr /\ t.liked
                   \/ d.likes > 0
                   \/ \E a \in inquiries : a.op = "heart" /\ a.id = d.nr}}
  BY DEF Mounts
<1>2. mounts \in Nat
  BY DEF PageSound
<1>3. ids = IF on THEN NrsOf(list) ELSE {}
  <2>1. ToSet(list) = {list[k] : k \in 1..Len(list)}
    BY RowsIn
  <2>2. {c.nr : c \in ToSet(list)} = NrsOf(list)
    BY <2>1 DEF NrsOf
  <2> QED BY <2>2
<1>4. /\ DOMAIN next = ids /\ IsMap(next)
      /\ \A n \in ids : next[n] = IF n \in DOMAIN ths THEN ths[n] ELSE NewThread(mounts + 1)
  BY DEF IsMap
<1>5. ASSUME NEW n \in ids PROVE next[n] \in ThreadState /\ AllUnder(next[n].replies, n)
  <2>1. CASE n \in DOMAIN ths
    BY <1>4, <2>1 DEF ThreadsFit
  <2>2. CASE n \notin DOMAIN ths
    BY <1>2, <1>4, <2>2, NewThreadIs
  <2> QED BY <2>1, <2>2
<1>6. ThreadsFit(next)
  BY <1>4, <1>5 DEF ThreadsFit
<1> HIDE DEF next, ids
<1>7. ASSUME NEW c \in items PROVE c \in CommentRow /\ c.nr \in 1..uttered
  <2>1. c \in Items(list, next)
    BY <1>7
  <2> QED BY <1>6, <2>1, ItemsAre
<1> HIDE DEF items
<1>8. DOMAIN hearts' = {c.nr : c \in items} /\ IsMap(hearts')
  BY <1>1 DEF IsMap
<1>9. ASSUME NEW n \in DOMAIN hearts'
      PROVE  hearts'[n] \in HeartState /\ n \in 1..uttered
  <2>1. PICK c \in items : n = c.nr
    BY <1>8
  <2>2. CASE n \in DOMAIN heart
    BY <1>1, <1>7, <1>8, <2>1, <2>2 DEF HeartsFit
  <2>3. CASE n \notin DOMAIN heart
    <3>1. PICK d \in items : d = (CHOOSE e \in items : e.nr = n)
      BY <2>1
    <3>2. d.likes \in Nat
      BY <1>7 DEF CommentRow
    <3>3. hearts'[n] = [liked |-> FALSE, busy |-> FALSE, inst |-> mounts + 1, count |-> d.likes]
      BY <1>1, <1>8, <2>3, <3>1
    <3> QED BY <1>2, <1>7, <2>1, <3>2, <3>3 DEF HeartState
  <2> QED BY <2>2, <2>3
<1>10. ASSUME NEW n \in DOMAIN hearts' \ dark'
       PROVE  n \notin dark /\ IF n \in DOMAIN heart THEN hearts'[n] = heart[n] ELSE NewItems(hearts'[n], n)
  <2>1. PICK c \in items : n = c.nr
    BY <1>8
  <2>2. n \notin dark
    BY <1>1
  <2>3. CASE n \in DOMAIN heart
    BY <1>1, <1>8, <2>2, <2>3
  <2>4. CASE n \notin DOMAIN heart
    <3>1. PICK d \in items : d = (CHOOSE e \in items : e.nr = n) /\ d.nr = n
      BY <2>1
    <3>2. d \in fresh
      BY <2>4, <3>1
    <3>3. /\ ~(\E t \in talk : t.nr = n /\ t.liked)
          /\ ~(d.likes > 0)
          /\ ~(\E a \in inquiries : a.op = "heart" /\ a.id = n)
      BY <1>1, <3>1, <3>2
    <3>4. d.likes = 0
      BY <1>7, <3>3 DEF CommentRow
    <3>5. hearts'[n] = [liked |-> FALSE, busy |-> FALSE, inst |-> mounts + 1, count |-> d.likes]
      BY <1>1, <1>8, <2>4, <3>1
    <3>6. NewItems(hearts'[n], n)
      BY <3>3, <3>4, <3>5 DEF NewItems, Beats
    <3> QED BY <2>2, <2>4, <3>6
  <2> QED BY <2>3, <2>4
<1>11. ~on => DOMAIN hearts' = {}
  BY <1>8 DEF items
<1>12. dark \subseteq dark'
  BY <1>1
<1> QED BY <1>1, <1>3, <1>4, <1>5, <1>8, <1>9, <1>10, <1>11, <1>12

\* What the page is, as a whole.
LEMMA PageFits ==
    ASSUME PageSound
    PROVE  /\ ThreadsFit(threads) /\ HeartsFit(hearts)
           /\ listed \in Seq(CommentRow) /\ AllUnder(listed, Top)
           /\ Ready \in BOOLEAN
BY DEF PageSound, ThreadsFit, HeartsFit, IsMap, Ready

-----------------------------------------------------------------------------
(* The types stay *)

LEMMA InquiriesStep ==
    ASSUME ThreadTypes, ThreadNext
    PROVE  InquiriesSound'
<1>1. /\ TalkSound /\ InquiriesSound /\ PageSound /\ TalkSound' /\ TalkGoes
      /\ uttered \in Nat /\ strokes \in Nat
  BY TalkStep DEF ThreadTypes, TalkSound, PageSound
<1>2. <<>> \in Seq(CommentRow) /\ Len(<<>>) = 0
  OBVIOUS
<1>3. ASSUME inquiries' \subseteq inquiries PROVE InquiriesSound'
  BY <1>1, <1>3, InquiriesFewer
<1>4. ASSUME NEW b, inquiries' \subseteq inquiries \cup {b}, InquiryFits(b)',
             b \in Writing => b.made = 0,
             b \in Removing => b.at # "done"
      PROVE  InquiriesSound'
  BY <1>1, <1>4, InquiriesGoOn
<1>5. ASSUME NEW p \in Discussed, GoToPost(p) PROVE InquiriesSound'
  <2>1. PICK b : b = [op |-> "load", id |-> strokes', post |-> p, count |-> -1, list |-> <<>>,
                      at |-> {"post", "list"}]
    OBVIOUS
  <2>2. inquiries' = inquiries \cup {b} /\ strokes' = strokes + 1
    BY <1>5, <2>1 DEF GoToPost, Stroke
  <2>3. b \in Listing /\ b.list = <<>> /\ b.op = "load"
    <3>1. PICK S : S = Seq(CommentRow)
      OBVIOUS
    <3>2. PICK e \in S : e = <<>>
      BY <1>2, <3>1
    <3>3. PICK m \in Nat : m = strokes'
      BY <1>1, <2>2
    <3>4. b = [op |-> "load", id |-> m, post |-> p, count |-> -1, list |-> e, at |-> {"post", "list"}]
      BY <2>1, <3>2, <3>3
    <3>5. b \in [op : {"load"}, id : Nat, post : Discussed, count : Int, list : S, at : SUBSET {"post", "list"}]
      BY <3>2, <3>4
    <3> QED BY <3>1, <3>2, <3>4, <3>5 DEF Listing
  <2>4. AllUnder(<<>>, Top)' /\ OnceEach(<<>>)
    BY <1>2 DEF AllUnder, OnceEach
  <2>5. InquiryFits(b)'
    BY <1>2, <2>3, <2>4 DEF InquiryFits
  <2>6. b \notin Writing /\ b \notin Removing
    BY <2>3 DEF Writing, Removing
  <2> QED BY <1>4, <2>2, <2>5, <2>6
<1>6. ASSUME NEW a \in inquiries, ReadPost(a) \/ ReadComments(a) PROVE InquiriesSound'
  <2>1. /\ a \in Listing /\ AllUnder(a.list, Top) /\ OnceEach(a.list)
        /\ \A k \in 1..Len(a.list) : a.list[k].post = a.post
    BY <1>1, <1>6, Kinds DEF ReadPost, ReadComments
  <2>2. PICK S : S = Seq(CommentRow)
    OBVIOUS
  <2>3. a \in [op : {"load"}, id : Nat, post : Discussed, count : Int, list : S,
               at : SUBSET {"post", "list"}]
    BY <2>1, <2>2 DEF Listing
  <2>4. CASE ReadPost(a)
    <3>1. PICK n \in Int : n = Cardinality(Roots(a.post))
      <4>1. IsFiniteSet(Roots(a.post))
        BY <1>1, FS_Subset DEF Roots, TalkSound
      <4> QED BY <4>1, FS_CardinalityType
    <3>2. PICK b : b = [a EXCEPT !.count = n, !.at = @ \ {"post"}]
      OBVIOUS
    <3>3. inquiries' = (inquiries \ {a}) \cup {b}
      BY <2>4, <3>1, <3>2 DEF ReadPost, Becoming
    <3>4. /\ b \in [op : {"load"}, id : Nat, post : Discussed, count : Int, list : S,
                    at : SUBSET {"post", "list"}]
          /\ b.op = "load" /\ b.list = a.list /\ b.post = a.post
      BY <2>3, <3>2
    <3>5. b \in Listing
      BY <2>2, <3>4 DEF Listing
    <3>6. AllUnder(a.list, Top)'
      BY <1>1, <2>1, UnderStays
    <3>7. InquiryFits(b)'
      BY <2>1, <3>4, <3>5, <3>6 DEF InquiryFits
    <3>8. b \notin Writing /\ b \notin Removing
      BY <3>4 DEF Writing, Removing
    <3> QED BY <1>4, <3>3, <3>7, <3>8
  <2>5. CASE ReadComments(a)
    <3>1. PICK list \in S : list = CommentsOf(a.post)
      BY <1>1, <2>2, CommentsOfIs
    <3>2. PICK b : b = [a EXCEPT !.list = list, !.at = @ \ {"list"}]
      OBVIOUS
    <3>3. inquiries' = (inquiries \ {a}) \cup {b}
      BY <2>5, <3>1, <3>2 DEF ReadComments, Becoming
    <3>4. /\ b \in [op : {"load"}, id : Nat, post : Discussed, count : Int, list : S,
                    at : SUBSET {"post", "list"}]
          /\ b.op = "load" /\ b.list = list /\ b.post = a.post
      BY <2>3, <3>1, <3>2
    <3>5. b \in Listing
      BY <2>2, <3>4 DEF Listing
    <3>6. AllUnder(list, Top) /\ OnceEach(list) /\ \A k \in 1..Len(list) : list[k].post = a.post
      BY <1>1, <3>1, CommentsOfIs
    <3>7. AllUnder(list, Top)'
      BY <1>1, <3>6, UnderStays
    <3>8. InquiryFits(b)'
      BY <3>4, <3>5, <3>6, <3>7 DEF InquiryFits
    <3>9. b \notin Writing /\ b \notin Removing
      BY <3>4 DEF Writing, Removing
    <3> QED BY <1>4, <3>3, <3>8, <3>9
  <2> QED BY <1>6, <2>4, <2>5
<1>7. ASSUME NEW c \in ToSet(listed), c.nr \in DOMAIN threads, ToggleReplies(c)
      PROVE  InquiriesSound'
  <2>1. CASE inquiries' = inquiries
    BY <1>3, <2>1
  <2>2. CASE inquiries' # inquiries
    <3>1. PICK b : b = [op |-> "replies", id |-> c.nr, nr |-> strokes', inst |-> threads[c.nr].inst,
                        list |-> <<>>, at |-> "sent"]
      OBVIOUS
    <3>2. inquiries' = inquiries \cup {b} /\ strokes' = strokes + 1
      BY <1>7, <2>2, <3>1 DEF ToggleReplies, Stroke
    <3>3. PICK i \in Nat : i = threads[c.nr].inst
      BY <1>1, <1>7 DEF PageSound, ThreadState
    <3>4. c.nr \in 1..uttered
      BY <1>1, <1>7, RowsIn DEF PageSound, AllUnder, Under
    <3>5. PICK S : S = Seq(CommentRow)
      OBVIOUS
    <3>6. PICK e \in S : e = <<>>
      BY <1>2, <3>5
    <3>7. PICK m \in Nat : m = strokes'
      BY <1>1, <3>2
    <3>8. PICK n \in Nat : n = c.nr /\ n \in 1..uttered
      BY <3>4
    <3>9. b = [op |-> "replies", id |-> n, nr |-> m, inst |-> i, list |-> e, at |-> "sent"]
      BY <3>1, <3>3, <3>6, <3>7, <3>8
    <3>10. b \in [op : {"replies"}, id : Nat, nr : Nat, inst : Nat, list : S, at : {"sent", "read"}]
      BY <3>9
    <3>11. b \in Reading /\ b.op = "replies" /\ b.list = <<>> /\ b.id = n
      BY <3>5, <3>6, <3>9, <3>10 DEF Reading
    <3>12. AllUnder(<<>>, n)' /\ n \in 1..uttered'
      BY <1>1, <1>2, <3>8, UnderStays DEF AllUnder
    <3>13. InquiryFits(b)'
      BY <3>11, <3>12 DEF InquiryFits
    <3>14. b \notin Writing /\ b \notin Removing
      BY <3>11 DEF Writing, Removing
    <3> QED BY <1>4, <3>2, <3>13, <3>14
  <2> QED BY <2>1, <2>2
<1>8. ASSUME NEW a \in inquiries, ReadReplies(a) PROVE InquiriesSound'
  <2>1. a \in Reading /\ a.id \in 1..uttered
    BY <1>1, <1>8, Kinds DEF ReadReplies
  <2>2. PICK S : S = Seq(CommentRow)
    OBVIOUS
  <2>3. a \in [op : {"replies"}, id : Nat, nr : Nat, inst : Nat, list : S, at : {"sent", "read"}]
    BY <2>1, <2>2 DEF Reading
  <2>4. PICK list \in S : list = RepliesOf(a.id)
    BY <1>1, <2>2, RepliesOfIs
  <2>5. PICK b : b = [a EXCEPT !.list = list, !.at = "read"]
    OBVIOUS
  <2>6. inquiries' = (inquiries \ {a}) \cup {b}
    BY <1>8, <2>4, <2>5 DEF ReadReplies, Becoming
  <2>7. /\ b \in [op : {"replies"}, id : Nat, nr : Nat, inst : Nat, list : S, at : {"sent", "read"}]
        /\ b.op = "replies" /\ b.list = list /\ b.id = a.id
    BY <2>3, <2>4, <2>5
  <2>8. b \in Reading
    BY <2>2, <2>7 DEF Reading
  <2>9. AllUnder(list, a.id)' /\ a.id \in 1..uttered'
    BY <1>1, <2>1, <2>4, RepliesOfIs, UnderStays
  <2>10. InquiryFits(b)'
    BY <2>7, <2>8, <2>9 DEF InquiryFits
  <2>11. b \notin Writing /\ b \notin Removing
    BY <2>7 DEF Writing, Removing
  <2> QED BY <1>4, <2>6, <2>10, <2>11
<1>9. CASE WriteComment
  <2>1. PICK b : b = [op |-> "comment", id |-> Top, nr |-> strokes', post |-> address, inst |-> 0, made |-> 0]
    OBVIOUS
  <2>2. inquiries' = inquiries \cup {b} /\ strokes' = strokes + 1
    BY <1>9, <2>1 DEF WriteComment, Stroke
  <2>3. b \in Writing /\ b.op = "comment" /\ b.id = Top /\ b.made = 0
    BY <1>1, <2>1, <2>2 DEF Writing, Top, PageSound
  <2>4. InquiryFits(b)' /\ b \notin Removing
    BY <2>3 DEF InquiryFits, Removing
  <2> QED BY <1>4, <2>2, <2>3, <2>4
<1>10. ASSUME NEW c \in ToSet(listed), c.nr \in DOMAIN threads, WriteReply(c)
       PROVE  InquiriesSound'
  <2>1. PICK b : b = [op |-> "reply", id |-> c.nr, nr |-> strokes', post |-> c.post,
                      inst |-> threads[c.nr].inst, made |-> 0]
    OBVIOUS
  <2>2. inquiries' = inquiries \cup {b} /\ strokes' = strokes + 1
    BY <1>10, <2>1 DEF WriteReply, Stroke
  <2>3. c \in CommentRow /\ c.nr \in 1..uttered
    BY <1>1, <1>10, RowsIn DEF PageSound, AllUnder, Under
  <2>4. threads[c.nr].inst \in Nat
    BY <1>1, <1>10 DEF PageSound, ThreadState
  <2>5. b \in Writing /\ b.op = "reply" /\ b.id = c.nr /\ b.made = 0
    BY <1>1, <2>1, <2>2, <2>3, <2>4 DEF Writing, CommentRow
  <2>6. c.nr \in 1..uttered'
    BY <1>1, <2>3, UnderStays
  <2>7. InquiryFits(b)' /\ b \notin Removing
    BY <2>5, <2>6 DEF InquiryFits, Removing
  <2> QED BY <1>4, <2>2, <2>5, <2>7
<1>11. ASSUME NEW a \in inquiries, StoreComment(a) PROVE InquiriesSound'
  <2>1. a \in Writing /\ a.op \in {"comment", "reply"}
    BY <1>1, <1>11, Kinds DEF StoreComment
  <2>2. PICK b : b = [a EXCEPT !.made = uttered']
    OBVIOUS
  <2>3. /\ inquiries' = (inquiries \ {a}) \cup {b} /\ uttered' = uttered + 1
        /\ talk' = talk \cup {[nr |-> uttered', post |-> a.post, under |-> a.id, by |-> "me", liked |-> FALSE]}
    BY <1>11, <2>2 DEF StoreComment, Becoming, Utters
  <2>4. PICK m \in Nat : m = uttered + 1
    BY <1>1
  <2>5. b \in Writing /\ b.op = a.op /\ b.id = a.id /\ b.made = m
    BY <1>1, <2>1, <2>2, <2>3, <2>4 DEF Writing
  <2>6. Under(m, a.id)'
    <3>1. uttered' = m /\ m \in 1..uttered'
      BY <1>1, <2>3, <2>4
    <3>2. \A d \in talk : d.nr # m
      BY <1>1, <2>4 DEF TalkSound
    <3>3. \A d \in talk' : d.nr = m => d.under = a.id
      BY <2>3, <3>2
    <3> QED BY <3>1, <3>3 DEF Under
  <2>7. IF a.op = "comment" THEN a.id = Top ELSE a.id \in 1..uttered
    BY <1>1, <2>1, Kinds
  <2>8. InquiryFits(b)' /\ b \notin Removing
    <3>1. IF b.op = "comment" THEN b.id = Top ELSE b.id \in 1..uttered'
      BY <1>1, <2>5, <2>7, UnderStays
    <3>2. Under(b.made, b.id)'
      BY <2>5, <2>6
    <3>3. b \notin Removing
      BY <2>1, <2>5 DEF Removing
    <3> QED BY <2>5, <3>1, <3>2, <3>3 DEF InquiryFits
  <2>9. \A c \in inquiries : c \in Writing => c.made # m
    <3>1. ASSUME NEW c \in inquiries, c \in Writing PROVE c.made = 0 \/ c.made \in 1..uttered
      <4>1. c.op \in {"comment", "reply"}
        BY <3>1 DEF Writing
      <4> QED BY <1>1, <4>1, Kinds DEF Under
    <3> QED BY <1>1, <2>4, <3>1
  <2>10. b.made \notin {c.made : c \in {d \in inquiries : d \in Writing}}
    BY <2>5, <2>9
  <2>11. inquiries' \subseteq inquiries \cup {b}
    BY <2>3
  <2> QED BY <1>1, <2>8, <2>10, <2>11, InquiriesGoOn
<1>12. ASSUME NEW c \in Items(listed, threads), c.nr \in DOMAIN hearts, DeleteComment(c)
       PROVE  InquiriesSound'
  <2>1. /\ c \in CommentRow /\ Under(c.nr, c.under) /\ c.nr \in 1..uttered
        /\ c.under = Top \/ c.under \in DOMAIN threads
    BY <1>1, <1>12, PageFits, ItemsAre
  <2>2. PICK b : b = [op |-> "delete", id |-> c.nr, under |-> c.under, inst |-> hearts[c.nr].inst,
                      of |-> IF c.under = Top THEN 0 ELSE threads[c.under].inst, at |-> "sent"]
    OBVIOUS
  <2>3. inquiries' = inquiries \cup {b}
    BY <1>12, <2>2 DEF DeleteComment
  <2>4. hearts[c.nr].inst \in Nat /\ (c.under # Top => threads[c.under].inst \in Nat)
    BY <1>1, <1>12, <2>1 DEF PageSound, HeartState, ThreadState
  <2>5. b \in Removing /\ b.id = c.nr /\ b.under = c.under /\ b.at = "sent" /\ b.op = "delete"
    BY <2>1, <2>2, <2>4 DEF Removing, CommentRow
  <2>6. Under(c.nr, c.under)'
    BY <1>1, <2>1, UnderStays
  <2>7. c.under \in 0..uttered'
    <3>1. c.under = Top \/ c.under \in 1..uttered
      BY <1>1, <2>1 DEF PageSound, AllUnder, Under, NrsOf
    <3> QED BY <1>1, <3>1, UnderStays DEF Top, TalkGoes
  <2>8. InquiryFits(b)' /\ b \notin Writing
    BY <2>5, <2>6, <2>7 DEF InquiryFits, Writing
  <2> QED BY <1>4, <2>3, <2>5, <2>8
<1>13. ASSUME NEW a \in inquiries, StoreRemoval(a) PROVE InquiriesSound'
  <2>1. a \in Removing /\ Under(a.id, a.under) /\ a.op = "delete" /\ a.under \in 0..uttered
    BY <1>1, <1>13, Kinds DEF StoreRemoval
  <2>2. PICK b : b = [a EXCEPT !.at = "done"]
    OBVIOUS
  <2>3. inquiries' = (inquiries \ {a}) \cup {b} /\ talk' = Without(a.id) /\ uttered' = uttered
    BY <1>13, <2>2 DEF StoreRemoval, Becoming
  <2>4. b \in Removing /\ b.id = a.id /\ b.under = a.under /\ b.op = "delete"
    BY <2>1, <2>2 DEF Removing
  <2>5. ~InTalk(a.id)' /\ Under(a.id, a.under)'
    BY <1>1, <2>1, <2>3, UnderStays DEF InTalk, Without
  <2>6. InquiryFits(b)' /\ b \notin Writing
    BY <2>1, <2>3, <2>4, <2>5 DEF InquiryFits, Writing
  <2>7. \A c \in inquiries : c \in Removing /\ c.at = "done" => c.id # b.id
    <3>1. InTalk(a.id)
      BY <1>13 DEF StoreRemoval, Refusable, InTalk
    <3>2. ASSUME NEW c \in inquiries, c \in Removing, c.at = "done" PROVE ~InTalk(c.id)
      BY <1>1, <3>2, Kinds DEF Removing
    <3> QED BY <2>4, <3>1, <3>2
  <2>8. inquiries' \subseteq inquiries \cup {b}
    BY <2>3
  <2> QED BY <1>1, <2>6, <2>7, <2>8, InquiriesGoOn
<1>14. ASSUME NEW n \in DOMAIN hearts, ToggleHeart(n) PROVE InquiriesSound'
  <2>1. PICK b : b = [op |-> "heart", id |-> n, inst |-> hearts[n].inst, on |-> ~hearts[n].liked, at |-> "sent"]
    OBVIOUS
  <2>2. inquiries' = inquiries \cup {b}
    BY <1>14, <2>1 DEF ToggleHeart
  <2>3. hearts[n] \in HeartState /\ n \in 1..uttered /\ n \in Nat
    BY <1>1 DEF PageSound
  <2>4. b \in Hearting /\ b.op = "heart" /\ b.id = n
    BY <2>1, <2>3 DEF Hearting, HeartState
  <2>5. n \in 1..uttered'
    BY <1>1, <2>3, UnderStays
  <2>6. InquiryFits(b)' /\ b \notin Writing /\ b \notin Removing
    BY <2>4, <2>5 DEF InquiryFits, Writing, Removing
  <2> QED BY <1>4, <2>2, <2>6
<1>15. ASSUME NEW a \in inquiries, StoreHeart(a) \/ HeartFails(a) PROVE InquiriesSound'
  <2>1. a \in Hearting /\ a.id \in 1..uttered /\ a.op = "heart"
    BY <1>1, <1>15, Kinds DEF StoreHeart, HeartFails
  <2>2. PICK s \in {"done", "failed"} : inquiries' = (inquiries \ {a}) \cup {[a EXCEPT !.at = s]}
    BY <1>15 DEF StoreHeart, HeartFails, Becoming
  <2>3. PICK b : b = [a EXCEPT !.at = s]
    OBVIOUS
  <2>4. b \in Hearting /\ b.op = "heart" /\ b.id = a.id
    BY <2>1, <2>3 DEF Hearting
  <2>5. a.id \in 1..uttered'
    BY <1>1, <2>1, UnderStays
  <2>6. InquiryFits(b)' /\ b \notin Writing /\ b \notin Removing
    BY <2>4, <2>5 DEF InquiryFits, Writing, Removing
  <2> QED BY <1>4, <2>2, <2>3, <2>6
<1>16. ASSUME NEW a \in inquiries,
              \/ LoadDone(a) \/ LoadFails(a) \/ RepliesDone(a) \/ RepliesFail(a)
              \/ CommentDone(a) \/ ReplyDone(a) \/ WriteFails(a)
              \/ CommentRemoved(a) \/ ReplyRemoved(a) \/ RemovalFails(a) \/ HeartAnswered(a)
       PROVE  InquiriesSound'
  <2>1. inquiries' = inquiries \ {a}
    BY <1>16 DEF LoadDone, LoadFails, RepliesDone, RepliesFail, CommentDone, ReplyDone, WriteFails,
       CommentRemoved, ReplyRemoved, RemovalFails, HeartAnswered
  <2> QED BY <1>3, <2>1
<1>17. ASSUME (\E p \in Discussed : \E n \in {Top} \cup {c.nr : c \in talk} : OthersSay(p, n))
              \/ \E c \in talk : OthersTakeBack(c)
       PROVE  InquiriesSound'
  BY <1>3, <1>17 DEF OthersSay, OthersTakeBack
<1> QED BY <1>5, <1>6, <1>7, <1>8, <1>9, <1>10, <1>11, <1>12, <1>13, <1>14, <1>15, <1>16, <1>17 DEF ThreadNext


\* The post shown, and the flags of the page.
FlagsSound ==
    /\ address \in Discussed
    /\ shownPost \in [post : Discussed \cup {"none"}, count : Int]
    /\ strokes \in Nat
    /\ wandered \in BOOLEAN /\ lopsided \in BOOLEAN

LEMMA FlagsStep ==
    ASSUME ThreadTypes, ThreadNext
    PROVE  FlagsSound'
<1>1. /\ TalkSound /\ InquiriesSound
      /\ address \in Discussed
      /\ shownPost \in [post : Discussed \cup {"none"}, count : Int]
      /\ strokes \in Nat
      /\ wandered \in BOOLEAN /\ lopsided \in BOOLEAN
  BY DEF ThreadTypes, PageSound
<1>2. strokes' \in Nat
  <2>1. strokes' = strokes \/ strokes' = strokes + 1
    BY DEF ThreadNext, strokeBounds, Stroke, Breakdown, GoToPost, OthersSay, WriteComment, ToggleReplies,
       WriteReply, DeleteComment, ToggleHeart, OthersTakeBack, ReadPost, ReadComments, LoadDone, LoadFails,
       ReadReplies, RepliesDone, RepliesFail, StoreComment, CommentDone, ReplyDone, WriteFails, StoreRemoval,
       CommentRemoved, ReplyRemoved, RemovalFails, StoreHeart, HeartFails, HeartAnswered
  <2> QED BY <1>1, <2>1
<1>3. address' \in Discussed
  <2>1. address' = address \/ address' \in Discussed
    BY DEF ThreadNext, postPage, GoToPost, OthersSay, WriteComment, ToggleReplies,
       WriteReply, DeleteComment, ToggleHeart, OthersTakeBack, ReadPost, ReadComments, LoadDone, LoadFails,
       ReadReplies, RepliesDone, RepliesFail, StoreComment, CommentDone, ReplyDone, WriteFails, StoreRemoval,
       CommentRemoved, ReplyRemoved, RemovalFails, StoreHeart, HeartFails, HeartAnswered
  <2> QED BY <1>1, <2>1
<1>4. wandered' \in BOOLEAN
  <2>1. CASE \E p \in Discussed : GoToPost(p)
    BY <2>1 DEF GoToPost
  <2>2. CASE \E a \in inquiries : LoadDone(a)
    BY <2>2 DEF LoadDone
  <2>3. CASE wandered' = wandered
    BY <1>1, <2>3
  <2>4. (\E p \in Discussed : GoToPost(p)) \/ (\E a \in inquiries : LoadDone(a)) \/ wandered' = wandered
    BY DEF ThreadNext, threadAux, OthersSay, WriteComment, ToggleReplies,
       WriteReply, DeleteComment, ToggleHeart, OthersTakeBack, ReadPost, ReadComments, LoadFails,
       ReadReplies, RepliesDone, RepliesFail, StoreComment, CommentDone, ReplyDone, WriteFails, StoreRemoval,
       CommentRemoved, ReplyRemoved, RemovalFails, StoreHeart, HeartFails, HeartAnswered
  <2> QED BY <2>1, <2>2, <2>3, <2>4
<1>5. lopsided' \in BOOLEAN
  <2>1. CASE \E a \in inquiries : WriteFails(a)
    BY <1>1, <2>1 DEF WriteFails
  <2>2. CASE \E a \in inquiries : LoadDone(a)
    BY <2>2 DEF LoadDone
  <2>3. CASE lopsided' = lopsided
    BY <1>1, <2>3
  <2>4. (\E a \in inquiries : WriteFails(a)) \/ (\E a \in inquiries : LoadDone(a)) \/ lopsided' = lopsided
    BY DEF ThreadNext, threadAux, GoToPost, OthersSay, WriteComment, ToggleReplies,
       WriteReply, DeleteComment, ToggleHeart, OthersTakeBack, ReadPost, ReadComments, LoadFails,
       ReadReplies, RepliesDone, RepliesFail, StoreComment, CommentDone, ReplyDone, StoreRemoval,
       CommentRemoved, ReplyRemoved, RemovalFails, StoreHeart, HeartFails, HeartAnswered
  <2> QED BY <2>1, <2>2, <2>3, <2>4
<1>6. shownPost' \in [post : Discussed \cup {"none"}, count : Int]
  <2>1. ASSUME NEW a \in inquiries, LoadDone(a) PROVE shownPost' \in [post : Discussed \cup {"none"}, count : Int]
    <3>1. a \in Listing
      BY <1>1, <2>1, Kinds DEF LoadDone
    <3>2. a.post \in Discussed /\ a.count \in Int
      BY <3>1 DEF Listing
    <3> QED BY <2>1, <3>2 DEF LoadDone
  <2>2. ASSUME NEW a \in inquiries, CommentDone(a) PROVE shownPost' \in [post : Discussed \cup {"none"}, count : Int]
    BY <1>1, <2>2 DEF CommentDone
  <2>3. ASSUME NEW a \in inquiries, CommentRemoved(a) PROVE shownPost' \in [post : Discussed \cup {"none"}, count : Int]
    <3>1. PICK m \in Int : m = Max({0, shownPost.count - 1})
      <4>1. PICK x \in Int : x = shownPost.count - 1
        BY <1>1
      <4> QED BY <4>1, Greater
    <3>2. shownPost' = [shownPost EXCEPT !.count = m]
      BY <2>3, <3>1 DEF CommentRemoved
    <3> QED BY <1>1, <3>2
  <2>4. CASE shownPost' = shownPost
    BY <1>1, <2>4
  <2>5. \/ \E a \in inquiries : LoadDone(a) \/ CommentDone(a) \/ CommentRemoved(a)
        \/ shownPost' = shownPost
    BY DEF ThreadNext, postPage, GoToPost, OthersSay, WriteComment, ToggleReplies,
       WriteReply, DeleteComment, ToggleHeart, OthersTakeBack, ReadPost, ReadComments, LoadFails,
       ReadReplies, RepliesDone, RepliesFail, StoreComment, ReplyDone, WriteFails, StoreRemoval,
       ReplyRemoved, RemovalFails, StoreHeart, HeartFails, HeartAnswered
  <2> QED BY <2>1, <2>2, <2>3, <2>4, <2>5
<1> QED BY <1>2, <1>3, <1>4, <1>5, <1>6 DEF FlagsSound

\* One thread becomes another.
LEMMA ThreadBecomes ==
    ASSUME NEW ths, ThreadsFit(ths), NEW n \in DOMAIN ths,
           NEW th \in ThreadState, AllUnder(th.replies, n), NEW t, t = [ths EXCEPT ![n] = th]
    PROVE  /\ ThreadsFit(t) /\ DOMAIN t = DOMAIN ths
           /\ t[n] = th /\ \A m \in DOMAIN ths \ {n} : t[m] = ths[m]
<1>1. DOMAIN t = DOMAIN ths /\ t[n] = th /\ \A m \in DOMAIN ths \ {n} : t[m] = ths[m]
  OBVIOUS
<1>2. IsMap(t)
  BY DEF IsMap
<1>3. ASSUME NEW m \in DOMAIN t PROVE t[m] \in ThreadState /\ AllUnder(t[m].replies, m)
  BY <1>1 DEF ThreadsFit
<1> QED BY <1>1, <1>2, <1>3 DEF ThreadsFit

\* A thread is its four fields.
LEMMA ThreadFields ==
    ASSUME NEW o \in BOOLEAN, NEW list \in Seq(CommentRow), NEW l \in BOOLEAN, NEW i \in Nat,
           NEW th, th = [open |-> o, replies |-> list, loading |-> l, inst |-> i]
    PROVE  th \in ThreadState /\ th.open = o /\ th.replies = list /\ th.loading = l /\ th.inst = i
<1>1. PICK S : S = Seq(CommentRow)
  OBVIOUS
<1>2. list \in S
  BY <1>1
<1>3. th \in [open : BOOLEAN, replies : S, loading : BOOLEAN, inst : Nat]
  BY <1>2
<1> QED BY <1>1, <1>3 DEF ThreadState

LEMMA FieldsOfThread ==
    ASSUME NEW th \in ThreadState
    PROVE  /\ th.open \in BOOLEAN /\ th.replies \in Seq(CommentRow)
           /\ th.loading \in BOOLEAN /\ th.inst \in Nat
           /\ th = [open |-> th.open, replies |-> th.replies, loading |-> th.loading, inst |-> th.inst]
<1>1. PICK S : S = Seq(CommentRow)
  OBVIOUS
<1>2. th \in [open : BOOLEAN, replies : S, loading : BOOLEAN, inst : Nat]
  BY <1>1 DEF ThreadState
<1> QED BY <1>1, <1>2

\* The page is sound after its components are mounted anew.
LEMMA MountsPage ==
    ASSUME ThreadTypes, UNCHANGED talkDb, FlagsSound', NEW on \in BOOLEAN, Ready' = on,
           NEW list \in Seq(CommentRow), AllUnder(list, Top),
           NEW ths, ThreadsFit(ths), NEW heart, HeartsFit(heart),
           Mounts(on, list, ths, heart)
    PROVE  PageSound'
<1>1. TalkSound /\ PageSound /\ mounts \in Nat
  BY DEF ThreadTypes, PageSound
<1>2. TalkGoes /\ uttered' = uttered
  BY <1>1 DEF talkDb, TalkGoes, TalkSound
<1>3. /\ listed' = list /\ mounts' = mounts + 1
      /\ DOMAIN threads' = IF on THEN NrsOf(list) ELSE {}
      /\ IsMap(threads')
      /\ \A n \in DOMAIN threads' : threads'[n] \in ThreadState /\ AllUnder(threads'[n].replies, n)
      /\ IsMap(hearts') /\ DOMAIN hearts' \subseteq 1..uttered
      /\ \A n \in DOMAIN hearts' : hearts'[n] \in HeartState
  BY <1>1, MountsIs
<1>4. \A l, u : AllUnder(l, u) => AllUnder(l, u)'
  BY <1>1, <1>2, UnderStays
<1>5. AllUnder(list, Top)'
  BY <1>4
<1>6. AllUnder(listed, Top)'
  BY <1>3, <1>5
<1>7. ASSUME NEW n \in DOMAIN threads' PROVE threads'[n] \in ThreadState /\ AllUnder(threads[n].replies, n)'
  <2>1. PICK r : r = threads'[n].replies
    OBVIOUS
  <2>2. AllUnder(r, n)'
    BY <1>3, <1>4, <2>1
  <2> QED BY <1>3, <2>1, <2>2
<1>8. (DOMAIN threads = IF Ready THEN NrsOf(listed) ELSE {})'
  BY <1>3
<1> QED BY <1>1, <1>2, <1>3, <1>6, <1>7, <1>8 DEF PageSound, FlagsSound, IsMap

\* A step that mounts nothing leaves what is mounted, or one thread or heart changes.
LEMMA StaysPage ==
    ASSUME ThreadTypes, TalkGoes, FlagsSound', UNCHANGED <<listed, mounts>>, Ready' = Ready,
           DOMAIN threads' = DOMAIN threads, IsMap(threads'),
           \A n \in DOMAIN threads : threads'[n] \in ThreadState /\ threads'[n].replies = threads[n].replies,
           HeartsFit(hearts')
    PROVE  PageSound'
<1>1. TalkSound /\ PageSound
  BY DEF ThreadTypes
<1>2. /\ \A l, u : AllUnder(l, u) => AllUnder(l, u)'
      /\ \A n \in 1..uttered : n \in 1..uttered'
  BY <1>1, UnderStays
<1>3. AllUnder(listed, Top)'
  BY <1>1, <1>2 DEF PageSound
<1>4. ASSUME NEW n \in DOMAIN threads' PROVE threads'[n] \in ThreadState /\ AllUnder(threads[n].replies, n)'
  <2>1. PICK r : r = threads[n].replies
    OBVIOUS
  <2>2. AllUnder(r, n)'
    BY <1>1, <1>2, <2>1 DEF PageSound
  <2> QED BY <2>1, <2>2
<1>5. (DOMAIN threads = IF Ready THEN NrsOf(listed) ELSE {})'
  BY <1>1 DEF PageSound
<1>6. /\ DOMAIN hearts' \subseteq 1..uttered'
      /\ \A n \in DOMAIN hearts' : hearts'[n] \in HeartState
      /\ hearts' = [n \in DOMAIN hearts' |-> hearts'[n]]
  BY <1>2 DEF HeartsFit, IsMap
<1> QED BY <1>1, <1>3, <1>4, <1>5, <1>6 DEF PageSound, FlagsSound, IsMap

LEMMA TurnedIs ==
    ASSUME NEW h \in HeartState, NEW on \in BOOLEAN
    PROVE  /\ Turned(h, on) \in HeartState
           /\ Turned(h, on).liked = on /\ Turned(h, on).busy = h.busy /\ Turned(h, on).inst = h.inst
           /\ on => Turned(h, on).count = h.count + 1
           /\ ~on /\ h.count > 0 => Turned(h, on).count = h.count - 1
<1>1. PICK x \in Int : x = IF on THEN h.count + 1 ELSE h.count - 1
  BY DEF HeartState
<1>2. PICK m \in Nat : m = Max({0, x}) /\ (x >= 0 => m = x)
  BY <1>1, Greater
<1>3. Turned(h, on) = [h EXCEPT !.liked = on, !.count = m]
  <2>1. CASE on
    BY <1>1, <1>2, <2>1 DEF Turned
  <2>2. CASE ~on
    BY <1>1, <1>2, <2>2 DEF Turned
  <2> QED BY <2>1, <2>2
<1>4. PICK t : t = [h EXCEPT !.liked = on, !.count = m]
  OBVIOUS
<1>5. t \in HeartState /\ t.liked = on /\ t.busy = h.busy /\ t.inst = h.inst /\ t.count = m
  BY <1>2, <1>4 DEF HeartState
<1>6. h.count \in Nat
  BY DEF HeartState
<1>7. (on => m = h.count + 1) /\ (~on /\ h.count > 0 => m = h.count - 1)
  BY <1>1, <1>2, <1>6
<1> QED BY <1>3, <1>4, <1>5, <1>7

LEMMA BusyIs ==
    ASSUME NEW h \in HeartState, NEW b \in BOOLEAN, NEW k, k = [h EXCEPT !.busy = b]
    PROVE  k \in HeartState /\ k.liked = h.liked /\ k.busy = b /\ k.inst = h.inst /\ k.count = h.count
BY DEF HeartState

LEMMA ToggleHeartIs ==
    ASSUME ThreadTypes, NEW n \in DOMAIN hearts, ToggleHeart(n)
    PROVE  \E h \in HeartState :
               /\ hearts' = [hearts EXCEPT ![n] = h]
               /\ h.liked = ~hearts[n].liked /\ h.busy = TRUE /\ h.inst = hearts[n].inst
               /\ h.liked => h.count = hearts[n].count + 1
               /\ ~h.liked /\ hearts[n].count > 0 => h.count = hearts[n].count - 1
<1>1. PICK old \in HeartState : old = hearts[n]
  BY DEF ThreadTypes, PageSound
<1>2. PICK on \in BOOLEAN : on = ~old.liked
  OBVIOUS
<1>3. PICK t : t = Turned(old, on)
  OBVIOUS
<1>4. /\ t \in HeartState /\ t.liked = on /\ t.inst = old.inst
      /\ on => t.count = old.count + 1
      /\ ~on /\ old.count > 0 => t.count = old.count - 1
  BY <1>3, TurnedIs
<1>5. PICK b \in BOOLEAN : b = TRUE
  OBVIOUS
<1>6. PICK h : h = [t EXCEPT !.busy = b]
  OBVIOUS
<1>7. h \in HeartState /\ h.liked = on /\ h.busy = b /\ h.inst = old.inst /\ h.count = t.count
  BY <1>4, <1>6, BusyIs
<1>8. hearts' = [hearts EXCEPT ![n] = h]
  BY <1>1, <1>2, <1>3, <1>5, <1>6 DEF ToggleHeart
<1> QED BY <1>1, <1>2, <1>4, <1>5, <1>7, <1>8

LEMMA HeartAnsweredIs ==
    ASSUME ThreadTypes, NEW a \in inquiries, HeartAnswered(a),
           a.id \in DOMAIN hearts, hearts[a.id].inst = a.inst
    PROVE  \E h \in HeartState :
               /\ hearts' = [hearts EXCEPT ![a.id] = h] /\ h.busy = FALSE
               /\ a.at = "done" => h.liked = hearts[a.id].liked /\ h.count = hearts[a.id].count
               /\ a.at # "done" /\ a.on => ~h.liked
               /\ a.at # "done" /\ ~a.on => h.liked /\ h.count = hearts[a.id].count + 1
               /\ a.at # "done" /\ a.on /\ hearts[a.id].count > 0 => h.count = hearts[a.id].count - 1
<1>1. PICK old \in HeartState : old = hearts[a.id]
  BY DEF ThreadTypes, PageSound
<1>2. a.on \in BOOLEAN
  BY Kinds DEF HeartAnswered, ThreadTypes, Hearting
<1>3. PICK on \in BOOLEAN : on = ~a.on
  OBVIOUS
<1>4. PICK t : t = IF a.at = "done" THEN old ELSE Turned(old, on)
  OBVIOUS
<1>5. /\ t \in HeartState
      /\ a.at = "done" => t.liked = old.liked /\ t.count = old.count
      /\ a.at # "done" => t.liked = on
      /\ a.at # "done" /\ on => t.count = old.count + 1
      /\ a.at # "done" /\ ~on /\ old.count > 0 => t.count = old.count - 1
  <2>1. CASE a.at = "done"
    BY <1>4, <2>1
  <2>2. CASE a.at # "done"
    <3>1. t = Turned(old, on)
      BY <1>4, <2>2
    <3> QED BY <2>2, <3>1, TurnedIs
  <2> QED BY <2>1, <2>2
<1>6. PICK b \in BOOLEAN : b = FALSE
  OBVIOUS
<1>7. PICK h : h = [t EXCEPT !.busy = b]
  OBVIOUS
<1>8. h \in HeartState /\ h.liked = t.liked /\ h.busy = b /\ h.count = t.count
  BY <1>5, <1>7, BusyIs
<1>9. hearts' = [hearts EXCEPT ![a.id] = h]
  BY <1>1, <1>3, <1>4, <1>6, <1>7 DEF HeartAnswered
<1> QED BY <1>1, <1>2, <1>3, <1>5, <1>6, <1>8, <1>9

\* What the components are given by a step.
Mounted(on, list, ths) ==
    /\ list \in Seq(CommentRow) /\ AllUnder(list, Top) /\ ThreadsFit(ths)
    /\ Mounts(on, list, ths, hearts)

\* The threads, where the one of n became th.
OnlyThread(ths, n, th) ==
    /\ DOMAIN ths = DOMAIN threads /\ n \in DOMAIN threads /\ ths[n] = th
    /\ \A m \in DOMAIN threads \ {n} : ths[m] = threads[m]

LEMMA ToggleIs ==
    ASSUME ThreadTypes, NEW c \in ToSet(listed), c.nr \in DOMAIN threads, ToggleReplies(c)
    PROVE  \E ths, th :
               /\ Mounted(TRUE, listed, ths) /\ OnlyThread(ths, c.nr, th)
               /\ th \in ThreadState
               /\ th.replies = threads[c.nr].replies /\ th.inst = threads[c.nr].inst
               /\ th.open = ~threads[c.nr].open
               /\ IF threads[c.nr].open THEN th.loading = threads[c.nr].loading
                  ELSE th.loading = (threads[c.nr].loading \/ threads[c.nr].replies = <<>>)
<1>1. /\ PageSound /\ ThreadsFit(threads) /\ listed \in Seq(CommentRow) /\ AllUnder(listed, Top)
  BY PageFits DEF ThreadTypes
<1>2. PICK old \in ThreadState : old = threads[c.nr] /\ AllUnder(old.replies, c.nr)
  BY <1>1 DEF ThreadsFit
<1>3. /\ old.open \in BOOLEAN /\ old.replies \in Seq(CommentRow) /\ old.loading \in BOOLEAN /\ old.inst \in Nat
      /\ old = [open |-> old.open, replies |-> old.replies, loading |-> old.loading, inst |-> old.inst]
  BY <1>2, FieldsOfThread
<1>4. PICK th : th = IF old.open THEN [old EXCEPT !.open = FALSE]
                     ELSE [old EXCEPT !.open = TRUE, !.loading = @ \/ old.replies = <<>>]
  OBVIOUS
<1>5. PICK l \in BOOLEAN : l = IF old.open THEN old.loading ELSE old.loading \/ old.replies = <<>>
  BY <1>3
<1>6. PICK o \in BOOLEAN : o = ~old.open
  OBVIOUS
<1>7. th = [open |-> o, replies |-> old.replies, loading |-> l, inst |-> old.inst]
  <2>1. CASE old.open
    <3>1. o = FALSE /\ l = old.loading
      BY <1>5, <1>6, <2>1
    <3> QED BY <1>3, <1>4, <2>1, <3>1
  <2>2. CASE ~old.open
    <3>1. o = TRUE /\ l = (old.loading \/ old.replies = <<>>)
      BY <1>5, <1>6, <2>2
    <3> QED BY <1>3, <1>4, <2>2, <3>1
  <2> QED BY <2>1, <2>2
<1>8. th \in ThreadState /\ th.open = o /\ th.replies = old.replies /\ th.loading = l /\ th.inst = old.inst
  BY <1>3, <1>7, ThreadFields
<1>9. PICK ths : ths = [threads EXCEPT ![c.nr] = th]
  OBVIOUS
<1>10. ThreadsFit(ths) /\ OnlyThread(ths, c.nr, th)
  BY <1>1, <1>2, <1>8, <1>9, ThreadBecomes DEF OnlyThread
<1>11. Mounts(TRUE, listed, ths, hearts)
  BY <1>2, <1>4, <1>9 DEF ToggleReplies
<1> QED BY <1>1, <1>2, <1>5, <1>6, <1>8, <1>10, <1>11 DEF Mounted

LEMMA RepliesDoneIs ==
    ASSUME ThreadTypes, NEW a \in inquiries, RepliesDone(a), Live(a)
    PROVE  \E ths, th :
               /\ Mounted(Ready, listed, ths) /\ OnlyThread(ths, a.id, th)
               /\ th \in ThreadState
               /\ th.replies = a.list /\ th.inst = threads[a.id].inst
               /\ th.open = threads[a.id].open /\ th.loading = FALSE
<1>1. /\ PageSound /\ ThreadsFit(threads) /\ listed \in Seq(CommentRow) /\ AllUnder(listed, Top)
      /\ InquiriesSound
  BY PageFits DEF ThreadTypes
<1>2. PICK old \in ThreadState : old = threads[a.id] /\ a.id \in DOMAIN threads
  BY <1>1 DEF ThreadsFit, Live
<1>3. /\ old.open \in BOOLEAN /\ old.replies \in Seq(CommentRow) /\ old.loading \in BOOLEAN /\ old.inst \in Nat
      /\ old = [open |-> old.open, replies |-> old.replies, loading |-> old.loading, inst |-> old.inst]
  BY <1>2, FieldsOfThread
<1>4. PICK list : list = a.list
  OBVIOUS
<1>5. list \in Seq(CommentRow) /\ AllUnder(list, a.id)
  BY <1>1, <1>4, Kinds DEF RepliesDone, Reading
<1>6. PICK l \in BOOLEAN : l = FALSE
  OBVIOUS
<1>7. PICK th : th = [open |-> old.open, replies |-> list, loading |-> l, inst |-> old.inst]
  OBVIOUS
<1>8. th \in ThreadState /\ th.open = old.open /\ th.replies = list /\ th.loading = l /\ th.inst = old.inst
  BY <1>3, <1>5, <1>7, ThreadFields
<1>9. PICK ths : ths = [threads EXCEPT ![a.id] = th]
  OBVIOUS
<1>10. ThreadsFit(ths) /\ OnlyThread(ths, a.id, th)
  BY <1>1, <1>2, <1>5, <1>8, <1>9, ThreadBecomes DEF OnlyThread
<1>11. ths = [threads EXCEPT ![a.id].replies = list, ![a.id].loading = FALSE]
  <2>1. th = [[old EXCEPT !.replies = list] EXCEPT !.loading = l]
    <3>1. PICK mid : mid = [old EXCEPT !.replies = list]
      OBVIOUS
    <3>2. mid = [open |-> old.open, replies |-> list, loading |-> old.loading, inst |-> old.inst]
      BY <1>3, <3>1
    <3>3. [mid EXCEPT !.loading = l] = [open |-> old.open, replies |-> list, loading |-> l, inst |-> old.inst]
      BY <3>2
    <3> QED BY <1>7, <3>1, <3>3
  <2> QED BY <1>2, <1>9, <1>6, <2>1
<1>12. Mounts(Ready, listed, ths, hearts)
  BY <1>4, <1>11 DEF RepliesDone
<1> QED BY <1>1, <1>2, <1>4, <1>8, <1>10, <1>12, <1>6 DEF Mounted

LEMMA CommentDoneIs ==
    ASSUME ThreadTypes, NEW a \in inquiries, CommentDone(a)
    PROVE  \E list, c :
               /\ Mounted(Ready, list, threads)
               /\ c \in CommentRow /\ c.nr = a.made /\ c.post = a.post /\ c.replies = 0
               /\ list = <<c>> \o listed
<1>1. /\ PageSound /\ ThreadsFit(threads) /\ listed \in Seq(CommentRow) /\ AllUnder(listed, Top)
      /\ InquiriesSound
  BY PageFits DEF ThreadTypes
<1>2. a \in Writing /\ a.id = Top /\ Under(a.made, Top)
  BY <1>1, Kinds DEF CommentDone
<1>3. PICK c : c = Made(a)
  OBVIOUS
<1>4. c \in CommentRow /\ c.nr = a.made /\ c.post = a.post /\ c.replies = 0 /\ c.under = Top
  BY <1>2, <1>3 DEF Made, Writing, CommentRow
<1>5. PICK list : list = <<c>> \o listed
  OBVIOUS
<1>6. /\ list \in Seq(CommentRow)
      /\ \A k \in 1..Len(list) : list[k] = c \/ \E j \in 1..Len(listed) : list[k] = listed[j]
  BY <1>1, <1>4, <1>5, RowInFront
<1>7. AllUnder(list, Top)
  BY <1>1, <1>2, <1>4, <1>6 DEF AllUnder
<1>8. Mounts(Ready, list, threads, hearts)
  BY <1>3, <1>5 DEF CommentDone
<1> QED BY <1>1, <1>4, <1>5, <1>6, <1>7, <1>8 DEF Mounted

LEMMA CountedShown ==
    ASSUME NEW s \in Seq(CommentRow), AllUnder(s, Top), NEW n, NEW d \in Int, NEW r, r = Counted(s, n, d)
    PROVE  r \in Seq(CommentRow) /\ AllUnder(r, Top)
<1>1. r \in Seq(CommentRow) /\ Len(r) = Len(s)
  BY RowsCounted
<1>2. ASSUME NEW k \in 1..Len(s) PROVE r[k].nr = s[k].nr /\ r[k].under = s[k].under
  BY RowCounted
<1> QED BY <1>1, <1>2 DEF AllUnder

LEMMA ReplyDoneIs ==
    ASSUME ThreadTypes, NEW a \in inquiries, ReplyDone(a)
    PROVE  \E list, ths :
               /\ Mounted(Ready, list, ths) /\ list = Counted(listed, a.id, 1)
               /\ IF Live(a)
                  THEN \E th, c :
                           /\ OnlyThread(ths, a.id, th) /\ th \in ThreadState
                           /\ c \in CommentRow /\ c.nr = a.made
                           /\ th.replies = Append(threads[a.id].replies, c)
                           /\ th.inst = threads[a.id].inst
                           /\ th.open = TRUE /\ th.loading = threads[a.id].loading
                  ELSE ths = threads
<1>1. /\ PageSound /\ ThreadsFit(threads) /\ listed \in Seq(CommentRow) /\ AllUnder(listed, Top)
      /\ InquiriesSound
  BY PageFits DEF ThreadTypes
<1>2. PICK list : list = Counted(listed, a.id, 1)
  OBVIOUS
<1>3. list \in Seq(CommentRow) /\ AllUnder(list, Top)
  BY <1>1, <1>2, CountedShown
<1>4. CASE ~Live(a)
  <2>1. Mounts(Ready, list, threads, hearts)
    BY <1>2, <1>4 DEF ReplyDone
  <2> QED BY <1>1, <1>2, <1>3, <1>4, <2>1 DEF Mounted
<1>5. CASE Live(a)
  <2>1. a \in Writing /\ Under(a.made, a.id)
    BY <1>1, Kinds DEF ReplyDone
  <2>2. PICK c : c = Made(a)
    OBVIOUS
  <2>3. c \in CommentRow /\ c.nr = a.made /\ c.under = a.id
    BY <2>1, <2>2 DEF Made, Writing, CommentRow
  <2>4. PICK old \in ThreadState : old = threads[a.id] /\ AllUnder(old.replies, a.id) /\ a.id \in DOMAIN threads
    BY <1>1, <1>5 DEF ThreadsFit, Live
  <2>5. /\ old.open \in BOOLEAN /\ old.replies \in Seq(CommentRow) /\ old.loading \in BOOLEAN /\ old.inst \in Nat
        /\ old = [open |-> old.open, replies |-> old.replies, loading |-> old.loading, inst |-> old.inst]
    BY <2>4, FieldsOfThread
  <2>6. PICK r : r = Append(old.replies, c)
    OBVIOUS
  <2>7. /\ r \in Seq(CommentRow)
        /\ \A k \in 1..Len(r) : r[k] = c \/ \E j \in 1..Len(old.replies) : r[k] = old.replies[j]
    BY <2>3, <2>5, <2>6, RowBehind
  <2>8. AllUnder(r, a.id)
    BY <2>1, <2>3, <2>4, <2>7 DEF AllUnder
  <2>9. PICK o \in BOOLEAN : o = TRUE
    OBVIOUS
  <2>10. PICK th : th = [open |-> o, replies |-> r, loading |-> old.loading, inst |-> old.inst]
    OBVIOUS
  <2>11. /\ th \in ThreadState /\ th.open = o /\ th.replies = r /\ th.loading = old.loading
         /\ th.inst = old.inst
    BY <2>5, <2>7, <2>10, ThreadFields
  <2>12. PICK ths : ths = [threads EXCEPT ![a.id] = th]
    OBVIOUS
  <2>13. ThreadsFit(ths) /\ OnlyThread(ths, a.id, th)
    BY <1>1, <2>4, <2>8, <2>11, <2>12, ThreadBecomes DEF OnlyThread
  <2>14. ths = [threads EXCEPT ![a.id].replies = Append(@, c), ![a.id].open = TRUE]
    <3>1. th = [[old EXCEPT !.replies = r] EXCEPT !.open = o]
      <4>1. PICK mid : mid = [old EXCEPT !.replies = r]
        OBVIOUS
      <4>2. mid = [open |-> old.open, replies |-> r, loading |-> old.loading, inst |-> old.inst]
        BY <2>5, <4>1
      <4>3. [mid EXCEPT !.open = o] = [open |-> o, replies |-> r, loading |-> old.loading, inst |-> old.inst]
        BY <4>2
      <4> QED BY <2>10, <4>1, <4>3
    <3> QED BY <2>4, <2>6, <2>12, <2>9, <3>1
  <2>15. Mounts(Ready, list, ths, hearts)
    BY <1>2, <1>5, <2>2, <2>14 DEF ReplyDone
  <2> QED BY <1>2, <1>3, <1>5, <2>3, <2>4, <2>6, <2>11, <2>13, <2>15, <2>9 DEF Mounted
<1> QED BY <1>4, <1>5

LEMMA ShownFewer ==
    ASSUME NEW s \in Seq(CommentRow), NEW u, AllUnder(s, u), NEW r \in Seq(CommentRow), ToSet(r) \subseteq ToSet(s)
    PROVE  AllUnder(r, u)
<1>1. ASSUME NEW k \in 1..Len(r) PROVE \E j \in 1..Len(s) : r[k] = s[j]
  <2>1. r[k] \in ToSet(s)
    BY RowsIn
  <2> QED BY <2>1, RowsIn
<1> QED BY <1>1 DEF AllUnder

LEMMA CommentRemovedIs ==
    ASSUME ThreadTypes, NEW a \in inquiries, CommentRemoved(a)
    PROVE  \E list :
               /\ Mounted(Ready, list, threads)
               /\ list = Filtered(listed, {k \in DOMAIN listed : listed[k].nr # a.id})
<1>1. /\ PageSound /\ ThreadsFit(threads) /\ listed \in Seq(CommentRow) /\ AllUnder(listed, Top)
  BY PageFits DEF ThreadTypes
<1>2. PICK P : P = {k \in DOMAIN listed : listed[k].nr # a.id}
  OBVIOUS
<1>3. PICK list : list = Filtered(listed, P)
  OBVIOUS
<1>4. /\ list \in Seq(CommentRow)
      /\ ToSet(list) \subseteq ToSet(listed)
  <2>1. P \in SUBSET (1..Len(listed)) /\ \A k \in 1..Len(listed) : k \in P <=> listed[k].nr # a.id
    BY <1>1, <1>2, RowsIn
  <2>2. PICK rest : rest = NrsOf(listed) \ {a.id}
    OBVIOUS
  <2> QED BY <1>1, <1>3, <2>1, <2>2, RowDropped
<1>5. AllUnder(list, Top)
  BY <1>1, <1>4, ShownFewer
<1>6. Mounts(Ready, list, threads, hearts)
  BY <1>2, <1>3 DEF CommentRemoved
<1> QED BY <1>1, <1>2, <1>3, <1>4, <1>5, <1>6 DEF Mounted

LEMMA ReplyRemovedIs ==
    ASSUME ThreadTypes, NEW a \in inquiries, ReplyRemoved(a)
    PROVE  \E list, ths :
               /\ Mounted(Ready, list, ths) /\ list = Counted(listed, a.under, -1)
               /\ IF a.under \in DOMAIN threads /\ threads[a.under].inst = a.of
                  THEN \E th, P :
                           /\ OnlyThread(ths, a.under, th) /\ th \in ThreadState
                           /\ P = {k \in DOMAIN threads[a.under].replies : threads[a.under].replies[k].nr # a.id}
                           /\ th.replies = Filtered(threads[a.under].replies, P)
                           /\ th.inst = threads[a.under].inst
                           /\ th.open = threads[a.under].open /\ th.loading = threads[a.under].loading
                  ELSE ths = threads
<1>1. /\ PageSound /\ ThreadsFit(threads) /\ listed \in Seq(CommentRow) /\ AllUnder(listed, Top)
  BY PageFits DEF ThreadTypes
<1>2. PICK list : list = Counted(listed, a.under, -1)
  OBVIOUS
<1>3. list \in Seq(CommentRow) /\ AllUnder(list, Top)
  <2>1. PICK d \in Int : d = -1
    OBVIOUS
  <2> QED BY <1>1, <1>2, <2>1, CountedShown
<1>4. CASE ~(a.under \in DOMAIN threads /\ threads[a.under].inst = a.of)
  <2>1. Mounts(Ready, list, threads, hearts)
    BY <1>2, <1>4 DEF ReplyRemoved
  <2> QED BY <1>1, <1>2, <1>3, <1>4, <2>1 DEF Mounted
<1>5. CASE a.under \in DOMAIN threads /\ threads[a.under].inst = a.of
  <2>1. PICK old \in ThreadState : old = threads[a.under] /\ AllUnder(old.replies, a.under)
    BY <1>1, <1>5 DEF ThreadsFit
  <2>2. /\ old.open \in BOOLEAN /\ old.replies \in Seq(CommentRow) /\ old.loading \in BOOLEAN /\ old.inst \in Nat
        /\ old = [open |-> old.open, replies |-> old.replies, loading |-> old.loading, inst |-> old.inst]
    BY <2>1, FieldsOfThread
  <2>3. PICK P : P = {k \in DOMAIN old.replies : old.replies[k].nr # a.id}
    OBVIOUS
  <2>4. PICK r : r = Filtered(old.replies, P)
    OBVIOUS
  <2>5. /\ r \in Seq(CommentRow)
        /\ ToSet(r) \subseteq ToSet(old.replies)
    <3>1. P \in SUBSET (1..Len(old.replies)) /\ \A k \in 1..Len(old.replies) : k \in P <=> old.replies[k].nr # a.id
      BY <2>2, <2>3, RowsIn
    <3>2. PICK rest : rest = NrsOf(old.replies) \ {a.id}
      OBVIOUS
    <3> QED BY <2>2, <2>4, <3>1, <3>2, RowDropped
  <2>6. AllUnder(r, a.under)
    BY <2>1, <2>2, <2>5, ShownFewer
  <2>7. PICK th : th = [open |-> old.open, replies |-> r, loading |-> old.loading, inst |-> old.inst]
    OBVIOUS
  <2>8. /\ th \in ThreadState /\ th.open = old.open /\ th.replies = r /\ th.loading = old.loading
        /\ th.inst = old.inst
    BY <2>2, <2>5, <2>7, ThreadFields
  <2>9. PICK ths : ths = [threads EXCEPT ![a.under] = th]
    OBVIOUS
  <2>10. ThreadsFit(ths) /\ OnlyThread(ths, a.under, th)
    BY <1>1, <1>5, <2>1, <2>6, <2>8, <2>9, ThreadBecomes DEF OnlyThread
  <2>11. ths = [threads EXCEPT ![a.under].replies = Filtered(@, P)]
    <3>1. th = [old EXCEPT !.replies = r]
      BY <2>2, <2>7
    <3> QED BY <2>1, <2>4, <2>9, <3>1
  <2>12. Mounts(Ready, list, ths, hearts)
    BY <1>2, <1>5, <2>1, <2>3, <2>11 DEF ReplyRemoved
  <2> QED BY <1>2, <1>3, <1>5, <2>1, <2>3, <2>4, <2>8, <2>10, <2>12 DEF Mounted
<1> QED BY <1>4, <1>5

LEMMA PageStep ==
    ASSUME ThreadTypes, ThreadNext
    PROVE  PageSound'
<1>1. /\ TalkSound /\ InquiriesSound /\ PageSound /\ TalkGoes /\ FlagsSound'
      /\ ThreadsFit(threads) /\ HeartsFit(hearts)
      /\ listed \in Seq(CommentRow) /\ AllUnder(listed, Top)
      /\ ThreadsFit(<<>>) /\ HeartsFit(<<>>)
  <2>1. ThreadsFit(<<>>) /\ HeartsFit(<<>>)
    BY EmptyMap DEF ThreadsFit, HeartsFit
  <2> QED BY <2>1, TalkStep, FlagsStep, PageFits DEF ThreadTypes
<1>2. CASE UNCHANGED <<phase, listed, mounted>>
  BY <1>1, <1>2, StaysPage DEF mounted, Ready, ThreadsFit
<1>3. ASSUME UNCHANGED talkDb, NEW on \in BOOLEAN, Ready' = on, NEW list, NEW ths, Mounted(on, list, ths)
      PROVE  PageSound'
  BY <1>1, <1>3, MountsPage DEF Mounted
<1>4. ASSUME UNCHANGED <<talkDb, phase>>, NEW list, NEW ths, Mounted(Ready, list, ths)
      PROVE  PageSound'
  <2>1. PICK on \in BOOLEAN : on = Ready
    BY DEF Ready
  <2>2. Mounted(on, list, ths) /\ Ready' = on
    BY <1>4, <2>1 DEF Ready
  <2> QED BY <1>3, <1>4, <2>2
<1>5. ASSUME UNCHANGED <<talkDb>>, phase' # "ready", Mounts(FALSE, listed, <<>>, <<>>)
      PROVE  PageSound'
  <2>1. PICK on \in BOOLEAN : on = FALSE
    OBVIOUS
  <2>2. Ready' = on /\ Mounts(on, listed, <<>>, <<>>)
    BY <1>5, <2>1 DEF Ready
  <2> HIDE <2>1
  <2> QED BY <1>1, <1>5, <2>2, MountsPage
<1>6. ASSUME NEW p \in Discussed, GoToPost(p) PROVE PageSound'
  BY <1>5, <1>6 DEF GoToPost
<1>7. ASSUME NEW a \in inquiries, LoadFails(a) PROVE PageSound'
  BY <1>5, <1>7 DEF LoadFails
<1>8. ASSUME NEW a \in inquiries, LoadDone(a) PROVE PageSound'
  <2>1. PICK list \in Seq(CommentRow) : list = a.list /\ AllUnder(list, Top)
    BY <1>1, <1>8, Kinds DEF LoadDone, Listing
  <2>2. PICK on \in BOOLEAN : on = TRUE
    OBVIOUS
  <2>3. UNCHANGED talkDb /\ Ready' = on /\ Mounted(on, list, threads)
    BY <1>1, <1>8, <2>1, <2>2 DEF LoadDone, Ready, Mounted
  <2> QED BY <1>3, <2>3
<1>9. ASSUME NEW c \in ToSet(listed), c.nr \in DOMAIN threads, ToggleReplies(c) PROVE PageSound'
  <2>1. PICK ths : Mounted(TRUE, listed, ths)
    BY <1>9, ToggleIs
  <2>2. UNCHANGED <<talkDb, phase>> /\ Ready
    BY <1>9 DEF ToggleReplies
  <2>3. PICK on \in BOOLEAN : on = TRUE
    OBVIOUS
  <2>4. UNCHANGED talkDb /\ Ready' = on /\ Mounted(on, listed, ths)
    BY <2>1, <2>2, <2>3 DEF Ready
  <2> QED BY <1>3, <2>4
<1>10. ASSUME NEW a \in inquiries, RepliesDone(a) PROVE PageSound'
  <2>1. CASE Live(a)
    <3>1. PICK ths : Mounted(Ready, listed, ths)
      BY <1>10, <2>1, RepliesDoneIs
    <3> QED BY <1>4, <1>10, <3>1 DEF RepliesDone
  <2>2. CASE ~Live(a)
    BY <1>2, <1>10, <2>2 DEF RepliesDone
  <2> QED BY <2>1, <2>2
<1>11. ASSUME NEW a \in inquiries, CommentDone(a) \/ CommentRemoved(a) \/ ReplyDone(a) \/ ReplyRemoved(a)
       PROVE  PageSound'
  <2>1. \E list, ths : Mounted(Ready, list, ths)
    BY <1>11, CommentDoneIs, CommentRemovedIs, ReplyDoneIs, ReplyRemovedIs
  <2>2. UNCHANGED <<talkDb, phase>>
    BY <1>11 DEF CommentDone, CommentRemoved, ReplyDone, ReplyRemoved
  <2> QED BY <1>4, <2>1, <2>2
<1>12. ASSUME NEW a \in inquiries, RepliesFail(a) PROVE PageSound'
  <2>1. CASE ~Live(a)
    BY <1>2, <1>12, <2>1 DEF RepliesFail, mounted, postPage
  <2>2. CASE Live(a)
    <3>1. PICK old \in ThreadState : old = threads[a.id] /\ AllUnder(old.replies, a.id) /\ a.id \in DOMAIN threads
      BY <1>1, <2>2 DEF ThreadsFit, Live
    <3>2. /\ old.open \in BOOLEAN /\ old.replies \in Seq(CommentRow) /\ old.loading \in BOOLEAN /\ old.inst \in Nat
          /\ old = [open |-> old.open, replies |-> old.replies, loading |-> old.loading, inst |-> old.inst]
      BY <3>1, FieldsOfThread
    <3>3. PICK l \in BOOLEAN : l = FALSE
      OBVIOUS
    <3>4. PICK th : th = [open |-> old.open, replies |-> old.replies, loading |-> l, inst |-> old.inst]
      OBVIOUS
    <3>5. th \in ThreadState /\ th.replies = old.replies
      BY <3>2, <3>4, ThreadFields
    <3>6. threads' = [threads EXCEPT ![a.id] = th]
      <4>1. th = [old EXCEPT !.loading = l]
        BY <3>2, <3>4
      <4>2. threads' = [threads EXCEPT ![a.id].loading = l]
        BY <1>12, <2>2, <3>3 DEF RepliesFail
      <4> QED BY <3>1, <4>1, <4>2
    <3>7. ThreadsFit(threads') /\ DOMAIN threads' = DOMAIN threads
      BY <1>1, <3>1, <3>5, <3>6, ThreadBecomes
    <3>8. \A n \in DOMAIN threads : threads'[n].replies = threads[n].replies
      BY <3>1, <3>5, <3>6
    <3>9. UNCHANGED <<phase, listed, mounts, hearts>>
      BY <1>12 DEF RepliesFail, postPage
    <3> QED BY <1>1, <3>7, <3>8, <3>9, StaysPage DEF ThreadsFit, Ready
  <2> QED BY <2>1, <2>2
<1>13. ASSUME NEW n \in DOMAIN hearts, NEW h \in HeartState, hearts' = [hearts EXCEPT ![n] = h],
              UNCHANGED <<phase, listed, mounts, threads>>
       PROVE  PageSound'
  <2>1. HeartsFit(hearts')
    BY <1>1, <1>13 DEF HeartsFit, IsMap
  <2> QED BY <1>1, <1>13, <2>1, StaysPage DEF Ready, ThreadsFit
<1>14. ASSUME NEW n \in DOMAIN hearts, ToggleHeart(n) PROVE PageSound'
  <2>1. \E h \in HeartState : hearts' = [hearts EXCEPT ![n] = h]
    BY <1>14, ToggleHeartIs
  <2>2. UNCHANGED <<phase, listed, mounts, threads>>
    BY <1>14 DEF ToggleHeart, postPage
  <2> QED BY <1>13, <2>1, <2>2
<1>15. ASSUME NEW a \in inquiries, HeartAnswered(a) PROVE PageSound'
  <2>1. CASE ~(a.id \in DOMAIN hearts /\ hearts[a.id].inst = a.inst)
    BY <1>2, <1>15, <2>1 DEF HeartAnswered, mounted, postPage
  <2>2. CASE a.id \in DOMAIN hearts /\ hearts[a.id].inst = a.inst
    <3>1. \E h \in HeartState : hearts' = [hearts EXCEPT ![a.id] = h]
      BY <1>15, <2>2, HeartAnsweredIs
    <3>2. UNCHANGED <<phase, listed, mounts, threads>>
      BY <1>15 DEF HeartAnswered, postPage
    <3> QED BY <1>13, <2>2, <3>1, <3>2
  <2> QED BY <2>1, <2>2
<1>16. CASE \/ \E p \in Discussed : \E n \in {Top} \cup {c.nr : c \in talk} : OthersSay(p, n)
            \/ WriteComment
            \/ \E c \in ToSet(listed) : WriteReply(c)
            \/ \E c \in Items(listed, threads) : DeleteComment(c)
            \/ \E c \in talk : OthersTakeBack(c)
            \/ \E a \in inquiries : \/ ReadPost(a) \/ ReadComments(a) \/ ReadReplies(a)
                                    \/ StoreComment(a) \/ WriteFails(a) \/ StoreRemoval(a)
                                    \/ RemovalFails(a) \/ StoreHeart(a) \/ HeartFails(a)
  <2>1. UNCHANGED <<phase, listed, mounted>>
    BY <1>16 DEF OthersSay, WriteComment, WriteReply, DeleteComment, OthersTakeBack, ReadPost, ReadComments,
       ReadReplies, StoreComment, WriteFails, StoreRemoval, RemovalFails, StoreHeart, HeartFails, postPage
  <2> QED BY <1>2, <2>1
<1> QED BY <1>6, <1>7, <1>8, <1>9, <1>10, <1>11, <1>12, <1>14, <1>15, <1>16 DEF ThreadNext

LEMMA TypesStep ==
    ASSUME ThreadTypes, ThreadNext
    PROVE  ThreadTypes'
BY TalkStep, InquiriesStep, PageStep DEF ThreadTypes

-----------------------------------------------------------------------------
(* How requests get further *)

LEMMA LoadGoesOn ==
    ASSUME ThreadTypes, NEW a \in inquiries, ReadPost(a) \/ ReadComments(a)
    PROVE  a.op = "load" /\ \E b :
               /\ inquiries' = (inquiries \ {a}) \cup {b}
               /\ b.op = "load" /\ b.post = a.post
               /\ \/ b.list = a.list /\ b.at = a.at \ {"post"}
                  \/ b.list = CommentsOf(a.post) /\ b.at = a.at \ {"list"}
<1>1. a \in Listing /\ a.op = "load"
  BY Kinds DEF ThreadTypes, ReadPost, ReadComments
<1>2. PICK S : S = Seq(CommentRow)
  OBVIOUS
<1>3. a \in [op : {"load"}, id : Nat, post : Discussed, count : Int, list : S,
             at : SUBSET {"post", "list"}]
  BY <1>1, <1>2 DEF Listing
<1>4. CASE ReadPost(a)
  <2>1. PICK n : n = Cardinality(Roots(a.post))
    OBVIOUS
  <2>2. PICK b : b = [a EXCEPT !.count = n, !.at = @ \ {"post"}]
    OBVIOUS
  <2>3. inquiries' = (inquiries \ {a}) \cup {b}
    BY <1>4, <2>1, <2>2 DEF ReadPost, Becoming
  <2>4. b.op = "load" /\ b.post = a.post /\ b.list = a.list /\ b.at = a.at \ {"post"}
    BY <1>3, <2>2
  <2> QED BY <1>1, <2>3, <2>4
<1>5. CASE ReadComments(a)
  <2>1. PICK list : list = CommentsOf(a.post)
    OBVIOUS
  <2>2. PICK b : b = [a EXCEPT !.list = list, !.at = @ \ {"list"}]
    OBVIOUS
  <2>3. inquiries' = (inquiries \ {a}) \cup {b}
    BY <1>5, <2>1, <2>2 DEF ReadComments, Becoming
  <2>4. b.op = "load" /\ b.post = a.post /\ b.list = list /\ b.at = a.at \ {"list"}
    BY <1>3, <2>2
  <2> QED BY <1>1, <2>1, <2>3, <2>4
<1> QED BY <1>4, <1>5

LEMMA ReadingGoesOn ==
    ASSUME ThreadTypes, NEW a \in inquiries, ReadReplies(a)
    PROVE  a.op = "replies" /\ \E b :
               /\ inquiries' = (inquiries \ {a}) \cup {b}
               /\ b.op = "replies" /\ b.id = a.id /\ b.inst = a.inst
               /\ b.list = RepliesOf(a.id) /\ b.at = "read"
<1>1. a \in Reading /\ a.op = "replies"
  BY Kinds DEF ThreadTypes, ReadReplies
<1>2. PICK S : S = Seq(CommentRow)
  OBVIOUS
<1>3. a \in [op : {"replies"}, id : Nat, nr : Nat, inst : Nat, list : S, at : {"sent", "read"}]
  BY <1>1, <1>2 DEF Reading
<1>4. PICK list : list = RepliesOf(a.id)
  OBVIOUS
<1>5. PICK b : b = [a EXCEPT !.list = list, !.at = "read"]
  OBVIOUS
<1>6. inquiries' = (inquiries \ {a}) \cup {b}
  BY <1>4, <1>5 DEF ReadReplies, Becoming
<1>7. b.op = "replies" /\ b.id = a.id /\ b.inst = a.inst /\ b.list = list /\ b.at = "read"
  BY <1>3, <1>5
<1> QED BY <1>1, <1>4, <1>6, <1>7

LEMMA WritingGoesOn ==
    ASSUME ThreadTypes, NEW a \in inquiries, StoreComment(a)
    PROVE  a.op \in {"comment", "reply"} /\ \E b :
               /\ inquiries' = (inquiries \ {a}) \cup {b}
               /\ b.op = a.op /\ b.id = a.id /\ b.inst = a.inst /\ b.post = a.post
               /\ b.made = uttered + 1
<1>1. a \in Writing /\ a.op \in {"comment", "reply"}
  BY Kinds DEF ThreadTypes, StoreComment
<1>2. PICK b : b = [a EXCEPT !.made = uttered']
  OBVIOUS
<1>3. inquiries' = (inquiries \ {a}) \cup {b} /\ uttered' = uttered + 1
  BY <1>2 DEF StoreComment, Becoming, Utters
<1>4. b.op = a.op /\ b.id = a.id /\ b.inst = a.inst /\ b.post = a.post /\ b.made = uttered'
  BY <1>1, <1>2 DEF Writing
<1> QED BY <1>1, <1>3, <1>4

LEMMA RemovingGoesOn ==
    ASSUME ThreadTypes, NEW a \in inquiries, StoreRemoval(a)
    PROVE  a.op = "delete" /\ \E b :
               /\ inquiries' = (inquiries \ {a}) \cup {b}
               /\ b.op = "delete" /\ b.id = a.id /\ b.under = a.under /\ b.inst = a.inst /\ b.of = a.of
               /\ b.at = "done"
<1>1. a \in Removing /\ a.op = "delete"
  BY Kinds DEF ThreadTypes, StoreRemoval
<1>2. PICK b : b = [a EXCEPT !.at = "done"]
  OBVIOUS
<1>3. inquiries' = (inquiries \ {a}) \cup {b}
  BY <1>2 DEF StoreRemoval, Becoming
<1>4. b.op = "delete" /\ b.id = a.id /\ b.under = a.under /\ b.inst = a.inst /\ b.of = a.of /\ b.at = "done"
  BY <1>1, <1>2 DEF Removing
<1> QED BY <1>1, <1>3, <1>4

LEMMA HeartingGoesOn ==
    ASSUME ThreadTypes, NEW a \in inquiries, a.op = "heart", NEW s, Becoming(a, [a EXCEPT !.at = s])
    PROVE  \E b :
               /\ inquiries' = (inquiries \ {a}) \cup {b}
               /\ b.op = "heart" /\ b.id = a.id /\ b.inst = a.inst /\ b.on = a.on /\ b.at = s
<1>1. a \in Hearting
  BY Kinds DEF ThreadTypes
<1>2. PICK b : b = [a EXCEPT !.at = s]
  OBVIOUS
<1>3. inquiries' = (inquiries \ {a}) \cup {b}
  BY <1>2 DEF Becoming
<1>4. b.op = "heart" /\ b.id = a.id /\ b.inst = a.inst /\ b.on = a.on /\ b.at = s
  BY <1>1, <1>2 DEF Hearting
<1> QED BY <1>3, <1>4

\* A request that is not about a heart becomes none.
LEMMA NoBeats ==
    ASSUME ThreadTypes, ThreadNext,
           ~(\E n \in DOMAIN hearts : ToggleHeart(n)),
           ~(\E a \in inquiries : StoreHeart(a) \/ HeartFails(a))
    PROVE  \A a \in inquiries' : a.op = "heart" => a \in inquiries
<1>1. CASE inquiries' \subseteq inquiries
  BY <1>1
<1>2. ASSUME NEW a \in inquiries, ReadPost(a) \/ ReadComments(a)
      PROVE  \A c \in inquiries' : c.op = "heart" => c \in inquiries
  BY <1>2, LoadGoesOn
<1>3. ASSUME NEW a \in inquiries, ReadReplies(a)
      PROVE  \A c \in inquiries' : c.op = "heart" => c \in inquiries
  BY <1>3, ReadingGoesOn
<1>4. ASSUME NEW a \in inquiries, StoreComment(a)
      PROVE  \A c \in inquiries' : c.op = "heart" => c \in inquiries
  BY <1>4, WritingGoesOn
<1>5. ASSUME NEW a \in inquiries, StoreRemoval(a)
      PROVE  \A c \in inquiries' : c.op = "heart" => c \in inquiries
  BY <1>5, RemovingGoesOn
<1>6. ASSUME NEW p \in Discussed, GoToPost(p)
      PROVE  \A c \in inquiries' : c.op = "heart" => c \in inquiries
  BY <1>6 DEF GoToPost
<1>7. CASE WriteComment
  BY <1>7 DEF WriteComment
<1>8. ASSUME NEW c \in ToSet(listed), ToggleReplies(c) \/ WriteReply(c)
      PROVE  \A d \in inquiries' : d.op = "heart" => d \in inquiries
  <2>1. CASE WriteReply(c)
    BY <2>1 DEF WriteReply
  <2>2. CASE ToggleReplies(c)
    <3>1. \/ inquiries' = inquiries
          \/ inquiries' = inquiries \cup
                 {[op |-> "replies", id |-> c.nr, nr |-> strokes', inst |-> threads[c.nr].inst,
                   list |-> <<>>, at |-> "sent"]}
      BY <2>2 DEF ToggleReplies
    <3> QED BY <3>1
  <2> QED BY <1>8, <2>1, <2>2
<1>9. ASSUME NEW c \in Items(listed, threads), DeleteComment(c)
      PROVE  \A d \in inquiries' : d.op = "heart" => d \in inquiries
  BY <1>9 DEF DeleteComment
<1>10. \/ inquiries' \subseteq inquiries
       \/ \E p \in Discussed : GoToPost(p)
       \/ WriteComment
       \/ \E c \in ToSet(listed) : ToggleReplies(c) \/ WriteReply(c)
       \/ \E c \in Items(listed, threads) : DeleteComment(c)
       \/ \E a \in inquiries : ReadPost(a) \/ ReadComments(a) \/ ReadReplies(a) \/ StoreComment(a) \/ StoreRemoval(a)
  BY DEF ThreadNext, OthersSay, OthersTakeBack, LoadDone, LoadFails, RepliesDone, RepliesFail, CommentDone,
     ReplyDone, WriteFails, CommentRemoved, ReplyRemoved, RemovalFails, HeartAnswered
<1> QED BY <1>1, <1>2, <1>3, <1>4, <1>5, <1>6, <1>7, <1>8, <1>9, <1>10

-----------------------------------------------------------------------------
(* Hearts *)

\* What the steps that give the page something to show mount.
Mounting ==
    \/ \E on \in BOOLEAN : \E list, ths : Mounted(on, list, ths)
    \/ Mounts(FALSE, listed, <<>>, <<>>)

LEMMA MountsOrStays ==
    ASSUME ThreadTypes, ThreadNext,
           ~(\E n \in DOMAIN hearts : ToggleHeart(n)), ~(\E a \in inquiries : HeartAnswered(a))
    PROVE  UNCHANGED <<hearts, dark>> \/ (Mounting /\ UNCHANGED talkDb)
           \/ \E a \in inquiries : HeartFails(a)
<1>1. Ready \in BOOLEAN
  BY DEF Ready
<1>2. ASSUME NEW p \in Discussed, GoToPost(p) PROVE Mounting /\ UNCHANGED talkDb
  BY <1>2 DEF GoToPost, Mounting
<1>3. ASSUME NEW a \in inquiries, LoadFails(a) PROVE Mounting /\ UNCHANGED talkDb
  BY <1>3 DEF LoadFails, Mounting
<1>4. ASSUME NEW a \in inquiries, LoadDone(a) PROVE Mounting /\ UNCHANGED talkDb
  <2>1. ThreadsFit(threads) /\ a.list \in Seq(CommentRow) /\ AllUnder(a.list, Top)
    BY <1>4, Kinds, PageFits DEF LoadDone, Listing, ThreadTypes
  <2>2. Mounted(TRUE, a.list, threads) /\ UNCHANGED talkDb
    BY <1>4, <2>1 DEF LoadDone, Mounted
  <2> QED BY <2>2 DEF Mounting
<1>5. ASSUME NEW c \in ToSet(listed), c.nr \in DOMAIN threads, ToggleReplies(c) PROVE Mounting /\ UNCHANGED talkDb
  <2>1. UNCHANGED talkDb
    BY <1>5 DEF ToggleReplies
  <2> QED BY <1>5, <2>1, ToggleIs DEF Mounting
<1>6. ASSUME NEW a \in inquiries, RepliesDone(a) PROVE UNCHANGED <<hearts, dark>> \/ (Mounting /\ UNCHANGED talkDb)
  <2>1. CASE ~Live(a)
    BY <1>6, <2>1 DEF RepliesDone, mounted
  <2>2. CASE Live(a)
    <3>1. UNCHANGED talkDb
      BY <1>6 DEF RepliesDone
    <3>2. \E ths : Mounted(Ready, listed, ths)
      BY <1>6, <2>2, RepliesDoneIs
    <3> QED BY <1>1, <3>1, <3>2 DEF Mounting
  <2> QED BY <2>1, <2>2
<1>7. ASSUME NEW a \in inquiries, CommentDone(a) \/ CommentRemoved(a) \/ ReplyDone(a) \/ ReplyRemoved(a)
      PROVE  Mounting /\ UNCHANGED talkDb
  <2>1. \E list, ths : Mounted(Ready, list, ths)
    BY <1>7, CommentDoneIs, CommentRemovedIs, ReplyDoneIs, ReplyRemovedIs
  <2>2. UNCHANGED talkDb
    BY <1>7 DEF CommentDone, CommentRemoved, ReplyDone, ReplyRemoved
  <2> QED BY <1>1, <2>1, <2>2 DEF Mounting
<1>8. CASE \/ \E p \in Discussed : \E n \in {Top} \cup {c.nr : c \in talk} : OthersSay(p, n)
           \/ WriteComment
           \/ \E c \in ToSet(listed) : WriteReply(c)
           \/ \E c \in Items(listed, threads) : DeleteComment(c)
           \/ \E c \in talk : OthersTakeBack(c)
           \/ \E a \in inquiries : \/ ReadPost(a) \/ ReadComments(a) \/ ReadReplies(a) \/ RepliesFail(a)
                                   \/ StoreComment(a) \/ WriteFails(a) \/ StoreRemoval(a)
                                   \/ RemovalFails(a) \/ StoreHeart(a)
  BY <1>8 DEF OthersSay, WriteComment, WriteReply, DeleteComment, OthersTakeBack, ReadPost, ReadComments,
     ReadReplies, RepliesFail, StoreComment, WriteFails, StoreRemoval, RemovalFails, StoreHeart, mounted, threadAux
<1> QED BY <1>2, <1>3, <1>4, <1>5, <1>6, <1>7, <1>8 DEF ThreadNext

HeartKept(n) ==
    /\ hearts[n].count = IF hearts[n].liked THEN 1 ELSE 0
    /\ \A a, b \in inquiries : Beats(a, n) /\ Beats(b, n) => a = b
    /\ \A a \in inquiries : Beats(a, n) =>
           /\ hearts[n].busy /\ a.inst = hearts[n].inst /\ a.on = hearts[n].liked
           /\ \A c \in talk : c.nr = n => (c.liked = a.on <=> a.at = "done")
    /\ ~hearts[n].busy => \A c \in talk : c.nr = n => hearts[n].liked = c.liked

\* Nothing happens to a heart and its comment but that it may lose its request.
LEMMA HeartGoesOn ==
    ASSUME NEW n, HeartKept(n), hearts'[n] = hearts[n],
           \A a \in inquiries' : Beats(a, n) => a \in inquiries,
           \A c \in talk' : c.nr = n => \E d \in talk : d.nr = n /\ d.liked = c.liked
    PROVE  HeartKept(n)'
BY DEF HeartKept, Beats

\* Only StoreHeart changes who likes a comment there is.
LEMMA LikesStay ==
    ASSUME ThreadTypes, ThreadNext, ~(\E a \in inquiries : StoreHeart(a)), NEW n \in 1..uttered
    PROVE  \A c \in talk' : c.nr = n => \E d \in talk : d.nr = n /\ d.liked = c.liked
<1>1. uttered \in Nat
  BY DEF ThreadTypes, TalkSound
<1>2. ASSUME NEW p, NEW u, NEW by, Utters(p, u, by)
      PROVE  \A c \in talk' : c.nr = n => \E d \in talk : d.nr = n /\ d.liked = c.liked
  <2>1. \A c \in talk' : c \in talk \/ c.nr = uttered + 1
    BY <1>2 DEF Utters
  <2> QED BY <1>1, <2>1
<1>3. ASSUME talk' \subseteq talk
      PROVE  \A c \in talk' : c.nr = n => \E d \in talk : d.nr = n /\ d.liked = c.liked
  BY <1>3
<1>4. (\E p, u, by : Utters(p, u, by)) \/ talk' \subseteq talk
  BY DEF ThreadNext, talkDb, GoToPost, OthersSay, WriteComment, ToggleReplies,
     WriteReply, DeleteComment, ToggleHeart, OthersTakeBack, ReadPost, ReadComments, LoadDone, LoadFails,
     ReadReplies, RepliesDone, RepliesFail, StoreComment, CommentDone, ReplyDone, WriteFails, StoreRemoval,
     CommentRemoved, ReplyRemoved, RemovalFails, HeartFails, HeartAnswered, Without
<1> QED BY <1>2, <1>3, <1>4

LEMMA HeartsStep ==
    ASSUME ThreadTypes, HeartsKept, ThreadNext
    PROVE  HeartsKept'
<1>1. /\ TalkSound /\ PageSound /\ uttered \in Nat /\ HeartsFit(hearts)
      /\ \A n \in DOMAIN hearts : n \in 1..uttered /\ hearts[n] \in HeartState
  BY PageFits DEF ThreadTypes, PageSound, TalkSound
<1>2. \A n \in DOMAIN hearts \ dark : HeartKept(n)
  BY DEF HeartsKept, HeartKept
<1>3. SUFFICES ASSUME NEW n \in DOMAIN hearts' \ dark' PROVE HeartKept(n)'
  BY DEF HeartsKept, HeartKept
<1>4. ASSUME NEW k \in DOMAIN hearts, ToggleHeart(k) PROVE HeartKept(n)'
  <2>1. UNCHANGED <<talk, dark>> /\ ~hearts[k].busy
    BY <1>4 DEF ToggleHeart, talkDb, threadAux
  <2>2. PICK h \in HeartState :
            /\ hearts' = [hearts EXCEPT ![k] = h]
            /\ h.liked = ~hearts[k].liked /\ h.busy = TRUE /\ h.inst = hearts[k].inst
            /\ h.liked => h.count = hearts[k].count + 1
            /\ ~h.liked /\ hearts[k].count > 0 => h.count = hearts[k].count - 1
    BY <1>4, ToggleHeartIs
  <2>3. PICK b : b = [op |-> "heart", id |-> k, inst |-> hearts[k].inst, on |-> ~hearts[k].liked, at |-> "sent"]
    OBVIOUS
  <2>4. inquiries' = inquiries \cup {b}
    BY <1>4, <2>3 DEF ToggleHeart
  <2>5. b.op = "heart" /\ b.id = k /\ b.inst = h.inst /\ b.on = h.liked /\ b.at = "sent"
    BY <2>2, <2>3
  <2>6. HeartKept(n) /\ n \in DOMAIN hearts
    BY <1>2, <1>3, <2>1, <2>2
  <2>7. CASE n # k
    <3>1. hearts'[n] = hearts[n]
      BY <2>2, <2>6, <2>7
    <3>2. \A a \in inquiries' : Beats(a, n) => a \in inquiries
      BY <2>4, <2>5, <2>7 DEF Beats
    <3> QED BY <2>1, <2>6, <3>1, <3>2, HeartGoesOn
  <2>8. CASE n = k
    <3>1. hearts'[n] = h
      BY <2>2, <2>8
    <3>2. \A a \in inquiries : ~Beats(a, n)
      BY <2>1, <2>6, <2>8 DEF HeartKept
    <3>3. \A a \in inquiries' : Beats(a, n) => a = b
      BY <2>4, <3>2
    <3>4. h.count = IF h.liked THEN 1 ELSE 0
      <4>1. hearts[k].liked \in BOOLEAN /\ hearts[k].count = IF hearts[k].liked THEN 1 ELSE 0
        BY <1>1, <2>6, <2>8 DEF HeartKept, HeartState
      <4>2. CASE hearts[k].liked
        <5>1. hearts[k].count = 1 /\ ~h.liked
          BY <2>2, <4>1, <4>2
        <5>2. h.count = 0
          BY <2>2, <5>1
        <5> QED BY <5>1, <5>2
      <4>3. CASE ~hearts[k].liked
        <5>1. hearts[k].count = 0 /\ h.liked
          BY <2>2, <4>1, <4>3
        <5>2. h.count = 1
          BY <2>2, <5>1
        <5> QED BY <5>1, <5>2
      <4> QED BY <4>2, <4>3
    <3>5. \A c \in talk : c.nr = n => (c.liked = b.on <=> b.at = "done")
      <4>1. \A c \in talk : c.nr = n => hearts[k].liked = c.liked
        BY <2>1, <2>6, <2>8 DEF HeartKept
      <4> QED BY <2>2, <2>5, <4>1
    <3>6. \A a \in inquiries' : Beats(a, n) =>
              /\ h.busy /\ a.inst = h.inst /\ a.on = h.liked
              /\ \A c \in talk : c.nr = n => (c.liked = a.on <=> a.at = "done")
      BY <2>2, <2>5, <3>3, <3>5
    <3> QED BY <2>1, <2>2, <3>1, <3>3, <3>4, <3>6 DEF HeartKept, Beats
  <2> QED BY <2>7, <2>8
<1>5. ASSUME NEW a \in inquiries, StoreHeart(a) PROVE HeartKept(n)'
  <2>1. PICK c : c = {d \in talk : d.nr = a.id /\ d.liked # a.on}
    OBVIOUS
  <2>2. PICK f : f = {[d EXCEPT !.liked = a.on] : d \in c}
    OBVIOUS
  <2>3. PICK s : s = IF c # {} THEN "done" ELSE "failed"
    OBVIOUS
  <2>4. /\ talk' = (talk \ c) \cup f /\ Becoming(a, [a EXCEPT !.at = s])
        /\ UNCHANGED <<hearts, dark>> /\ a.op = "heart" /\ a.at = "sent"
    BY <1>5, <2>1, <2>2, <2>3 DEF StoreHeart, mounted, threadAux
  <2>5. PICK b :
            /\ inquiries' = (inquiries \ {a}) \cup {b}
            /\ b.op = "heart" /\ b.id = a.id /\ b.inst = a.inst /\ b.on = a.on /\ b.at = s
    BY <2>4, HeartingGoesOn
  <2>6. HeartKept(n) /\ n \in DOMAIN hearts
    BY <1>2, <1>3, <2>4
  <2>7. \A e \in f : \E d \in c : e.nr = d.nr /\ e.liked = a.on
    <3>1. talk \subseteq Comment
      BY <1>1 DEF TalkSound
    <3> QED BY <2>1, <2>2, <3>1 DEF Comment
  <2>8. CASE n # a.id
    <3>1. \A e \in inquiries' : Beats(e, n) => e \in inquiries
      BY <2>5, <2>8 DEF Beats
    <3>2. \A e \in talk' : e.nr = n => e \in talk
      BY <2>1, <2>4, <2>7, <2>8
    <3> QED BY <2>4, <2>6, <3>1, <3>2, HeartGoesOn
  <2>9. CASE n = a.id
    <3>1. Beats(a, n)
      BY <2>4, <2>9 DEF Beats
    <3>2. /\ hearts[n].busy /\ a.inst = hearts[n].inst /\ a.on = hearts[n].liked
          /\ \A e \in talk : e.nr = n => e.liked # a.on
          /\ \A e \in inquiries : Beats(e, n) => e = a
      BY <2>4, <2>6, <3>1 DEF HeartKept
    <3>3. \A e \in inquiries' : Beats(e, n) => e = b
      BY <2>5, <3>2
    <3>4. \A e \in talk' : e.nr = n => e.liked = a.on /\ c # {}
      BY <2>1, <2>4, <2>7, <2>9, <3>2
    <3>5. \A e \in talk' : e.nr = n => (e.liked = b.on <=> b.at = "done")
      BY <2>3, <2>5, <3>4
    <3>6. hearts[n].count = IF hearts[n].liked THEN 1 ELSE 0
      BY <2>6 DEF HeartKept
    <3> QED BY <2>4, <2>5, <3>2, <3>3, <3>5, <3>6 DEF HeartKept, Beats
  <2> QED BY <2>8, <2>9
<1>6. ASSUME NEW a \in inquiries, HeartFails(a) PROVE HeartKept(n)'
  <2>1. /\ UNCHANGED <<talk, hearts>> /\ a.op = "heart" /\ a.at # "failed"
        /\ dark' = (IF a.at = "done" THEN dark \cup {a.id} ELSE dark)
        /\ Becoming(a, [a EXCEPT !.at = "failed"])
    BY <1>6 DEF HeartFails, talkDb, mounted
  <2>2. PICK b :
            /\ inquiries' = (inquiries \ {a}) \cup {b}
            /\ b.op = "heart" /\ b.id = a.id /\ b.inst = a.inst /\ b.on = a.on /\ b.at = "failed"
    BY <2>1, HeartingGoesOn
  <2>3. HeartKept(n) /\ n \in DOMAIN hearts /\ (n = a.id => a.at # "done")
    BY <1>2, <1>3, <2>1
  <2>4. CASE n # a.id
    <3>1. \A e \in inquiries' : Beats(e, n) => e \in inquiries
      BY <2>2, <2>4 DEF Beats
    <3> QED BY <2>1, <2>3, <3>1, HeartGoesOn
  <2>5. CASE n = a.id
    <3>1. Beats(a, n)
      BY <2>1, <2>5 DEF Beats
    <3>2. /\ hearts[n].busy /\ a.inst = hearts[n].inst /\ a.on = hearts[n].liked
          /\ \A e \in talk : e.nr = n => e.liked # a.on
          /\ \A e \in inquiries : Beats(e, n) => e = a
      BY <2>3, <2>5, <3>1 DEF HeartKept
    <3>3. \A e \in inquiries' : Beats(e, n) => e = b
      BY <2>2, <3>2
    <3>4. hearts[n].count = IF hearts[n].liked THEN 1 ELSE 0
      BY <2>3 DEF HeartKept
    <3> QED BY <2>1, <2>2, <3>2, <3>3, <3>4 DEF HeartKept, Beats
  <2> QED BY <2>4, <2>5
<1>7. ASSUME NEW a \in inquiries, HeartAnswered(a) PROVE HeartKept(n)'
  <2>1. /\ UNCHANGED <<talk, dark>> /\ inquiries' = inquiries \ {a}
        /\ a.op = "heart" /\ a.at \in {"done", "failed"}
    BY <1>7 DEF HeartAnswered, talkDb, threadAux
  <2>2. CASE ~(a.id \in DOMAIN hearts /\ hearts[a.id].inst = a.inst)
    <3>1. hearts' = hearts
      BY <1>7, <2>2 DEF HeartAnswered
    <3>2. HeartKept(n)
      BY <1>2, <1>3, <2>1, <3>1
    <3> QED BY <2>1, <3>1, <3>2, HeartGoesOn
  <2>3. CASE a.id \in DOMAIN hearts /\ hearts[a.id].inst = a.inst
    <3>1. PICK h \in HeartState :
              /\ hearts' = [hearts EXCEPT ![a.id] = h] /\ h.busy = FALSE
              /\ a.at = "done" => h.liked = hearts[a.id].liked /\ h.count = hearts[a.id].count
              /\ a.at # "done" /\ a.on => ~h.liked
              /\ a.at # "done" /\ ~a.on => h.liked /\ h.count = hearts[a.id].count + 1
              /\ a.at # "done" /\ a.on /\ hearts[a.id].count > 0 => h.count = hearts[a.id].count - 1
      BY <1>7, <2>3, HeartAnsweredIs
    <3>2. HeartKept(n) /\ n \in DOMAIN hearts
      BY <1>2, <1>3, <2>1, <3>1
    <3>3. CASE n # a.id
      <4>1. hearts'[n] = hearts[n]
        BY <3>1, <3>2, <3>3
      <4> QED BY <2>1, <3>2, <4>1, HeartGoesOn
    <3>4. CASE n = a.id
      <4>1. hearts'[n] = h
        BY <2>3, <3>1, <3>4
      <4>2. Beats(a, n)
        BY <2>1, <3>4 DEF Beats
      <4>3. /\ a.on = hearts[n].liked
            /\ \A e \in talk : e.nr = n => (e.liked = a.on <=> a.at = "done")
            /\ \A e \in inquiries : Beats(e, n) => e = a
            /\ hearts[n].count = IF hearts[n].liked THEN 1 ELSE 0
        BY <3>2, <4>2 DEF HeartKept
      <4>4. \A e \in inquiries' : ~Beats(e, n)
        BY <2>1, <4>3
      <4>5. hearts[n].liked \in BOOLEAN /\ h.liked \in BOOLEAN
        BY <1>1, <3>2 DEF HeartState
      <4>6. h.count = IF h.liked THEN 1 ELSE 0
        <5>1. CASE a.at = "done"
          BY <3>1, <3>4, <4>3, <5>1
        <5>2. CASE a.at # "done" /\ a.on
          <6>1. hearts[a.id].count = 1
            BY <3>4, <4>3, <5>2
          <6> QED BY <3>1, <5>2, <6>1
        <5>3. CASE a.at # "done" /\ ~a.on
          <6>1. hearts[a.id].count = 0
            BY <3>4, <4>3, <5>3
          <6> QED BY <3>1, <5>3, <6>1
        <5> QED BY <5>1, <5>2, <5>3
      <4>7. \A e \in talk : e.nr = n => h.liked = e.liked
        <5>1. \A e \in talk : e.liked \in BOOLEAN
          BY <1>1 DEF TalkSound, Comment
        <5>2. CASE a.at = "done"
          BY <3>1, <3>4, <4>3, <5>2
        <5>3. CASE a.at # "done"
          <6>1. h.liked = ~a.on
            BY <3>1, <4>3, <4>5, <5>3
          <6> QED BY <4>3, <4>5, <5>1, <5>3, <6>1
        <5> QED BY <5>2, <5>3
      <4> QED BY <2>1, <3>1, <4>1, <4>4, <4>6, <4>7 DEF HeartKept, Beats
    <3> QED BY <3>3, <3>4
  <2> QED BY <2>2, <2>3
<1>8. CASE /\ ~(\E k \in DOMAIN hearts : ToggleHeart(k))
           /\ ~(\E a \in inquiries : StoreHeart(a) \/ HeartFails(a) \/ HeartAnswered(a))
  <2>1. \A a \in inquiries' : Beats(a, n) => a \in inquiries
    BY <1>8, NoBeats DEF Beats
  <2>2. CASE Mounting /\ UNCHANGED talkDb
    <3>1. \/ n \in DOMAIN hearts /\ n \notin dark /\ hearts'[n] = hearts[n]
          \/ NewItems(hearts'[n], n)
      <4>1. ASSUME NEW on \in BOOLEAN, NEW list, NEW ths, Mounted(on, list, ths)
            PROVE  n \notin dark /\ IF n \in DOMAIN hearts THEN hearts'[n] = hearts[n] ELSE NewItems(hearts'[n], n)
        BY <1>1, <1>3, <4>1, MountsIs DEF Mounted
      <4>2. ASSUME Mounts(FALSE, listed, <<>>, <<>>) PROVE FALSE
        <5>1. /\ ThreadsFit(<<>>) /\ HeartsFit(<<>>) /\ listed \in Seq(CommentRow) /\ AllUnder(listed, Top)
          BY <1>1, EmptyMap, PageFits DEF ThreadsFit, HeartsFit
        <5>2. PICK on \in BOOLEAN : on = FALSE
          OBVIOUS
        <5>3. Mounts(on, listed, <<>>, <<>>)
          BY <4>2, <5>2
        <5>4. DOMAIN hearts' = {}
          BY <1>1, <5>1, <5>2, <5>3, MountsIs
        <5> QED BY <1>3, <5>4
      <4> QED BY <2>2, <4>1, <4>2 DEF Mounting
    <3>2. CASE n \in DOMAIN hearts /\ n \notin dark /\ hearts'[n] = hearts[n]
      BY <1>2, <2>1, <2>2, <3>2, HeartGoesOn DEF talkDb
    <3>3. CASE NewItems(hearts'[n], n)
      <4>1. PICK h : h = hearts'[n]
        OBVIOUS
      <4>2. /\ ~h.liked /\ ~h.busy /\ h.count = 0
            /\ \A t \in talk : t.nr = n => ~t.liked
            /\ \A a \in inquiries : ~Beats(a, n)
        BY <3>3, <4>1 DEF NewItems
      <4>3. talk' = talk /\ \A a \in inquiries' : ~Beats(a, n)
        BY <2>1, <2>2, <4>2 DEF talkDb
      <4>4. h.liked \in BOOLEAN /\ \A t \in talk : t.liked \in BOOLEAN
        BY <1>1, <1>3, <4>1, TypesStep DEF ThreadTypes, PageSound, TalkSound, HeartState, Comment
      <4>5. h.count = IF h.liked THEN 1 ELSE 0
        BY <4>2
      <4>6. \A t \in talk' : t.nr = n => h.liked = t.liked
        BY <4>2, <4>3, <4>4
      <4> QED BY <4>1, <4>3, <4>5, <4>6 DEF HeartKept, Beats
    <3> QED BY <3>1, <3>2, <3>3
  <2>3. CASE UNCHANGED <<hearts, dark>>
    <3>1. HeartKept(n) /\ n \in 1..uttered
      BY <1>1, <1>2, <1>3, <2>3
    <3>2. \A c \in talk' : c.nr = n => \E d \in talk : d.nr = n /\ d.liked = c.liked
      BY <1>1, <1>8, <3>1, LikesStay
    <3> QED BY <2>1, <2>3, <3>1, <3>2, HeartGoesOn
  <2> QED BY <1>8, <2>2, <2>3, MountsOrStays
<1> QED BY <1>4, <1>5, <1>6, <1>7, <1>8

-----------------------------------------------------------------------------
(* The page *)

\* While the page shows what it did, a request goes, comes or gets further.
LEMMA PageGoesOn ==
    ASSUME ThreadTypes, PageHere, TalkGoes,
           UNCHANGED <<address, shownPost, listed>>, Ready' = Ready, lopsided => lopsided',
           NEW b, inquiries' \subseteq inquiries \cup {b},
           b \notin inquiries =>
               /\ Ready /\ b.op # "load"
               /\ b.op = "comment" => b.post = address /\ (b.made # 0 => b.made \notin NrsOf(listed))
               /\ b.op = "delete" /\ b.under = Top => b.id \in NrsOf(listed)
    PROVE  PageHere'
<1>1. TalkSound /\ InquiriesSound
  BY DEF ThreadTypes
<1>2. ASSUME NEW a \in inquiries', a.op = "load" PROVE inquiries' = {a} /\ ~Ready /\ a.post = address
  BY <1>2 DEF PageHere
<1>3. ASSUME ~Ready, NEW a \in inquiries' PROVE a.op = "load"
  BY <1>3 DEF PageHere
<1>4. ASSUME NEW a \in inquiries', a.op = "comment"
      PROVE  a.post = address /\ (a.made # 0 => a.made \notin NrsOf(listed))
  BY <1>4 DEF PageHere
<1>5. ASSUME Ready PROVE ListHere'
  BY <1>5 DEF PageHere, ListHere
<1>6. ASSUME NEW a \in inquiries', a.op = "delete", a.under = Top, a.id \notin NrsOf(listed)
      PROVE  a.at = "sent" /\ ~InTalk(a.id)'
  <2>1. a \in inquiries /\ a.at = "sent" /\ ~InTalk(a.id)
    BY <1>6 DEF PageHere
  <2>2. PICK m : m = a.id
    OBVIOUS
  <2>3. m \in 1..uttered
    BY <1>1, <1>6, <2>1, <2>2, Kinds DEF Under
  <2>4. ~InTalk(m)'
    BY <1>1, <2>1, <2>2, <2>3, UnderStays
  <2> QED BY <2>1, <2>2, <2>4
<1> QED BY <1>2, <1>3, <1>4, <1>5, <1>6 DEF PageHere, NrsOf

LEMMA PageFewer ==
    ASSUME ThreadTypes, PageHere, TalkGoes,
           UNCHANGED <<address, shownPost, listed>>, Ready' = Ready, lopsided => lopsided',
           inquiries' \subseteq inquiries
    PROVE  PageHere'
<1>1. CASE inquiries = {}
  <2>1. inquiries' = {} /\ (Ready => ListHere)
    BY <1>1 DEF PageHere
  <2> QED BY <2>1 DEF PageHere, ListHere
<1>2. CASE inquiries # {}
  BY <1>2, PageGoesOn
<1> QED BY <1>1, <1>2

\* The list changes with an answer, while the person stays.
LEMMA PageAnswered ==
    ASSUME ThreadTypes, PageHere, TalkGoes, NEW a \in inquiries, a.op # "load",
           UNCHANGED address, Ready' = Ready, inquiries' = inquiries \ {a},
           ListHere',
           \A d \in inquiries' : d.op = "comment" /\ d.made # 0 => d.made \notin NrsOf(listed)',
           \A d \in inquiries' : d.op = "delete" /\ d.under = Top =>
               d.id \in NrsOf(listed)' \/ (d.at = "sent" /\ ~InTalk(d.id))
    PROVE  PageHere'
<1>1. TalkSound /\ InquiriesSound
  BY DEF ThreadTypes
<1>2. Ready /\ \A d \in inquiries : d.op # "load"
  BY DEF PageHere
<1>3. ASSUME NEW d \in inquiries', d.op = "comment" PROVE d.post = address
  BY <1>3 DEF PageHere
<1>4. ASSUME NEW d \in inquiries', d.op = "delete", d.under = Top
      PROVE  d.id \in NrsOf(listed)' \/ (d.at = "sent" /\ ~InTalk(d.id)')
  <2>1. PICK m : m = d.id
    OBVIOUS
  <2>2. m \in 1..uttered
    BY <1>1, <1>4, <2>1, Kinds DEF Under
  <2>3. ~InTalk(m) => ~InTalk(m)'
    BY <1>1, <2>2, UnderStays
  <2> QED BY <1>4, <2>1, <2>3
<1> QED BY <1>2, <1>3, <1>4 DEF PageHere

LEMMA PageKeptStep ==
    ASSUME ThreadTypes, PageKept, ThreadNext
    PROVE  PageKept'
<1>1. /\ TalkSound /\ InquiriesSound /\ PageSound /\ TalkGoes
      /\ listed \in Seq(CommentRow) /\ AllUnder(listed, Top) /\ Len(listed) \in Nat
      /\ uttered \in Nat /\ shownPost.count \in Int
  BY TalkStep, PageFits, RowsIn DEF ThreadTypes, TalkSound, PageSound
<1>2. SUFFICES ASSUME ~wandered' PROVE PageHere'
  BY DEF PageKept
<1>3. ASSUME UNCHANGED <<wandered, address, phase, shownPost, listed>>, lopsided => lopsided',
             inquiries' \subseteq inquiries
      PROVE  PageHere'
  BY <1>1, <1>2, <1>3, PageFewer DEF PageKept, Ready
<1>4. ASSUME UNCHANGED <<wandered, address, phase, shownPost, listed, lopsided>>,
             NEW b, inquiries' \subseteq inquiries \cup {b}, Ready, b.op # "load",
             b.op = "comment" => b.post = address /\ (b.made # 0 => b.made \notin NrsOf(listed)),
             b.op = "delete" /\ b.under = Top => b.id \in NrsOf(listed)
      PROVE  PageHere'
  BY <1>1, <1>2, <1>4, PageGoesOn DEF PageKept, Ready
<1>5. \A n \in NrsOf(listed) : n \in 1..uttered
  BY <1>1 DEF AllUnder, Under, NrsOf
<1>6. ASSUME ~wandered, NEW a \in inquiries, a.op # "load" PROVE Ready
  BY <1>6 DEF PageKept, PageHere
<1>7. ASSUME NEW p \in Discussed, GoToPost(p) PROVE PageHere'
  <2>1. ~wandered /\ inquiries = {} /\ address' = p /\ phase' = "loading"
    BY <1>2, <1>7 DEF GoToPost
  <2>2. PICK b : b = [op |-> "load", id |-> strokes', post |-> p, count |-> -1, list |-> <<>>,
                      at |-> {"post", "list"}]
    OBVIOUS
  <2>3. inquiries' = {b}
    BY <1>7, <2>1, <2>2 DEF GoToPost
  <2>4. b.op = "load" /\ b.post = p
    BY <2>2
  <2> QED BY <2>1, <2>3, <2>4 DEF PageHere, Ready
<1>8. ASSUME NEW a \in inquiries, ReadPost(a) \/ ReadComments(a) PROVE PageHere'
  <2>1. UNCHANGED <<address, phase, wandered>>
    BY <1>8 DEF ReadPost, ReadComments, postPage, threadAux
  <2>2. a.op = "load" /\ inquiries = {a} /\ ~Ready /\ a.post = address
    BY <1>2, <1>8, <2>1, LoadGoesOn DEF PageKept, PageHere
  <2>3. PICK b : inquiries' = (inquiries \ {a}) \cup {b} /\ b.op = "load" /\ b.post = a.post
    BY <1>8, LoadGoesOn
  <2> QED BY <2>1, <2>2, <2>3 DEF PageHere, Ready
<1>9. ASSUME NEW a \in inquiries, LoadDone(a) PROVE PageHere'
  <2>1. /\ a.op = "load" /\ inquiries' = inquiries \ {a} /\ phase' = "ready"
        /\ shownPost' = [post |-> a.post, count |-> a.count] /\ listed' = a.list
        /\ lopsided' = (a.count # Len(a.list)) /\ UNCHANGED address
        /\ wandered' = (wandered /\ (inquiries' # {} \/ a.post # address \/ Ready))
    BY <1>9 DEF LoadDone, Mounts
  <2>2. inquiries' = {} /\ a.post = address
    BY <1>2, <2>1 DEF PageKept, PageHere
  <2>3. OnceEach(a.list) /\ \A k \in 1..Len(a.list) : a.list[k].post = a.post
    BY <1>1, <2>1, Kinds
  <2>4. ListHere'
    BY <2>1, <2>2, <2>3 DEF ListHere
  <2> QED BY <2>1, <2>2, <2>4 DEF PageHere, Ready
<1>10. ASSUME NEW a \in inquiries, LoadFails(a) PROVE PageHere'
  <2>1. a.op = "load" /\ inquiries' = inquiries \ {a} /\ phase' = "error" /\ ~wandered
    BY <1>2, <1>10 DEF LoadFails
  <2>2. inquiries' = {}
    BY <2>1 DEF PageKept, PageHere
  <2> QED BY <2>1, <2>2 DEF PageHere, Ready
<1>11. ASSUME NEW c \in ToSet(listed), ToggleReplies(c) PROVE PageHere'
  <2>1. UNCHANGED <<wandered, address, phase, shownPost, listed, lopsided>> /\ Ready
    BY <1>11 DEF ToggleReplies, Mounts
  <2>2. PICK b : b = [op |-> "replies", id |-> c.nr, nr |-> strokes', inst |-> threads[c.nr].inst,
                      list |-> <<>>, at |-> "sent"]
    OBVIOUS
  <2>3. b.op = "replies" /\ inquiries' \subseteq inquiries \cup {b}
    BY <1>11, <2>2 DEF ToggleReplies
  <2> QED BY <1>4, <2>1, <2>3
<1>12. ASSUME NEW a \in inquiries, ReadReplies(a) PROVE PageHere'
  <2>1. UNCHANGED <<wandered, address, phase, shownPost, listed, lopsided>>
    BY <1>12 DEF ReadReplies, postPage, threadAux
  <2>2. PICK b : inquiries' = (inquiries \ {a}) \cup {b} /\ b.op = "replies"
    BY <1>12, ReadingGoesOn
  <2>3. Ready
    BY <1>2, <1>6, <1>12, <2>1 DEF ReadReplies
  <2> QED BY <1>4, <2>1, <2>2, <2>3
<1>13. ASSUME NEW a \in inquiries, RepliesDone(a) PROVE PageHere'
  <2>1. UNCHANGED <<wandered, address, phase, shownPost, listed, lopsided>> /\ inquiries' \subseteq inquiries
    BY <1>13 DEF RepliesDone, Mounts
  <2> QED BY <1>3, <2>1
<1>14. CASE WriteComment
  <2>1. UNCHANGED <<wandered, address, phase, shownPost, listed, lopsided>> /\ Ready
    BY <1>14 DEF WriteComment, postPage, threadAux
  <2>2. PICK b : b = [op |-> "comment", id |-> Top, nr |-> strokes', post |-> address, inst |-> 0, made |-> 0]
    OBVIOUS
  <2>3. b.op = "comment" /\ b.post = address /\ b.made = 0 /\ inquiries' \subseteq inquiries \cup {b}
    BY <1>14, <2>2 DEF WriteComment
  <2> QED BY <1>4, <2>1, <2>3
<1>15. ASSUME NEW c \in ToSet(listed), WriteReply(c) PROVE PageHere'
  <2>1. UNCHANGED <<wandered, address, phase, shownPost, listed, lopsided>> /\ Ready
    BY <1>15 DEF WriteReply, postPage
  <2>2. PICK b : b = [op |-> "reply", id |-> c.nr, nr |-> strokes', post |-> c.post,
                      inst |-> threads[c.nr].inst, made |-> 0]
    OBVIOUS
  <2>3. b.op = "reply" /\ inquiries' \subseteq inquiries \cup {b}
    BY <1>15, <2>2 DEF WriteReply
  <2> QED BY <1>4, <2>1, <2>3
<1>16. ASSUME NEW a \in inquiries, StoreComment(a) PROVE PageHere'
  <2>1. UNCHANGED <<wandered, address, phase, shownPost, listed, lopsided>>
    BY <1>16 DEF StoreComment, postPage
  <2>2. PICK b :
            /\ inquiries' = (inquiries \ {a}) \cup {b}
            /\ b.op = a.op /\ b.id = a.id /\ b.inst = a.inst /\ b.post = a.post /\ b.made = uttered + 1
    BY <1>16, WritingGoesOn
  <2>3. a.op \in {"comment", "reply"} /\ (a.op = "comment" => a.post = address) /\ Ready
    BY <1>2, <1>6, <1>16, <2>1, WritingGoesOn DEF PageKept, PageHere
  <2>4. b.made \notin NrsOf(listed)
    BY <1>1, <1>5, <2>2
  <2> QED BY <1>4, <2>1, <2>2, <2>3, <2>4
<1>17. ASSUME NEW a \in inquiries, CommentDone(a) PROVE PageHere'
  <2>1. /\ UNCHANGED <<wandered, address, phase, lopsided>> /\ inquiries' = inquiries \ {a}
        /\ a.op = "comment" /\ a.made # 0
        /\ shownPost' = [shownPost EXCEPT !.count = @ + 1]
    BY <1>17 DEF CommentDone
  <2>2. PageHere /\ Ready
    BY <1>2, <1>6, <2>1 DEF PageKept
  <2>3. PICK list, c : /\ Mounted(Ready, list, threads)
                       /\ c \in CommentRow /\ c.nr = a.made /\ c.post = a.post
                       /\ list = <<c>> \o listed
    BY <1>17, CommentDoneIs
  <2>4. listed' = list
    BY <2>3 DEF Mounted, Mounts
  <2>5. /\ NrsOf(list) = NrsOf(listed) \cup {c.nr} /\ Len(list) = Len(listed) + 1
        /\ \A k \in 1..Len(list) : list[k] = c \/ \E j \in 1..Len(listed) : list[k] = listed[j]
        /\ OnceEach(listed) /\ c.nr \notin NrsOf(listed) => OnceEach(list)
    <3>1. c \in CommentRow /\ list = <<c>> \o listed
      BY <2>3
    <3>2. NrsOf(list) = NrsOf(listed) \cup {c.nr} /\ Len(list) = Len(listed) + 1
      BY <1>1, <3>1, RowInFront
    <3>3. \A k \in 1..Len(list) : list[k] = c \/ \E j \in 1..Len(listed) : list[k] = listed[j]
      BY <1>1, <3>1, RowInFront
    <3>4. OnceEach(listed) /\ c.nr \notin NrsOf(listed) => OnceEach(list)
      BY <1>1, <3>1, RowInFront
    <3> QED BY <3>2, <3>3, <3>4
  <2>6. a.post = address /\ a.made \notin NrsOf(listed) /\ ListHere
    BY <2>1, <2>2 DEF PageHere
  <2>7. OnceEach(list) /\ \A k \in 1..Len(list) : list[k].post = address
    BY <2>3, <2>5, <2>6 DEF ListHere
  <2>8. shownPost'.post = shownPost.post /\ shownPost'.count = shownPost.count + 1
    BY <1>1, <2>1 DEF PageSound
  <2>9. ListHere'
    <3>1. lopsided \/ shownPost.count + 1 = Len(listed) + 1
      BY <2>6 DEF ListHere
    <3> QED BY <2>1, <2>4, <2>5, <2>6, <2>7, <2>8, <3>1 DEF ListHere
  <2>10. ASSUME NEW d \in inquiries', d.op = "comment", d.made # 0 PROVE d.made \notin NrsOf(listed)'
    <3>1. d \in inquiries /\ d # a /\ d.made \notin NrsOf(listed)
      BY <2>1, <2>2, <2>10 DEF PageHere
    <3>2. d.made # a.made
      BY <1>1, <2>1, <2>10, <3>1, Kinds DEF InquiriesSound
    <3> QED BY <2>3, <2>4, <2>5, <3>1, <3>2 DEF NrsOf
  <2>11. ASSUME NEW d \in inquiries', d.op = "delete", d.under = Top
         PROVE  d.id \in NrsOf(listed)' \/ (d.at = "sent" /\ ~InTalk(d.id))
    <3>1. d.id \in NrsOf(listed) \/ (d.at = "sent" /\ ~InTalk(d.id))
      BY <2>1, <2>2, <2>11 DEF PageHere
    <3>2. NrsOf(listed)' = NrsOf(list)
      BY <2>4 DEF NrsOf
    <3> QED BY <2>5, <3>1, <3>2
  <2> QED BY <1>1, <2>1, <2>2, <2>9, <2>10, <2>11, PageAnswered DEF Ready
<1>18. ASSUME NEW n, NEW d \in Int, NEW list, NEW ths, Mounted(Ready, list, ths), list = Counted(listed, n, d),
              UNCHANGED <<wandered, address, phase, shownPost, lopsided>>,
              NEW a \in inquiries, a.op # "load", inquiries' = inquiries \ {a}
       PROVE  PageHere'
  <2>1. PageHere /\ Ready
    BY <1>2, <1>6, <1>18 DEF PageKept
  <2>2. listed' = list
    BY <1>18 DEF Mounted, Mounts
  <2>3. Len(list) = Len(listed) /\ NrsOf(list) = NrsOf(listed) /\ (OnceEach(listed) => OnceEach(list))
    BY <1>1, <1>18, RowsCounted
  <2>4. \A k \in 1..Len(listed) : list[k].post = listed[k].post
    BY <1>1, <1>18, RowCounted
  <2>5. ListHere
    BY <2>1 DEF PageHere
  <2>6. ListHere'
    BY <1>18, <2>2, <2>3, <2>4, <2>5 DEF ListHere
  <2>7. NrsOf(listed)' = NrsOf(listed)
    BY <2>2, <2>3 DEF NrsOf
  <2>8. \A e \in inquiries' : e.op = "comment" /\ e.made # 0 => e.made \notin NrsOf(listed)'
    BY <1>18, <2>1, <2>7 DEF PageHere
  <2>9. \A e \in inquiries' : e.op = "delete" /\ e.under = Top =>
            e.id \in NrsOf(listed)' \/ (e.at = "sent" /\ ~InTalk(e.id))
    BY <1>18, <2>1, <2>7 DEF PageHere
  <2> QED BY <1>1, <1>18, <2>1, <2>6, <2>8, <2>9, PageAnswered DEF Ready
<1>19. ASSUME NEW a \in inquiries, ReplyDone(a) PROVE PageHere'
  <2>1. PICK list, ths : Mounted(Ready, list, ths) /\ list = Counted(listed, a.id, 1)
    BY <1>19, ReplyDoneIs
  <2>2. /\ UNCHANGED <<wandered, address, phase, shownPost, lopsided>>
        /\ a.op # "load" /\ inquiries' = inquiries \ {a}
    BY <1>19 DEF ReplyDone
  <2> QED BY <1>18, <2>1, <2>2
<1>20. ASSUME NEW a \in inquiries, ReplyRemoved(a) PROVE PageHere'
  <2>1. PICK list, ths : Mounted(Ready, list, ths) /\ list = Counted(listed, a.under, -1)
    BY <1>20, ReplyRemovedIs
  <2>2. /\ UNCHANGED <<wandered, address, phase, shownPost, lopsided>>
        /\ a.op # "load" /\ inquiries' = inquiries \ {a}
    BY <1>20 DEF ReplyRemoved
  <2>3. PICK d \in Int : d = -1
    OBVIOUS
  <2>4. list = Counted(listed, a.under, d)
    BY <2>1, <2>3
  <2> HIDE <2>3
  <2> QED BY <1>18, <2>1, <2>2, <2>4
<1>21. ASSUME NEW a \in inquiries, CommentRemoved(a) PROVE PageHere'
  <2>1. /\ UNCHANGED <<wandered, address, phase, lopsided>> /\ inquiries' = inquiries \ {a}
        /\ a.op = "delete" /\ a.at = "done" /\ a.under = Top
        /\ shownPost' = [shownPost EXCEPT !.count = Max({0, @ - 1})]
    BY <1>21 DEF CommentRemoved
  <2>2. PageHere /\ Ready
    BY <1>2, <1>6, <2>1 DEF PageKept
  <2>3. PICK list : /\ Mounted(Ready, list, threads)
                    /\ list = Filtered(listed, {k \in DOMAIN listed : listed[k].nr # a.id})
    BY <1>21, CommentRemovedIs
  <2>4. listed' = list
    BY <2>3 DEF Mounted, Mounts
  <2>5. PICK P : P = {k \in DOMAIN listed : listed[k].nr # a.id}
    OBVIOUS
  <2>6. P \in SUBSET (1..Len(listed)) /\ \A k \in 1..Len(listed) : k \in P <=> listed[k].nr # a.id
    BY <1>1, <2>5, RowsIn
  <2>7. PICK rest : rest = NrsOf(listed) \ {a.id}
    OBVIOUS
  <2>8. /\ NrsOf(list) = rest /\ ToSet(list) \subseteq ToSet(listed) /\ list \in Seq(CommentRow)
        /\ OnceEach(listed) => OnceEach(list)
        /\ OnceEach(listed) /\ a.id \in NrsOf(listed) => Len(list) = Len(listed) - 1
    BY <1>1, <2>3, <2>5, <2>6, <2>7, RowDropped
  <2>9. ListHere /\ a.id \in NrsOf(listed)
    BY <2>1, <2>2 DEF PageHere
  <2>10. OnceEach(list) /\ Len(list) = Len(listed) - 1 /\ Len(list) \in Nat
    BY <2>8, <2>9, RowsIn DEF ListHere
  <2>11. \A k \in 1..Len(list) : list[k].post = address
    <3>1. ASSUME NEW k \in 1..Len(list) PROVE \E j \in 1..Len(listed) : list[k] = listed[j]
      <4>1. list[k] \in ToSet(listed)
        BY <2>8, RowsIn
      <4> QED BY <1>1, <4>1, RowsIn
    <3> QED BY <2>9, <3>1 DEF ListHere
  <2>12. /\ shownPost'.post = shownPost.post
         /\ shownPost.count > 0 => shownPost'.count = shownPost.count - 1
    <3>1. PICK x \in Int : x = shownPost.count - 1
      BY <1>1
    <3>2. PICK m : m = Max({0, x})
      OBVIOUS
    <3>3. x >= 0 => m = x
      BY <3>2, Greater
    <3>4. shownPost' = [shownPost EXCEPT !.count = m]
      BY <2>1, <3>1, <3>2
    <3>5. shownPost'.post = shownPost.post /\ shownPost'.count = m
      BY <1>1, <3>4 DEF PageSound
    <3> QED BY <1>1, <3>1, <3>3, <3>5
  <2>13. ListHere'
    <3>1. lopsided \/ shownPost'.count = Len(list)
      <4>1. CASE shownPost.count = Len(listed)
        BY <1>1, <2>10, <2>12, <4>1
      <4> QED BY <2>9, <4>1 DEF ListHere
    <3> QED BY <2>1, <2>4, <2>9, <2>10, <2>11, <2>12, <3>1 DEF ListHere
  <2>14. NrsOf(listed)' = rest
    BY <2>4, <2>8 DEF NrsOf
  <2>15. \A e \in inquiries' : e.op = "comment" /\ e.made # 0 => e.made \notin NrsOf(listed)'
    BY <2>1, <2>2, <2>7, <2>14 DEF PageHere
  <2>16. ASSUME NEW d \in inquiries', d.op = "delete", d.under = Top
         PROVE  d.id \in NrsOf(listed)' \/ (d.at = "sent" /\ ~InTalk(d.id))
    <3>1. d \in inquiries /\ d # a /\ (d.id \in NrsOf(listed) \/ (d.at = "sent" /\ ~InTalk(d.id)))
      BY <2>1, <2>2, <2>16 DEF PageHere
    <3>2. CASE d.id # a.id
      BY <2>7, <2>14, <3>1, <3>2
    <3>3. CASE d.id = a.id
      <4>1. d \in Removing /\ a \in Removing /\ ~InTalk(a.id)
        BY <1>1, <2>1, <2>16, <3>1, Kinds
      <4>2. d.at # "done"
        BY <1>1, <2>1, <3>1, <3>3, <4>1 DEF InquiriesSound
      <4>3. d.at = "sent"
        BY <4>1, <4>2 DEF Removing
      <4> QED BY <3>3, <4>1, <4>3
    <3> QED BY <3>2, <3>3
  <2> QED BY <1>1, <2>1, <2>2, <2>13, <2>15, <2>16, PageAnswered DEF Ready
<1>22. ASSUME NEW c \in Items(listed, threads), c.nr \in DOMAIN hearts, DeleteComment(c) PROVE PageHere'
  <2>1. UNCHANGED <<wandered, address, phase, shownPost, listed, lopsided>> /\ Ready
    BY <1>22 DEF DeleteComment, postPage, threadAux
  <2>2. PICK b : b = [op |-> "delete", id |-> c.nr, under |-> c.under, inst |-> hearts[c.nr].inst,
                      of |-> IF c.under = Top THEN 0 ELSE threads[c.under].inst, at |-> "sent"]
    OBVIOUS
  <2>3. /\ b.op = "delete" /\ b.under = c.under /\ b.id = c.nr /\ inquiries' \subseteq inquiries \cup {b}
    BY <1>22, <2>2 DEF DeleteComment
  <2>4. ASSUME c.under = Top PROVE c.nr \in NrsOf(listed)
    <3>1. \/ \E k \in 1..Len(listed) : c = listed[k]
          \/ \E n \in DOMAIN threads : c.under = n
      BY <1>1, <1>22, PageFits, ItemsAre
    <3>2. Top \notin DOMAIN threads
      BY <1>1, <1>5 DEF PageSound, Top
    <3> QED BY <2>4, <3>1, <3>2 DEF NrsOf
  <2> QED BY <1>4, <2>1, <2>3, <2>4
<1>23. ASSUME NEW a \in inquiries, StoreRemoval(a) PROVE PageHere'
  <2>1. UNCHANGED <<wandered, address, phase, shownPost, listed, lopsided>> /\ a.op = "delete" /\ InTalk(a.id)
    BY <1>23 DEF StoreRemoval, postPage, Refusable, InTalk
  <2>2. PICK b : /\ inquiries' = (inquiries \ {a}) \cup {b}
                 /\ b.op = "delete" /\ b.id = a.id /\ b.under = a.under
    BY <1>23, RemovingGoesOn
  <2>3. Ready /\ (a.under = Top => a.id \in NrsOf(listed))
    BY <1>2, <1>6, <2>1 DEF PageKept, PageHere
  <2> QED BY <1>4, <2>1, <2>2, <2>3
<1>24. ASSUME NEW n \in DOMAIN hearts, ToggleHeart(n) PROVE PageHere'
  <2>1. UNCHANGED <<wandered, address, phase, shownPost, listed, lopsided>> /\ Ready
    BY <1>24 DEF ToggleHeart, postPage, threadAux
  <2>2. PICK b : b = [op |-> "heart", id |-> n, inst |-> hearts[n].inst, on |-> ~hearts[n].liked, at |-> "sent"]
    OBVIOUS
  <2>3. b.op = "heart" /\ inquiries' \subseteq inquiries \cup {b}
    BY <1>24, <2>2 DEF ToggleHeart
  <2> QED BY <1>4, <2>1, <2>3
<1>25. ASSUME NEW a \in inquiries, StoreHeart(a) \/ HeartFails(a) PROVE PageHere'
  <2>1. UNCHANGED <<wandered, address, phase, shownPost, listed, lopsided>> /\ a.op = "heart"
    BY <1>25 DEF StoreHeart, HeartFails, postPage, threadAux
  <2>2. \E s : Becoming(a, [a EXCEPT !.at = s])
    BY <1>25 DEF StoreHeart, HeartFails
  <2>3. PICK b : inquiries' = (inquiries \ {a}) \cup {b} /\ b.op = "heart"
    BY <2>1, <2>2, HeartingGoesOn
  <2>4. Ready
    BY <1>2, <1>6, <2>1
  <2> QED BY <1>4, <2>1, <2>3, <2>4
<1>26. CASE \/ \E p \in Discussed : \E n \in {Top} \cup {c.nr : c \in talk} : OthersSay(p, n)
            \/ \E c \in talk : OthersTakeBack(c)
            \/ \E a \in inquiries : RepliesFail(a) \/ WriteFails(a) \/ RemovalFails(a) \/ HeartAnswered(a)
  <2>1. /\ UNCHANGED <<wandered, address, phase, shownPost, listed>> /\ inquiries' \subseteq inquiries
        /\ lopsided => lopsided'
    <3>1. ASSUME NEW a \in inquiries, WriteFails(a) PROVE lopsided => lopsided'
      BY <3>1 DEF WriteFails
    <3>2. /\ UNCHANGED <<wandered, address, phase, shownPost, listed>> /\ inquiries' \subseteq inquiries
          /\ lopsided' = lopsided \/ \E a \in inquiries : WriteFails(a)
      BY <1>26 DEF OthersSay, OthersTakeBack, RepliesFail, WriteFails, RemovalFails, HeartAnswered, postPage, threadAux
    <3> QED BY <3>1, <3>2
  <2> QED BY <1>3, <2>1
<1> QED BY <1>7, <1>8, <1>9, <1>10, <1>11, <1>12, <1>13, <1>14, <1>15, <1>16, <1>17, <1>19, <1>20, <1>21,
       <1>22, <1>23, <1>24, <1>25, <1>26 DEF ThreadNext

-----------------------------------------------------------------------------
(* Threads: how many replies a comment has *)

LEMMA RepliesSame ==
    ASSUME TalkSound, TalkSound', NEW n, Numbers(RepliesTo(n))' = Numbers(RepliesTo(n))
    PROVE  Cardinality(RepliesTo(n))' = Cardinality(RepliesTo(n))
<1>1. RepliesTo(n) \in SUBSET talk /\ (RepliesTo(n) \in SUBSET talk)'
  BY DEF RepliesTo
<1>2. Cardinality(Numbers(RepliesTo(n))) = Cardinality(RepliesTo(n))
  BY <1>1, AsManyNumbers
<1>3. PICK S : S = RepliesTo(n)'
  OBVIOUS
<1>4. IsFiniteSet(S) /\ (\A c \in S : c.nr \in Int) /\ (\A c, d \in S : c.nr = d.nr => c = d)
  <2>1. S \subseteq talk' /\ IsFiniteSet(talk')
    BY <1>1, <1>3 DEF TalkSound
  <2>2. IsFiniteSet(S)
    BY <2>1, FS_Subset
  <2> QED BY <2>1, <2>2 DEF TalkSound
<1>5. Cardinality(Numbers(S)) = Cardinality(S)
  BY <1>4, NumbersAre
<1> QED BY <1>2, <1>3, <1>5

\* Others do not change what is under a comment.
LEMMA UtteredElsewhere ==
    ASSUME NEW p, NEW u, NEW by, Utters(p, u, by), NEW n, n # u
    PROVE  Cardinality(RepliesTo(n))' = Cardinality(RepliesTo(n))
<1>1. PICK d : d = [nr |-> uttered', post |-> p, under |-> u, by |-> by, liked |-> FALSE]
  OBVIOUS
<1>2. talk' = talk \cup {d} /\ d.under = u
  BY <1>1 DEF Utters
<1>3. RepliesTo(n)' = RepliesTo(n)
  BY <1>2 DEF RepliesTo
<1> QED BY <1>3

LEMMA RemovedElsewhere ==
    ASSUME NEW m, NEW u, Under(m, u), talk' = Without(m), NEW n, n # u, n # m
    PROVE  Cardinality(RepliesTo(n))' = Cardinality(RepliesTo(n))
<1>1. RepliesTo(n)' = RepliesTo(n)
  BY DEF RepliesTo, Without, Under
<1> QED BY <1>1

LEMMA HeartsElsewhere ==
    ASSUME ThreadTypes, TalkSound', NEW a \in inquiries, StoreHeart(a), NEW n
    PROVE  Cardinality(RepliesTo(n))' = Cardinality(RepliesTo(n))
<1>1. TalkSound /\ talk \subseteq Comment
  BY DEF ThreadTypes, TalkSound
<1>2. PICK c : c = {d \in talk : d.nr = a.id /\ d.liked # a.on}
  OBVIOUS
<1>3. PICK f : f = {[d EXCEPT !.liked = a.on] : d \in c}
  OBVIOUS
<1>4. talk' = (talk \ c) \cup f
  BY <1>2, <1>3 DEF StoreHeart
<1>5. \A e \in f : \E d \in c : e.nr = d.nr /\ e.under = d.under
  BY <1>1, <1>2, <1>3 DEF Comment
<1>6. ASSUME NEW d \in c PROVE \E e \in f : e.nr = d.nr /\ e.under = d.under
  <2>1. PICK e : e = [d EXCEPT !.liked = a.on]
    OBVIOUS
  <2>2. e \in f
    BY <1>3, <2>1
  <2>3. e.nr = d.nr /\ e.under = d.under
    BY <1>1, <1>2, <2>1 DEF Comment
  <2> QED BY <2>2, <2>3
<1>7. ASSUME NEW x \in Numbers(RepliesTo(n)) PROVE x \in Numbers(RepliesTo(n))'
  <2>1. PICK d \in talk : d.nr = x /\ d.under = n
    BY <1>7 DEF Numbers, RepliesTo
  <2>2. \E e \in talk' : e.nr = x /\ e.under = n
    BY <1>4, <1>6, <2>1
  <2> QED BY <2>2 DEF Numbers, RepliesTo
<1>8. ASSUME NEW x \in Numbers(RepliesTo(n))' PROVE x \in Numbers(RepliesTo(n))
  <2>1. PICK e \in talk' : e.nr = x /\ e.under = n
    BY <1>8 DEF Numbers, RepliesTo
  <2>2. \E d \in talk : d.nr = x /\ d.under = n
    BY <1>2, <1>4, <1>5, <2>1
  <2> QED BY <2>2 DEF Numbers, RepliesTo
<1>9. Numbers(RepliesTo(n))' = Numbers(RepliesTo(n))
  BY <1>7, <1>8
<1> QED BY <1>1, <1>9, RepliesSame

\* What was mixed stays so, and what is watched was watched.
LEMMA WatchedBefore ==
    ASSUME ThreadTypes, ThreadNext, NEW n \in 1..uttered, Watching(n)'
    PROVE  Watching(n)
<1>1. mixed \subseteq mixed'
  <2>1. ASSUME NEW c \in ToSet(listed), ToggleReplies(c) PROVE mixed \subseteq mixed'
    BY <2>1 DEF ToggleReplies
  <2>2. ASSUME NEW c \in ToSet(listed), WriteReply(c) PROVE mixed \subseteq mixed'
    BY <2>2 DEF WriteReply
  <2>3. ASSUME NEW a \in inquiries, WriteFails(a) \/ RemovalFails(a) PROVE mixed \subseteq mixed'
    BY <2>3 DEF WriteFails, RemovalFails
  <2> QED BY <2>1, <2>2, <2>3 DEF ThreadNext, threadAux, GoToPost, OthersSay, WriteComment,
     DeleteComment, ToggleHeart, OthersTakeBack, ReadPost, ReadComments, LoadDone, LoadFails,
     ReadReplies, RepliesDone, RepliesFail, StoreComment, CommentDone, ReplyDone, StoreRemoval,
     CommentRemoved, ReplyRemoved, StoreHeart, HeartFails, HeartAnswered
<1>2. ~InTalk(n) => ~InTalk(n)'
  BY TalkStep, UnderStays DEF ThreadTypes
<1> QED BY <1>1, <1>2 DEF Watching

\* What others do to the replies of a comment that is watched does not go unseen.
LEMMA OthersElsewhere ==
    ASSUME ThreadTypes, NEW n \in 1..uttered, Watching(n)',
           \/ \E p \in Discussed : \E u \in {Top} \cup {c.nr : c \in talk} : OthersSay(p, u)
           \/ \E c \in talk : OthersTakeBack(c)
    PROVE  Cardinality(RepliesTo(n))' = Cardinality(RepliesTo(n))
<1>1. n # Top /\ n \notin mixed' /\ InTalk(n)'
  BY DEF ThreadTypes, TalkSound, Watching, Top
<1>2. ASSUME NEW p, NEW u, OthersSay(p, u) PROVE Cardinality(RepliesTo(n))' = Cardinality(RepliesTo(n))
  <2>1. n # u /\ Utters(p, u, "other")
    BY <1>1, <1>2 DEF OthersSay
  <2> QED BY <2>1, UtteredElsewhere
<1>3. ASSUME NEW c \in talk, OthersTakeBack(c) PROVE Cardinality(RepliesTo(n))' = Cardinality(RepliesTo(n))
  <2>1. talk' = Without(c.nr) /\ n # c.under
    BY <1>1, <1>3 DEF OthersTakeBack
  <2>2. n # c.nr
    BY <1>1, <2>1 DEF InTalk, Without
  <2>3. Under(c.nr, c.under)
    BY DEF ThreadTypes, TalkSound, Under
  <2> QED BY <2>1, <2>2, <2>3, RemovedElsewhere
<1> QED BY <1>2, <1>3

LEMMA CommentElsewhere ==
    ASSUME NEW a \in inquiries, StoreComment(a), NEW n, n # a.id
    PROVE  Cardinality(RepliesTo(n))' = Cardinality(RepliesTo(n))
<1>1. Utters(a.post, a.id, "me")
  BY DEF StoreComment
<1>2. PICK u : u = a.id
  OBVIOUS
<1> QED BY <1>1, <1>2, UtteredElsewhere

LEMMA RemovalElsewhere ==
    ASSUME ThreadTypes, NEW a \in inquiries, StoreRemoval(a), NEW n, n # a.under, InTalk(n)'
    PROVE  Cardinality(RepliesTo(n))' = Cardinality(RepliesTo(n))
<1>1. Under(a.id, a.under) /\ talk' = Without(a.id)
  BY Kinds DEF ThreadTypes, StoreRemoval
<1>2. n # a.id
  BY <1>1 DEF InTalk, Without
<1> QED BY <1>1, <1>2, RemovedElsewhere

LEMMA CountWithLoad ==
    ASSUME ThreadTypes, ThreadNext, NEW n \in 1..uttered, Watching(n)',
           \E a \in inquiries : a.op = "load"
    PROVE  Cardinality(RepliesTo(n))' = Cardinality(RepliesTo(n))
<1>1. n \notin mixed' /\ InTalk(n)'
  BY DEF Watching
<1>2. CASE talk' = talk
  BY <1>2 DEF RepliesTo
<1>3. CASE \/ \E p \in Discussed : \E u \in {Top} \cup {c.nr : c \in talk} : OthersSay(p, u)
           \/ \E c \in talk : OthersTakeBack(c)
  BY <1>3, OthersElsewhere
<1>4. ASSUME NEW a \in inquiries, StoreComment(a) PROVE Cardinality(RepliesTo(n))' = Cardinality(RepliesTo(n))
  <2>1. n # a.id
    BY <1>1, <1>4 DEF StoreComment, MeetsLoad
  <2> QED BY <1>4, <2>1, CommentElsewhere
<1>5. ASSUME NEW a \in inquiries, StoreRemoval(a) PROVE Cardinality(RepliesTo(n))' = Cardinality(RepliesTo(n))
  <2>1. n # a.under
    BY <1>1, <1>5 DEF StoreRemoval, MeetsLoad
  <2> QED BY <1>1, <1>5, <2>1, RemovalElsewhere
<1>6. ASSUME NEW a \in inquiries, StoreHeart(a) PROVE Cardinality(RepliesTo(n))' = Cardinality(RepliesTo(n))
  BY <1>6, TypesStep, HeartsElsewhere DEF ThreadTypes
<1>7. \/ talk' = talk
      \/ \E p \in Discussed : \E u \in {Top} \cup {c.nr : c \in talk} : OthersSay(p, u)
      \/ \E c \in talk : OthersTakeBack(c)
      \/ \E a \in inquiries : StoreComment(a) \/ StoreRemoval(a) \/ StoreHeart(a)
  BY DEF ThreadNext, talkDb, GoToPost, WriteComment, ToggleReplies,
     WriteReply, DeleteComment, ToggleHeart, ReadPost, ReadComments, LoadDone, LoadFails,
     ReadReplies, RepliesDone, RepliesFail, CommentDone, ReplyDone, WriteFails,
     CommentRemoved, ReplyRemoved, RemovalFails, HeartFails, HeartAnswered
<1> QED BY <1>2, <1>3, <1>4, <1>5, <1>6, <1>7

\* A load becomes a load, with the list it had or a list that is right.
LEMMA LoadsGoOn ==
    ASSUME ThreadTypes, ThreadNext, NEW a \in inquiries', a.op = "load", "list" \notin a.at
    PROVE  \/ \E b \in inquiries : b.op = "load" /\ "list" \notin b.at /\ b.list = a.list
           \/ \E p : a.list = CommentsOf(p) /\ UNCHANGED <<talk, mixed>>
<1>1. CASE a \in inquiries
  BY <1>1
<1>2. CASE a \notin inquiries
  <2>1. ASSUME NEW b \in inquiries, ReadPost(b) \/ ReadComments(b)
        PROVE  \/ \E c \in inquiries : c.op = "load" /\ "list" \notin c.at /\ c.list = a.list
               \/ \E p : a.list = CommentsOf(p) /\ UNCHANGED <<talk, mixed>>
    <3>1. UNCHANGED <<talk, mixed>>
      BY <2>1 DEF ReadPost, ReadComments, talkDb, threadAux
    <3>2. /\ b.op = "load"
          /\ \/ a.list = b.list /\ a.at = b.at \ {"post"}
             \/ a.list = CommentsOf(b.post) /\ a.at = b.at \ {"list"}
      BY <1>2, <2>1, LoadGoesOn
    <3> QED BY <3>1, <3>2
  <2>2. ASSUME NEW b \in inquiries, ReadReplies(b) PROVE FALSE
    BY <1>2, <2>2, ReadingGoesOn
  <2>3. ASSUME NEW b \in inquiries, StoreComment(b) PROVE FALSE
    BY <1>2, <2>3, WritingGoesOn
  <2>4. ASSUME NEW b \in inquiries, StoreRemoval(b) PROVE FALSE
    BY <1>2, <2>4, RemovingGoesOn
  <2>5. ASSUME NEW b \in inquiries, StoreHeart(b) \/ HeartFails(b) PROVE FALSE
    <3>1. b.op = "heart" /\ \E s : Becoming(b, [b EXCEPT !.at = s])
      BY <2>5 DEF StoreHeart, HeartFails
    <3> QED BY <1>2, <3>1, HeartingGoesOn
  <2>6. ASSUME NEW p \in Discussed, GoToPost(p) PROVE FALSE
    BY <1>2, <2>6 DEF GoToPost
  <2>7. CASE WriteComment
    BY <1>2, <2>7 DEF WriteComment
  <2>8. ASSUME NEW c \in ToSet(listed), ToggleReplies(c) PROVE FALSE
    <3>1. a = [op |-> "replies", id |-> c.nr, nr |-> strokes', inst |-> threads[c.nr].inst,
               list |-> <<>>, at |-> "sent"]
      BY <1>2, <2>8 DEF ToggleReplies
    <3> QED BY <3>1
  <2>9. ASSUME NEW c \in ToSet(listed), WriteReply(c) PROVE FALSE
    BY <1>2, <2>9 DEF WriteReply
  <2>10. ASSUME NEW c \in Items(listed, threads), DeleteComment(c) PROVE FALSE
    BY <1>2, <2>10 DEF DeleteComment
  <2>11. ASSUME NEW n \in DOMAIN hearts, ToggleHeart(n) PROVE FALSE
    BY <1>2, <2>11 DEF ToggleHeart
  <2>12. ~(inquiries' \subseteq inquiries)
    BY <1>2
  <2>13. \/ inquiries' \subseteq inquiries
         \/ \E p \in Discussed : GoToPost(p)
         \/ WriteComment
         \/ \E c \in ToSet(listed) : ToggleReplies(c) \/ WriteReply(c)
         \/ \E c \in Items(listed, threads) : DeleteComment(c)
         \/ \E n \in DOMAIN hearts : ToggleHeart(n)
         \/ \E b \in inquiries : \/ ReadPost(b) \/ ReadComments(b) \/ ReadReplies(b) \/ StoreComment(b)
                                 \/ StoreRemoval(b) \/ StoreHeart(b) \/ HeartFails(b)
    BY DEF ThreadNext, OthersSay, OthersTakeBack, LoadDone, LoadFails, RepliesDone, RepliesFail, CommentDone,
       ReplyDone, WriteFails, CommentRemoved, ReplyRemoved, RemovalFails, HeartAnswered
  <2> QED BY <2>1, <2>2, <2>3, <2>4, <2>5, <2>6, <2>7, <2>8, <2>9, <2>10, <2>11, <2>12, <2>13
<1> QED BY <1>1, <1>2

LEMMA CountsStep ==
    ASSUME ThreadTypes, ThreadsKept, ThreadNext, NEW a \in inquiries', a.op = "load", "list" \notin a.at
    PROVE  CountsRight(a.list)'
<1>1. TalkSound /\ InquiriesSound
  BY DEF ThreadTypes
<1>2. PICK list : list = a.list
  OBVIOUS
<1>3. CASE \E b \in inquiries : b.op = "load" /\ "list" \notin b.at /\ b.list = list
  <2>1. PICK b \in inquiries : b.op = "load" /\ "list" \notin b.at /\ b.list = list
    BY <1>3
  <2>2. CountsRight(list) /\ AllUnder(list, Top)
    BY <1>1, <2>1, Kinds DEF ThreadsKept
  <2>3. ASSUME NEW k \in 1..Len(list), NEW n, n = list[k].nr, Watching(n)'
        PROVE  list[k].replies = Cardinality(RepliesTo(n))'
    <3>1. n \in 1..uttered
      BY <2>2, <2>3 DEF AllUnder, Under
    <3>2. Watching(n)
      BY <2>3, <3>1, WatchedBefore
    <3>3. list[k].replies = Cardinality(RepliesTo(n))
      BY <2>2, <2>3, <3>2 DEF CountsRight
    <3> QED BY <2>1, <2>3, <3>1, <3>3, CountWithLoad
  <2> QED BY <1>2, <2>3 DEF CountsRight
<1>4. CASE \E p : list = CommentsOf(p) /\ UNCHANGED <<talk, mixed>>
  <2>1. PICK p : list = CommentsOf(p) /\ UNCHANGED <<talk, mixed>>
    BY <1>4
  <2>2. \A k \in 1..Len(list) : list[k].replies = Cardinality(RepliesTo(list[k].nr))
    BY <1>1, <2>1, CommentsOfIs
  <2>3. \A n : Cardinality(RepliesTo(n))' = Cardinality(RepliesTo(n))
    BY <2>1 DEF RepliesTo
  <2>4. ASSUME NEW k \in 1..Len(list), NEW n, n = list[k].nr
        PROVE  list[k].replies = Cardinality(RepliesTo(n))'
    BY <2>2, <2>3, <2>4
  <2> QED BY <1>2, <2>4 DEF CountsRight
<1> QED BY <1>2, <1>3, <1>4, LoadsGoOn

-----------------------------------------------------------------------------
(* Threads: the rows *)

About(a, n) == Reads(a, n) \/ Replies(a, n) \/ Drops(a, n)

\* Nothing is asked of the thread of a comment that was only just made.
LEMMA MadeStep ==
    ASSUME ThreadTypes, PageKept, ThreadsKept, ThreadNext, ~wandered'
    PROVE  MadeAlone'
<1>1. /\ TalkSound /\ InquiriesSound /\ PageSound /\ uttered \in Nat
      /\ listed \in Seq(CommentRow) /\ AllUnder(listed, Top)
  BY PageFits DEF ThreadTypes, TalkSound
<1>2. ASSUME NEW a \in inquiries, NEW n, About(a, n) PROVE n \in 0..uttered
  BY <1>1, <1>2, Kinds DEF About, Reads, Replies, Drops
<1>3. ASSUME ~wandered
      PROVE  MadeAlone /\ PageHere
  BY <1>3 DEF ThreadsKept, PageKept
<1>4. ASSUME ~wandered, inquiries' \subseteq inquiries PROVE MadeAlone'
  BY <1>3, <1>4 DEF MadeAlone, Reads, Replies, Drops
<1>5. ASSUME ~wandered, NEW a \in inquiries, NEW b, inquiries' = (inquiries \ {a}) \cup {b},
             b.op = "comment" /\ b.made # 0 => a.op = "comment" /\ a.made = b.made,
             \A n : About(b, n) => About(a, n)
      PROVE  MadeAlone'
  BY <1>3, <1>5 DEF MadeAlone, About, Reads, Replies, Drops
<1>6. ASSUME ~wandered, NEW b, inquiries' \subseteq inquiries \cup {b},
             b.op = "comment" => b.made = 0,
             \A n : About(b, n) => n = 0 \/ n \in NrsOf(listed)
      PROVE  MadeAlone'
  <2>1. ASSUME NEW a \in inquiries', a.op = "comment", a.made # 0
        PROVE  a \in inquiries /\ a.made \notin NrsOf(listed) /\ ~About(b, a.made)
    BY <1>3, <1>6, <2>1 DEF PageHere
  <2> QED BY <1>3, <1>6, <2>1 DEF MadeAlone, About, Reads, Replies, Drops
<1>7. ASSUME NEW p \in Discussed, GoToPost(p) PROVE MadeAlone'
  <2>1. PICK b : b = [op |-> "load", id |-> strokes', post |-> p, count |-> -1, list |-> <<>>,
                      at |-> {"post", "list"}]
    OBVIOUS
  <2>2. inquiries' = {b}
    BY <1>7, <2>1 DEF GoToPost
  <2>3. b.op = "load"
    BY <2>1
  <2> QED BY <2>2, <2>3 DEF MadeAlone
<1>8. ASSUME NEW a \in inquiries, LoadDone(a) PROVE MadeAlone'
  <2>1. /\ a.op = "load" /\ inquiries' = inquiries \ {a}
        /\ wandered' = (wandered /\ (inquiries' # {} \/ a.post # address \/ Ready))
    BY <1>8 DEF LoadDone
  <2>2. inquiries' \subseteq inquiries /\ (wandered => inquiries' = {})
    BY <2>1
  <2>3. CASE wandered
    BY <2>2, <2>3 DEF MadeAlone
  <2> QED BY <1>4, <2>2, <2>3
<1>9. ASSUME NEW a \in inquiries, ReadPost(a) \/ ReadComments(a) PROVE MadeAlone'
  <2>1. ~wandered
    BY <1>9 DEF ReadPost, ReadComments, threadAux
  <2>2. PICK b : inquiries' = (inquiries \ {a}) \cup {b} /\ b.op = "load"
    BY <1>9, LoadGoesOn
  <2> QED BY <1>5, <2>1, <2>2 DEF About, Reads, Replies, Drops
<1>10. ASSUME NEW a \in inquiries, ReadReplies(a) PROVE MadeAlone'
  <2>1. ~wandered
    BY <1>10 DEF ReadReplies, threadAux
  <2>2. a.op = "replies"
    BY <1>10, ReadingGoesOn
  <2>3. PICK b : inquiries' = (inquiries \ {a}) \cup {b} /\ b.op = "replies" /\ b.id = a.id
    BY <1>10, ReadingGoesOn
  <2> QED BY <1>5, <2>1, <2>2, <2>3 DEF About, Reads, Replies, Drops
<1>11. ASSUME NEW a \in inquiries, StoreRemoval(a) PROVE MadeAlone'
  <2>1. ~wandered
    BY <1>11 DEF StoreRemoval
  <2>2. a.op = "delete"
    BY <1>11, RemovingGoesOn
  <2>3. PICK b : inquiries' = (inquiries \ {a}) \cup {b} /\ b.op = "delete" /\ b.under = a.under
    BY <1>11, RemovingGoesOn
  <2> QED BY <1>5, <2>1, <2>2, <2>3 DEF About, Reads, Replies, Drops
<1>12. ASSUME NEW a \in inquiries, StoreHeart(a) \/ HeartFails(a) PROVE MadeAlone'
  <2>1. ~wandered /\ a.op = "heart" /\ \E s : Becoming(a, [a EXCEPT !.at = s])
    <3>1. CASE StoreHeart(a)
      <4>1. wandered' = wandered /\ a.op = "heart"
        BY <3>1 DEF StoreHeart, threadAux
      <4>2. \E s : Becoming(a, [a EXCEPT !.at = s])
        BY <3>1 DEF StoreHeart
      <4> QED BY <4>1, <4>2
    <3>2. CASE HeartFails(a)
      <4>1. wandered' = wandered /\ a.op = "heart" /\ Becoming(a, [a EXCEPT !.at = "failed"])
        BY <3>2 DEF HeartFails
      <4> QED BY <4>1
    <3> QED BY <1>12, <3>1, <3>2
  <2>2. PICK b : inquiries' = (inquiries \ {a}) \cup {b} /\ b.op = "heart"
    BY <2>1, HeartingGoesOn
  <2> QED BY <1>5, <2>1, <2>2 DEF About, Reads, Replies, Drops
<1>13. ASSUME NEW a \in inquiries, StoreComment(a) PROVE MadeAlone'
  <2>1. ~wandered /\ a.made = 0
    BY <1>13 DEF StoreComment
  <2>2. PICK b :
            /\ inquiries' = (inquiries \ {a}) \cup {b}
            /\ b.op = a.op /\ b.id = a.id /\ b.made = uttered + 1
    BY <1>13, WritingGoesOn
  <2>3. \A c \in inquiries' : c = b \/ c \in inquiries
    BY <2>2
  <2>4. \A c \in inquiries' : \A n : About(c, n) => n \in 0..uttered
    <3>1. \A n : About(b, n) => About(a, n)
      BY <1>1, <2>2, WritingGoesOn, <1>13 DEF About, Reads, Replies, Drops
    <3> QED BY <1>2, <2>3, <3>1
  <2>5. ASSUME NEW c \in inquiries', c.op = "comment", c.made # 0, NEW d \in inquiries'
        PROVE  ~About(d, c.made)
    <3>1. CASE c = b
      <4>1. c.made = uttered + 1
        BY <2>2, <3>1
      <4>2. c.made \notin 0..uttered
        BY <1>1, <4>1
      <4> QED BY <2>4, <2>5, <4>2
    <3>2. CASE c \in inquiries /\ d = b
      <4>1. About(b, c.made) => About(a, c.made)
        BY <1>13, <2>2, WritingGoesOn DEF About, Reads, Replies, Drops
      <4>2. ~About(a, c.made)
        BY <1>3, <2>1, <2>5, <3>2 DEF MadeAlone, About
      <4> QED BY <3>2, <4>1, <4>2
    <3>3. CASE c \in inquiries /\ d \in inquiries
      BY <1>3, <2>1, <2>5, <3>3 DEF MadeAlone, About
    <3> QED BY <2>3, <2>5, <3>1, <3>2, <3>3
  <2> QED BY <2>5 DEF MadeAlone, About, Reads, Replies, Drops
<1>14. CASE WriteComment
  <2>1. PICK b : b = [op |-> "comment", id |-> Top, nr |-> strokes', post |-> address, inst |-> 0, made |-> 0]
    OBVIOUS
  <2>2. ~wandered /\ inquiries' \subseteq inquiries \cup {b} /\ b.op = "comment" /\ b.made = 0
    BY <1>14, <2>1 DEF WriteComment, threadAux
  <2> QED BY <1>6, <2>2 DEF About, Reads, Replies, Drops
<1>15. ASSUME NEW c \in ToSet(listed), ToggleReplies(c) \/ WriteReply(c) PROVE MadeAlone'
  <2>1. ~wandered /\ c.nr \in NrsOf(listed)
    <3>1. wandered' = wandered
      <4>1. CASE ToggleReplies(c)
        BY <4>1 DEF ToggleReplies
      <4>2. CASE WriteReply(c)
        BY <4>2 DEF WriteReply
      <4> QED BY <1>15, <4>1, <4>2
    <3>2. c.nr \in NrsOf(listed)
      BY <1>1, <1>15, RowsIn DEF NrsOf
    <3> QED BY <3>1, <3>2
  <2>2. PICK b : /\ inquiries' \subseteq inquiries \cup {b} /\ b.op \in {"replies", "reply"} /\ b.id = c.nr
    <3>1. CASE ToggleReplies(c)
      <4>1. PICK b : b = [op |-> "replies", id |-> c.nr, nr |-> strokes', inst |-> threads[c.nr].inst,
                          list |-> <<>>, at |-> "sent"]
        OBVIOUS
      <4>2. inquiries' \subseteq inquiries \cup {b}
        BY <3>1, <4>1 DEF ToggleReplies
      <4> QED BY <4>1, <4>2
    <3>2. CASE WriteReply(c)
      <4>1. PICK b : b = [op |-> "reply", id |-> c.nr, nr |-> strokes', post |-> c.post,
                          inst |-> threads[c.nr].inst, made |-> 0]
        OBVIOUS
      <4>2. inquiries' = inquiries \cup {b}
        BY <3>2, <4>1 DEF WriteReply
      <4> QED BY <4>1, <4>2
    <3> QED BY <1>15, <3>1, <3>2
  <2> QED BY <1>6, <2>1, <2>2 DEF About, Reads, Replies, Drops
<1>16. ASSUME NEW c \in Items(listed, threads), DeleteComment(c) PROVE MadeAlone'
  <2>1. ~wandered /\ Ready
    BY <1>16 DEF DeleteComment, threadAux
  <2>2. c.under = Top \/ c.under \in NrsOf(listed)
    BY <1>1, <1>16, <2>1, PageFits, ItemsAre DEF PageSound
  <2>3. PICK b : b = [op |-> "delete", id |-> c.nr, under |-> c.under, inst |-> hearts[c.nr].inst,
                      of |-> IF c.under = Top THEN 0 ELSE threads[c.under].inst, at |-> "sent"]
    OBVIOUS
  <2>4. inquiries' \subseteq inquiries \cup {b} /\ b.op = "delete" /\ b.under = c.under
    BY <1>16, <2>3 DEF DeleteComment
  <2> QED BY <1>6, <2>1, <2>2, <2>4 DEF About, Reads, Replies, Drops, Top
<1>17. ASSUME NEW n \in DOMAIN hearts, ToggleHeart(n) PROVE MadeAlone'
  <2>1. PICK b : b = [op |-> "heart", id |-> n, inst |-> hearts[n].inst, on |-> ~hearts[n].liked, at |-> "sent"]
    OBVIOUS
  <2>2. ~wandered /\ inquiries' \subseteq inquiries \cup {b} /\ b.op = "heart"
    BY <1>17, <2>1 DEF ToggleHeart, threadAux
  <2> QED BY <1>6, <2>2 DEF About, Reads, Replies, Drops
<1>18. CASE \/ \E p \in Discussed : \E n \in {Top} \cup {c.nr : c \in talk} : OthersSay(p, n)
            \/ \E c \in talk : OthersTakeBack(c)
            \/ \E a \in inquiries : \/ LoadFails(a) \/ RepliesDone(a) \/ RepliesFail(a) \/ CommentDone(a)
                                    \/ ReplyDone(a) \/ WriteFails(a) \/ CommentRemoved(a) \/ ReplyRemoved(a)
                                    \/ RemovalFails(a) \/ HeartAnswered(a)
  <2>1. wandered' = wandered /\ inquiries' \subseteq inquiries
    BY <1>18 DEF OthersSay, OthersTakeBack, LoadFails, RepliesDone, RepliesFail, CommentDone, ReplyDone,
       WriteFails, CommentRemoved, ReplyRemoved, RemovalFails, HeartAnswered, threadAux
  <2> QED BY <1>4, <2>1
<1> QED BY <1>7, <1>8, <1>9, <1>10, <1>11, <1>12, <1>13, <1>14, <1>15, <1>16, <1>17, <1>18 DEF ThreadNext

\* A row whose thread and requests are as they were is kept.
LEMMA RowGoesOn ==
    ASSUME ThreadTypes, TalkGoes, NEW c, NEW d, NEW th, NEW n, RowKept(c, th),
           c.nr = n, d.nr = n, d.replies = c.replies,
           \A a \in inquiries' : About(a, n) => a \in inquiries,
           Unread(c, th) => Cardinality(RepliesTo(n))' = Cardinality(RepliesTo(n))
    PROVE  RowKept(d, th)'
<1>1. TalkSound /\ InquiriesSound
  BY DEF ThreadTypes
<1>2. CASE Settled(c, th)
  <2>1. d.replies = Len(th.replies) /\ OnceEach(th.replies)
    BY <1>2 DEF Settled
  <2>2. ASSUME NEW a \in inquiries'
        PROVE  /\ ~Reads(a, n)
               /\ Replies(a, n) => a.inst = th.inst /\ (a.made # 0 => a.made \notin NrsOf(th.replies))
               /\ Drops(a, n) => a.of = th.inst
    BY <1>2 DEF Settled, About
  <2>3. ASSUME NEW a \in inquiries', Drops(a, n), a.id \notin NrsOf(th.replies)
        PROVE  a.at = "sent" /\ ~InTalk(a.id)'
    <3>1. a \in inquiries /\ a.at = "sent" /\ ~InTalk(a.id)
      BY <1>2, <2>3 DEF Settled, About
    <3>2. PICK m : m = a.id
      OBVIOUS
    <3>3. m \in 1..uttered
      BY <1>1, <2>3, <3>1, <3>2, Kinds DEF Drops, Under
    <3>4. ~InTalk(m)'
      BY <1>1, <3>1, <3>2, <3>3, UnderStays
    <3> QED BY <3>1, <3>2, <3>4
  <2> QED BY <2>1, <2>2, <2>3 DEF RowKept, Settled, OnceEach, NrsOf, Reads, Replies, Drops
<1>3. CASE Unread(c, th)
  <2>1. /\ th.replies = <<>> /\ d.replies > 0 /\ d.replies = Cardinality(RepliesTo(n))'
        /\ th.open => th.loading
    BY <1>3 DEF Unread
  <2>2. ASSUME NEW a \in inquiries'
        PROVE  /\ ~Replies(a, n) /\ ~Drops(a, n)
               /\ Reads(a, n) =>
                      /\ th.loading /\ a.inst = th.inst
                      /\ a.at = "read" => OnceEach(a.list) /\ Len(a.list) = d.replies
                      /\ \A b \in inquiries' : Reads(b, n) => b = a
    BY <1>3 DEF Unread, About
  <2> QED BY <2>1, <2>2 DEF RowKept, Unread, OnceEach, Reads, Replies, Drops
<1> QED BY <1>2, <1>3 DEF RowKept

LEMMA RowBefore ==
    ASSUME ThreadTypes, PageKept, ThreadsKept, ThreadNext, ~wandered, Ready,
           NEW j \in 1..Len(listed), NEW n, n = listed[j].nr, Watching(n)'
    PROVE  /\ RowKept(listed[j], threads[n]) /\ n \in 1..uttered /\ n # Top /\ n \in DOMAIN threads
           /\ threads[n] \in ThreadState /\ AllUnder(threads[n].replies, n)
           /\ listed[j] \in CommentRow
           /\ \A i \in 1..Len(listed) : listed[i].nr = n => i = j
<1>1. /\ listed \in Seq(CommentRow) /\ AllUnder(listed, Top) /\ ThreadsFit(threads)
      /\ DOMAIN threads = NrsOf(listed)
  BY PageFits DEF ThreadTypes, PageSound
<1>2. n \in 1..uttered /\ n # Top
  BY <1>1 DEF AllUnder, Under, Top, ThreadTypes, TalkSound
<1>3. n \in DOMAIN threads
  BY <1>1 DEF NrsOf
<1>4. Watching(n)
  BY <1>2, WatchedBefore
<1>5. RowKept(listed[j], threads[n])
  BY <1>4 DEF ThreadsKept, RowsKept
<1>6. listed[j] \in CommentRow
  BY <1>1, RowsIn
<1>7. \A i \in 1..Len(listed) : listed[i].nr = n => i = j
  BY DEF PageKept, PageHere, ListHere, OnceEach
<1> QED BY <1>1, <1>2, <1>3, <1>5, <1>6, <1>7 DEF ThreadsFit

LEMMA RowStays ==
    ASSUME ThreadTypes, PageKept, ThreadsKept, ThreadNext, ~wandered, Ready,
           NEW j \in 1..Len(listed), NEW n, n = listed[j].nr, Watching(n)',
           NEW d, d.nr = n, d.replies = listed[j].replies, threads'[n] = threads[n],
           \A a \in inquiries' : About(a, n) => a \in inquiries,
           Cardinality(RepliesTo(n))' = Cardinality(RepliesTo(n))
    PROVE  \A th : th = threads'[n] => RowKept(d, th)'
<1>1. RowKept(listed[j], threads[n])
  BY RowBefore
<1>2. TalkGoes
  BY TalkStep
<1>3. PICK c : c = listed[j]
  OBVIOUS
<1>4. PICK th : th = threads[n]
  OBVIOUS
<1>5. RowKept(c, th) /\ c.nr = n /\ d.replies = c.replies
  BY <1>1, <1>3, <1>4
<1>6. RowKept(d, th)'
  BY <1>2, <1>5, RowGoesOn
<1> QED BY <1>4, <1>6

LEMMA RowByRow ==
    ASSUME \A k \in 1..Len(listed') : \A n, d, th :
               n = listed'[k].nr /\ d = listed'[k] /\ th = threads'[n] /\ Watching(n)' => RowKept(d, th)'
    PROVE  RowsKept'
<1>1. ASSUME NEW k \in 1..Len(listed'), Watching(listed[k].nr)' PROVE RowKept(listed[k], threads[listed[k].nr])'
  <2>1. PICK n, d, th : n = listed'[k].nr /\ d = listed'[k] /\ th = threads'[n]
    OBVIOUS
  <2>2. Watching(n)'
    BY <1>1, <2>1
  <2>3. RowKept(d, th)'
    BY <2>1, <2>2
  <2> QED BY <2>1, <2>3
<1> QED BY <1>1 DEF RowsKept

\* No row changes, though some may go.
LEMMA RowsStay ==
    ASSUME ThreadTypes, PageKept, ThreadsKept, ThreadNext, ~wandered, Ready,
           \A k \in 1..Len(listed') : \E j \in 1..Len(listed) : listed'[k] = listed[j],
           \A k \in 1..Len(listed') : threads'[listed'[k].nr] = threads[listed'[k].nr],
           \A n \in 1..uttered : \A a \in inquiries' : About(a, n) => a \in inquiries,
           \A n \in 1..uttered : Watching(n)' => Cardinality(RepliesTo(n))' = Cardinality(RepliesTo(n))
    PROVE  RowsKept'
<1>1. ASSUME NEW k \in 1..Len(listed'), NEW n, NEW d, NEW th,
             n = listed'[k].nr, d = listed'[k], th = threads'[n], Watching(n)'
      PROVE  RowKept(d, th)'
  <2>1. PICK j \in 1..Len(listed) : d = listed[j]
    BY <1>1
  <2>2. n = listed[j].nr /\ d.nr = n /\ d.replies = listed[j].replies /\ threads'[n] = threads[n]
    BY <1>1, <2>1
  <2>3. n \in 1..uttered
    BY <1>1, <2>2, RowBefore
  <2> QED BY <1>1, <2>2, <2>3, RowStays
<1> QED BY <1>1, RowByRow

\* What is not about a thread.
LEMMA QuietRows ==
    ASSUME ThreadTypes, PageKept, ThreadsKept, ThreadNext, ~wandered, Ready,
           \/ WriteComment
           \/ \E p \in Discussed : \E n \in {Top} \cup {c.nr : c \in talk} : OthersSay(p, n)
           \/ \E c \in talk : OthersTakeBack(c)
           \/ \E n \in DOMAIN hearts : ToggleHeart(n)
           \/ \E a \in inquiries : WriteFails(a) \/ RemovalFails(a) \/ StoreHeart(a) \/ HeartFails(a)
                                   \/ HeartAnswered(a)
    PROVE  RowsKept'
<1>1. UNCHANGED <<listed, threads>>
  BY DEF WriteComment, OthersSay, OthersTakeBack, ToggleHeart, WriteFails, RemovalFails, StoreHeart, HeartFails,
     HeartAnswered, postPage, mounted
<1>2. ASSUME NEW n \in 1..uttered, NEW a \in inquiries', About(a, n) PROVE a \in inquiries
  <2>1. CASE inquiries' \subseteq inquiries
    BY <2>1
  <2>2. ASSUME NEW b, inquiries' \subseteq inquiries \cup {b}, b.op \in {"comment", "heart"} PROVE a \in inquiries
    BY <1>2, <2>2 DEF About, Reads, Replies, Drops
  <2>3. CASE WriteComment
    <3>1. PICK b : b = [op |-> "comment", id |-> Top, nr |-> strokes', post |-> address, inst |-> 0, made |-> 0]
      OBVIOUS
    <3>2. inquiries' \subseteq inquiries \cup {b} /\ b.op = "comment"
      BY <2>3, <3>1 DEF WriteComment
    <3> QED BY <2>2, <3>2
  <2>4. ASSUME NEW m \in DOMAIN hearts, ToggleHeart(m) PROVE a \in inquiries
    <3>1. PICK b : b = [op |-> "heart", id |-> m, inst |-> hearts[m].inst, on |-> ~hearts[m].liked, at |-> "sent"]
      OBVIOUS
    <3>2. inquiries' \subseteq inquiries \cup {b} /\ b.op = "heart"
      BY <2>4, <3>1 DEF ToggleHeart
    <3> QED BY <2>2, <3>2
  <2>5. ASSUME NEW e \in inquiries, StoreHeart(e) \/ HeartFails(e) PROVE a \in inquiries
    <3>1. e.op = "heart" /\ \E s : Becoming(e, [e EXCEPT !.at = s])
      BY <2>5 DEF StoreHeart, HeartFails
    <3>2. PICK b : inquiries' = (inquiries \ {e}) \cup {b} /\ b.op = "heart"
      BY <3>1, HeartingGoesOn
    <3> QED BY <2>2, <3>2
  <2>6. \/ inquiries' \subseteq inquiries
        \/ WriteComment
        \/ \E m \in DOMAIN hearts : ToggleHeart(m)
        \/ \E e \in inquiries : StoreHeart(e) \/ HeartFails(e)
    BY DEF OthersSay, OthersTakeBack, WriteFails, RemovalFails, HeartAnswered
  <2> QED BY <2>1, <2>3, <2>4, <2>5, <2>6
<1>3. ASSUME NEW n \in 1..uttered, Watching(n)'
      PROVE  Cardinality(RepliesTo(n))' = Cardinality(RepliesTo(n))
  <2>1. CASE talk' = talk
    BY <2>1 DEF RepliesTo
  <2>2. CASE \/ \E p \in Discussed : \E u \in {Top} \cup {c.nr : c \in talk} : OthersSay(p, u)
             \/ \E c \in talk : OthersTakeBack(c)
    BY <1>3, <2>2, OthersElsewhere
  <2>3. ASSUME NEW a \in inquiries, StoreHeart(a) PROVE Cardinality(RepliesTo(n))' = Cardinality(RepliesTo(n))
    BY <2>3, TypesStep, HeartsElsewhere DEF ThreadTypes
  <2>4. \/ talk' = talk
        \/ \E p \in Discussed : \E u \in {Top} \cup {c.nr : c \in talk} : OthersSay(p, u)
        \/ \E c \in talk : OthersTakeBack(c)
        \/ \E a \in inquiries : StoreHeart(a)
    BY DEF WriteComment, ToggleHeart, WriteFails, RemovalFails, HeartFails, HeartAnswered, talkDb
  <2> QED BY <2>1, <2>2, <2>3, <2>4
<1>4. \A k \in 1..Len(listed') : \E j \in 1..Len(listed) : listed'[k] = listed[j]
  BY <1>1
<1>5. \A k \in 1..Len(listed') : threads'[listed'[k].nr] = threads[listed'[k].nr]
  BY <1>1
<1> QED BY <1>2, <1>3, <1>4, <1>5, RowsStay

\* The rows of a page mounted anew, as far as its threads go on.
LEMMA MountedRows ==
    ASSUME ThreadTypes, Ready, NEW list, NEW ths, Mounted(TRUE, list, ths) \/ Mounted(Ready, list, ths),
           DOMAIN ths = DOMAIN threads
    PROVE  /\ listed' = list /\ DOMAIN threads = NrsOf(listed)
           /\ \A n \in NrsOf(list) : threads'[n] = IF n \in NrsOf(listed) THEN ths[n] ELSE NewThread(mounts + 1)
<1>1. PageSound /\ HeartsFit(hearts) /\ DOMAIN threads = NrsOf(listed)
  BY PageFits DEF ThreadTypes, PageSound
<1>2. PICK on \in BOOLEAN : on = TRUE
  OBVIOUS
<1>3. Mounts(on, list, ths, hearts) /\ list \in Seq(CommentRow) /\ AllUnder(list, Top) /\ ThreadsFit(ths)
  <2>1. CASE Mounted(TRUE, list, ths)
    BY <1>2, <2>1 DEF Mounted
  <2>2. CASE Mounted(Ready, list, ths)
    <3>1. Ready = on
      BY <1>2 DEF Ready
    <3> QED BY <2>2, <3>1 DEF Mounted
  <2> QED BY <2>1, <2>2
<1>4. /\ listed' = list
      /\ DOMAIN threads' = IF on THEN NrsOf(list) ELSE {}
      /\ \A n \in DOMAIN threads' :
             threads'[n] = IF n \in DOMAIN ths THEN ths[n] ELSE NewThread(mounts + 1)
  BY <1>1, <1>3, MountsIs
<1> QED BY <1>1, <1>2, <1>4

LEMMA ToggleRows ==
    ASSUME ThreadTypes, PageKept, ThreadsKept, ThreadNext, ~wandered, Ready,
           NEW c \in ToSet(listed), c.nr \in DOMAIN threads, ToggleReplies(c)
    PROVE  RowsKept'
<1>1. PICK ths, th :
          /\ Mounted(TRUE, listed, ths) /\ OnlyThread(ths, c.nr, th)
          /\ th \in ThreadState
          /\ th.replies = threads[c.nr].replies /\ th.inst = threads[c.nr].inst
          /\ th.open = ~threads[c.nr].open
          /\ IF threads[c.nr].open THEN th.loading = threads[c.nr].loading
             ELSE th.loading = (threads[c.nr].loading \/ threads[c.nr].replies = <<>>)
  BY ToggleIs
<1>2. /\ listed' = listed /\ \A n \in NrsOf(listed) : threads'[n] = ths[n]
  BY <1>1, MountedRows DEF OnlyThread
<1>3. PICK j \in 1..Len(listed) : c = listed[j]
  BY PageFits, RowsIn DEF ThreadTypes
<1>4. PICK b : b = [op |-> "replies", id |-> c.nr, nr |-> strokes', inst |-> threads[c.nr].inst,
                    list |-> <<>>, at |-> "sent"]
  OBVIOUS
<1>5. /\ talk' = talk /\ c.replies > 0
      /\ IF ~threads[c.nr].open /\ threads[c.nr].replies = <<>>
         THEN /\ inquiries' = inquiries \cup {b}
              /\ mixed' = IF \E a \in inquiries : a.op \in {"replies", "reply"} /\ a.id = c.nr
                          THEN mixed \cup {c.nr} ELSE mixed
         ELSE inquiries' = inquiries
  BY <1>4 DEF ToggleReplies, talkDb
<1>6. \A n : Cardinality(RepliesTo(n))' = Cardinality(RepliesTo(n))
  BY <1>5 DEF RepliesTo
<1>7. ASSUME NEW k \in 1..Len(listed'), NEW n, NEW d, NEW t,
             n = listed'[k].nr, d = listed'[k], t = threads'[n], Watching(n)'
      PROVE  RowKept(d, t)'
  <2>1. k \in 1..Len(listed) /\ d = listed[k] /\ d.nr = n /\ t = ths[n] /\ n \in NrsOf(listed)
    BY <1>2, <1>7 DEF NrsOf
  <2>2. /\ RowKept(listed[k], threads[n]) /\ n \in DOMAIN threads
        /\ \A i \in 1..Len(listed) : listed[i].nr = n => i = k
    BY <1>7, <2>1, RowBefore
  <2>3. CASE n # c.nr
    <3>1. threads'[n] = threads[n]
      BY <1>1, <1>7, <2>1, <2>2, <2>3 DEF OnlyThread
    <3>2. \A a \in inquiries' : About(a, n) => a \in inquiries
      BY <1>4, <1>5, <2>3 DEF About, Reads, Replies, Drops
    <3> QED BY <1>6, <1>7, <2>1, <3>1, <3>2, RowStays
  <2>4. CASE n = c.nr
    <3>1. d = c /\ t = th
      BY <1>1, <1>3, <2>1, <2>2, <2>4 DEF OnlyThread
    <3>2. PICK old : old = threads[n]
      OBVIOUS
    <3>3. /\ t.replies = old.replies /\ t.inst = old.inst /\ t.open = ~old.open
          /\ IF old.open THEN t.loading = old.loading
             ELSE t.loading = (old.loading \/ old.replies = <<>>)
      BY <1>1, <2>4, <3>1, <3>2
    <3>4. CASE Settled(d, old)
      <4>1. old.replies # <<>>
        <5>1. Len(<<>>) = 0
          OBVIOUS
        <5> QED BY <1>5, <3>1, <3>4, <5>1 DEF Settled
      <4>2. inquiries' = inquiries
        BY <1>5, <2>4, <3>2, <4>1
      <4>3. Settled(d, t)'
        BY <1>5, <3>3, <3>4, <4>2 DEF Settled, OnceEach, NrsOf, InTalk, Reads, Replies, Drops
      <4> QED BY <4>3 DEF RowKept
    <3>5. CASE Unread(d, old)
      <4>1. /\ old.replies = <<>> /\ d.replies > 0 /\ d.replies = Cardinality(RepliesTo(n))
            /\ old.open => old.loading
            /\ \A a \in inquiries :
                   /\ ~Replies(a, n) /\ ~Drops(a, n)
                   /\ Reads(a, n) =>
                          /\ old.loading /\ a.inst = old.inst
                          /\ a.at = "read" => OnceEach(a.list) /\ Len(a.list) = d.replies
                          /\ \A e \in inquiries : Reads(e, n) => e = a
        BY <2>1, <3>5 DEF Unread
      <4>2. /\ t.replies = <<>> /\ (t.open => t.loading)
            /\ d.replies = Cardinality(RepliesTo(n))'
        BY <1>6, <3>3, <4>1
      <4>3. old.loading => t.loading
        BY <3>3
      <4>4. CASE old.open
        <5>1. inquiries' = inquiries
          BY <1>5, <2>4, <3>2, <4>4
        <5>2. Unread(d, t)'
          BY <2>1, <3>3, <4>1, <4>2, <4>3, <5>1 DEF Unread, OnceEach, Reads, Replies, Drops
        <5> QED BY <5>2 DEF RowKept
      <4>5. CASE ~old.open
        <5>1. /\ inquiries' = inquiries \cup {b} /\ \A a \in inquiries : ~Reads(a, n)
          BY <1>5, <1>7, <2>4, <3>2, <4>1, <4>5 DEF Watching, Reads
        <5>2. t.loading
          BY <3>3, <4>1, <4>5
        <5>3. b.op = "replies" /\ b.at = "sent" /\ b.inst = t.inst
          BY <1>4, <2>4, <3>2, <3>3
        <5>4. ASSUME NEW a \in inquiries'
              PROVE  /\ ~Replies(a, n) /\ ~Drops(a, n)
                     /\ Reads(a, n) => a = b
          BY <4>1, <5>1, <5>3 DEF Reads, Replies, Drops
        <5>5. Unread(d, t)'
          BY <2>1, <4>1, <4>2, <5>2, <5>3, <5>4 DEF Unread, OnceEach, Reads, Replies, Drops
        <5> QED BY <5>5 DEF RowKept
      <4> QED BY <4>4, <4>5
    <3> QED BY <2>1, <2>2, <3>2, <3>4, <3>5 DEF RowKept
  <2> QED BY <2>3, <2>4
<1> QED BY <1>7, RowByRow

\* The rows of the other comments stay as they were.
OthersStay(m) ==
    /\ \A k \in 1..Len(listed') : \E j \in 1..Len(listed) :
           /\ listed'[k].nr = listed[j].nr
           /\ listed[j].nr # m => listed'[k].replies = listed[j].replies
    /\ \A n \in NrsOf(listed) \ {m} : threads'[n] = threads[n]
    /\ \A n \in 1..uttered : \A a \in inquiries' : n # m /\ About(a, n) => a \in inquiries
    /\ \A n \in 1..uttered : n # m /\ Watching(n)' => Cardinality(RepliesTo(n))' = Cardinality(RepliesTo(n))
ItsRowKept(m) ==
    \A k \in 1..Len(listed') : \A d, th :
        d = listed'[k] /\ d.nr = m /\ th = threads'[m] /\ Watching(m)' => RowKept(d, th)'

LEMMA OneRow ==
    ASSUME ThreadTypes, PageKept, ThreadsKept, ThreadNext, ~wandered, Ready,
           NEW m, OthersStay(m), ItsRowKept(m)
    PROVE  RowsKept'
<1>1. ASSUME NEW k \in 1..Len(listed'), NEW n, NEW d, NEW th,
             n = listed'[k].nr, d = listed'[k], th = threads'[n], Watching(n)'
      PROVE  RowKept(d, th)'
  <2>1. CASE n = m
    <3>1. d = listed'[k] /\ d.nr = m /\ th = threads'[m] /\ Watching(m)'
      BY <1>1, <2>1
    <3> QED BY <3>1 DEF ItsRowKept
  <2>2. CASE n # m
    <3>1. PICK j \in 1..Len(listed) : listed'[k].nr = listed[j].nr /\ listed'[k].replies = listed[j].replies
      BY <1>1, <2>2 DEF OthersStay
    <3>2. n \in 1..uttered
      BY <1>1, <3>1, RowBefore
    <3>3. n \in NrsOf(listed)
      BY <1>1, <3>1 DEF NrsOf
    <3>4. n = listed[j].nr /\ d.nr = n /\ d.replies = listed[j].replies /\ threads'[n] = threads[n]
      BY <1>1, <2>2, <3>1, <3>3 DEF OthersStay
    <3>5. \A a \in inquiries' : About(a, n) => a \in inquiries
      BY <2>2, <3>2 DEF OthersStay
    <3>6. Cardinality(RepliesTo(n))' = Cardinality(RepliesTo(n))
      BY <1>1, <2>2, <3>2 DEF OthersStay
    <3> QED BY <1>1, <3>4, <3>5, <3>6, RowStays
  <2> QED BY <2>1, <2>2
<1> QED BY <1>1, RowByRow

\* The row of a comment that is watched, as it was.
LEMMA TheRow ==
    ASSUME ThreadTypes, PageKept, ThreadsKept, ThreadNext, ~wandered, Ready,
           listed' = listed, NEW k \in 1..Len(listed'), NEW d, d = listed'[k], NEW m, d.nr = m, Watching(m)'
    PROVE  \E old \in ThreadState :
               /\ m \in DOMAIN threads /\ old = threads[m] /\ RowKept(d, old) /\ AllUnder(old.replies, m)
               /\ d \in CommentRow /\ m \in 1..uttered
<1>1. k \in 1..Len(listed) /\ m = listed[k].nr /\ d = listed[k]
  OBVIOUS
<1> QED BY <1>1, RowBefore

LEMMA ReadRows ==
    ASSUME ThreadTypes, PageKept, ThreadsKept, ThreadNext, ~wandered, Ready,
           NEW a \in inquiries, ReadReplies(a)
    PROVE  RowsKept'
<1>1. PICK m : m = a.id
  OBVIOUS
<1>2. /\ UNCHANGED <<listed, threads>> /\ talk' = talk /\ a.op = "replies" /\ a.at = "sent"
  BY DEF ReadReplies, postPage, mounted, talkDb
<1>3. PICK b :
          /\ inquiries' = (inquiries \ {a}) \cup {b}
          /\ b.op = "replies" /\ b.id = m /\ b.inst = a.inst
          /\ b.list = RepliesOf(m) /\ b.at = "read"
  BY <1>1, ReadingGoesOn
<1>4. \A n : Cardinality(RepliesTo(n))' = Cardinality(RepliesTo(n))
  BY <1>2 DEF RepliesTo
<1>5. ASSUME NEW k \in 1..Len(listed'), NEW d, NEW th,
             d = listed'[k], d.nr = m, th = threads'[m], Watching(m)'
      PROVE  RowKept(d, th)'
  <2>1. RowKept(d, th)
    BY <1>2, <1>5, TheRow
  <2>2. Reads(a, m)
    BY <1>1, <1>2 DEF Reads
  <2>3. /\ th.replies = <<>> /\ d.replies > 0 /\ d.replies = Cardinality(RepliesTo(m))
        /\ th.open => th.loading
        /\ th.loading /\ a.inst = th.inst
        /\ \A e \in inquiries : ~Replies(e, m) /\ ~Drops(e, m) /\ (Reads(e, m) => e = a)
    BY <1>5, <2>1, <2>2 DEF RowKept, Settled, Unread
  <2>4. OnceEach(b.list) /\ Len(b.list) = d.replies
    BY <1>3, <2>3, RepliesOfIs DEF ThreadTypes
  <2>5. \A e \in inquiries' : ~Replies(e, m) /\ ~Drops(e, m) /\ (Reads(e, m) => e = b)
    BY <1>3, <2>3 DEF Reads, Replies, Drops
  <2>6. Unread(d, th)'
    BY <1>3, <1>4, <1>5, <2>3, <2>4, <2>5 DEF Unread, OnceEach, Reads, Replies, Drops
  <2> QED BY <2>6 DEF RowKept
<1>6. \A n \in 1..uttered : \A e \in inquiries' : n # m /\ About(e, n) => e \in inquiries
  BY <1>3 DEF About, Reads, Replies, Drops
<1>7. /\ \A k \in 1..Len(listed') : \E j \in 1..Len(listed) :
             listed'[k].nr = listed[j].nr /\ (listed[j].nr # m => listed'[k].replies = listed[j].replies)
      /\ \A n \in NrsOf(listed) \ {m} : threads'[n] = threads[n]
  BY <1>2
<1>8. OthersStay(m)
  BY <1>4, <1>6, <1>7 DEF OthersStay
<1>9. ItsRowKept(m)
  BY <1>5 DEF ItsRowKept
<1> QED BY <1>8, <1>9, OneRow

LEMMA ReadRowsFail ==
    ASSUME ThreadTypes, PageKept, ThreadsKept, ThreadNext, ~wandered, Ready,
           NEW a \in inquiries, RepliesFail(a)
    PROVE  RowsKept'
<1>1. PICK m : m = a.id
  OBVIOUS
<1>2. /\ listed' = listed /\ talk' = talk /\ inquiries' \subseteq inquiries /\ m \in mixed'
      /\ threads' = threads \/ threads' = [threads EXCEPT ![m].loading = FALSE]
  BY <1>1 DEF RepliesFail, postPage, talkDb
<1>3. \A n : Cardinality(RepliesTo(n))' = Cardinality(RepliesTo(n))
  BY <1>2 DEF RepliesTo
<1>4. DOMAIN threads = NrsOf(listed)
  BY DEF ThreadTypes, PageSound
<1>5. \A n \in NrsOf(listed) \ {m} : threads'[n] = threads[n]
  BY <1>2, <1>4
<1>6. ~Watching(m)'
  BY <1>2 DEF Watching
<1>7. \A k \in 1..Len(listed') : \E j \in 1..Len(listed) :
          listed'[k].nr = listed[j].nr /\ (listed[j].nr # m => listed'[k].replies = listed[j].replies)
  BY <1>2
<1>8. OthersStay(m)
  BY <1>2, <1>3, <1>5, <1>7 DEF OthersStay
<1>9. ItsRowKept(m)
  BY <1>6 DEF ItsRowKept
<1> QED BY <1>8, <1>9, OneRow

LEMMA ReadRowsDone ==
    ASSUME ThreadTypes, PageKept, ThreadsKept, ThreadNext, ~wandered, Ready,
           NEW a \in inquiries, RepliesDone(a)
    PROVE  RowsKept'
<1>1. PICK m : m = a.id
  OBVIOUS
<1>2. /\ listed' = listed /\ talk' = talk /\ inquiries' = inquiries \ {a}
      /\ a.op = "replies" /\ a.at = "read"
  BY DEF RepliesDone, Mounts, talkDb
<1>3. \A n : Cardinality(RepliesTo(n))' = Cardinality(RepliesTo(n))
  BY <1>2 DEF RepliesTo
<1>4. DOMAIN threads = NrsOf(listed)
  BY DEF ThreadTypes, PageSound
<1>5. IF Live(a) THEN /\ threads'[m].replies = a.list /\ threads'[m].inst = threads[m].inst
                      /\ \A n \in NrsOf(listed) \ {m} : threads'[n] = threads[n]
      ELSE threads' = threads
  <2>1. CASE Live(a)
    <3>1. PICK ths, th :
              /\ Mounted(Ready, listed, ths) /\ OnlyThread(ths, m, th)
              /\ th.replies = a.list /\ th.inst = threads[m].inst
      BY <1>1, <2>1, RepliesDoneIs
    <3>2. m \in NrsOf(listed)
      BY <1>1, <1>4, <2>1 DEF Live
    <3>3. /\ ths[m] = th /\ \A n \in DOMAIN threads \ {m} : ths[n] = threads[n]
          /\ DOMAIN ths = DOMAIN threads
      BY <1>1, <2>1, <3>1 DEF OnlyThread, Live
    <3>4. \A n \in NrsOf(listed) : threads'[n] = ths[n]
      BY <3>1, <3>3, MountedRows
    <3> QED BY <1>4, <2>1, <3>1, <3>2, <3>3, <3>4
  <2>2. CASE ~Live(a)
    BY <2>2 DEF RepliesDone, mounted
  <2> QED BY <2>1, <2>2
<1>6. ASSUME NEW k \in 1..Len(listed'), NEW d, NEW th,
             d = listed'[k], d.nr = m, th = threads'[m], Watching(m)'
      PROVE  RowKept(d, th)'
  <2>1. PICK old \in ThreadState : m \in DOMAIN threads /\ old = threads[m] /\ RowKept(d, old)
    BY <1>2, <1>6, TheRow
  <2>2. Reads(a, m)
    BY <1>1, <1>2 DEF Reads
  <2>3. /\ a.inst = old.inst /\ OnceEach(a.list) /\ Len(a.list) = d.replies
        /\ \A e \in inquiries : ~Replies(e, m) /\ ~Drops(e, m) /\ (Reads(e, m) => e = a)
    BY <1>2, <1>6, <2>1, <2>2 DEF RowKept, Settled, Unread
  <2>4. Live(a)
    BY <1>1, <2>1, <2>3 DEF Live
  <2>5. th.replies = a.list
    BY <1>5, <1>6, <2>4
  <2>6. \A e \in inquiries' : ~Reads(e, m) /\ ~Replies(e, m) /\ ~Drops(e, m)
    BY <1>2, <2>3
  <2>7. Settled(d, th)'
    BY <1>6, <2>3, <2>5, <2>6 DEF Settled, OnceEach, Reads, Replies, Drops
  <2> QED BY <2>7 DEF RowKept
<1>7. \A n \in 1..uttered : \A e \in inquiries' : n # m /\ About(e, n) => e \in inquiries
  BY <1>2
<1>8. /\ \A k \in 1..Len(listed') : \E j \in 1..Len(listed) :
             listed'[k].nr = listed[j].nr /\ (listed[j].nr # m => listed'[k].replies = listed[j].replies)
      /\ \A n \in NrsOf(listed) \ {m} : threads'[n] = threads[n]
  BY <1>2, <1>5
<1>9. OthersStay(m)
  BY <1>3, <1>7, <1>8 DEF OthersStay
<1>10. ItsRowKept(m)
  BY <1>6 DEF ItsRowKept
<1> QED BY <1>9, <1>10, OneRow

\* A thread that shows its replies goes on to, when what is asked of it is in order.
LEMMA SettledGoesOn ==
    ASSUME ThreadTypes, TalkGoes, NEW c, NEW th, NEW n, c.nr = n, Settled(c, th),
           NEW b, inquiries' \subseteq inquiries \cup {b}, ~Reads(b, n),
           Replies(b, n) => b.inst = th.inst /\ (b.made # 0 => b.made \notin NrsOf(th.replies)),
           Drops(b, n) => b.of = th.inst /\ b.id \in NrsOf(th.replies)
    PROVE  Settled(c, th)'
<1>1. TalkSound /\ InquiriesSound
  BY DEF ThreadTypes
<1>2. c.replies = Len(th.replies) /\ OnceEach(th.replies)
  BY DEF Settled
<1>3. ASSUME NEW a \in inquiries'
      PROVE  /\ ~Reads(a, n)
             /\ Replies(a, n) => a.inst = th.inst /\ (a.made # 0 => a.made \notin NrsOf(th.replies))
             /\ Drops(a, n) => a.of = th.inst
  BY DEF Settled
<1>4. ASSUME NEW a \in inquiries', Drops(a, n), a.id \notin NrsOf(th.replies)
      PROVE  a.at = "sent" /\ ~InTalk(a.id)'
  <2>1. a \in inquiries /\ a.at = "sent" /\ ~InTalk(a.id)
    BY <1>4 DEF Settled
  <2>2. PICK i : i = a.id
    OBVIOUS
  <2>3. i \in 1..uttered
    BY <1>1, <1>4, <2>1, <2>2, Kinds DEF Drops, Under
  <2>4. ~InTalk(i)'
    BY <1>1, <2>1, <2>2, <2>3, UnderStays
  <2> QED BY <2>1, <2>2, <2>4
<1> QED BY <1>2, <1>3, <1>4 DEF Settled, OnceEach, NrsOf, Reads, Replies, Drops

LEMMA WriteRows ==
    ASSUME ThreadTypes, PageKept, ThreadsKept, ThreadNext, ~wandered, Ready,
           NEW c \in ToSet(listed), c.nr \in DOMAIN threads, WriteReply(c)
    PROVE  RowsKept'
<1>1. PICK m : m = c.nr
  OBVIOUS
<1>2. PICK b : b = [op |-> "reply", id |-> c.nr, nr |-> strokes', post |-> c.post,
                    inst |-> threads[c.nr].inst, made |-> 0]
  OBVIOUS
<1>3. /\ UNCHANGED <<listed, threads>> /\ talk' = talk /\ inquiries' = inquiries \cup {b}
      /\ mixed' = IF \/ threads[m].loading
                     \/ c.replies > Len(threads[m].replies) THEN mixed \cup {m} ELSE mixed
  BY <1>1, <1>2 DEF WriteReply, postPage, mounted, talkDb
<1>4. b.op = "reply" /\ b.id = m /\ b.inst = threads[m].inst /\ b.made = 0
  BY <1>1, <1>2
<1>5. \A n : Cardinality(RepliesTo(n))' = Cardinality(RepliesTo(n))
  BY <1>3 DEF RepliesTo
<1>6. ASSUME NEW k \in 1..Len(listed'), NEW d, NEW th,
             d = listed'[k], d.nr = m, th = threads'[m], Watching(m)'
      PROVE  RowKept(d, th)'
  <2>1. RowKept(d, th) /\ th = threads[m]
    BY <1>3, <1>6, TheRow
  <2>2. d = c
    <3>1. PICK j \in 1..Len(listed) : c = listed[j]
      BY PageFits, RowsIn DEF ThreadTypes
    <3>2. k \in 1..Len(listed) /\ m = listed[k].nr /\ d = listed[k]
      BY <1>3, <1>6
    <3>3. \A i \in 1..Len(listed) : listed[i].nr = m => i = k
      BY <1>6, <3>2, RowBefore
    <3> QED BY <1>1, <3>1, <3>2, <3>3
  <2>3. Settled(d, th)
    <3>1. Len(<<>>) = 0
      OBVIOUS
    <3>2. ~(c.replies > Len(th.replies))
      BY <1>3, <1>6, <2>1 DEF Watching
    <3> QED BY <2>1, <2>2, <3>1, <3>2 DEF RowKept, Unread
  <2>4. Settled(d, th)'
    BY <1>3, <1>4, <1>6, <2>1, <2>3, TalkStep, SettledGoesOn DEF Reads, Replies, Drops
  <2> QED BY <2>4 DEF RowKept
<1>7. \A n \in 1..uttered : \A e \in inquiries' : n # m /\ About(e, n) => e \in inquiries
  BY <1>3, <1>4 DEF About, Reads, Replies, Drops
<1>8. /\ \A k \in 1..Len(listed') : \E j \in 1..Len(listed) :
             listed'[k].nr = listed[j].nr /\ (listed[j].nr # m => listed'[k].replies = listed[j].replies)
      /\ \A n \in NrsOf(listed) \ {m} : threads'[n] = threads[n]
  BY <1>3
<1>9. OthersStay(m)
  BY <1>5, <1>7, <1>8 DEF OthersStay
<1>10. ItsRowKept(m)
  BY <1>6 DEF ItsRowKept
<1> QED BY <1>9, <1>10, OneRow

LEMMA StoreRows ==
    ASSUME ThreadTypes, PageKept, ThreadsKept, ThreadNext, ~wandered, Ready,
           NEW a \in inquiries, StoreComment(a)
    PROVE  RowsKept'
<1>1. PICK m : m = a.id
  OBVIOUS
<1>2. /\ UNCHANGED <<listed, threads>> /\ a.op \in {"comment", "reply"}
      /\ a.op = "comment" => m = Top
      /\ uttered \in Nat
  BY <1>1, Kinds DEF StoreComment, postPage, mounted, ThreadTypes, TalkSound
<1>3. PICK b :
          /\ inquiries' = (inquiries \ {a}) \cup {b}
          /\ b.op = a.op /\ b.id = m /\ b.inst = a.inst /\ b.made = uttered + 1
  BY <1>1, WritingGoesOn
<1>4. \A n \in 1..uttered : n # m => Cardinality(RepliesTo(n))' = Cardinality(RepliesTo(n))
  BY <1>1, CommentElsewhere
<1>5. ASSUME NEW k \in 1..Len(listed'), NEW d, NEW th,
             d = listed'[k], d.nr = m, th = threads'[m], Watching(m)'
      PROVE  RowKept(d, th)'
  <2>1. RowKept(d, th) /\ m \in 1..uttered /\ AllUnder(th.replies, m)
    BY <1>2, <1>5, TheRow
  <2>2. Replies(a, m)
    BY <1>1, <1>2, <2>1 DEF Replies, Top
  <2>3. Settled(d, th) /\ a.inst = th.inst
    BY <1>5, <2>1, <2>2 DEF RowKept, Settled, Unread
  <2>4. b.made \notin NrsOf(th.replies)
    BY <1>2, <1>3, <2>1 DEF AllUnder, Under, NrsOf
  <2>5. ~Reads(b, m) /\ ~Drops(b, m) /\ inquiries' \subseteq inquiries \cup {b}
    BY <1>2, <1>3 DEF Reads, Drops
  <2>6. b.inst = th.inst
    BY <1>3, <2>3
  <2>7. Settled(d, th)'
    BY <1>5, <2>3, <2>4, <2>5, <2>6, TalkStep, SettledGoesOn
  <2> QED BY <2>7 DEF RowKept
<1>6. \A n \in 1..uttered : \A e \in inquiries' : n # m /\ About(e, n) => e \in inquiries
  BY <1>2, <1>3 DEF About, Reads, Replies, Drops
<1>7. /\ \A k \in 1..Len(listed') : \E j \in 1..Len(listed) :
             listed'[k].nr = listed[j].nr /\ (listed[j].nr # m => listed'[k].replies = listed[j].replies)
      /\ \A n \in NrsOf(listed) \ {m} : threads'[n] = threads[n]
  BY <1>2
<1>8. OthersStay(m)
  BY <1>4, <1>6, <1>7 DEF OthersStay
<1>9. ItsRowKept(m)
  BY <1>5 DEF ItsRowKept
<1> QED BY <1>8, <1>9, OneRow

\* The row of the own comment comes on top, and nothing is asked of it yet.
LEMMA CommentRows ==
    ASSUME ThreadTypes, PageKept, ThreadsKept, ThreadNext, ~wandered, Ready,
           NEW a \in inquiries, CommentDone(a)
    PROVE  RowsKept'
<1>1. PICK list, c : /\ Mounted(Ready, list, threads)
                     /\ c \in CommentRow /\ c.nr = a.made /\ c.replies = 0
                     /\ list = <<c>> \o listed
  BY CommentDoneIs
<1>2. /\ a.op = "comment" /\ a.made # 0 /\ talk' = talk /\ inquiries' = inquiries \ {a}
  BY DEF CommentDone, talkDb
<1>3. /\ listed' = list
      /\ \A n \in NrsOf(list) : threads'[n] = IF n \in NrsOf(listed) THEN threads[n] ELSE NewThread(mounts + 1)
  BY <1>1, MountedRows
<1>4. \A n : Cardinality(RepliesTo(n))' = Cardinality(RepliesTo(n))
  BY <1>2 DEF RepliesTo
<1>5. PageHere /\ MadeAlone /\ listed \in Seq(CommentRow)
  BY PageFits DEF PageKept, ThreadsKept, ThreadTypes
<1>6. \A k \in 1..Len(list) : list[k] = c \/ \E j \in 1..Len(listed) : list[k] = listed[j]
  BY <1>1, <1>5, RowInFront
<1>7. ASSUME NEW k \in 1..Len(listed'), NEW n, NEW d, NEW th,
             n = listed'[k].nr, d = listed'[k], th = threads'[n], Watching(n)'
      PROVE  RowKept(d, th)'
  <2>1. n \in NrsOf(list)
    BY <1>3, <1>7 DEF NrsOf
  <2>2. CASE \E j \in 1..Len(listed) : d = listed[j]
    <3>1. PICK j \in 1..Len(listed) : d = listed[j]
      BY <2>2
    <3>2. n \in NrsOf(listed)
      BY <1>7, <3>1 DEF NrsOf
    <3>3. n = listed[j].nr /\ d.nr = n /\ d.replies = listed[j].replies /\ threads'[n] = threads[n]
      BY <1>3, <1>7, <2>1, <3>1, <3>2
    <3>4. \A e \in inquiries' : About(e, n) => e \in inquiries
      BY <1>2
    <3> QED BY <1>4, <1>7, <3>3, <3>4, RowStays
  <2>3. CASE d = c
    <3>1. n = a.made /\ n \notin NrsOf(listed)
      BY <1>1, <1>2, <1>5, <1>7, <2>3 DEF PageHere
    <3>2. th = NewThread(mounts + 1)
      BY <1>3, <1>7, <2>1, <3>1
    <3>3. th.replies = <<>>
      BY <3>2, NewThreadIs DEF ThreadTypes, PageSound
    <3>4. Len(th.replies) = 0
      BY <3>3
    <3>5. \A e \in inquiries' : ~Reads(e, n) /\ ~Replies(e, n) /\ ~Drops(e, n)
      BY <1>2, <1>5, <3>1 DEF MadeAlone
    <3>6. Settled(d, th)'
      BY <1>1, <1>7, <2>3, <3>4, <3>5 DEF Settled, OnceEach, Reads, Replies, Drops
    <3> QED BY <3>6 DEF RowKept
  <2> QED BY <1>3, <1>6, <1>7, <2>2, <2>3
<1> QED BY <1>7, RowByRow

\* The row counts the reply its thread shows.
LEMMA ReplyRows ==
    ASSUME ThreadTypes, PageKept, ThreadsKept, ThreadNext, ~wandered, Ready,
           NEW a \in inquiries, ReplyDone(a)
    PROVE  RowsKept'
<1>1. PICK m : m = a.id
  OBVIOUS
<1>2. PICK list, ths :
          /\ Mounted(Ready, list, ths) /\ list = Counted(listed, m, 1)
          /\ IF Live(a)
             THEN \E th, c :
                      /\ OnlyThread(ths, m, th) /\ th \in ThreadState
                      /\ c \in CommentRow /\ c.nr = a.made
                      /\ th.replies = Append(threads[m].replies, c)
                      /\ th.inst = threads[m].inst
             ELSE ths = threads
  BY <1>1, ReplyDoneIs
<1>3. /\ a.op = "reply" /\ a.made # 0 /\ talk' = talk /\ inquiries' = inquiries \ {a}
      /\ listed \in Seq(CommentRow) /\ InquiriesSound
  BY PageFits DEF ReplyDone, talkDb, ThreadTypes
<1>4. \A n : Cardinality(RepliesTo(n))' = Cardinality(RepliesTo(n))
  BY <1>3 DEF RepliesTo
<1>5. Len(list) = Len(listed) /\ NrsOf(list) = NrsOf(listed)
  BY <1>2, <1>3, RowsCounted
<1>6. ASSUME NEW k \in 1..Len(listed)
      PROVE  /\ list[k].nr = listed[k].nr
             /\ listed[k].nr # m => list[k].replies = listed[k].replies
             /\ listed[k].nr = m => list[k].replies = listed[k].replies + 1
  <2>1. listed[k].replies \in Nat
    BY <1>3, RowsIn DEF CommentRow
  <2> QED BY <1>2, <1>3, <2>1, RowCounted
<1>7. DOMAIN ths = DOMAIN threads
  BY <1>2 DEF OnlyThread
<1>8. /\ listed' = list /\ DOMAIN threads = NrsOf(listed)
      /\ \A n \in NrsOf(listed) : threads'[n] = ths[n]
  BY <1>2, <1>5, <1>7, MountedRows
<1>9. \A n \in NrsOf(listed) \ {m} : threads'[n] = threads[n]
  BY <1>2, <1>8 DEF OnlyThread
<1>10. ASSUME NEW k \in 1..Len(listed'), NEW d, NEW th,
              d = listed'[k], d.nr = m, th = threads'[m], Watching(m)'
       PROVE  RowKept(d, th)'
  <2>1. k \in 1..Len(listed) /\ m = listed[k].nr /\ d.replies = listed[k].replies + 1
    BY <1>5, <1>6, <1>8, <1>10
  <2>2. PICK old \in ThreadState :
            m \in DOMAIN threads /\ old = threads[m] /\ RowKept(listed[k], old)
    BY <1>10, <2>1, RowBefore
  <2>3. Replies(a, m)
    BY <1>1, <1>3 DEF Replies
  <2>4. Settled(listed[k], old)
    BY <2>1, <2>2, <2>3 DEF RowKept, Unread
  <2>5. /\ listed[k].replies = Len(old.replies) /\ OnceEach(old.replies)
        /\ a.inst = old.inst /\ a.made \notin NrsOf(old.replies)
    BY <1>3, <2>1, <2>3, <2>4 DEF Settled
  <2>6. Live(a)
    BY <1>1, <2>2, <2>5 DEF Live
  <2>7. PICK c \in CommentRow : c.nr = a.made /\ th.replies = Append(old.replies, c) /\ th.inst = old.inst
    BY <1>2, <1>8, <1>10, <2>2, <2>6 DEF OnlyThread
  <2>8. old.replies \in Seq(CommentRow)
    BY <2>2, FieldsOfThread
  <2>9. /\ Len(th.replies) = Len(old.replies) + 1 /\ OnceEach(th.replies)
        /\ NrsOf(th.replies) = NrsOf(old.replies) \cup {a.made}
    <3>1. PICK r : r = th.replies
      OBVIOUS
    <3>2. r = Append(old.replies, c)
      BY <2>7, <3>1
    <3>3. /\ Len(r) = Len(old.replies) + 1
          /\ NrsOf(r) = NrsOf(old.replies) \cup {c.nr}
          /\ OnceEach(old.replies) /\ c.nr \notin NrsOf(old.replies) => OnceEach(r)
      BY <2>8, <3>2, RowBehind
    <3> QED BY <2>5, <2>7, <3>1, <3>3
  <2>10. ASSUME NEW e \in inquiries'
         PROVE  /\ ~Reads(e, m)
                /\ Replies(e, m) => e.inst = th.inst
                /\ Drops(e, m) =>
                       /\ e.of = th.inst
                       /\ e.id \in NrsOf(th.replies) \/ (e.at = "sent" /\ ~InTalk(e.id))
    BY <1>3, <2>1, <2>4, <2>7, <2>9 DEF Settled
  <2>11. ASSUME NEW e \in inquiries', Replies(e, m), e.made # 0 PROVE e.made \notin NrsOf(th.replies)
    <3>1. e \in inquiries /\ e # a /\ e.made \notin NrsOf(old.replies)
      BY <1>3, <2>1, <2>4, <2>11 DEF Settled
    <3>2. e.made # a.made
      BY <1>3, <2>11, <3>1, Kinds DEF InquiriesSound, Replies
    <3> QED BY <2>9, <3>1, <3>2
  <2>12. Settled(d, th)'
    BY <1>3, <1>10, <2>1, <2>5, <2>9, <2>10, <2>11 DEF Settled, OnceEach, NrsOf, InTalk, Reads, Replies, Drops
  <2> QED BY <2>12 DEF RowKept
<1>11. \A n \in 1..uttered : \A e \in inquiries' : n # m /\ About(e, n) => e \in inquiries
  BY <1>3
<1>12. \A k \in 1..Len(listed') : \E j \in 1..Len(listed) :
           listed'[k].nr = listed[j].nr /\ (listed[j].nr # m => listed'[k].replies = listed[j].replies)
  BY <1>5, <1>6, <1>8
<1>13. OthersStay(m)
  BY <1>4, <1>9, <1>11, <1>12 DEF OthersStay
<1>14. ItsRowKept(m)
  BY <1>10 DEF ItsRowKept
<1> QED BY <1>13, <1>14, OneRow

\* Only a reply that is shown can be deleted.
LEMMA DeleteRows ==
    ASSUME ThreadTypes, PageKept, ThreadsKept, ThreadNext, ~wandered, Ready,
           NEW c \in Items(listed, threads), DeleteComment(c)
    PROVE  RowsKept'
<1>1. PICK m : m = c.under
  OBVIOUS
<1>2. PICK b : b = [op |-> "delete", id |-> c.nr, under |-> c.under, inst |-> hearts[c.nr].inst,
                    of |-> IF c.under = Top THEN 0 ELSE threads[c.under].inst, at |-> "sent"]
  OBVIOUS
<1>3. UNCHANGED <<listed, threads>> /\ talk' = talk /\ inquiries' = inquiries \cup {b}
  BY <1>2 DEF DeleteComment, postPage, mounted, talkDb
<1>4. b.op = "delete" /\ b.id = c.nr /\ b.under = m /\ (m # Top => b.of = threads[m].inst)
  BY <1>1, <1>2
<1>5. \A n : Cardinality(RepliesTo(n))' = Cardinality(RepliesTo(n))
  BY <1>3 DEF RepliesTo
<1>6. ASSUME NEW k \in 1..Len(listed'), NEW d, NEW th,
             d = listed'[k], d.nr = m, th = threads'[m], Watching(m)'
      PROVE  RowKept(d, th)'
  <2>1. RowKept(d, th) /\ m \in 1..uttered /\ th = threads[m]
    BY <1>3, <1>6, TheRow
  <2>2. m # Top
    BY <2>1 DEF Top, ThreadTypes, TalkSound
  <2>3. \E i \in 1..Len(th.replies) : c = th.replies[i]
    BY <1>1, <2>1, <2>2, PageFits, ItemsAre DEF ThreadTypes
  <2>4. c.nr \in NrsOf(th.replies) /\ th.replies # <<>>
    <3>1. Len(<<>>) = 0
      OBVIOUS
    <3> QED BY <2>3, <3>1 DEF NrsOf
  <2>5. Settled(d, th)
    BY <2>1, <2>4 DEF RowKept, Unread
  <2>6. ~Reads(b, m) /\ ~Replies(b, m) /\ inquiries' \subseteq inquiries \cup {b}
    BY <1>3, <1>4 DEF Reads, Replies
  <2>7. b.of = th.inst /\ b.id \in NrsOf(th.replies)
    BY <1>4, <2>1, <2>2, <2>4
  <2>8. Settled(d, th)'
    BY <1>6, <2>5, <2>6, <2>7, TalkStep, SettledGoesOn
  <2> QED BY <2>8 DEF RowKept
<1>7. \A n \in 1..uttered : \A e \in inquiries' : n # m /\ About(e, n) => e \in inquiries
  BY <1>3, <1>4 DEF About, Reads, Replies, Drops
<1>8. /\ \A k \in 1..Len(listed') : \E j \in 1..Len(listed) :
             listed'[k].nr = listed[j].nr /\ (listed[j].nr # m => listed'[k].replies = listed[j].replies)
      /\ \A n \in NrsOf(listed) \ {m} : threads'[n] = threads[n]
  BY <1>3
<1>9. OthersStay(m)
  BY <1>5, <1>7, <1>8 DEF OthersStay
<1>10. ItsRowKept(m)
  BY <1>6 DEF ItsRowKept
<1> QED BY <1>9, <1>10, OneRow

LEMMA RemovalRows ==
    ASSUME ThreadTypes, PageKept, ThreadsKept, ThreadNext, ~wandered, Ready,
           NEW a \in inquiries, StoreRemoval(a)
    PROVE  RowsKept'
<1>1. PICK m : m = a.under
  OBVIOUS
<1>2. UNCHANGED <<listed, threads>> /\ a.op = "delete" /\ InTalk(a.id)
  BY DEF StoreRemoval, Refusable, InTalk, postPage, mounted
<1>3. PICK b :
          /\ inquiries' = (inquiries \ {a}) \cup {b}
          /\ b.op = "delete" /\ b.id = a.id /\ b.under = m /\ b.of = a.of
  BY <1>1, RemovingGoesOn
<1>4. ASSUME NEW n \in 1..uttered, n # m, Watching(n)'
      PROVE  Cardinality(RepliesTo(n))' = Cardinality(RepliesTo(n))
  BY <1>1, <1>4, RemovalElsewhere DEF Watching
<1>5. ASSUME NEW k \in 1..Len(listed'), NEW d, NEW th,
             d = listed'[k], d.nr = m, th = threads'[m], Watching(m)'
      PROVE  RowKept(d, th)'
  <2>1. RowKept(d, th)
    BY <1>2, <1>5, TheRow
  <2>2. Drops(a, m)
    BY <1>1, <1>2 DEF Drops
  <2>3. Settled(d, th) /\ a.of = th.inst /\ a.id \in NrsOf(th.replies)
    BY <1>2, <1>5, <2>1, <2>2 DEF RowKept, Settled, Unread
  <2>4. ~Reads(b, m) /\ ~Replies(b, m) /\ inquiries' \subseteq inquiries \cup {b}
    BY <1>3 DEF Reads, Replies
  <2>5. b.of = th.inst /\ b.id \in NrsOf(th.replies)
    BY <1>3, <2>3
  <2>6. Settled(d, th)'
    BY <1>5, <2>3, <2>4, <2>5, TalkStep, SettledGoesOn
  <2> QED BY <2>6 DEF RowKept
<1>6. \A n \in 1..uttered : \A e \in inquiries' : n # m /\ About(e, n) => e \in inquiries
  BY <1>3 DEF About, Reads, Replies, Drops
<1>7. /\ \A k \in 1..Len(listed') : \E j \in 1..Len(listed) :
             listed'[k].nr = listed[j].nr /\ (listed[j].nr # m => listed'[k].replies = listed[j].replies)
      /\ \A n \in NrsOf(listed) \ {m} : threads'[n] = threads[n]
  BY <1>2
<1>8. OthersStay(m)
  BY <1>4, <1>6, <1>7 DEF OthersStay
<1>9. ItsRowKept(m)
  BY <1>5 DEF ItsRowKept
<1> QED BY <1>8, <1>9, OneRow

LEMMA RowRemoved ==
    ASSUME ThreadTypes, PageKept, ThreadsKept, ThreadNext, ~wandered, Ready,
           NEW a \in inquiries, CommentRemoved(a)
    PROVE  RowsKept'
<1>1. PICK list : /\ Mounted(Ready, list, threads)
                  /\ list = Filtered(listed, {k \in DOMAIN listed : listed[k].nr # a.id})
  BY CommentRemovedIs
<1>2. talk' = talk /\ inquiries' \subseteq inquiries /\ listed \in Seq(CommentRow)
  BY PageFits DEF CommentRemoved, talkDb, ThreadTypes
<1>3. /\ listed' = list
      /\ \A n \in NrsOf(list) : threads'[n] = IF n \in NrsOf(listed) THEN threads[n] ELSE NewThread(mounts + 1)
  BY <1>1, MountedRows
<1>4. PICK P : P = {k \in DOMAIN listed : listed[k].nr # a.id}
  OBVIOUS
<1>5. P \in SUBSET (1..Len(listed)) /\ \A k \in 1..Len(listed) : k \in P <=> listed[k].nr # a.id
  BY <1>2, <1>4, RowsIn
<1>6. PICK rest : rest = NrsOf(listed) \ {a.id}
  OBVIOUS
<1>7. NrsOf(list) = rest /\ ToSet(list) \subseteq ToSet(listed) /\ list \in Seq(CommentRow)
  BY <1>1, <1>2, <1>4, <1>5, <1>6, RowDropped
<1>8. ASSUME NEW k \in 1..Len(list) PROVE \E j \in 1..Len(listed) : list[k] = listed[j]
  <2>1. list[k] \in ToSet(listed)
    BY <1>7, RowsIn
  <2> QED BY <1>2, <2>1, RowsIn
<1>9. \A k \in 1..Len(list) : threads'[list[k].nr] = threads[list[k].nr]
  BY <1>3, <1>6, <1>7 DEF NrsOf
<1>10. \A n : Cardinality(RepliesTo(n))' = Cardinality(RepliesTo(n))
  BY <1>2 DEF RepliesTo
<1> QED BY <1>2, <1>3, <1>8, <1>9, <1>10, RowsStay

\* The row counts the reply its thread no longer shows.
LEMMA ReplyRowsFewer ==
    ASSUME ThreadTypes, PageKept, ThreadsKept, ThreadNext, ~wandered, Ready,
           NEW a \in inquiries, ReplyRemoved(a)
    PROVE  RowsKept'
<1>1. PICK m : m = a.under
  OBVIOUS
<1>2. PICK list, ths :
          /\ Mounted(Ready, list, ths) /\ list = Counted(listed, m, -1)
          /\ IF m \in DOMAIN threads /\ threads[m].inst = a.of
             THEN \E th, P :
                      /\ OnlyThread(ths, m, th) /\ th \in ThreadState
                      /\ P = {k \in DOMAIN threads[m].replies : threads[m].replies[k].nr # a.id}
                      /\ th.replies = Filtered(threads[m].replies, P)
                      /\ th.inst = threads[m].inst
             ELSE ths = threads
  BY <1>1, ReplyRemovedIs
<1>3. /\ a.op = "delete" /\ a.at = "done" /\ talk' = talk /\ inquiries' = inquiries \ {a}
      /\ listed \in Seq(CommentRow) /\ InquiriesSound
  BY PageFits DEF ReplyRemoved, talkDb, ThreadTypes
<1>4. \A n : Cardinality(RepliesTo(n))' = Cardinality(RepliesTo(n))
  BY <1>3 DEF RepliesTo
<1>5. PICK less \in Int : less = -1
  OBVIOUS
<1>6. list = Counted(listed, m, less)
  BY <1>2, <1>5
<1>7. Len(list) = Len(listed) /\ NrsOf(list) = NrsOf(listed)
  BY <1>3, <1>6, RowsCounted
<1>8. ASSUME NEW k \in 1..Len(listed)
      PROVE  /\ list[k].nr = listed[k].nr
             /\ listed[k].nr # m => list[k].replies = listed[k].replies
             /\ listed[k].nr = m /\ listed[k].replies > 0 => list[k].replies = listed[k].replies - 1
  <2>1. listed[k].replies \in Nat
    BY <1>3, RowsIn DEF CommentRow
  <2>2. listed[k].replies > 0 => listed[k].replies + less >= 0 /\ listed[k].replies + less = listed[k].replies - 1
    BY <1>5, <2>1
  <2> HIDE <1>5
  <2> QED BY <1>3, <1>6, <2>2, RowCounted
<1>9. DOMAIN ths = DOMAIN threads
  BY <1>2 DEF OnlyThread
<1>10. /\ listed' = list /\ DOMAIN threads = NrsOf(listed)
       /\ \A n \in NrsOf(listed) : threads'[n] = ths[n]
  BY <1>2, <1>7, <1>9, MountedRows
<1>11. \A n \in NrsOf(listed) \ {m} : threads'[n] = threads[n]
  BY <1>2, <1>10 DEF OnlyThread
<1>12. ASSUME NEW k \in 1..Len(listed'), NEW d, NEW th,
              d = listed'[k], d.nr = m, th = threads'[m], Watching(m)'
       PROVE  RowKept(d, th)'
  <2>1. /\ k \in 1..Len(listed) /\ m = listed[k].nr
        /\ listed[k].replies > 0 => d.replies = listed[k].replies - 1
    BY <1>7, <1>8, <1>10, <1>12
  <2>2. PICK old \in ThreadState :
            m \in DOMAIN threads /\ old = threads[m] /\ RowKept(listed[k], old)
    BY <1>12, <2>1, RowBefore
  <2>3. Drops(a, m)
    BY <1>1, <1>3 DEF Drops
  <2>4. Settled(listed[k], old)
    BY <2>1, <2>2, <2>3 DEF RowKept, Unread
  <2>5. /\ listed[k].replies = Len(old.replies) /\ OnceEach(old.replies)
        /\ a.of = old.inst /\ a.id \in NrsOf(old.replies)
    BY <1>3, <2>1, <2>3, <2>4 DEF Settled
  <2>6. PICK P : /\ P = {i \in DOMAIN old.replies : old.replies[i].nr # a.id}
                 /\ th.replies = Filtered(old.replies, P) /\ th.inst = old.inst
    BY <1>2, <1>10, <1>12, <2>2, <2>5 DEF OnlyThread
  <2>7. old.replies \in Seq(CommentRow)
    BY <2>2, FieldsOfThread
  <2>8. P \in SUBSET (1..Len(old.replies)) /\ \A i \in 1..Len(old.replies) : i \in P <=> old.replies[i].nr # a.id
    BY <2>6, <2>7, RowsIn
  <2>9. PICK rest : rest = NrsOf(old.replies) \ {a.id}
    OBVIOUS
  <2>10. NrsOf(th.replies) = rest /\ OnceEach(th.replies) /\ Len(th.replies) = Len(old.replies) - 1
    BY <2>5, <2>6, <2>7, <2>8, <2>9, RowDropped
  <2>11. Len(old.replies) > 0 /\ d.replies = Len(th.replies)
    BY <2>1, <2>5, <2>7, <2>10, RowsIn DEF NrsOf
  <2>12. ASSUME NEW e \in inquiries'
         PROVE  /\ ~Reads(e, m)
                /\ Replies(e, m) => e.inst = th.inst /\ (e.made # 0 => e.made \notin NrsOf(th.replies))
                /\ Drops(e, m) => e.of = th.inst
    BY <1>3, <2>1, <2>4, <2>6, <2>9, <2>10 DEF Settled
  <2>13. ASSUME NEW e \in inquiries', Drops(e, m), e.id \notin NrsOf(th.replies)
         PROVE  e.at = "sent" /\ ~InTalk(e.id)
    <3>1. e \in inquiries /\ e # a /\ (e.id \in NrsOf(old.replies) \/ (e.at = "sent" /\ ~InTalk(e.id)))
      BY <1>3, <2>1, <2>4, <2>13 DEF Settled
    <3>2. CASE e.id # a.id
      BY <2>9, <2>10, <2>13, <3>1, <3>2
    <3>3. CASE e.id = a.id
      <4>1. e \in Removing /\ a \in Removing /\ ~InTalk(a.id)
        BY <1>3, <2>13, <3>1, Kinds DEF Drops
      <4>2. e.at # "done"
        BY <1>3, <3>1, <3>3, <4>1 DEF InquiriesSound
      <4>3. e.at = "sent"
        BY <4>1, <4>2 DEF Removing
      <4> QED BY <3>3, <4>1, <4>3
    <3> QED BY <3>2, <3>3
  <2>14. Settled(d, th)'
    BY <1>3, <1>12, <2>10, <2>11, <2>12, <2>13 DEF Settled, OnceEach, NrsOf, InTalk, Reads, Replies, Drops
  <2> QED BY <2>14 DEF RowKept
<1>13. \A n \in 1..uttered : \A e \in inquiries' : n # m /\ About(e, n) => e \in inquiries
  BY <1>3
<1>14. \A k \in 1..Len(listed') : \E j \in 1..Len(listed) :
           listed'[k].nr = listed[j].nr /\ (listed[j].nr # m => listed'[k].replies = listed[j].replies)
  BY <1>7, <1>8, <1>10
<1>15. OthersStay(m)
  BY <1>4, <1>11, <1>13, <1>14 DEF OthersStay
<1>16. ItsRowKept(m)
  BY <1>12 DEF ItsRowKept
<1> QED BY <1>15, <1>16, OneRow

\* A page shown anew has read no replies yet.
LEMMA LoadRows ==
    ASSUME ThreadTypes, PageKept, ThreadsKept, ThreadNext, NEW a \in inquiries, LoadDone(a), ~wandered'
    PROVE  RowsKept'
<1>1. /\ a.op = "load" /\ a.at = {} /\ inquiries' = inquiries \ {a}
      /\ talk' = talk /\ mixed' = mixed
      /\ wandered' = (wandered /\ (inquiries' # {} \/ a.post # address \/ Ready))
  BY DEF LoadDone, talkDb
<1>2. inquiries' = {} /\ ~Ready
  <2>1. CASE wandered
    BY <1>1, <2>1
  <2>2. CASE ~wandered
    <3>1. inquiries = {a} /\ ~Ready
      BY <1>1, <2>2 DEF PageKept, PageHere
    <3> QED BY <1>1, <3>1
  <2> QED BY <2>1, <2>2
<1>3. PICK list : list = a.list
  OBVIOUS
<1>4. PageSound /\ ThreadsFit(threads) /\ HeartsFit(hearts) /\ mounts \in Nat /\ DOMAIN threads = {}
  BY <1>2, PageFits DEF ThreadTypes, PageSound
<1>5. list \in Seq(CommentRow) /\ AllUnder(list, Top)
  <2>1. a \in Listing /\ AllUnder(a.list, Top)
    BY <1>1, Kinds DEF ThreadTypes
  <2>2. PICK S : S = Seq(CommentRow)
    OBVIOUS
  <2>3. a \in [op : {"load"}, id : Nat, post : Discussed, count : Int, list : S,
               at : SUBSET {"post", "list"}]
    BY <2>1, <2>2 DEF Listing
  <2>4. a.list \in S
    BY <2>3
  <2> QED BY <1>3, <2>1, <2>2, <2>4
<1>6. PICK on \in BOOLEAN : on = TRUE
  OBVIOUS
<1>7. Mounts(on, list, threads, hearts)
  BY <1>3, <1>6 DEF LoadDone
<1>8. /\ listed' = list /\ DOMAIN threads' = IF on THEN NrsOf(list) ELSE {}
      /\ \A n \in DOMAIN threads' :
             threads'[n] = IF n \in DOMAIN threads THEN threads[n] ELSE NewThread(mounts + 1)
  BY <1>4, <1>5, <1>7, MountsIs
<1>9. \A n \in NrsOf(list) : threads'[n] = NewThread(mounts + 1)
  BY <1>4, <1>6, <1>8
<1>10. CountsRight(list)
  BY <1>1, <1>3 DEF ThreadsKept
<1>11. ASSUME NEW k \in 1..Len(listed'), NEW n, NEW d, NEW th,
              n = listed'[k].nr, d = listed'[k], th = threads'[n], Watching(n)'
       PROVE  RowKept(d, th)'
  <2>1. k \in 1..Len(list) /\ d = list[k] /\ d.nr = n /\ n \in NrsOf(list)
    BY <1>8, <1>11 DEF NrsOf
  <2>2. Watching(n)
    BY <1>1, <1>11 DEF Watching, InTalk
  <2>3. d.replies = Cardinality(RepliesTo(n)) /\ d.replies \in Nat
    BY <1>5, <1>10, <2>1, <2>2, RowsIn DEF CountsRight, CommentRow
  <2>4. th.replies = <<>> /\ ~th.open
    BY <1>4, <1>9, <1>11, <2>1, NewThreadIs
  <2>5. CASE d.replies = 0
    <3>1. Len(th.replies) = 0
      BY <2>4
    <3>2. Settled(d, th)'
      BY <1>2, <2>5, <3>1 DEF Settled, OnceEach
    <3> QED BY <3>2 DEF RowKept
  <2>6. CASE d.replies # 0
    <3>1. d.replies > 0
      BY <2>3, <2>6
    <3>2. d.replies = Cardinality(RepliesTo(n))'
      BY <1>1, <2>3 DEF RepliesTo
    <3>3. Unread(d, th)'
      BY <1>2, <2>1, <2>4, <3>1, <3>2 DEF Unread
    <3> QED BY <3>3 DEF RowKept
  <2> QED BY <2>5, <2>6
<1> QED BY <1>11, RowByRow

LEMMA RowsStep ==
    ASSUME ThreadTypes, PageKept, ThreadsKept, ThreadNext, ~wandered', Ready'
    PROVE  RowsKept'
<1>1. ASSUME NEW a \in inquiries, LoadDone(a) PROVE RowsKept'
  BY <1>1, LoadRows
<1>2. CASE \/ \E p \in Discussed : GoToPost(p)
           \/ \E a \in inquiries : LoadFails(a)
  BY <1>2 DEF GoToPost, LoadFails, Ready
<1>3. ASSUME UNCHANGED <<phase, wandered>> PROVE ~wandered /\ Ready
  BY <1>3 DEF Ready
<1>4. ASSUME NEW a \in inquiries, ReadPost(a) \/ ReadComments(a) PROVE RowsKept'
  <2>1. ~wandered /\ Ready /\ a.op = "load"
    BY <1>3, <1>4 DEF ReadPost, ReadComments, postPage, threadAux
  <2> QED BY <2>1 DEF PageKept, PageHere
<1>5. CASE \/ WriteComment
           \/ \E p \in Discussed : \E n \in {Top} \cup {c.nr : c \in talk} : OthersSay(p, n)
           \/ \E c \in talk : OthersTakeBack(c)
           \/ \E n \in DOMAIN hearts : ToggleHeart(n)
           \/ \E a \in inquiries : WriteFails(a) \/ RemovalFails(a) \/ StoreHeart(a) \/ HeartFails(a)
                                   \/ HeartAnswered(a)
  <2>1. UNCHANGED <<phase, wandered>>
    BY <1>5 DEF WriteComment, OthersSay, OthersTakeBack, ToggleHeart, WriteFails, RemovalFails, StoreHeart,
       HeartFails, HeartAnswered, postPage, threadAux
  <2> QED BY <1>3, <1>5, <2>1, QuietRows
<1>6. ASSUME NEW c \in ToSet(listed), c.nr \in DOMAIN threads, ToggleReplies(c) \/ WriteReply(c)
      PROVE  RowsKept'
  <2>1. UNCHANGED <<phase, wandered>>
    BY <1>6 DEF ToggleReplies, WriteReply, postPage
  <2> QED BY <1>3, <1>6, <2>1, ToggleRows, WriteRows
<1>7. ASSUME NEW c \in Items(listed, threads), DeleteComment(c) PROVE RowsKept'
  <2>1. UNCHANGED <<phase, wandered>>
    BY <1>7 DEF DeleteComment, postPage, threadAux
  <2> QED BY <1>3, <1>7, <2>1, DeleteRows
<1>8. ASSUME NEW a \in inquiries, ReadReplies(a) \/ RepliesDone(a) \/ RepliesFail(a) PROVE RowsKept'
  <2>1. UNCHANGED <<phase, wandered>>
    BY <1>8 DEF ReadReplies, RepliesDone, RepliesFail, postPage, threadAux
  <2> QED BY <1>3, <1>8, <2>1, ReadRows, ReadRowsDone, ReadRowsFail
<1>9. ASSUME NEW a \in inquiries, StoreComment(a) \/ CommentDone(a) \/ ReplyDone(a) PROVE RowsKept'
  <2>1. UNCHANGED <<phase, wandered>>
    BY <1>9 DEF StoreComment, CommentDone, ReplyDone, postPage
  <2> QED BY <1>3, <1>9, <2>1, StoreRows, CommentRows, ReplyRows
<1>10. ASSUME NEW a \in inquiries, StoreRemoval(a) \/ CommentRemoved(a) \/ ReplyRemoved(a) PROVE RowsKept'
  <2>1. UNCHANGED <<phase, wandered>>
    BY <1>10 DEF StoreRemoval, CommentRemoved, ReplyRemoved, postPage
  <2> QED BY <1>3, <1>10, <2>1, RemovalRows, RowRemoved, ReplyRowsFewer
<1> QED BY <1>1, <1>2, <1>4, <1>5, <1>6, <1>7, <1>8, <1>9, <1>10 DEF ThreadNext

LEMMA ThreadsKeptStep ==
    ASSUME ThreadTypes, PageKept, ThreadsKept, ThreadNext
    PROVE  ThreadsKept'
BY CountsStep, MadeStep, RowsStep DEF ThreadsKept

LEMMA ThreadStep ==
    ASSUME ThreadInv, [ThreadNext]_threadVars
    PROVE  ThreadInv'
<1>1. CASE ThreadNext
  BY <1>1, TypesStep, HeartsStep, PageKeptStep, ThreadsKeptStep DEF ThreadInv
<1>2. CASE UNCHANGED threadVars
  <2>1. /\ UNCHANGED <<talk, uttered, address, phase, shownPost, listed, threads, hearts, mounts>>
        /\ UNCHANGED <<inquiries, strokes, wandered, lopsided, mixed, dark>>
    BY <1>2 DEF threadVars, talkDb, postPage, mounted, strokeBounds, threadAux
  <2>2. TalkSound'
    BY <2>1 DEF ThreadInv, ThreadTypes, TalkSound
  <2>3. InquiriesSound'
    <3>1. ThreadTypes /\ TalkGoes /\ inquiries' \subseteq inquiries
      BY <2>1 DEF ThreadInv, ThreadTypes, TalkSound, TalkGoes
    <3> QED BY <3>1, InquiriesFewer
  <2>4. PageSound'
    <3>1. PageSound
      BY DEF ThreadInv, ThreadTypes
    <3>2. \A l, u : AllUnder(l, u)' = AllUnder(l, u)
      BY <2>1 DEF AllUnder, Under
    <3>3. AllUnder(listed, Top)'
      BY <2>1, <3>1, <3>2 DEF PageSound
    <3>4. ASSUME NEW n \in DOMAIN threads'
          PROVE  threads'[n] \in ThreadState /\ AllUnder(threads[n].replies, n)'
      <4>1. PICK r : r = threads[n].replies
        OBVIOUS
      <4>2. threads'[n] = threads[n] /\ threads[n] \in ThreadState /\ AllUnder(r, n)
        BY <2>1, <3>1, <3>4, <4>1 DEF PageSound
      <4>3. AllUnder(r, n)'
        BY <3>2, <4>2
      <4> QED BY <4>1, <4>2, <4>3
    <3>5. (DOMAIN threads = IF Ready THEN NrsOf(listed) ELSE {})'
      <4>1. NrsOf(listed)' = NrsOf(listed) /\ Ready' = Ready
        BY <2>1 DEF NrsOf, Ready
      <4> QED BY <2>1, <3>1, <4>1 DEF PageSound
    <3> QED BY <2>1, <3>1, <3>3, <3>4, <3>5 DEF PageSound
  <2>5. HeartsKept'
    BY <2>1 DEF ThreadInv, HeartsKept, Beats
  <2>6. PageKept'
    BY <2>1 DEF ThreadInv, PageKept, PageHere, ListHere, Ready, InTalk, NrsOf, OnceEach
  <2>7. ThreadsKept'
    <3>1. \A n : Cardinality(RepliesTo(n))' = Cardinality(RepliesTo(n))
      BY <2>1 DEF RepliesTo
    <3>2. \A n : Watching(n)' = Watching(n)
      BY <2>1 DEF Watching, InTalk
    <3>3. \A list : CountsRight(list) => CountsRight(list)'
      BY <3>1, <3>2 DEF CountsRight
    <3>4. MadeAlone => MadeAlone'
      BY <2>1 DEF MadeAlone, Reads, Replies, Drops
    <3>5. \A c, th : RowKept(c, th) => RowKept(c, th)'
      BY <2>1, <3>1 DEF RowKept, Settled, Unread, OnceEach, NrsOf, InTalk, Reads, Replies, Drops
    <3>6. RowsKept => RowsKept'
      <4>1. ASSUME RowsKept, NEW k \in 1..Len(listed'), NEW n, NEW d, NEW th,
                   n = listed'[k].nr, d = listed'[k], th = threads'[n], Watching(n)'
            PROVE  RowKept(d, th)'
        <5>1. Watching(n) /\ k \in 1..Len(listed) /\ n = listed[k].nr /\ d = listed[k] /\ th = threads[n]
          BY <2>1, <3>2, <4>1
        <5>2. RowKept(d, th)
          BY <4>1, <5>1 DEF RowsKept
        <5> QED BY <3>5, <5>2
      <4> QED BY <4>1, RowByRow
    <3>7. ASSUME NEW a \in inquiries', a.op = "load", "list" \notin a.at PROVE CountsRight(a.list)'
      <4>1. PICK list : list = a.list
        OBVIOUS
      <4>2. CountsRight(list)
        BY <2>1, <3>7, <4>1 DEF ThreadInv, ThreadsKept
      <4>3. CountsRight(list)'
        BY <3>3, <4>2
      <4> QED BY <4>1, <4>3
    <3>8. ~wandered' => MadeAlone' /\ (Ready' => RowsKept')
      BY <2>1, <3>4, <3>6 DEF ThreadInv, ThreadsKept, Ready
    <3> QED BY <3>7, <3>8 DEF ThreadsKept
  <2> QED BY <2>2, <2>3, <2>4, <2>5, <2>6, <2>7 DEF ThreadInv, ThreadTypes
<1> QED BY <1>1, <1>2

-----------------------------------------------------------------------------
(* Threads: the theorem *)

LEMMA ThreadInit ==
    ASSUME NEW p \in Discussed, ThreadStart(p)
    PROVE  ThreadInv
<1>1. PICK d : d = [nr |-> 1, post |-> p, under |-> Top, by |-> "other", liked |-> FALSE]
  OBVIOUS
<1>2. d \in Comment /\ d.nr = 1
  BY <1>1 DEF Comment, Top
<1>3. talk = {d} /\ uttered = 1
  BY <1>1 DEF ThreadStart
<1>4. TalkSound
  <2>1. IsFiniteSet({d})
    BY FS_Singleton
  <2> QED BY <1>2, <1>3, <2>1 DEF TalkSound
<1>5. PICK e \in Seq(CommentRow) : e = <<>>
  <2>1. <<>> \in Seq(CommentRow)
    OBVIOUS
  <2> QED BY <2>1
<1>6. Len(e) = 0
  BY <1>5
<1>7. PICK a : a = [op |-> "load", id |-> 0, post |-> p, count |-> -1, list |-> e, at |-> {"post", "list"}]
  OBVIOUS
<1>8. inquiries = {a}
  BY <1>5, <1>7 DEF ThreadStart
<1>9. a \in Listing /\ a.op = "load" /\ a.list = e /\ a.post = p /\ a.at = {"post", "list"}
  <2>1. PICK S : S = Seq(CommentRow)
    OBVIOUS
  <2>2. PICK c \in Int : c = -1
    OBVIOUS
  <2>3. e \in S /\ a = [op |-> "load", id |-> 0, post |-> p, count |-> c, list |-> e, at |-> {"post", "list"}]
    BY <1>7, <2>1, <2>2
  <2>4. a \in [op : {"load"}, id : Nat, post : Discussed, count : Int, list : S, at : SUBSET {"post", "list"}]
    BY <2>3
  <2> QED BY <2>1, <2>3, <2>4 DEF Listing
<1>10. InquiriesSound
  <2>1. AllUnder(e, Top) /\ OnceEach(e)
    BY <1>6 DEF AllUnder, OnceEach
  <2>2. InquiryFits(a)
    BY <1>6, <1>9, <2>1 DEF InquiryFits
  <2> QED BY <1>8, <2>2 DEF InquiriesSound
<1>11. ~Ready /\ DOMAIN threads = {} /\ DOMAIN hearts = {}
  BY EmptyMap DEF ThreadStart, Ready
<1>12. PageSound
  <2>1. listed \in Seq(CommentRow) /\ AllUnder(listed, Top)
    BY <1>5, <1>6 DEF ThreadStart, AllUnder
  <2>2. shownPost \in [post : Discussed \cup {"none"}, count : Int]
    BY DEF ThreadStart, NoPost
  <2>3. threads = [n \in DOMAIN threads |-> threads[n]] /\ hearts = [n \in DOMAIN hearts |-> hearts[n]]
    BY EmptyMap DEF ThreadStart, IsMap
  <2>4. strokes \in Nat /\ mounts \in Nat /\ wandered \in BOOLEAN /\ lopsided \in BOOLEAN /\ address \in Discussed
    BY DEF ThreadStart
  <2> QED BY <1>11, <2>1, <2>2, <2>3, <2>4 DEF PageSound
<1>13. HeartsKept
  BY <1>11 DEF HeartsKept
<1>14. PageKept
  BY <1>8, <1>9, <1>11 DEF PageKept, PageHere, ThreadStart
<1>15. ThreadsKept
  BY <1>8, <1>9, <1>11 DEF ThreadsKept, MadeAlone
<1> QED BY <1>4, <1>10, <1>12, <1>13, <1>14, <1>15 DEF ThreadInv, ThreadTypes

\* What is kept says what is shown.
LEMMA ThreadShows == ThreadInv => ThreadHolds
<1> SUFFICES ASSUME ThreadInv PROVE ThreadHolds
  OBVIOUS
<1>1. ThreadTypes /\ PageSound /\ listed \in Seq(CommentRow) /\ DOMAIN listed = 1..Len(listed)
  BY PageFits, RowsIn DEF ThreadInv, ThreadTypes
<1>2. \A r \in Seq(CommentRow) : OnceEach(r) => IsInjective([k \in DOMAIN r |-> r[k].nr])
  BY RowsIn DEF OnceEach, IsInjective
<1>3. PageHolds
  BY <1>1, <1>2 DEF ThreadInv, PageKept, PageHere, ListHere, PageHolds
<1>4. ASSUME ~wandered, Ready, NEW c \in ToSet(listed), c.nr \in Numbers(talk) \ mixed,
             threads[c.nr].open, ~threads[c.nr].loading
      PROVE  /\ IsInjective([k \in DOMAIN threads[c.nr].replies |-> threads[c.nr].replies[k].nr])
             /\ c.replies = Len(threads[c.nr].replies)
  <2>1. PICK j \in 1..Len(listed) : c = listed[j]
    BY <1>1, RowsIn
  <2>2. Watching(c.nr)
    BY <1>4 DEF Watching, InTalk, Numbers
  <2>3. PICK th : th = threads[c.nr]
    OBVIOUS
  <2>4. RowKept(c, th)
    BY <1>4, <2>1, <2>2, <2>3 DEF ThreadInv, ThreadsKept, RowsKept
  <2>5. c.replies = Len(th.replies) /\ OnceEach(th.replies)
    BY <1>4, <2>3, <2>4 DEF RowKept, Settled, Unread
  <2>6. th.replies \in Seq(CommentRow)
    <3>1. c.nr \in DOMAIN threads
      BY <1>1, <1>4, <2>1 DEF PageSound, NrsOf
    <3>2. th \in ThreadState
      BY <1>1, <2>3, <3>1 DEF PageSound
    <3> QED BY <3>2, FieldsOfThread
  <2> QED BY <1>2, <2>3, <2>5, <2>6
<1>5. RepliesHold
  BY <1>4 DEF RepliesHold
<1>6. HeartsHold
  BY DEF ThreadInv, HeartsKept, HeartsHold
<1> QED BY <1>3, <1>5, <1>6 DEF ThreadHolds

\* However the page's requests and answers interleave, and whatever others
\* write meanwhile: a page that was not left too early shows the post of its
\* address with its comments, each once and counted; a thread whose replies
\* nobody changed unread shows each once, as many as its row counts; and the
\* heart of a comment agrees with the like that is stored.
THEOREM ThreadKept ==
    ASSUME NEW p \in Discussed
    PROVE  ThreadStart(p) /\ [][ThreadNext]_threadVars => []ThreadHolds
<1>1. ThreadStart(p) => ThreadInv
  BY ThreadInit
<1>2. ThreadInv /\ [ThreadNext]_threadVars => ThreadInv'
  BY ThreadStep
<1> QED BY <1>1, <1>2, ThreadShows, PTL
=============================================================================
