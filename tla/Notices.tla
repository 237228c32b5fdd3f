------------------------------ MODULE Notices ------------------------------
(***************************************************************************)
(* The notices of one user.  The notification service stores one for each  *)
(* event that concerns the user, then publishes it; the gateway relays it  *)
(* to the user's socket.  The page keeps rows and a count of the unread    *)
(* ones, both from what it is pushed and from what it fetches, and answers *)
(* that cross a push are the hard part.                                    *)
(***************************************************************************)
EXTENDS Integers, Sequences, FiniteSets, Lists

CONSTANTS
    MaxNotes,       \* notices ever stored
    PageRows,       \* rows the notifications page asks for
    PanelRows,      \* rows the bell's panel asks for
    MaxEvents,      \* bound on what happens to the user
    MaxTaps,        \* bound on what the user does
    MaxFaults       \* bound on failures

ASSUME NoticesAssumption ==
    {MaxNotes, PageRows, PanelRows, MaxEvents, MaxTaps, MaxFaults} \subseteq Nat

VARIABLES
    inbox,      \* events on their topics, the first being handled
    notes,      \* notices stored: of which event, read, kept
    topic,      \* notification.realtime.delivered
    connected,  \* the socket of the page
    items,      \* the store: rows, the newest first
    unread,     \* the store: unreadCount
    panel,      \* the bell: open, loading, rows
    pageUp,     \* whether NotificationsPage is mounted
    chores,     \* requests of the page under way
    happened, taps, faults, \* auxiliary: events so far, taps and faults
    owed,       \* auxiliary: events the user is to be told of
    uneven,     \* auxiliary: events whose handling a failure touched
    astray      \* auxiliary: whether a failure or a crossing touched the store

notesDb == <<inbox, notes, topic>>
notesUi == <<items, unread, panel, pageUp>>
notesBounds == <<happened, taps, faults>>
noticeVars == <<notesDb, connected, notesUi, chores, notesBounds, owed, uneven, astray>>

NoticesStart(events, tapped, failed) ==
    /\ inbox = <<>> /\ notes = <<>> /\ topic = <<>>
    /\ connected = TRUE
    /\ items = <<>> /\ unread = 0
    /\ panel = [open |-> FALSE, loading |-> FALSE, rows |-> <<>>]
    /\ pageUp = FALSE
    /\ chores = {}
    /\ happened = events /\ taps = tapped /\ faults = failed
    /\ owed = {} /\ uneven = {} /\ astray = FALSE

Tap == taps < MaxTaps /\ taps' = taps + 1 /\ UNCHANGED <<happened, faults>>
Fault == faults < MaxFaults /\ faults' = faults + 1 /\ UNCHANGED <<happened, taps>>

NoteIds == 1..Len(notes)
Rows(list) == {list[k].id : k \in 1..Len(list)}
UnreadNotes == {n \in NoteIds : notes[n].kept /\ ~notes[n].read}

\* An answer on its way is out of date once a note is pushed, read or deleted
\* under it.
Crossed(set) == {[c EXCEPT !.stale = @ \/ c.at # {}] : c \in set}

-----------------------------------------------------------------------------
(* The service *)

Event(what, by, shown) == [what |-> what, by |-> by, shown |-> shown, nr |-> 0, at |-> "sent"]

\* A like, comment, reply, follow or share, a notice to the author, or a new
\* post of somebody followed.
Events == {Event("deed", "other", TRUE), Event("deed", "me", TRUE), Event("author", "me", TRUE),
           Event("post", "other", TRUE), Event("post", "other", FALSE)}

Happens(e) ==
    /\ happened < MaxEvents
    /\ happened' = happened + 1
    /\ inbox' = Append(inbox, [e EXCEPT !.nr = happened'])
    /\ owed' = IF e.what = "author" \/ (e.by = "other" /\ e.shown) THEN owed \cup {happened'} ELSE owed
    /\ UNCHANGED <<notes, topic, connected, notesUi, chores, taps, faults, uneven, astray>>

Current == inbox[1]

\* create: nobody is told of what they did themselves.
Skipped(e) == e.what # "author" /\ e.by = "me"

\* A handler that tells nobody; nor are followers told of a private post.
TellNobody ==
    /\ inbox # <<>> /\ Current.at = "sent"
    /\ Skipped(Current) \/ (Current.what = "post" /\ ~Current.shown)
    /\ inbox' = Tail(inbox)
    /\ UNCHANGED <<notes, topic, connected, notesUi, chores, notesBounds, owed, uneven, astray>>

\* create and createAuthorNotice; of a new post each follower is told, of
\* whom the user is one.  A refresh may have read the rows and not the count
\* yet, or the other way about.
SaveNote ==
    /\ inbox # <<>> /\ Current.at = "sent"
    /\ ~Skipped(Current) /\ Current.shown
    /\ Len(notes) < MaxNotes
    /\ notes' = Append(notes, [of |-> Current.nr, read |-> FALSE, kept |-> TRUE])
    /\ inbox' = [inbox EXCEPT ![1].at = "saved"]
    /\ chores' = {[c EXCEPT !.stale = @ \/ Cardinality(c.at) = 1] : c \in chores}
    /\ UNCHANGED <<topic, connected, notesUi, notesBounds, owed, uneven, astray>>

\* publish, the end of the handler
PublishNote ==
    /\ inbox # <<>> /\ Current.at = "saved"
    /\ topic' = Append(topic, [id |-> Len(notes), again |-> FALSE])
    /\ inbox' = Tail(inbox)
    /\ UNCHANGED <<notes, connected, notesUi, chores, notesBounds, owed, uneven, astray>>

\* The save, or the lookup of the followers, fails and is only logged.
SaveFails ==
    /\ Fault
    /\ inbox # <<>> /\ Current.at = "sent"
    /\ inbox' = Tail(inbox)
    /\ uneven' = uneven \cup {Current.nr}
    /\ UNCHANGED <<notes, topic, connected, notesUi, chores, owed, astray>>

\* A note that is stored and never shown by a push.
Unpushed == astray' = TRUE /\ chores' = Crossed(chores)

PublishFails ==
    /\ Fault
    /\ inbox # <<>> /\ Current.at = "saved"
    /\ inbox' = Tail(inbox)
    /\ Unpushed
    /\ UNCHANGED <<notes, topic, connected, notesUi, owed, uneven>>

\* The replica dies before its offset is committed: the event comes again.
HandledAgain ==
    /\ Fault
    /\ inbox # <<>> /\ Current.at = "saved"
    /\ inbox' = [inbox EXCEPT ![1].at = "sent"]
    /\ uneven' = uneven \cup {Current.nr}
    /\ \/ Unpushed /\ UNCHANGED topic
       \/ /\ topic' = Append(topic, [id |-> Len(notes), again |-> FALSE])
          /\ UNCHANGED <<astray, chores>>
    /\ UNCHANGED <<notes, connected, notesUi, owed>>

-----------------------------------------------------------------------------
(* The relay and the store *)

\* pushRealtimeRow
\* Mistake: a note that is shown already counts again.
PushedAgain(n) == items' = <<[id |-> n, read |-> FALSE]>> \o items /\ unread' = unread + 1

Pushed(n) ==
    IF n \in Rows(items) THEN UNCHANGED <<items, unread>>
    ELSE items' = <<[id |-> n, read |-> FALSE]>> \o items /\ unread' = unread + 1

\* emitToUser: nobody hears of a note relayed while there is no socket.  The
\* row is the one that was published, unread whatever became of the note, and
\* one that comes again after a refresh left it out counts twice.
Relayed ==
    /\ topic # <<>>
    /\ topic' = Tail(topic)
    /\ IF connected
       THEN /\ Pushed(Head(topic).id) /\ chores' = Crossed(chores)
            /\ astray' = (astray \/ Head(topic).id \notin UnreadNotes
                                \/ (Head(topic).again /\ Head(topic).id \notin Rows(items)))
       ELSE Unpushed /\ UNCHANGED <<items, unread>>
    /\ UNCHANGED <<inbox, notes, connected, panel, pageUp, notesBounds, owed, uneven>>

\* The gateway's consumer restarts: what it had not committed comes again.
RelayedAgain ==
    /\ Fault
    /\ items # <<>> /\ connected
    /\ topic' = <<[id |-> Head(items).id, again |-> TRUE]>> \o topic
    /\ UNCHANGED <<inbox, notes, connected, notesUi, chores, owed, uneven, astray>>

\* A new access token, or a network that comes and goes
Disconnects ==
    /\ Fault
    /\ connected
    /\ connected' = FALSE
    /\ UNCHANGED <<notesDb, notesUi, chores, owed, uneven, astray>>

Connects ==
    /\ ~connected
    /\ connected' = TRUE
    /\ UNCHANGED <<notesDb, notesUi, chores, notesBounds, owed, uneven, astray>>

\* Signing out: requests under way are answered all the same.
Cleared ==
    /\ Tap
    /\ items # <<>> \/ unread > 0
    /\ items' = <<>> /\ unread' = 0
    /\ panel' = [open |-> FALSE, loading |-> FALSE, rows |-> <<>>] /\ pageUp' = FALSE
    /\ chores' = {[c EXCEPT !.stale = TRUE] : c \in {d \in chores : d.op # "panel"}}
    /\ astray' = TRUE
    /\ UNCHANGED <<notesDb, connected, owed, uneven>>

-----------------------------------------------------------------------------
(* What the page fetches *)

Chore(op, n, from) ==
    [op |-> op, id |-> n, from |-> from, nr |-> taps, at |-> {}, rows |-> <<>>, count |-> 0,
     early |-> {}, stale |-> FALSE]

Starts(op, n, from) == Tap /\ chores' = chores \cup {Chore(op, n, from)}

Doing(ops) == \E c \in chores : c.op \in ops
Becomes(c, d) == chores' = (chores \ {c}) \cup {d}
Finished(c) == chores' = chores \ {c}

\* The newest notes kept, the newest first
Newest(limit) ==
    LET kept == Descending({n \in NoteIds : notes[n].kept})
        shown == IF Len(kept) < limit THEN Len(kept) ELSE limit
    IN [k \in 1..shown |-> [id |-> kept[k], read |-> notes[kept[k]].read]]

\* refresh: the rows and the count are fetched side by side.
Refreshes == Starts("refresh", 0, "page")

\* A change of route closes the bell's panel.
OpenPage ==
    /\ ~pageUp /\ pageUp' = TRUE
    /\ Refreshes
    /\ panel' = [panel EXCEPT !.open = FALSE]
    /\ UNCHANGED <<notesDb, connected, items, unread, owed, uneven, astray>>

LeavePage ==
    /\ Tap
    /\ pageUp /\ pageUp' = FALSE
    /\ panel' = [panel EXCEPT !.open = FALSE]
    /\ chores' = {c \in chores : c.op # "panel"}
    /\ UNCHANGED <<notesDb, connected, items, unread, owed, uneven, astray>>

RefreshPage ==
    /\ pageUp /\ ~Doing({"refresh"})
    /\ Refreshes
    /\ UNCHANGED <<notesDb, connected, notesUi, owed, uneven, astray>>

\* AppNavBar, when it is mounted or the profile changes
CountBadge ==
    /\ Tap
    /\ chores' = {c \in chores : c.op # "badge"} \cup {Chore("badge", 0, "bell")}
    /\ UNCHANGED <<notesDb, connected, notesUi, owed, uneven, astray>>

OpenPanel ==
    /\ ~panel.open
    /\ panel' = [panel EXCEPT !.open = TRUE, !.loading = TRUE]
    /\ Starts("panel", 0, "bell")
    /\ UNCHANGED <<notesDb, connected, items, unread, pageUp, owed, uneven, astray>>

\* What the panel was still to load is dropped.
ClosePanel ==
    /\ Tap
    /\ panel.open
    /\ panel' = [panel EXCEPT !.open = FALSE]
    /\ chores' = {c \in chores : c.op # "panel"}
    /\ UNCHANGED <<notesDb, connected, items, unread, pageUp, owed, uneven, astray>>

\* getByRecipient
ListRows(c) ==
    /\ c.op \in {"refresh", "panel"} /\ "listed" \notin c.at
    /\ Becomes(c, [c EXCEPT !.at = @ \cup {"listed"},
                             !.rows = Newest(IF c.op = "panel" THEN PanelRows ELSE PageRows)])
    /\ UNCHANGED <<notesDb, connected, notesUi, notesBounds, owed, uneven, astray>>

\* Notes stored whose first push is still to come
ToCome == {n \in NoteIds : (\E k \in 1..Len(topic) : topic[k].id = n /\ ~topic[k].again)
                            \/ (n = Len(notes) /\ inbox # <<>> /\ Current.at = "saved")}

\* getUnreadCount: a note is counted from when it is stored, and a note read
\* or deleted no longer, its row being patched later.
CountUnread(c) ==
    /\ c.op \in {"refresh", "badge"} /\ "counted" \notin c.at
    /\ Becomes(c, [c EXCEPT !.at = @ \cup {"counted"}, !.count = Cardinality(UnreadNotes),
                             !.early = UnreadNotes \cap ToCome,
                             !.stale = @ \/ (c.op = "badge" /\ \E d \in chores : "stored" \in d.at)])
    /\ UNCHANGED <<notesDb, connected, notesUi, notesBounds, owed, uneven, astray>>

RefreshDone(c) ==
    /\ c.op = "refresh" /\ c.at = {"listed", "counted"}
    /\ items' = c.rows /\ unread' = c.count
    /\ astray' = (c.stale \/ c.early \ Rows(c.rows) # {})
    /\ Finished(c)
    /\ UNCHANGED <<notesDb, connected, panel, pageUp, notesBounds, owed, uneven>>

BadgeDone(c) ==
    /\ c.op = "badge" /\ c.at = {"counted"}
    /\ unread' = c.count
    /\ astray' = (astray \/ c.stale \/ c.early \ Rows(items) # {})
    /\ Finished(c)
    /\ UNCHANGED <<notesDb, connected, items, panel, pageUp, notesBounds, owed, uneven>>

PanelDone(c) ==
    /\ c.op = "panel" /\ c.at = {"listed"}
    /\ panel' = [panel EXCEPT !.loading = FALSE, !.rows = c.rows]
    /\ Finished(c)
    /\ UNCHANGED <<notesDb, connected, items, unread, pageUp, notesBounds, owed, uneven, astray>>

-----------------------------------------------------------------------------
(* What the user changes *)

Place(from) == IF from = "page" THEN items ELSE panel.rows
CanTap(from) == IF from = "page" THEN pageUp /\ ~panel.open ELSE panel.open /\ ~panel.loading

\* handleRowActivate, and handleMarkRead under the bell: a row that leads
\* somewhere closes the panel, and leaves the page.
Activate(n, from) ==
    /\ CanTap(from)
    /\ \E k \in 1..Len(Place(from)) : Place(from)[k] = [id |-> n, read |-> FALSE]
    /\ Starts("read", n, from)
    /\ \/ UNCHANGED notesUi
       \/ /\ panel' = [panel EXCEPT !.open = FALSE] /\ pageUp' = FALSE
          /\ UNCHANGED <<items, unread>>
    /\ UNCHANGED <<notesDb, connected, owed, uneven, astray>>

MarkAll(from) ==
    /\ CanTap(from) /\ unread > 0
    /\ Starts("all", 0, from)
    /\ UNCHANGED <<notesDb, connected, notesUi, owed, uneven, astray>>

\* confirmDelete: the dialog stays up, over the page, until it is answered.
Delete(n) ==
    /\ CanTap("page") /\ n \in Rows(items)
    /\ ~Doing({"delete"})
    /\ Starts("delete", n, "page")
    /\ UNCHANGED <<notesDb, connected, notesUi, owed, uneven, astray>>

\* What a call stores, and the answers to others it makes out of date.
Stores(c, changed) ==
    /\ notes' = changed
    /\ chores' = Crossed(chores \ {c}) \cup {[c EXCEPT !.at = {"stored"}, !.count = Len(notes)]}
    /\ UNCHANGED <<inbox, topic, connected, notesUi, notesBounds, owed, uneven, astray>>

\* markAsRead: a note deleted is not found.
StoreRead(c) ==
    /\ c.op = "read" /\ c.at = {}
    /\ IF notes[c.id].kept THEN Stores(c, [notes EXCEPT ![c.id].read = TRUE])
       ELSE Finished(c) /\ UNCHANGED <<notesDb, connected, notesUi, notesBounds, owed, uneven, astray>>

StoreAllRead(c) ==
    /\ c.op = "all" /\ c.at = {}
    /\ Stores(c, [n \in NoteIds |-> [notes[n] EXCEPT !.read = TRUE]])

StoreDelete(c) ==
    /\ c.op = "delete" /\ c.at = {}
    /\ IF notes[c.id].kept THEN Stores(c, [notes EXCEPT ![c.id].kept = FALSE])
       ELSE Finished(c) /\ UNCHANGED <<notesDb, connected, notesUi, notesBounds, owed, uneven, astray>>

Patched(list, ids) ==
    [k \in 1..Len(list) |-> IF list[k].id \in ids THEN [list[k] EXCEPT !.read = TRUE] ELSE list[k]]
Fewer == IF unread > 0 THEN unread - 1 ELSE 0
ShownUnread(n) == \E k \in 1..Len(items) : items[k] = [id |-> n, read |-> FALSE]

\* patchRead counts only a row the store holds: the bell's may be another.
ReadDone(c) ==
    /\ c.op = "read" /\ c.at = {"stored"}
    /\ items' = Patched(items, {c.id})
    /\ unread' = IF ShownUnread(c.id) THEN Fewer ELSE unread
    /\ panel' = IF c.from = "bell" THEN [panel EXCEPT !.rows = Patched(@, {c.id})] ELSE panel
    /\ astray' = (astray \/ c.id \notin Rows(items))
    /\ Finished(c)
    /\ UNCHANGED <<notesDb, connected, pageUp, notesBounds, owed, uneven>>

\* markAllReadLocal: a note that came meanwhile is taken for read, and if it
\* is no longer among the rows the badge counts it no more.
AllReadDone(c) ==
    /\ c.op = "all" /\ c.at = {"stored"}
    /\ items' = Patched(items, NoteIds) /\ unread' = 0
    /\ panel' = IF c.from = "bell" THEN [panel EXCEPT !.rows = Patched(@, NoteIds)] ELSE panel
    /\ astray' = (astray \/ \E n \in Rows(items) \cup (UnreadNotes \ ToCome) : n > c.count)
    /\ Finished(c)
    /\ UNCHANGED <<notesDb, connected, pageUp, notesBounds, owed, uneven>>

\* removeLocal
DeleteDone(c) ==
    /\ c.op = "delete" /\ c.at = {"stored"}
    /\ items' = Filtered(items, {k \in 1..Len(items) : items[k].id # c.id})
    /\ unread' = IF ShownUnread(c.id) THEN Fewer ELSE unread
    /\ astray' = (astray \/ c.id \notin Rows(items))
    /\ Finished(c)
    /\ UNCHANGED <<notesDb, connected, panel, pageUp, notesBounds, owed, uneven>>

\* A request or its answer is lost; what it stored stays stored.
ChoreFails(c) ==
    /\ Fault
    /\ Finished(c)
    /\ panel' = IF c.op = "panel" THEN [panel EXCEPT !.loading = FALSE, !.rows = <<>>] ELSE panel
    /\ astray' = (astray \/ c.at = {"stored"})
    /\ UNCHANGED <<notesDb, connected, items, unread, pageUp, owed, uneven>>

NoticesNext ==
    \/ \E e \in Events : Happens(e)
    \/ TellNobody \/ SaveNote \/ PublishNote \/ SaveFails \/ PublishFails \/ HandledAgain
    \/ Relayed \/ RelayedAgain \/ Disconnects \/ Connects \/ Cleared
    \/ OpenPage \/ LeavePage \/ RefreshPage \/ CountBadge \/ OpenPanel \/ ClosePanel
    \/ \E n \in NoteIds : Delete(n) \/ Activate(n, "page") \/ Activate(n, "bell")
    \/ \E from \in {"page", "bell"} : MarkAll(from)
    \/ \E c \in chores :
         \/ ListRows(c) \/ CountUnread(c) \/ RefreshDone(c) \/ BadgeDone(c) \/ PanelDone(c)
         \/ StoreRead(c) \/ StoreAllRead(c) \/ StoreDelete(c)
         \/ ReadDone(c) \/ AllReadDone(c) \/ DeleteDone(c) \/ ChoreFails(c)

-----------------------------------------------------------------------------
(* Properties *)

\* An event the user is to be told of is told once, any other never.
ToldOnce ==
    \A nr \in 1..happened :
        \/ nr \in uneven
        \/ \E k \in 1..Len(inbox) : inbox[k].nr = nr
        \/ Cardinality({n \in NoteIds : notes[n].of = nr}) = IF nr \in owed THEN 1 ELSE 0

\* When nothing is under way the rows are the newest notes, as read as they
\* are, and the badge counts the unread ones.
StoreAgrees ==
    inbox = <<>> /\ topic = <<>> /\ chores = {} /\ ~astray =>
        /\ items = Newest(Len(items))
        /\ unread = Cardinality(UnreadNotes)

NoticesAgree == ToldOnce /\ StoreAgrees
=============================================================================
