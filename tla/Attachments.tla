---------------------------- MODULE Attachments ----------------------------
(***************************************************************************)
(* A composer of the page and the media picker inside it                   *)
(* (NetworkMediaPicker.tsx), in its three places: the composer of a post   *)
(* (FeedComposer.tsx), that of a comment and that of a reply               *)
(* (PostDetailPage.tsx).  A picker uploads its files side by side, and its *)
(* uploads go on when the composer around it is closed: each appends to    *)
(* the list as its own picker last saw it.                                 *)
(***************************************************************************)
EXTENDS Integers, Sequences, FiniteSets, SequencesExt

CONSTANTS
    MaxFiles,       \* the limit of a picker
    MaxPicked,      \* files ever picked
    MaxTyped,       \* texts ever typed
    MaxGestures,    \* bound on the clicks and keys of the person
    MaxSlips        \* bound on uploads and requests that fail

ASSUME AttachmentsAssumption ==
    {MaxFiles, MaxPicked, MaxTyped, MaxGestures, MaxSlips} \subseteq Nat

VARIABLES
    host,       \* where the composer is: "post", "comment" or "reply"
    composer,   \* whether it is open, so that its picker is mounted
    picker,     \* the pickers mounted so far
    urls,       \* the attachments, state of the host
    urlsRef,    \* the attachments as each picker has them
    uploads,    \* uploads under way: pending
    text,       \* what is typed, 0 for nothing
    submitting,
    sending,    \* createPost and createComment requests
    kept,       \* what the service stored
    picked, typed, gestures, slips, \* auxiliary: files, texts and bounds
    due,        \* auxiliary: files attached and neither sent nor removed
    orphaned,   \* auxiliary: whether a composer closed on its uploads
    hasty,      \* auxiliary: whether something was sent before its uploads, or again
    pressed     \* auxiliary: texts that may have been sent twice

composerState == <<host, composer, text, submitting>>
pickerState == <<picker, urls, urlsRef, uploads>>
composed == <<sending, kept>>
gestureBounds == <<picked, typed, gestures, slips>>
attachAux == <<due, orphaned, hasty, pressed>>
attachVars == <<composerState, pickerState, composed, gestureBounds, attachAux>>

AttachmentsStart(place) ==
    /\ host = place /\ composer = FALSE
    /\ picker = 0 /\ urls = <<>> /\ urlsRef = <<>> /\ uploads = {}
    /\ text = 0 /\ submitting = FALSE
    /\ sending = {} /\ kept = <<>>
    /\ picked = 0 /\ typed = 0 /\ gestures = 0 /\ slips = 0
    /\ due = {} /\ orphaned = FALSE /\ hasty = FALSE /\ pressed = {}

Gesture == gestures < MaxGestures /\ gestures' = gestures + 1
Slip == slips < MaxSlips /\ slips' = slips + 1 /\ UNCHANGED <<picked, typed, gestures>>

Pending == {u \in uploads : u.of = picker /\ composer}
Draft == text # 0 \/ urls # <<>>

\* The effect by which the picker that is mounted mirrors the list
Mirrored(refs, list) == IF composer THEN [refs EXCEPT ![picker] = list] ELSE refs

-----------------------------------------------------------------------------
(* The composer *)

OpenComposer ==
    /\ Gesture
    /\ ~composer /\ composer' = TRUE
    /\ picker' = picker + 1 /\ urlsRef' = Append(urlsRef, urls)
    /\ UNCHANGED <<host, text, submitting, urls, uploads, composed, picked, typed, slips, attachAux>>

\* A reply that is closed forgets what was written.
Forgets == host = "reply"

\* canClose waits for the uploads of a post; a comment does not.
CloseComposer ==
    /\ Gesture
    /\ composer /\ composer' = FALSE
    /\ host = "post" => ~submitting /\ Pending = {}
    /\ orphaned' = (orphaned \/ Pending # {})
    /\ text' = IF Forgets THEN 0 ELSE text
    /\ urls' = IF Forgets THEN <<>> ELSE urls
    /\ due' = IF Forgets THEN {} ELSE due
    /\ UNCHANGED <<host, submitting, picker, urlsRef, uploads, composed, picked, typed, slips, hasty, pressed>>

Type ==
    /\ Gesture
    /\ composer /\ typed < MaxTyped
    /\ typed' = typed + 1 /\ text' = typed'
    /\ UNCHANGED <<host, composer, submitting, pickerState, composed, picked, slips, attachAux>>

\* submit and sendTopLevelComment: the button is disabled meanwhile, the Enter
\* key of a comment or a reply is not.
Send ==
    /\ Gesture
    /\ composer /\ Draft
    /\ host = "post" => ~submitting /\ Pending = {}
    /\ submitting' = TRUE
    /\ sending' = sending \cup {[nr |-> gestures, text |-> text, files |-> urls, at |-> "sent"]}
    /\ hasty' = (hasty \/ sending # {} \/ Pending # {})
    /\ pressed' = IF sending # {} THEN pressed \cup {text} ELSE pressed
    /\ UNCHANGED <<host, composer, text, pickerState, kept, picked, typed, slips, due, orphaned>>

Stored(s) ==
    /\ s.at = "sent"
    /\ kept' = Append(kept, [text |-> s.text, files |-> ToSet(s.files)])
    /\ sending' = (sending \ {s}) \cup {[s EXCEPT !.at = "stored"]}
    /\ UNCHANGED <<composerState, pickerState, gestureBounds, attachAux>>

\* What was written is cleared, be it more than what was sent; the composers
\* of a post and of a reply close.
Sent(s) ==
    /\ s.at = "stored"
    /\ sending' = sending \ {s}
    /\ text' = 0 /\ urls' = <<>> /\ submitting' = FALSE
    /\ composer' = (composer /\ host = "comment")
    /\ urlsRef' = Mirrored(urlsRef, <<>>)
    /\ due' = due \ ToSet(s.files)
    /\ orphaned' = (orphaned \/ (Pending # {} /\ ~composer'))
    /\ UNCHANGED <<host, picker, uploads, kept, gestureBounds, hasty, pressed>>

\* The request fails, or its answer is lost; the draft stays.
NotSent(s) ==
    /\ Slip
    /\ sending' = sending \ {s}
    /\ submitting' = FALSE
    /\ pressed' = pressed \cup {s.text}
    /\ UNCHANGED <<host, composer, text, pickerState, kept, due, orphaned, hasty>>

-----------------------------------------------------------------------------
(* The picker *)

\* processFiles: no more than there is room for, and none while sending
PickFiles(n) ==
    LET room == MaxFiles - Len(urlsRef[picker]) - Cardinality(Pending)
        accepted == picked + 1 .. picked + Min({n, room})
    IN
    /\ Gesture
    /\ composer /\ ~submitting /\ room > 0
    /\ picked + n <= MaxPicked
    /\ picked' = picked + Min({n, room})
    /\ uploads' = uploads \cup [file : accepted, of : {picker}, at : {"asked"}]
    /\ due' = due \cup accepted
    /\ UNCHANGED <<composerState, picker, urls, urlsRef, composed, typed, slips, orphaned, hasty, pressed>>

\* cloudinary_upload_signature; then the browser sends the file.
Signed(u) ==
    /\ u.at = "asked"
    /\ uploads' = (uploads \ {u}) \cup {[u EXCEPT !.at = "signed"]}
    /\ UNCHANGED <<composerState, picker, urls, urlsRef, composed, gestureBounds, attachAux>>

\* Mistake: the file takes the place of the others.
UploadedAlone(u) ==
    /\ u.at = "signed"
    /\ uploads' = uploads \ {u}
    /\ urls' = <<u.file>>
    /\ urlsRef' = Mirrored([urlsRef EXCEPT ![u.of] = urls'], urls')
    /\ UNCHANGED <<composerState, picker, composed, gestureBounds, attachAux>>

Uploaded(u) ==
    LET next == Append(urlsRef[u.of], u.file) IN
    /\ u.at = "signed"
    /\ uploads' = uploads \ {u}
    /\ urls' = next
    /\ urlsRef' = Mirrored([urlsRef EXCEPT ![u.of] = next], next)
    /\ UNCHANGED <<composerState, picker, composed, gestureBounds, attachAux>>

UploadFails(u) ==
    /\ Slip
    /\ uploads' = uploads \ {u}
    /\ due' = due \ {u.file}
    /\ UNCHANGED <<composerState, picker, urls, urlsRef, composed, orphaned, hasty, pressed>>

\* remove filters by the address of a file, which has one place in the list.
RemoveFile(k) ==
    LET next == RemoveAt(urls, k) IN
    /\ Gesture
    /\ composer /\ ~submitting
    /\ urls' = next /\ urlsRef' = Mirrored(urlsRef, next)
    /\ due' = due \ {urls[k]}
    /\ UNCHANGED <<composerState, picker, uploads, composed, picked, typed, slips, orphaned, hasty, pressed>>

AttachmentsNext ==
    \/ OpenComposer \/ CloseComposer \/ Type \/ Send
    \/ \E s \in sending : Stored(s) \/ Sent(s) \/ NotSent(s)
    \/ \E n \in 1..MaxPicked : PickFiles(n)
    \/ \E u \in uploads : Signed(u) \/ Uploaded(u) \/ UploadFails(u)
    \/ \E k \in DOMAIN urls : RemoveFile(k)

-----------------------------------------------------------------------------
(* Properties *)

Careful == host = "post" \/ ~(orphaned \/ hasty)

\* No more files than the limit, however uploads overlap.
WithinRoom == Careful => Len(urls) + Cardinality(Pending) <= MaxFiles

\* Side by side, no upload loses the file of another: what is attached is
\* what was picked, neither removed nor sent.
NoneLost ==
    /\ IsInjective(urls)
    /\ Careful /\ uploads = {} /\ sending = {} => ToSet(urls) = due

\* Nothing is stored twice, no text and no file, unless Enter was pressed
\* again meanwhile, the person tries again after a failure, or a closed picker
\* brings a file back.
Repeats(x, y) == x.files \cap y.files # {} \/ (x.text = y.text /\ x.text # 0)
SaidOnce ==
    orphaned \/ \A j, k \in 1..Len(kept) :
        j # k /\ Repeats(kept[j], kept[k]) => {kept[j].text, kept[k].text} \cap pressed # {}

AttachmentsKept == WithinRoom /\ NoneLost /\ SaidOnce
=============================================================================
