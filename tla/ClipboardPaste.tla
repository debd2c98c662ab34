--------------------------- MODULE ClipboardPaste ---------------------------
(***************************************************************************)
(* A Windows program pastes what an X client has selected.                 *)
(*                                                                         *)
(* The Windows clipboard holds a promise of the bridge's window.  When a   *)
(* program asks for the data, Windows sends WM_RENDERFORMAT to the         *)
(* clipboard thread (the bridge) and keeps the program waiting.  The       *)
(* bridge asks the selection's owner to convert it into a property, waits  *)
(* for the SelectionNotify for a second (winProcessXEventsTimeout), falls  *)
(* back to simpler targets when the owner refuses one                      *)
(* (winClipboardFlushXEvents), gives the program what it got, and promises *)
(* the text anew when WM_USER_PASTE_COMPLETE comes.                        *)
(*                                                                         *)
(* XConvertSelection always returns 1, which winClipboardFlushXEvents      *)
(* takes for a failure, so a fallback is not reported to WM_RENDERFORMAT   *)
(* as WIN_XEVENTS_CONVERT: the loop over the events just goes on, and the  *)
(* answer to the fallback is awaited in the same wait.  Only the refusal   *)
(* of the last target begins the second wait.                              *)
(*                                                                         *)
(* One selection is modelled, and one text format of the clipboard.  Text  *)
(* is abstracted to whose selection it is and how often it had changed.    *)
(***************************************************************************)
EXTENDS Naturals, Sequences, SequencesExt

CONSTANTS
    Client,         \* X clients that own the selection now and then
    Supports,       \* the targets each client can convert to
    None,
    MaxPastes,      \* bound: pastes of the Windows program
    MaxChanges,     \* bound: changes of the selection or of the clipboard
    MaxNoise        \* bound: other X events for the bridge

Target == {"COMPOUND_TEXT", "UTF8_STRING", "STRING"}

ASSUME PasteAssumption ==
    /\ Supports \in [Client -> SUBSET Target]
    /\ Client \cap {None, "nobody", "several", "app", "bridge"} = {}
    /\ {MaxPastes, MaxChanges, MaxNoise} \subseteq Nat

VARIABLES
    \* the X side
    owner,          \* the client that owns the selection
    content,        \* how often each client's selection has changed
    wire,           \* ConvertSelection requests the server has not seen
    asked,          \* SelectionRequests the owners have not answered
    prop,           \* the property CYGX_CUT_BUFFER of the bridge's window
    socket,         \* events for the bridge that can be read
    libq,           \* events in Xlib's queue, which select does not see
    \* the clipboard thread
    pc,
    wait,           \* which of the two waits of WM_RENDERFORMAT, 0 outside
    size,           \* what XGetWindowProperty told the size of
    posted,         \* WM_USER_PASTE_COMPLETE messages
    \* the Windows side
    winOwner,       \* "bridge" or "app"
    clip,           \* what the clipboard holds
    wpc,            \* the pasting program
    result,         \* what GetClipboardData gave it
    \* history and bounds
    eligible,       \* what the selection was at some time of this paste
    rendered,       \* the bridge rendered the result for this paste
    disturbed,      \* answers were under way when the bridge asked for the text
    cutOff,         \* a wait timed out with a request or an answer under way
    slipped,        \* the last copy came after the test of PasteComplete
    converts, pastes, changes, noise

x       == <<owner, content, wire, asked, prop, socket, libq, converts>>
thread  == <<pc, wait, size, posted>>
windows == <<winOwner, clip, wpc, result>>
history == <<eligible, rendered, disturbed, cutOff, slipped>>
bounds  == <<pastes, changes, noise>>
vars    == <<x, thread, windows, history, bounds>>

Text    == [by : Client, n : 0..MaxChanges]
Absent  == [by |-> "nobody", n |-> 0]   \* no text at all
Torn    == [by |-> "several", n |-> 0]  \* the beginning of another text
AppText == [by |-> "app", n |-> 0]      \* what a Windows program copied
Promise == [by |-> "bridge", n |-> 0]   \* SetClipboardData (format, NULL)
Event   == [target : Target \cup {"other"}, ok : BOOLEAN]
Noise   == [target |-> "other", ok |-> FALSE]
Request == [to : Client, target : Target, n : Nat]

TypeOK ==
    /\ owner \in Client \cup {None}
    /\ content \in [Client -> 0..MaxChanges]
    /\ wire \in Seq(Target)
    /\ asked \subseteq Request
    /\ {prop, size} \subseteq Text \cup {Absent}
    /\ socket \in Seq(Event) /\ libq \in Seq(Event)
    /\ pc \in {"idle", "sync", "select", "flush", "size", "read", "promise"}
    /\ wait \in 0..2
    /\ posted \in 0..MaxPastes
    /\ winOwner \in {"bridge", "app"}
    /\ clip \in Text \cup {Torn, Promise, AppText}
    /\ wpc \in {"closed", "open", "wait", "got"}
    /\ result \in Text \cup {Torn, Absent, AppText}
    /\ eligible \subseteq Text \cup {Absent}
    /\ {rendered, disturbed, cutOff, slipped} \subseteq BOOLEAN
    /\ converts \in Nat /\ pastes \in 0..MaxPastes
    /\ changes \in 0..MaxChanges /\ noise \in 0..MaxNoise

Selected == IF owner = None THEN Absent ELSE [by |-> owner, n |-> content[owner]]

Init ==
    /\ owner = None
    /\ content = [c \in Client |-> 0]
    /\ wire = << >> /\ asked = {} /\ prop = Absent
    /\ socket = << >> /\ libq = << >>
    /\ pc = "idle" /\ wait = 0 /\ size = Absent /\ posted = 0
    /\ winOwner = "app" /\ clip = AppText
    /\ wpc = "closed" /\ result = Absent
    /\ eligible = {} /\ rendered = FALSE /\ disturbed = FALSE
    /\ cutOff = FALSE /\ slipped = FALSE
    /\ converts = 0 /\ pastes = 0 /\ changes = 0 /\ noise = 0

-----------------------------------------------------------------------------
(* X clients                                                                *)

Change ==
    /\ changes < MaxChanges
    /\ changes' = changes + 1

Witness == eligible' = IF wpc = "closed" THEN {} ELSE eligible \cup {Selected'}

\* A new selection: winProcSetSelectionOwner promises its text to Windows, if no
\* program has the clipboard open.
Claim(c) ==
    /\ Change
    /\ owner' = c
    /\ content' = [content EXCEPT ![c] = @ + 1]
    /\ IF wpc = "closed"
       THEN winOwner' = "bridge" /\ clip' = Promise
       ELSE UNCHANGED <<winOwner, clip>>
    /\ Witness
    /\ UNCHANGED <<wire, asked, prop, socket, libq, converts, thread, wpc, result,
                   rendered, disturbed, cutOff, slipped, pastes, noise>>

\* The owner selects something else and does not claim the selection again.
Reselect ==
    /\ Change
    /\ owner # None
    /\ content' = [content EXCEPT ![owner] = @ + 1]
    /\ UNCHANGED <<owner, wire, asked, prop, socket, libq, converts, thread, windows,
                   rendered, disturbed, cutOff, slipped, pastes, noise>>
    /\ Witness

\* The owner goes away, with the requests it has not answered.
Vanish ==
    /\ Change
    /\ owner # None
    /\ owner' = None
    /\ asked' = {r \in asked : r.to # owner}
    /\ UNCHANGED <<content, wire, prop, socket, libq, converts, thread, windows,
                   rendered, disturbed, cutOff, slipped, pastes, noise>>
    /\ Witness

\* A client gets round to its oldest request: it stores the text and sends
\* SelectionNotify, or refuses a target it does not support, or all of them
\* once it has lost the selection.
Respond(r) ==
    /\ \A q \in asked : q.to = r.to => r.n <= q.n
    /\ asked' = asked \ {r}
    /\ \E ok \in {r.target \in Supports[r.to], r.to = owner} :
         /\ ok => r.target \in Supports[r.to]
         /\ prop' = IF ok THEN [by |-> r.to, n |-> content[r.to]] ELSE prop
         /\ socket' = Append(socket, [target |-> r.target, ok |-> ok])
    /\ UNCHANGED <<owner, content, wire, libq, converts, thread, windows, history, bounds>>

OtherEvent ==
    /\ noise < MaxNoise
    /\ noise' = noise + 1
    /\ socket' = Append(socket, Noise)
    /\ UNCHANGED <<owner, content, wire, asked, prop, libq, converts, thread, windows,
                   history, pastes, changes>>

-----------------------------------------------------------------------------
(* The pasting program, and others that copy                                *)

OpenClipboard ==
    /\ wpc = "closed" /\ pastes < MaxPastes
    /\ pastes' = pastes + 1
    /\ wpc' = "open"
    /\ eligible' = {Selected}
    /\ rendered' = FALSE
    /\ disturbed' = FALSE
    /\ cutOff' = FALSE
    /\ UNCHANGED <<x, thread, winOwner, clip, result, slipped, changes, noise>>

GetClipboardData ==
    /\ wpc = "open"
    /\ IF clip = Promise
       THEN wpc' = "wait" /\ UNCHANGED result
       ELSE wpc' = "got" /\ result' = clip
    /\ UNCHANGED <<x, thread, winOwner, clip, history, bounds>>

CloseClipboard ==
    /\ wpc = "got"
    /\ wpc' = "closed"
    /\ eligible' = {}
    /\ UNCHANGED <<x, thread, winOwner, clip, result, rendered, disturbed, cutOff,
                   slipped, bounds>>

AppCopy ==
    /\ Change
    /\ wpc = "closed"
    /\ winOwner' = "app" /\ clip' = AppText
    /\ slipped' = (pc = "promise")
    /\ UNCHANGED <<x, thread, wpc, result, eligible, rendered, disturbed, cutOff, pastes,
                   noise>>

-----------------------------------------------------------------------------
(* The clipboard thread                                                     *)

\* WM_DRAWCLIPBOARD: the bridge takes the selection for the Windows text.
TakeSelection ==
    /\ pc = "idle" /\ winOwner = "app" /\ owner # None
    /\ owner' = None
    /\ UNCHANGED <<content, wire, asked, prop, socket, libq, converts, thread, windows,
                   rendered, disturbed, cutOff, slipped, bounds>>
    /\ Witness

\* The dispatcher's ProcConvertSelection: the owner is asked, or without one
\* the answer is None at once.
Convert ==
    /\ wire # << >>
    /\ wire' = Tail(wire)
    /\ converts' = converts + 1
    /\ IF owner = None
       THEN /\ socket' = Append(socket, [target |-> Head(wire), ok |-> FALSE])
            /\ UNCHANGED asked
       ELSE /\ asked' = asked \cup {[to |-> owner, target |-> Head(wire), n |-> converts]}
            /\ UNCHANGED socket
    /\ UNCHANGED <<owner, content, prop, libq, thread, windows, history, bounds>>

\* Events that have arrived and the bridge has not looked at.
Pending == libq \o socket

\* A request or an answer is somewhere on its way.
UnderWay == wire # << >> \/ asked # {} \/ \E e \in Range(Pending) : e # Noise

\* WM_RENDERFORMAT
Render ==
    /\ pc = "idle" /\ wpc = "wait"
    /\ wire' = Append(wire, "COMPOUND_TEXT")
    /\ pc' = "sync"
    /\ wait' = 1
    /\ disturbed' = UnderWay
    /\ UNCHANGED <<owner, content, asked, prop, socket, libq, converts, size, posted,
                   windows, eligible, rendered, cutOff, slipped, bounds>>

\* A reply comes behind all requests sent before; the events that came with it
\* go to Xlib's queue.
RoundTrip(from, to) ==
    /\ pc = from /\ wire = << >>
    /\ pc' = to
    /\ libq' = Pending
    /\ socket' = << >>
    /\ UNCHANGED <<owner, content, wire, asked, prop, converts, posted, winOwner,
                   eligible, disturbed, cutOff, slipped, bounds>>

\* winProcessXEventsTimeout begins with XSync.
Sync ==
    /\ RoundTrip("sync", "select")
    /\ UNCHANGED <<wait, size, clip, wpc, result, rendered>>

\* The program gets d; without data the text stays promised.
Finish(d) ==
    /\ clip' = IF d = Absent THEN Promise ELSE d
    /\ result' = d
    /\ rendered' = TRUE
    /\ wpc' = "got"
    /\ wait' = 0

\* Mutant: the clock is forgotten, an owner is waited for until it answers.
DeadlineForgotten == pc = "select" /\ asked = {}

\* The second is over, whatever is in Xlib's queue.
Deadline == pc = "select"

\* Mutant: a wait that timed out posts WM_USER_PASTE_COMPLETE twice.
TimeoutTwice ==
    /\ Deadline
    /\ Finish(Absent)
    /\ pc' = "idle"
    /\ posted' = posted + 2
    /\ cutOff' = UnderWay
    /\ UNCHANGED <<x, size, winOwner, eligible, disturbed, slipped, bounds>>

Timeout ==
    /\ Deadline
    /\ Finish(Absent)
    /\ pc' = "idle"
    /\ posted' = posted + 1
    /\ cutOff' = UnderWay
    /\ UNCHANGED <<x, size, winOwner, eligible, disturbed, slipped, bounds>>

\* select sees what can be read from the connection, in a wait or in the main
\* loop of winClipboardProc.
Select ==
    /\ pc \in {"idle", "select"} /\ socket # << >>
    /\ pc' = "flush"
    /\ UNCHANGED <<x, wait, size, posted, windows, history, bounds>>

\* Mutant: COMPOUND_TEXT falls back to STRING, and UTF8_STRING is never tried.
FallbackSkipping == [COMPOUND_TEXT |-> "STRING", UTF8_STRING |-> "STRING"]

Fallback == [COMPOUND_TEXT |-> "UTF8_STRING", UTF8_STRING |-> "STRING"]

\* Mutant: a refusal is read as if it announced text.
HasDataAlways(e) == e # Noise

\* property != None
HasData(e) == e.ok

\* winClipboardFlushXEvents takes the next event.
NextEvent ==
    /\ pc = "flush" /\ Pending # << >>
    /\ socket' = << >>
    /\ libq' = Tail(Pending)
    /\ LET e == Head(Pending)
           refused == e # Noise /\ ~HasData(e)
       IN
       \/ /\ e = Noise
          /\ UNCHANGED <<wire, pc, wait, posted, clip, wpc, result, rendered>>
       \/ /\ e # Noise /\ HasData(e)
          /\ pc' = "size"
          /\ UNCHANGED <<wire, wait, posted, clip, wpc, result, rendered>>
       \/ /\ refused /\ e.target # "STRING"
          /\ wire' = Append(wire, Fallback[e.target])
          /\ UNCHANGED <<pc, wait, posted, clip, wpc, result, rendered>>
       \* WIN_XEVENTS_CONVERT: the main loop ignores it, the first wait is
       \* followed by another, the second one ends without data
       \/ /\ refused /\ e.target = "STRING" /\ wait # 2
          /\ pc' = IF wait = 1 THEN "sync" ELSE "idle"
          /\ wait' = IF wait = 1 THEN 2 ELSE 0
          /\ UNCHANGED <<wire, posted, clip, wpc, result, rendered>>
       \/ /\ refused /\ e.target = "STRING" /\ wait = 2
          /\ Finish(Absent)
          /\ pc' = "idle"
          /\ posted' = posted + 1
          /\ UNCHANGED wire
    /\ UNCHANGED <<owner, content, asked, prop, converts, size, winOwner, eligible,
                   disturbed, cutOff, slipped, bounds>>

\* No more events: back to select, or to the main loop.
NoMoreEvents ==
    /\ pc = "flush" /\ Pending = << >>
    /\ pc' = IF wait = 0 THEN "idle" ELSE "select"
    /\ UNCHANGED <<x, wait, size, posted, windows, history, bounds>>

\* The first XGetWindowProperty asks for the size only.
ReadSize ==
    /\ RoundTrip("size", "read")
    /\ size' = prop
    /\ UNCHANGED <<wait, clip, wpc, result, rendered>>

\* The second one reads at most four times as much. Outside WM_RENDERFORMAT the
\* answer is too late: SetClipboardData fails without the clipboard open.
Read ==
    /\ pc = "read" /\ wire = << >>
    /\ pc' = "idle"
    /\ libq' = Pending
    /\ socket' = << >>
    /\ IF wait = 0
       THEN UNCHANGED <<clip, wpc, result, rendered, wait, posted>>
       ELSE /\ \E d \in IF prop = size THEN {prop} ELSE {prop, Torn} : Finish(d)
            /\ posted' = posted + 1
    /\ UNCHANGED <<owner, content, wire, asked, prop, converts, size, winOwner,
                   eligible, disturbed, cutOff, slipped, bounds>>

\* Mutant: the message is not checked against a new owner of the clipboard.
PasteCompleteUnchecked ==
    /\ pc = "idle" /\ posted > 0
    /\ posted' = posted - 1
    /\ pc' = "promise"
    /\ slipped' = FALSE
    /\ UNCHANGED <<x, wait, size, windows, eligible, rendered, disturbed, cutOff, bounds>>

\* WM_USER_PASTE_COMPLETE begins with a test of the clipboard's owner.
PasteComplete ==
    /\ pc = "idle" /\ posted > 0
    /\ posted' = posted - 1
    /\ pc' = IF winOwner = "bridge" THEN "promise" ELSE "idle"
    /\ slipped' = FALSE
    /\ UNCHANGED <<x, wait, size, windows, eligible, rendered, disturbed, cutOff, bounds>>

\* Then it opens, empties and promises, whoever the owner is by now. Nothing
\* checks whether OpenClipboard succeeds; if not, the other calls fail too.
PromiseAnew ==
    /\ pc = "promise"
    /\ pc' = "idle"
    /\ IF wpc = "closed"
       THEN winOwner' = "bridge" /\ clip' = Promise
       ELSE UNCHANGED <<winOwner, clip>>
    /\ UNCHANGED <<x, wait, size, posted, wpc, result, history, bounds>>

-----------------------------------------------------------------------------
ThreadStep ==
    \/ TakeSelection
    \/ Render
    \/ Sync
    \/ Timeout
    \/ Select
    \/ NextEvent
    \/ NoMoreEvents
    \/ ReadSize
    \/ Read
    \/ PasteComplete
    \/ PromiseAnew

ClientStep ==
    \/ \E c \in Client : Claim(c)
    \/ Reselect
    \/ Vanish
    \/ \E r \in asked : Respond(r)
    \/ OtherEvent

ProgramStep ==
    \/ OpenClipboard
    \/ GetClipboardData
    \/ CloseClipboard
    \/ AppCopy

Next == Convert \/ ThreadStep \/ ClientStep \/ ProgramStep

\* The server dispatches, the clipboard thread runs and its clock ticks; owners
\* may take for ever to answer.
Spec     == Init /\ [][Next]_vars
FairSpec == Spec /\ WF_vars(Convert) /\ WF_vars(ThreadStep) /\ WF_vars(Timeout)

-----------------------------------------------------------------------------
(* Properties                                                               *)

\* A program that pastes gets an answer, however slow or dead the owner is:
\* both waits of WM_RENDERFORMAT end.
PasteEnds == wpc = "wait" ~> wpc # "wait"

\* Unless older answers were under way when it was asked for, the text that is
\* rendered was the selection at some time of this paste: not that of an
\* earlier owner, nor half of one and half of another.
RenderedIsCurrent ==
    wpc = "got" /\ rendered /\ ~disturbed /\ result # Absent => result \in eligible

\* The bridge does not give up an owner that it could have had text from: one that
\* keeps the selection during a paste nothing older disturbed, and whose program is
\* sent away with nothing, has refused all three targets, or owed the bridge an
\* answer when the wait timed out. An answer in Xlib's queue, which select does not
\* see, counts as owed (AnswerIsSeen).
OwnerIsPasted ==
    \A c \in Client :
        /\ wpc = "got" /\ rendered /\ ~disturbed /\ ~cutOff /\ result = Absent
        /\ Absent \notin eligible /\ {t.by : t \in eligible} = {c}
        => Supports[c] = {}

\* What another program copied stays on the clipboard until a client takes the
\* selection: neither a rendering that ends nor a WM_USER_PASTE_COMPLETE that comes
\* late throws it away. The one exception is a copy between that message's test of
\* the clipboard's owner and its EmptyClipboard, which is lost.
OthersDataStays ==
    [][clip = AppText /\ clip' # AppText
         => slipped \/ \E c \in Client : Claim(c)]_vars

\* "We need to ensure that all pending events are processed", says
\* winProcessXEventsTimeout of its XSync: the program is not sent away with
\* nothing while the text it asked for has arrived.
AnswerIsSeen ==
    [][result' = Absent /\ wpc = "wait" /\ wpc' = "got"
         => \A e \in Range(libq') : ~e.ok]_vars
=============================================================================
