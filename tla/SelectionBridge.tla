--------------------------- MODULE SelectionBridge ---------------------------
(***************************************************************************)
(* Who owns what: the X selections PRIMARY and CLIPBOARD, the Windows      *)
(* clipboard, and the three parties that keep them in step in Xming.       *)
(*                                                                         *)
(*   - the X server's dispatcher, which runs winProcSetSelectionOwner      *)
(*     around ProcSetSelectionOwner and takes the Windows clipboard for    *)
(*     the bridge's window when an X client takes a selection;             *)
(*   - the clipboard thread ("the bridge"), an X client of that server     *)
(*     whose WM_DRAWCLIPBOARD handler takes both selections when a         *)
(*     Windows program copies text and gives them up otherwise;            *)
(*   - X clients and Windows programs, which copy whenever they like.      *)
(*                                                                         *)
(* The bridge's requests wait in Xlib's output buffer until something      *)
(* flushes it, and then on the connection until the server gets to them.   *)
(* The data of a copy is abstracted to "text" or "other"; times to         *)
(* whether ProcSetSelectionOwner finds the request's time acceptable.      *)
(***************************************************************************)
EXTENDS Naturals, Sequences, SequencesExt

CONSTANTS
    Client,         \* X clients other than the bridge, one window each
    Bridge,         \* g_iClipboardWindow, and g_hwndClipboard on the Windows side
    App,            \* any other Windows program
    None,
    MaxOps          \* bound: what clients and Windows programs do in a run

ASSUME BridgeAssumption ==
    /\ Bridge \notin Client /\ None \notin Client \cup {Bridge, App}
    /\ App \notin Client \cup {Bridge}
    /\ MaxOps \in Nat

Sel == {"PRIMARY", "CLIPBOARD"}
Other(s) == CHOOSE t \in Sel : t # s

VARIABLES
    \* the X server
    owner,          \* CurrentSelections[].window
    sOwners,        \* s_iOwners of winProcSetSelectionOwner
    lastOwned,      \* g_atomLastOwnedSelection
    lastDrawable,   \* the bridge's client->lastDrawableID
    emptying,       \* a selection whose release goes on with OpenClipboard
    \* Windows
    winOwner,       \* GetClipboardOwner ()
    winData,        \* "text", "other", or "promise": text rendered on demand
    appOpen,        \* another program holds the clipboard open
    draws,          \* WM_DRAWCLIPBOARD messages the bridge has not handled
    \* the clipboard thread
    pc,
    seen,           \* the last reply to XGetSelectionOwner
    joined,         \* hwnd is in the clipboard viewer chain
    cbcInit,        \* s_fCBCInitialized
    started,        \* g_fClipboardStarted
    outBuf,         \* Xlib's output buffer
    wire,           \* requests sent, not yet dispatched
    socket,         \* X events for the bridge that can be read
    libq,           \* X events already in Xlib's queue
    \* history and bound
    last,           \* the last copy that was accepted, if it still should stand
    ops

server  == <<owner, sOwners, lastOwned, lastDrawable, emptying>>
windows == <<winOwner, winData, appOpen>>
xlib    == <<outBuf, wire, socket, libq>>
thread  == <<pc, seen, joined, cbcInit, started>>
vars    == <<server, windows, draws, xlib, thread, last, ops>>

Own(s, w) == [kind |-> "own", sel |-> s, win |-> w]
Answer    == [kind |-> "answer"]
Request   == {Own(s, w) : s \in Sel, w \in {Bridge, None}} \cup {Answer}
Event     == {"clear", "request", "other"}

PC == {"create", "assert", "idle", "formats", "sync", "getP", "relP", "getC", "relC"}

TypeOK ==
    /\ owner \in [Sel -> Client \cup {Bridge, None}]
    /\ sOwners \in [Sel -> Client \cup {None}]
    /\ lastOwned \in Sel \cup {None}
    /\ lastDrawable \in {Bridge, None}
    /\ emptying \in Sel \cup {None}
    /\ winOwner \in {Bridge, App, None}
    /\ winData \in {"text", "other", "promise"}
    /\ appOpen \in BOOLEAN
    /\ draws \in Nat
    /\ pc \in PC
    /\ seen \in Client \cup {Bridge, None}
    /\ {joined, cbcInit, started} \subseteq BOOLEAN
    /\ outBuf \in Seq(Request) /\ wire \in Seq(Request)
    /\ socket \subseteq Event /\ libq \subseteq Event
    /\ last \in [who : Client \cup {App, None}, what : Sel \cup {"text", "other"},
                 calm : BOOLEAN]
    /\ ops \in 0..MaxOps

Nobody == [who |-> None, what |-> "text", calm |-> FALSE]

\* A generation's start: clients may own selections and Windows programs may
\* have copied before the clipboard thread is there. An earlier clipboard thread
\* may have left s_fCBCInitialized set.
Init ==
    /\ owner \in [Sel -> Client \cup {None}]
    /\ sOwners = [s \in Sel |-> None]
    /\ lastOwned = None
    /\ lastDrawable = None
    /\ emptying = None
    /\ winOwner \in {App, None}
    /\ winData \in {"text", "other"}
    /\ appOpen = FALSE
    /\ draws = 0
    /\ pc = "create"
    /\ seen = None
    /\ joined = FALSE /\ cbcInit \in BOOLEAN /\ started = FALSE
    /\ outBuf = << >> /\ wire = << >>
    /\ socket = {} /\ libq = {}
    /\ last = Nobody
    /\ ops = 0

\* Every program that watches the clipboard hears of a change.
Notify == IF joined THEN draws + 1 ELSE draws

\* Nothing is under way between the parties.
Quiet ==
    /\ started /\ pc = "idle" /\ draws = 0
    /\ outBuf = << >> /\ wire = << >> /\ emptying = None

Goto(from, to) == pc = from /\ pc' = to

-----------------------------------------------------------------------------
(* dix: ProcSetSelectionOwner of client c's request whose time is acceptable *)

SetOwner(c, s, w) ==
    /\ owner' = [owner EXCEPT ![s] = w]
    /\ socket' = IF owner[s] = Bridge /\ (w = None \/ c # Bridge)
                 THEN socket \cup {"clear"}     \* SelectionClear to the old owner
                 ELSE socket

(* hw/xwin: what winProcSetSelectionOwner does before it calls that. The   *)
(* request is client c's, for selection s and window w.                     *)

Disowns(s, w) == w = None /\ sOwners[s] # None

\* The owner is saved, except that the bridge's own window counts as none.
\* Mutant: the bridge's window is saved like any other owner.
SavedAsIs(s, w) == [sOwners EXCEPT ![s] = w]

Saved(s, w) ==
    [t \in Sel |-> IF t = s THEN (IF w = Bridge THEN None ELSE w) ELSE sOwners[t]]

\* Mutant: the clipboard is emptied whoever owns it.
ReleasesAnyway(c, s, w) ==
    /\ started
    /\ Disowns(s, w)
    /\ ~ (c = Bridge /\ lastDrawable = Bridge)
    /\ \A t \in Sel : Saved(s, w)[t] = None

\* The test of the clipboard's owner comes last, and OpenClipboard after it.
Releases(c, s, w) ==
    /\ started
    /\ Disowns(s, w)
    /\ ~ (c = Bridge /\ lastDrawable = Bridge)
    /\ \A t \in Sel : Saved(s, w)[t] = None
    /\ winOwner = Bridge

\* Mutant: any new owner takes the Windows clipboard, the bridge too.
GrabsForAll(w) == w # None /\ ~appOpen
Grabs(w) == w \in Client /\ ~appOpen

\* A grab opens the clipboard, empties it and promises text before it closes it
\* again: no other program gets between.
WrapSetOwner(s, w) ==
    IF ~started
    THEN UNCHANGED <<sOwners, lastOwned, winOwner, winData, draws>>
    ELSE
      /\ sOwners' = Saved(s, w)
      /\ lastOwned' =
            CASE Grabs(w)      -> s
              [] Disowns(s, w) -> IF sOwners[Other(s)] # None THEN Other(s) ELSE None
              [] OTHER         -> lastOwned
      /\ IF Grabs(w)
         THEN winOwner' = Bridge /\ winData' = "promise" /\ draws' = Notify
         ELSE UNCHANGED <<winOwner, winData, draws>>

\* The dispatcher runs the whole request, or as far as the test after which the
\* wrapper empties the clipboard.
ServeSetOwner(c, s, w) ==
    /\ emptying = None
    /\ WrapSetOwner(s, w)
    /\ IF Releases(c, s, w)
       THEN emptying' = s /\ UNCHANGED <<owner, socket>>
       ELSE SetOwner(c, s, w) /\ UNCHANGED emptying

\* OpenClipboard (NULL) and EmptyClipboard, whoever owns the clipboard by now;
\* then ProcSetSelectionOwner. Text copied since the test is lost.
EmptyAndRelease ==
    /\ emptying # None
    /\ emptying' = None
    /\ SetOwner(None, emptying, None)
    /\ IF appOpen
       THEN UNCHANGED <<winOwner, winData, draws>>
       ELSE winOwner' = None /\ winData' = "other" /\ draws' = Notify
    /\ UNCHANGED <<sOwners, lastOwned, lastDrawable, appOpen, outBuf, wire, libq,
                   thread, last, ops>>

-----------------------------------------------------------------------------
(* What X clients do, as the dispatcher runs their requests                 *)

Act ==
    /\ ops < MaxOps
    /\ ops' = ops + 1

Claim(c, s) ==
    /\ Act
    /\ ServeSetOwner(c, s, c)
    /\ last' = IF started /\ ~appOpen
               THEN [who |-> c, what |-> s, calm |-> Quiet] ELSE Nobody
    /\ UNCHANGED <<lastDrawable, appOpen, outBuf, wire, libq, thread>>

Disown(c, s) ==
    /\ Act
    /\ ServeSetOwner(c, s, None)
    /\ last' = IF last.who = App /\ owner[s] # Bridge THEN last ELSE Nobody
    /\ UNCHANGED <<lastDrawable, appOpen, outBuf, wire, libq, thread>>

\* The request's time is later than the server's, or earlier than the
\* selection's last change: the wrapper has done its work when
\* ProcSetSelectionOwner returns without doing any.
ClaimTooLate(c, s) ==
    /\ Act
    /\ emptying = None
    /\ WrapSetOwner(s, c)
    /\ last' = Nobody
    /\ UNCHANGED <<owner, lastDrawable, emptying, appOpen, xlib, thread>>

\* The client closes down or destroys its window: DeleteClientFromAnySelections
\* and DeleteWindowFromAnySelections do not pass through the wrapper.
Vanish(c) ==
    /\ Act
    /\ emptying = None
    /\ owner' = [s \in Sel |-> IF owner[s] = c THEN None ELSE owner[s]]
    /\ last' = IF last.who = c THEN Nobody ELSE last
    /\ UNCHANGED <<sOwners, lastOwned, lastDrawable, emptying, windows, draws, xlib,
                   thread>>

\* ProcConvertSelection sends a SelectionRequest to the owner.
Paste(s) ==
    /\ Act
    /\ emptying = None
    /\ owner[s] = Bridge
    /\ socket' = socket \cup {"request"}
    /\ UNCHANGED <<server, windows, draws, outBuf, wire, libq, thread, last>>

\* The bridge watches the root window: any client can make events for it.
RootEvent ==
    /\ Act
    /\ emptying = None
    /\ socket' = socket \cup {"other"}
    /\ UNCHANGED <<server, windows, draws, outBuf, wire, libq, thread, last>>

\* The dispatcher takes the bridge's next request.
ServeBridge ==
    /\ wire # << >> /\ emptying = None
    /\ wire' = Tail(wire)
    /\ LET r == Head(wire) IN
       IF r.kind = "own"
       THEN /\ ServeSetOwner(Bridge, r.sel, r.win)
            \* dixLookupWindow remembers the window it found
            /\ lastDrawable' = IF r.win = Bridge THEN Bridge ELSE lastDrawable
       ELSE /\ lastDrawable' = None
            /\ UNCHANGED <<owner, sOwners, lastOwned, emptying, winOwner, winData, draws,
                           socket>>
    /\ UNCHANGED <<appOpen, outBuf, libq, thread, last, ops>>

-----------------------------------------------------------------------------
(* What Windows programs do                                                 *)

\* Some programs leave no owner behind, whatever they copied. Text copied while
\* the server is about to empty the clipboard need not stand.
AppCopy(o, d) ==
    /\ Act
    /\ ~appOpen
    /\ winOwner' = o
    /\ winData' = d
    /\ draws' = Notify
    /\ last' = IF started /\ (emptying = None \/ d = "other")
               THEN [who |-> App, what |-> d, calm |-> Quiet] ELSE Nobody
    /\ UNCHANGED <<server, appOpen, xlib, thread>>

AppOpen ==
    /\ Act
    /\ ~appOpen
    /\ appOpen' = TRUE
    /\ UNCHANGED <<server, winOwner, winData, draws, xlib, thread, last>>

AppClose ==
    /\ appOpen
    /\ appOpen' = FALSE
    /\ UNCHANGED <<server, winOwner, winData, draws, xlib, thread, last, ops>>

-----------------------------------------------------------------------------
(* The clipboard thread: winClipboardProc up to its main loop               *)

\* winClipboardCreateMessagingWindow: WM_CREATE joins the chain, and Windows
\* greets a new viewer with a WM_DRAWCLIPBOARD.
CreateWindow ==
    /\ Goto("create", "assert")
    /\ joined' = TRUE
    /\ draws' = draws + 1
    /\ UNCHANGED <<server, windows, xlib, seen, cbcInit, started, last, ops>>

\* "Assert ownership of selections if Win32 clipboard is owned"; the pre-flush
\* of X events sends the requests.
AssertOwners ==
    /\ Goto("assert", "idle")
    /\ wire' = IF winOwner = None THEN wire
               ELSE wire \o <<Own("PRIMARY", Bridge), Own("CLIPBOARD", Bridge)>>
    /\ socket' = {}
    /\ UNCHANGED <<server, windows, draws, outBuf, libq, seen, joined, cbcInit,
                   started, last, ops>>

\* Windows messages have been pre-flushed.
Start ==
    /\ pc = "idle" /\ ~started /\ draws = 0
    /\ started' = TRUE
    /\ UNCHANGED <<server, windows, draws, xlib, pc, seen, joined, cbcInit, last, ops>>

(* winClipboardFlushXEvents, when select finds the connection readable      *)

FlushXEvents ==
    /\ started
    /\ pc = "idle"
    /\ socket # {}
    /\ socket' = {}
    /\ libq' = {}
    /\ outBuf' = << >>
    /\ wire' = wire \o outBuf
                 \o (IF "request" \in socket \cup libq THEN <<Answer>> ELSE << >>)
    /\ UNCHANGED <<server, windows, draws, thread, last, ops>>

(* WM_DRAWCLIPBOARD                                                         *)

\* Mutant: the bridge reacts to its own changes of the clipboard.
DrawOwnToo ==
    /\ pc = "idle"
    /\ draws > 0
    /\ draws' = draws - 1
    /\ cbcInit' = TRUE
    /\ pc' = IF ~cbcInit THEN "idle" ELSE "formats"
    /\ UNCHANGED <<server, windows, xlib, seen, joined, started, last, ops>>

\* The first message is swallowed; the bridge does not react to itself.
Draw ==
    /\ pc = "idle"
    /\ draws > 0
    /\ draws' = draws - 1
    /\ cbcInit' = TRUE
    /\ pc' = IF ~cbcInit \/ winOwner = Bridge THEN "idle" ELSE "formats"
    /\ UNCHANGED <<server, windows, xlib, seen, joined, started, last, ops>>

\* Text: take both selections and XFlush.
DrawText ==
    /\ winData # "other"
    /\ Goto("formats", "idle")
    /\ wire' = wire \o outBuf \o <<Own("PRIMARY", Bridge), Own("CLIPBOARD", Bridge)>>
    /\ outBuf' = << >>
    /\ UNCHANGED <<server, windows, draws, socket, libq, seen, joined, cbcInit,
                   started, last, ops>>

\* No text: XSync, then ask for each selection's owner and give it up.
DrawOther ==
    /\ winData = "other"
    /\ Goto("formats", "sync")
    /\ wire' = wire \o outBuf
    /\ outBuf' = << >>
    /\ UNCHANGED <<server, windows, draws, socket, libq, seen, joined, cbcInit,
                   started, last, ops>>

\* A reply comes behind everything sent before; the events read with it go to
\* Xlib's queue.
RoundTrip(from, to) ==
    /\ wire = << >> /\ emptying = None
    /\ Goto(from, to)
    /\ libq' = libq \cup socket
    /\ socket' = {}
    /\ UNCHANGED <<server, windows, draws, outBuf, wire, joined, cbcInit, started,
                   last, ops>>

Sync     == RoundTrip("sync", "getP") /\ UNCHANGED seen
GetOwnerP == RoundTrip("getP", "relP") /\ seen' = owner["PRIMARY"]
GetOwnerC == RoundTrip("getC", "relC") /\ seen' = owner["CLIPBOARD"]

\* Mutant: the owner is compared with the wrong window.
DisowningNever(s) == << >>

Disowning(s) == IF seen = Bridge THEN <<Own(s, None)>> ELSE << >>

\* The next XGetSelectionOwner sends this request along.
ReleaseP ==
    /\ Goto("relP", "getC")
    /\ wire' = wire \o Disowning("PRIMARY")
    /\ UNCHANGED <<server, windows, draws, outBuf, socket, libq, seen, joined,
                   cbcInit, started, last, ops>>

\* Nothing sends this one.
ReleaseC ==
    /\ Goto("relC", "idle")
    /\ outBuf' = outBuf \o Disowning("CLIPBOARD")
    /\ UNCHANGED <<server, windows, draws, wire, socket, libq, seen, joined,
                   cbcInit, started, last, ops>>

-----------------------------------------------------------------------------
ThreadStep ==
    \/ CreateWindow
    \/ AssertOwners
    \/ Start
    \/ FlushXEvents
    \/ Draw
    \/ DrawText
    \/ DrawOther
    \/ Sync
    \/ GetOwnerP
    \/ GetOwnerC
    \/ ReleaseP
    \/ ReleaseC

Environment ==
    \/ \E c \in Client, s \in Sel : Claim(c, s)
    \/ \E c \in Client, s \in Sel : Disown(c, s)
    \/ \E c \in Client, s \in Sel : ClaimTooLate(c, s)
    \/ \E c \in Client : Vanish(c)
    \/ \E s \in Sel : Paste(s)
    \/ RootEvent
    \/ \E o \in {App, None}, d \in {"text", "other"} : AppCopy(o, d)
    \/ AppOpen

ServerStep == ServeBridge \/ EmptyAndRelease

Next == ServerStep \/ ThreadStep \/ Environment \/ AppClose

\* The server dispatches, the thread runs, programs close the clipboard.
Fairness ==
    /\ WF_vars(ServerStep)
    /\ WF_vars(ThreadStep)
    /\ WF_vars(AppClose)

Spec     == Init /\ [][Next]_vars
FairSpec == Spec /\ Fairness

-----------------------------------------------------------------------------
(* Properties                                                               *)

\* An X client that takes a selection while nothing else is under way keeps it,
\* and Windows programs get the text of that selection: winProcSetSelectionOwner
\* and the WM_DRAWCLIPBOARD it causes agree on who the owner is.
QuietClaimStands ==
    last.who \in Client /\ last.calm =>
        /\ owner[last.what] = last.who
        /\ winOwner = Bridge /\ winData = "promise"
        /\ lastOwned = last.what

\* What the bridge asks of the server never makes the server take the Windows
\* clipboard: a Windows copy that is announced to X does not echo back.
NoEcho == [][winOwner' = Bridge /\ winOwner # Bridge => wire' = wire]_vars

\* Text that a Windows program copied last stays on the clipboard and ends up
\* as both X selections, whatever was under way when it was copied. The one
\* exception, which AppCopy keeps out of last: text copied between the test of
\* the clipboard's owner and the emptying that rests on it is lost.
TextCopyReachesX ==
    <>[](last.who = App /\ last.what = "text" =>
            /\ winOwner # Bridge /\ winData = "text"
            /\ \A s \in Sel : owner[s] = Bridge)

\* When a Windows program copied last and it was not text, the bridge gives up the
\* selections it owns; the request for CLIPBOARD may be left in Xlib's buffer.
OtherCopyReleases ==
    <>[](last.who = App /\ last.what = "other" =>
            /\ owner["PRIMARY"] # Bridge
            /\ owner["CLIPBOARD"] = Bridge => Own("CLIPBOARD", None) \in Range(outBuf))

\* "Release CLIPBOARD selection if owned": the server learns of it.
ReleaseArrives ==
    <>[](last.who = App /\ last.what = "other" =>
            \A s \in Sel : owner[s] # Bridge)
=============================================================================
