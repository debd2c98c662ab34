---------------------------- MODULE MultiWindowWM ----------------------------
(***************************************************************************)
(* The two window manager threads of Xming in one generation of the        *)
(* server (hw/xwin/winmultiwindowwm.c): how they start once the server     *)
(* runs, and how they give way to another window manager.                  *)
(*                                                                         *)
(*   - The server thread holds pmServerStarted until its first block       *)
(*     handler, sends work to the WM thread, and handles what the XMsg     *)
(*     thread sends it with SendMessage.                                   *)
(*   - The XMsg thread watches the root window.  With fAllowOtherWM it     *)
(*     finds out whether another window manager runs by asking for the     *)
(*     events only one client can have and waiting for the error.          *)
(*   - The WM thread takes messages from the queue, unless another window  *)
(*     manager runs.                                                       *)
(*                                                                         *)
(* Both threads are X clients of the server, and Xlib's error handler is   *)
(* one for all connections of the process: winRedirectErrorHandler takes   *)
(* any error of any thread for a sign of another window manager.  The      *)
(* queue is the channel that MessageFifo specifies and WMQueue implements. *)
(***************************************************************************)
EXTENDS Naturals, Sequences

CONSTANTS
    MaxSends,       \* bound: messages of the server to the WM thread
    MaxEvents,      \* bound: windows created and properties changed
    MaxStarts       \* bound: attempts of another window manager to start

ASSUME BoundAssumption == {MaxSends, MaxEvents, MaxStarts} \subseteq Nat

VARIABLES
    fAllowOtherWM,      \* -internalwm rather than -multiwindow
    \* the server
    fServerStarted,
    pmServerStarted,    \* who holds it
    root,               \* who has the root window's exclusive events
    listening,          \* whether the XMsg thread has SubstructureNotify on it
    fAnotherWMRunning,  \* pScreenInfo->fAnotherWMRunning
    \* the process
    handler,            \* Xlib's error handler
    redirectError,
    g_fAnotherWMRunnig,
    \* the threads
    xpc, wpc,
    first,              \* the XMsg thread has not finished its first check
    xErr,               \* an X error for the XMsg thread is on its way
    events,             \* X events the XMsg thread has not fetched
    queue, inHand,      \* the channel to the WM thread
    \* history and bounds
    late,               \* messages taken since another window manager was found
    sends, noise, starts

mutex   == <<fServerStarted, pmServerStarted>>
server  == <<root, listening, fAnotherWMRunning>>
process == <<handler, redirectError, g_fAnotherWMRunnig>>
xmsg    == <<xpc, first, xErr, events>>
channel == <<queue, inHand>>
bounds  == <<sends, noise, starts>>
vars    == <<fAllowOtherWM, mutex, server, process, xmsg, wpc, channel, late, bounds>>

Message == {"server", "name"}
Fifo    == INSTANCE MessageFifo

Starting == {"start", "init", "install", "open"}
XPC == Starting \cup {"begin", "select", "sync", "restore", "deselect", "decide",
                      "loop", "unmanage", "manage", "exit"}
WPC == Starting \cup {"loop", "pop", "handle", "exit"}

Other  == root = "other"
XMsgUp == xpc \notin Starting \cup {"exit"}
WMUp   == wpc \notin Starting \cup {"exit"}

\* Every variable has its type; the flags are only used with fAllowOtherWM, and the
\* WM thread has a message in hand exactly while it handles one.
TypeOK ==
    /\ {fAllowOtherWM, fServerStarted, listening, fAnotherWMRunning, redirectError,
        g_fAnotherWMRunnig, first, xErr} \subseteq BOOLEAN
    /\ (fAnotherWMRunning \/ g_fAnotherWMRunnig) => fAllowOtherWM
    /\ pmServerStarted \in {"server", "xmsg", "wm", "none"}
    /\ root \in {"none", "xmsg", "other"}
    /\ handler \in {"default", "xmsg", "wm", "redirect"}
    /\ xpc \in XPC /\ wpc \in WPC
    /\ events \in Seq({"create", "property"})
    /\ queue \in Seq(Message) /\ inHand \in Seq(Message)
    /\ Len(inHand) = IF wpc = "handle" THEN 1 ELSE 0
    /\ late \in Nat
    /\ sends \in 0..MaxSends /\ noise \in 0..MaxEvents /\ starts \in 0..MaxStarts

\* g_fAnotherWMRunnig and the screen's fAnotherWMRunning are static: an earlier
\* generation may have left them set.
Init ==
    /\ fAllowOtherWM \in BOOLEAN
    /\ fServerStarted = FALSE
    /\ pmServerStarted = "server"
    /\ root = "none" /\ listening = FALSE
    /\ g_fAnotherWMRunnig \in {FALSE, fAllowOtherWM}
    /\ fAnotherWMRunning \in {FALSE, fAllowOtherWM}
    /\ handler = "default" /\ redirectError = FALSE
    /\ xpc = "start" /\ wpc = "start" /\ first = TRUE
    /\ xErr = FALSE
    /\ events = << >>
    /\ Fifo!Init
    /\ late = 0 /\ sends = 0 /\ noise = 0 /\ starts = 0

-----------------------------------------------------------------------------
(* The server                                                               *)

\* The first winBlockHandler
StartServer ==
    /\ ~fServerStarted
    /\ fServerStarted' = TRUE
    /\ pmServerStarted' = "none"
    /\ UNCHANGED <<server, process, xmsg, wpc, channel, late, bounds>>

\* winSendMessageToWM from a window procedure: the user acts on a window, or one is
\* mapped.  With fAllowOtherWM it depends on winIsInternalWMRunning.
SendMessageToWM ==
    /\ fServerStarted
    /\ ~fAnotherWMRunning
    /\ sends < MaxSends
    /\ sends' = sends + 1
    /\ Fifo!Send("server")
    /\ UNCHANGED <<mutex, server, process, xmsg, wpc, late, noise, starts>>

\* winWindowProc gets WM_UNMANAGE, and SendMessage returns.
HandleUnmanage ==
    /\ xpc = "unmanage"
    /\ fAnotherWMRunning' = TRUE
    /\ xpc' = "loop"
    /\ UNCHANGED <<mutex, root, listening, process, first, xErr, events, wpc, channel,
                   late, bounds>>

\* WM_MANAGE: a window that gets its decoration back sends its name along.
HandleManage ==
    /\ xpc = "manage"
    /\ fAnotherWMRunning' = FALSE
    /\ xpc' = "loop"
    /\ \/ UNCHANGED <<channel, sends>>
       \/ sends < MaxSends /\ sends' = sends + 1 /\ Fifo!Send("server")
    /\ UNCHANGED <<mutex, root, listening, process, first, xErr, events, wpc, late, noise,
                   starts>>

\* A window is created, which the XMsg thread hears of while it listens, or a
\* property of a window it knows changes.
XEvent(e) ==
    /\ fServerStarted /\ noise < MaxEvents
    /\ e = "create" => listening
    /\ noise' = noise + 1
    /\ events' = Append(events, e)
    /\ UNCHANGED <<mutex, server, process, xpc, first, xErr, wpc, channel, late, sends,
                   starts>>

\* Another window manager asks for the root window's exclusive events, and gives up
\* if it cannot have them.
StartOther ==
    /\ fServerStarted /\ starts < MaxStarts /\ ~Other
    /\ starts' = starts + 1
    /\ root' = IF root = "none" THEN "other" ELSE root
    /\ UNCHANGED <<mutex, listening, fAnotherWMRunning, process, xmsg, wpc, channel, late,
                   sends, noise>>

StopOther ==
    /\ Other
    /\ root' = "none"
    /\ UNCHANGED <<mutex, listening, fAnotherWMRunning, process, xmsg, wpc, channel, late,
                   bounds>>

Server      == StartServer \/ HandleUnmanage \/ HandleManage
Environment == SendMessageToWM \/ StartOther \/ StopOther
                 \/ \E e \in {"create", "property"} : XEvent(e)

-----------------------------------------------------------------------------
(* winMultiWindowXMsgProc                                                   *)

XGoto(from, to) == xpc = from /\ xpc' = to

XStart ==
    /\ XGoto("start", "init")
    /\ pmServerStarted = "none"
    /\ pmServerStarted' = "xmsg"
    /\ UNCHANGED <<fServerStarted, server, process, first, xErr, events, wpc, channel, late,
                   bounds>>

\* XInitThreads or XSupportsLocale may fail; the thread then exits with the mutex.
Unlock(ok) == IF ok THEN "none" ELSE pmServerStarted

XInit(ok) ==
    /\ XGoto("init", IF ok THEN "install" ELSE "exit")
    /\ pmServerStarted' = Unlock(ok)
    /\ UNCHANGED <<fServerStarted, server, process, first, xErr, events, wpc, channel, late,
                   bounds>>

XInstall ==
    /\ XGoto("install", "open")
    /\ handler' = "xmsg"
    /\ UNCHANGED <<mutex, server, redirectError, g_fAnotherWMRunnig, first, xErr, events,
                   wpc, channel, late, bounds>>

\* XOpenDisplay, until it succeeds or the retries are used up.  The first check
\* follows.
XOpen(ok) ==
    /\ XGoto("open", IF ok THEN "begin" ELSE "exit")
    /\ UNCHANGED <<mutex, server, process, first, xErr, events, wpc, channel, late, bounds>>

(* The check: CheckAnotherWindowManager, or without fAllowOtherWM the       *)
(* simpler one before the loop                                              *)

\* Mutant: the result of the last check is kept.
BeginUncleared ==
    /\ XGoto("begin", "select")
    /\ handler' = "redirect"
    /\ UNCHANGED <<mutex, server, redirectError, g_fAnotherWMRunnig, first, xErr, events,
                   wpc, channel, late, bounds>>

Begin ==
    /\ XGoto("begin", "select")
    /\ redirectError' = FALSE
    /\ handler' = "redirect"
    /\ UNCHANGED <<mutex, server, g_fAnotherWMRunnig, first, xErr, events, wpc, channel,
                   late, bounds>>

\* The server gets XSelectInput with the exclusive events; those of the check do not
\* include the creation of windows.
Select ==
    /\ XGoto("select", "sync")
    /\ IF Other
       THEN xErr' = TRUE /\ UNCHANGED <<root, listening>>
       ELSE root' = "xmsg" /\ listening' = ~fAllowOtherWM /\ UNCHANGED xErr
    /\ UNCHANGED <<mutex, fAnotherWMRunning, process, first, events, wpc, channel, late,
                   bounds>>

\* XSync brings in every error and calls the handler of the moment.
Sync ==
    /\ XGoto("sync", "restore")
    /\ redirectError' = (redirectError \/ (xErr /\ handler = "redirect"))
    /\ xErr' = FALSE
    /\ UNCHANGED <<mutex, server, handler, g_fAnotherWMRunnig, first, events, wpc, channel,
                   late, bounds>>

Restore ==
    /\ XGoto("restore", IF fAllowOtherWM THEN "deselect" ELSE "decide")
    /\ handler' = "xmsg"
    /\ UNCHANGED <<mutex, server, redirectError, g_fAnotherWMRunnig, first, xErr, events,
                   wpc, channel, late, bounds>>

\* XSelectInput without the exclusive events, and XSync
Deselect ==
    /\ XGoto("deselect", "decide")
    /\ root' = IF Other THEN root ELSE "none"
    /\ listening' = TRUE
    /\ UNCHANGED <<mutex, fAnotherWMRunning, process, first, xErr, events, wpc, channel,
                   late, bounds>>

\* The first check sets the flag and tells nobody.  Without fAllowOtherWM the thread
\* exits if it believes in another window manager.
ConcludeFirst ==
    /\ first
    /\ first' = FALSE
    /\ IF fAllowOtherWM
       THEN XGoto("decide", "loop") /\ g_fAnotherWMRunnig' = redirectError
       ELSE IF redirectError
            THEN XGoto("decide", "exit") /\ UNCHANGED g_fAnotherWMRunnig
            ELSE XGoto("decide", "loop") /\ g_fAnotherWMRunnig' = FALSE
    /\ late' = IF redirectError THEN late ELSE 0
    /\ UNCHANGED <<mutex, server, handler, redirectError, xErr, events, wpc, channel, bounds>>

\* Mutant: WM_MANAGE is not sent.
NewsOfOne ==
    CASE redirectError = g_fAnotherWMRunnig       -> "loop"
      [] redirectError /\ ~g_fAnotherWMRunnig     -> "unmanage"
      [] ~redirectError /\ g_fAnotherWMRunnig     -> "loop"

\* The server is told of a change.
News ==
    CASE redirectError = g_fAnotherWMRunnig       -> "loop"
      [] redirectError /\ ~g_fAnotherWMRunnig     -> "unmanage"
      [] ~redirectError /\ g_fAnotherWMRunnig     -> "manage"

\* Mutant: once set the flag stays.
FoundForEver == g_fAnotherWMRunnig \/ redirectError

Found == redirectError

Conclude ==
    /\ ~first
    /\ XGoto("decide", News)
    /\ g_fAnotherWMRunnig' = Found
    /\ late' = IF redirectError THEN late ELSE 0
    /\ UNCHANGED <<mutex, server, handler, redirectError, first, xErr, events, wpc, channel,
                   bounds>>

\* Mutant: the check is made without fAllowOtherWM, too.
CheckAlways ==
    /\ events = << >>
    /\ XGoto("loop", "begin")
    /\ xErr' \in {FALSE, xErr}
    /\ UNCHANGED <<mutex, server, process, first, events, wpc, channel, late, bounds>>

\* XPending finds nothing: time for a check.  It may have met an error, of which only
\* a redirect handler would make anything.
CheckAgain ==
    /\ fAllowOtherWM
    /\ events = << >>
    /\ XGoto("loop", "begin")
    /\ xErr' \in {FALSE, xErr}
    /\ UNCHANGED <<mutex, server, process, first, events, wpc, channel, late, bounds>>

\* XNextEvent.  A new window may be gone before XSetWindowBorderWidth arrives; a
\* property is left to the WM thread.
FetchEvent ==
    /\ XGoto("loop", "loop")
    /\ events # << >>
    /\ events' = Tail(events)
    /\ IF Head(events) = "create"
       THEN xErr' \in {TRUE, xErr} /\ UNCHANGED channel
       ELSE Fifo!Send("name") /\ UNCHANGED xErr
    /\ UNCHANGED <<mutex, server, process, first, wpc, late, bounds>>

XMsg == \/ XStart \/ XInstall \/ Begin \/ Select \/ Sync \/ Restore \/ Deselect
        \/ ConcludeFirst \/ Conclude \/ CheckAgain \/ FetchEvent
        \/ \E ok \in BOOLEAN : XInit(ok) \/ XOpen(ok)

-----------------------------------------------------------------------------
(* winMultiWindowWMProc                                                     *)

WGoto(from, to) == wpc = from /\ wpc' = to

\* Mutant: the thread does not wait for the mutex.
WStartAtOnce ==
    /\ WGoto("start", "init")
    /\ UNCHANGED <<mutex, server, process, xmsg, channel, late, bounds>>

WStart ==
    /\ WGoto("start", "init")
    /\ pmServerStarted = "none"
    /\ pmServerStarted' = "wm"
    /\ UNCHANGED <<fServerStarted, server, process, xmsg, channel, late, bounds>>

WInit(ok) ==
    /\ WGoto("init", IF ok THEN "install" ELSE "exit")
    /\ pmServerStarted' = Unlock(ok)
    /\ UNCHANGED <<fServerStarted, server, process, xmsg, channel, late, bounds>>

\* Whatever handler the XMsg thread has installed is replaced.
WInstall ==
    /\ WGoto("install", "open")
    /\ handler' = "wm"
    /\ UNCHANGED <<mutex, server, redirectError, g_fAnotherWMRunnig, xmsg, channel, late,
                   bounds>>

WOpen(ok) ==
    /\ WGoto("open", IF ok THEN "loop" ELSE "exit")
    /\ UNCHANGED <<mutex, server, process, xmsg, channel, late, bounds>>

\* Mutant: the flag is not looked at.
WTestNothing ==
    /\ WGoto("loop", "pop")
    /\ UNCHANGED <<mutex, server, process, xmsg, channel, late, bounds>>

\* The thread sleeps while another window manager runs.
WTest ==
    /\ ~g_fAnotherWMRunnig
    /\ WGoto("loop", "pop")
    /\ UNCHANGED <<mutex, server, process, xmsg, channel, late, bounds>>

\* PopMessage, which waits for a message
WPop ==
    /\ WGoto("pop", "handle")
    /\ Fifo!Receive
    /\ late' = IF g_fAnotherWMRunnig THEN late + 1 ELSE late
    /\ UNCHANGED <<mutex, server, process, xmsg, bounds>>

\* The message is handled with X requests; if the window is gone the handler of the
\* moment is called.
WHandle(gone) ==
    /\ WGoto("handle", "loop")
    /\ Fifo!Finish
    /\ redirectError' = (redirectError \/ (gone /\ handler = "redirect"))
    /\ UNCHANGED <<mutex, server, handler, g_fAnotherWMRunnig, xmsg, late, bounds>>

WM == \/ WStart \/ WInstall \/ WTest \/ WPop
      \/ \E yes \in BOOLEAN : WInit(yes) \/ WOpen(yes) \/ WHandle(yes)

Next == (Server \/ Environment \/ XMsg \/ WM) /\ UNCHANGED fAllowOtherWM

Spec == Init /\ [][Next]_vars

\* The threads are scheduled; the mutex is taken once by each, and Sleep ends.  The
\* user, other clients and other window managers owe nothing.
FairSpec == /\ Spec
            /\ WF_vars(Server /\ UNCHANGED fAllowOtherWM)
            /\ WF_vars(XMsg /\ UNCHANGED fAllowOtherWM)
            /\ WF_vars(WM /\ UNCHANGED fAllowOtherWM)

-----------------------------------------------------------------------------
(* Properties                                                               *)

\* Neither thread touches Xlib before the server runs, and they initialise Xlib one
\* after the other (winscrinit.c:573, winblock.c:70), also when one of them fails.
StartsInTurn ==
    /\ (xpc # "start" \/ wpc # "start") => fServerStarted
    /\ ~(xpc = "init" /\ wpc = "init")

\* After g_fAnotherWMRunnig is set, the WM thread takes at most the one message it
\* was waiting for: the two managers do not both go on managing (winmultiwindowwm.c:641).
OneMoreMessage == late <= 1

\* Once the server's idea of another window manager and that of the threads agree,
\* they differ only while a SendMessage that tells of the difference is under way
\* (winmultiwindowwm.c:1000-1014).
Agree == \/ g_fAnotherWMRunnig = fAnotherWMRunning
         \/ xpc = "unmanage" /\ g_fAnotherWMRunnig
         \/ xpc = "manage" /\ ~g_fAnotherWMRunnig
FlagsStayTogether == [][~first /\ Agree => Agree']_vars

\* If other window managers stop coming and going, the threads end up knowing whether
\* one runs, whatever errors and handlers they have mixed up before.
FlagSettles == <>[](fAllowOtherWM /\ XMsgUp => g_fAnotherWMRunnig = Other)

\* When no other window manager stays, all work sent to the WM thread is done.
WorkGetsDone == <>[](XMsgUp /\ WMUp /\ ~Other => queue = << >>)
=============================================================================
