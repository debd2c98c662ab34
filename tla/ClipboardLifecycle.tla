-------------------------- MODULE ClipboardLifecycle --------------------------
(***************************************************************************)
(* The clipboard client over the generations of the X server: who launches *)
(* its thread, how it starts, and how the server gets rid of it before a   *)
(* reset.                                                                  *)
(*                                                                         *)
(* Every generation InitInput wraps InitialVector[2] and, with XDMCP,      *)
(* ProcVector[X_QueryTree].  The wrappers launch the thread and take       *)
(* themselves out, leaving a NULL pointer to the original procedure        *)
(* behind.  ddxBeforeReset destroys the thread's window with SendMessage,  *)
(* which waits for the thread to process messages, and joins the thread;   *)
(* the thread, an X client, waits in its round trips for the very server   *)
(* thread that is waiting for it.                                          *)
(***************************************************************************)
EXTENDS Naturals, FiniteSets

CONSTANTS
    Thread,             \* what pthread_create can return
    NULL,
    MaxGen,             \* bound: generations of the server
    MaxConns            \* bound: connections of other clients in a generation

ASSUME LifecycleAssumption ==
    /\ NULL \notin Thread
    /\ MaxGen \in Nat \ {0} /\ MaxConns \in Nat

VARIABLES
    \* the command line
    g_fClipboard,       \* the clipboard is enabled
    g_fXdmcpEnabled,    \* the server runs an XDMCP session
    \* the server thread
    phase,              \* where main and Dispatch are
    sentTo,             \* the thread of the window that SendMessage waits for
    serverGeneration,
    wrapped,            \* the entries that hold Xming's wrapper
    orig,               \* winProc...Orig: "orig" or NULL
    calls,              \* s_iCallCount
    callGen,            \* s_ulServerGeneration of winProcEstablishConnection
    \* globals shared with the clipboard thread
    launched,           \* g_fClipboardLaunched
    started,            \* g_fClipboardStarted
    hwnd,               \* g_hwndClipboard: the thread whose window it is
    joinee,             \* g_ptClipboardProc
    \* the clipboard threads
    tpc,
    conn,               \* the thread's connection to the server
    quit,               \* PostQuitMessage was called
    \* history and bounds
    launches,           \* in this generation
    accepted,           \* other clients accepted in this generation
    spoiled,            \* the wrapper went without a launch
    conns

table   == <<wrapped, orig, calls, callGen>>
globals == <<launched, started, hwnd, joinee>>
threads == <<tpc, conn, quit>>
history == <<launches, accepted, spoiled, conns>>
options == <<g_fClipboard, g_fXdmcpEnabled>>
state   == <<phase, sentTo, serverGeneration, table, globals, threads, history>>
vars    == <<options, state>>

Entry == {"EstablishConnection", "QueryTree"}
TPC   == {"none", "new", "connect", "setup", "window", "flush", "start",
          "loop", "trip", "quit", "ended"}

TypeOK ==
    /\ g_fClipboard \in BOOLEAN /\ g_fXdmcpEnabled \in BOOLEAN
    /\ phase \in {"init", "dispatch", "destroy", "join", "kill"}
    /\ serverGeneration \in 1..MaxGen
    /\ wrapped \in SUBSET Entry
    /\ orig \in [Entry -> {"orig", NULL}]
    /\ calls \in 0..4 /\ callGen \in 0..MaxGen
    /\ launched \in BOOLEAN /\ started \in BOOLEAN
    /\ hwnd \in Thread \cup {NULL} /\ sentTo \in Thread \cup {NULL}
    /\ joinee \in Thread \cup {NULL}
    /\ tpc \in [Thread -> TPC]
    /\ conn \in [Thread -> {"none", "open", "closed"}]
    /\ quit \in [Thread -> BOOLEAN]
    /\ launches \in Nat /\ accepted \in Nat /\ conns \in Nat
    /\ spoiled \in BOOLEAN

Init ==
    /\ g_fClipboard \in BOOLEAN /\ g_fXdmcpEnabled \in BOOLEAN
    /\ phase = "init"
    /\ serverGeneration = 1
    /\ wrapped = {}
    /\ orig = [e \in Entry |-> NULL]
    /\ calls = 0 /\ callGen = 0
    /\ launched = FALSE /\ started = FALSE
    /\ hwnd = NULL /\ sentTo = NULL /\ joinee = NULL
    /\ tpc = [t \in Thread |-> "none"]
    /\ conn = [t \in Thread |-> "none"]
    /\ quit = [t \in Thread |-> FALSE]
    /\ launches = 0 /\ accepted = 0 /\ conns = 0
    /\ spoiled = FALSE

-----------------------------------------------------------------------------
(* A generation begins: winInitializeGlobals and InitInput                  *)

Entries == {e \in Entry : e = "QueryTree" => g_fXdmcpEnabled}

\* Mutant: the original is saved in the first generation only.
WrapOnce ==
    /\ wrapped' = wrapped \cup Entries
    /\ orig' = [e \in Entry |-> IF e \in Entries /\ serverGeneration = 1
                                THEN "orig" ELSE orig[e]]

\* An entry that still holds the wrapper is left as it is.
Wrap ==
    /\ wrapped' = wrapped \cup Entries
    /\ orig' = [e \in Entry |-> IF e \in Entries \ wrapped THEN "orig" ELSE orig[e]]

\* Mutant: the flag of the last generation is kept.
InitializeMost ==
    /\ started' = FALSE
    /\ hwnd' = NULL
    /\ UNCHANGED <<launched, joinee>>

InitializeGlobals ==
    /\ launched' = FALSE
    /\ started' = FALSE
    /\ hwnd' = NULL
    /\ UNCHANGED joinee

StartGeneration ==
    /\ phase = "init"
    /\ phase' = "dispatch"
    /\ Wrap
    /\ InitializeGlobals
    /\ launches' = 0 /\ accepted' = 0 /\ conns' = 0 /\ spoiled' = FALSE
    /\ UNCHANGED <<sentTo, serverGeneration, calls, callGen, threads>>

-----------------------------------------------------------------------------
(* The wrappers                                                             *)

\* Mutant: the wrapper is left in the table.
UnwrapNot(e) == UNCHANGED wrapped

Unwrap(e) == wrapped' = wrapped \ {e}

\* Mutant: nobody remembers the launch.
InitClipboardQuietly ==
    \/ \E t \in Thread :
          /\ tpc[t] = "none"
          /\ tpc' = [tpc EXCEPT ![t] = "new"]
          /\ joinee' = t
          /\ launches' = launches + 1
          /\ UNCHANGED <<launched, spoiled>>
    \/ spoiled' = TRUE /\ UNCHANGED <<tpc, joinee, launched, launches>>

\* winInitClipboard: pthread_create may fail.
InitClipboard ==
    \/ \E t \in Thread :
          /\ tpc[t] = "none"
          /\ tpc' = [tpc EXCEPT ![t] = "new"]
          /\ joinee' = t
          /\ launched' = TRUE
          /\ launches' = launches + 1
          /\ UNCHANGED spoiled
    \/ spoiled' = TRUE /\ UNCHANGED <<tpc, joinee, launched, launches>>

NoLaunch == UNCHANGED <<tpc, joinee, launched, launches>>

\* Mutant: the count goes on over a reset.
CallCountForEver == calls + 1

CallCount == (IF callGen = serverGeneration THEN calls ELSE 0) + 1

\* With XDMCP the wrapper stays for three connections, unless the thread has
\* been launched already.
Early == g_fXdmcpEnabled /\ ~launched /\ CallCount < 4

\* winProcEstablishConnection, for a connection that ProcEstablishConnection
\* accepts or refuses.
WrappedConnection(ok) ==
    /\ IF g_fClipboard
       THEN calls' = CallCount /\ callGen' = serverGeneration
       ELSE UNCHANGED <<calls, callGen>>
    /\ \/ /\ g_fClipboard /\ Early
          /\ UNCHANGED <<wrapped, orig, spoiled>> /\ NoLaunch
       \/ /\ ~g_fClipboard
          /\ Unwrap("EstablishConnection")
          /\ orig' = [orig EXCEPT !["EstablishConnection"] = NULL]
          /\ UNCHANGED spoiled /\ NoLaunch
       \/ /\ g_fClipboard /\ ~Early /\ ~ok
          /\ Unwrap("EstablishConnection")
          /\ spoiled' = (spoiled \/ ~launched)
          /\ UNCHANGED orig /\ NoLaunch
       \/ /\ g_fClipboard /\ ~Early /\ ok
          /\ Unwrap("EstablishConnection")
          /\ orig' = [orig EXCEPT !["EstablishConnection"] = NULL]
          /\ IF launched THEN UNCHANGED spoiled /\ NoLaunch ELSE InitClipboard

EstablishConnection(ok) ==
    IF "EstablishConnection" \in wrapped
    THEN WrappedConnection(ok)
    ELSE UNCHANGED <<table, spoiled>> /\ NoLaunch

Connect(ok) ==
    /\ phase = "dispatch" /\ conns < MaxConns
    /\ conns' = conns + 1
    /\ EstablishConnection(ok)
    /\ accepted' = IF ok THEN accepted + 1 ELSE accepted
    /\ UNCHANGED <<phase, sentTo, serverGeneration, started, hwnd, conn, quit>>

\* winProcQueryTree
QueryTree(ok) ==
    /\ phase = "dispatch" /\ accepted > 0
    /\ "QueryTree" \in wrapped
    /\ Unwrap("QueryTree")
    /\ orig' = IF ok THEN [orig EXCEPT !["QueryTree"] = NULL] ELSE orig
    /\ IF ok /\ g_fClipboard /\ ~launched
       THEN InitClipboard
       ELSE UNCHANGED spoiled /\ NoLaunch
    /\ UNCHANGED <<phase, sentTo, serverGeneration, calls, callGen, started, hwnd, conn, quit, accepted, conns>>

-----------------------------------------------------------------------------
(* Dispatch leaves its loop: ddxBeforeReset, winClipboardShutdown,          *)
(* KillAllClients                                                           *)

BeforeReset ==
    /\ phase = "dispatch" /\ serverGeneration < MaxGen
    /\ phase' = IF g_fClipboard /\ launched /\ started /\ hwnd # NULL
                THEN "destroy" ELSE "kill"
    /\ sentTo' = hwnd
    /\ UNCHANGED <<serverGeneration, table, globals, threads, history>>

\* SendMessage to a window that is gone fails at once; otherwise see
\* HandleDestroy.
WindowGone ==
    /\ phase = "destroy" /\ tpc[sentTo] = "ended"
    /\ phase' = "join"
    /\ UNCHANGED <<sentTo, serverGeneration, table, globals, threads, history>>

Join ==
    /\ phase = "join" /\ tpc[joinee] = "ended"
    /\ phase' = "kill"
    /\ launched' = FALSE /\ started' = FALSE
    /\ UNCHANGED <<sentTo, serverGeneration, table, hwnd, joinee, threads, history>>

\* The next generation begins after FreeAllResources, CloseScreen and so on.
KillAllClients ==
    /\ phase = "kill"
    /\ phase' = "init"
    /\ serverGeneration' = serverGeneration + 1
    /\ conn' = [t \in Thread |-> IF conn[t] = "open" THEN "closed" ELSE conn[t]]
    /\ UNCHANGED <<sentTo, table, globals, tpc, quit, history>>

-----------------------------------------------------------------------------
(* winClipboardProc                                                         *)

Goto(t, from, to) ==
    /\ tpc[t] = from
    /\ tpc' = [tpc EXCEPT ![t] = to]

\* Locale, setjmp, error handlers.
Prepare(t) ==
    /\ Goto(t, "new", "connect")
    /\ UNCHANGED <<phase, sentTo, serverGeneration, table, globals, conn, quit, history>>

\* XOpenDisplay: the server accepts or refuses the thread like any other client;
\* a thread that is left over from an earlier generation may be the first one.
\* Refused, it tries again later, at most WIN_CONNECT_RETRIES times.
OpenDisplay(t, ok) ==
    /\ tpc[t] = "connect" /\ conn[t] = "none"
    /\ phase = "dispatch"
    /\ EstablishConnection(ok)
    /\ conn' = [conn EXCEPT ![t] = IF ok THEN "open" ELSE "none"]
    /\ UNCHANGED <<phase, sentTo, serverGeneration, started, hwnd, quit, accepted,
                   conns>>

Connected(t) ==
    /\ conn[t] # "none"
    /\ Goto(t, "connect", "setup")
    /\ UNCHANGED <<phase, sentTo, serverGeneration, table, globals, conn, quit, history>>

GiveUp(t) ==
    /\ conn[t] = "none"
    /\ Goto(t, "connect", "ended")
    /\ UNCHANGED <<phase, sentTo, serverGeneration, table, globals, conn, quit, history>>

\* A round trip: XInternAtom before the window is made and in the first
\* winClipboardFlushXEvents; XSync, XGetSelectionOwner, XGetWindowProperty later.
Reply == [setup |-> "window", flush |-> "start", trip |-> "loop"]

ServeTrip(t) ==
    /\ phase = "dispatch" /\ conn[t] = "open"
    /\ tpc[t] \in DOMAIN Reply
    /\ tpc' = [tpc EXCEPT ![t] = Reply[tpc[t]]]
    /\ UNCHANGED <<phase, sentTo, serverGeneration, table, globals, conn, quit, history>>

CreateWindow(t) ==
    /\ Goto(t, "window", "flush")
    /\ hwnd' = t
    /\ UNCHANGED <<phase, sentTo, serverGeneration, table, launched, started, joinee, conn, quit, history>>

Start(t) ==
    /\ Goto(t, "start", "loop")
    /\ started' = TRUE
    /\ UNCHANGED <<phase, sentTo, serverGeneration, table, launched, hwnd, joinee, conn, quit, history>>

\* A Windows message or an X event makes the thread ask the server something.
Trip(t) ==
    /\ Goto(t, "loop", "trip")
    /\ UNCHANGED <<phase, sentTo, serverGeneration, table, globals, conn, quit, history>>

\* Mutant: WM_DESTROY posts no WM_QUIT.
HandleDestroyOnly(t) ==
    /\ phase = "destroy" /\ sentTo = t /\ tpc[t] = "loop"
    /\ phase' = "join"
    /\ UNCHANGED <<sentTo, serverGeneration, table, globals, threads, history>>

\* WM_DESTROY; the server's SendMessage returns.
HandleDestroy(t) ==
    /\ phase = "destroy" /\ sentTo = t /\ tpc[t] = "loop"
    /\ phase' = "join"
    /\ quit' = [quit EXCEPT ![t] = TRUE]
    /\ UNCHANGED <<sentTo, serverGeneration, table, globals, tpc, conn, history>>

\* WM_QUIT: the main loop ends. XDestroyWindow waits in Xlib's buffer for ever.
Quit(t) ==
    /\ quit[t]
    /\ Goto(t, "loop", "quit")
    /\ UNCHANGED <<phase, sentTo, serverGeneration, table, globals, conn, quit, history>>

Return(t) ==
    /\ Goto(t, "quit", "ended")
    /\ hwnd' = NULL
    /\ UNCHANGED <<phase, sentTo, serverGeneration, table, launched, started, joinee, conn, quit, history>>

\* The server closed the connection: winClipboardIOErrorHandler jumps to
\* g_jmpEntry and the thread exits without clearing the globals.  (The buffer may
\* be another thread's by now, and the jump undefined; here the thread exits all
\* the same.)
IOError(t) ==
    /\ conn[t] = "closed"
    /\ tpc[t] \in {"setup", "flush", "loop", "trip"}
    /\ tpc' = [tpc EXCEPT ![t] = "ended"]
    /\ UNCHANGED <<phase, sentTo, serverGeneration, table, globals, conn, quit,
                   launches, accepted, spoiled, conns>>

-----------------------------------------------------------------------------
Resetting == WindowGone \/ Join \/ KillAllClients \/ StartGeneration

ThreadStep(t) ==
    \/ Prepare(t)
    \/ Connected(t)
    \/ CreateWindow(t)
    \/ Start(t)
    \/ HandleDestroy(t)
    \/ Quit(t)
    \/ Return(t)
    \/ IOError(t)

Step ==
    \/ Resetting
    \/ BeforeReset
    \/ \E ok \in BOOLEAN : Connect(ok)
    \/ \E ok \in BOOLEAN : QueryTree(ok)
    \/ \E t \in Thread : ThreadStep(t)
    \/ \E t \in Thread, ok \in BOOLEAN : OpenDisplay(t, ok)
    \/ \E t \in Thread : GiveUp(t)
    \/ \E t \in Thread : ServeTrip(t)
    \/ \E t \in Thread : Trip(t)

\* The command line stays what it is.
Next == Step /\ UNCHANGED options

\* Both threads run, and the dispatcher serves every client; resets and
\* connections may never come.
Fairness ==
    /\ WF_state(Resetting)
    /\ \A t \in Thread :
          /\ WF_state(ThreadStep(t))
          /\ WF_state(ServeTrip(t))

Spec     == Init /\ [][Next]_vars
FairSpec == Spec /\ Fairness

-----------------------------------------------------------------------------
(* Properties                                                               *)

\* A wrapper that is called has its original to call: over any number of
\* generations, refused connections and failed QueryTrees, winProc...Orig is NULL
\* only while the dispatch tables do not lead to the wrapper.
OrigPresent == \A e \in wrapped : orig[e] = "orig"

\* winProcEstablishConnection and winProcQueryTree do not both launch the thread,
\* nor one of them twice, in a generation.
OneLaunch == launches <= 1

\* Without XDMCP the first connection of every generation launches the thread,
\* also after a reset that did not join the last one.
FirstLaunches ==
    g_fClipboard /\ ~g_fXdmcpEnabled /\ phase = "dispatch" /\ accepted > 0 /\ ~spoiled
        => launches > 0

AwaitsServer(t) == tpc[t] \in DOMAIN Reply

\* Where the window that is destroyed belongs to the thread that is joined, only
\* this thread's waiting for an answer of the server can keep winClipboardShutdown
\* from returning: WM_DESTROY gets the thread out of its main loop.
ShutdownReturns ==
    phase = "destroy" /\ sentTo = joinee
        ~> phase \notin {"destroy", "join"} \/ AwaitsServer(joinee)

\* "Allows us to shutdown our seperate threads cleanly", says ddxBeforeReset: a
\* reset that has begun reaches KillAllClients.
ResetCompletes == phase = "destroy" ~> phase = "kill"
=============================================================================
