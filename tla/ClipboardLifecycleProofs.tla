----------------------- MODULE ClipboardLifecycleProofs -----------------------
(***************************************************************************)
(* Proofs about ClipboardLifecycle, for any number of threads, generations *)
(* and connections, with and without the clipboard and XDMCP.              *)
(***************************************************************************)
EXTENDS ClipboardLifecycle, TLAPS

\* The launch flag outlives the launch until the reset is on its way, and the
\* count of launches begins anew with the next generation.
LaunchFlag ==
    /\ launches <= 1
    /\ launches > 0 => launched \/ phase \in {"kill", "init"}

\* The call count is stale until the first connection of a generation, and at
\* most three while the wrapper waits for another one.
CallsCounted ==
    /\ callGen <= serverGeneration
    /\ phase = "init" => callGen < serverGeneration
    /\ callGen = serverGeneration /\ "EstablishConnection" \in wrapped => calls <= 3
    /\ phase \in {"destroy", "join", "kill"} => serverGeneration < MaxGen

\* Without XDMCP the wrapper waits, before the first launch of a generation, for
\* the first connection, unless it has been used up in vain.
FirstWaits ==
    g_fClipboard /\ ~g_fXdmcpEnabled /\ phase = "dispatch" /\ launches = 0 /\ ~spoiled
        => "EstablishConnection" \in wrapped /\ ~launched /\ accepted = 0

IInv == TypeOK /\ OrigPresent /\ LaunchFlag /\ CallsCounted /\ FirstWaits

USE LifecycleAssumption

LEMMA InitIInv == Init => IInv
<1> SUFFICES ASSUME Init PROVE IInv
  OBVIOUS
<1>1. /\ orig \in [Entry -> {"orig", NULL}] /\ wrapped \in SUBSET Entry
      /\ tpc \in [Thread -> TPC] /\ conn \in [Thread -> {"none", "open", "closed"}]
      /\ quit \in [Thread -> BOOLEAN]
  BY DEF Init, TPC
<1>2. TypeOK
  <2>1. phase \in {"init", "dispatch", "destroy", "join", "kill"}
        /\ serverGeneration \in 1..MaxGen
    BY DEF Init
  <2>2. /\ calls \in 0..4 /\ callGen \in 0..MaxGen
        /\ launches \in Nat /\ accepted \in Nat /\ conns \in Nat
    BY DEF Init
  <2>3. /\ launched \in BOOLEAN /\ started \in BOOLEAN
        /\ spoiled \in BOOLEAN
        /\ g_fClipboard \in BOOLEAN /\ g_fXdmcpEnabled \in BOOLEAN
    BY Zenon DEF Init
  <2>4. {hwnd, sentTo, joinee} \subseteq Thread \cup {NULL}
    BY DEF Init
  <2> QED BY <1>1, <2>1, <2>2, <2>3, <2>4 DEF TypeOK
<1>3. OrigPresent /\ LaunchFlag /\ CallsCounted /\ FirstWaits
  BY DEF Init, OrigPresent, LaunchFlag, CallsCounted, FirstWaits
<1> QED BY <1>2, <1>3 DEF IInv

\* What either wrapper does to the thread, when it gets to the launch.
LEMMA LaunchLemma ==
    ASSUME IInv, phase = "dispatch", ~launched, InitClipboard
    PROVE  /\ tpc' \in [Thread -> TPC] /\ joinee' \in Thread \cup {NULL}
           /\ launched' \in BOOLEAN /\ spoiled' \in BOOLEAN /\ launches' \in Nat
           /\ launches' <= 1 /\ (launches' > 0 => launched')
<1>1. CASE \E t \in Thread :
              /\ tpc' = [tpc EXCEPT ![t] = "new"]
              /\ joinee' = t /\ launched' = TRUE /\ launches' = launches + 1
              /\ UNCHANGED spoiled
  <2>1. tpc' \in [Thread -> TPC] /\ joinee' \in Thread
    BY <1>1 DEF IInv, TypeOK, TPC
  <2>2. launches = 0
    BY DEF IInv, TypeOK, LaunchFlag
  <2> QED BY <1>1, <2>1, <2>2 DEF IInv, TypeOK
<1>2. CASE spoiled' = TRUE /\ UNCHANGED <<tpc, joinee, launched, launches>>
  BY <1>2 DEF IInv, TypeOK, LaunchFlag
<1> QED BY <1>1, <1>2 DEF InitClipboard

\* The wrapper of the connection's set-up, called or not, keeps the tables right
\* and launches at most once.
LEMMA ConnectionLemma ==
    ASSUME IInv, phase = "dispatch", NEW ok \in BOOLEAN, EstablishConnection(ok)
    PROVE  /\ wrapped' \in SUBSET Entry /\ orig' \in [Entry -> {"orig", NULL}]
           /\ calls' \in 0..4 /\ callGen' \in 0..MaxGen
           /\ tpc' \in [Thread -> TPC] /\ joinee' \in Thread \cup {NULL}
           /\ launched' \in BOOLEAN /\ spoiled' \in BOOLEAN /\ launches' \in Nat
           /\ launches' <= 1 /\ (launches' > 0 => launched')
           /\ \A e \in wrapped' : orig'[e] = "orig"
           /\ callGen' <= serverGeneration
           /\ callGen' = serverGeneration /\ "EstablishConnection" \in wrapped'
                 => calls' <= 3
           /\ g_fClipboard /\ ~g_fXdmcpEnabled => launches' > 0 \/ spoiled'
<1>1. CASE "EstablishConnection" \notin wrapped
  BY <1>1 DEF EstablishConnection, NoLaunch, table, IInv, TypeOK, OrigPresent,
              LaunchFlag, CallsCounted, FirstWaits
<1>2. CASE "EstablishConnection" \in wrapped
  <2>1. CallCount \in 1..4 /\ (Early => CallCount \in 1..3)
    BY <1>2 DEF CallCount, Early, IInv, TypeOK, CallsCounted
  <2>2. WrappedConnection(ok)
    BY <1>2 DEF EstablishConnection
  <2>3. calls' \in 0..4 /\ callGen' \in 0..MaxGen /\ callGen' <= serverGeneration
    BY <2>1, <2>2 DEF WrappedConnection, IInv, TypeOK, CallsCounted
  <2>4. wrapped' = wrapped \/ wrapped' = wrapped \ {"EstablishConnection"}
    BY <2>2 DEF WrappedConnection, Unwrap
  <2>5. "EstablishConnection" \in wrapped' => g_fClipboard /\ Early /\ calls' = CallCount
    BY <2>2 DEF WrappedConnection, Unwrap
  <2>6. \/ orig' = orig
        \/ /\ orig' = [orig EXCEPT !["EstablishConnection"] = NULL]
           /\ "EstablishConnection" \notin wrapped'
    BY <2>2 DEF WrappedConnection, Unwrap
  <2>7. \/ NoLaunch /\ spoiled' \in BOOLEAN
        \/ InitClipboard /\ ~launched
    BY <2>2 DEF WrappedConnection, NoLaunch, IInv, TypeOK
  <2>8. /\ tpc' \in [Thread -> TPC] /\ joinee' \in Thread \cup {NULL}
        /\ launched' \in BOOLEAN /\ spoiled' \in BOOLEAN /\ launches' \in Nat
        /\ launches' <= 1 /\ (launches' > 0 => launched')
    <3>1. CASE NoLaunch /\ spoiled' \in BOOLEAN
      BY <3>1 DEF NoLaunch, IInv, TypeOK, LaunchFlag
    <3>2. CASE InitClipboard /\ ~launched
      BY <3>2, LaunchLemma
    <3> QED BY <2>7, <3>1, <3>2
  <2>9. /\ wrapped' \in SUBSET Entry /\ orig' \in [Entry -> {"orig", NULL}]
        /\ \A e \in wrapped' : orig'[e] = "orig"
    <3>1. orig \in [Entry -> {"orig", NULL}] /\ wrapped \in SUBSET Entry
      BY DEF IInv, TypeOK
    <3>2. \A e \in wrapped : orig[e] = "orig"
      BY DEF IInv, OrigPresent
    <3>3. CASE orig' = orig
      BY <2>4, <3>1, <3>2, <3>3
    <3>4. CASE /\ orig' = [orig EXCEPT !["EstablishConnection"] = NULL]
               /\ "EstablishConnection" \notin wrapped'
      BY <2>4, <3>1, <3>2, <3>4
    <3> QED BY <2>6, <3>3, <3>4
  <2>10. ASSUME g_fClipboard, ~g_fXdmcpEnabled PROVE launches' > 0 \/ spoiled'
    <3>1. CASE spoiled BY <2>2, <3>1 DEF WrappedConnection, InitClipboard
    <3>2. CASE launches > 0
      BY <2>2, <3>2 DEF WrappedConnection, InitClipboard, NoLaunch, IInv, TypeOK
    <3>3. CASE ~spoiled /\ launches = 0
      <4>1. ~launched /\ ~Early
        BY <2>10, <3>3 DEF IInv, FirstWaits, Early
      <4>2. spoiled' \/ InitClipboard
        BY <2>2, <2>10, <4>1 DEF WrappedConnection
      <4> QED BY <3>3, <4>2 DEF InitClipboard
    <3> QED BY <3>1, <3>2, <3>3 DEF IInv, TypeOK
  <2> QED BY <2>1, <2>3, <2>5, <2>8, <2>9, <2>10
<1> QED BY <1>1, <1>2

LEMMA StartGenerationIInv ==
    ASSUME IInv, StartGeneration, UNCHANGED options PROVE IInv'
<1>1. /\ wrapped' \in SUBSET Entry /\ orig' \in [Entry -> {"orig", NULL}]
      /\ OrigPresent'
  BY DEF IInv, TypeOK, OrigPresent, StartGeneration, Wrap, Entries
<1>2. TypeOK'
  BY <1>1 DEF IInv, TypeOK, StartGeneration, InitializeGlobals, threads, options
<1>3. LaunchFlag' /\ CallsCounted'
  BY DEF IInv, TypeOK, LaunchFlag, CallsCounted, StartGeneration
<1>4. FirstWaits'
  BY DEF FirstWaits, StartGeneration, Wrap, Entries, Entry, InitializeGlobals
<1> QED BY <1>1, <1>2, <1>3, <1>4 DEF IInv

LEMMA ConnectIInv ==
    ASSUME IInv, NEW ok \in BOOLEAN, Connect(ok), UNCHANGED options PROVE IInv'
<1>1. phase = "dispatch" /\ EstablishConnection(ok)
  BY DEF Connect
<1>2. accepted' \in Nat /\ conns' \in Nat
  BY DEF Connect, IInv, TypeOK
<1> QED BY <1>1, <1>2, ConnectionLemma
        DEF Connect, IInv, TypeOK, OrigPresent, LaunchFlag, CallsCounted, FirstWaits,
            options

LEMMA OpenDisplayIInv ==
    ASSUME IInv, NEW t \in Thread, NEW ok \in BOOLEAN, OpenDisplay(t, ok),
           UNCHANGED options
    PROVE  IInv'
<1>1. phase = "dispatch" /\ EstablishConnection(ok)
  BY DEF OpenDisplay
<1>2. conn' \in [Thread -> {"none", "open", "closed"}]
  BY DEF OpenDisplay, IInv, TypeOK
<1> QED BY <1>1, <1>2, ConnectionLemma
        DEF OpenDisplay, IInv, TypeOK, OrigPresent, LaunchFlag, CallsCounted,
            FirstWaits, options

LEMMA QueryTreeIInv ==
    ASSUME IInv, NEW ok \in BOOLEAN, QueryTree(ok), UNCHANGED options PROVE IInv'
<1>1. phase = "dispatch" /\ "QueryTree" \in wrapped
  BY DEF QueryTree
<1>2. /\ wrapped' \in SUBSET Entry /\ orig' \in [Entry -> {"orig", NULL}]
      /\ \A e \in wrapped' : orig'[e] = "orig"
      /\ "EstablishConnection" \in wrapped' => "EstablishConnection" \in wrapped
  BY DEF QueryTree, Unwrap, IInv, TypeOK, OrigPresent, Entry
<1>3. (NoLaunch /\ UNCHANGED spoiled) \/ (InitClipboard /\ ~launched)
  BY Zenon DEF QueryTree
<1>4. /\ tpc' \in [Thread -> TPC] /\ joinee' \in Thread \cup {NULL}
      /\ launched' \in BOOLEAN /\ spoiled' \in BOOLEAN /\ launches' \in Nat
      /\ launches' <= 1 /\ (launches' > 0 => launched')
  <2>1. CASE NoLaunch /\ UNCHANGED spoiled
    BY <1>1, <2>1 DEF NoLaunch, IInv, TypeOK, LaunchFlag
  <2>2. CASE InitClipboard /\ ~launched
    BY <1>1, <2>2, LaunchLemma
  <2> QED BY <1>3, <2>1, <2>2
<1>5. g_fClipboard /\ ~g_fXdmcpEnabled => launches' > 0 \/ spoiled'
  <2>1. g_fClipboard /\ ~g_fXdmcpEnabled => launches > 0 \/ spoiled
    BY DEF QueryTree, IInv, TypeOK, FirstWaits
  <2>2. (launches > 0 => launches' > 0) /\ (spoiled => spoiled')
    BY <1>3 DEF NoLaunch, InitClipboard, IInv, TypeOK
  <2> QED BY <2>1, <2>2
<1> QED BY <1>1, <1>2, <1>4, <1>5
        DEF QueryTree, IInv, TypeOK, OrigPresent, LaunchFlag, CallsCounted, FirstWaits,
            options

LEMMA ShutdownIInv ==
    ASSUME IInv, BeforeReset \/ WindowGone \/ Join \/ KillAllClients,
           UNCHANGED options
    PROVE  IInv'
<1> USE DEF IInv, TypeOK, OrigPresent, LaunchFlag, CallsCounted, FirstWaits, table,
            globals, threads, history, options
<1>1. CASE BeforeReset
  BY <1>1 DEF BeforeReset
<1>2. CASE WindowGone
  BY <1>2 DEF WindowGone
<1>3. CASE Join
  BY <1>3 DEF Join
<1>4. CASE KillAllClients
  BY <1>4 DEF KillAllClients
<1> QED BY <1>1, <1>2, <1>3, <1>4

\* What the thread does by itself touches neither the tables nor the launch.
LEMMA ThreadIInv ==
    ASSUME IInv, NEW t \in Thread,
           ThreadStep(t) \/ GiveUp(t) \/ ServeTrip(t) \/ Trip(t),
           UNCHANGED options
    PROVE  IInv'
<1> USE DEF IInv, TypeOK, OrigPresent, LaunchFlag, CallsCounted, FirstWaits, table,
            globals, threads, history, options, Goto, TPC
<1>1. CASE Prepare(t) BY <1>1 DEF Prepare
<1>2. CASE Connected(t) BY <1>2 DEF Connected
<1>3. CASE CreateWindow(t) BY <1>3 DEF CreateWindow
<1>4. CASE Start(t) BY <1>4 DEF Start
<1>5. CASE HandleDestroy(t) BY <1>5 DEF HandleDestroy
<1>6. CASE Quit(t) BY <1>6 DEF Quit
<1>7. CASE Return(t) BY <1>7 DEF Return
<1>8. CASE IOError(t) BY <1>8 DEF IOError
<1>9. CASE GiveUp(t) BY <1>9 DEF GiveUp
<1>10. CASE ServeTrip(t)
  <2>1. Reply[tpc[t]] \in TPC
    BY <1>10 DEF ServeTrip, Reply
  <2> QED BY <1>10, <2>1 DEF ServeTrip
<1>11. CASE Trip(t) BY <1>11 DEF Trip
<1> QED BY <1>1, <1>2, <1>3, <1>4, <1>5, <1>6, <1>7, <1>8, <1>9, <1>10, <1>11
        DEF ThreadStep

LEMMA StutterIInv == IInv /\ UNCHANGED vars => IInv'
BY DEF IInv, TypeOK, OrigPresent, LaunchFlag, CallsCounted, FirstWaits, vars, state,
       options, table, globals, threads, history

LEMMA NextIInv == IInv /\ [Next]_vars => IInv'
<1> SUFFICES ASSUME IInv, [Next]_vars PROVE IInv'
  OBVIOUS
<1>0. CASE UNCHANGED vars
  BY <1>0, StutterIInv
<1> SUFFICES ASSUME Step, UNCHANGED options PROVE IInv'
  BY <1>0 DEF Next
<1>1. CASE Resetting
  BY <1>1, StartGenerationIInv, ShutdownIInv DEF Resetting
<1>2. CASE BeforeReset
  BY <1>2, ShutdownIInv
<1>3. CASE \E ok \in BOOLEAN : Connect(ok)
  BY <1>3, ConnectIInv
<1>4. CASE \E ok \in BOOLEAN : QueryTree(ok)
  BY <1>4, QueryTreeIInv
<1>5. CASE \E t \in Thread : ThreadStep(t) \/ GiveUp(t) \/ ServeTrip(t) \/ Trip(t)
  BY <1>5, ThreadIInv
<1>6. CASE \E t \in Thread, ok \in BOOLEAN : OpenDisplay(t, ok)
  BY <1>6, OpenDisplayIInv
<1> QED BY <1>1, <1>2, <1>3, <1>4, <1>5, <1>6 DEF Step

\* The inductive invariant holds in every reachable state.
THEOREM Invariance == Spec => []IInv
BY InitIInv, NextIInv, PTL DEF Spec

\* Every variable keeps its type; in particular the wrapper never counts beyond
\* its fourth connection.
THEOREM TypeCorrect == Spec => []TypeOK
<1>1. IInv => TypeOK BY DEF IInv
<1> QED BY <1>1, Invariance, PTL

\* No wrapper is ever reached without an original procedure to call.
THEOREM OriginalsPresent == Spec => []OrigPresent
<1>1. IInv => OrigPresent BY DEF IInv
<1> QED BY <1>1, Invariance, PTL

\* At most one clipboard thread is launched in a generation.
THEOREM LaunchedOnce == Spec => []OneLaunch
<1>1. IInv => OneLaunch BY DEF IInv, LaunchFlag, OneLaunch
<1> QED BY <1>1, Invariance, PTL

\* Without XDMCP, every generation in which a client has been accepted has launched
\* the clipboard, but for refused connections and failures of pthread_create.
THEOREM FirstLaunchesTheClipboard == Spec => []FirstLaunches
<1>1. IInv => FirstLaunches BY DEF IInv, TypeOK, FirstWaits, FirstLaunches
<1> QED BY <1>1, Invariance, PTL
=============================================================================
