-------------------------- MODULE MultiWindowProofs --------------------------
(***************************************************************************)
(* Safety of the window manager threads, for any bounds.                   *)
(***************************************************************************)
EXTENDS MultiWindowWM, TLAPS

-----------------------------------------------------------------------------
(* The inductive invariant                                                  *)

\* Before the server runs nobody has moved, and a thread that initialises Xlib holds
\* the mutex.
MutexInv ==
    /\ ~fServerStarted => /\ pmServerStarted = "server"
                          /\ xpc = "start" /\ wpc = "start"
    /\ xpc = "init" => pmServerStarted = "xmsg"
    /\ wpc = "init" => pmServerStarted = "wm"

\* The check before the loop is the only one without fAllowOtherWM, and the server is
\* told what the flag says.
CheckInv ==
    /\ xpc \in {"loop", "unmanage", "manage"} => ~first
    /\ ~first /\ xpc \notin {"loop", "exit"} => fAllowOtherWM
    /\ xpc = "unmanage" => g_fAnotherWMRunnig
    /\ xpc = "manage" => ~g_fAnotherWMRunnig

\* The WM thread tests the flag each time before it waits for a message.
LateInv ==
    /\ late <= 1
    /\ ~g_fAnotherWMRunnig => late = 0
    /\ wpc = "pop" => late = 0

IInv == TypeOK /\ MutexInv /\ CheckInv /\ LateInv

-----------------------------------------------------------------------------
\* The channel keeps its type: what Send, Receive and Finish do to it.
LEMMA SendType ==
    ASSUME queue \in Seq(Message), inHand \in Seq(Message),
           NEW m \in Message, Fifo!Send(m)
    PROVE  queue' \in Seq(Message) /\ inHand' = inHand
BY DEF Fifo!Send

LEMMA ReceiveType ==
    ASSUME queue \in Seq(Message), inHand \in Seq(Message), Fifo!Receive
    PROVE  /\ queue' \in Seq(Message)
           /\ inHand' \in Seq(Message)
           /\ Len(inHand') = 1
BY DEF Fifo!Receive

LEMMA FinishType ==
    ASSUME queue \in Seq(Message), Fifo!Finish
    PROVE  queue' = queue /\ inHand' = << >>
BY DEF Fifo!Finish

-----------------------------------------------------------------------------
LEMMA InitInv == Init => IInv
<1> SUFFICES ASSUME Init PROVE IInv
  OBVIOUS
<1>1. TypeOK
  <2>1. /\ {fAllowOtherWM, fServerStarted, listening, fAnotherWMRunning, redirectError,
            g_fAnotherWMRunnig, first, xErr} \subseteq BOOLEAN
        /\ (fAnotherWMRunning \/ g_fAnotherWMRunnig) => fAllowOtherWM
    <3>1. CASE fAllowOtherWM
      BY <3>1, Zenon DEF Init
    <3>2. CASE fAllowOtherWM = FALSE
      BY <3>2, Zenon DEF Init
    <3> QED
      BY <3>1, <3>2 DEF Init
  <2>2. /\ pmServerStarted = "server" /\ root = "none" /\ handler = "default"
        /\ xpc = "start" /\ wpc = "start"
    BY DEF Init
  <2>3. /\ events \in Seq({"create", "property"})
        /\ queue \in Seq(Message) /\ inHand \in Seq(Message) /\ Len(inHand) = 0
    BY DEF Init, Fifo!Init
  <2>4. /\ late = 0
        /\ sends \in 0..MaxSends /\ noise \in 0..MaxEvents /\ starts \in 0..MaxStarts
    BY BoundAssumption DEF Init
  <2> QED
    BY <2>1, <2>2, <2>3, <2>4 DEF TypeOK, XPC, WPC, Starting
<1>2. MutexInv /\ CheckInv /\ LateInv
  BY DEF Init, MutexInv, CheckInv, LateInv
<1> QED
  BY <1>1, <1>2 DEF IInv

LEMMA ServerStep ==
    ASSUME IInv, Server, UNCHANGED fAllowOtherWM
    PROVE  IInv'
<1> USE DEF IInv, mutex, server, process, xmsg, channel, bounds, TypeOK, XPC, WPC, Starting,
            MutexInv, CheckInv, LateInv
<1>1. CASE StartServer
  BY <1>1 DEF StartServer
<1>2. CASE HandleUnmanage
  BY <1>2 DEF HandleUnmanage
<1>3. CASE HandleManage
  <2>1. /\ queue' \in Seq(Message) /\ inHand' = inHand
        /\ sends' \in 0..MaxSends
    <3>1. CASE UNCHANGED <<channel, sends>>
      BY <3>1
    <3>2. CASE sends < MaxSends /\ sends' = sends + 1 /\ Fifo!Send("server")
      BY <3>2, SendType, BoundAssumption DEF Message
    <3> QED
      BY <1>3, <3>1, <3>2 DEF HandleManage
  <2> QED
    BY <1>3, <2>1 DEF HandleManage
<1> QED
  BY <1>1, <1>2, <1>3 DEF Server

LEMMA EnvironmentStep ==
    ASSUME IInv, Environment, UNCHANGED fAllowOtherWM
    PROVE  IInv'
<1> USE DEF IInv, mutex, server, process, xmsg, channel, bounds, TypeOK, XPC, WPC, Starting,
            MutexInv, CheckInv, LateInv
<1>1. CASE SendMessageToWM
  <2>1. queue' \in Seq(Message) /\ inHand' = inHand /\ sends' \in 0..MaxSends
    BY <1>1, SendType, BoundAssumption DEF SendMessageToWM, Message
  <2> QED
    BY <1>1, <2>1 DEF SendMessageToWM
<1>2. CASE StartOther
  <2>1. starts' \in 0..MaxStarts
    BY <1>2, BoundAssumption DEF StartOther
  <2> QED
    BY <1>2, <2>1 DEF StartOther
<1>3. CASE StopOther
  BY <1>3 DEF StopOther
<1>4. ASSUME NEW e \in {"create", "property"}, XEvent(e)
      PROVE  IInv'
  <2>1. noise' \in 0..MaxEvents /\ events' \in Seq({"create", "property"})
    BY <1>4, BoundAssumption DEF XEvent
  <2> QED
    BY <1>4, <2>1 DEF XEvent
<1> QED
  BY <1>1, <1>2, <1>3, <1>4 DEF Environment

LEMMA XMsgStep ==
    ASSUME IInv, XMsg, UNCHANGED fAllowOtherWM
    PROVE  IInv'
<1> USE DEF IInv, mutex, server, process, xmsg, channel, bounds, TypeOK, XPC, WPC, Starting,
            MutexInv, CheckInv, LateInv, XGoto
<1>1. CASE XStart
  BY <1>1 DEF XStart
<1>2. CASE XInstall
  BY <1>2 DEF XInstall
<1>3. CASE Begin
  BY <1>3 DEF Begin
<1>4. CASE Select
  BY <1>4 DEF Select
<1>5. CASE Sync
  BY <1>5 DEF Sync
<1>6. CASE Restore
  BY <1>6 DEF Restore
<1>7. CASE Deselect
  BY <1>7 DEF Deselect
<1>8. CASE ConcludeFirst
  <2>1. CASE fAllowOtherWM
    <3>1. g_fAnotherWMRunnig' = redirectError /\ g_fAnotherWMRunnig' \in BOOLEAN
      BY <1>8, <2>1, Zenon DEF ConcludeFirst
    <3>2. g_fAnotherWMRunnig' => fAllowOtherWM'
      BY <2>1
    <3>3. CASE redirectError
      BY <1>8, <2>1, <3>1, <3>2, <3>3 DEF ConcludeFirst
    <3>4. CASE ~redirectError
      <4>1. late' = 0 /\ g_fAnotherWMRunnig' = FALSE
        BY <1>8, <3>1, <3>4 DEF ConcludeFirst
      <4>2. xpc' = "loop" /\ first' = FALSE
        BY <1>8, <2>1 DEF ConcludeFirst
      <4>3. TypeOK'
        <5>1. UNCHANGED <<fServerStarted, listening, fAnotherWMRunning, redirectError, xErr,
                          pmServerStarted, root, handler, wpc, events, queue, inHand, sends,
                          noise, starts>>
          BY <1>8 DEF ConcludeFirst
        <5> QED
          BY <2>1, <4>1, <4>2, <5>1
      <4>4. MutexInv' /\ CheckInv' /\ LateInv'
        BY <1>8, <4>1, <4>2 DEF ConcludeFirst
      <4> QED
        BY <4>3, <4>4
    <3> QED
      BY <3>3, <3>4
  <2>2. CASE ~fAllowOtherWM /\ redirectError
    BY <1>8, <2>2 DEF ConcludeFirst
  <2>3. CASE ~fAllowOtherWM /\ ~redirectError
    BY <1>8, <2>3 DEF ConcludeFirst
  <2> QED
    BY <2>1, <2>2, <2>3
<1>9. CASE Conclude
  BY <1>9 DEF Conclude, News, Found
<1>10. CASE CheckAgain
  <2>1. xErr' \in BOOLEAN
    BY <1>10, Zenon DEF CheckAgain
  <2> QED
    BY <1>10, <2>1 DEF CheckAgain
<1>11. CASE FetchEvent
  <2>1. events' \in Seq({"create", "property"})
    BY <1>11 DEF FetchEvent
  <2>2. queue' \in Seq(Message) /\ inHand' = inHand /\ xErr' \in BOOLEAN
    BY <1>11, SendType DEF FetchEvent, Message
  <2> QED
    BY <1>11, <2>1, <2>2 DEF FetchEvent
<1>12. ASSUME NEW ok \in BOOLEAN, XInit(ok)
       PROVE  IInv'
  BY <1>12 DEF XInit, Unlock
<1>13. ASSUME NEW ok \in BOOLEAN, XOpen(ok)
       PROVE  IInv'
  BY <1>13 DEF XOpen
<1> QED
  BY <1>1, <1>2, <1>3, <1>4, <1>5, <1>6, <1>7, <1>8, <1>9, <1>10, <1>11, <1>12, <1>13
  DEF XMsg

LEMMA WMStep ==
    ASSUME IInv, WM, UNCHANGED fAllowOtherWM
    PROVE  IInv'
<1> USE DEF IInv, mutex, server, process, xmsg, channel, bounds, TypeOK, XPC, WPC, Starting,
            MutexInv, CheckInv, LateInv, WGoto
<1>1. CASE WStart
  BY <1>1 DEF WStart
<1>2. CASE WInstall
  BY <1>2 DEF WInstall
<1>3. CASE WTest
  BY <1>3 DEF WTest
<1>4. CASE WPop
  BY <1>4, ReceiveType DEF WPop
<1>5. ASSUME NEW ok \in BOOLEAN, WInit(ok)
      PROVE  IInv'
  BY <1>5 DEF WInit, Unlock
<1>6. ASSUME NEW ok \in BOOLEAN, WOpen(ok)
      PROVE  IInv'
  BY <1>6 DEF WOpen
<1>7. ASSUME NEW gone \in BOOLEAN, WHandle(gone)
      PROVE  IInv'
  BY <1>7, FinishType DEF WHandle
<1> QED
  BY <1>1, <1>2, <1>3, <1>4, <1>5, <1>6, <1>7 DEF WM

LEMMA StutterStep == IInv /\ UNCHANGED vars => IInv'
BY DEF IInv, TypeOK, MutexInv, CheckInv, LateInv, vars, mutex, server, process, xmsg,
       channel, bounds

\* Every step keeps the invariant, so it always holds.
THEOREM Invariance == Spec => []IInv
<1>1. IInv /\ [Next]_vars => IInv'
  BY ServerStep, EnvironmentStep, XMsgStep, WMStep, StutterStep DEF Next
<1> QED
  BY InitInv, <1>1, PTL DEF Spec

-----------------------------------------------------------------------------
\* Every variable always has its type.
THEOREM TypeCorrect == Spec => []TypeOK
<1>1. IInv => TypeOK
  BY DEF IInv
<1> QED
  BY Invariance, <1>1, PTL

\* The mutex pmServerStarted does what it is for: neither thread uses Xlib before the
\* server runs, and they initialise it one after the other.
THEOREM StartsInTurnCorrect == Spec => []StartsInTurn
<1>1. IInv => StartsInTurn
  BY DEF IInv, MutexInv, StartsInTurn
<1> QED
  BY Invariance, <1>1, PTL

\* The WM thread takes at most one message after another window manager was found.
THEOREM OneMoreMessageCorrect == Spec => []OneMoreMessage
<1>1. IInv => OneMoreMessage
  BY DEF IInv, LateInv, OneMoreMessage
<1> QED
  BY Invariance, <1>1, PTL

\* After the first check, agreement of the two flags survives every step but for the
\* time of a SendMessage that tells of a change.
THEOREM FlagsStayTogetherCorrect == Spec => FlagsStayTogether
<1> USE DEF Agree, mutex, server, process, xmsg, channel, bounds
<1>1. ASSUME IInv, Next, ~first, Agree
      PROVE  Agree'
  <2>1. CASE Server
    <3>1. CASE StartServer
      BY <1>1, <3>1 DEF StartServer
    <3>2. CASE HandleUnmanage
      BY <1>1, <3>2 DEF HandleUnmanage, IInv, CheckInv, TypeOK
    <3>3. CASE HandleManage
      BY <1>1, <3>3 DEF HandleManage, IInv, CheckInv, TypeOK
    <3> QED
      BY <2>1, <3>1, <3>2, <3>3 DEF Server
  <2>2. CASE Environment
    BY <1>1, <2>2 DEF Environment, SendMessageToWM, StartOther, StopOther, XEvent
  <2>3. CASE XMsg
    <3>1. CASE Conclude
      BY <1>1, <3>1 DEF Conclude, News, Found, XGoto, IInv, TypeOK
    <3>2. CASE XMsg /\ ~Conclude
      BY <1>1, <3>2
      DEF XMsg, XStart, XInstall, Begin, Select, Sync, Restore, Deselect, ConcludeFirst,
          CheckAgain, FetchEvent, XInit, XOpen, XGoto
    <3> QED
      BY <2>3, <3>1, <3>2
  <2>4. CASE WM
    BY <1>1, <2>4 DEF WM, WStart, WInstall, WTest, WPop, WInit, WOpen, WHandle
  <2> QED
    BY <1>1, <2>1, <2>2, <2>3, <2>4 DEF Next
<1>2. IInv /\ [Next]_vars => [~first /\ Agree => Agree']_vars
  BY <1>1
<1> QED
  BY Invariance, <1>2, PTL DEF Spec, FlagsStayTogether
=============================================================================
