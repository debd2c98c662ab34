------------------------------ MODULE XdmcpProofs ------------------------------
(***************************************************************************)
(* What is proved of Xdmcp for any managers, clients and bounds: its type, *)
(* the promise of every manager (DisplaySessions), that every process      *)
(* without a display was told to stop, how a running session ends, which   *)
(* session it is that runs, that only one is connected, and that nothing   *)
(* but a disturbance makes logging in fail.                                *)
(***************************************************************************)
EXTENDS Xdmcp, TLAPS

USE DEF Key, Process

LEMMA DatagramTypes ==
    ASSUME NEW m \in Manager
    PROVE  \A t \in {"QUERY", "REQUEST", "WILLING", "UNWILLING", "DECLINE"} :
               Datagram(t, m) \in Message
BY DEF Datagram, Message

LEMMA AboutTypes ==
    ASSUME NEW m \in Manager, NEW s \in Session
    PROVE  \A t \in {"MANAGE", "REFUSE", "FAILED"} : About(t, m, s) \in Message
BY DEF About, Message

LEMMA AcceptTypes ==
    ASSUME NEW m \in Manager, NEW s \in Session, NEW k \in Key
    PROVE  Accept(m, s, k) \in Message
BY DEF Accept, Message

\* What a datagram of the network is made of.
LEMMA MessageFields ==
    ASSUME NEW d \in Message
    PROVE  /\ d.type = "WILLING" => d.mgr \in Manager
           /\ d.type \in {"ACCEPT", "REFUSE", "FAILED"} => d.id \in Session
           /\ d.type = "ACCEPT" => d.key \in Key
BY DEF Message

LEMMA ConsumeTypes ==
    ASSUME NEW d, NEW out \in SUBSET Message, net \in SUBSET Message, dups \in Nat,
           Consume(d, out)
    PROVE  net' \in SUBSET Message /\ dups' \in Nat
BY DEF Consume

LEMMA QueriesTypes ==
    ASSUME options \in [query : {"QUERY", "BROADCAST"}, once : BOOLEAN, mgr : Manager]
    PROVE  Queries \in SUBSET Message
BY DatagramTypes DEF Queries

(***************************************************************************)
(* The parts of the type invariant that each process writes.               *)
(***************************************************************************)
ServerType ==
    /\ state \in State
    /\ manager \in Manager \cup {NULL}
    /\ SessionID \in Session \cup {NULL}
    /\ sessionSocket \in Client \cup {NULL}
    /\ auth \in SUBSET (Session \X Key)
    /\ conns \in SUBSET Client
    /\ exception \in {NULL, "RESET", "TERMINATE"}

XdmType ==
    /\ stage \in [Session -> {"none", "proto", "display", "gone"}]
    /\ key \in [Session -> 0 .. MaxKey]
    /\ child \in [Session -> Process]
    /\ health \in [Manager -> {"sound", "damaged", "dead"}]

NetType == net \in SUBSET Message

OptionType == options \in [query : {"QUERY", "BROADCAST"}, once : BOOLEAN, mgr : Manager]

CountType == faults \in Nat /\ dups \in Nat /\ locals \in Nat /\ logouts \in Nat

LEMMA Parts == TypeOK <=> OptionType /\ ServerType /\ XdmType /\ NetType /\ CountType
BY DEF TypeOK, OptionType, ServerType, XdmType, NetType, CountType

LEMMA SendRequestType ==
    ASSUME TypeOK, NEW d, NEW m \in Manager, SendRequest(d, m)
    PROVE  ServerType' /\ NetType' /\ faults' \in Nat /\ dups' \in Nat
<1>1. {Datagram("REQUEST", m)} \in SUBSET Message /\ {} \in SUBSET Message
  BY DatagramTypes
<1>2. net' \in SUBSET Message /\ dups' \in Nat
  BY <1>1, ConsumeTypes DEF SendRequest, TypeOK
<1>3. faults' \in Nat
  BY DEF SendRequest, Fault, TypeOK
<1>4. ServerType'
  BY DEF SendRequest, TypeOK, ServerType, State
<1>5. QED
  BY <1>2, <1>3, <1>4 DEF NetType

LEMMA IgnoreType ==
    ASSUME TypeOK, NEW d, Ignore(d)
    PROVE  ServerType' /\ NetType' /\ faults' \in Nat /\ dups' \in Nat
<1>1. net' \in SUBSET Message /\ dups' \in Nat
  BY ConsumeTypes DEF Ignore, TypeOK
<1>2. ServerType' /\ faults' \in Nat
  BY DEF Ignore, server, TypeOK, ServerType
<1>3. QED
  BY <1>1, <1>2 DEF NetType

LEMMA FatalType ==
    ASSUME TypeOK, NEW d, Fatal(d)
    PROVE  ServerType' /\ NetType' /\ faults' \in Nat /\ dups' \in Nat
<1>1. net' \in SUBSET Message /\ dups' \in Nat
  BY ConsumeTypes DEF Fatal, TypeOK
<1>2. ServerType' /\ faults' \in Nat
  BY DEF Fatal, TypeOK, ServerType, State
<1>3. QED
  BY <1>1, <1>2 DEF NetType

(***************************************************************************)
(* A server that waits for an answer knows whom it asked: MANAGE and the   *)
(* repeated REQUEST go to a manager.                                       *)
(***************************************************************************)
ManagerKnown ==
    state \in {"AWAIT_REQUEST_RESPONSE", "AWAIT_MANAGE_RESPONSE"} => manager \in Manager

TypeInv == TypeOK /\ ManagerKnown

LEMMA ReceivePacketType == TypeInv /\ ReceivePacket => TypeInv'
<1> SUFFICES ASSUME TypeInv, ReceivePacket PROVE TypeInv'
  OBVIOUS
<1> USE DEF TypeInv
<1>1. PICK d \in net : RecvWilling(d) \/ RecvAccept(d) \/ RecvRefuse(d)
                           \/ RecvFailed(d) \/ RecvRejection(d)
  BY DEF ReceivePacket
<1>2. d \in Message /\ net \in SUBSET Message /\ dups \in Nat
  BY DEF TypeOK
<1> DEFINE Good == /\ ServerType' /\ NetType' /\ faults' \in Nat /\ dups' \in Nat
                   /\ ManagerKnown'
<1>3. ASSUME Ignore(d) PROVE Good
  BY <1>3, IgnoreType DEF Ignore, server, ManagerKnown
<1>4. ASSUME NEW m \in Manager, SendRequest(d, m) PROVE Good
  <2>1. ManagerKnown'
    BY <1>4 DEF SendRequest, ManagerKnown
  <2>2. QED
    BY <1>4, <2>1, SendRequestType
<1>5. ASSUME Fatal(d) PROVE Good
  <2>1. ManagerKnown'
    BY <1>5 DEF Fatal, ManagerKnown
  <2>2. QED
    BY <1>5, <2>1, FatalType
<1>6. Good
  <2>1. CASE RecvWilling(d)
    <3>1. d.mgr \in Manager
      BY <1>2, <2>1, MessageFields DEF RecvWilling
    <3>2. QED
      BY <2>1, <3>1, <1>3, <1>4 DEF RecvWilling
  <2>2. CASE RecvAccept(d)
    <3>1. d.id \in Session /\ d.key \in Key
      BY <1>2, <2>2, MessageFields DEF RecvAccept
    <3>2. CASE state = "AWAIT_REQUEST_RESPONSE"
      <4>1. manager \in Manager
        BY <3>2 DEF ManagerKnown
      <4>2. {About("MANAGE", manager, d.id)} \in SUBSET Message
        BY <3>1, <4>1, AboutTypes
      <4>3. Consume(d, {About("MANAGE", manager, d.id)})
        BY <2>2, <3>2 DEF RecvAccept
      <4>4. net' \in SUBSET Message /\ dups' \in Nat
        BY <1>2, <4>2, <4>3, ConsumeTypes
      <4>5. /\ auth' = auth \cup {<<d.id, d.key>>}
            /\ SessionID' = d.id
            /\ state' = "AWAIT_MANAGE_RESPONSE"
            /\ UNCHANGED <<manager, sessionSocket, conns, exception, faults>>
        BY <2>2, <3>2 DEF RecvAccept
      <4>6. ServerType' /\ faults' \in Nat
        BY <3>1, <4>1, <4>5 DEF TypeOK, ServerType, State
      <4>7. ManagerKnown'
        BY <4>1, <4>5 DEF ManagerKnown
      <4>8. QED
        BY <4>4, <4>6, <4>7 DEF NetType
    <3>3. CASE state # "AWAIT_REQUEST_RESPONSE"
      BY <2>2, <3>3, <1>3 DEF RecvAccept
    <3>4. QED
      BY <3>2, <3>3
  <2>3. CASE RecvRefuse(d)
    <3>1. CASE Matches(d)
      <4>1. manager \in Manager
        BY <3>1 DEF Matches, ManagerKnown
      <4>2. QED
        BY <2>3, <3>1, <4>1, <1>4 DEF RecvRefuse
    <3>2. CASE ~ Matches(d)
      BY <2>3, <3>2, <1>3 DEF RecvRefuse
    <3>3. QED
      BY <3>1, <3>2
  <2>4. CASE RecvFailed(d)
    BY <2>4, <1>3, <1>5 DEF RecvFailed
  <2>5. CASE RecvRejection(d)
    BY <2>5, <1>5 DEF RecvRejection
  <2>6. QED
    BY <1>1, <2>1, <2>2, <2>3, <2>4, <2>5
<1>7. OptionType' /\ XdmType' /\ logouts' \in Nat /\ locals' \in Nat
  BY DEF ReceivePacket, TypeOK, OptionType, XdmType, xdm
<1>8. TypeOK'
  <2>1. CountType'
    BY <1>6, <1>7 DEF CountType
  <2>2. QED
    BY <1>6, <1>7, <2>1 DEF TypeOK, OptionType, ServerType, XdmType, NetType, CountType
<1>9. QED
  BY <1>6, <1>8

\* The steps of the server that read no datagram.
LEMMA OpenDisplayType ==
    ASSUME TypeInv, NEW c \in Client, OpenDisplay(c)
    PROVE  ServerType' /\ ManagerKnown'
<1>1. ServerType'
  BY DEF TypeInv, TypeOK, OpenDisplay, ServerType, State
<1>2. ManagerKnown'
  BY DEF TypeInv, OpenDisplay, ManagerKnown
<1>3. QED
  BY <1>1, <1>2

LEMMA CloseDownType ==
    ASSUME TypeInv, NEW c, CloseDown(c)
    PROVE  ServerType' /\ ManagerKnown'
<1>1. state' \in {state, "INIT"} /\ manager' = manager
  BY DEF CloseDown
<1>2. ServerType'
  BY <1>1 DEF TypeInv, TypeOK, CloseDown, ServerType, State
<1>3. ManagerKnown'
  BY <1>1 DEF TypeInv, ManagerKnown
<1>4. QED
  BY <1>2, <1>3

LEMMA LocalType == TypeInv /\ (LocalOpens \/ LocalCloses) => TypeInv'
<1> SUFFICES ASSUME TypeInv, LocalOpens \/ LocalCloses PROVE TypeInv'
  OBVIOUS
<1>1. Local \subseteq Client
  BY DEF Client
<1>2. ServerType' /\ ManagerKnown'
  <2>1. CASE LocalOpens
    BY <1>1, <2>1, OpenDisplayType DEF LocalOpens
  <2>2. CASE LocalCloses
    BY <2>2, CloseDownType DEF LocalCloses
  <2>3. QED
    BY <2>1, <2>2
<1>3. OptionType' /\ XdmType' /\ NetType' /\ CountType'
  BY DEF LocalOpens, LocalCloses, TypeInv, TypeOK, OptionType, XdmType, NetType,
         CountType, xdm, bounds
<1>4. TypeOK'
  BY <1>2, <1>3 DEF TypeOK, OptionType, ServerType, XdmType, NetType, CountType
<1>5. QED
  BY <1>2, <1>4 DEF TypeInv

LEMMA ServerStepType == TypeInv /\ ServerStep => TypeInv'
<1> SUFFICES ASSUME TypeInv, ServerStep PROVE TypeInv'
  OBVIOUS
<1>1. CASE ReceivePacket
  BY <1>1, ReceivePacketType
<1>2. CASE NoticeClose
  <2>1. ServerType' /\ ManagerKnown'
    BY <1>2, CloseDownType DEF NoticeClose
  <2>2. OptionType' /\ XdmType' /\ NetType' /\ CountType'
    BY <1>2 DEF NoticeClose, TypeInv, TypeOK, OptionType, XdmType, NetType, CountType,
                xdm, bounds
  <2>3. QED
    BY <2>1, <2>2 DEF TypeInv, TypeOK, OptionType, ServerType, XdmType, NetType, CountType
<1>3. CASE Reset
  <2>1. Queries \in SUBSET Message
    BY QueriesTypes DEF TypeInv, TypeOK
  <2>2. ServerType' /\ ManagerKnown'
    BY <1>3 DEF Reset, TypeInv, TypeOK, ServerType, ManagerKnown, State
  <2>3. OptionType' /\ XdmType' /\ NetType' /\ CountType'
    BY <1>3, <2>1 DEF Reset, TypeInv, TypeOK, OptionType, XdmType, NetType, CountType,
                xdm, bounds
  <2>4. QED
    BY <2>2, <2>3 DEF TypeInv, TypeOK, OptionType, ServerType, XdmType, NetType, CountType
<1>4. CASE Terminate
  <2>1. ServerType' /\ ManagerKnown'
    BY <1>4 DEF Terminate, TypeInv, TypeOK, ServerType, ManagerKnown, State
  <2>2. OptionType' /\ XdmType' /\ NetType' /\ CountType'
    BY <1>4 DEF Terminate, TypeInv, TypeOK, OptionType, XdmType, NetType, CountType,
                xdm, bounds
  <2>3. QED
    BY <2>1, <2>2 DEF TypeInv, TypeOK, OptionType, ServerType, XdmType, NetType, CountType
<1>5. QED
  BY <1>1, <1>2, <1>3, <1>4 DEF ServerStep

(***************************************************************************)
(* The managers                                                            *)
(***************************************************************************)
LEMMA SendAcceptType ==
    ASSUME TypeOK, NEW d, NEW m \in Manager, NEW s \in Session, SendAccept(d, m, s)
    PROVE  /\ key' \in [Session -> 0 .. MaxKey]
           /\ net' \in SUBSET Message /\ dups' \in Nat
<1>1. MaxKey \in Nat /\ key[s] \in 0 .. MaxKey /\ key[s] < MaxKey
  BY BoundAssumption DEF SendAccept, TypeOK
<1>2. key[s] + 1 \in Key
  BY <1>1
<1>3. key' = [key EXCEPT ![s] = @ + 1] /\ key'[s] = key[s] + 1
  BY DEF SendAccept, TypeOK
<1>4. key' \in [Session -> 0 .. MaxKey]
  BY <1>2, <1>3 DEF TypeOK
<1>5. {Accept(m, s, key'[s])} \in SUBSET Message
  BY <1>2, <1>3, AcceptTypes
<1>6. Consume(d, {Accept(m, s, key'[s])})
  BY DEF SendAccept
<1>7. QED
  BY <1>4, <1>5, <1>6, ConsumeTypes DEF TypeOK

LEMMA StopDisplaysType ==
    ASSUME TypeOK, NEW S, NEW T, StopDisplays(S, T)
    PROVE  child' \in [Session -> Process]
BY DEF StopDisplays, TypeOK

LEMMA FaultType == ASSUME TypeOK, Fault PROVE faults' \in Nat
BY DEF Fault, TypeOK

LEMMA ProcessRequestType == TypeInv /\ ProcessRequestSocket => TypeInv'
<1> SUFFICES ASSUME TypeInv, ProcessRequestSocket PROVE TypeInv'
  OBVIOUS
<1> USE DEF TypeInv
<1>1. PICK m \in Manager, d \in net :
          QueryRespond(d, m) \/ RequestRespond(d, m) \/ Manage(d, m)
  BY DEF ProcessRequestSocket
<1>2. dups \in Nat /\ faults \in Nat /\ net \in SUBSET Message
  BY DEF TypeOK
<1>3. XdmType' /\ NetType' /\ faults' \in Nat /\ dups' \in Nat
  <2>1. CASE QueryRespond(d, m)
    <3>1. \A t \in {"WILLING", "UNWILLING"} : {Datagram(t, m)} \in SUBSET Message
      BY DatagramTypes
    <3>2. \E out \in SUBSET Message : Consume(d, out)
      BY <2>1, <3>1 DEF QueryRespond
    <3>3. net' \in SUBSET Message /\ dups' \in Nat
      BY <1>2, <3>2, ConsumeTypes
    <3>4. faults' \in Nat /\ UNCHANGED xdm
      BY <1>2, <2>1, FaultType DEF QueryRespond
    <3>5. XdmType'
      BY <3>4 DEF xdm, XdmType, TypeOK
    <3>6. QED
      BY <3>3, <3>4, <3>5 DEF NetType
  <2>2. CASE RequestRespond(d, m)
    <3>1. faults' \in Nat /\ child' = child /\ health' = health
      BY <1>2, <2>2, FaultType DEF RequestRespond
    <3>2. stage' \in [Session -> {"none", "proto", "display", "gone"}]
      BY <2>2 DEF RequestRespond, TypeOK
    <3>3. /\ key' \in [Session -> 0 .. MaxKey]
          /\ net' \in SUBSET Message /\ dups' \in Nat
      <4>1. CASE \E s \in Session : SendAccept(d, m, s)
        BY <4>1, SendAcceptType
      <4>2. CASE Consume(d, {Datagram("DECLINE", m)}) /\ key' = key
        <5>1. {Datagram("DECLINE", m)} \in SUBSET Message
          BY DatagramTypes
        <5>2. QED
          BY <1>2, <4>2, <5>1, ConsumeTypes DEF TypeOK
      <4>3. QED
        BY <2>2, <4>1, <4>2 DEF RequestRespond, Protos, Of
    <3>4. QED
      BY <3>1, <3>2, <3>3 DEF XdmType, NetType, TypeOK
  <2>3. CASE Manage(d, m)
    <3>1. PICK s \in Session : d = About("MANAGE", m, s)
      BY <2>3 DEF Manage, StartSession, FailSession, TurnDown
    <3>2. d.id \in Session
      BY <3>1 DEF About
    <3>3. {About("FAILED", m, d.id)} \in SUBSET Message /\ {About("REFUSE", m, d.id)} \in SUBSET Message
      BY <3>2, AboutTypes
    <3>4. \E out \in SUBSET Message : Consume(d, out)
      BY <2>3, <3>3 DEF Manage, StartSession, FailSession, TurnDown
    <3>5. net' \in SUBSET Message /\ dups' \in Nat
      BY <1>2, <3>4, ConsumeTypes
    <3>6. faults' \in Nat
      BY <1>2, <2>3, FaultType DEF Manage, StartSession, FailSession, TurnDown
    <3>7. key' = key
      BY <2>3 DEF Manage, StartSession, FailSession, TurnDown
    <3>8. stage' \in [Session -> {"none", "proto", "display", "gone"}]
      BY <2>3 DEF Manage, StartSession, FailSession, TurnDown, TypeOK
    <3>9. child' \in [Session -> Process]
      <4>1. (\E S, T : StopDisplays(S, T)) \/ child' = child
        BY <2>3 DEF Manage, StartSession, FailSession, TurnDown
      <4>2. QED
        BY <4>1, StopDisplaysType DEF TypeOK
    <3>10. health' \in [Manager -> {"sound", "damaged", "dead"}]
      BY <2>3 DEF Manage, StartSession, FailSession, TurnDown, TypeOK
    <3>11. QED
      BY <3>5, <3>6, <3>7, <3>8, <3>9, <3>10 DEF XdmType, NetType, TypeOK
  <2>4. QED
    BY <1>1, <2>1, <2>2, <2>3
<1>4. UNCHANGED <<options, server, logouts, locals>>
  BY DEF ProcessRequestSocket
<1>5. OptionType' /\ ServerType' /\ ManagerKnown'
  BY <1>4 DEF server, TypeOK, OptionType, ServerType, ManagerKnown
<1>6. CountType'
  BY <1>3, <1>4 DEF TypeOK, CountType
<1>7. QED
  BY <1>3, <1>5, <1>6 DEF TypeOK, OptionType, ServerType, XdmType, NetType, CountType

LEMMA ProcessType ==
    ASSUME TypeInv, \/ ExpireProto \/ Lose \/ SessionStep
                    \/ \E m \in Manager : Crash(m)
                    \/ \E s \in Session : WaitForChild(s)
    PROVE  TypeInv'
<1> USE DEF TypeInv
<1>1. CASE ExpireProto
  <2>1. XdmType'
    BY <1>1 DEF ExpireProto, XdmType, TypeOK
  <2>2. OptionType' /\ ServerType' /\ ManagerKnown' /\ NetType'
    BY <1>1 DEF ExpireProto, server, OptionType, ServerType, ManagerKnown, NetType, TypeOK
  <2>3. CountType'
    BY <1>1, FaultType DEF ExpireProto, CountType, TypeOK
  <2>4. QED
    BY <2>1, <2>2, <2>3 DEF TypeOK, OptionType, ServerType, XdmType, NetType, CountType
<1>2. CASE Lose
  <2>1. net' \in SUBSET Message
    BY <1>2 DEF Lose, TypeOK
  <2>2. OptionType' /\ ServerType' /\ ManagerKnown' /\ XdmType'
    BY <1>2 DEF Lose, server, xdm, OptionType, ServerType, ManagerKnown, XdmType, TypeOK
  <2>3. CountType'
    BY <1>2, FaultType DEF Lose, CountType, TypeOK
  <2>4. QED
    BY <2>1, <2>2, <2>3 DEF TypeOK, OptionType, ServerType, XdmType, NetType, CountType
<1>3. CASE \E s \in Session : WaitForChild(s)
  <2>1. PICK s \in Session : WaitForChild(s)
    BY <1>3
  <2>2. XdmType'
    BY <2>1 DEF WaitForChild, XdmType, TypeOK
  <2>3. s[1] \in Manager
    BY DEF Session
  <2>4. {About("FAILED", s[1], s)} \in SUBSET Message
    BY <2>3, AboutTypes
  <2>5. NetType'
    BY <2>1, <2>4 DEF WaitForChild, NetType, TypeOK
  <2>6. OptionType' /\ ServerType' /\ ManagerKnown' /\ CountType'
    BY <2>1 DEF WaitForChild, server, bounds, OptionType, ServerType, ManagerKnown, CountType, TypeOK
  <2>7. QED
    BY <2>2, <2>5, <2>6 DEF TypeOK, OptionType, ServerType, XdmType, NetType, CountType
<1>4. CASE SessionStep
  <2>1. PICK s \in Session : \/ ChildOpens(s) \/ ChildFails(s)
                             \/ StoppedEnds(s) \/ ChildExits(s)
    BY <1>4 DEF SessionStep
  <2>2. XdmType'
    BY <2>1 DEF ChildOpens, ChildFails, StoppedEnds, ChildExits, XdmType, TypeOK
  <2>3. ServerType' /\ ManagerKnown'
    <3>1. CASE ChildOpens(s)
      <4>1. s \in Client
        BY DEF Client
      <4>2. QED
        BY <3>1, <4>1, OpenDisplayType DEF ChildOpens
    <3>2. CASE UNCHANGED server
      BY <3>2 DEF server, ServerType, ManagerKnown, TypeOK
    <3>3. QED
      BY <2>1, <3>1, <3>2 DEF ChildFails, StoppedEnds, ChildExits
  <2>4. OptionType' /\ NetType'
    BY <2>1 DEF ChildOpens, ChildFails, StoppedEnds, ChildExits, OptionType, NetType, TypeOK
  <2>5. CountType'
    <3>1. CASE ChildOpens(s) \/ StoppedEnds(s)
      BY <3>1 DEF ChildOpens, StoppedEnds, bounds, CountType, TypeOK
    <3>2. CASE ChildFails(s)
      BY <3>2, FaultType DEF ChildFails, CountType, TypeOK
    <3>3. CASE ChildExits(s)
      BY <3>3 DEF ChildExits, CountType, TypeOK
    <3>4. QED
      BY <2>1, <3>1, <3>2, <3>3
  <2>6. QED
    BY <2>2, <2>3, <2>4, <2>5 DEF TypeOK, OptionType, ServerType, XdmType, NetType, CountType
<1>5. CASE \E m \in Manager : Crash(m)
  <2>1. XdmType'
    BY <1>5 DEF Crash, XdmType, TypeOK
  <2>2. OptionType' /\ ServerType' /\ ManagerKnown' /\ NetType' /\ CountType'
    BY <1>5 DEF Crash, server, bounds, OptionType, ServerType, ManagerKnown, NetType,
                CountType, TypeOK
  <2>3. QED
    BY <2>1, <2>2 DEF TypeOK, OptionType, ServerType, XdmType, NetType, CountType
<1>6. QED
  BY <1>1, <1>2, <1>3, <1>4, <1>5

\* Every reachable state is well typed, and a server that awaits an answer knows
\* its manager: for any number of managers, clients and failures.
THEOREM XdmcpTypeCorrect == Spec => []TypeInv
<1>1. Init => TypeInv
  <2> SUFFICES ASSUME Init PROVE TypeInv
    OBVIOUS
  <2>1. Queries \in SUBSET Message
    BY QueriesTypes DEF Init
  <2>2. OptionType /\ XdmType /\ NetType /\ CountType
    BY <2>1, BoundAssumption DEF Init, OptionType, XdmType, NetType, CountType
  <2>3. ServerType /\ ManagerKnown
    BY DEF Init, ServerType, ManagerKnown, State
  <2>4. QED
    BY <2>2, <2>3 DEF TypeInv, TypeOK, OptionType, ServerType, XdmType, NetType, CountType
<1>2. TypeInv /\ [Next]_vars => TypeInv'
  <2> SUFFICES ASSUME TypeInv, [Next]_vars PROVE TypeInv'
    OBVIOUS
  <2>1. CASE Next
    BY <2>1, ServerStepType, LocalType, ProcessRequestType, ProcessType DEF Next, ManagerStep
  <2>2. CASE UNCHANGED vars
    <3>1. OptionType' /\ ServerType' /\ ManagerKnown'
      BY <2>2 DEF TypeInv, vars, server, TypeOK, OptionType, ServerType, ManagerKnown
    <3>2. XdmType' /\ NetType' /\ CountType'
      BY <2>2 DEF TypeInv, vars, xdm, bounds, TypeOK, XdmType, NetType, CountType
    <3>3. QED
      BY <3>1, <3>2 DEF TypeInv, TypeOK, OptionType, ServerType, XdmType, NetType, CountType
  <2>3. QED
    BY <2>1, <2>2
<1>3. QED
  BY <1>1, <1>2, PTL DEF Spec

\* The type invariant of the runs.
THEOREM XdmcpTypes == Spec => []TypeOK
BY XdmcpTypeCorrect, PTL DEF TypeInv

(***************************************************************************)
(* One session per display, and no stray process.                          *)
(***************************************************************************)
Sessions == OneSessionPerDisplay /\ NoStrayProcess

\* What a step of the managers may do to stage and child, one session at a time.
LEMMA OneChanges ==
    ASSUME TypeOK, Sessions, NEW s \in Session,
           NEW st \in {"none", "proto", "display", "gone"}, NEW ch,
           stage' = [stage EXCEPT ![s] = st],
           child' = [child EXCEPT ![s] = ch],
           st # "display",
           st = "proto" => Protos(s[1]) = {},
           ch \notin {"opening", "open", "failed", "exited"}
    PROVE  Sessions'
<1>1. \A t \in Session : /\ stage'[t] = IF t = s THEN st ELSE stage[t]
                         /\ child'[t] = IF t = s THEN ch ELSE child[t]
  BY DEF TypeOK
<1>2. NoStrayProcess'
  BY <1>1 DEF Sessions, NoStrayProcess
<1>3. OneSessionPerDisplay'
  <2> SUFFICES ASSUME NEW m \in Manager, NEW t \in Of(m), NEW u \in Of(m),
                      stage'[t] = stage'[u], stage'[t] \in {"proto", "display"}
               PROVE  t = u
    BY DEF OneSessionPerDisplay
  <2>1. t \in Session /\ u \in Session /\ t[1] = m /\ u[1] = m
    BY DEF Of
  <2>2. CASE t # s /\ u # s
    BY <1>1, <2>1, <2>2 DEF Sessions, OneSessionPerDisplay
  <2>3. ASSUME NEW v \in Session, v[1] = s[1], v # s, st = "proto"
        PROVE  stage[v] # "proto"
    BY <2>3 DEF Protos, Of
  <2>4. CASE t = s /\ u # s
    BY <1>1, <2>1, <2>3, <2>4
  <2>5. CASE t # s /\ u = s
    BY <1>1, <2>1, <2>3, <2>5
  <2>6. QED
    BY <2>2, <2>4, <2>5
<1>4. QED
  BY <1>2, <1>3 DEF Sessions

LEMMA SessionsKept ==
    ASSUME Sessions, stage' = stage,
           \A s \in Session : \/ child'[s] \notin {"opening", "open", "failed", "exited"}
                             \/ child[s] \in {"opening", "open", "failed", "exited"}
    PROVE  Sessions'
BY DEF Sessions, OneSessionPerDisplay, NoStrayProcess

LEMMA RequestRespondSessions ==
    ASSUME TypeOK, Sessions, NEW m \in Manager, NEW d, RequestRespond(d, m)
    PROVE  Sessions'
<1>1. child' = child
  BY DEF RequestRespond
<1>2. CASE stage' = stage
  BY <1>1, <1>2, SessionsKept
<1>3. ASSUME Protos(m) = {}, NEW s \in Session, Fresh(m, s),
             stage' = [stage EXCEPT ![s] = "proto"]
      PROVE  Sessions'
  <2>1. s[1] = m /\ stage[s] = "none"
    BY <1>3 DEF Fresh, Of
  <2>2. child[s] \notin {"opening", "open", "failed", "exited"}
    BY <2>1 DEF Sessions, NoStrayProcess
  <2>3. child' = [child EXCEPT ![s] = child[s]]
    BY <1>1 DEF TypeOK
  <2>4. QED
    BY <1>3, <2>1, <2>2, <2>3, OneChanges
<1>4. QED
  BY <1>2, <1>3 DEF RequestRespond

\* What manage() does to the lists and the processes: nothing, or it starts a session,
\* or fails after it stopped the display.
LEMMA ManageCases ==
    ASSUME NEW m \in Manager, NEW d, NEW s, d.id = s, Manage(d, m)
    PROVE  \/ UNCHANGED <<stage, child>>
           \/ /\ s \in Protos(m)
              /\ \E T \in SUBSET {s} : StopDisplays(Displays(m), T)
              /\ stage' = [t \in Session |-> IF t = s THEN "display"
                                             ELSE IF t \in Displays(m) THEN "gone"
                                             ELSE stage[t]]
           \/ /\ s \in Protos(m)
              /\ StopDisplays(Displays(m), {})
              /\ stage' = [t \in Session |-> IF t \in Displays(m) THEN "gone"
                                             ELSE stage[t]]
<1>1. CASE s \in Protos(m) /\ StartSession(d, m)
  <2>1. \E T \in SUBSET {s} : StopDisplays(Displays(m), T)
    <3>1. {} \in SUBSET {s} /\ {s} \in SUBSET {s}
      OBVIOUS
    <3>2. StopDisplays(Displays(m), {s}) \/ StopDisplays(Displays(m), {})
      BY <1>1 DEF StartSession
    <3>3. QED
      BY <3>1, <3>2
  <2>2. QED
    BY <1>1, <2>1 DEF StartSession
<1>2. CASE s \in Protos(m) /\ FailSession(d, m)
  BY <1>2 DEF FailSession
<1>3. CASE TurnDown(d, m)
  BY <1>3 DEF TurnDown
<1>4. QED
  BY <1>1, <1>2, <1>3 DEF Manage

\* manage() stops what ran before it starts a session.
LEMMA ManageSessions ==
    ASSUME TypeOK, Sessions, NEW m \in Manager, NEW d, Manage(d, m)
    PROVE  Sessions'
<1>0. PICK s \in Session : d = About("MANAGE", m, s)
  BY DEF Manage, StartSession, FailSession, TurnDown
<1>1. d.id = s
  BY <1>0 DEF About
<1>2. CASE UNCHANGED <<stage, child>>
  BY <1>2, SessionsKept
<1>3. ASSUME NEW T \in SUBSET {s}, StopDisplays(Displays(m), T),
             stage[s] = "proto", s \in Of(m),
             \A t \in Session : t \in Displays(m) => stage'[t] = "gone",
             \A t \in Session : t \notin Displays(m) /\ t # s => stage'[t] = stage[t],
             stage'[s] \in {"proto", "display"},
             T # {} => stage'[s] = "display"
      PROVE  Sessions'
  <2>1. \A t \in Session : child'[t] = "opening" => t \in T \/ child[t] = "opening"
    BY <1>3 DEF StopDisplays
  <2>2. \A t \in Displays(m) : child'[t] \in {"none", "ghost", "stopped"}
    BY <1>3 DEF StopDisplays, Displays, Of, TypeOK
  <2>3. \A t \in Session : t \notin T /\ t \notin Displays(m) => child'[t] = child[t]
    BY <1>3 DEF StopDisplays
  <2>4. NoStrayProcess'
    <3> SUFFICES ASSUME NEW t \in Session,
                        child'[t] \in {"opening", "open", "failed", "exited"}
                 PROVE  stage'[t] = "display"
      BY DEF NoStrayProcess
    <3>1. t \notin Displays(m)
      BY <2>2
    <3>2. CASE t \in T
      BY <1>3, <3>2
    <3>3. CASE t \notin T
      <4>1. stage[t] = "display"
        BY <2>3, <3>1, <3>3 DEF Sessions, NoStrayProcess
      <4>2. t # s
        BY <1>3, <4>1
      <4>3. QED
        BY <1>3, <3>1, <4>1, <4>2
    <3>4. QED
      BY <3>2, <3>3
  <2>5. OneSessionPerDisplay'
    <3> SUFFICES ASSUME NEW n \in Manager, NEW t \in Of(n), NEW u \in Of(n),
                        stage'[t] = stage'[u], stage'[t] \in {"proto", "display"}
                 PROVE  t = u
      BY DEF OneSessionPerDisplay
    <3>1. t \in Session /\ u \in Session /\ t[1] = n /\ u[1] = n /\ s[1] = m
      BY <1>3 DEF Of
    <3>2. t \notin Displays(m) /\ u \notin Displays(m)
      BY <1>3, <3>1
    <3>3. CASE t # s /\ u # s
      <4>1. stage[t] = stage[u] /\ stage[t] \in {"proto", "display"}
        BY <1>3, <3>1, <3>2, <3>3
      <4>2. QED
        BY <4>1 DEF Sessions, OneSessionPerDisplay
    <3>4. ASSUME NEW v \in Of(m), v # s, v \notin Displays(m)
          PROVE  stage'[v] \notin {"proto", "display"}
      <4>1. v \in Session /\ stage'[v] = stage[v] /\ stage[v] # "display"
        BY <1>3, <3>4 DEF Displays, Of
      <4>2. stage[v] # "proto"
        BY <1>3, <3>4 DEF Sessions, OneSessionPerDisplay
      <4>3. QED
        BY <4>1, <4>2
    <3>5. CASE t = s /\ u # s
      BY <3>1, <3>2, <3>4, <3>5
    <3>6. CASE t # s /\ u = s
      BY <3>1, <3>2, <3>4, <3>6
    <3>7. QED
      BY <3>3, <3>5, <3>6
  <2>6. QED
    BY <2>4, <2>5 DEF Sessions
<1>4. s \notin Displays(m) \/ stage[s] # "proto"
  BY DEF Displays
<1>5. ASSUME s \in Protos(m) PROVE stage[s] = "proto" /\ s \in Of(m)
  BY <1>5 DEF Protos
<1>6. CASE /\ s \in Protos(m)
           /\ \E T \in SUBSET {s} : StopDisplays(Displays(m), T)
           /\ stage' = [t \in Session |-> IF t = s THEN "display"
                                          ELSE IF t \in Displays(m) THEN "gone"
                                          ELSE stage[t]]
  <2>1. /\ \A t \in Session : t \in Displays(m) => stage'[t] = "gone"
        /\ \A t \in Session : t \notin Displays(m) /\ t # s => stage'[t] = stage[t]
        /\ stage'[s] = "display"
    BY <1>4, <1>5, <1>6
  <2>2. QED
    BY <1>3, <1>5, <1>6, <2>1
<1>7. CASE /\ s \in Protos(m)
           /\ StopDisplays(Displays(m), {})
           /\ stage' = [t \in Session |-> IF t \in Displays(m) THEN "gone"
                                          ELSE stage[t]]
  <2>1. /\ \A t \in Session : t \in Displays(m) => stage'[t] = "gone"
        /\ \A t \in Session : t \notin Displays(m) /\ t # s => stage'[t] = stage[t]
        /\ stage'[s] = "proto"
    BY <1>4, <1>5, <1>7
  <2>2. QED
    BY <1>3, <1>5, <1>7, <2>1
<1>8. QED
  BY <1>1, <1>2, <1>6, <1>7, ManageCases

LEMMA SessionsInductive == TypeOK /\ Sessions /\ [Next]_vars => Sessions'
<1> SUFFICES ASSUME TypeOK, Sessions, [Next]_vars PROVE Sessions'
  OBVIOUS
<1>1. CASE UNCHANGED <<stage, child>>
  BY <1>1, SessionsKept
<1>2. CASE \/ ServerStep \/ LocalOpens \/ LocalCloses \/ Lose \/ UNCHANGED vars
           \/ \E m \in Manager : Crash(m)
  BY <1>1, <1>2 DEF ServerStep, ReceivePacket, NoticeClose, Reset, Terminate, LocalOpens,
                    LocalCloses, Lose, Crash, vars, xdm
<1>3. CASE ProcessRequestSocket
  <2>1. PICK m \in Manager, d \in net :
            QueryRespond(d, m) \/ RequestRespond(d, m) \/ Manage(d, m)
    BY <1>3 DEF ProcessRequestSocket
  <2>2. CASE QueryRespond(d, m)
    BY <2>2, <1>1 DEF QueryRespond, xdm
  <2>3. QED
    BY <2>1, <2>2, RequestRespondSessions, ManageSessions
<1>4. ASSUME NEW s \in Session, WaitForChild(s) PROVE Sessions'
  <2>1. /\ stage' = [stage EXCEPT ![s] = "gone"]
        /\ child' = [child EXCEPT ![s] = "none"]
    BY <1>4 DEF WaitForChild
  <2>2. QED
    BY <2>1, OneChanges
<1>5. CASE ExpireProto
  <2>1. PICK s \in Session : stage[s] = "proto" /\ stage' = [stage EXCEPT ![s] = "gone"]
    BY <1>5 DEF ExpireProto
  <2>2. child[s] \notin {"opening", "open", "failed", "exited"}
    BY <2>1 DEF Sessions, NoStrayProcess
  <2>3. child' = [child EXCEPT ![s] = child[s]]
    BY <1>5 DEF ExpireProto, TypeOK
  <2>4. QED
    BY <2>1, <2>2, <2>3, OneChanges
<1>6. CASE SessionStep
  <2>1. PICK s \in Session : \/ ChildOpens(s) \/ ChildFails(s)
                             \/ StoppedEnds(s) \/ ChildExits(s)
    BY <1>6 DEF SessionStep
  <2>2. stage' = stage
    BY <2>1 DEF ChildOpens, ChildFails, StoppedEnds, ChildExits
  <2>3. \A t \in Session : \/ child'[t] \notin {"opening", "open", "failed", "exited"}
                           \/ child[t] \in {"opening", "open", "failed", "exited"}
    BY <2>1 DEF ChildOpens, ChildFails, StoppedEnds, ChildExits, TypeOK
  <2>4. QED
    BY <2>2, <2>3, SessionsKept
<1>7. QED
  BY <1>2, <1>3, <1>4, <1>5, <1>6 DEF Next, ManagerStep

\* However its datagrams arrive, a manager negotiates one session and runs one
\* for a display, and every process without a place in its list was told to stop.
THEOREM SessionsSafe == Spec => [](OneSessionPerDisplay /\ NoStrayProcess)
<1>1. Init => Sessions
  <2> SUFFICES ASSUME Init PROVE Sessions
    OBVIOUS
  <2>1. \A s \in Session : stage[s] = "none" /\ child[s] = "none"
    BY DEF Init
  <2>2. QED
    BY <2>1 DEF Sessions, OneSessionPerDisplay, NoStrayProcess, Of
<1>2. QED
  BY <1>1, SessionsInductive, XdmcpTypes, PTL DEF Spec, Sessions

\* The two conjuncts, by name.
THEOREM OneSession == Spec => []OneSessionPerDisplay
BY SessionsSafe, PTL

THEOREM NoStray == Spec => []NoStrayProcess
BY SessionsSafe, PTL

(***************************************************************************)
(* The table of a manager's sessions: DisplaySessions is implemented.      *)
(***************************************************************************)
Works(c) == c \in {"opening", "open", "failed", "exited"}

LEMMA Updated ==
    ASSUME NEW M, NEW m \in M, NEW f, NEW g, NEW v,
           f = [n \in M |-> f[n]], g = [n \in M |-> g[n]],
           \A n \in M : g[n] = IF n = m THEN v ELSE f[n]
    PROVE  g = [f EXCEPT ![m] = v] /\ (v = f[m] => g = f)
<1>1. [f EXCEPT ![m] = v] = [n \in M |-> IF n = m THEN v ELSE f[n]]
  OBVIOUS
<1>2. [n \in M |-> g[n]] = [n \in M |-> IF n = m THEN v ELSE f[n]]
  OBVIOUS
<1>3. v = f[m] => [n \in M |-> g[n]] = [n \in M |-> f[n]]
  OBVIOUS
<1>4. QED
  BY <1>1, <1>2, <1>3

\* A step about the sessions of m changes the table for m only.
LEMMA TableOf ==
    ASSUME NEW m \in Manager,
           \A s \in Session : s[1] # m =>
               stage'[s] = stage[s] /\ (Works(child'[s]) <=> Works(child[s]))
    PROVE  /\ offeredBar' = [offeredBar EXCEPT ![m] = Protos(m)']
           /\ managedBar' = [managedBar EXCEPT ![m] = Displays(m)']
           /\ endedBar' = [endedBar EXCEPT ![m] = Ended(m)']
           /\ workingBar' = [workingBar EXCEPT ![m] = Working(m)']
           /\ Protos(m)' = Protos(m) => offeredBar' = offeredBar
           /\ Displays(m)' = Displays(m) => managedBar' = managedBar
           /\ Ended(m)' = Ended(m) => endedBar' = endedBar
           /\ Working(m)' = Working(m) => workingBar' = workingBar
<1>1. ASSUME NEW n \in Manager, n # m
      PROVE  /\ Protos(n)' = Protos(n) /\ Displays(n)' = Displays(n)
             /\ Ended(n)' = Ended(n) /\ Working(n)' = Working(n)
  <2>1. \A s \in Of(n) : /\ stage'[s] = stage[s]
                         /\ Works(child'[s]) <=> Works(child[s])
    BY <1>1 DEF Of
  <2>2. Of(n)' = Of(n)
    BY DEF Of
  <2>3. Protos(n)' = Protos(n) /\ Displays(n)' = Displays(n) /\ Ended(n)' = Ended(n)
    BY <2>1, <2>2 DEF Protos, Displays, Ended
  <2>4. Working(n)' = Working(n)
    BY <2>1, <2>2 DEF Working, Works
  <2>5. QED
    BY <2>3, <2>4
<1>2. /\ \A n \in Manager : offeredBar'[n] = IF n = m THEN Protos(m)' ELSE offeredBar[n]
      /\ offeredBar = [n \in Manager |-> offeredBar[n]]
      /\ offeredBar' = [n \in Manager |-> offeredBar'[n]] /\ offeredBar[m] = Protos(m)
  BY <1>1 DEF offeredBar
<1>3. /\ \A n \in Manager : managedBar'[n] = IF n = m THEN Displays(m)' ELSE managedBar[n]
      /\ managedBar = [n \in Manager |-> managedBar[n]]
      /\ managedBar' = [n \in Manager |-> managedBar'[n]] /\ managedBar[m] = Displays(m)
  BY <1>1 DEF managedBar
<1>4. /\ \A n \in Manager : endedBar'[n] = IF n = m THEN Ended(m)' ELSE endedBar[n]
      /\ endedBar = [n \in Manager |-> endedBar[n]]
      /\ endedBar' = [n \in Manager |-> endedBar'[n]] /\ endedBar[m] = Ended(m)
  BY <1>1 DEF endedBar
<1>5. /\ \A n \in Manager : workingBar'[n] = IF n = m THEN Working(m)' ELSE workingBar[n]
      /\ workingBar = [n \in Manager |-> workingBar[n]]
      /\ workingBar' = [n \in Manager |-> workingBar'[n]] /\ workingBar[m] = Working(m)
  BY <1>1 DEF workingBar
<1>6. /\ offeredBar' = [offeredBar EXCEPT ![m] = Protos(m)']
      /\ Protos(m)' = Protos(m) => offeredBar' = offeredBar
  BY <1>2, Updated
<1>7. /\ managedBar' = [managedBar EXCEPT ![m] = Displays(m)']
      /\ Displays(m)' = Displays(m) => managedBar' = managedBar
  BY <1>3, Updated
<1>8. /\ endedBar' = [endedBar EXCEPT ![m] = Ended(m)']
      /\ Ended(m)' = Ended(m) => endedBar' = endedBar
  BY <1>4, Updated
<1>9. /\ workingBar' = [workingBar EXCEPT ![m] = Working(m)']
      /\ Working(m)' = Working(m) => workingBar' = workingBar
  BY <1>5, Updated
<1>10. QED
  BY <1>6, <1>7, <1>8, <1>9

LEMMA TableEntries ==
    ASSUME NEW m \in Manager
    PROVE  /\ offeredBar[m] = Protos(m) /\ managedBar[m] = Displays(m)
           /\ endedBar[m] = Ended(m) /\ workingBar[m] = Working(m)
BY DEF offeredBar, managedBar, endedBar, workingBar

\* A step that changes no list and starts or ends no process
LEMMA TableKept ==
    ASSUME stage' = stage, \A s \in Session : Works(child'[s]) <=> Works(child[s])
    PROVE  UNCHANGED Table!vars
<1>1. \A m : /\ Protos(m)' = Protos(m) /\ Displays(m)' = Displays(m)
             /\ Ended(m)' = Ended(m) /\ Working(m)' = Working(m)
  BY DEF Protos, Displays, Ended, Working, Works, Of
<1>2. QED
  BY <1>1 DEF Table!vars, offeredBar, managedBar, endedBar, workingBar

\* request_respond offers a session only when none is on offer, and a new one.
LEMMA OfferRefines ==
    ASSUME TypeOK, NEW m \in Manager, NEW s \in Session, Fresh(m, s), Protos(m) = {},
           stage' = [stage EXCEPT ![s] = "proto"], child' = child
    PROVE  Table!Offer(m, s)
<1>1. /\ s[1] = m /\ stage[s] = "none"
      /\ \A t \in Session : stage'[t] = IF t = s THEN "proto" ELSE stage[t]
  BY DEF Fresh, Of, TypeOK
<1>2. Protos(m)' = {s}
  BY <1>1 DEF Protos, Of
<1>3. Displays(m)' = Displays(m) /\ Ended(m)' = Ended(m)
  BY <1>1 DEF Displays, Ended, Of
<1>4. Working(m)' = Working(m)
  BY DEF Working, Of
<1>5. s \notin Displays(m) \cup Ended(m)
  BY <1>1 DEF Displays, Ended
<1>6. \A t \in Session : t[1] # m =>
          stage'[t] = stage[t] /\ (Works(child'[t]) <=> Works(child[t]))
  BY <1>1
<1>7. /\ offeredBar' = [offeredBar EXCEPT ![m] = Protos(m)']
      /\ UNCHANGED <<managedBar, endedBar, workingBar>>
  BY <1>3, <1>4, <1>6, TableOf
<1>8. QED
  BY <1>2, <1>5, <1>7, TableEntries DEF Table!Offer

\* What StopDisplay leaves of the sessions that were managed
LEMMA StopsAll ==
    ASSUME TypeOK, Sessions, NEW m \in Manager, NEW T \in SUBSET Session,
           T \cap Displays(m) = {}, StopDisplays(Displays(m), T)
    PROVE  /\ \A t \in Displays(m) : ~Works(child'[t])
           /\ \A t \in T : Works(child'[t])
           /\ \A t \in Session : t \notin Displays(m) /\ t \notin T => child'[t] = child[t]
           /\ \A t \in Of(m) : t \notin Displays(m) /\ t \notin T => ~Works(child'[t])
<1>1. Displays(m) \subseteq Session /\ Of(m) \subseteq Session
  BY DEF Displays, Of
<1>2. \A t \in Session :
          child'[t] = IF t \in T THEN "opening"
                      ELSE IF t \notin Displays(m) THEN child[t]
                      ELSE IF child[t] \in {"opening", "ghost"} THEN "ghost"
                      ELSE IF child[t] \in {"open", "stopped"} THEN "stopped"
                      ELSE "none"
  BY DEF StopDisplays
<1>3. \A t \in Displays(m) : ~Works(child'[t])
  BY <1>1, <1>2 DEF Works
<1>4. \A t \in T : Works(child'[t])
  BY <1>1, <1>2 DEF Works
<1>5. \A t \in Session : t \notin Displays(m) /\ t \notin T => child'[t] = child[t]
  BY <1>2
<1>6. ASSUME NEW t \in Of(m), t \notin Displays(m) PROVE ~Works(child[t])
  BY <1>1, <1>6 DEF Displays, Works, Sessions, NoStrayProcess
<1>7. QED
  BY <1>1, <1>3, <1>4, <1>5, <1>6

\* manage() with the offered session: it takes the place of the one that ran.
LEMMA BeginRefines ==
    ASSUME TypeOK, Sessions, NEW m \in Manager, NEW s \in Protos(m), NEW T \in SUBSET {s},
           StopDisplays(Displays(m), T),
           stage' = [t \in Session |-> IF t = s THEN "display"
                                       ELSE IF t \in Displays(m) THEN "gone"
                                       ELSE stage[t]]
    PROVE  Table!Begin(m)
<1>1. s \in Session /\ s[1] = m /\ stage[s] = "proto" /\ s \notin Displays(m)
  BY DEF Protos, Displays, Of
<1>2. Protos(m) = {s}
  BY DEF Protos, Sessions, OneSessionPerDisplay, Of
<1>3. T \in SUBSET Session /\ T \cap Displays(m) = {}
  BY <1>1
<1>4. /\ \A t \in Displays(m) : ~Works(child'[t])
      /\ \A t \in T : Works(child'[t])
      /\ \A t \in Session : t \notin Displays(m) /\ t \notin T => child'[t] = child[t]
      /\ \A t \in Of(m) : t \notin Displays(m) /\ t \notin T => ~Works(child'[t])
  BY <1>3, StopsAll
<1>5. \A t \in Displays(m) : t \in Session /\ t[1] = m /\ stage[t] = "display"
  BY DEF Displays, Of
<1>6. \A t \in Session : stage'[t] = IF t = s THEN "display"
                                     ELSE IF t \in Displays(m) THEN "gone" ELSE stage[t]
  OBVIOUS
<1>7. \A t \in Session : t[1] # m =>
          stage'[t] = stage[t] /\ (Works(child'[t]) <=> Works(child[t]))
  BY <1>1, <1>4, <1>5, <1>6
<1>8. Protos(m)' = {}
  <2>1. ASSUME NEW t \in Session, t[1] = m PROVE stage'[t] # "proto"
    BY <1>2, <1>6, <2>1 DEF Protos, Of
  <2>2. QED
    BY <2>1 DEF Protos, Of
<1>9. Displays(m)' = {s}
  <2>1. ASSUME NEW t \in Session, t[1] = m, stage'[t] = "display" PROVE t = s
    BY <1>6, <2>1 DEF Displays, Of
  <2>2. QED
    BY <1>1, <1>6, <2>1 DEF Displays, Of
<1>10. Ended(m)' = Ended(m) \cup Displays(m)
  <2>1. ASSUME NEW t \in Session, t[1] = m
        PROVE  stage'[t] = "gone" <=> stage[t] = "gone" \/ t \in Displays(m)
    BY <1>1, <1>6, <2>1
  <2>2. QED
    BY <1>5, <2>1 DEF Ended, Of
<1>11. Working(m)' = T
  <2>1. ASSUME NEW t \in Session, t[1] = m PROVE Works(child'[t]) <=> t \in T
    BY <1>4, <2>1 DEF Of
  <2>2. QED
    BY <1>1, <2>1 DEF Working, Works, Of
<1>12. T \in {{}, {s}}
  OBVIOUS
<1>13. /\ offeredBar' = [offeredBar EXCEPT ![m] = {}]
       /\ managedBar' = [managedBar EXCEPT ![m] = {s}]
       /\ endedBar' = [endedBar EXCEPT ![m] = Ended(m) \cup Displays(m)]
       /\ workingBar' = [workingBar EXCEPT ![m] = T]
  BY <1>7, <1>8, <1>9, <1>10, <1>11, TableOf
<1>14. QED
  BY <1>2, <1>12, <1>13, TableEntries DEF Table!Begin

\* The session that is managed ends, by a manage() that fails or by WaitForChild.
LEMMA EndRefines ==
    ASSUME TypeOK, Sessions, NEW m \in Manager,
           \A t \in Session : stage'[t] = IF t \in Displays(m) THEN "gone" ELSE stage[t],
           \A t \in Displays(m) : ~Works(child'[t]),
           \A t \in Session : t \notin Displays(m) => child'[t] = child[t]
    PROVE  Table!End(m)
<1>1. \A t \in Displays(m) : t \in Session /\ t[1] = m /\ stage[t] = "display"
  BY DEF Displays, Of
<1>2. \A t \in Session : t[1] # m =>
          stage'[t] = stage[t] /\ (Works(child'[t]) <=> Works(child[t]))
  BY <1>1
<1>3. Protos(m)' = Protos(m)
  BY <1>1 DEF Protos, Of
<1>4. Displays(m)' = {}
  BY DEF Displays, Of
<1>5. Ended(m)' = Ended(m) \cup Displays(m)
  <2>1. ASSUME NEW t \in Session, t[1] = m
        PROVE  stage'[t] = "gone" <=> stage[t] = "gone" \/ t \in Displays(m)
    BY <2>1
  <2>2. QED
    BY <1>1, <2>1 DEF Ended, Of
<1>6. Working(m)' = {}
  <2>1. ASSUME NEW t \in Session, t[1] = m PROVE ~Works(child'[t])
    <3>1. CASE t \in Displays(m)
      BY <3>1
    <3>2. CASE t \notin Displays(m)
      BY <2>1, <3>2 DEF Displays, Of, Works, Sessions, NoStrayProcess
    <3>3. QED
      BY <3>1, <3>2
  <2>2. QED
    BY <2>1 DEF Working, Works, Of
<1>7. /\ UNCHANGED offeredBar
      /\ managedBar' = [managedBar EXCEPT ![m] = {}]
      /\ endedBar' = [endedBar EXCEPT ![m] = Ended(m) \cup Displays(m)]
      /\ workingBar' = [workingBar EXCEPT ![m] = {}]
  BY <1>2, <1>3, <1>4, <1>5, <1>6, TableOf
<1>8. QED
  BY <1>7, TableEntries DEF Table!End

LEMMA WithdrawRefines ==
    ASSUME TypeOK, Sessions, NEW s \in Session, stage[s] = "proto",
           stage' = [stage EXCEPT ![s] = "gone"], child' = child
    PROVE  Table!Withdraw(s[1])
<1> DEFINE m == s[1]
<1>1. m \in Manager
  BY DEF Session
<1>2. Protos(m) = {s}
  BY <1>1 DEF Protos, Sessions, OneSessionPerDisplay, Of
<1>3. \A t \in Session : stage'[t] = IF t = s THEN "gone" ELSE stage[t]
  BY DEF TypeOK
<1>4. \A t \in Session : t[1] # m =>
          stage'[t] = stage[t] /\ (Works(child'[t]) <=> Works(child[t]))
  BY <1>3
<1>5. Protos(m)' = {}
  <2>1. ASSUME NEW t \in Session, t[1] = m PROVE stage'[t] # "proto"
    BY <1>2, <1>3, <2>1 DEF Protos, Of
  <2>2. QED
    BY <2>1 DEF Protos, Of
<1>6. Displays(m)' = Displays(m) /\ Working(m)' = Working(m)
  BY <1>3 DEF Displays, Working, Of
<1>7. Ended(m)' = Ended(m) \cup {s}
  BY <1>3 DEF Ended, Of
<1> HIDE DEF m
<1>8. /\ offeredBar' = [offeredBar EXCEPT ![m] = {}]
      /\ UNCHANGED <<managedBar, workingBar>>
      /\ endedBar' = [endedBar EXCEPT ![m] = Ended(m) \cup Protos(m)]
  BY <1>1, <1>2, <1>4, <1>5, <1>6, <1>7, TableOf
<1>9. Table!Withdraw(m)
  BY <1>1, <1>8, TableEntries DEF Table!Withdraw
<1>10. QED
  BY <1>9 DEF m

LEMMA TableRefines ==
    ASSUME TypeOK, Sessions, [Next]_vars
    PROVE  [Table!Next]_(Table!vars)
<1>1. CASE UNCHANGED <<stage, child>>
  BY <1>1, TableKept
<1>2. CASE \/ ServerStep \/ LocalOpens \/ LocalCloses \/ Lose \/ UNCHANGED vars
           \/ \E m \in Manager : Crash(m)
  BY <1>1, <1>2 DEF ServerStep, ReceivePacket, NoticeClose, Reset, Terminate, LocalOpens,
                    LocalCloses, Lose, Crash, vars, xdm
<1>3. ASSUME NEW m \in Manager, NEW d, RequestRespond(d, m) PROVE [Table!Next]_(Table!vars)
  <2>1. \/ UNCHANGED <<stage, child>>
        \/ \E s \in Session : /\ Fresh(m, s) /\ Protos(m) = {} /\ child' = child
                              /\ stage' = [stage EXCEPT ![s] = "proto"]
    BY <1>3 DEF RequestRespond
  <2>2. QED
    BY <1>1, <2>1, OfferRefines DEF Table!Next
<1>4. ASSUME NEW m \in Manager, NEW d, Manage(d, m) PROVE [Table!Next]_(Table!vars)
  <2>1. PICK s \in Session : d = About("MANAGE", m, s)
    BY <1>4 DEF Manage, StartSession, FailSession, TurnDown
  <2>2. d.id = s
    BY <2>1 DEF About
  <2>3. \/ UNCHANGED <<stage, child>>
        \/ /\ s \in Protos(m)
           /\ \E T \in SUBSET {s} : StopDisplays(Displays(m), T)
           /\ stage' = [t \in Session |-> IF t = s THEN "display"
                                          ELSE IF t \in Displays(m) THEN "gone"
                                          ELSE stage[t]]
        \/ /\ StopDisplays(Displays(m), {})
           /\ stage' = [t \in Session |-> IF t \in Displays(m) THEN "gone"
                                          ELSE stage[t]]
    BY <1>4, <2>2, ManageCases
  <2>4. ASSUME StopDisplays(Displays(m), {}),
               stage' = [t \in Session |-> IF t \in Displays(m) THEN "gone" ELSE stage[t]]
        PROVE  Table!End(m)
    <3>1. /\ \A t \in Displays(m) : ~Works(child'[t])
          /\ \A t \in Session : t \notin Displays(m) /\ t \notin {} => child'[t] = child[t]
      BY <2>4, StopsAll
    <3>2. \A t \in Session : stage'[t] = IF t \in Displays(m) THEN "gone" ELSE stage[t]
      BY <2>4
    <3>3. QED
      BY <3>1, <3>2, EndRefines
  <2>5. QED
    BY <1>1, <2>3, <2>4, BeginRefines DEF Table!Next
<1>5. CASE ProcessRequestSocket
  <2>1. PICK m \in Manager, d \in net :
            QueryRespond(d, m) \/ RequestRespond(d, m) \/ Manage(d, m)
    BY <1>5 DEF ProcessRequestSocket
  <2>2. CASE QueryRespond(d, m)
    BY <2>2, <1>1 DEF QueryRespond, xdm
  <2>3. QED
    BY <1>3, <1>4, <2>1, <2>2
<1>6. ASSUME NEW s \in Session, WaitForChild(s) PROVE [Table!Next]_(Table!vars)
  <2> DEFINE m == s[1]
  <2>1. /\ child[s] \in {"failed", "exited"}
        /\ stage' = [stage EXCEPT ![s] = "gone"]
        /\ child' = [child EXCEPT ![s] = "none"]
    BY <1>6 DEF WaitForChild
  <2>2. m \in Manager /\ s \in Of(m) /\ stage[s] = "display"
    BY <2>1 DEF Session, Of, Sessions, NoStrayProcess
  <2>3. Displays(m) = {s}
    BY <2>2 DEF Displays, Sessions, OneSessionPerDisplay, Of
  <2>4. \A t \in Session : /\ stage'[t] = IF t = s THEN "gone" ELSE stage[t]
                           /\ child'[t] = IF t = s THEN "none" ELSE child[t]
    BY <2>1 DEF TypeOK
  <2>5. Table!End(m)
    BY <2>2, <2>3, <2>4, EndRefines DEF Works
  <2>6. QED
    BY <2>2, <2>5 DEF Table!Next
<1>7. CASE ExpireProto
  <2>1. PICK s \in Session : stage[s] = "proto" /\ stage' = [stage EXCEPT ![s] = "gone"]
    BY <1>7 DEF ExpireProto
  <2>2. child' = child
    BY <1>7 DEF ExpireProto
  <2>3. s[1] \in Manager /\ Table!Withdraw(s[1])
    BY <2>1, <2>2, WithdrawRefines DEF Session
  <2>4. QED
    BY <2>3 DEF Table!Next
<1>8. CASE SessionStep
  <2>1. PICK s \in Session : \/ ChildOpens(s) \/ ChildFails(s)
                             \/ StoppedEnds(s) \/ ChildExits(s)
    BY <1>8 DEF SessionStep
  <2>2. stage' = stage
    BY <2>1 DEF ChildOpens, ChildFails, StoppedEnds, ChildExits
  <2>3. \A t \in Session : Works(child'[t]) <=> Works(child[t])
    BY <2>1 DEF ChildOpens, ChildFails, StoppedEnds, ChildExits, TypeOK, Works
  <2>4. QED
    BY <2>2, <2>3, TableKept
<1>9. QED
  BY <1>2, <1>5, <1>6, <1>7, <1>8 DEF Next, ManagerStep

\* A manager's lists and processes keep the promise of DisplaySessions: one offer, one
\* session, one process at most, each session from an offer of its own, and no id used
\* again (programs/xdm: xdmcp.c, protodpy.c, dpylist.c, dm.c).
THEOREM PromiseKept == Spec => ManagerPromise
<1>1. Init => Table!Init
  <2> SUFFICES ASSUME Init PROVE Table!Init
    OBVIOUS
  <2>1. \A s \in Session : stage[s] = "none" /\ child[s] = "none"
    BY DEF Init
  <2>2. ASSUME NEW m \in Manager
        PROVE  Protos(m) = {} /\ Displays(m) = {} /\ Ended(m) = {} /\ Working(m) = {}
    BY <2>1 DEF Protos, Displays, Ended, Working, Of
  <2>3. QED
    BY <2>2 DEF Table!Init, offeredBar, managedBar, endedBar, workingBar
<1>2. TypeOK /\ Sessions /\ [Next]_vars => [Table!Next]_(Table!vars)
  BY TableRefines
<1>3. QED
  BY <1>1, <1>2, XdmcpTypes, SessionsSafe, PTL DEF Spec, Sessions, ManagerPromise, Table!Spec

(***************************************************************************)
(* How a running session ends.                                             *)
(***************************************************************************)
\* In RUN_SESSION a datagram moves the state only to OFF, and only UNWILLING or
\* DECLINE does; a close moves it only if it is the session's; a reset or the
\* end of the server closes every connection.
LEMMA EndOfSession ==
    ASSUME TypeOK, [Next]_vars, state = "RUN_SESSION", state' # "RUN_SESSION"
    PROVE  \/ sessionSocket \notin conns'
           \/ \E d \in net : d.type \in {"UNWILLING", "DECLINE"} /\ state' = "OFF"
<1>1. CASE ReceivePacket
  <2>1. PICK d \in net : RecvWilling(d) \/ RecvAccept(d) \/ RecvRefuse(d)
                             \/ RecvFailed(d) \/ RecvRejection(d)
    BY <1>1 DEF ReceivePacket
  <2>2. ~ Ignore(d) /\ ~ Matches(d)
    BY DEF Ignore, server, Matches
  <2>3. RecvRejection(d)
    BY <2>1, <2>2 DEF RecvWilling, RecvAccept, RecvRefuse, RecvFailed
  <2>4. QED
    BY <2>3 DEF RecvRejection, Fatal
<1>2. ASSUME NEW c, CloseDown(c) PROVE sessionSocket \notin conns'
  <2>1. sessionSocket = c /\ conns' = conns \ {c}
    BY <1>2 DEF CloseDown
  <2>2. QED
    BY <2>1
<1>3. CASE NoticeClose \/ LocalCloses
  BY <1>2, <1>3 DEF NoticeClose, LocalCloses
<1>4. CASE Reset \/ Terminate
  BY <1>4 DEF Reset, Terminate
<1>5. ASSUME NEW c, OpenDisplay(c) PROVE FALSE
  BY <1>5 DEF OpenDisplay
<1>6. CASE LocalOpens \/ SessionStep
  BY <1>5, <1>6 DEF LocalOpens, SessionStep, ChildOpens, ChildFails, StoppedEnds, ChildExits, server
<1>7. CASE \/ ManagerStep \/ ExpireProto \/ Lose \/ UNCHANGED vars
           \/ \E m \in Manager : Crash(m)
  BY <1>7 DEF ManagerStep, ProcessRequestSocket, WaitForChild, ExpireProto, Lose, Crash,
              server, vars
<1>8. QED
  BY <1>1, <1>3, <1>4, <1>6, <1>7 DEF Next, ServerStep

\* No late or repeated datagram but a rejection ends a running session.
THEOREM SessionEnds == Spec => SessionEndsByItself
BY XdmcpTypes, EndOfSession, PTL DEF Spec, SessionEndsByItself

(***************************************************************************)
(* A log in that nothing disturbs                                          *)
(***************************************************************************)
\* One log in is under way at most, and it is in one place: a REQUEST or an ACCEPT
\* while the server awaits the response, a MANAGE or the process of the session
\* while it awaits the connection.
Offers == {d \in net : d.type \in {"REQUEST", "ACCEPT"}}

OneOffer ==
    /\ \A d, e \in Offers : d = e
    /\ \A d \in Offers : state = "AWAIT_REQUEST_RESPONSE" /\ d.mgr = manager

AcceptCurrent ==
    \A d \in net : d.type = "ACCEPT" =>
        d.id[1] = manager /\ stage[d.id] = "proto" /\ key[d.id] = d.key

ManageCurrent ==
    \A d \in net : d.type = "MANAGE" =>
        /\ state = "AWAIT_MANAGE_RESPONSE" /\ d.id = SessionID /\ d.mgr = d.id[1]
        /\ stage[d.id] = "proto" /\ Admitted(d.id)

OpeningCurrent ==
    \A s \in Session :
        /\ child[s] \notin {"ghost", "failed"}
        /\ child[s] = "opening" =>
               state = "AWAIT_MANAGE_RESPONSE" /\ s = SessionID /\ Admitted(s)

NoRejection ==
    \A d \in net : d.type \in {"QUERY", "WILLING", "REQUEST", "ACCEPT", "MANAGE"}

\* The server has no connection but its session's, and a reset finds it between
\* two log ins.
OneConnection ==
    /\ conns # {} => state = "RUN_SESSION" /\ conns = {sessionSocket}
    /\ state = "RUN_SESSION" => sessionSocket = SessionID
    /\ exception # NULL => state = "INIT"
    /\ exception = "TERMINATE" => options.once

Smooth == /\ OneOffer /\ AcceptCurrent /\ ManageCurrent
          /\ OpeningCurrent /\ NoRejection /\ OneConnection

LoginInv == Undisturbed => IF state = "OFF" THEN options.once ELSE Smooth

LEMMA ManageShape ==
    ASSUME NEW d \in Message, d.type = "MANAGE"
    PROVE  d = About("MANAGE", d.mgr, d.id) /\ d.mgr \in Manager /\ d.id \in Session
BY DEF Message, About

LEMMA OutTypes ==
    /\ \A t, m : Datagram(t, m).type = t /\ Datagram(t, m).mgr = m
    /\ \A t, m, s : About(t, m, s).type = t /\ About(t, m, s).mgr = m /\ About(t, m, s).id = s
    /\ \A m, s, k : /\ Accept(m, s, k).type = "ACCEPT" /\ Accept(m, s, k).mgr = m
                    /\ Accept(m, s, k).id = s /\ Accept(m, s, k).key = k
BY DEF Datagram, About, Accept

\* Trouble is never taken back.
LEMMA TroubleGrows ==
    ASSUME TypeOK, [Next]_vars
    PROVE  faults <= faults' /\ dups <= dups' /\ locals <= locals'
<1> USE DEF TypeOK
<1>1. ASSUME Fault PROVE faults <= faults'
  BY <1>1 DEF Fault
<1>2. ASSUME NEW d, NEW out, Consume(d, out) PROVE dups <= dups'
  BY <1>2 DEF Consume
<1>3. ASSUME NEW d, NEW m, SendRequest(d, m) PROVE faults <= faults' /\ dups <= dups'
  BY <1>1, <1>2, <1>3 DEF SendRequest
<1>4. ASSUME NEW d, Ignore(d) PROVE faults <= faults' /\ dups <= dups'
  BY <1>2, <1>4 DEF Ignore
<1>5. ASSUME NEW d, Fatal(d) PROVE faults <= faults' /\ dups <= dups'
  BY <1>2, <1>5 DEF Fatal
<1>6. CASE ReceivePacket
  <2>1. PICK d \in net : RecvWilling(d) \/ RecvAccept(d) \/ RecvRefuse(d)
                             \/ RecvFailed(d) \/ RecvRejection(d)
    BY <1>6 DEF ReceivePacket
  <2>2. faults <= faults' /\ dups <= dups'
    BY <2>1, <1>2, <1>3, <1>4, <1>5
       DEF RecvWilling, RecvAccept, RecvRefuse, RecvFailed, RecvRejection
  <2>3. QED
    BY <1>6, <2>2 DEF ReceivePacket
<1>7. CASE ProcessRequestSocket
  <2>1. PICK m \in Manager, d \in net :
            QueryRespond(d, m) \/ RequestRespond(d, m) \/ Manage(d, m)
    BY <1>7 DEF ProcessRequestSocket
  <2>2. dups <= dups'
    BY <2>1, <1>2 DEF QueryRespond, RequestRespond, Manage, StartSession, FailSession,
                      TurnDown, SendAccept
  <2>3. faults <= faults'
    BY <2>1, <1>1 DEF QueryRespond, RequestRespond, Manage, StartSession, FailSession,
                      TurnDown
  <2>4. QED
    BY <1>7, <2>2, <2>3 DEF ProcessRequestSocket
<1>8. CASE \/ NoticeClose \/ Reset \/ Terminate \/ LocalCloses \/ UNCHANGED vars
           \/ \E m \in Manager : Crash(m)
  BY <1>8 DEF NoticeClose, Reset, Terminate, LocalCloses, Crash, vars, bounds
<1>9. CASE LocalOpens \/ ExpireProto \/ Lose
  BY <1>1, <1>9 DEF LocalOpens, ExpireProto, Lose
<1>10. ASSUME NEW s, ChildOpens(s) \/ ChildFails(s) \/ StoppedEnds(s) \/ ChildExits(s)
                     \/ WaitForChild(s)
       PROVE  faults <= faults' /\ dups <= dups' /\ locals <= locals'
  BY <1>1, <1>10 DEF ChildOpens, ChildFails, StoppedEnds, ChildExits, WaitForChild, bounds
<1>11. QED
  BY <1>6, <1>7, <1>8, <1>9, <1>10 DEF Next, ServerStep, ManagerStep, SessionStep

LEMMA NoneOfThree ==
    ASSUME NEW a \in Nat, NEW b \in Nat, NEW c \in Nat, a + b + c = 0
    PROVE  a = 0 /\ b = 0 /\ c = 0
OBVIOUS

LEMMA UndisturbedBefore ==
    ASSUME TypeOK, TypeOK', [Next]_vars, Undisturbed'
    PROVE  Undisturbed /\ faults' = faults /\ dups' = dups /\ locals' = locals
<1>1. faults \in Nat /\ dups \in Nat /\ locals \in Nat
  BY DEF TypeOK
<1>2. faults' \in Nat /\ dups' \in Nat /\ locals' \in Nat
  BY DEF TypeOK
<1>3. faults' + dups' + locals' = 0
  BY DEF Undisturbed
<1>4. faults <= faults' /\ dups <= dups' /\ locals <= locals'
  BY TroubleGrows
<1>5. faults' = 0 /\ dups' = 0 /\ locals' = 0
  BY <1>2, <1>3, NoneOfThree
<1>6. faults = 0 /\ dups = 0 /\ locals = 0
  BY <1>1, <1>4, <1>5
<1>7. QED
  BY <1>5, <1>6 DEF Undisturbed

LEMMA ConsumeOnce ==
    ASSUME NEW d, NEW out, Consume(d, out), dups \in Nat, dups' = dups
    PROVE  d \in net /\ net' = (net \ {d}) \cup out
BY DEF Consume

LEMMA NoFault == ASSUME faults \in Nat, faults' = faults PROVE ~ Fault
BY DEF Fault

\* What reads the network, the server and the sessions, and is left alone.
LEMMA SmoothKept ==
    ASSUME Smooth, UNCHANGED <<options, state, manager, SessionID, sessionSocket, auth,
                               conns, exception, stage, key>>,
           net' \subseteq net,
           \A s \in Session : /\ child'[s] \notin {"ghost", "failed"}
                              /\ child'[s] = "opening" => child[s] = "opening"
    PROVE  Smooth'
BY DEF Smooth, OneOffer, Offers, AcceptCurrent, ManageCurrent, Admitted, OpeningCurrent,
       NoRejection, OneConnection

LEMMA RecvSmooth ==
    ASSUME TypeInv, Sessions, Smooth, ReceivePacket, faults' = faults, dups' = dups
    PROVE  Smooth' /\ state' # "OFF"
<1> USE DEF Smooth
<1>0. faults \in Nat /\ dups \in Nat /\ net \subseteq Message
  BY DEF TypeInv, TypeOK
<1>1. PICK d \in net : RecvWilling(d) \/ RecvAccept(d) \/ RecvRefuse(d)
                           \/ RecvFailed(d) \/ RecvRejection(d)
  BY DEF ReceivePacket
<1>2. d.type \in {"QUERY", "WILLING", "REQUEST", "ACCEPT", "MANAGE"}
  BY DEF NoRejection
<1>3. UNCHANGED <<options, stage, key, child>> /\ state # "OFF"
  BY DEF ReceivePacket, xdm, Up
<1>4. ASSUME Ignore(d) PROVE Smooth' /\ state' # "OFF"
  <2>1. net' \subseteq net
    BY <1>0, <1>4, ConsumeOnce DEF Ignore
  <2>2. UNCHANGED <<state, manager, SessionID, sessionSocket, auth, conns, exception>>
    BY <1>4 DEF Ignore, server
  <2>3. \A s \in Session : child[s] \notin {"ghost", "failed"}
    BY DEF OpeningCurrent
  <2>4. QED
    BY <1>3, <2>1, <2>2, <2>3, SmoothKept
<1>5. CASE RecvWilling(d)
  <2>1. CASE state = "COLLECT"
    <3> DEFINE m == d.mgr
    <3>1. /\ manager' = m /\ state' = "AWAIT_REQUEST_RESPONSE"
          /\ Consume(d, {Datagram("REQUEST", m)})
          /\ UNCHANGED <<SessionID, sessionSocket, auth, conns, exception>>
      BY <1>0, <1>5, <2>1, NoFault DEF RecvWilling, SendRequest
    <3> HIDE DEF m
    <3>2. net' = (net \ {d}) \cup {Datagram("REQUEST", m)}
      BY <1>0, <3>1, ConsumeOnce
    <3>3. Offers = {}
      BY <2>1 DEF OneOffer
    <3>4. \A e \in net : e.type \notin {"REQUEST", "ACCEPT", "MANAGE"}
      BY <2>1, <3>3 DEF Offers, ManageCurrent
    <3>5. \A e \in net' : \/ e \in net /\ e.type \in {"QUERY", "WILLING"}
                          \/ e = Datagram("REQUEST", m)
      BY <3>2, <3>4 DEF NoRejection
    <3>6. Datagram("REQUEST", m).type = "REQUEST" /\ Datagram("REQUEST", m).mgr = m
      BY DEF Datagram
    <3>7. \A e \in net' : /\ e.type \in {"QUERY", "WILLING", "REQUEST"}
                          /\ e.type = "REQUEST" => e = Datagram("REQUEST", m)
      BY <3>5, <3>6
    <3>8. OneOffer'
      BY <3>1, <3>6, <3>7 DEF OneOffer, Offers
    <3>9. AcceptCurrent' /\ ManageCurrent' /\ NoRejection'
      BY <3>7 DEF AcceptCurrent, ManageCurrent, NoRejection
    <3>10. OpeningCurrent'
      BY <1>3, <2>1 DEF OpeningCurrent
    <3>11. OneConnection'
      BY <1>3, <2>1, <3>1 DEF OneConnection
    <3>12. QED
      BY <3>1, <3>8, <3>9, <3>10, <3>11
  <2>2. CASE state # "COLLECT"
    BY <1>4, <1>5, <2>2 DEF RecvWilling
  <2>3. QED
    BY <2>1, <2>2
<1>6. CASE RecvAccept(d)
  <2>1. CASE state = "AWAIT_REQUEST_RESPONSE"
    <3> DEFINE s == d.id
    <3>1. /\ auth' = auth \cup {<<s, d.key>>}
          /\ SessionID' = s
          /\ state' = "AWAIT_MANAGE_RESPONSE"
          /\ Consume(d, {About("MANAGE", manager, s)})
          /\ UNCHANGED <<manager, sessionSocket, conns, exception, faults>>
      BY <1>6, <2>1 DEF RecvAccept
    <3>2. d.type = "ACCEPT" /\ s[1] = manager /\ stage[s] = "proto" /\ key[s] = d.key
      BY <1>6 DEF RecvAccept, AcceptCurrent
    <3> HIDE DEF s
    <3>3. net' = (net \ {d}) \cup {About("MANAGE", manager, s)}
      BY <1>0, <3>1, ConsumeOnce
    <3>4. \A e \in net \ {d} : e.type \in {"QUERY", "WILLING"}
      BY <2>1, <3>2 DEF NoRejection, OneOffer, Offers, ManageCurrent
    <3>5. /\ About("MANAGE", manager, s).type = "MANAGE"
          /\ About("MANAGE", manager, s).mgr = manager
          /\ About("MANAGE", manager, s).id = s
      BY DEF About
    <3>6. \A e \in net' : /\ e.type \in {"QUERY", "WILLING", "MANAGE"}
                          /\ e.type = "MANAGE" => e.mgr = manager /\ e.id = s
      BY <3>3, <3>4, <3>5
    <3>7. OneOffer' /\ AcceptCurrent' /\ NoRejection'
      BY <3>6 DEF OneOffer, Offers, AcceptCurrent, NoRejection
    <3>8. <<s, key'[s]>> \in auth'
      BY <1>3, <3>1, <3>2
    <3>9. ManageCurrent'
      BY <1>3, <3>1, <3>2, <3>6, <3>8 DEF ManageCurrent, Admitted
    <3>10. OpeningCurrent'
      BY <1>3, <2>1 DEF OpeningCurrent
    <3>11. OneConnection'
      BY <1>3, <2>1, <3>1 DEF OneConnection
    <3>12. QED
      BY <3>1, <3>7, <3>9, <3>10, <3>11
  <2>2. CASE state # "AWAIT_REQUEST_RESPONSE"
    BY <1>4, <1>6, <2>2 DEF RecvAccept
  <2>3. QED
    BY <2>1, <2>2
<1>7. ~ RecvRefuse(d) /\ ~ RecvFailed(d) /\ ~ RecvRejection(d)
  BY <1>2 DEF RecvRefuse, RecvFailed, RecvRejection
<1>8. QED
  BY <1>1, <1>5, <1>6, <1>7

LEMMA ConnectionSmooth ==
    ASSUME TypeInv, Sessions, Smooth, ~ (locals' # locals),
           NoticeClose \/ LocalOpens \/ LocalCloses \/ Reset
    PROVE  Smooth' /\ state' # "OFF"
<1> USE DEF Smooth
<1>0. locals \in Nat
  BY DEF TypeInv, TypeOK
<1>1. ~ LocalOpens
  BY <1>0 DEF LocalOpens
<1>2. CASE NoticeClose \/ LocalCloses
  <2>1. PICK c : CloseDown(c)
    BY <1>2 DEF NoticeClose, LocalCloses
  <2>2. UNCHANGED <<options, xdm, net>>
    BY <1>2 DEF NoticeClose, LocalCloses
  <2>3. state = "RUN_SESSION" /\ conns = {c} /\ sessionSocket = c
    BY <2>1 DEF CloseDown, OneConnection
  <2>4. /\ state' = "INIT" /\ conns' = {}
        /\ exception' \in {"TERMINATE", "RESET"}
        /\ exception' = "TERMINATE" => options.once
        /\ UNCHANGED <<manager, SessionID, sessionSocket, auth>>
    BY <2>1, <2>3 DEF CloseDown
  <2>5. \A e \in net : e.type \in {"QUERY", "WILLING"}
    BY <2>3 DEF NoRejection, OneOffer, Offers, ManageCurrent
  <2>6. OneOffer' /\ AcceptCurrent' /\ ManageCurrent' /\ NoRejection'
    BY <2>2, <2>5 DEF OneOffer, Offers, AcceptCurrent, ManageCurrent, NoRejection
  <2>7. OpeningCurrent'
    BY <2>2, <2>3 DEF OpeningCurrent, xdm
  <2>8. OneConnection'
    BY <2>2, <2>4 DEF OneConnection
  <2>9. QED
    BY <2>4, <2>6, <2>7, <2>8
<1>3. CASE Reset
  <2>1. state = "INIT"
    BY <1>3, NullAssumption DEF Reset, OneConnection, TypeInv, TypeOK
  <2>2. /\ state' = "COLLECT" /\ conns' = {} /\ exception' = NULL
        /\ net' = net \cup Queries
        /\ UNCHANGED <<options, SessionID, sessionSocket, xdm>>
    BY <1>3 DEF Reset
  <2>3. \A e \in net' : e.type \in {"QUERY", "WILLING"}
    BY <2>1, <2>2 DEF NoRejection, OneOffer, Offers, ManageCurrent, Queries, Datagram
  <2>4. OneOffer' /\ AcceptCurrent' /\ ManageCurrent' /\ NoRejection'
    BY <2>3 DEF OneOffer, Offers, AcceptCurrent, ManageCurrent, NoRejection
  <2>5. OpeningCurrent'
    BY <2>1, <2>2 DEF OpeningCurrent, xdm
  <2>6. OneConnection'
    BY <2>2, NullAssumption DEF OneConnection
  <2>7. QED
    BY <2>2, <2>4, <2>5, <2>6
<1>4. QED
  BY <1>1, <1>2, <1>3

\* The managers: a REQUEST makes the one ACCEPT, a MANAGE starts the one process.
LEMMA RequestSmooth ==
    ASSUME TypeInv, Smooth, NEW m \in Manager, NEW d \in net, RequestRespond(d, m),
           UNCHANGED <<options, server>>, faults' = faults, dups' = dups
    PROVE  Smooth'
<1> USE DEF Smooth
<1>0. faults \in Nat /\ dups \in Nat /\ key \in [Session -> 0 .. MaxKey]
         /\ stage \in [Session -> {"none", "proto", "display", "gone"}]
  BY DEF TypeInv, TypeOK
<1>1. PICK s \in Of(m) : SendAccept(d, m, s) /\ stage'[s] = "proto"
  <2>1. ASSUME NEW s \in Of(m), stage' = [stage EXCEPT ![s] = "proto"]
        PROVE  stage'[s] = "proto"
    BY <1>0, <2>1 DEF Of
  <2>2. QED
    BY <1>0, <2>1, NoFault DEF RequestRespond, Protos, Fresh
<1>2. s \in Session /\ s[1] = m
  BY DEF Of
<1>3. d.type = "REQUEST" /\ d.mgr = m
  BY DEF RequestRespond, Datagram
<1>4. state = "AWAIT_REQUEST_RESPONSE" /\ manager = m
  BY <1>3 DEF OneOffer, Offers
<1>5. \A e \in net \ {d} : e.type \in {"QUERY", "WILLING"}
  BY <1>3, <1>4 DEF NoRejection, OneOffer, Offers, ManageCurrent
<1> DEFINE a == Accept(m, s, key'[s])
<1>6. a.type = "ACCEPT" /\ a.mgr = m /\ a.id = s /\ a.key = key'[s]
  BY DEF Accept
<1>7. Consume(d, {a})
  BY <1>1 DEF SendAccept
<1> HIDE DEF a
<1>8. net' = (net \ {d}) \cup {a}
  BY <1>0, <1>7, ConsumeOnce
<1>9. \A e \in net' : e.type \in {"QUERY", "WILLING"} \/ e = a
  BY <1>5, <1>8
<1>10. UNCHANGED <<options, state, manager, SessionID, sessionSocket, auth, conns,
                   exception, child>>
  BY DEF server, RequestRespond
<1>11. OneOffer' /\ NoRejection'
  BY <1>4, <1>6, <1>9, <1>10 DEF OneOffer, Offers, NoRejection
<1>12. AcceptCurrent' /\ ManageCurrent'
  BY <1>1, <1>2, <1>4, <1>6, <1>9, <1>10 DEF AcceptCurrent, ManageCurrent
<1>13. OpeningCurrent' /\ OneConnection'
  BY <1>4, <1>10 DEF OpeningCurrent, OneConnection
<1>14. QED
  BY <1>11, <1>12, <1>13

LEMMA ManageSmooth ==
    ASSUME TypeInv, Sessions, Smooth, NEW m \in Manager, NEW d \in net, Manage(d, m),
           UNCHANGED <<options, server>>, faults' = faults, dups' = dups
    PROVE  Smooth'
<1> USE DEF Smooth
<1>0. /\ faults \in Nat /\ dups \in Nat /\ net \subseteq Message
      /\ child \in [Session -> Process]
  BY DEF TypeInv, TypeOK
<1>1. d.type = "MANAGE" /\ d.mgr = m
  BY DEF Manage, About
<1> DEFINE s == d.id
<1>2. /\ d = About("MANAGE", m, s) /\ s \in Session
      /\ state = "AWAIT_MANAGE_RESPONSE" /\ s = SessionID /\ m = s[1]
      /\ stage[s] = "proto" /\ Admitted(s)
  BY <1>0, <1>1, ManageShape DEF ManageCurrent
<1>3. \A e \in net \ {d} : e.type \in {"QUERY", "WILLING"}
  BY <1>0, <1>1, <1>2, ManageShape DEF NoRejection, OneOffer, Offers, ManageCurrent
<1>4. s \in Protos(m)
  BY <1>2 DEF Protos, Of
<1>5. StopDisplays(Displays(m), {s}) /\ Consume(d, {}) /\ key' = key
  BY <1>0, <1>2, <1>4, NoFault DEF Manage, StartSession, FailSession, TurnDown
<1> HIDE DEF s
<1>6. net' = net \ {d}
  BY <1>0, <1>5, ConsumeOnce
<1>7. \A t \in Session : child[t] \notin {"opening", "ghost", "failed"}
  BY <1>2 DEF OpeningCurrent, Sessions, NoStrayProcess
<1>8. \A t \in Session : /\ child'[t] \notin {"ghost", "failed"}
                         /\ child'[t] = "opening" => t = s
  BY <1>5, <1>7 DEF StopDisplays
<1>9. UNCHANGED <<options, state, manager, SessionID, sessionSocket, auth, conns, exception>>
  BY DEF server
<1>10. OneOffer' /\ AcceptCurrent' /\ ManageCurrent' /\ NoRejection'
  BY <1>3, <1>6 DEF OneOffer, Offers, AcceptCurrent, ManageCurrent, NoRejection
<1>11. OpeningCurrent'
  BY <1>2, <1>5, <1>8, <1>9 DEF OpeningCurrent, Admitted
<1>12. OneConnection'
  BY <1>9 DEF OneConnection
<1>13. QED
  BY <1>10, <1>11, <1>12

LEMMA QuerySmooth ==
    ASSUME TypeInv, Smooth, NEW m \in Manager, NEW d \in net, QueryRespond(d, m),
           UNCHANGED <<options, server>>, faults' = faults, dups' = dups
    PROVE  Smooth'
<1> USE DEF Smooth
<1>0. faults \in Nat /\ dups \in Nat
  BY DEF TypeInv, TypeOK
<1>1. Consume(d, {Datagram("WILLING", m)}) /\ UNCHANGED xdm
  BY <1>0, NoFault DEF QueryRespond
<1>2. net' = (net \ {d}) \cup {Datagram("WILLING", m)}
  BY <1>0, <1>1, ConsumeOnce
<1>3. \A e \in net' : e \in net \/ e.type = "WILLING"
  BY <1>2 DEF Datagram
<1>4. UNCHANGED <<options, state, manager, SessionID, sessionSocket, auth, conns,
                  exception, stage, key, child>>
  BY <1>1 DEF server, xdm
<1>5. OneOffer' /\ NoRejection'
  BY <1>3, <1>4 DEF OneOffer, Offers, NoRejection
<1>6. AcceptCurrent' /\ ManageCurrent'
  BY <1>3, <1>4 DEF AcceptCurrent, ManageCurrent, Admitted
<1>7. OpeningCurrent' /\ OneConnection'
  BY <1>4 DEF OpeningCurrent, OneConnection, Admitted
<1>8. QED
  BY <1>5, <1>6, <1>7

\* The processes of the sessions.
LEMMA SessionSmooth ==
    ASSUME TypeInv, Sessions, Smooth, faults' = faults, state # "OFF", NEW s \in Session,
           ChildOpens(s) \/ ChildFails(s) \/ StoppedEnds(s) \/ ChildExits(s) \/ WaitForChild(s)
    PROVE  Smooth' /\ state' # "OFF"
<1> USE DEF Smooth
<1>0. /\ faults \in Nat
      /\ child \in [Session -> Process]
      /\ stage \in [Session -> {"none", "proto", "display", "gone"}]
  BY DEF TypeInv, TypeOK
<1>1. child[s] \notin {"ghost", "failed"}
  BY DEF OpeningCurrent
<1>2. CASE ChildOpens(s)
  <2>1. child[s] = "opening" /\ child' = [child EXCEPT ![s] = "open"]
    BY <1>1, <1>2 DEF ChildOpens
  <2>2. state = "AWAIT_MANAGE_RESPONSE" /\ s = SessionID /\ stage[s] = "display"
    BY <2>1 DEF OpeningCurrent, Sessions, NoStrayProcess
  <2>3. conns = {}
    BY <2>2 DEF OneConnection
  <2>4. /\ state' = "RUN_SESSION" /\ sessionSocket' = s /\ conns' = {s}
        /\ UNCHANGED <<options, manager, SessionID, auth, exception, stage, key, net>>
    BY <1>2, <2>2, <2>3 DEF ChildOpens, OpenDisplay
  <2>5. \A e \in net : e.type \in {"QUERY", "WILLING"}
    BY <2>2 DEF NoRejection, OneOffer, Offers, ManageCurrent
  <2>6. OneOffer' /\ AcceptCurrent' /\ ManageCurrent' /\ NoRejection'
    BY <2>4, <2>5 DEF OneOffer, Offers, AcceptCurrent, ManageCurrent, NoRejection
  <2>7. \A t \in Session : child'[t] \notin {"opening", "ghost", "failed"}
    BY <1>0, <2>1, <2>2 DEF OpeningCurrent
  <2>8. OpeningCurrent'
    BY <2>7 DEF OpeningCurrent
  <2>9. OneConnection'
    BY <2>2, <2>4 DEF OneConnection
  <2>10. QED
    BY <2>4, <2>6, <2>8, <2>9
<1>3. ~ ChildFails(s)
  BY <1>0, <1>1, NoFault DEF ChildFails, OpeningCurrent
<1>4. CASE ChildExits(s) \/ StoppedEnds(s)
  <2>1. /\ UNCHANGED <<options, server, stage, key, net>>
        /\ \/ child' = [child EXCEPT ![s] = "exited"]
           \/ child' = [child EXCEPT ![s] = "none"]
    BY <1>4 DEF ChildExits, StoppedEnds
  <2>2. UNCHANGED <<state, manager, SessionID, sessionSocket, auth, conns, exception>>
    BY <2>1 DEF server
  <2>3. \A t \in Session : /\ child'[t] \notin {"ghost", "failed"}
                           /\ child'[t] = "opening" => child[t] = "opening"
    BY <1>0, <2>1 DEF OpeningCurrent
  <2>4. QED
    BY <2>1, <2>2, <2>3, SmoothKept
<1>5. CASE WaitForChild(s)
  <2>1. child[s] = "exited" /\ stage[s] = "display"
    BY <1>1, <1>5 DEF WaitForChild, Sessions, NoStrayProcess
  <2>2. /\ child' = [child EXCEPT ![s] = "none"]
        /\ stage' = [stage EXCEPT ![s] = "gone"]
        /\ net' = net
        /\ UNCHANGED <<options, server, key>>
    BY <1>5, <2>1 DEF WaitForChild
  <2>3. UNCHANGED <<state, manager, SessionID, sessionSocket, auth, conns, exception>>
    BY <2>2 DEF server
  <2>4. OneOffer' /\ NoRejection' /\ OneConnection'
    BY <2>2, <2>3 DEF OneOffer, Offers, NoRejection, OneConnection
  <2>5. \A t \in Session : stage[t] = "proto" => stage'[t] = "proto"
    BY <1>0, <2>1, <2>2
  <2>6. \A e \in net : e.type \in {"ACCEPT", "MANAGE"} => e.id \in Session
    BY ManageShape, MessageFields DEF TypeInv, TypeOK
  <2>7. AcceptCurrent' /\ ManageCurrent'
    BY <2>2, <2>3, <2>5, <2>6 DEF AcceptCurrent, ManageCurrent, Admitted
  <2>8. OpeningCurrent'
    BY <1>0, <2>2, <2>3 DEF OpeningCurrent, Admitted
  <2>9. QED
    BY <2>3, <2>4, <2>7, <2>8
<1>6. QED
  BY <1>2, <1>3, <1>4, <1>5

LEMMA LoginInductive ==
    ASSUME TypeInv, TypeOK', Sessions, LoginInv, [Next]_vars
    PROVE  LoginInv'
<1> SUFFICES ASSUME Undisturbed'
             PROVE  IF state' = "OFF" THEN options'.once ELSE Smooth'
  BY DEF LoginInv
<1>1. Undisturbed /\ faults' = faults /\ dups' = dups /\ locals' = locals
  BY UndisturbedBefore DEF TypeInv
<1>2. faults \in Nat
  BY DEF TypeInv, TypeOK
<1>3. options' = options
  BY DEF Next, ServerStep, ReceivePacket, NoticeClose, Reset, Terminate, ManagerStep,
         ProcessRequestSocket, WaitForChild, SessionStep, ChildOpens, ChildFails,
         StoppedEnds, ChildExits, LocalOpens, LocalCloses, ExpireProto, Crash, Lose, vars
<1>4. CASE state = "OFF"
  <2>1. options.once
    BY <1>1, <1>4 DEF LoginInv
  <2>2. state' = "OFF"
    BY <1>4 DEF Next, ServerStep, ReceivePacket, NoticeClose, Reset, Terminate, ManagerStep,
         ProcessRequestSocket, WaitForChild, SessionStep, ChildOpens, ChildFails,
         StoppedEnds, ChildExits, LocalOpens, LocalCloses, ExpireProto, Crash, Lose, vars,
         server, OpenDisplay, CloseDown, Up
  <2>3. QED
    BY <1>3, <2>1, <2>2
<1>5. CASE state # "OFF"
  <2>1. Smooth
    BY <1>1, <1>5 DEF LoginInv
  <2>2. CASE ReceivePacket
    BY <1>1, <2>1, <2>2, RecvSmooth
  <2>3. CASE NoticeClose \/ LocalOpens \/ LocalCloses \/ Reset
    BY <1>1, <2>1, <2>3, ConnectionSmooth
  <2>4. CASE Terminate
    BY <1>3, <2>1, <2>4 DEF Terminate, Smooth, OneConnection
  <2>5. CASE ProcessRequestSocket
    <3>1. PICK m \in Manager, d \in net :
              QueryRespond(d, m) \/ RequestRespond(d, m) \/ Manage(d, m)
      BY <2>5 DEF ProcessRequestSocket
    <3>2. UNCHANGED <<options, server>> /\ state' = state
      BY <2>5 DEF ProcessRequestSocket, server
    <3>3. Smooth'
      BY <1>1, <2>1, <3>1, <3>2, QuerySmooth, RequestSmooth, ManageSmooth
    <3>4. QED
      BY <1>5, <3>2, <3>3
  <2>6. ASSUME NEW s \in Session, \/ ChildOpens(s) \/ ChildFails(s) \/ StoppedEnds(s)
                                  \/ ChildExits(s) \/ WaitForChild(s)
        PROVE  Smooth' /\ state' # "OFF"
    BY <1>1, <1>5, <2>1, <2>6, SessionSmooth
  <2>7. CASE ExpireProto \/ Lose
    BY <1>1, <1>2, <2>7, NoFault DEF ExpireProto, Lose
  <2>8. CASE UNCHANGED vars \/ \E m \in Manager : Crash(m)
    <3>1. UNCHANGED <<options, state, manager, SessionID, sessionSocket, auth, conns,
                      exception, stage, key, net, child>>
      BY <2>8 DEF vars, server, xdm, Crash
    <3>2. \A s \in Session : child[s] \notin {"ghost", "failed"}
      BY <2>1 DEF Smooth, OpeningCurrent
    <3>3. Smooth'
      BY <2>1, <3>1, <3>2, SmoothKept
    <3>4. QED
      BY <1>5, <3>1, <3>3
  <2>9. QED
    BY <2>2, <2>3, <2>4, <2>5, <2>6, <2>7, <2>8
       DEF Next, ServerStep, ManagerStep, SessionStep
<1>6. QED
  BY <1>4, <1>5

THEOREM LoginInvariant == Spec => []LoginInv
<1>1. Init => LoginInv
  <2> SUFFICES ASSUME Init PROVE Smooth /\ state # "OFF"
    BY DEF LoginInv
  <2>1. \A d \in net : d.type = "QUERY"
    BY DEF Init, Queries, Datagram
  <2>2. OneOffer /\ AcceptCurrent /\ ManageCurrent /\ NoRejection
    BY <2>1 DEF OneOffer, Offers, AcceptCurrent, ManageCurrent, NoRejection
  <2>3. OpeningCurrent /\ OneConnection /\ state # "OFF"
    BY NullAssumption DEF Init, OpeningCurrent, OneConnection
  <2>4. QED
    BY <2>2, <2>3 DEF Smooth
<1>2. TypeInv => TypeOK
  BY DEF TypeInv
<1>3. QED
  BY <1>1, <1>2, LoginInductive, XdmcpTypeCorrect, SessionsSafe, PTL DEF Spec, Sessions

\* When no datagram is lost or repeated, no call fails and no other client connects,
\* no order of the steps of server, managers and processes makes a log in fail,
\* however many managers answer a broadcast: the server ends only with -once.
THEOREM LoginSucceeds == Spec => []LoginNeverFails
<1>1. LoginInv => LoginNeverFails
  BY DEF LoginInv, LoginNeverFails
<1>2. QED
  BY <1>1, LoginInvariant, PTL

(***************************************************************************)
(* The granted session                                                     *)
(***************************************************************************)
\* The server takes a connection of a session that is not the one it was granted
\* only if two log ins are mixed up.  There are two ways to keep them apart, and one
\* repeated datagram or one other client cannot defeat both.
\*
\* The first: one MANAGE, REFUSE or starting process at a time.  It does not matter
\* how many offers come, the server takes one.
Active(s) == child[s] \in {"opening", "ghost"}

Engaged == {d \in net : d.type \in {"MANAGE", "REFUSE"}}

OneLogin ==
    /\ \A d \in Engaged : state = "AWAIT_MANAGE_RESPONSE" /\ d.id = SessionID
    /\ \A d, e \in Engaged : d = e
    /\ \A s \in Session : Active(s) =>
          /\ state = "AWAIT_MANAGE_RESPONSE" /\ s = SessionID
          /\ child[s] = "opening" /\ Engaged = {}

\* The second: one offer at a time.  It does not matter how many processes are left
\* over, the server has forgotten their authorizations: a process that it would
\* admit, or that a MANAGE could still start, is that of the granted session.
Pending(s) == \/ \E d \in net : d.type = "ACCEPT" /\ d.id = s
              \/ state = "AWAIT_MANAGE_RESPONSE" /\ s = SessionID

Armed(s) == Admitted(s) /\ (stage[s] = "proto" \/ Active(s))

KeysKnown ==
    /\ \A s \in Session, k \in Key : <<s, k>> \in auth => k <= key[s]
    /\ \A d \in net : d.type = "ACCEPT" => d.id[1] = d.mgr /\ d.key <= key[d.id]
    /\ \A d \in net : d.type = "MANAGE" => d.id[1] = d.mgr /\ stage[d.id] # "none"

GhostsGone == \A s \in Session : child[s] = "ghost" => stage[s] = "gone"

PendingClear ==
    \A s \in Session : Pending(s) =>
        /\ stage[s] # "none" /\ child[s] # "ghost"
        /\ stage[s] = "display" => Protos(s[1]) = {}

RefusedDead ==
    \A d \in net : d.type = "REFUSE" =>
        /\ stage[d.id] \in {"display", "gone"}
        /\ ~ (Active(d.id) /\ Pending(d.id))

ArmedGranted ==
    \A s \in Session : Armed(s) =>
        s = SessionID /\ state \in {"AWAIT_MANAGE_RESPONSE", "RUN_SESSION", "INIT"}

OfferInv == /\ OneOffer /\ KeysKnown /\ GhostsGone
            /\ PendingClear /\ RefusedDead /\ ArmedGranted

\* A reset does not come in the middle of a log in.
CleanReset ==
    /\ exception = NULL /\ conns # {} => state = "RUN_SESSION"
    /\ state = "RUN_SESSION" => sessionSocket \in conns
    /\ exception # NULL <=> state = "INIT"

Granted == state = "RUN_SESSION" /\ sessionSocket \in Session => sessionSocket = SessionID

GrantInv ==
    dups + locals <= 1 /\ state # "OFF" =>
        /\ Granted
        /\ dups + locals = 0 => OneLogin /\ OfferInv /\ CleanReset
        /\ \/ OneLogin /\ OfferInv
           \/ CleanReset /\ OneLogin
           \/ CleanReset /\ OfferInv

LEMMA ConsumeNet ==
    ASSUME NEW d, NEW out, Consume(d, out), dups \in Nat
    PROVE  /\ net \ {d} \subseteq net' /\ out \subseteq net' /\ net' \subseteq net \cup out
           /\ dups' = dups => net' = (net \ {d}) \cup out
BY DEF Consume

\* What SendRequest does, whether the datagram is sent or not.
LEMMA SendRequestDoes ==
    ASSUME NEW d, NEW m, SendRequest(d, m)
    PROVE  /\ manager' = m
           /\ UNCHANGED <<SessionID, sessionSocket, auth, conns, exception>>
           /\ \/ state' = "AWAIT_REQUEST_RESPONSE" /\ Consume(d, {Datagram("REQUEST", m)})
              \/ state' = "START_CONNECTION" /\ Consume(d, {})
BY DEF SendRequest

LEMMA RejectionEnds == ASSUME NEW d, RecvRejection(d) PROVE state' = "OFF"
BY DEF RecvRejection, Fatal

(***************************************************************************)
(* One MANAGE, REFUSE or starting process at a time                        *)
(***************************************************************************)
LEMMA NobodyEngaged ==
    ASSUME OneLogin, state # "AWAIT_MANAGE_RESPONSE"
    PROVE  Engaged = {} /\ \A s \in Session : ~ Active(s)
BY DEF OneLogin, Engaged

LEMMA LoginIdle ==
    ASSUME \A d \in net' : d.type \notin {"MANAGE", "REFUSE"},
           \A s \in Session : child'[s] \notin {"opening", "ghost"}
    PROVE  OneLogin'
BY DEF OneLogin, Engaged, Active

LEMMA LoginKept ==
    ASSUME OneLogin, state' = state, SessionID' = SessionID,
           \A d \in net' : d.type \in {"MANAGE", "REFUSE"} => d \in net,
           \A s \in Session : child'[s] \in {"opening", "ghost"} => child'[s] = child[s]
    PROVE  OneLogin'
BY DEF OneLogin, Engaged, Active

LEMMA RecvLogin ==
    ASSUME TypeInv, OneLogin, NEW d \in net, child' = child, state' # "OFF",
           d.type \in {"MANAGE", "REFUSE"} => dups' = dups,
           RecvWilling(d) \/ RecvAccept(d) \/ RecvRefuse(d) \/ RecvFailed(d) \/ RecvRejection(d)
    PROVE  OneLogin'
<1>0. dups \in Nat
  BY DEF TypeInv, TypeOK
<1>1. CASE Ignore(d)
  <2>1. net' \subseteq net
    BY <1>0, <1>1, ConsumeNet DEF Ignore
  <2>2. state' = state /\ SessionID' = SessionID
    BY <1>1 DEF Ignore, server
  <2>3. QED
    BY <2>1, <2>2, LoginKept
<1>2. ASSUME NEW m, SendRequest(d, m), Engaged \subseteq {d},
             d \in Engaged => dups' = dups, \A s \in Session : ~ Active(s)
      PROVE  OneLogin'
  <2>1. Datagram("REQUEST", m).type = "REQUEST"
    BY DEF Datagram
  <2>2. PICK out \in SUBSET {Datagram("REQUEST", m)} : Consume(d, out)
    BY <1>2, SendRequestDoes
  <2>3. net' \subseteq net \cup out /\ (dups' = dups => net' = (net \ {d}) \cup out)
    BY <1>0, <2>2, ConsumeNet
  <2>4. \A e \in net' : e.type \notin {"MANAGE", "REFUSE"}
    BY <1>2, <2>1, <2>3 DEF Engaged
  <2>5. QED
    BY <1>2, <2>4, LoginIdle DEF Active
<1>3. CASE RecvWilling(d)
  <2>1. CASE state = "COLLECT"
    BY <1>2, <1>3, <2>1, NobodyEngaged DEF RecvWilling
  <2>2. QED
    BY <1>1, <1>3, <2>1 DEF RecvWilling
<1>4. CASE RecvAccept(d)
  <2>1. CASE state = "AWAIT_REQUEST_RESPONSE"
    <3> DEFINE a == About("MANAGE", manager, d.id)
    <3>1. SessionID' = d.id /\ state' = "AWAIT_MANAGE_RESPONSE" /\ Consume(d, {a})
      BY <1>4, <2>1 DEF RecvAccept
    <3>2. a.id = d.id
      BY DEF About
    <3> HIDE DEF a
    <3>3. net' \subseteq net \cup {a}
      BY <1>0, <3>1, ConsumeNet
    <3>4. Engaged = {} /\ \A s \in Session : ~ Active(s)
      BY <2>1, NobodyEngaged
    <3>5. \A e \in net' : e.type \in {"MANAGE", "REFUSE"} => e = a
      BY <3>3, <3>4 DEF Engaged
    <3>6. QED
      BY <3>1, <3>2, <3>4, <3>5 DEF OneLogin, Engaged, Active
  <2>2. QED
    BY <1>1, <1>4, <2>1 DEF RecvAccept
<1>5. CASE RecvRefuse(d)
  <2>1. CASE Matches(d)
    <3>1. d \in Engaged
      BY <1>5 DEF RecvRefuse, Engaged
    <3>2. Engaged \subseteq {d} /\ \A s \in Session : ~ Active(s)
      BY <3>1 DEF OneLogin
    <3>3. dups' = dups
      BY <3>1 DEF Engaged
    <3>4. QED
      BY <1>2, <1>5, <2>1, <3>2, <3>3 DEF RecvRefuse
  <2>2. QED
    BY <1>1, <1>5, <2>1 DEF RecvRefuse
<1>6. CASE RecvFailed(d)
  BY <1>1, <1>6 DEF RecvFailed, Fatal
<1>7. QED
  BY <1>3, <1>4, <1>5, <1>6, RejectionEnds

LEMMA ManagerLogin ==
    ASSUME TypeInv, OneLogin, NEW m \in Manager, NEW d \in net, UNCHANGED server,
           d.type \in {"MANAGE", "REFUSE"} => dups' = dups,
           QueryRespond(d, m) \/ RequestRespond(d, m) \/ Manage(d, m)
    PROVE  OneLogin'
<1>0. /\ dups \in Nat
      /\ child \in [Session -> Process]
  BY DEF TypeInv, TypeOK
<1>1. state' = state /\ SessionID' = SessionID
  BY DEF server
<1>2. CASE QueryRespond(d, m) \/ RequestRespond(d, m)
  <2>1. \/ Consume(d, {}) \/ \E t \in {"WILLING", "UNWILLING", "DECLINE"} : Consume(d, {Datagram(t, m)})
        \/ \E s, k : Consume(d, {Accept(m, s, k)})
    BY <1>2 DEF QueryRespond, RequestRespond, SendAccept
  <2>2. \A e \in net' : e.type \in {"MANAGE", "REFUSE"} => e \in net
    <3>1. ASSUME NEW x, x.type \notin {"MANAGE", "REFUSE"}, Consume(d, {x})
          PROVE  \A e \in net' : e.type \in {"MANAGE", "REFUSE"} => e \in net
      <4>1. net' \subseteq net \cup {x}
        BY <1>0, <3>1, ConsumeNet
      <4>2. QED
        BY <3>1, <4>1
    <3>2. CASE Consume(d, {})
      BY <1>0, <3>2, ConsumeNet
    <3>3. \A t \in {"WILLING", "UNWILLING", "DECLINE"} :
             Datagram(t, m).type \notin {"MANAGE", "REFUSE"}
      BY DEF Datagram
    <3>4. \A s, k : Accept(m, s, k).type \notin {"MANAGE", "REFUSE"}
      BY DEF Accept
    <3>5. QED
      BY <2>1, <3>1, <3>2, <3>3, <3>4
  <2>3. child' = child
    BY <1>2 DEF QueryRespond, RequestRespond, xdm
  <2>4. QED
    BY <1>1, <2>2, <2>3, LoginKept
<1>3. CASE Manage(d, m)
  <2>1. d.type = "MANAGE" /\ d \in Engaged
    BY <1>3 DEF Manage, About, Engaged
  <2>2. /\ state = "AWAIT_MANAGE_RESPONSE" /\ d.id = SessionID /\ Engaged = {d}
        /\ \A s \in Session : ~ Active(s)
    BY <2>1 DEF OneLogin
  <2>3. CASE \E out : Consume(d, out) /\ \A e \in out : e.type = "FAILED"
    <3>1. PICK out : Consume(d, out) /\ \A e \in out : e.type = "FAILED"
      BY <2>3
    <3>2. net' = (net \ {d}) \cup out
      BY <1>0, <2>1, <3>1, ConsumeNet
    <3>3. \A e \in net' : e.type \notin {"MANAGE", "REFUSE"}
      BY <2>2, <3>1, <3>2 DEF Engaged
    <3>4. \A s \in Session : /\ child'[s] # "ghost"
                             /\ child'[s] = "opening" => s = d.id
      BY <1>0, <1>3, <2>2 DEF Manage, StartSession, FailSession, TurnDown, StopDisplays,
                              Active
    <3>5. QED
      BY <1>1, <2>2, <3>3, <3>4 DEF OneLogin, Engaged, Active
  <2>4. CASE child' = child /\ Consume(d, {About("REFUSE", m, d.id)})
    <3> DEFINE r == About("REFUSE", m, d.id)
    <3>1. r.id = d.id
      BY DEF About
    <3>2. Consume(d, {r})
      BY <2>4
    <3> HIDE DEF r
    <3>3. net' = (net \ {d}) \cup {r}
      BY <1>0, <2>1, <3>2, ConsumeNet
    <3>4. \A e \in net' : e.type \in {"MANAGE", "REFUSE"} => e = r
      BY <2>2, <3>3 DEF Engaged
    <3>5. QED
      BY <1>1, <2>2, <2>4, <3>1, <3>4 DEF OneLogin, Engaged, Active
  <2>5. QED
    <3>1. \/ Consume(d, {}) \/ Consume(d, {About("FAILED", m, d.id)})
          \/ child' = child /\ Consume(d, {About("REFUSE", m, d.id)})
      BY <1>3 DEF Manage, StartSession, FailSession, TurnDown
    <3>2. \A e \in {About("FAILED", m, d.id)} : e.type = "FAILED"
      BY DEF About
    <3>3. QED
      BY <2>3, <2>4, <3>1, <3>2
<1>4. QED
  BY <1>2, <1>3

LEMMA SessionLogin ==
    ASSUME TypeInv, OneLogin, NEW s \in Session,
           ChildOpens(s) \/ ChildFails(s) \/ StoppedEnds(s) \/ ChildExits(s) \/ WaitForChild(s)
    PROVE  OneLogin'
<1>0. child \in [Session -> Process]
  BY DEF TypeInv, TypeOK
<1>1. \A t \in Session : child'[t] \in {"opening", "ghost"} => t # s /\ child'[t] = child[t]
  BY <1>0 DEF ChildOpens, ChildFails, StoppedEnds, ChildExits, WaitForChild
<1>2. \A d \in net' : d.type \in {"MANAGE", "REFUSE"} => d \in net
  BY DEF ChildOpens, ChildFails, StoppedEnds, ChildExits, WaitForChild, About
<1>3. SessionID' = SessionID
  BY DEF ChildOpens, ChildFails, StoppedEnds, ChildExits, WaitForChild, OpenDisplay, server
<1>4. CASE state' = state
  BY <1>1, <1>2, <1>3, <1>4, LoginKept
<1>5. CASE state' # state
  <2>1. ChildOpens(s)
    BY <1>5 DEF ChildFails, StoppedEnds, ChildExits, WaitForChild, server
  <2>2. Active(s)
    BY <2>1 DEF ChildOpens, Active
  <2>3. Engaged = {} /\ \A t \in Session : t # s => ~ Active(t)
    BY <2>2 DEF OneLogin
  <2>4. QED
    BY <1>1, <1>2, <2>3, LoginIdle DEF Active, Engaged
<1>6. QED
  BY <1>4, <1>5

LEMMA OtherLogin ==
    ASSUME TypeInv, OneLogin,
           NoticeClose \/ LocalOpens \/ LocalCloses \/ Reset \/ ExpireProto \/ Lose
               \/ (\E m \in Manager : Crash(m)) \/ UNCHANGED vars,
           state = "AWAIT_MANAGE_RESPONSE" => ~ LocalOpens /\ ~ Reset
    PROVE  OneLogin'
<1>1. child' = child /\ SessionID' = SessionID
  BY DEF NoticeClose, LocalOpens, LocalCloses, Reset, ExpireProto, Lose, Crash, vars, xdm,
         server, OpenDisplay, CloseDown
<1>2. \A d \in net' : d.type \in {"MANAGE", "REFUSE"} => d \in net
  BY DEF NoticeClose, LocalOpens, LocalCloses, Reset, Queries, Datagram, ExpireProto, Lose,
         Crash, vars
<1>3. CASE state = "AWAIT_MANAGE_RESPONSE"
  <2>1. state' = state
    BY <1>3 DEF NoticeClose, LocalCloses, ExpireProto, Lose, Crash, vars, server, CloseDown
  <2>2. QED
    BY <1>1, <1>2, <2>1, LoginKept
<1>4. CASE state # "AWAIT_MANAGE_RESPONSE"
  BY <1>1, <1>2, <1>4, NobodyEngaged, LoginIdle DEF Active, Engaged
<1>5. QED
  BY <1>3, <1>4

(***************************************************************************)
(* One offer at a time                                                     *)
(***************************************************************************)
LEMMA NetIds ==
    ASSUME TypeOK, NEW d \in net
    PROVE  /\ d.type \in {"ACCEPT", "MANAGE", "REFUSE"} => d.id \in Session
           /\ d.type = "ACCEPT" => d.key \in Key
BY ManageShape, MessageFields DEF TypeOK

\* What an open or closed connection, a process that ends and a session that is
\* given up have in common.
LEMMA OfferKept ==
    ASSUME TypeOK, OfferInv, UNCHANGED <<manager, SessionID, auth, key>>,
           \/ state' = state
           \/ state \in {"AWAIT_MANAGE_RESPONSE", "RUN_SESSION"} /\ state' \in {"RUN_SESSION", "INIT"},
           \A d \in net' : d.type \in {"REQUEST", "ACCEPT", "MANAGE", "REFUSE"} => d \in net,
           \A s \in Session : \/ stage'[s] = stage[s]
                              \/ stage'[s] = "gone" /\ stage[s] \in {"proto", "display"},
           \A s \in Session : child'[s] \in {"opening", "ghost"} => child'[s] = child[s]
    PROVE  OfferInv'
<1> USE DEF OfferInv
<1>1. OneOffer'
  BY DEF OneOffer, Offers
<1>2. KeysKnown'
  BY NetIds DEF KeysKnown
<1>3. GhostsGone'
  BY DEF GhostsGone
<1>4. ASSUME NEW s \in Session, Pending(s)' PROVE Pending(s)
  BY <1>4 DEF Pending
<1>5. PendingClear'
  <2> SUFFICES ASSUME NEW s \in Session, Pending(s)'
               PROVE  /\ stage'[s] # "none" /\ child'[s] # "ghost"
                      /\ stage'[s] = "display" => Protos(s[1])' = {}
    BY DEF PendingClear
  <2>1. /\ stage[s] # "none" /\ child[s] # "ghost"
        /\ stage[s] = "display" => Protos(s[1]) = {}
    BY <1>4 DEF PendingClear
  <2>2. stage'[s] # "none" /\ child'[s] # "ghost"
    BY <2>1
  <2>3. Protos(s[1])' \subseteq Protos(s[1])
    BY DEF Protos, Of
  <2>4. QED
    BY <2>1, <2>2, <2>3
<1>6. RefusedDead'
  <2> SUFFICES ASSUME NEW d \in net', d.type = "REFUSE"
               PROVE  /\ stage'[d.id] \in {"display", "gone"}
                      /\ ~ (Active(d.id)' /\ Pending(d.id)')
    BY DEF RefusedDead
  <2>1. d \in net /\ d.id \in Session
    BY NetIds
  <2>2. stage[d.id] \in {"display", "gone"} /\ ~ (Active(d.id) /\ Pending(d.id))
    BY <2>1 DEF RefusedDead
  <2>3. Active(d.id)' => Active(d.id)
    BY <2>1 DEF Active
  <2>4. QED
    BY <1>4, <2>1, <2>2, <2>3
<1>7. ArmedGranted'
  <2> SUFFICES ASSUME NEW s \in Session, Armed(s)'
               PROVE  s = SessionID' /\ state' \in {"AWAIT_MANAGE_RESPONSE", "RUN_SESSION", "INIT"}
    BY DEF ArmedGranted
  <2>1. Admitted(s)
    BY DEF Armed, Admitted
  <2>2. stage'[s] = "proto" => stage[s] = "proto"
    OBVIOUS
  <2>3. Active(s)' => Active(s)
    BY DEF Active
  <2>4. Armed(s)
    BY <2>1, <2>2, <2>3 DEF Armed
  <2>5. QED
    BY <2>4 DEF ArmedGranted
<1>8. QED
  BY <1>1, <1>2, <1>3, <1>5, <1>6, <1>7

LEMMA SessionOffer ==
    ASSUME TypeInv, Sessions, OfferInv, NEW s \in Session,
           ChildOpens(s) \/ ChildFails(s) \/ StoppedEnds(s) \/ ChildExits(s) \/ WaitForChild(s)
    PROVE  OfferInv'
<1>0. /\ child \in [Session -> Process]
      /\ stage \in [Session -> {"none", "proto", "display", "gone"}]
      /\ TypeOK
  BY DEF TypeInv, TypeOK
<1>1. \A t \in Session : child'[t] \in {"opening", "ghost"} => child'[t] = child[t]
  BY <1>0 DEF ChildOpens, ChildFails, StoppedEnds, ChildExits, WaitForChild
<1>2. \A t \in Session : \/ stage'[t] = stage[t]
                         \/ stage'[t] = "gone" /\ stage[t] \in {"proto", "display"}
  <2>1. CASE WaitForChild(s)
    <3>1. stage[s] = "display"
      BY <2>1 DEF WaitForChild, Sessions, NoStrayProcess
    <3>2. QED
      BY <1>0, <2>1, <3>1 DEF WaitForChild
  <2>2. CASE ~ WaitForChild(s)
    BY <2>2 DEF ChildOpens, ChildFails, StoppedEnds, ChildExits
  <2>3. QED
    BY <2>1, <2>2
<1>3. \A d \in net' : d.type \in {"REQUEST", "ACCEPT", "MANAGE", "REFUSE"} => d \in net
  BY DEF ChildOpens, ChildFails, StoppedEnds, ChildExits, WaitForChild, About
<1>4. UNCHANGED <<manager, SessionID, auth, key>>
  BY DEF ChildOpens, ChildFails, StoppedEnds, ChildExits, WaitForChild, OpenDisplay, server
<1>5. \/ state' = state
      \/ state \in {"AWAIT_MANAGE_RESPONSE", "RUN_SESSION"} /\ state' \in {"RUN_SESSION", "INIT"}
  BY DEF ChildOpens, ChildFails, StoppedEnds, ChildExits, WaitForChild, OpenDisplay, server
<1>6. QED
  BY <1>0, <1>1, <1>2, <1>3, <1>4, <1>5, OfferKept

LEMMA OtherOffer ==
    ASSUME TypeInv, Sessions, OfferInv,
           NoticeClose \/ LocalOpens \/ LocalCloses \/ ExpireProto \/ Lose
               \/ (\E m \in Manager : Crash(m)) \/ UNCHANGED vars
    PROVE  OfferInv'
<1>0. stage \in [Session -> {"none", "proto", "display", "gone"}] /\ TypeOK
  BY DEF TypeInv, TypeOK
<1>1. child' = child
  BY DEF NoticeClose, LocalOpens, LocalCloses, ExpireProto, Lose, Crash, vars, xdm
<1>2. \A t \in Session : \/ stage'[t] = stage[t]
                         \/ stage'[t] = "gone" /\ stage[t] \in {"proto", "display"}
  BY <1>0 DEF NoticeClose, LocalOpens, LocalCloses, ExpireProto, Lose, Crash, vars, xdm
<1>3. net' \subseteq net
  BY DEF NoticeClose, LocalOpens, LocalCloses, ExpireProto, Lose, Crash, vars
<1>4. UNCHANGED <<manager, SessionID, auth, key>>
  BY DEF NoticeClose, LocalOpens, LocalCloses, ExpireProto, Lose, Crash, vars, xdm,
         server, OpenDisplay, CloseDown
<1>5. \/ state' = state
      \/ state \in {"AWAIT_MANAGE_RESPONSE", "RUN_SESSION"} /\ state' \in {"RUN_SESSION", "INIT"}
  BY DEF NoticeClose, LocalOpens, LocalCloses, ExpireProto, Lose, Crash, vars, server,
         OpenDisplay, CloseDown
<1>6. QED
  BY <1>0, <1>1, <1>2, <1>3, <1>4, <1>5, OfferKept

\* A server that has no authorization and no offer starts afresh.
LEMMA ResetOffer ==
    ASSUME TypeInv, OfferInv, Reset, Offers = {}
    PROVE  OfferInv'
<1> USE DEF OfferInv
<1>1. /\ state' = "COLLECT" /\ auth' = {} /\ net' = net \cup Queries
      /\ UNCHANGED <<SessionID, xdm>>
  BY DEF Reset
<1>2. \A d \in Queries : d.type = "QUERY"
  BY DEF Queries, Datagram
<1>3. \A d \in net' : /\ d.type \notin {"REQUEST", "ACCEPT"}
                      /\ d.type \in {"MANAGE", "REFUSE"} => d \in net
  BY <1>1, <1>2 DEF Offers
<1>4. UNCHANGED <<stage, key, child>>
  BY <1>1 DEF xdm
<1>5. OneOffer' /\ KeysKnown' /\ GhostsGone'
  BY <1>1, <1>3, <1>4 DEF OneOffer, Offers, KeysKnown, GhostsGone
<1>6. \A s : ~ Pending(s)'
  BY <1>1, <1>3 DEF Pending
<1>7. PendingClear'
  BY <1>6 DEF PendingClear
<1>8. RefusedDead'
  BY <1>3, <1>4, <1>6 DEF RefusedDead
<1>9. ArmedGranted'
  BY <1>1 DEF ArmedGranted, Armed, Admitted
<1>10. QED
  BY <1>5, <1>7, <1>8, <1>9

\* A REQUEST is sent when no authorization is left that a process could use.
LEMMA SendRequestOffer ==
    ASSUME TypeInv, OfferInv, NEW d \in net, NEW m \in Manager, SendRequest(d, m),
           UNCHANGED xdm, state \notin {"AWAIT_REQUEST_RESPONSE"},
           \A s \in Session : ~ Armed(s)
    PROVE  OfferInv'
<1> USE DEF OfferInv
<1>0. dups \in Nat /\ UNCHANGED <<stage, key, child>>
  BY DEF TypeInv, TypeOK, xdm
<1>1. /\ manager' = m
      /\ UNCHANGED <<SessionID, auth>>
      /\ \/ state' = "AWAIT_REQUEST_RESPONSE" /\ Consume(d, {Datagram("REQUEST", m)})
         \/ state' = "START_CONNECTION" /\ Consume(d, {})
  BY SendRequestDoes
<1> DEFINE r == Datagram("REQUEST", m)
<1>2. r.type = "REQUEST" /\ r.mgr = m
  BY DEF Datagram
<1> HIDE DEF r
<1>3. /\ net' \subseteq net \cup {r}
      /\ state' = "START_CONNECTION" => net' \subseteq net
      /\ state' \in {"AWAIT_REQUEST_RESPONSE", "START_CONNECTION"}
  BY <1>0, <1>1, ConsumeNet DEF r
<1>4. \A e \in net : e.type \notin {"REQUEST", "ACCEPT"}
  BY DEF OneOffer, Offers
<1>5. \A e \in net' : /\ e.type # "ACCEPT"
                      /\ e.type = "REQUEST" => e = r /\ state' = "AWAIT_REQUEST_RESPONSE"
                      /\ e.type \in {"MANAGE", "REFUSE"} => e \in net
  BY <1>2, <1>3, <1>4
<1>6. OneOffer'
  BY <1>1, <1>2, <1>5 DEF OneOffer, Offers
<1>7. KeysKnown' /\ GhostsGone'
  BY <1>0, <1>1, <1>5 DEF KeysKnown, GhostsGone
<1>8. \A s : ~ Pending(s)'
  BY <1>3, <1>5 DEF Pending
<1>9. PendingClear'
  BY <1>8 DEF PendingClear
<1>10. RefusedDead'
  BY <1>0, <1>5, <1>8 DEF RefusedDead
<1>11. ArmedGranted'
  BY <1>0, <1>1 DEF ArmedGranted, Armed, Admitted, Active
<1>12. QED
  BY <1>6, <1>7, <1>9, <1>10, <1>11

LEMMA RecvAcceptOffer ==
    ASSUME TypeInv, OfferInv, NEW d \in net, d.type = "ACCEPT",
           state = "AWAIT_REQUEST_RESPONSE", RecvAccept(d), UNCHANGED xdm, dups' = dups
    PROVE  OfferInv'
<1> USE DEF OfferInv
<1> DEFINE s == d.id
           a == About("MANAGE", manager, s)
<1>0. TypeOK /\ dups \in Nat /\ UNCHANGED <<stage, key, child>>
  BY DEF TypeInv, TypeOK, xdm
<1>1. /\ auth' = auth \cup {<<s, d.key>>}
      /\ SessionID' = s
      /\ state' = "AWAIT_MANAGE_RESPONSE"
      /\ Consume(d, {a})
      /\ manager' = manager
  BY DEF RecvAccept
<1>2. s \in Session /\ d.key \in Key
  BY <1>0, NetIds
<1>3. s[1] = manager /\ d.key <= key[s]
  BY DEF OneOffer, Offers, KeysKnown
<1>4. Pending(s)
  BY DEF Pending
<1>5. /\ stage[s] # "none" /\ child[s] # "ghost"
      /\ stage[s] = "display" => Protos(s[1]) = {}
  BY <1>2, <1>4 DEF PendingClear
<1>6. a.type = "MANAGE" /\ a.mgr = manager /\ a.id = s
  BY DEF About
<1> HIDE DEF a, s
<1>7. net' = (net \ {d}) \cup {a}
  BY <1>0, <1>1, ConsumeNet
<1>8. \A e \in net' : /\ e.type \notin {"REQUEST", "ACCEPT"}
                      /\ e.type = "REFUSE" => e \in net
                      /\ e.type = "MANAGE" => e \in net \/ e = a
  BY <1>6, <1>7 DEF OneOffer, Offers
<1>9. OneOffer' /\ GhostsGone'
  BY <1>0, <1>8 DEF OneOffer, Offers, GhostsGone
<1>10. KeysKnown'
  BY <1>0, <1>1, <1>2, <1>3, <1>5, <1>6, <1>8 DEF KeysKnown
<1>11. \A t : Pending(t)' => t = s
  BY <1>1, <1>8 DEF Pending
<1>12. PendingClear'
  BY <1>0, <1>5, <1>11 DEF PendingClear, Protos, Of
<1>13. RefusedDead'
  <2> SUFFICES ASSUME NEW e \in net', e.type = "REFUSE"
               PROVE  /\ stage'[e.id] \in {"display", "gone"}
                      /\ ~ (Active(e.id)' /\ Pending(e.id)')
    BY DEF RefusedDead
  <2>1. stage[e.id] \in {"display", "gone"} /\ ~ (Active(e.id) /\ Pending(e.id))
    BY <1>8 DEF RefusedDead
  <2>2. QED
    BY <1>0, <1>4, <1>11, <2>1 DEF Active
<1>14. ArmedGranted'
  <2> SUFFICES ASSUME NEW t \in Session, Armed(t)' PROVE t = s
    BY <1>1 DEF ArmedGranted
  <2>1. ~ Armed(t)
    BY DEF ArmedGranted
  <2>2. <<t, key[t]>> \in auth \cup {<<s, d.key>>} /\ (stage[t] = "proto" \/ Active(t))
    BY <1>0, <1>1 DEF Armed, Admitted, Active
  <2>3. QED
    BY <2>1, <2>2 DEF Armed, Admitted
<1>15. QED
  BY <1>9, <1>10, <1>12, <1>13, <1>14

LEMMA RecvOffer ==
    ASSUME TypeInv, OfferInv, NEW d \in net, UNCHANGED xdm, state' # "OFF",
           d.type \in {"REQUEST", "ACCEPT"} => dups' = dups,
           RecvWilling(d) \/ RecvAccept(d) \/ RecvRefuse(d) \/ RecvFailed(d) \/ RecvRejection(d)
    PROVE  OfferInv'
<1>0. TypeOK /\ dups \in Nat /\ UNCHANGED <<stage, key, child>> /\ net \subseteq Message
  BY DEF TypeInv, TypeOK, xdm
<1>1. CASE Ignore(d)
  <2>1. net' \subseteq net
    BY <1>0, <1>1, ConsumeNet DEF Ignore
  <2>2. UNCHANGED <<state, manager, SessionID, auth>>
    BY <1>1 DEF Ignore, server
  <2>3. QED
    BY <1>0, <2>1, <2>2, OfferKept
<1>2. CASE RecvWilling(d)
  <2>1. CASE state = "COLLECT"
    <3>1. \A s \in Session : ~ Armed(s)
      BY <2>1 DEF OfferInv, ArmedGranted
    <3>2. d.mgr \in Manager /\ SendRequest(d, d.mgr)
      BY <1>0, <1>2, <2>1, MessageFields DEF RecvWilling
    <3>3. QED
      BY <2>1, <3>1, <3>2, SendRequestOffer
  <2>2. QED
    BY <1>1, <1>2, <2>1 DEF RecvWilling
<1>3. CASE RecvAccept(d)
  <2>1. CASE state = "AWAIT_REQUEST_RESPONSE"
    BY <1>3, <2>1, RecvAcceptOffer DEF RecvAccept
  <2>2. QED
    BY <1>1, <1>3, <2>1 DEF RecvAccept
<1>4. CASE RecvRefuse(d)
  <2>1. CASE Matches(d)
    <3>1. state = "AWAIT_MANAGE_RESPONSE" /\ d.id = SessionID /\ d.type = "REFUSE"
      BY <1>4, <2>1 DEF RecvRefuse, Matches
    <3>2. Pending(d.id)
      BY <3>1 DEF Pending
    <3>3. stage[d.id] \in {"display", "gone"} /\ ~ Active(d.id)
      BY <3>1, <3>2 DEF OfferInv, RefusedDead
    <3>4. ~ Armed(d.id)
      BY <3>3 DEF Armed
    <3>5. \A s \in Session : ~ Armed(s)
      BY <3>1, <3>4 DEF OfferInv, ArmedGranted
    <3>6. manager \in Manager
      BY <3>1 DEF TypeInv, ManagerKnown
    <3>7. QED
      BY <1>4, <2>1, <3>1, <3>5, <3>6, SendRequestOffer DEF RecvRefuse
  <2>2. QED
    BY <1>1, <1>4, <2>1 DEF RecvRefuse
<1>5. CASE RecvFailed(d)
  BY <1>1, <1>5 DEF RecvFailed, Fatal
<1>6. QED
  BY <1>2, <1>3, <1>4, <1>5, RejectionEnds

LEMMA RequestOffer ==
    ASSUME TypeInv, OfferInv, NEW m \in Manager, NEW d \in net, RequestRespond(d, m),
           UNCHANGED server, dups' = dups
    PROVE  OfferInv'
<1> USE DEF OfferInv
<1>0. /\ TypeOK /\ dups \in Nat /\ key \in [Session -> 0 .. MaxKey]
      /\ stage \in [Session -> {"none", "proto", "display", "gone"}]
      /\ UNCHANGED <<state, manager, SessionID, auth, child>>
  BY DEF TypeInv, TypeOK, server, RequestRespond
<1>1. CASE Consume(d, {Datagram("DECLINE", m)}) /\ UNCHANGED <<stage, key>>
  <2>1. Datagram("DECLINE", m).type = "DECLINE"
    BY DEF Datagram
  <2>2. net' \subseteq net \cup {Datagram("DECLINE", m)}
    BY <1>0, <1>1, ConsumeNet
  <2>3. \A e \in net' : e.type \in {"REQUEST", "ACCEPT", "MANAGE", "REFUSE"} => e \in net
    BY <2>1, <2>2
  <2>4. QED
    BY <1>0, <1>1, <2>3, OfferKept
<1>2. ASSUME NEW s \in Of(m), SendAccept(d, m, s), stage'[s] = "proto",
             \A t \in Session : t # s => stage'[t] = stage[t],
             stage[s] \in {"none", "proto"}
      PROVE  OfferInv'
  <2>1. s \in Session /\ s[1] = m
    BY DEF Of
  <2>2. d.type = "REQUEST" /\ d.mgr = m
    BY DEF RequestRespond, Datagram
  <2>3. /\ state = "AWAIT_REQUEST_RESPONSE" /\ manager = m
        /\ \A e \in net : e.type \in {"REQUEST", "ACCEPT"} => e = d
    BY <2>2 DEF OneOffer, Offers
  <2> DEFINE a == Accept(m, s, key'[s])
  <2>4. a.type = "ACCEPT" /\ a.mgr = m /\ a.id = s /\ a.key = key'[s]
    BY DEF Accept
  <2>5. /\ key'[s] = key[s] + 1 /\ key[s] \in Nat /\ key'[s] \in Nat
        /\ \A t \in Session : t # s => key'[t] = key[t]
    BY <1>0, <1>2, <2>1 DEF SendAccept
  <2>6. \A t \in Session : key[t] \in Nat /\ key'[t] \in Nat /\ key[t] <= key'[t]
    BY <1>0, <2>5
  <2>7. Consume(d, {a})
    BY <1>2 DEF SendAccept
  <2> HIDE DEF a
  <2>8. net' = (net \ {d}) \cup {a}
    BY <1>0, <2>7, ConsumeNet
  <2>9. \A e \in net' : /\ e.type \in {"REQUEST", "ACCEPT"} => e = a
                        /\ e.type \in {"MANAGE", "REFUSE"} => e \in net
    BY <2>3, <2>4, <2>8
  <2>10. OneOffer'
    BY <1>0, <2>3, <2>4, <2>9 DEF OneOffer, Offers
  <2>11. KeysKnown'
    <3>1. ASSUME NEW t \in Session, NEW k \in Key, <<t, k>> \in auth' PROVE k <= key'[t]
      <4>1. k <= key[t] /\ k \in Nat
        BY <1>0, <3>1, BoundAssumption DEF KeysKnown
      <4>2. QED
        BY <2>6, <4>1
    <3>2. ASSUME NEW e \in net', e.type = "ACCEPT"
          PROVE  e.id[1] = e.mgr /\ e.key <= key'[e.id]
      BY <2>1, <2>4, <2>5, <2>9, <3>2
    <3>3. ASSUME NEW e \in net', e.type = "MANAGE"
          PROVE  e.id[1] = e.mgr /\ stage'[e.id] # "none"
      <4>1. e \in net /\ e.id \in Session
        BY <1>0, <2>9, <3>3, NetIds
      <4>2. e.id[1] = e.mgr /\ stage[e.id] # "none"
        BY <3>3, <4>1 DEF KeysKnown
      <4>3. QED
        BY <1>2, <4>1, <4>2
    <3>4. QED
      BY <3>1, <3>2, <3>3 DEF KeysKnown
  <2>12. child[s] # "ghost"
    BY <1>2, <2>1 DEF GhostsGone
  <2>13. GhostsGone'
    BY <1>0, <1>2, <2>12 DEF GhostsGone
  <2>14. \A t : Pending(t)' => t = s
    BY <1>0, <2>3, <2>4, <2>9 DEF Pending
  <2>15. PendingClear'
    BY <1>0, <1>2, <2>12, <2>14 DEF PendingClear
  <2>16. RefusedDead'
    <3> SUFFICES ASSUME NEW e \in net', e.type = "REFUSE"
                 PROVE  /\ stage'[e.id] \in {"display", "gone"}
                        /\ ~ (Active(e.id)' /\ Pending(e.id)')
      BY DEF RefusedDead
    <3>1. e \in net /\ e.id \in Session /\ stage[e.id] \in {"display", "gone"}
      BY <1>0, <2>9, NetIds DEF RefusedDead
    <3>2. e.id # s
      BY <1>2, <3>1
    <3>3. QED
      BY <1>2, <2>14, <3>1, <3>2
  <2>17. ArmedGranted'
    <3> SUFFICES ASSUME NEW t \in Session, Armed(t)' PROVE FALSE
      BY DEF ArmedGranted
    <3>1. <<t, key'[t]>> \in auth /\ (stage'[t] = "proto" \/ Active(t))
      BY <1>0 DEF Armed, Admitted, Active
    <3>2. key'[t] \in Key
      BY <3>1 DEF TypeInv, TypeOK
    <3>3. key'[t] <= key[t]
      BY <3>1, <3>2 DEF KeysKnown
    <3>4. t # s
      BY <2>5, <3>3
    <3>5. Armed(t)
      BY <1>2, <2>5, <3>1, <3>4 DEF Armed, Admitted
    <3>6. QED
      BY <2>3, <3>5 DEF ArmedGranted
  <2>18. QED
    BY <2>10, <2>11, <2>13, <2>15, <2>16, <2>17
<1>3. CASE \E s \in Protos(m) : SendAccept(d, m, s) /\ stage' = stage
  <2>1. PICK s \in Protos(m) : SendAccept(d, m, s) /\ stage' = stage
    BY <1>3
  <2>2. s \in Of(m) /\ stage[s] = "proto"
    BY DEF Protos
  <2>3. QED
    BY <1>2, <2>1, <2>2
<1>4. CASE \E s \in Session : Fresh(m, s) /\ SendAccept(d, m, s)
                              /\ stage' = [stage EXCEPT ![s] = "proto"]
  <2>1. PICK s \in Session : /\ Fresh(m, s) /\ SendAccept(d, m, s)
                             /\ stage' = [stage EXCEPT ![s] = "proto"]
    BY <1>4
  <2>2. s \in Of(m) /\ stage[s] = "none"
    BY <2>1 DEF Fresh
  <2>3. stage'[s] = "proto" /\ \A t \in Session : t # s => stage'[t] = stage[t]
    BY <1>0, <2>1
  <2>4. QED
    BY <1>2, <2>1, <2>2, <2>3
<1>5. QED
  BY <1>1, <1>3, <1>4 DEF RequestRespond

LEMMA StartOffer ==
    ASSUME TypeInv, Sessions, OfferInv, NEW s \in Session, NEW T \in SUBSET {s},
           stage[s] = "proto", StopDisplays(Displays(s[1]), T),
           \A t \in Displays(s[1]) : stage'[t] = "gone",
           \A t \in Session : t \notin Displays(s[1]) /\ t # s => stage'[t] = stage[t],
           stage'[s] \in {"proto", "display"},
           T # {} => stage'[s] = "display",
           UNCHANGED <<state, manager, SessionID, auth, key>>,
           \A d \in net' : d.type \in {"REQUEST", "ACCEPT", "MANAGE", "REFUSE"} => d \in net
    PROVE  OfferInv'
<1> USE DEF OfferInv
<1> DEFINE m == s[1]
<1>0. TypeOK
  BY DEF TypeInv
<1>1. /\ \A t \in Session : t \in Displays(m) <=> t[1] = m /\ stage[t] = "display"
      /\ s \notin Displays(m) /\ s \in Protos(m)
      /\ Displays(m) \subseteq Session /\ m \in Manager
  BY DEF Displays, Protos, Of, Session
<1>2. \A t \in Session : t \notin Displays(m) /\ t \notin T => child'[t] = child[t]
  BY DEF StopDisplays
<1>3. \A t \in Displays(m) : /\ child'[t] \in {"none", "ghost", "stopped"}
                             /\ child'[t] = "ghost" => Active(t)
  BY <1>1 DEF StopDisplays, Active
<1>4. \A t \in T : child'[t] = "opening"
  BY <1>1 DEF StopDisplays
<1>5. \A t \in Session : t # s /\ Active(t)' => Active(t)
  BY <1>2, <1>3 DEF Active
<1> HIDE DEF m
<1>6. OneOffer'
  BY DEF OneOffer, Offers
<1>7. \A t \in Session : /\ stage'[t] = "none" => stage[t] = "none"
                         /\ stage[t] \in {"display", "gone"} => stage'[t] \in {"display", "gone"}
                         /\ t # s /\ stage'[t] \in {"proto", "display"} => stage'[t] = stage[t]
  BY <1>1 DEF m
<1>8. KeysKnown'
  <2>1. \A d \in net' : d.type = "MANAGE" => d.id[1] = d.mgr /\ stage'[d.id] # "none"
    BY <1>0, <1>7, NetIds DEF KeysKnown
  <2>2. QED
    BY <2>1 DEF KeysKnown
<1>9. GhostsGone'
  <2> SUFFICES ASSUME NEW t \in Session, child'[t] = "ghost" PROVE stage'[t] = "gone"
    BY DEF GhostsGone
  <2>1. CASE t \in Displays(m)
    BY <2>1 DEF m
  <2>2. CASE t \notin Displays(m)
    <3>1. t \notin T /\ child[t] = "ghost"
      BY <1>2, <1>4, <2>2
    <3>2. stage[t] = "gone"
      BY <3>1 DEF GhostsGone
    <3>3. QED
      BY <2>2, <3>2 DEF m
  <2>3. QED
    BY <2>1, <2>2
<1>10. \A t \in Session : Pending(t)' => Pending(t)
  BY DEF Pending
<1>11. PendingClear'
  <2> SUFFICES ASSUME NEW t \in Session, Pending(t)'
               PROVE  /\ stage'[t] # "none" /\ child'[t] # "ghost"
                      /\ stage'[t] = "display" => Protos(t[1])' = {}
    BY DEF PendingClear
  <2>1. /\ stage[t] # "none" /\ child[t] # "ghost"
        /\ stage[t] = "display" => Protos(t[1]) = {}
    BY <1>10 DEF PendingClear
  <2>2. t \notin Displays(m)
    BY <1>1, <2>1
  <2>3. stage'[t] # "none" /\ child'[t] # "ghost"
    BY <1>2, <1>4, <1>7, <2>1, <2>2
  <2>4. ASSUME stage'[t] = "display", NEW u \in Session, stage'[u] = "proto", u[1] = t[1]
        PROVE  FALSE
    <3>1. u # s => stage[u] = "proto"
      BY <1>7, <2>4
    <3>2. stage[u] = "proto"
      BY <3>1
    <3>3. CASE t = s
      <4>1. u = s
        BY <1>1, <2>4, <3>2, <3>3 DEF Sessions, OneSessionPerDisplay, Of, m
      <4>2. QED
        BY <2>4, <3>3, <4>1
    <3>4. CASE t # s
      <4>1. stage[t] = "display"
        BY <1>7, <2>4, <3>4
      <4>2. u \in Protos(t[1])
        BY <2>4, <3>2 DEF Protos, Of
      <4>3. QED
        BY <2>1, <4>1, <4>2
    <3>5. QED
      BY <3>3, <3>4
  <2>5. stage'[t] = "display" => Protos(t[1])' = {}
    BY <2>4 DEF Protos, Of
  <2>6. QED
    BY <2>3, <2>5
<1>12. RefusedDead'
  <2> SUFFICES ASSUME NEW d \in net', d.type = "REFUSE"
               PROVE  /\ stage'[d.id] \in {"display", "gone"}
                      /\ ~ (Active(d.id)' /\ Pending(d.id)')
    BY DEF RefusedDead
  <2>1. /\ d \in net /\ d.id \in Session /\ stage[d.id] \in {"display", "gone"}
        /\ ~ (Active(d.id) /\ Pending(d.id))
    BY <1>0, NetIds DEF RefusedDead
  <2>2. d.id # s
    BY <2>1
  <2>3. QED
    BY <1>5, <1>7, <1>10, <2>1, <2>2
<1>13. ArmedGranted'
  <2> SUFFICES ASSUME NEW t \in Session, Armed(t)' PROVE Armed(t)
    BY DEF ArmedGranted
  <2>1. Admitted(t) /\ (stage'[t] = "proto" \/ Active(t)')
    BY DEF Armed, Admitted
  <2>2. CASE t = s
    BY <2>1, <2>2 DEF Armed
  <2>3. CASE t # s
    BY <1>5, <1>7, <2>1, <2>3 DEF Armed
  <2>4. QED
    BY <2>2, <2>3
<1>14. QED
  BY <1>6, <1>8, <1>9, <1>11, <1>12, <1>13

LEMMA ManageOffer ==
    ASSUME TypeInv, Sessions, OfferInv, NEW m \in Manager, NEW d \in net, Manage(d, m),
           UNCHANGED server
    PROVE  OfferInv'
<1> USE DEF OfferInv
<1>0. /\ TypeOK /\ dups \in Nat /\ net \subseteq Message
      /\ stage \in [Session -> {"none", "proto", "display", "gone"}]
      /\ UNCHANGED <<state, manager, SessionID, auth, key>>
  BY DEF TypeInv, TypeOK, server, Manage
<1>1. d.type = "MANAGE" /\ d.mgr = m
  BY DEF Manage, About
<1> DEFINE s == d.id
<1>2. s \in Session /\ s[1] = m /\ stage[s] # "none"
  BY <1>0, <1>1, NetIds DEF KeysKnown
<1>3. s \in Protos(m) <=> stage[s] = "proto"
  BY <1>2 DEF Protos, Of
<1> DEFINE f == About("FAILED", m, s)
           r == About("REFUSE", m, s)
<1>4. f.type = "FAILED" /\ r.type = "REFUSE" /\ r.id = s /\ r.mgr = m
  BY DEF About
<1>5. ASSUME Consume(d, {}) \/ Consume(d, {f})
      PROVE  \A e \in net' : e.type \in {"REQUEST", "ACCEPT", "MANAGE", "REFUSE"} => e \in net
  <2> HIDE DEF f
  <2>1. net' \subseteq net \cup {f}
    BY <1>0, <1>5, ConsumeNet
  <2>2. QED
    BY <1>4, <2>1
<1>6. CASE stage[s] = "proto"
  <2>1. Consume(d, {}) \/ Consume(d, {f})
    BY <1>3, <1>6 DEF Manage, StartSession, FailSession
  <2>2. \A e \in net' : e.type \in {"REQUEST", "ACCEPT", "MANAGE", "REFUSE"} => e \in net
    BY <1>5, <2>1
  <2>3. s \notin Displays(m) /\ Displays(m) \subseteq Session
    BY <1>6 DEF Displays, Of
  <2> HIDE DEF s
  <2>4. ASSUME NEW T \in SUBSET {s}, StopDisplays(Displays(m), T),
               \/ stage' = [t \in Session |-> IF t = s THEN "display"
                                              ELSE IF t \in Displays(m) THEN "gone"
                                              ELSE stage[t]]
               \/ /\ T = {}
                  /\ stage' = [t \in Session |-> IF t \in Displays(m) THEN "gone"
                                                 ELSE stage[t]]
        PROVE  OfferInv'
    <3>1. /\ \A t \in Displays(m) : stage'[t] = "gone"
          /\ \A t \in Session : t \notin Displays(m) /\ t # s => stage'[t] = stage[t]
          /\ stage'[s] \in {"proto", "display"}
          /\ T # {} => stage'[s] = "display"
      BY <1>2, <1>6, <2>3, <2>4
    <3>2. QED
      BY <1>0, <1>2, <1>6, <2>2, <2>4, <3>1, StartOffer
  <2>5. {} \in SUBSET {s}
    OBVIOUS
  <2>6. CASE UNCHANGED <<stage, child>>
    BY <1>0, <2>2, <2>6, OfferKept
  <2>7. QED
    BY <2>4, <2>5, <2>6, ManageCases DEF s
<1>7. CASE stage[s] # "proto"
  <2>1. UNCHANGED <<stage, child>>
    BY <1>3, <1>7 DEF Manage, StartSession, FailSession, TurnDown
  <2>2. CASE Consume(d, {})
    BY <1>0, <1>5, <2>1, <2>2, OfferKept
  <2>3. CASE Consume(d, {r}) /\ ~ (Protos(m) = {} /\ s \in Displays(m))
    <3>1. stage[s] \in {"display", "gone"}
      BY <1>0, <1>2, <1>7
    <3>2. ~ (Active(s) /\ Pending(s))
      <4> SUFFICES ASSUME Active(s), Pending(s) PROVE FALSE
        OBVIOUS
      <4>1. child[s] = "opening" /\ (stage[s] = "display" => Protos(s[1]) = {})
        BY <1>2 DEF PendingClear, Active
      <4>2. stage[s] = "display"
        BY <1>2, <4>1 DEF Sessions, NoStrayProcess
      <4>3. QED
        BY <1>2, <2>3, <4>1, <4>2 DEF Displays, Of
    <3> HIDE DEF s, r
    <3>3. net' \subseteq net \cup {r}
      BY <1>0, <2>3, ConsumeNet
    <3>4. \A e \in net' : /\ e.type \in {"REQUEST", "ACCEPT", "MANAGE"} => e \in net
                          /\ e.type = "REFUSE" => e \in net \/ e = r
      BY <1>4, <3>3
    <3>5. OneOffer' /\ KeysKnown' /\ GhostsGone'
      BY <1>0, <2>1, <3>4 DEF OneOffer, Offers, KeysKnown, GhostsGone
    <3>6. \A t : Pending(t)' => Pending(t)
      BY <1>0, <3>4 DEF Pending
    <3>7. PendingClear'
      BY <2>1, <3>6 DEF PendingClear, Protos, Of
    <3>8. RefusedDead'
      BY <1>4, <2>1, <3>1, <3>2, <3>4, <3>6 DEF RefusedDead, Active
    <3>9. ArmedGranted'
      BY <1>0, <2>1 DEF ArmedGranted, Armed, Admitted, Active
    <3>10. QED
      BY <3>5, <3>7, <3>8, <3>9
  <2>4. QED
    BY <1>3, <1>7, <2>2, <2>3 DEF Manage, StartSession, FailSession, TurnDown
<1>8. QED
  BY <1>6, <1>7

LEMMA QueryOffer ==
    ASSUME TypeInv, OfferInv, NEW m \in Manager, NEW d \in net, QueryRespond(d, m),
           UNCHANGED server
    PROVE  OfferInv'
<1>0. /\ TypeOK /\ dups \in Nat
      /\ UNCHANGED <<state, manager, SessionID, auth, key, stage, child>>
  BY DEF TypeInv, TypeOK, server, QueryRespond, xdm
<1>1. Consume(d, {}) \/ \E t \in {"WILLING", "UNWILLING"} : Consume(d, {Datagram(t, m)})
  BY DEF QueryRespond
<1>2. \A t \in {"WILLING", "UNWILLING"} :
         Datagram(t, m).type \notin {"REQUEST", "ACCEPT", "MANAGE", "REFUSE"}
  BY DEF Datagram
<1>3. CASE Consume(d, {})
  BY <1>0, <1>3, ConsumeNet, OfferKept
<1>4. ASSUME NEW x, x.type \notin {"REQUEST", "ACCEPT", "MANAGE", "REFUSE"}, Consume(d, {x})
      PROVE  OfferInv'
  <2>1. net' \subseteq net \cup {x}
    BY <1>0, <1>4, ConsumeNet
  <2>2. \A e \in net' : e.type \in {"REQUEST", "ACCEPT", "MANAGE", "REFUSE"} => e \in net
    BY <1>4, <2>1
  <2>3. QED
    BY <1>0, <2>2, OfferKept
<1>5. QED
  BY <1>1, <1>2, <1>3, <1>4

(***************************************************************************)
(* Both ways together                                                      *)
(***************************************************************************)
LEMMA OpensInTime ==
    ASSUME OneLogin \/ OfferInv, CleanReset, NEW s \in Session, ChildOpens(s)
    PROVE  state \in {"AWAIT_MANAGE_RESPONSE", "RUN_SESSION"}
<1>1. Active(s) /\ Admitted(s) /\ state # "INIT"
  BY DEF ChildOpens, OpenDisplay, Up, CleanReset, Active
<1>2. CASE OneLogin
  BY <1>1, <1>2 DEF OneLogin
<1>3. CASE OfferInv
  BY <1>1, <1>3 DEF OfferInv, ArmedGranted, Armed
<1>4. QED
  BY <1>2, <1>3

LEMMA CleanKept ==
    ASSUME TypeInv, CleanReset, OneLogin \/ OfferInv, [Next]_vars, state' # "OFF",
           LocalOpens => state \in {"AWAIT_MANAGE_RESPONSE", "RUN_SESSION"}
    PROVE  CleanReset'
<1>1. CASE UNCHANGED <<state, sessionSocket, conns, exception>>
  BY <1>1 DEF CleanReset
<1>2. CASE ReceivePacket
  <2>1. PICK d \in net : RecvWilling(d) \/ RecvAccept(d) \/ RecvRefuse(d)
                             \/ RecvFailed(d) \/ RecvRejection(d)
    BY <1>2 DEF ReceivePacket
  <2>2. CASE Ignore(d)
    BY <1>1, <2>2 DEF Ignore, server
  <2>3. CASE /\ state # "RUN_SESSION" /\ state' \notin {"RUN_SESSION", "INIT"}
             /\ UNCHANGED <<conns, exception>>
    BY <1>2, <2>3 DEF ReceivePacket, Up, CleanReset
  <2>4. ASSUME NEW m, SendRequest(d, m), state # "RUN_SESSION" PROVE CleanReset'
    BY <2>3, <2>4, SendRequestDoes
  <2>5. CASE RecvWilling(d)
    BY <2>2, <2>4, <2>5 DEF RecvWilling
  <2>6. CASE RecvAccept(d)
    BY <2>2, <2>3, <2>6 DEF RecvAccept
  <2>7. CASE RecvRefuse(d)
    BY <2>2, <2>4, <2>7 DEF RecvRefuse, Matches
  <2>8. CASE RecvFailed(d)
    BY <2>2, <2>8 DEF RecvFailed, Fatal
  <2>9. QED
    BY <2>1, <2>5, <2>6, <2>7, <2>8, RejectionEnds
<1>3. ASSUME NEW c, OpenDisplay(c), state \in {"AWAIT_MANAGE_RESPONSE", "RUN_SESSION"}
      PROVE  CleanReset'
  BY <1>3 DEF OpenDisplay, CleanReset, Up
<1>4. ASSUME NEW c, CloseDown(c) PROVE CleanReset'
  BY <1>4, NullAssumption DEF CloseDown, CleanReset, Up
<1>5. CASE Reset
  BY <1>5 DEF Reset, CleanReset
<1>6. CASE Terminate
  BY <1>6 DEF Terminate
<1>7. CASE NoticeClose \/ LocalCloses
  BY <1>4, <1>7 DEF NoticeClose, LocalCloses
<1>8. CASE LocalOpens
  BY <1>3, <1>8 DEF LocalOpens
<1>9. ASSUME NEW s \in Session, ChildOpens(s) PROVE CleanReset'
  <2>1. OpenDisplay(s)
    BY <1>9 DEF ChildOpens
  <2>2. QED
    BY <1>3, <1>9, <2>1, OpensInTime
<1>10. ASSUME NEW s \in Session, ChildFails(s) \/ StoppedEnds(s) \/ ChildExits(s) \/ WaitForChild(s)
       PROVE  CleanReset'
  BY <1>1, <1>10 DEF ChildFails, StoppedEnds, ChildExits, WaitForChild, server
<1>11. CASE \/ ProcessRequestSocket \/ ExpireProto \/ Lose \/ UNCHANGED vars
            \/ \E m \in Manager : Crash(m)
  BY <1>1, <1>11 DEF ProcessRequestSocket, ExpireProto, Lose, Crash, vars, server
<1>12. QED
  BY <1>2, <1>5, <1>6, <1>7, <1>8, <1>9, <1>10, <1>11
     DEF Next, ServerStep, ManagerStep, SessionStep

LEMMA GrantedKept ==
    ASSUME TypeInv, Granted, OneLogin \/ OfferInv, [Next]_vars
    PROVE  Granted'
<1> SUFFICES ASSUME state' = "RUN_SESSION", sessionSocket' \in Session
             PROVE  sessionSocket' = SessionID'
  BY DEF Granted
<1>1. CASE UNCHANGED <<state, sessionSocket, SessionID>>
  BY <1>1 DEF Granted
<1>2. CASE ReceivePacket
  <2>1. PICK d \in net : RecvWilling(d) \/ RecvAccept(d) \/ RecvRefuse(d)
                             \/ RecvFailed(d) \/ RecvRejection(d)
    BY <1>2 DEF ReceivePacket
  <2>2. \A m : ~ SendRequest(d, m)
    BY SendRequestDoes
  <2>3. Ignore(d)
    BY <2>1, <2>2, RejectionEnds
       DEF RecvWilling, RecvAccept, RecvRefuse, RecvFailed, Fatal
  <2>4. QED
    BY <1>1, <2>3 DEF Ignore, server
<1>3. ASSUME NEW c, OpenDisplay(c), c \in Session => c = SessionID \/ state = "RUN_SESSION"
      PROVE  sessionSocket' = SessionID'
  BY <1>3 DEF OpenDisplay, Granted
<1>4. ASSUME NEW c, CloseDown(c) PROVE sessionSocket' = SessionID'
  BY <1>4 DEF CloseDown, Granted
<1>5. CASE NoticeClose \/ LocalCloses
  BY <1>4, <1>5 DEF NoticeClose, LocalCloses
<1>6. CASE Reset \/ Terminate
  BY <1>6 DEF Reset, Terminate
<1>7. CASE LocalOpens
  BY <1>3, <1>7, LocalAssumption DEF LocalOpens
<1>8. ASSUME NEW s \in Session, ChildOpens(s) PROVE sessionSocket' = SessionID'
  <2>1. Active(s) /\ Admitted(s) /\ OpenDisplay(s)
    BY <1>8 DEF ChildOpens, Active
  <2>2. s = SessionID
    <3>1. CASE OneLogin
      BY <2>1, <3>1 DEF OneLogin
    <3>2. CASE OfferInv
      BY <2>1, <3>2 DEF OfferInv, ArmedGranted, Armed
    <3>3. QED
      BY <3>1, <3>2
  <2>3. QED
    BY <1>3, <2>1, <2>2
<1>9. ASSUME NEW s \in Session, ChildFails(s) \/ StoppedEnds(s) \/ ChildExits(s) \/ WaitForChild(s)
      PROVE  sessionSocket' = SessionID'
  BY <1>1, <1>9 DEF ChildFails, StoppedEnds, ChildExits, WaitForChild, server
<1>10. CASE \/ ProcessRequestSocket \/ ExpireProto \/ Lose \/ UNCHANGED vars
            \/ \E m \in Manager : Crash(m)
  BY <1>1, <1>10 DEF ProcessRequestSocket, ExpireProto, Lose, Crash, vars, server
<1>11. QED
  BY <1>2, <1>5, <1>6, <1>7, <1>8, <1>9, <1>10
     DEF Next, ServerStep, ManagerStep, SessionStep

LEMMA OffStays == ASSUME state = "OFF", [Next]_vars PROVE state' = "OFF"
BY DEF Next, ServerStep, ReceivePacket, NoticeClose, Reset, Terminate, ManagerStep,
       ProcessRequestSocket, WaitForChild, SessionStep, ChildOpens, ChildFails,
       StoppedEnds, ChildExits, LocalOpens, LocalCloses, ExpireProto, Crash, Lose, vars,
       server, OpenDisplay, CloseDown, Up

\* A step that reads no datagram.
LEMMA QuietStep ==
    ASSUME TypeInv, Sessions, state' # "OFF", [Next]_vars,
           ~ ReceivePacket, ~ ProcessRequestSocket
    PROVE  /\ OneLogin /\ (state = "AWAIT_MANAGE_RESPONSE" => ~ LocalOpens /\ ~ Reset)
                  => OneLogin'
           /\ OfferInv /\ (Reset => Offers = {}) => OfferInv'
           /\ dups' = dups /\ (LocalOpens \/ locals' = locals)
<1>1. ASSUME NEW s \in Session, \/ ChildOpens(s) \/ ChildFails(s) \/ StoppedEnds(s)
                                \/ ChildExits(s) \/ WaitForChild(s)
      PROVE  (OneLogin => OneLogin') /\ (OfferInv => OfferInv') /\ dups' = dups /\ locals' = locals
  <2>1. (OneLogin => OneLogin') /\ (OfferInv => OfferInv')
    BY <1>1, SessionLogin, SessionOffer
  <2>2. dups' = dups /\ locals' = locals
    BY <1>1 DEF ChildOpens, ChildFails, StoppedEnds, ChildExits, WaitForChild, bounds
  <2>3. QED
    BY <2>1, <2>2
<1>2. CASE NoticeClose \/ LocalOpens \/ LocalCloses \/ ExpireProto \/ Lose
               \/ (\E m \in Manager : Crash(m)) \/ UNCHANGED vars
  <2>1. dups' = dups /\ (LocalOpens \/ locals' = locals)
    BY <1>2 DEF NoticeClose, LocalOpens, LocalCloses, ExpireProto, Crash, Lose, vars, bounds
  <2>2. OfferInv => OfferInv'
    BY <1>2, OtherOffer
  <2>3. OneLogin /\ (state = "AWAIT_MANAGE_RESPONSE" => ~ LocalOpens /\ ~ Reset) => OneLogin'
    BY <1>2, OtherLogin
  <2>4. QED
    BY <2>1, <2>2, <2>3
<1>3. CASE Reset
  <2>1. dups' = dups /\ locals' = locals
    BY <1>3 DEF Reset, bounds
  <2>2. OfferInv /\ Offers = {} => OfferInv'
    BY <1>3, ResetOffer
  <2>3. OneLogin /\ state # "AWAIT_MANAGE_RESPONSE" => OneLogin'
    BY <1>3, OtherLogin
  <2>4. QED
    BY <1>3, <2>1, <2>2, <2>3
<1>4. CASE Terminate
  BY <1>4 DEF Terminate
<1>5. QED
  BY <1>1, <1>2, <1>3, <1>4 DEF Next, ServerStep, ManagerStep, SessionStep

\* A step that reads one: to repeat it defeats one way only.
LEMMA DatagramStep ==
    ASSUME TypeInv, Sessions, state' # "OFF", ReceivePacket \/ ProcessRequestSocket
    PROVE  /\ locals' = locals
           /\ OneLogin /\ dups' = dups => OneLogin'
           /\ OfferInv /\ dups' = dups => OfferInv'
           /\ OneLogin /\ OfferInv => OneLogin' \/ OfferInv'
<1>1. CASE ReceivePacket
  <2>1. PICK d \in net : RecvWilling(d) \/ RecvAccept(d) \/ RecvRefuse(d)
                             \/ RecvFailed(d) \/ RecvRejection(d)
    BY <1>1 DEF ReceivePacket
  <2>2. locals' = locals /\ UNCHANGED xdm /\ child' = child
    BY <1>1 DEF ReceivePacket, xdm
  <2>3. OneLogin /\ (d.type \in {"MANAGE", "REFUSE"} => dups' = dups) => OneLogin'
    BY <2>1, <2>2, RecvLogin
  <2>4. OfferInv /\ (d.type \in {"REQUEST", "ACCEPT"} => dups' = dups) => OfferInv'
    BY <2>1, <2>2, RecvOffer
  <2>5. QED
    BY <2>2, <2>3, <2>4
<1>2. CASE ProcessRequestSocket
  <2>1. PICK m \in Manager, d \in net :
            QueryRespond(d, m) \/ RequestRespond(d, m) \/ Manage(d, m)
    BY <1>2 DEF ProcessRequestSocket
  <2>2. locals' = locals /\ UNCHANGED server
    BY <1>2 DEF ProcessRequestSocket
  <2>3. OneLogin /\ (d.type \in {"MANAGE", "REFUSE"} => dups' = dups) => OneLogin'
    BY <2>1, <2>2, ManagerLogin
  <2>4. OfferInv /\ (d.type \in {"REQUEST", "ACCEPT"} => dups' = dups) => OfferInv'
    <3>1. RequestRespond(d, m) => d.type = "REQUEST"
      BY DEF RequestRespond, Datagram
    <3>2. QED
      BY <2>1, <2>2, <3>1, QueryOffer, RequestOffer, ManageOffer
  <2>5. QED
    BY <2>2, <2>3, <2>4
<1>3. QED
  BY <1>1, <1>2

LEMMA OneOfTwo ==
    ASSUME NEW a \in Nat, NEW b \in Nat, NEW p \in Nat, NEW q \in Nat,
           a <= p, b <= q, p + q <= 1
    PROVE  /\ a + b <= 1
           /\ a + b = 0 \/ (p = a /\ q = b)
           /\ p + q = 0 => a + b = 0 /\ p = a /\ q = b
OBVIOUS

LEMMA GrantInductive ==
    ASSUME TypeInv, TypeOK', Sessions, GrantInv, [Next]_vars
    PROVE  GrantInv'
<1> SUFFICES ASSUME dups' + locals' <= 1, state' # "OFF"
             PROVE  /\ Granted'
                    /\ dups' + locals' = 0 => OneLogin' /\ OfferInv' /\ CleanReset'
                    /\ \/ OneLogin' /\ OfferInv'
                       \/ CleanReset' /\ OneLogin'
                       \/ CleanReset' /\ OfferInv'
  BY DEF GrantInv
<1>1. state # "OFF"
  BY OffStays
<1>2. dups \in Nat /\ locals \in Nat /\ dups' \in Nat /\ locals' \in Nat
  BY DEF TypeInv, TypeOK
<1>3. dups <= dups' /\ locals <= locals'
  BY TroubleGrows DEF TypeInv
<1>4. /\ dups + locals <= 1
      /\ dups + locals = 0 \/ (dups' = dups /\ locals' = locals)
      /\ dups' + locals' = 0 => dups + locals = 0 /\ dups' = dups /\ locals' = locals
  <2>1. dups' + locals' <= 1
    OBVIOUS
  <2> DEFINE p == dups'
             q == locals'
  <2>2. p \in Nat /\ q \in Nat /\ dups <= p /\ locals <= q /\ p + q <= 1
    BY <1>2, <1>3, <2>1
  <2> HIDE DEF p, q
  <2>3. /\ dups + locals <= 1
        /\ dups + locals = 0 \/ (p = dups /\ q = locals)
        /\ p + q = 0 => dups + locals = 0 /\ p = dups /\ q = locals
    BY <1>2, <2>2, OneOfTwo
  <2>4. QED
    BY <2>3 DEF p, q
<1>5. /\ Granted
      /\ dups + locals = 0 => OneLogin /\ OfferInv /\ CleanReset
      /\ \/ OneLogin /\ OfferInv
         \/ CleanReset /\ OneLogin
         \/ CleanReset /\ OfferInv
  BY <1>1, <1>4 DEF GrantInv
<1>6. Granted'
  BY <1>5, GrantedKept
<1>7. CleanReset /\ ~ LocalOpens => CleanReset'
  BY <1>5, CleanKept
<1>8. ~ (LocalOpens /\ locals' = locals)
  BY <1>2 DEF LocalOpens
<1>9. CASE ReceivePacket \/ ProcessRequestSocket
  <2>1. /\ locals' = locals
        /\ OneLogin /\ dups' = dups => OneLogin'
        /\ OfferInv /\ dups' = dups => OfferInv'
        /\ OneLogin /\ OfferInv => OneLogin' \/ OfferInv'
    BY <1>9, DatagramStep
  <2>2. QED
    BY <1>4, <1>5, <1>6, <1>7, <1>8, <2>1
<1>10. CASE ~ (ReceivePacket \/ ProcessRequestSocket)
  <2>1. /\ OneLogin /\ (state = "AWAIT_MANAGE_RESPONSE" => ~ LocalOpens /\ ~ Reset) => OneLogin'
        /\ OfferInv /\ (Reset => Offers = {}) => OfferInv'
        /\ dups' = dups /\ (LocalOpens \/ locals' = locals)
    BY <1>10, QuietStep
  <2>2. CASE Reset
    <3>1. ~ LocalOpens
      BY <2>2 DEF Reset, LocalOpens, OpenDisplay, Up
    <3>2. CleanReset'
      BY <2>2 DEF Reset, CleanReset
    <3>3. OfferInv /\ state # "AWAIT_REQUEST_RESPONSE" => Offers = {}
      BY DEF OfferInv, OneOffer
    <3>4. CleanReset => state = "INIT"
      BY <2>2, NullAssumption DEF Reset, CleanReset
    <3>5. QED
      BY <1>4, <1>5, <1>6, <2>1, <3>1, <3>2, <3>3, <3>4
  <2>3. CASE LocalOpens
    <3>1. dups + locals = 0 /\ dups' + locals' # 0 /\ ~ Reset
      BY <1>4, <1>8, <2>3 DEF Reset, LocalOpens, OpenDisplay, Up
    <3>2. state = "AWAIT_MANAGE_RESPONSE" => CleanReset'
      BY <1>5, <3>1, CleanKept
    <3>3. QED
      BY <1>5, <1>6, <2>1, <3>1, <3>2
  <2>4. CASE ~ Reset /\ ~ LocalOpens
    BY <1>4, <1>5, <1>6, <1>7, <2>1, <2>4
  <2>5. QED
    BY <2>2, <2>3, <2>4
<1>11. QED
  BY <1>9, <1>10

THEOREM GrantInvariant == Spec => []GrantInv
<1>1. Init => GrantInv
  <2> SUFFICES ASSUME Init PROVE Granted /\ OneLogin /\ OfferInv /\ CleanReset
    BY DEF GrantInv
  <2>1. \A d \in net : d.type = "QUERY"
    BY DEF Init, Queries, Datagram
  <2>2. /\ state = "COLLECT" /\ auth = {} /\ conns = {} /\ exception = NULL
        /\ \A s \in Session : child[s] = "none"
    BY DEF Init
  <2>3. Granted /\ CleanReset
    BY <2>2 DEF Granted, CleanReset
  <2>4. OneLogin
    BY <2>1, <2>2 DEF OneLogin, Engaged, Active
  <2>5. \A s : ~ Pending(s)
    BY <2>1, <2>2 DEF Pending
  <2>6. OfferInv
    BY <2>1, <2>2, <2>5 DEF OfferInv, OneOffer, Offers, KeysKnown, GhostsGone, PendingClear,
                            RefusedDead, ArmedGranted, Armed, Admitted
  <2>7. QED
    BY <2>3, <2>4, <2>6
<1>2. TypeInv => TypeOK
  BY DEF TypeInv
<1>3. QED
  BY <1>1, <1>2, GrantInductive, XdmcpTypeCorrect, SessionsSafe, PTL DEF Spec, Sessions

\* Whatever is lost or fails, and with one repeated datagram or one other client, the
\* connection that the server takes for its session is not one of another session id.
THEOREM RunsGranted == Spec => []RunsTheGrantedSession
<1>1. GrantInv => RunsTheGrantedSession
  BY DEF GrantInv, Granted, RunsTheGrantedSession
<1>2. QED
  BY <1>1, GrantInvariant, PTL

(***************************************************************************)
(* One session on the server                                               *)
(***************************************************************************)
\* A connection of a session is that of the granted one, and it is there only while
\* the session runs or the server is about to reset.
ConnInv ==
    /\ state = "OFF" => conns = {}
    /\ state = "INIT" => exception # NULL
    /\ dups + locals <= 1 =>
           \A s \in Session \cap conns : s = SessionID /\ state \in {"RUN_SESSION", "INIT"}

LEMMA TroubleBefore ==
    ASSUME TypeOK, TypeOK', [Next]_vars, dups' + locals' <= 1
    PROVE  dups + locals <= 1
<1> DEFINE p == dups'
           q == locals'
<1>1. dups \in Nat /\ locals \in Nat /\ p \in Nat /\ q \in Nat
  BY DEF TypeOK
<1>2. dups <= p /\ locals <= q
  BY TroubleGrows
<1>3. p + q <= 1
  OBVIOUS
<1> HIDE DEF p, q
<1>4. QED
  BY <1>1, <1>2, <1>3, OneOfTwo

LEMMA ConnInductive ==
    ASSUME TypeInv, TypeOK', GrantInv, ConnInv, [Next]_vars
    PROVE  ConnInv'
<1> DEFINE Few  == dups + locals <= 1
           Held == \A s \in Session \cap conns :
                       s = SessionID /\ state \in {"RUN_SESSION", "INIT"}
<1>1. Few' => Few
  BY TroubleBefore DEF TypeInv
<1>2. /\ state = "OFF" => conns = {}
      /\ state = "INIT" => exception # NULL
      /\ Few => Held
  BY DEF ConnInv
<1>3. Few /\ state # "OFF" => OneLogin \/ OfferInv
  BY DEF GrantInv
<1> HIDE DEF Few
<1> SUFFICES /\ state' = "OFF" => conns' = {}
             /\ state' = "INIT" => exception' # NULL
             /\ Few => Held'
  BY <1>1 DEF ConnInv, Few
<1> DEFINE Good == /\ state' = "OFF" => conns' = {}
                   /\ state' = "INIT" => exception' # NULL
                   /\ Few => Held'
<1>4. CASE UNCHANGED <<state, SessionID, conns, exception>>
  BY <1>2, <1>4
<1>5. CASE ReceivePacket
  <2>1. PICK d \in net : RecvWilling(d) \/ RecvAccept(d) \/ RecvRefuse(d)
                             \/ RecvFailed(d) \/ RecvRejection(d)
    BY <1>5 DEF ReceivePacket
  <2>2. CASE Ignore(d)
    BY <1>4, <2>2 DEF Ignore, server
  <2>3. CASE Fatal(d)
    BY <2>3 DEF Fatal
  <2>4. CASE /\ state \notin {"RUN_SESSION", "INIT"} /\ state' \notin {"INIT", "OFF"}
             /\ conns' = conns
    BY <1>2, <2>4
  <2>5. ASSUME NEW m, SendRequest(d, m), state \in {"COLLECT", "AWAIT_MANAGE_RESPONSE"}
        PROVE  Good
    BY <2>4, <2>5, SendRequestDoes
  <2>6. CASE RecvWilling(d)
    BY <2>2, <2>5, <2>6 DEF RecvWilling
  <2>7. CASE RecvAccept(d)
    BY <2>2, <2>4, <2>7 DEF RecvAccept
  <2>8. CASE RecvRefuse(d)
    BY <2>2, <2>5, <2>8 DEF RecvRefuse, Matches
  <2>9. CASE RecvFailed(d) \/ RecvRejection(d)
    BY <2>2, <2>3, <2>9 DEF RecvFailed, RecvRejection
  <2>10. QED
    BY <2>1, <2>6, <2>7, <2>8, <2>9
<1>6. ASSUME NEW c, OpenDisplay(c),
             Few /\ c \in Session =>
                 c = SessionID /\ state \in {"AWAIT_MANAGE_RESPONSE", "RUN_SESSION"}
      PROVE  Good
  <2>1. /\ state # "OFF" /\ state # "INIT"
        /\ conns' = conns \cup {c} /\ SessionID' = SessionID
        /\ IF state = "AWAIT_MANAGE_RESPONSE" THEN state' = "RUN_SESSION" ELSE state' = state
    BY <1>2, <1>6 DEF OpenDisplay, Up
  <2>2. QED
    BY <1>2, <1>6, <2>1
<1>7. ASSUME NEW c, CloseDown(c) PROVE Good
  <2>1. /\ state \notin {"OFF", "INIT"}
        /\ conns' \subseteq conns /\ SessionID' = SessionID
        /\ \/ state' = state
           \/ state = "RUN_SESSION" /\ state' = "INIT" /\ exception' \in {"TERMINATE", "RESET"}
    BY <1>2, <1>7 DEF CloseDown, Up
  <2>2. QED
    BY <1>2, <2>1, NullAssumption
<1>8. CASE Reset \/ Terminate
  BY <1>8 DEF Reset, Terminate
<1>9. CASE NoticeClose \/ LocalCloses
  BY <1>7, <1>9 DEF NoticeClose, LocalCloses
<1>10. CASE LocalOpens
  <2>1. PICK c \in Local : OpenDisplay(c)
    BY <1>10 DEF LocalOpens
  <2>2. QED
    BY <1>6, <2>1, LocalAssumption
<1>11. ASSUME NEW s \in Session, ChildOpens(s) PROVE Good
  <2>1. Active(s) /\ Admitted(s) /\ OpenDisplay(s) /\ state # "OFF" /\ state # "INIT"
    BY <1>2, <1>11 DEF ChildOpens, OpenDisplay, Up, Active
  <2>2. Few => s = SessionID /\ state \in {"AWAIT_MANAGE_RESPONSE", "RUN_SESSION"}
    <3>1. CASE OneLogin
      BY <2>1, <3>1 DEF OneLogin
    <3>2. CASE OfferInv
      BY <2>1, <3>2 DEF OfferInv, ArmedGranted, Armed
    <3>3. QED
      BY <1>3, <2>1, <3>1, <3>2
  <2>3. QED
    BY <1>6, <2>1, <2>2
<1>12. ASSUME NEW s \in Session,
              ChildFails(s) \/ StoppedEnds(s) \/ ChildExits(s) \/ WaitForChild(s)
       PROVE  Good
  BY <1>4, <1>12 DEF ChildFails, StoppedEnds, ChildExits, WaitForChild, server
<1>13. CASE \/ ProcessRequestSocket \/ ExpireProto \/ Lose \/ UNCHANGED vars
            \/ \E m \in Manager : Crash(m)
  BY <1>4, <1>13 DEF ProcessRequestSocket, ExpireProto, Lose, Crash, vars, server
<1>14. QED
  BY <1>5, <1>8, <1>9, <1>10, <1>11, <1>12, <1>13
     DEF Next, ServerStep, ManagerStep, SessionStep

\* Although a manager does not wait for the process it stops, the server never has two
\* sessions connected, with one repeated datagram or one other client at most: another
\* one is admitted only after the reset that closes the first (dix/dispatch.c).
THEOREM OneConnected == Spec => []OneSessionConnected
<1>1. Init => ConnInv
  BY DEF Init, ConnInv
<1>2. TypeInv => TypeOK
  BY DEF TypeInv
<1>3. ConnInv => OneSessionConnected
  BY DEF ConnInv, OneSessionConnected
<1>4. QED
  BY <1>1, <1>2, <1>3, ConnInductive, GrantInvariant, XdmcpTypeCorrect, PTL DEF Spec

===============================================================================
