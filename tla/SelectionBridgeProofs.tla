------------------------ MODULE SelectionBridgeProofs ------------------------
(***************************************************************************)
(* What is proved of SelectionBridge for any clients, and any number of    *)
(* things they and Windows programs do.                                    *)
(***************************************************************************)
EXTENDS SelectionBridge, TLAPS

\* The parts of the type invariant
ServerType ==
    /\ owner \in [Sel -> Client \cup {Bridge, None}]
    /\ sOwners \in [Sel -> Client \cup {None}]
    /\ lastOwned \in Sel \cup {None}
    /\ lastDrawable \in {Bridge, None}
    /\ emptying \in Sel \cup {None}

WindowsType ==
    /\ winOwner \in {Bridge, App, None}
    /\ winData \in {"text", "other", "promise"}
    /\ appOpen \in BOOLEAN
    /\ draws \in Nat

ThreadType ==
    /\ pc \in PC
    /\ seen \in Client \cup {Bridge, None}
    /\ {joined, cbcInit, started} \subseteq BOOLEAN

XlibType ==
    /\ outBuf \in Seq(Request) /\ wire \in Seq(Request)
    /\ socket \subseteq Event /\ libq \subseteq Event

LastType ==
    /\ last \in [who : Client \cup {App, None}, what : Sel \cup {"text", "other"},
                 calm : BOOLEAN]
    /\ ops \in 0..MaxOps

LEMMA Parts == TypeOK <=> ServerType /\ WindowsType /\ ThreadType /\ XlibType /\ LastType
BY Zenon DEF TypeOK, ServerType, WindowsType, ThreadType, XlibType, LastType

LEMMA PartsNext ==
    TypeOK' <=> ServerType' /\ WindowsType' /\ ThreadType' /\ XlibType' /\ LastType'
BY Zenon DEF TypeOK, ServerType, WindowsType, ThreadType, XlibType, LastType

(***************************************************************************)
(* Requests                                                                *)
(***************************************************************************)
LEMMA OtherSel == \A s \in Sel : Other(s) \in Sel
<1> SUFFICES ASSUME NEW s \in Sel PROVE Other(s) \in Sel
  OBVIOUS
<1>1. \E t \in Sel : t # s
  BY DEF Sel
<1> QED
  BY <1>1 DEF Other

LEMMA RequestTypes ==
    /\ Answer \in Request
    /\ \A s \in Sel, w \in {Bridge, None} : Own(s, w) \in Request
    /\ \A r \in Request : r.kind = "own" => r.sel \in Sel /\ r.win \in {Bridge, None}
BY DEF Request, Answer, Own

LEMMA Concat ==
    ASSUME NEW s \in Seq(Request), NEW t \in Seq(Request)
    PROVE  s \o t \in Seq(Request)
OBVIOUS

LEMMA BothTypes == <<Own("PRIMARY", Bridge), Own("CLIPBOARD", Bridge)>> \in Seq(Request)
<1>1. Own("PRIMARY", Bridge) \in Request /\ Own("CLIPBOARD", Bridge) \in Request
  BY RequestTypes DEF Sel
<1> QED
  BY <1>1

LEMMA OneType ==
    ASSUME NEW r \in Request
    PROVE  <<r>> \in Seq(Request)
OBVIOUS

LEMMA DisowningType ==
    ASSUME NEW s \in Sel
    PROVE  Disowning(s) \in Seq(Request)
<1>1. Own(s, None) \in Request
  BY RequestTypes
<1>2. <<Own(s, None)>> \in Seq(Request) /\ <<>> \in Seq(Request)
  BY <1>1, OneType
<1> QED
  BY <1>2 DEF Disowning

(***************************************************************************)
(* The wrapper and ProcSetSelectionOwner                                   *)
(***************************************************************************)
LEMMA WrapTypes ==
    ASSUME ServerType, WindowsType, NEW s \in Sel,
           NEW w \in Client \cup {Bridge, None}, WrapSetOwner(s, w), UNCHANGED appOpen
    PROVE  /\ sOwners' \in [Sel -> Client \cup {None}]
           /\ lastOwned' \in Sel \cup {None}
           /\ WindowsType'
<1>1. Saved(s, w) \in [Sel -> Client \cup {None}]
  BY BridgeAssumption DEF ServerType, Saved
<1>2. sOwners' \in [Sel -> Client \cup {None}]
  BY <1>1 DEF WrapSetOwner, ServerType
<1>3. lastOwned' \in Sel \cup {None}
  BY OtherSel DEF WrapSetOwner, ServerType
<1>4. Notify \in Nat
  BY DEF Notify, WindowsType
<1>5. WindowsType'
  BY <1>4 DEF WrapSetOwner, WindowsType
<1> QED
  BY <1>2, <1>3, <1>5

LEMMA SetOwnerTypes ==
    ASSUME ServerType, XlibType, NEW c, NEW s \in Sel,
           NEW w \in Client \cup {Bridge, None}, SetOwner(c, s, w)
    PROVE  owner' \in [Sel -> Client \cup {Bridge, None}] /\ socket' \subseteq Event
BY DEF SetOwner, ServerType, XlibType, Event

\* What the dispatcher does of a request keeps the types of what it changes.
LEMMA ServeTypes ==
    ASSUME ServerType, WindowsType, XlibType, NEW c, NEW s \in Sel,
           NEW w \in Client \cup {Bridge, None}, ServeSetOwner(c, s, w),
           UNCHANGED appOpen, lastDrawable' \in {Bridge, None}
    PROVE  ServerType' /\ WindowsType' /\ socket' \subseteq Event
<1>1. /\ sOwners' \in [Sel -> Client \cup {None}]
      /\ lastOwned' \in Sel \cup {None}
      /\ WindowsType'
  BY WrapTypes DEF ServeSetOwner
<1>2. CASE Releases(c, s, w)
  BY <1>1, <1>2 DEF ServeSetOwner, ServerType, XlibType
<1>3. CASE ~Releases(c, s, w)
  BY <1>1, <1>3, SetOwnerTypes DEF ServeSetOwner, ServerType
<1> QED
  BY <1>2, <1>3

LEMMA RequestKeepsTypes ==
    ASSUME TypeOK, NEW c, NEW s \in Sel, NEW w \in Client \cup {Bridge, None},
           ServeSetOwner(c, s, w),
           UNCHANGED <<lastDrawable, appOpen, outBuf, wire, libq, thread>>, LastType'
    PROVE  TypeOK'
<1>1. ServerType /\ WindowsType /\ ThreadType /\ XlibType /\ LastType
  BY Parts
<1>2. ServerType' /\ WindowsType' /\ socket' \subseteq Event
  BY <1>1, ServeTypes DEF ServerType
<1>3. XlibType'
  BY <1>1, <1>2 DEF XlibType
<1>4. ThreadType'
  BY <1>1 DEF ThreadType, thread
<1> QED
  BY <1>2, <1>3, <1>4, PartsNext

LEMMA EmptyTypes ==
    ASSUME TypeOK, EmptyAndRelease
    PROVE  TypeOK'
<1> USE Parts, PartsNext
<1>1. emptying \in Sel /\ SetOwner(None, emptying, None)
  BY DEF EmptyAndRelease, ServerType
<1>2. owner' \in [Sel -> Client \cup {Bridge, None}] /\ socket' \subseteq Event
  BY <1>1, SetOwnerTypes
<1>3. ServerType' /\ XlibType' /\ ThreadType' /\ LastType'
  BY <1>2 DEF EmptyAndRelease, ServerType, XlibType, ThreadType, thread, LastType
<1>4. WindowsType'
  BY DEF EmptyAndRelease, WindowsType, Notify
<1> QED
  BY <1>3, <1>4

Copy == [who : Client \cup {App, None}, what : Sel \cup {"text", "other"}, calm : BOOLEAN]

LEMMA NobodyType == Nobody \in Copy
BY DEF Nobody, Copy

LEMMA CopyType ==
    ASSUME NEW w \in Client \cup {App}, NEW d \in Sel \cup {"text", "other"}
    PROVE  [who |-> w, what |-> d, calm |-> Quiet] \in Copy
<1>1. Quiet \in BOOLEAN
  BY Zenon DEF Quiet
<1> QED
  BY <1>1 DEF Copy

\* The bound on what clients and programs do holds.
LEMMA ActTypes ==
    ASSUME LastType, Act, last' \in Copy
    PROVE  LastType'
BY BridgeAssumption DEF LastType, Act, Copy

LEMMA ClaimTypes ==
    ASSUME TypeOK, NEW c \in Client, NEW s \in Sel, Claim(c, s)
    PROVE  TypeOK'
<1>1. LastType'
  BY Parts, CopyType, NobodyType, ActTypes DEF Claim
<1> QED
  BY <1>1, RequestKeepsTypes DEF Claim

LEMMA DisownTypes ==
    ASSUME TypeOK, NEW c \in Client, NEW s \in Sel, Disown(c, s)
    PROVE  TypeOK'
<1>1. LastType'
  <2>1. last \in Copy
    BY Parts DEF LastType, Copy
  <2> QED
    BY <2>1, Parts, NobodyType, ActTypes DEF Disown
<1> QED
  BY <1>1, RequestKeepsTypes DEF Disown

LEMMA ClaimTooLateTypes ==
    ASSUME TypeOK, NEW c \in Client, NEW s \in Sel, ClaimTooLate(c, s)
    PROVE  TypeOK'
<1>1. LastType'
  BY Parts, NobodyType, ActTypes DEF ClaimTooLate
<1>2. ServerType' /\ WindowsType'
  BY Parts, WrapTypes DEF ClaimTooLate, ServerType
<1>3. ThreadType' /\ XlibType'
  BY Parts DEF ClaimTooLate, thread, xlib, ThreadType, XlibType
<1> QED
  BY <1>1, <1>2, <1>3, PartsNext

LEMMA ServeBridgeTypes ==
    ASSUME TypeOK, ServeBridge
    PROVE  TypeOK'
<1> DEFINE r == Head(wire)
<1>1. r \in Request /\ wire' \in Seq(Request)
  BY Parts DEF ServeBridge, XlibType
<1>2. UNCHANGED <<appOpen, outBuf, libq, pc, seen, joined, cbcInit, started, last, ops>>
  BY DEF ServeBridge, thread
<1>3. ThreadType' /\ LastType'
  BY <1>2, Parts DEF ThreadType, LastType
<1>4. CASE r.kind = "own"
  <2>1. /\ ServeSetOwner(Bridge, r.sel, r.win)
        /\ lastDrawable' = IF r.win = Bridge THEN Bridge ELSE lastDrawable
    BY <1>4 DEF ServeBridge
  <2>2. r.sel \in Sel /\ r.win \in {Bridge, None}
    BY <1>1, <1>4, RequestTypes
  <2>3. ServerType' /\ WindowsType' /\ socket' \subseteq Event
    BY <1>2, <2>1, <2>2, Parts, ServeTypes DEF ServerType
  <2>4. XlibType'
    BY <1>1, <1>2, <2>3, Parts DEF XlibType
  <2> QED
    BY <1>3, <2>3, <2>4, PartsNext
<1>5. CASE r.kind # "own"
  <2>1. ServerType' /\ WindowsType' /\ XlibType'
    BY <1>1, <1>2, <1>5, Parts DEF ServeBridge, ServerType, WindowsType, XlibType
  <2> QED
    BY <1>3, <2>1, PartsNext
<1> QED
  BY <1>4, <1>5

\* What clients and programs do to everything but the owner
LEMMA OthersTypes ==
    ASSUME TypeOK,
           \/ \E c \in Client : Vanish(c)
           \/ \E s \in Sel : Paste(s)
           \/ RootEvent
           \/ \E o \in {App, None}, d \in {"text", "other"} : AppCopy(o, d)
           \/ AppOpen \/ AppClose
    PROVE  TypeOK'
<1> USE Parts, PartsNext
<1>1. ASSUME NEW c \in Client, Vanish(c) PROVE TypeOK'
  <2>1. ServerType' /\ WindowsType' /\ ThreadType' /\ XlibType'
    BY <1>1 DEF Vanish, ServerType, WindowsType, windows, ThreadType, thread, XlibType, xlib
  <2>2. LastType'
    BY <1>1, NobodyType, ActTypes DEF Vanish, LastType, Copy
  <2> QED
    BY <2>1, <2>2
<1>2. ASSUME RootEvent \/ \E s \in Sel : Paste(s) PROVE TypeOK'
  <2>1. ServerType' /\ WindowsType' /\ ThreadType'
    BY <1>2 DEF RootEvent, Paste, ServerType, server, WindowsType, windows, ThreadType, thread
  <2>2. XlibType'
    BY <1>2 DEF RootEvent, Paste, XlibType, Event
  <2>3. LastType'
    BY <1>2, ActTypes DEF RootEvent, Paste, LastType, Copy
  <2> QED
    BY <2>1, <2>2, <2>3
<1>3. ASSUME NEW o \in {App, None}, NEW d \in {"text", "other"}, AppCopy(o, d) PROVE TypeOK'
  <2>1. ServerType' /\ ThreadType' /\ XlibType'
    BY <1>3 DEF AppCopy, ServerType, server, ThreadType, thread, XlibType, xlib
  <2>2. WindowsType'
    BY <1>3 DEF AppCopy, WindowsType, Notify
  <2>3. LastType'
    BY <1>3, CopyType, NobodyType, ActTypes DEF AppCopy
  <2> QED
    BY <2>1, <2>2, <2>3
<1>4. ASSUME AppOpen \/ AppClose PROVE TypeOK'
  <2>1. ServerType' /\ ThreadType' /\ XlibType' /\ WindowsType'
    BY <1>4 DEF AppOpen, AppClose, ServerType, server, ThreadType, thread, XlibType, xlib,
                WindowsType
  <2>2. LastType'
    BY <1>4, ActTypes DEF AppOpen, AppClose, LastType, Copy
  <2> QED
    BY <2>1, <2>2
<1> QED
  BY <1>1, <1>2, <1>3, <1>4

LEMMA ThreadStepTypes ==
    ASSUME TypeOK, ThreadStep
    PROVE  TypeOK'
<1> USE Parts, PartsNext
<1>1. ServerType' /\ LastType'
  BY DEF ThreadStep, CreateWindow, AssertOwners, Start, FlushXEvents, Draw, DrawText,
         DrawOther, Sync, GetOwnerP, GetOwnerC, RoundTrip, ReleaseP, ReleaseC,
         ServerType, server, LastType
<1>2. WindowsType'
  BY DEF ThreadStep, CreateWindow, AssertOwners, Start, FlushXEvents, Draw, DrawText,
         DrawOther, Sync, GetOwnerP, GetOwnerC, RoundTrip, ReleaseP, ReleaseC,
         WindowsType, windows
<1>3. pc' \in PC
  BY DEF ThreadStep, CreateWindow, AssertOwners, Start, FlushXEvents, Draw, DrawText,
         DrawOther, Sync, GetOwnerP, GetOwnerC, RoundTrip, ReleaseP, ReleaseC, Goto,
         ThreadType, thread, PC
<1>4. seen' \in Client \cup {Bridge, None}
  <2>1. owner["PRIMARY"] \in Client \cup {Bridge, None}
        /\ owner["CLIPBOARD"] \in Client \cup {Bridge, None}
    BY DEF ServerType, Sel
  <2> QED
    BY <2>1 DEF ThreadStep, CreateWindow, AssertOwners, Start, FlushXEvents, Draw, DrawText,
         DrawOther, Sync, GetOwnerP, GetOwnerC, RoundTrip, ReleaseP, ReleaseC,
         ThreadType, thread
<1>5. {joined', cbcInit', started'} \subseteq BOOLEAN
  BY DEF ThreadStep, CreateWindow, AssertOwners, Start, FlushXEvents, Draw, DrawText,
         DrawOther, Sync, GetOwnerP, GetOwnerC, RoundTrip, ReleaseP, ReleaseC,
         ThreadType, thread
<1>6. socket' \subseteq Event /\ libq' \subseteq Event
  BY DEF ThreadStep, CreateWindow, AssertOwners, Start, FlushXEvents, Draw, DrawText,
         DrawOther, Sync, GetOwnerP, GetOwnerC, RoundTrip, ReleaseP, ReleaseC,
         XlibType, xlib
<1>7. outBuf' \in Seq(Request) /\ wire' \in Seq(Request)
  <2>1. wire \in Seq(Request) /\ outBuf \in Seq(Request) /\ <<>> \in Seq(Request)
        /\ wire \o outBuf \in Seq(Request)
    BY DEF XlibType
  <2>2. ASSUME CreateWindow \/ Start \/ Draw \/ Sync \/ GetOwnerP \/ GetOwnerC
        PROVE  UNCHANGED <<outBuf, wire>>
    BY <2>2 DEF CreateWindow, Start, Draw, Sync, GetOwnerP, GetOwnerC, RoundTrip, xlib
  <2>3. ASSUME AssertOwners \/ DrawText \/ DrawOther
        PROVE  outBuf' \in Seq(Request) /\ wire' \in Seq(Request)
    <3>1. outBuf' \in {outBuf, <<>>}
      BY <2>3 DEF AssertOwners, DrawText, DrawOther
    <3>2. wire \o <<Own("PRIMARY", Bridge), Own("CLIPBOARD", Bridge)>> \in Seq(Request)
      BY <2>1, BothTypes, Concat
    <3>3. (wire \o outBuf) \o <<Own("PRIMARY", Bridge), Own("CLIPBOARD", Bridge)>> \in Seq(Request)
      BY <2>1, BothTypes, Concat
    <3> QED
      BY <2>1, <2>3, <3>1, <3>2, <3>3 DEF AssertOwners, DrawText, DrawOther
  <2>4. ASSUME FlushXEvents
        PROVE  outBuf' \in Seq(Request) /\ wire' \in Seq(Request)
    <3>1. <<Answer>> \in Seq(Request)
      BY RequestTypes, OneType
    <3>2. (wire \o outBuf) \o <<Answer>> \in Seq(Request)
          /\ (wire \o outBuf) \o <<>> \in Seq(Request)
      BY <2>1, <3>1, Concat
    <3> QED
      BY <2>1, <2>4, <3>2 DEF FlushXEvents
  <2>5. ASSUME ReleaseP \/ ReleaseC
        PROVE  outBuf' \in Seq(Request) /\ wire' \in Seq(Request)
    <3>1. wire \o Disowning("PRIMARY") \in Seq(Request)
          /\ outBuf \o Disowning("CLIPBOARD") \in Seq(Request)
      BY <2>1, DisowningType, Concat DEF Sel
    <3> QED
      BY <2>1, <2>5, <3>1 DEF ReleaseP, ReleaseC
  <2> QED
    BY <2>1, <2>2, <2>3, <2>4, <2>5 DEF ThreadStep
<1> QED
  BY <1>1, <1>2, <1>3, <1>4, <1>5, <1>6, <1>7 DEF ThreadType, XlibType

(***************************************************************************)
(* Theorems                                                                *)
(***************************************************************************)
\* Every reachable state of server, clipboard and thread is well typed, for any
\* clients and however much happens.
THEOREM TypeCorrect == Spec => []TypeOK
<1>1. Init => TypeOK
  <2> SUFFICES ASSUME Init PROVE TypeOK
    OBVIOUS
  <2>1. ServerType /\ WindowsType /\ ThreadType
    BY DEF Init, ServerType, WindowsType, ThreadType, PC
  <2>2. XlibType
    BY DEF Init, XlibType
  <2>3. LastType
    BY NobodyType, BridgeAssumption DEF Init, LastType, Copy
  <2> QED
    BY <2>1, <2>2, <2>3, Parts
<1>2. TypeOK /\ [Next]_vars => TypeOK'
  <2> SUFFICES ASSUME TypeOK, [Next]_vars PROVE TypeOK'
    OBVIOUS
  <2>1. CASE ServerStep
    BY <2>1, ServeBridgeTypes, EmptyTypes DEF ServerStep
  <2>2. CASE ThreadStep
    BY <2>2, ThreadStepTypes
  <2>3. CASE Environment
    BY <2>3, ClaimTypes, DisownTypes, ClaimTooLateTypes, OthersTypes DEF Environment
  <2>4. CASE AppClose
    BY <2>4, OthersTypes
  <2>5. CASE UNCHANGED vars
    BY <2>5 DEF vars, server, windows, xlib, thread, TypeOK
  <2> QED
    BY <2>1, <2>2, <2>3, <2>4, <2>5 DEF Next
<1> QED
  BY <1>1, <1>2, PTL DEF Spec

\* Only a client's own request makes the wrapper take the Windows clipboard: those
\* of the bridge name its own window or none, and no wrapper sends it any.
THEOREM NoEchoCorrect == Spec => NoEcho
<1>1. TypeOK /\ [Next]_vars => [winOwner' = Bridge /\ winOwner # Bridge => wire' = wire]_vars
  <2> SUFFICES ASSUME TypeOK, Next, winOwner' = Bridge, winOwner # Bridge
               PROVE  wire' = wire
    OBVIOUS
  <2>1. ASSUME ServeBridge PROVE FALSE
    <3> DEFINE r == Head(wire)
    <3>1. r \in Request
      BY <2>1, Parts DEF ServeBridge, XlibType
    <3>2. r.kind = "own" /\ WrapSetOwner(r.sel, r.win)
      BY <2>1 DEF ServeBridge, ServeSetOwner
    <3>3. r.win \in {Bridge, None}
      BY <3>1, <3>2, RequestTypes
    <3>4. ~Grabs(r.win)
      BY <3>3, BridgeAssumption DEF Grabs
    <3> QED
      BY <3>2, <3>4, BridgeAssumption DEF WrapSetOwner
  <2>2. ASSUME ThreadStep PROVE FALSE
    BY <2>2 DEF ThreadStep, CreateWindow, AssertOwners, Start, FlushXEvents, Draw, DrawText,
         DrawOther, Sync, GetOwnerP, GetOwnerC, RoundTrip, ReleaseP, ReleaseC, windows
  <2>3. ASSUME Environment PROVE wire' = wire
    BY <2>3 DEF Environment, Claim, Disown, ClaimTooLate, Vanish, Paste, RootEvent,
         AppCopy, AppOpen, xlib
  <2>4. ASSUME AppClose \/ EmptyAndRelease PROVE wire' = wire
    BY <2>4 DEF AppClose, EmptyAndRelease, xlib
  <2> QED
    BY <2>1, <2>2, <2>3, <2>4 DEF Next, ServerStep
<1> QED
  BY <1>1, TypeCorrect, PTL DEF Spec, NoEcho

(***************************************************************************)
(* A claim made when all is quiet                                          *)
(***************************************************************************)
\* The bridge owes the server nothing but answers, and neither it nor the server is
\* on the way to take or release anything: what QuietClaimStands needs to be inductive.
Calm ==
    last.who \in Client /\ last.calm =>
        /\ last.what \in Sel /\ started /\ pc = "idle" /\ outBuf = <<>>
        /\ emptying = None
        /\ \A i \in DOMAIN wire : wire[i].kind = "answer"

ClaimInv == TypeOK /\ QuietClaimStands /\ Calm

\* A step that only a claim in force has to survive: it stays as it was made
LEMMA Unclaimed ==
    ASSUME ~(last.who \in Client /\ last.calm)'
    PROVE  QuietClaimStands' /\ Calm'
BY DEF QuietClaimStands, Calm

LEMMA ClaimClaims ==
    ASSUME ClaimInv, NEW c \in Client, NEW s \in Sel, Claim(c, s)
    PROVE  QuietClaimStands' /\ Calm'
<1>1. CASE started /\ ~appOpen
  <2>1. last' = [who |-> c, what |-> s, calm |-> Quiet]
    BY <1>1 DEF Claim
  <2>2. Grabs(c) /\ ~Disowns(s, c) /\ ~Releases(c, s, c)
    BY <1>1, BridgeAssumption DEF Grabs, Disowns, Releases
  <2>3. emptying = None /\ WrapSetOwner(s, c) /\ SetOwner(c, s, c) /\ UNCHANGED emptying
    BY <2>2 DEF Claim, ServeSetOwner
  <2>4. owner'[s] = c
    BY <2>3 DEF SetOwner, ClaimInv, TypeOK
  <2>5. winOwner' = Bridge /\ winData' = "promise" /\ lastOwned' = s
    BY <1>1, <2>2, <2>3 DEF WrapSetOwner
  <2>6. UNCHANGED <<started, pc, outBuf, wire>>
    BY DEF Claim, thread
  <2>7. ASSUME Quiet
        PROVE  started' /\ pc' = "idle" /\ outBuf' = <<>>
               /\ \A i \in DOMAIN wire' : wire'[i].kind = "answer"
    <3>1. started /\ pc = "idle" /\ outBuf = <<>> /\ wire = <<>>
      BY <2>7 DEF Quiet
    <3> QED
      BY <2>6, <3>1
  <2>8. QuietClaimStands'
    BY <2>1, <2>4, <2>5 DEF QuietClaimStands
  <2>9. last'.calm <=> Quiet
    BY <2>1
  <2> QED
    BY <2>1, <2>7, <2>8, <2>9, <2>3 DEF Calm
<1>2. CASE ~(started /\ ~appOpen)
  <2>1. last' = Nobody
    BY <1>2 DEF Claim
  <2> QED
    BY <2>1, Unclaimed DEF Nobody
<1> QED
  BY <1>1, <1>2

LEMMA EnvironmentClaims ==
    ASSUME ClaimInv, Environment
    PROVE  QuietClaimStands' /\ Calm'
<1>1. ASSUME NEW c \in Client, NEW s \in Sel, Claim(c, s) PROVE QuietClaimStands' /\ Calm'
  BY <1>1, ClaimClaims
<1>2. ASSUME NEW c \in Client, NEW s \in Sel, Disown(c, s) \/ ClaimTooLate(c, s)
      PROVE  QuietClaimStands' /\ Calm'
  <2>1. last' = Nobody \/ (last' = last /\ last.who = App)
    BY <1>2 DEF Disown, ClaimTooLate
  <2> QED
    BY <2>1, Unclaimed, BridgeAssumption DEF Nobody
<1>3. ASSUME NEW c \in Client, Vanish(c) PROVE QuietClaimStands' /\ Calm'
  <2>1. UNCHANGED <<lastOwned, winOwner, winData, started, pc, outBuf, wire, emptying>>
    BY <1>3 DEF Vanish, windows, thread, xlib
  <2>2. CASE last.who = c
    <3>1. last' = Nobody
      BY <1>3, <2>2 DEF Vanish
    <3> QED
      BY <3>1, Unclaimed DEF Nobody
  <2>3. CASE last.who # c
    <3>1. last' = last
      BY <1>3, <2>3 DEF Vanish
    <3>2. ASSUME last.who \in Client, last.calm PROVE owner'[last.what] = last.who
      <4>1. owner[last.what] = last.who /\ lastOwned = last.what
        BY <3>2 DEF ClaimInv, QuietClaimStands
      <4>2. last.what \in Sel
        BY <3>2 DEF ClaimInv, Calm
      <4>3. owner' = [s \in Sel |-> IF owner[s] = c THEN None ELSE owner[s]]
        BY <1>3 DEF Vanish
      <4> QED
        BY <2>3, <4>1, <4>2, <4>3
    <3> QED
      BY <2>1, <3>1, <3>2 DEF ClaimInv, QuietClaimStands, Calm
  <2> QED
    BY <2>2, <2>3
<1>4. ASSUME RootEvent \/ AppOpen \/ \E s \in Sel : Paste(s) PROVE QuietClaimStands' /\ Calm'
  <2>1. UNCHANGED <<owner, lastOwned, winOwner, winData, started, pc, outBuf, wire, last,
                    emptying>>
    BY <1>4 DEF RootEvent, AppOpen, Paste, server, windows, thread, xlib
  <2> QED
    BY <2>1 DEF ClaimInv, QuietClaimStands, Calm
<1>5. ASSUME NEW o, NEW d, AppCopy(o, d) PROVE QuietClaimStands' /\ Calm'
  <2>1. last'.who \notin Client
    BY <1>5, BridgeAssumption DEF AppCopy, Nobody
  <2> QED
    BY <2>1, Unclaimed
<1> QED
  BY <1>1, <1>2, <1>3, <1>4, <1>5 DEF Environment

LEMMA ServeBridgeClaims ==
    ASSUME ClaimInv, ServeBridge
    PROVE  QuietClaimStands' /\ Calm'
<1>1. wire \in Seq(Request) /\ wire # <<>> /\ wire' = Tail(wire)
      /\ UNCHANGED <<outBuf, started, pc, last>>
  BY Parts DEF ClaimInv, XlibType, ServeBridge, thread
<1>2. CASE ~(last.who \in Client /\ last.calm)
  BY <1>1, <1>2, Unclaimed
<1>3. CASE last.who \in Client /\ last.calm
  <2>1. \A i \in DOMAIN wire : wire[i].kind = "answer"
    BY <1>3 DEF ClaimInv, Calm
  <2>2. Head(wire).kind = "answer" /\ \A i \in DOMAIN Tail(wire) : Tail(wire)[i].kind = "answer"
    BY <1>1, <2>1
  <2>3. UNCHANGED <<owner, lastOwned, winOwner, winData, emptying>>
    BY <2>2 DEF ServeBridge
  <2> QED
    BY <1>1, <2>2, <2>3 DEF ClaimInv, QuietClaimStands, Calm
<1> QED
  BY <1>2, <1>3

LEMMA ThreadStepClaims ==
    ASSUME ClaimInv, ThreadStep
    PROVE  QuietClaimStands' /\ Calm'
<1>1. UNCHANGED <<owner, lastOwned, winOwner, winData, last, emptying>>
  BY DEF ThreadStep, CreateWindow, AssertOwners, Start, FlushXEvents, Draw, DrawText,
         DrawOther, Sync, GetOwnerP, GetOwnerC, RoundTrip, ReleaseP, ReleaseC, server, windows
<1>2. CASE ~(last.who \in Client /\ last.calm)
  BY <1>1, <1>2, Unclaimed
<1>3. CASE last.who \in Client /\ last.calm
  <2>1. /\ started /\ pc = "idle" /\ outBuf = <<>> /\ winOwner = Bridge
        /\ \A i \in DOMAIN wire : wire[i].kind = "answer"
    BY <1>3 DEF ClaimInv, QuietClaimStands, Calm
  <2>2. FlushXEvents \/ Draw
    BY <2>1 DEF ThreadStep, CreateWindow, AssertOwners, Start, DrawText,
         DrawOther, Sync, GetOwnerP, GetOwnerC, RoundTrip, ReleaseP, ReleaseC, Goto
  <2>3. CASE Draw
    BY <1>1, <2>1, <2>3 DEF Draw, xlib, ClaimInv, QuietClaimStands, Calm
  <2>4. CASE FlushXEvents
    <3>1. UNCHANGED <<started, pc>> /\ outBuf' = <<>>
      BY <2>4 DEF FlushXEvents, thread
    <3>2. wire \in Seq(Request)
      BY Parts DEF ClaimInv, XlibType
    <3>3. wire' = wire \/ wire' = Append(wire, Answer)
      BY <2>1, <2>4, <3>2 DEF FlushXEvents
    <3>4. \A i \in DOMAIN wire' : wire'[i].kind = "answer"
      BY <2>1, <3>2, <3>3 DEF Answer
    <3> QED
      BY <1>1, <3>1, <3>4 DEF ClaimInv, QuietClaimStands, Calm
  <2> QED
    BY <2>2, <2>3, <2>4
<1> QED
  BY <1>2, <1>3

\* A client that takes a selection while nothing is under way keeps it, and the
\* promise of its text stands on the Windows clipboard, until somebody copies.
THEOREM QuietClaimCorrect == Spec => []QuietClaimStands
<1>1. Init /\ TypeOK => ClaimInv
  BY BridgeAssumption DEF Init, ClaimInv, QuietClaimStands, Calm, Nobody
<1>2. ClaimInv /\ TypeOK' /\ [Next]_vars => ClaimInv'
  <2> SUFFICES ASSUME ClaimInv, [Next]_vars PROVE QuietClaimStands' /\ Calm'
    BY DEF ClaimInv
  <2>1. CASE ServerStep
    <3>1. ASSUME EmptyAndRelease PROVE ~(last.who \in Client /\ last.calm)
      BY <3>1 DEF EmptyAndRelease, ClaimInv, Calm
    <3>2. ASSUME EmptyAndRelease PROVE last' = last
      BY <3>2 DEF EmptyAndRelease
    <3> QED
      BY <2>1, <3>1, <3>2, ServeBridgeClaims, Unclaimed DEF ServerStep
  <2>2. CASE ThreadStep
    BY <2>2, ThreadStepClaims
  <2>3. CASE Environment
    BY <2>3, EnvironmentClaims
  <2>4. CASE AppClose \/ UNCHANGED vars
    <3>1. UNCHANGED <<owner, lastOwned, winOwner, winData, started, pc, outBuf, wire, last,
                      emptying>>
      BY <2>4 DEF AppClose, vars, server, windows, thread, xlib
    <3> QED
      BY <3>1 DEF ClaimInv, QuietClaimStands, Calm
  <2> QED
    BY <2>1, <2>2, <2>3, <2>4 DEF Next
<1>3. ClaimInv => QuietClaimStands
  BY DEF ClaimInv
<1> QED
  BY <1>1, <1>2, <1>3, TypeCorrect, PTL DEF Spec
==============================================================================
