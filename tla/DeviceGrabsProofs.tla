---------------------------- MODULE DeviceGrabsProofs ----------------------------
(***************************************************************************)
(* What is proved of DeviceGrabs for any clients, keys and bounds.         *)
(***************************************************************************)
EXTENDS DeviceGrabs, TLAPS

\* The parts of the invariant, by who reads and writes them
GrabType ==
    /\ grab \in [Device -> Client \cup {NULL}]
    /\ sync \in [Device -> State]
    /\ event \in [Device -> Event \cup {NULL}]

FlagType ==
    /\ passive \in [Device -> BOOLEAN]
    /\ other \in [Device -> BOOLEAN]
    /\ frozen \in [Device -> BOOLEAN]
    /\ queues \in [Device -> BOOLEAN]

KeyType ==
    /\ down \in [Device -> SUBSET Key]
    /\ activatingKey \in Key \cup {NULL}
    /\ repeatKey \in Key \cup {NULL}

CallType ==
    /\ pending \in Seq(Event)
    /\ stack \in Seq(Frame)

PeerType == clients \subseteq Client /\ revived \subseteq Client

UserType ==
    /\ held \in [Device -> SUBSET Key]
    /\ arrived \in [Device -> Nat]
    /\ done \in [Device -> Nat]
    /\ grabs \in Nat
    /\ leaked \in BOOLEAN

LEMMA Parts == TypeOK <=> GrabType /\ FlagType /\ KeyType /\ CallType /\ PeerType /\ UserType
BY Zenon DEF TypeOK, GrabType, FlagType, KeyType, CallType, PeerType, UserType

\* GrabsAgree without what it says of queues
Agree ==
    \A d \in Device :
        /\ sync[d] = "NOT_GRABBED" <=> grab[d] = NULL
        /\ sync[d] = "FROZEN_WITH_EVENT" <=> event[d] # NULL
        /\ other[d] => grab[Other(d)] # NULL
        /\ passive[d] => grab[d] # NULL

Froze == \A d \in Device : frozen[d] <=> other[d] \/ sync[d] \in Held

\* enqueueInputProc is taken off a frozen keyboard by the repeat timer only,
\* and never put on a device that is not frozen.
Queued ==
    /\ \A d \in Device : queues[d] => frozen[d]
    /\ ~leaked => \A d \in Device : frozen[d] => queues[d]

\* Something still plays, or all that waits is frozen.
HasPlay(s) == \E i \in DOMAIN s : s[i].do = "play"
Played     == HasPlay(stack) \/ \A i \in DOMAIN pending : frozen[pending[i].dev]

Grabs == GrabType /\ FlagType /\ Agree /\ Froze /\ Queued

(***************************************************************************)
(* What the operators do to the grabs                                      *)
(***************************************************************************)
LEMMA ComputeGrabs ==
    ASSUME NEW first, NEW rest, ComputeFreezes(first, rest),
           other' \in [Device -> BOOLEAN], sync' \in [Device -> State]
    PROVE  /\ frozen' \in [Device -> BOOLEAN]
           /\ queues' \in [Device -> BOOLEAN]
           /\ Froze' /\ Queued'
<1>1. frozen' = [d \in Device |-> other'[d] \/ sync'[d] \in Held] /\ queues' = frozen'
  BY DEF ComputeFreezes
<1>2. \A d \in Device : (other'[d] \/ sync'[d] \in Held) \in BOOLEAN
  OBVIOUS
<1>3. frozen' \in [Device -> BOOLEAN]
  BY <1>1, <1>2
<1>4. Froze'
  BY <1>1 DEF Froze
<1> QED
  BY <1>1, <1>3, <1>4 DEF Queued

LEMMA ActivateGrabs ==
    ASSUME Grabs, NEW d \in Device, NEW c \in Client, NEW auto \in BOOLEAN,
           NEW this \in Mode, NEW othr \in Mode, NEW ev \in Event \cup {NULL}, NEW rest,
           Activate(d, c, auto, this, othr, ev, rest)
    PROVE  Grabs'
<1> USE DEF Grabs
<1>1. grab' \in [Device -> Client \cup {NULL}] /\ grab'[d] = c /\ c # NULL
      /\ grab'[Other(d)] = grab[Other(d)]
  BY NullAssumption DEF Activate, GrabType, Other, Device
<1>2. sync' \in [Device -> State] /\ sync'[Other(d)] = sync[Other(d)]
      /\ sync'[d] \in {"THAWED", "FROZEN_NO_EVENT", "FROZEN_WITH_EVENT"}
  BY DEF Activate, GrabType, State, Held, Mode, Other, Device
<1>3. event' \in [Device -> Event \cup {NULL}] /\ event'[Other(d)] = event[Other(d)]
      /\ (sync'[d] = "FROZEN_WITH_EVENT" <=> event'[d] # NULL)
  BY DEF Activate, GrabType, Mode, Other, Device
<1>4. passive' \in [Device -> BOOLEAN] /\ passive'[Other(d)] = passive[Other(d)]
  BY DEF Activate, FlagType, Other, Device
<1>5. other' \in [Device -> BOOLEAN] /\ (other'[d] => other[d])
  BY DEF Activate, FlagType
<1>6. Agree'
  BY <1>1, <1>2, <1>3, <1>4, <1>5 DEF Agree, Other, Device
<1>7. ComputeFreezes(<<>>, rest)
  BY DEF Activate
<1> QED
  BY <1>1, <1>2, <1>3, <1>4, <1>5, <1>6, <1>7, ComputeGrabs DEF GrabType, FlagType

\* KeepEvent is all that AllowEvents and the releases do to sync.event.
LEMMA KeepGrabs ==
    ASSUME Grabs, sync' \in [Device -> State], KeepEvent,
           \A d \in Device : sync'[d] = "FROZEN_WITH_EVENT" => sync[d] = "FROZEN_WITH_EVENT"
    PROVE  /\ event' \in [Device -> Event \cup {NULL}]
           /\ \A d \in Device : sync'[d] = "FROZEN_WITH_EVENT" <=> event'[d] # NULL
BY DEF Grabs, GrabType, Agree, KeepEvent

LEMMA DeactivateGrabs ==
    ASSUME Grabs, NEW d \in Device, NEW synced \in BOOLEAN, NEW first, NEW rest,
           Deactivate(d, synced, first, rest)
    PROVE  Grabs'
<1> USE DEF Grabs
<1>1. grab' \in [Device -> Client \cup {NULL}] /\ grab'[d] = NULL
      /\ grab'[Other(d)] = grab[Other(d)]
  BY DEF Deactivate, GrabType, Other, Device
<1>2. sync' \in [Device -> State] /\ sync'[Other(d)] = sync[Other(d)]
      /\ sync'[d] = "NOT_GRABBED"
  BY DEF Deactivate, GrabType, State, Other, Device
<1>3. /\ event' \in [Device -> Event \cup {NULL}]
      /\ \A x \in Device : sync'[x] = "FROZEN_WITH_EVENT" <=> event'[x] # NULL
  <2>1. \A x \in Device : sync'[x] = "FROZEN_WITH_EVENT" => sync[x] = "FROZEN_WITH_EVENT"
    BY <1>2 DEF Other, Device
  <2> QED
    BY <1>2, <2>1, KeepGrabs DEF Deactivate
<1>4. passive' \in [Device -> BOOLEAN] /\ passive'[Other(d)] = passive[Other(d)]
      /\ passive'[d] = FALSE
  BY DEF Deactivate, FlagType, Other, Device
<1>5. other' \in [Device -> BOOLEAN] /\ (other'[d] => other[d]) /\ other'[Other(d)] = FALSE
  BY DEF Deactivate, FlagType, Other, Device
<1>6. Agree'
  BY <1>1, <1>2, <1>3, <1>4, <1>5 DEF Agree, Other, Device
<1>7. ComputeFreezes(first, rest)
  BY DEF Deactivate
<1> QED
  BY <1>1, <1>2, <1>3, <1>4, <1>5, <1>6, <1>7, ComputeGrabs DEF GrabType, FlagType

LEMMA IgnoreGrabs ==
    ASSUME Grabs, NEW ev \in Event, NEW rest, Ignore(ev, rest), leaked \in BOOLEAN,
           leaked' = (leaked \/ frozen[ev.dev])
    PROVE  Grabs'
<1>1. queues' \in [Device -> BOOLEAN] /\ \A d \in Device : queues'[d] => queues[d]
  BY DEF Ignore, Grabs, FlagType
<1>2. GrabType' /\ FlagType' /\ Agree' /\ Froze'
  BY <1>1 DEF Ignore, grabVars, Grabs, GrabType, FlagType, Agree, Froze
<1>3. \A d \in Device : queues'[d] => frozen'[d]
  BY <1>1 DEF Ignore, Grabs, Queued
<1>4. ASSUME ~leaked', NEW d \in Device, frozen'[d] PROVE queues'[d]
  <2>1. ~leaked /\ ~frozen[ev.dev] /\ frozen[d] /\ queues[d]
    BY <1>4 DEF Ignore, Grabs, Queued
  <2>2. d # ev.dev /\ ev.dev \in Device
    BY <2>1 DEF Event
  <2> QED
    BY <2>1, <2>2 DEF Ignore, Device, Grabs, FlagType
<1> QED
  BY <1>2, <1>3, <1>4 DEF Grabs, Queued

LEMMA FreezeNextGrabs ==
    ASSUME Grabs, NEW ev \in Event, NEW rest, FreezeNext(ev, rest), leaked \in BOOLEAN,
           leaked' = (leaked \/ frozen[ev.dev])
    PROVE  Grabs'
<1> DEFINE d == ev.dev
           o == Other(d)
           both == sync[d] = "FREEZE_BOTH_NEXT_EVENT"
           same == sync[o] = "FREEZE_BOTH_NEXT_EVENT" /\ grab[o] = grab[d]
<1>1. d \in Device /\ o \in Device /\ o # d /\ \A x \in Device : x = d \/ x = o
  BY DEF Event, Device, Other
<1>2. /\ sync[d] \in {"FREEZE_NEXT_EVENT", "FREEZE_BOTH_NEXT_EVENT"}
      /\ sync' \in [Device -> State]
      /\ sync'[d] = "FROZEN_WITH_EVENT"
      /\ sync'[o] = IF both /\ same THEN "FROZEN_NO_EVENT" ELSE sync[o]
  BY <1>1 DEF FreezeNext, Grabs, GrabType, State, Held
<1>3. other' \in [Device -> BOOLEAN] /\ other'[d] = other[d]
      /\ other'[o] = (other[o] \/ (both /\ ~same))
  BY <1>1 DEF FreezeNext, Grabs, FlagType
<1>4. event' \in [Device -> Event \cup {NULL}] /\ event'[d] # NULL /\ event'[o] = event[o]
  BY <1>1, NullAssumption DEF FreezeNext, Grabs, GrabType
<1>5. /\ frozen' \in [Device -> BOOLEAN] /\ queues' \in [Device -> BOOLEAN]
      /\ frozen'[d] /\ queues'[d]
      /\ frozen'[o] = (both \/ frozen[o]) /\ queues'[o] = (both \/ queues[o])
  BY <1>1 DEF FreezeNext
<1>6. grab' = grab /\ passive' = passive
  BY DEF FreezeNext
<1>7. Agree'
  <2>1. grab[d] # NULL /\ Other(o) = d
    BY <1>1, <1>2 DEF Agree, Grabs, Other, Device
  <2>2. /\ sync'[o] = "NOT_GRABBED" <=> sync[o] = "NOT_GRABBED"
        /\ sync'[o] = "FROZEN_WITH_EVENT" <=> sync[o] = "FROZEN_WITH_EVENT"
    BY <1>2
  <2>3. /\ sync'[d] = "NOT_GRABBED" <=> grab'[d] = NULL
        /\ sync'[d] = "FROZEN_WITH_EVENT" <=> event'[d] # NULL
        /\ other'[d] => grab'[Other(d)] # NULL
        /\ passive'[d] => grab'[d] # NULL
    BY <1>1, <1>2, <1>3, <1>4, <1>6, <2>1 DEF Agree, Grabs
  <2>4. /\ sync'[o] = "NOT_GRABBED" <=> grab'[o] = NULL
        /\ sync'[o] = "FROZEN_WITH_EVENT" <=> event'[o] # NULL
        /\ other'[o] => grab'[Other(o)] # NULL
        /\ passive'[o] => grab'[o] # NULL
    BY <1>1, <1>4, <1>6, <2>1, <2>2 DEF Agree, Grabs
  <2> QED
    BY <1>1, <2>3, <2>4 DEF Agree
<1>8. Froze'
  BY <1>1, <1>2, <1>3, <1>5 DEF Froze, Grabs, Held
<1>9. Queued'
  BY <1>1, <1>5 DEF Queued, Grabs
<1> QED
  BY <1>2, <1>3, <1>4, <1>5, <1>6, <1>7, <1>8, <1>9 DEF Grabs, GrabType, FlagType

LEMMA AllowOneGrabs ==
    ASSUME Grabs, NEW c \in Client, NEW d \in Device,
           NEW state \in {"THAWED", "FREEZE_NEXT_EVENT"}, AllowOne(c, d, state)
    PROVE  Grabs'
<1> USE DEF Grabs
<1>1. /\ sync' \in [Device -> State]
      /\ sync'[d] = IF grab[d] = c THEN state ELSE sync[d]
      /\ \A x \in Device : x # d => sync'[x] = sync[x]
  BY DEF AllowOne, GrabType, State
<1>2. grab' = grab /\ passive' = passive
  BY DEF AllowOne
<1>3. other' \in [Device -> BOOLEAN] /\ \A x \in Device : other'[x] => other[x]
  BY DEF AllowOne, FlagType
<1>4. /\ event' \in [Device -> Event \cup {NULL}]
      /\ \A x \in Device : sync'[x] = "FROZEN_WITH_EVENT" <=> event'[x] # NULL
  BY <1>1, KeepGrabs DEF AllowOne
<1>5. \A x \in Device : sync'[x] = "NOT_GRABBED" <=> grab[x] = NULL
  BY <1>1, NullAssumption DEF Agree
<1>6. Agree'
  BY <1>2, <1>3, <1>4, <1>5 DEF Agree
<1>7. ComputeFreezes(<<>>, <<>>)
  BY DEF AllowOne
<1> QED
  BY <1>1, <1>2, <1>3, <1>4, <1>6, <1>7, ComputeGrabs DEF GrabType, FlagType

LEMMA AllowBothGrabs ==
    ASSUME Grabs, NEW c \in Client,
           NEW state \in {"THAWED", "FREEZE_BOTH_NEXT_EVENT"}, AllowBoth(c, state)
    PROVE  Grabs'
<1> USE DEF Grabs
<1>1. /\ sync' \in [Device -> State]
      /\ \A x \in Device : sync'[x] = IF grab[x] = c THEN state ELSE sync[x]
  BY DEF AllowBoth, GrabType, State
<1>2. grab' = grab /\ passive' = passive
  BY DEF AllowBoth
<1>3. other' \in [Device -> BOOLEAN] /\ \A x \in Device : other'[x] => other[x]
  BY DEF AllowBoth, FlagType
<1>4. /\ event' \in [Device -> Event \cup {NULL}]
      /\ \A x \in Device : sync'[x] = "FROZEN_WITH_EVENT" <=> event'[x] # NULL
  BY <1>1, KeepGrabs DEF AllowBoth
<1>5. \A x \in Device : sync'[x] = "NOT_GRABBED" <=> grab[x] = NULL
  BY <1>1, NullAssumption DEF Agree
<1>6. Agree'
  BY <1>2, <1>3, <1>4, <1>5 DEF Agree
<1>7. ComputeFreezes(<<>>, <<>>)
  BY DEF AllowBoth
<1> QED
  BY <1>1, <1>2, <1>3, <1>4, <1>6, <1>7, ComputeGrabs DEF GrabType, FlagType

LEMMA SyncedIsBoolean ==
    ASSUME Grabs, NEW c \in Client, NEW d \in Device
    PROVE  Synced(c, d) \in BOOLEAN
BY DEF Synced, Grabs, FlagType

(***************************************************************************)
(* Calls under way                                                         *)
(***************************************************************************)
LEMMA FrameFields ==
    ASSUME NEW f \in Frame
    PROVE  /\ f.do \in {"process", "handle", "replay"} => f.ev \in Event
           /\ f.do = "activated" => f.key \in Key
           /\ f.do \in {"release", "free"} => f.client \in Client
BY DEF Frame

LEMMA FrameTypes ==
    /\ \A ev \in Event : {Process(ev), Handle(ev), Replay(ev)} \subseteq Frame
    /\ Play \in Frame
    /\ \A k \in Key : Activated(k) \in Frame
    /\ \A c \in Client : {Release(c), Free(c)} \subseteq Frame
BY DEF Process, Handle, Replay, Play, Activated, Release, Free, Frame

LEMMA Concat ==
    ASSUME NEW S, NEW s \in Seq(S), NEW t \in Seq(S)
    PROVE  s \o t \in Seq(S)
OBVIOUS

LEMMA One ==
    ASSUME NEW S, NEW x \in S, NEW s \in Seq(S)
    PROVE  <<x>> \in Seq(S) /\ <<x>> \o s \in Seq(S)
OBVIOUS

LEMMA Two ==
    ASSUME NEW S, NEW x \in S, NEW y \in S, NEW s \in Seq(S)
    PROVE  <<x, y>> \in Seq(S) /\ <<x, y>> \o s \in Seq(S)
OBVIOUS

LEMMA TopOf ==
    ASSUME CallType, NEW what, Calling(what)
    PROVE  Head(stack) \in Frame /\ Head(stack).do = what /\ Tail(stack) \in Seq(Frame)
BY DEF CallType, Calling

LEMMA ComputeCalls ==
    ASSUME NEW first \in Seq(Frame), NEW rest \in Seq(Frame), ComputeFreezes(first, rest)
    PROVE  stack' \in Seq(Frame)
<1>1. <<Play>> \in Seq(Frame)
  BY FrameTypes, One
<1>2. first \o <<Play>> \in Seq(Frame)
  BY <1>1, Concat
<1>3. (first \o <<Play>>) \o rest \in Seq(Frame)
  BY <1>2, Concat
<1> QED
  BY <1>3 DEF ComputeFreezes

LEMMA InputCalls ==
    ASSUME NEW ev \in Event, NEW queue \in Seq(Event), NEW rest \in Seq(Frame),
           KeyType, ProcessInput(ev, queue, rest)
    PROVE  CallType' /\ repeatKey' \in Key \cup {NULL}
<1>1. ev.key \in Key
  BY DEF Event
<1>2. repeatKey' \in Key \cup {NULL}
  BY <1>1 DEF ProcessInput, EnqueueEvent, FilterEvent, KeyType
<1>3. pending' \in Seq(Event)
  <2>1. Append(queue, ev) \in Seq(Event)
    OBVIOUS
  <2>2. pending' = Append(queue, ev) \/ pending' = queue
    BY Zenon DEF ProcessInput, EnqueueEvent
  <2> QED
    BY <2>1, <2>2
<1>4. <<Process(ev)>> \o rest \in Seq(Frame)
  BY FrameTypes, One
<1>5. stack' \in Seq(Frame)
  BY <1>4 DEF ProcessInput
<1> QED
  BY <1>2, <1>3, <1>5 DEF CallType

Inv == Grabs /\ KeyType /\ CallType /\ PeerType /\ UserType /\ GrabsHaveOwners /\ Played

LEMMA PlayTail ==
    ASSUME CallType, NEW what, Calling(what), what # "play", HasPlay(stack)
    PROVE  HasPlay(Tail(stack))
<1>1. PICK i \in DOMAIN stack : stack[i].do = "play"
  BY DEF HasPlay
<1>2. stack \in Seq(Frame) /\ stack # <<>> /\ stack[1].do # "play"
  BY DEF CallType, Calling
<1>3. i \in 1 .. Len(stack) /\ i # 1
  BY <1>1, <1>2
<1>4. i - 1 \in DOMAIN Tail(stack) /\ Tail(stack)[i - 1] = stack[i]
  BY <1>2, <1>3
<1> QED
  BY <1>1, <1>4 DEF HasPlay

LEMMA PlayConcat ==
    ASSUME NEW s \in Seq(Frame), NEW t \in Seq(Frame), HasPlay(t)
    PROVE  HasPlay(s \o t)
<1>1. PICK i \in DOMAIN t : t[i].do = "play"
  BY DEF HasPlay
<1>2. i \in 1 .. Len(t)
  BY <1>1
<1>3. Len(s) + i \in DOMAIN (s \o t) /\ (s \o t)[Len(s) + i] = t[i]
  BY <1>2
<1> QED
  BY <1>1, <1>3 DEF HasPlay

LEMMA PlayHere ==
    ASSUME NEW s \in Seq(Frame), NEW t \in Seq(Frame)
    PROVE  HasPlay(s \o <<Play>> \o t)
<1>1. <<Play>> \in Seq(Frame)
  BY FrameTypes, One
<1>2. /\ Len(s) + 1 \in DOMAIN (s \o <<Play>> \o t)
      /\ (s \o <<Play>> \o t)[Len(s) + 1] = Play
  BY <1>1
<1> QED
  BY <1>2 DEF HasPlay, Play

LEMMA ComputePlays ==
    ASSUME NEW first \in Seq(Frame), NEW rest \in Seq(Frame), ComputeFreezes(first, rest),
           HasPlay(stack) => HasPlay(rest), pending' = pending
    PROVE  Played'
<1>1. CASE Playing
  <2>1. stack' = rest /\ HasPlay(rest)
    BY <1>1 DEF ComputeFreezes, Playing, HasPlay
  <2> QED
    BY <2>1 DEF Played, HasPlay
<1>2. CASE first = <<>> /\ pending = <<>>
  <2>1. pending' = <<>>
    BY <1>2
  <2>2. DOMAIN pending' = {}
    BY <2>1
  <2> QED
    BY <2>2 DEF Played
<1>3. CASE ~Playing /\ ~(first = <<>> /\ pending = <<>>)
  <2>1. stack' = first \o <<Play>> \o rest
    BY <1>3 DEF ComputeFreezes
  <2> QED
    BY <2>1, PlayHere DEF Played, HasPlay
<1> QED
  BY <1>1, <1>2, <1>3

(***************************************************************************)
(* One event                                                               *)
(***************************************************************************)
\* What an event, or the end of a grab, leaves as it should
Kept == Grabs' /\ stack' \in Seq(Frame) /\ revived' \subseteq Client /\ GrabsHaveOwners' /\ Played'

LEMMA FreedTypes ==
    ASSUME CallType
    PROVE  Freed \subseteq Client
<1>1. \A i \in DOMAIN stack : stack[i] \in Frame
  BY DEF CallType
<1>2. \A i \in DOMAIN stack : stack[i].do = "free" => stack[i].client \in Client
  BY <1>1, FrameFields
<1> QED
  BY <1>2 DEF Freed

LEMMA ActivateKept ==
    ASSUME Inv, NEW d \in Device, NEW c \in Client, NEW auto \in BOOLEAN,
           NEW this \in Mode, NEW othr \in Mode, NEW ev \in Event \cup {NULL},
           NEW rest \in Seq(Frame), HasPlay(stack) => HasPlay(rest),
           UNCHANGED <<pending, clients>>,
           Activate(d, c, auto, this, othr, ev, rest),
           revived' = revived \cup ({c} \ clients)
    PROVE  Kept
<1>1. Grabs'
  BY ActivateGrabs DEF Inv
<1>2. ComputeFreezes(<<>>, rest)
  BY DEF Activate
<1>3. <<>> \in Seq(Frame)
  OBVIOUS
<1>4. stack' \in Seq(Frame) /\ Played'
  BY <1>2, <1>3, ComputeCalls, ComputePlays
<1>5. revived' \subseteq Client
  BY DEF Inv, PeerType
<1>6. \A x \in Device : grab'[x] = c \/ grab'[x] = grab[x]
  BY DEF Activate, Inv, Grabs, GrabType
<1>7. GrabsHaveOwners'
  BY <1>6 DEF GrabsHaveOwners, Inv
<1> QED
  BY <1>1, <1>4, <1>5, <1>7 DEF Kept

LEMMA DeactivateKept ==
    ASSUME Inv, NEW d \in Device, NEW synced \in BOOLEAN, NEW first \in Seq(Frame),
           NEW rest \in Seq(Frame), HasPlay(stack) => HasPlay(rest),
           UNCHANGED <<pending, clients, revived>>,
           Deactivate(d, synced, first, rest)
    PROVE  Kept
<1>1. Grabs'
  BY DeactivateGrabs DEF Inv
<1>2. ComputeFreezes(first, rest)
  BY DEF Deactivate
<1>3. stack' \in Seq(Frame) /\ Played'
  BY <1>2, ComputeCalls, ComputePlays
<1>4. revived' \subseteq Client
  BY DEF Inv, PeerType
<1>5. \A x \in Device : grab'[x] = NULL \/ grab'[x] = grab[x]
  BY DEF Deactivate, Inv, Grabs, GrabType
<1>6. GrabsHaveOwners'
  BY <1>5 DEF GrabsHaveOwners, Inv
<1> QED
  BY <1>1, <1>3, <1>4, <1>6 DEF Kept

\* Steps that freeze more, or the same, and leave the grabs with their clients
LEMMA FrozenKept ==
    ASSUME Inv, Grabs', NEW rest \in Seq(Frame), stack' = rest,
           HasPlay(stack) => HasPlay(rest),
           UNCHANGED <<grab, pending, clients, revived>>,
           \A d \in Device : frozen[d] => frozen'[d]
    PROVE  Kept
<1>1. GrabsHaveOwners' /\ revived' \subseteq Client
  BY DEF Inv, GrabsHaveOwners, PeerType
<1>2. \A i \in DOMAIN pending : pending[i].dev \in Device
  <2>1. \A i \in DOMAIN pending : pending[i] \in Event
    BY DEF Inv, CallType
  <2> QED
    BY <2>1 DEF Event
<1>3. Played'
  BY <1>2 DEF Inv, Played, HasPlay
<1> QED
  BY <1>1, <1>3 DEF Kept

LEMMA IgnoreKept ==
    ASSUME Inv, NEW ev \in Event, NEW rest \in Seq(Frame), HasPlay(stack) => HasPlay(rest),
           UNCHANGED <<pending, clients>>, Ignore(ev, rest),
           leaked' = (leaked \/ frozen[ev.dev])
    PROVE  Kept
<1>1. Grabs'
  BY IgnoreGrabs DEF Inv, UserType
<1>2. stack' = rest /\ UNCHANGED <<grab, revived, frozen>>
  BY DEF Ignore, grabVars
<1> QED
  BY <1>1, <1>2, FrozenKept

LEMMA FreezeNextKept ==
    ASSUME Inv, NEW ev \in Event, NEW rest \in Seq(Frame), HasPlay(stack) => HasPlay(rest),
           UNCHANGED <<pending, clients>>, FreezeNext(ev, rest),
           leaked' = (leaked \/ frozen[ev.dev])
    PROVE  Kept
<1>1. Grabs'
  BY FreezeNextGrabs DEF Inv, UserType
<1>2. stack' = rest /\ UNCHANGED <<grab, revived>>
  BY DEF FreezeNext
<1>3. \A d \in Device : frozen[d] => frozen'[d]
  BY DEF FreezeNext
<1> QED
  BY <1>1, <1>2, <1>3, FrozenKept

LEMMA PassiveKept ==
    ASSUME Inv, NEW ev \in Event, NEW rest \in Seq(Frame), HasPlay(stack) => HasPlay(rest),
           UNCHANGED <<pending, clients>>, PassiveGrab(ev, rest)
    PROVE  Kept
<1>1. PICK c \in clients \cup Freed, this \in Mode, othr \in Mode :
          /\ Activate(ev.dev, c, TRUE, this, othr, ev, rest)
          /\ revived' = revived \cup ({c} \ clients)
  BY DEF PassiveGrab
<1>2. c \in Client /\ ev.dev \in Device
  BY FreedTypes DEF Inv, PeerType, Event
<1> QED
  BY <1>1, <1>2, ActivateKept

LEMMA ImplicitKept ==
    ASSUME Inv, NEW ev \in Event, NEW rest \in Seq(Frame), HasPlay(stack) => HasPlay(rest),
           UNCHANGED <<pending, clients>>, ImplicitGrab(ev, rest)
    PROVE  Kept
<1>1. PICK c \in clients : Activate("pointer", c, TRUE, "Async", "Async", NULL, rest)
  BY DEF ImplicitGrab
<1>2. c \in Client /\ "pointer" \in Device /\ "Async" \in Mode
  BY DEF Inv, PeerType, Device, Mode
<1>3. revived' = revived \cup ({c} \ clients)
  BY DEF ImplicitGrab
<1> QED
  BY <1>1, <1>2, <1>3, ActivateKept

\* What CoreProcess leaves alone
Settled == UNCHANGED <<activatingKey, repeatKey, pending, clients, userVars, grabs>>

LEMMA PressKept ==
    ASSUME Inv, NEW ev \in Event, NEW rest \in Seq(Frame), HasPlay(stack) => HasPlay(rest),
           Press(ev, rest), leaked' = (leaked \/ frozen[ev.dev]), Settled
    PROVE  Kept /\ down' \in [Device -> SUBSET Key]
<1>1. UNCHANGED <<pending, clients>>
  BY DEF Settled
<1>2. ev.key \in Key /\ ev.dev \in Device
  BY DEF Event
<1>3. down' \in [Device -> SUBSET Key]
  BY <1>2 DEF Press, Inv, KeyType
<1> DEFINE after == IF ev.dev = "keyboard" THEN <<Activated(ev.key)>> \o rest ELSE rest
<1>4. after \in Seq(Frame) /\ (HasPlay(stack) => HasPlay(after))
  <2>1. Activated(ev.key) \in Frame
    BY <1>2, FrameTypes
  <2>2. <<Activated(ev.key)>> \in Seq(Frame) /\ <<Activated(ev.key)>> \o rest \in Seq(Frame)
    BY <2>1, One
  <2> QED
    BY <2>2, PlayConcat
<1>5. \/ PassiveGrab(ev, after) \/ ImplicitGrab(ev, rest) \/ Ignore(ev, rest)
      \/ FreezeNext(ev, rest)
  BY Zenon DEF Press
<1>6. CASE PassiveGrab(ev, after)
  BY <1>1, <1>3, <1>4, <1>6, PassiveKept
<1>7. CASE ImplicitGrab(ev, rest)
  BY <1>1, <1>3, <1>7, ImplicitKept
<1>8. CASE Ignore(ev, rest)
  BY <1>1, <1>3, <1>8, IgnoreKept
<1>9. CASE FreezeNext(ev, rest)
  BY <1>1, <1>3, <1>9, FreezeNextKept
<1> QED
  BY <1>5, <1>6, <1>7, <1>8, <1>9

LEMMA ReleaseUpKept ==
    ASSUME Inv, NEW ev \in Event, NEW rest \in Seq(Frame), HasPlay(stack) => HasPlay(rest),
           ReleaseUp(ev, rest), leaked' = (leaked \/ frozen[ev.dev]), Settled
    PROVE  Kept /\ down' \in [Device -> SUBSET Key]
<1>1. UNCHANGED <<pending, clients>>
  BY DEF Settled
<1>2. ev.dev \in Device /\ <<>> \in Seq(Frame)
  BY DEF Event
<1>3. down' \in [Device -> SUBSET Key]
  BY <1>2 DEF ReleaseUp, Inv, KeyType
<1>4. \/ Deactivate(ev.dev, FALSE, <<>>, rest) /\ UNCHANGED revived
      \/ Ignore(ev, rest) \/ FreezeNext(ev, rest)
  BY Zenon DEF ReleaseUp
<1>5. CASE Deactivate(ev.dev, FALSE, <<>>, rest) /\ UNCHANGED revived
  BY <1>1, <1>2, <1>3, <1>5, DeactivateKept
<1>6. CASE Ignore(ev, rest)
  BY <1>1, <1>3, <1>6, IgnoreKept
<1>7. CASE FreezeNext(ev, rest)
  BY <1>1, <1>3, <1>7, FreezeNextKept
<1> QED
  BY <1>4, <1>5, <1>6, <1>7

LEMMA HalvesTypes ==
    ASSUME NEW ev \in Event, NEW rest \in Seq(Frame)
    PROVE  LET halves == <<Handle(Opposite(ev)), Handle(ev)>>
           IN  halves \o rest \in Seq(Frame) /\ (HasPlay(rest) => HasPlay(halves \o rest))
<1>1. Opposite(ev) \in Event
  BY DEF Opposite, Event
<1>2. Handle(Opposite(ev)) \in Frame /\ Handle(ev) \in Frame
  BY <1>1, FrameTypes
<1> DEFINE halves == <<Handle(Opposite(ev)), Handle(ev)>>
<1>3. halves \in Seq(Frame) /\ halves \o rest \in Seq(Frame)
  BY <1>2, Two
<1> QED
  BY <1>3, PlayConcat

LEMMA HandleTwiceKept ==
    ASSUME Inv, NEW ev \in Event, NEW rest \in Seq(Frame), HasPlay(stack) => HasPlay(rest),
           HandleTwice(ev, rest), leaked' = (leaked \/ frozen[ev.dev]), Settled
    PROVE  Kept /\ down' \in [Device -> SUBSET Key]
<1>1. UNCHANGED <<pending, clients>>
  BY DEF Settled
<1>2. down' \in [Device -> SUBSET Key]
  BY DEF HandleTwice, Inv, KeyType
<1> DEFINE after == IF ev.press THEN <<Handle(Opposite(ev)), Handle(ev)>> \o rest ELSE rest
<1>3. after \in Seq(Frame) /\ (HasPlay(stack) => HasPlay(after))
  BY HalvesTypes
<1>4. Ignore(ev, after)
  BY DEF HandleTwice
<1> QED
  BY <1>1, <1>2, <1>3, <1>4, IgnoreKept

LEMMA CoreProcessKept ==
    ASSUME Inv, NEW ev \in Event, NEW rest \in Seq(Frame), HasPlay(stack) => HasPlay(rest),
           CoreProcess(ev, rest), done' \in [Device -> Nat]
    PROVE  Inv'
<1>1. leaked' = (leaked \/ frozen[ev.dev]) /\ Settled
  BY DEF CoreProcess, Settled
<1>2. Kept /\ down' \in [Device -> SUBSET Key]
  BY <1>1, PressKept, ReleaseUpKept, HandleTwiceKept DEF CoreProcess
<1>3. KeyType' /\ PeerType'
  BY <1>1, <1>2 DEF Settled, KeyType, PeerType, Inv, Kept
<1>4. UserType'
  <2>1. leaked' \in BOOLEAN
    BY <1>1 DEF Inv, UserType, Grabs, FlagType, Event
  <2> QED
    BY <1>1, <2>1 DEF Settled, userVars, UserType, Inv
<1>5. CallType'
  BY <1>1, <1>2 DEF Settled, CallType, Inv, Kept
<1> QED
  BY <1>2, <1>3, <1>4, <1>5 DEF Inv, Kept

(***************************************************************************)
(* Every action keeps the invariant                                        *)
(***************************************************************************)
\* The head of stack, for a call that is not PlayReleasedEvents
LEMMA CallOf ==
    ASSUME Inv, NEW what, Calling(what), what # "play"
    PROVE  /\ Head(stack) \in Frame /\ Head(stack).do = what
           /\ Tail(stack) \in Seq(Frame)
           /\ HasPlay(stack) => HasPlay(Tail(stack))
BY TopOf, PlayTail DEF Inv

LEMMA HandleEventInv ==
    ASSUME Inv, HandleEvent
    PROVE  Inv'
<1>1. Calling("handle") /\ CoreProcess(Head(stack).ev, Tail(stack)) /\ UNCHANGED done
  BY DEF HandleEvent
<1>2. /\ Head(stack) \in Frame /\ Head(stack).do = "handle"
      /\ Tail(stack) \in Seq(Frame) /\ (HasPlay(stack) => HasPlay(Tail(stack)))
  BY <1>1, CallOf
<1>3. Head(stack).ev \in Event
  BY <1>2, FrameFields
<1>4. done' \in [Device -> Nat]
  BY <1>1 DEF Inv, UserType
<1> QED
  BY <1>1, <1>2, <1>3, <1>4, CoreProcessKept

\* A call that changes the grabs and who is connected, and no more
LEMMA KeptInv ==
    ASSUME Inv, Kept, UNCHANGED <<keyVars, pending, userVars, done, leaked>>,
           grabs' \in Nat, clients' \subseteq Client
    PROVE  Inv'
<1>1. KeyType' /\ UserType'
  BY DEF keyVars, userVars, KeyType, UserType, Inv
<1>2. CallType' /\ PeerType'
  BY DEF CallType, PeerType, Inv, Kept
<1> QED
  BY <1>1, <1>2 DEF Inv, Kept

\* A call that leaves the grabs alone
LEMMA IdleInv ==
    ASSUME Inv, UNCHANGED <<grabVars, lockVars, down, clients, revived, grabs>>,
           KeyType', CallType', UserType',
           ~leaked' => ~leaked, Played'
    PROVE  Inv'
<1>1. UNCHANGED <<grab, passive, sync, other, event, frozen, queues, clients, revived>>
  BY DEF grabVars, lockVars
<1>2. Grabs'
  BY <1>1 DEF Inv, Grabs, GrabType, FlagType, Agree, Froze, Queued
<1>3. PeerType' /\ GrabsHaveOwners'
  BY <1>1 DEF Inv, PeerType, GrabsHaveOwners
<1> QED
  BY <1>2, <1>3 DEF Inv

\* The calls change, and what waits does not
LEMMA StackPlays ==
    ASSUME Inv, HasPlay(stack) => HasPlay(stack'), UNCHANGED <<pending, frozen>>
    PROVE  Played'
<1>1. HasPlay(stack) => HasPlay(stack)'
  BY DEF HasPlay
<1> QED
  BY <1>1 DEF Inv, Played

LEMMA ProcessEventInv ==
    ASSUME Inv, ProcessEvent
    PROVE  Inv'
<1> DEFINE ev   == Head(stack).ev
           rest == Tail(stack)
<1>1. /\ Head(stack) \in Frame /\ Head(stack).do = "process"
      /\ rest \in Seq(Frame) /\ (HasPlay(stack) => HasPlay(rest))
  BY CallOf DEF ProcessEvent
<1>2. ev \in Event
  BY <1>1, FrameFields
<1>3. done' \in [Device -> Nat]
  <2>1. ev.n \in Nat
    BY <1>2 DEF Event
  <2> QED
    BY <2>1 DEF ProcessEvent, Inv, UserType
<1>4. CASE CoreProcess(ev, rest)
  BY <1>1, <1>2, <1>3, <1>4, CoreProcessKept
<1>5. CASE ~CoreProcess(ev, rest)
  <2>1. /\ stack' = <<Handle(Opposite(ev)), Handle(ev)>> \o rest
        /\ leaked' = (leaked \/ frozen[ev.dev])
        /\ UNCHANGED <<grabVars, lockVars, keyVars, pending, clients, userVars, grabs, revived>>
    BY <1>5, Zenon DEF ProcessEvent
  <2>2. stack' \in Seq(Frame) /\ (HasPlay(stack) => HasPlay(stack'))
    BY <1>1, <1>2, <2>1, HalvesTypes
  <2>3. Played'
    BY <2>1, <2>2, StackPlays DEF lockVars
  <2>4. KeyType' /\ CallType'
    BY <2>1, <2>2 DEF keyVars, KeyType, CallType, Inv
  <2>5. UserType'
    <3>1. leaked' \in BOOLEAN
      BY <1>2, <2>1 DEF Inv, UserType, Grabs, FlagType, Event
    <3> QED
      BY <1>3, <2>1, <3>1 DEF userVars, UserType, Inv
  <2>6. ~leaked' => ~leaked
    BY <2>1, Zenon
  <2> QED
    BY <2>1, <2>3, <2>4, <2>5, <2>6, IdleInv DEF keyVars
<1> QED
  BY <1>4, <1>5

LEMMA SetActivatingKeyInv ==
    ASSUME Inv, SetActivatingKey
    PROVE  Inv'
<1>1. /\ Head(stack) \in Frame /\ Head(stack).do = "activated"
      /\ Tail(stack) \in Seq(Frame) /\ (HasPlay(stack) => HasPlay(Tail(stack)))
  BY CallOf DEF SetActivatingKey
<1>2. Head(stack).key \in Key
  BY <1>1, FrameFields
<1>3. Played'
  BY <1>1, StackPlays DEF SetActivatingKey, lockVars
<1>4. KeyType' /\ CallType' /\ UserType'
  BY <1>1, <1>2 DEF SetActivatingKey, KeyType, CallType, UserType, userVars, Inv
<1> QED
  BY <1>3, <1>4, IdleInv DEF SetActivatingKey

LEMMA ReplayEventInv ==
    ASSUME Inv, ReplayEvent
    PROVE  Inv'
<1> DEFINE ev   == Head(stack).ev
           rest == Tail(stack)
<1>1. /\ Head(stack) \in Frame /\ Head(stack).do = "replay"
      /\ rest \in Seq(Frame) /\ (HasPlay(stack) => HasPlay(rest))
  BY CallOf DEF ReplayEvent
<1>2. ev \in Event
  BY <1>1, FrameFields
<1>3. /\ UNCHANGED <<keyVars, pending, clients, userVars, done, grabs, leaked>>
      /\ \/ PassiveGrab(ev, rest) \/ ImplicitGrab(ev, rest)
         \/ stack' = rest /\ UNCHANGED <<grabVars, lockVars, revived>>
  BY Zenon DEF ReplayEvent
<1>4. CASE stack' = rest /\ UNCHANGED <<grabVars, lockVars, revived>>
  <2>1. Played'
    BY <1>1, <1>3, <1>4, StackPlays DEF lockVars
  <2>2. KeyType' /\ CallType' /\ UserType'
    BY <1>1, <1>3, <1>4 DEF keyVars, KeyType, CallType, UserType, userVars, Inv
  <2> QED
    BY <1>3, <1>4, <2>1, <2>2, IdleInv DEF keyVars
<1>5. CASE PassiveGrab(ev, rest) \/ ImplicitGrab(ev, rest)
  <2>1. Kept
    BY <1>1, <1>2, <1>3, <1>5, PassiveKept, ImplicitKept
  <2>2. grabs' \in Nat /\ clients' \subseteq Client
    BY <1>3 DEF Inv, UserType, PeerType
  <2> QED
    BY <1>3, <2>1, <2>2, KeptInv
<1> QED
  BY <1>3, <1>4, <1>5

LEMMA RemoveAtType ==
    ASSUME NEW S, NEW s \in Seq(S), NEW i \in DOMAIN s
    PROVE  RemoveAt(s, i) \in Seq(S)
<1>1. i \in 1 .. Len(s)
  OBVIOUS
<1>2. SubSeq(s, 1, i - 1) \in Seq(S) /\ SubSeq(s, i + 1, Len(s)) \in Seq(S)
  BY <1>1
<1> QED
  BY <1>2, Concat DEF RemoveAt

LEMMA PlayReleasedEventsInv ==
    ASSUME Inv, PlayReleasedEvents
    PROVE  Inv'
<1>1. /\ stack \in Seq(Frame) /\ stack # <<>> /\ stack[1].do = "play"
      /\ Tail(stack) \in Seq(Frame)
  BY DEF PlayReleasedEvents, Calling, Inv, CallType
<1>2. UNCHANGED <<grabVars, lockVars, down, activatingKey, clients, userVars, done,
                  grabs, leaked, revived>>
  BY DEF PlayReleasedEvents
<1>3. UserType' /\ frozen' = frozen
  BY <1>2 DEF Inv, UserType, userVars, lockVars
<1>4. CASE Released = {} /\ stack' = Tail(stack) /\ UNCHANGED <<pending, repeatKey>>
  <2>1. \A i \in DOMAIN pending : frozen[pending[i].dev]
    BY <1>4 DEF Released
  <2>2. Played'
    BY <1>3, <1>4, <2>1 DEF Played
  <2>3. KeyType' /\ CallType'
    BY <1>1, <1>2, <1>4 DEF KeyType, CallType, Inv
  <2> QED
    BY <1>2, <1>3, <2>2, <2>3, IdleInv
<1>5. ASSUME NEW i \in Released,
             ProcessInput(pending[i], RemoveAt(pending, i), stack)
      PROVE  Inv'
  <2> DEFINE ev == pending[i]
             queue == RemoveAt(pending, i)
  <2>1. ev \in Event /\ queue \in Seq(Event)
    BY RemoveAtType DEF Released, Inv, CallType
  <2>2. CallType' /\ repeatKey' \in Key \cup {NULL}
    BY <1>1, <1>5, <2>1, InputCalls DEF Inv
  <2>3. KeyType'
    BY <1>2, <2>2 DEF KeyType, Inv
  <2>4. HasPlay(stack')
    <3>1. HasPlay(stack)
      BY <1>1 DEF HasPlay
    <3>2. <<Process(ev)>> \in Seq(Frame)
      BY <2>1, FrameTypes, One
    <3>3. stack' = stack \/ stack' = <<Process(ev)>> \o stack
      BY <1>5, Zenon DEF ProcessInput
    <3> QED
      BY <1>1, <3>1, <3>2, <3>3, PlayConcat
  <2>5. Played'
    BY <2>4 DEF Played, HasPlay
  <2> QED
    BY <1>2, <1>3, <2>2, <2>3, <2>5, IdleInv
<1> QED
  BY <1>4, <1>5 DEF PlayReleasedEvents

\* Between two calls, what waits is frozen.
LEMMA IdleWaits ==
    ASSUME Inv, Idle
    PROVE  /\ \A i \in DOMAIN pending : frozen[pending[i].dev]
           /\ <<>> \in Seq(Frame)
           /\ ~HasPlay(stack)
BY DEF Inv, Idle, Played, HasPlay

LEMMA InputInv ==
    ASSUME Inv, NEW d \in Device, NEW k \in Key, Input(d, k)
    PROVE  Inv'
<1> DEFINE ev == [dev |-> d, key |-> k, press |-> k \notin held[d], n |-> arrived[d] + 1]
<1>1. /\ ProcessInput(ev, pending, <<>>)
      /\ UNCHANGED <<grabVars, lockVars, down, activatingKey, clients, done, grabs,
                     leaked, revived>>
  BY DEF Input
<1>2. UserType' /\ frozen' = frozen
  BY <1>1 DEF Input, Inv, UserType, lockVars
<1>3. ev \in Event
  BY DEF Event, Inv, UserType
<1>4. /\ \A i \in DOMAIN pending : frozen[pending[i].dev]
      /\ <<>> \in Seq(Frame) /\ pending \in Seq(Event)
  BY IdleWaits DEF Input, Inv, CallType
<1>5. CallType' /\ repeatKey' \in Key \cup {NULL}
  BY <1>1, <1>3, <1>4, InputCalls DEF Inv
<1>6. KeyType'
  BY <1>1, <1>5 DEF KeyType, Inv
<1>7. Played'
  <2>1. CASE pending' = pending
    BY <1>2, <1>4, <2>1 DEF Played
  <2>2. CASE pending' = Append(pending, ev) /\ queues[d]
    <3>1. frozen[d]
      BY <2>2 DEF Inv, Grabs, Queued
    <3>2. ASSUME NEW i \in DOMAIN pending' PROVE frozen[pending'[i].dev]
      <4>1. i \in 1 .. Len(pending) + 1
        BY <1>3, <1>4, <2>2, <3>2
      <4>2. CASE i = Len(pending) + 1
        <5>1. pending'[i] = ev
          BY <1>3, <1>4, <2>2, <4>2
        <5> QED
          BY <3>1, <5>1
      <4>3. CASE i \in DOMAIN pending
        <5>1. pending'[i] = pending[i]
          BY <1>3, <1>4, <2>2, <4>3
        <5> QED
          BY <1>4, <4>3, <5>1
      <4> QED
        BY <1>4, <4>1, <4>2, <4>3
    <3> QED
      BY <1>2, <3>2 DEF Played
  <2> QED
    BY <1>1, <2>1, <2>2 DEF ProcessInput, EnqueueEvent
<1> QED
  BY <1>1, <1>2, <1>5, <1>6, <1>7, IdleInv

LEMMA RepeatKeyExpireInv ==
    ASSUME Inv, RepeatKeyExpire
    PROVE  Inv'
<1>1. /\ Idle /\ repeatKey # NULL
      /\ stack' = <<Repeated(FALSE), Repeated(TRUE)>>
      /\ UNCHANGED <<grabVars, lockVars, keyVars, pending, clients, userVars, done,
                     grabs, leaked, revived>>
  BY DEF RepeatKeyExpire
<1>2. repeatKey \in Key
  BY <1>1 DEF Inv, KeyType
<1>3. Repeated(FALSE) \in Frame /\ Repeated(TRUE) \in Frame
  <2> DEFINE ev(press) == [dev |-> "keyboard", key |-> repeatKey, press |-> press, n |-> 0]
  <2>1. ev(FALSE) \in Event /\ ev(TRUE) \in Event
    BY <1>2 DEF Event, Device
  <2>2. Process(ev(FALSE)) \in Frame /\ Process(ev(TRUE)) \in Frame
    BY <2>1, FrameTypes
  <2> QED
    BY <2>2 DEF Repeated
<1>4. stack' \in Seq(Frame)
  BY <1>1, <1>3, IdleWaits, Two
<1>5. KeyType' /\ CallType' /\ UserType'
  BY <1>1, <1>4 DEF keyVars, userVars, KeyType, CallType, UserType, Inv
<1>6. Played'
  BY <1>1, IdleWaits DEF Played, lockVars
<1> QED
  BY <1>1, <1>5, <1>6, IdleInv DEF keyVars

LEMMA RequestInv ==
    ASSUME Inv, Kept, Requested, grabs' \in Nat
    PROVE  Inv'
<1>1. UNCHANGED <<keyVars, pending, clients, userVars, done, leaked>>
  BY DEF Requested
<1>2. clients' \subseteq Client
  BY <1>1 DEF Inv, PeerType
<1> QED
  BY <1>1, <1>2, KeptInv

LEMMA GrabDeviceInv ==
    ASSUME Inv, NEW c \in Client, NEW d \in Device, NEW this \in Mode, NEW othr \in Mode,
           GrabDevice(c, d, this, othr)
    PROVE  Inv'
<1>1. /\ Idle /\ c \in clients /\ grabs' = grabs + 1 /\ Requested
      /\ Activate(d, c, FALSE, this, othr, NULL, <<>>)
  BY DEF GrabDevice
<1>2. revived' = revived \cup ({c} \ clients) /\ UNCHANGED <<pending, clients>>
  BY <1>1 DEF Requested
<1>3. Kept
  BY <1>1, <1>2, IdleWaits, ActivateKept
<1>4. grabs' \in Nat
  BY <1>1 DEF Inv, UserType
<1> QED
  BY <1>1, <1>3, <1>4, RequestInv

\* What ends a grab between two calls
LEMMA EndOfGrabInv ==
    ASSUME Inv, Idle, NEW d \in Device, NEW synced \in BOOLEAN, NEW first \in Seq(Frame),
           Deactivate(d, synced, first, <<>>), UNCHANGED grabs, Requested
    PROVE  Inv'
<1>1. UNCHANGED <<pending, clients, revived>>
  BY DEF Requested
<1>2. Kept
  BY <1>1, IdleWaits, DeactivateKept
<1>3. grabs' \in Nat
  BY DEF Inv, UserType
<1> QED
  BY <1>2, <1>3, RequestInv

LEMMA UngrabInv ==
    ASSUME Inv, NEW c \in Client, NEW d \in Device, Ungrab(c, d)
    PROVE  Inv'
BY IdleWaits, EndOfGrabInv DEF Ungrab

LEMMA WindowGoneInv ==
    ASSUME Inv, NEW d \in Device, WindowGone(d)
    PROVE  Inv'
BY IdleWaits, EndOfGrabInv DEF WindowGone

LEMMA AllowEventsInv ==
    ASSUME Inv, NEW c \in Client, NEW d \in Device, AllowEvents(c, d)
    PROVE  Inv'
<1>1. Idle /\ UNCHANGED grabs /\ Requested
  BY DEF AllowEvents
<1>2. UNCHANGED <<pending, clients, revived>>
  BY <1>1 DEF Requested
<1>3. CASE AllowReplay(c, d)
  <2>1. /\ sync[d] = "FROZEN_WITH_EVENT"
        /\ Deactivate(d, Synced(c, d), <<Replay(event[d])>>, <<>>)
    BY <1>3 DEF AllowReplay
  <2>2. event[d] \in Event
    BY <2>1 DEF Inv, Grabs, GrabType, Agree
  <2>3. <<Replay(event[d])>> \in Seq(Frame)
    BY <2>2, FrameTypes, One
  <2>4. Synced(c, d) \in BOOLEAN
    BY SyncedIsBoolean DEF Inv
  <2> QED
    BY <1>1, <2>1, <2>3, <2>4, EndOfGrabInv
<1>4. ASSUME Grabs', UNCHANGED grab, ComputeFreezes(<<>>, <<>>)
      PROVE  Inv'
  <2>1. stack' \in Seq(Frame) /\ Played'
    BY <1>1, <1>2, <1>4, IdleWaits, ComputeCalls, ComputePlays
  <2>2. GrabsHaveOwners' /\ revived' \subseteq Client
    BY <1>2, <1>4 DEF Inv, GrabsHaveOwners, PeerType
  <2>3. grabs' \in Nat
    BY <1>1 DEF Inv, UserType
  <2> QED
    BY <1>1, <1>4, <2>1, <2>2, <2>3, RequestInv DEF Kept
<1>5. ASSUME NEW state \in {"THAWED", "FREEZE_NEXT_EVENT"}, AllowOne(c, d, state)
      PROVE  Inv'
  <2>1. Grabs'
    BY <1>5, AllowOneGrabs DEF Inv
  <2> QED
    BY <1>4, <1>5, <2>1 DEF AllowOne
<1>6. ASSUME NEW state \in {"THAWED", "FREEZE_BOTH_NEXT_EVENT"}, AllowBoth(c, state)
      PROVE  Inv'
  <2>1. Grabs'
    BY <1>6, AllowBothGrabs DEF Inv
  <2> QED
    BY <1>4, <1>6, <2>1 DEF AllowBoth
<1> QED
  BY <1>3, <1>5, <1>6 DEF AllowEvents

LEMMA ConnectInv ==
    ASSUME Inv, NEW c \in Client, Connect(c)
    PROVE  Inv'
<1>1. clients' = clients \cup {c} /\ revived' = revived \ {c}
  BY DEF Connect
<1>2. UNCHANGED <<grab, passive, sync, other, event, frozen, queues, keyVars, pending,
                  stack, userVars, done, grabs, leaked>>
  BY DEF Connect, grabVars, lockVars
<1>3. Grabs'
  BY <1>2 DEF Inv, Grabs, GrabType, FlagType, Agree, Froze, Queued
<1>4. KeyType' /\ CallType' /\ UserType' /\ PeerType'
  BY <1>1, <1>2 DEF keyVars, userVars, KeyType, CallType, UserType, PeerType, Inv
<1>5. GrabsHaveOwners' /\ Played'
  BY <1>1, <1>2 DEF Inv, GrabsHaveOwners, Played, HasPlay
<1> QED
  BY <1>3, <1>4, <1>5 DEF Inv

LEMMA CloseDownClientInv ==
    ASSUME Inv, NEW c \in Client, CloseDownClient(c)
    PROVE  Inv'
<1>1. /\ Idle /\ stack' = <<Release(c), Free(c)>>
      /\ UNCHANGED <<grabVars, lockVars, keyVars, pending, clients, userVars, done,
                     grabs, leaked, revived>>
  BY DEF CloseDownClient
<1>2. stack' \in Seq(Frame)
  BY <1>1, FrameTypes, IdleWaits, Two
<1>3. KeyType' /\ CallType' /\ UserType'
  BY <1>1, <1>2 DEF keyVars, userVars, KeyType, CallType, UserType, Inv
<1>4. Played'
  BY <1>1, IdleWaits DEF Played, lockVars
<1> QED
  BY <1>1, <1>3, <1>4, IdleInv DEF keyVars

LEMMA ReleaseActiveGrabsInv ==
    ASSUME Inv, ReleaseActiveGrabs
    PROVE  Inv'
<1> DEFINE c == Head(stack).client
<1>1. /\ Head(stack) \in Frame /\ Head(stack).do = "release"
      /\ Tail(stack) \in Seq(Frame) /\ (HasPlay(stack) => HasPlay(Tail(stack)))
  BY CallOf DEF ReleaseActiveGrabs
<1>2. stack \in Seq(Frame) /\ <<>> \in Seq(Frame)
  BY DEF Inv, CallType
<1>3. UNCHANGED <<keyVars, pending, userVars, done, grabs, leaked, revived>>
  BY DEF ReleaseActiveGrabs
<1>4. grabs' \in Nat
  BY <1>3 DEF Inv, UserType
<1>5. ASSUME NEW d \in Device, Deactivate(d, FALSE, <<>>, stack), UNCHANGED clients
      PROVE  Inv'
  <2>1. Kept
    BY <1>2, <1>3, <1>5, DeactivateKept
  <2>2. clients' \subseteq Client
    BY <1>5 DEF Inv, PeerType
  <2> QED
    BY <1>3, <1>4, <2>1, <2>2, KeptInv
<1>6. CASE /\ \A d \in Device : grab[d] # c
           /\ clients' = clients \ {c}
           /\ stack' = Tail(stack)
           /\ UNCHANGED <<grabVars, lockVars>>
  <2>1. UNCHANGED <<grab, passive, sync, other, event, frozen, queues>>
    BY <1>6 DEF grabVars, lockVars
  <2>2. Grabs'
    BY <1>3, <2>1 DEF Inv, Grabs, GrabType, FlagType, Agree, Froze, Queued
  <2>3. GrabsHaveOwners'
    BY <1>3, <1>6, <2>1 DEF Inv, GrabsHaveOwners
  <2>4. Played'
    BY <1>1, <1>3, <1>6, <2>1, StackPlays
  <2>5. Kept
    BY <1>1, <1>3, <1>6, <2>2, <2>3, <2>4 DEF Kept, Inv, PeerType
  <2>6. clients' \subseteq Client
    BY <1>6 DEF Inv, PeerType
  <2> QED
    BY <1>3, <1>4, <2>5, <2>6, KeptInv
<1> QED
  BY <1>5, <1>6 DEF ReleaseActiveGrabs

LEMMA FreeClientResourcesInv ==
    ASSUME Inv, FreeClientResources
    PROVE  Inv'
<1>1. /\ Tail(stack) \in Seq(Frame) /\ (HasPlay(stack) => HasPlay(Tail(stack)))
      /\ stack \in Seq(Frame) /\ <<>> \in Seq(Frame)
  BY CallOf DEF FreeClientResources, Inv, CallType
<1>2. UNCHANGED <<keyVars, pending, clients, userVars, done, grabs, leaked, revived>>
  BY DEF FreeClientResources
<1>3. grabs' \in Nat /\ clients' \subseteq Client
  BY <1>2 DEF Inv, UserType, PeerType
<1>4. ASSUME NEW d \in Device, Deactivate(d, FALSE, <<>>, stack)
      PROVE  Inv'
  <2>1. Kept
    BY <1>1, <1>2, <1>4, DeactivateKept
  <2> QED
    BY <1>2, <1>3, <2>1, KeptInv
<1>5. CASE stack' = Tail(stack) /\ UNCHANGED <<grabVars, lockVars>>
  <2>1. Played'
    BY <1>1, <1>2, <1>5, StackPlays DEF lockVars
  <2>2. KeyType' /\ CallType' /\ UserType'
    BY <1>1, <1>2, <1>5 DEF keyVars, userVars, KeyType, CallType, UserType, Inv
  <2> QED
    BY <1>2, <1>5, <2>1, <2>2, IdleInv DEF keyVars
<1> QED
  BY <1>4, <1>5 DEF FreeClientResources

(***************************************************************************)
(* The theorems                                                            *)
(***************************************************************************)
LEMMA InitInv == Init => Inv
<1> SUFFICES ASSUME Init PROVE Inv
  OBVIOUS
<1>1. GrabType /\ FlagType /\ KeyType /\ UserType /\ PeerType
  BY DEF Init, GrabType, FlagType, KeyType, UserType, PeerType, State
<1>2. CallType
  BY DEF Init, CallType
<1>3. Agree /\ Froze /\ Queued
  BY DEF Init, Agree, Froze, Queued, Held
<1>4. GrabsHaveOwners /\ Played
  BY DEF Init, GrabsHaveOwners, Played, HasPlay
<1> QED
  BY <1>1, <1>2, <1>3, <1>4 DEF Inv, Grabs

LEMMA NextInv == Inv /\ [Next]_vars => Inv'
<1> SUFFICES ASSUME Inv, [Next]_vars PROVE Inv'
  OBVIOUS
<1>1. CASE Call
  BY <1>1, HandleEventInv, ProcessEventInv, SetActivatingKeyInv, ReplayEventInv,
     PlayReleasedEventsInv, ReleaseActiveGrabsInv, FreeClientResourcesInv DEF Call
<1>2. CASE \E d \in Device, k \in Key : Input(d, k)
  BY <1>2, InputInv
<1>3. CASE RepeatKeyExpire
  BY <1>3, RepeatKeyExpireInv
<1>4. CASE \E d \in Device : WindowGone(d)
  BY <1>4, WindowGoneInv
<1>5. ASSUME NEW c \in Client, Request(c) PROVE Inv'
  BY <1>5, GrabDeviceInv, UngrabInv, AllowEventsInv DEF Request
<1>6. ASSUME NEW c \in Client, Connect(c) \/ CloseDownClient(c) PROVE Inv'
  BY <1>6, ConnectInv, CloseDownClientInv
<1>7. CASE UNCHANGED vars
  <2>1. UNCHANGED <<grab, passive, sync, other, event, frozen, queues, down, activatingKey,
                    repeatKey, pending, stack, clients, held, arrived, done, grabs,
                    leaked, revived>>
    BY <1>7 DEF vars, grabVars, lockVars, keyVars, userVars
  <2>2. Grabs'
    BY <2>1 DEF Inv, Grabs, GrabType, FlagType, Agree, Froze, Queued
  <2>3. KeyType' /\ CallType' /\ UserType' /\ PeerType'
    BY <2>1 DEF KeyType, CallType, UserType, PeerType, Inv
  <2>4. GrabsHaveOwners' /\ Played'
    BY <2>1 DEF Inv, GrabsHaveOwners, Played, HasPlay
  <2> QED
    BY <2>2, <2>3, <2>4 DEF Inv
<1> QED
  BY <1>1, <1>2, <1>3, <1>4, <1>5, <1>6, <1>7 DEF Next

\* Inv is inductive: no request, event, timer or death, and no call that is
\* interrupted by the events it plays, breaks a part of it (dix/events.c).
THEOREM Invariance == Spec => []Inv
<1>1. Init => Inv
  BY InitInv
<1>2. Inv /\ [Next]_vars => Inv'
  BY NextInv
<1> QED
  BY <1>1, <1>2, PTL DEF Spec

\* Every field has its type, and in particular a replay has an event: AllowSome
\* replays only from FROZEN_WITH_EVENT, the one state in which sync.event is set.
THEOREM TypeCorrect == Spec => []TypeOK
<1>1. Inv => TypeOK
  BY Parts DEF Inv, Grabs
<1> QED
  BY <1>1, Invariance, PTL

\* The pointers of AllowSome, DeliverGrabbedEvent and the releases lead to grabs that
\* exist, and ComputeFreezes comes to the same as the updates made without it.
THEOREM PointersAgree == Spec => []GrabsAgree
<1>1. Inv => GrabsAgree
  <2> SUFFICES ASSUME Inv PROVE GrabsAgree
    OBVIOUS
  <2>1. ASSUME ~leaked PROVE queues = frozen
    <3>1. \A d \in Device : queues[d] <=> frozen[d]
      BY <2>1 DEF Inv, Grabs, Queued
    <3>2. \A d \in Device : queues[d] = frozen[d]
      BY <3>1 DEF Inv, Grabs, FlagType
    <3> QED
      BY <3>2 DEF Inv, Grabs, FlagType
  <2> QED
    BY <2>1 DEF GrabsAgree, Inv, Grabs, Agree, Froze
<1> QED
  BY <1>1, Invariance, PTL

\* Whatever thaws a device plays what waits for it before the next request:
\* ComputeFreezes, called again while it plays, leaves that to the first call.
THEOREM NothingLeftBehind == Spec => []WaitsForAThaw
<1>1. Inv => WaitsForAThaw
  BY IdleWaits DEF WaitsForAThaw
<1> QED
  BY <1>1, Invariance, PTL

\* A grab is one of a connected client, or came to life while FreeClientResources
\* was at the client that has it.
THEOREM GrabsAreOwned == Spec => []GrabsHaveOwners
<1>1. Inv => GrabsHaveOwners
  BY DEF Inv
<1> QED
  BY <1>1, Invariance, PTL

LEMMA GrabSpares ==
    ASSUME Inv, NEW c \in Client, NEW d \in Device, NEW this \in Mode, NEW othr \in Mode,
           GrabDevice(c, d, this, othr), NEW x \in Device
    PROVE  /\ grab[x] \notin {c, NULL} => grab'[x] = grab[x]
           /\ FrozenBy(x) \ {c} \subseteq FrozenBy(x)'
<1>1. /\ MayGrab(c, d)
      /\ grab' = [grab EXCEPT ![d] = c]
      /\ \A y \in Device : y # d => sync'[y] = sync[y]
      /\ other' = [y \in Device |-> IF y = d THEN other[d] /\ ~(this = "Async" /\ grab[Other(d)] = c)
                                              ELSE othr = "Sync"]
  BY DEF GrabDevice, Activate, Inv, Grabs, GrabType
<1>2. grab[d] \in {c, NULL}
  BY <1>1 DEF MayGrab
<1>3. /\ \A y \in Device : y # d => grab'[y] = grab[y]
      /\ grab'[d] = c
  BY <1>1 DEF Inv, Grabs, GrabType
<1>4. ASSUME NEW p \in Client, p # c, grab[x] = p, sync[x] \in Held
      PROVE  grab'[x] = p /\ sync'[x] \in Held
  BY <1>1, <1>2, <1>3, <1>4, NullAssumption
<1>5. ASSUME NEW p \in Client, p # c, grab[Other(x)] = p, other[x]
      PROVE  grab'[Other(x)] = p /\ other'[x]
  <2>1. Other(x) # d /\ x = d
    BY <1>2, <1>5, NullAssumption DEF Other, Device
  <2>2. Other(x) \in Device
    BY DEF Other, Device
  <2> QED
    BY <1>1, <1>3, <1>5, <2>1, <2>2
<1> QED
  BY <1>2, <1>3, <1>4, <1>5 DEF FrozenBy

LEMMA EndSpares ==
    ASSUME Inv, NEW c \in Client, NEW d \in Device, grab[d] = c,
           NEW synced, synced \in {FALSE, Synced(c, d)}, NEW first, NEW rest,
           Deactivate(d, synced, first, rest), NEW x \in Device
    PROVE  /\ grab[x] \notin {c, NULL} => grab'[x] = grab[x]
           /\ FrozenBy(x) \ {c} \subseteq FrozenBy(x)'
<1>1. /\ grab'[d] = NULL /\ grab'[Other(d)] = grab[Other(d)]
      /\ sync'[Other(d)] = sync[Other(d)]
      /\ other'[d] = (other[d] /\ ~synced)
  BY DEF Deactivate, Inv, Grabs, GrabType, FlagType, Other, Device
<1>2. x = d \/ (x = Other(d) /\ Other(x) = d)
  BY DEF Other, Device
<1>3. ASSUME NEW p \in Client, p # c, grab[x] = p, sync[x] \in Held
      PROVE  grab'[x] = p /\ sync'[x] \in Held
  BY <1>1, <1>2, <1>3
<1>4. ASSUME NEW p \in Client, p # c, grab[Other(x)] = p, other[x]
      PROVE  grab'[Other(x)] = p /\ other'[x]
  <2>1. x = d
    BY <1>2, <1>4
  <2>2. ~synced
    BY <1>4, <2>1 DEF Synced
  <2> QED
    BY <1>1, <1>4, <2>1, <2>2
<1> QED
  BY <1>1, <1>2, <1>3, <1>4 DEF FrozenBy

LEMMA AllowSpares ==
    ASSUME Inv, NEW c \in Client, NEW x \in Device, UNCHANGED grab,
           \A y \in Device : grab[y] # c => sync'[y] = sync[y],
           \A y \in Device : grab[Other(y)] # c /\ other[y] => other'[y]
    PROVE  /\ grab[x] \notin {c, NULL} => grab'[x] = grab[x]
           /\ FrozenBy(x) \ {c} \subseteq FrozenBy(x)'
BY DEF FrozenBy

\* Of what another client holds or freezes, a client's request changes nothing: the
\* guards of ProcGrabPointer and the pointers AllowSome compares see to it.
THEOREM OthersAreSpared == Spec => OthersKeepTheirs
<1> DEFINE Spares(c) == \A x \in Device :
                           /\ grab[x] \notin {c, NULL} => grab'[x] = grab[x]
                           /\ FrozenBy(x) \ {c} \subseteq FrozenBy(x)'
<1>1. ASSUME Inv, NEW c \in Client, Request(c) PROVE Spares(c)
  <2>1. ASSUME NEW d \in Device, NEW this \in Mode, NEW othr \in Mode,
               GrabDevice(c, d, this, othr)
        PROVE  Spares(c)
    BY <1>1, <2>1, GrabSpares
  <2>2. ASSUME NEW d \in Device, Ungrab(c, d)
        PROVE  Spares(c)
    BY <1>1, <2>2, EndSpares DEF Ungrab
  <2>3. ASSUME NEW d \in Device, AllowEvents(c, d)
        PROVE  Spares(c)
    <3>1. ASSUME NEW state, AllowOne(c, d, state) PROVE Spares(c)
      <4>1. \A y \in Device : grab[y] # c => sync'[y] = sync[y]
        BY <3>1 DEF AllowOne, Inv, Grabs, GrabType
      <4>2. \A y \in Device : grab[Other(y)] # c /\ other[y] => other'[y]
        <5> SUFFICES ASSUME NEW y \in Device, grab[Other(y)] # c, other[y] PROVE other'[y]
          OBVIOUS
        <5>1. CASE y = d
          <6>1. Synced(c, d) = FALSE
            BY <5>1, SyncedIsBoolean DEF Synced, Inv
          <6>2. other[d] = TRUE
            BY <5>1 DEF Inv, Grabs, FlagType
          <6>3. (other[d] /\ ~Synced(c, d)) = TRUE
            BY <6>1, <6>2, Zenon
          <6>4. other' = [other EXCEPT ![d] = TRUE]
            BY <3>1, <6>3, Zenon DEF AllowOne
          <6> QED
            BY <5>1, <6>4 DEF Inv, Grabs, FlagType
        <5>2. CASE y # d
          BY <3>1, <5>2 DEF AllowOne, Inv, Grabs, FlagType
        <5> QED
          BY <5>1, <5>2
      <4> QED
        BY <1>1, <3>1, <4>1, <4>2, AllowSpares DEF AllowOne
    <3>2. ASSUME NEW state, AllowBoth(c, state) PROVE Spares(c)
      <4>1. \A y \in Device : grab[y] # c => sync'[y] = sync[y]
        BY <3>2 DEF AllowBoth
      <4>2. \A y \in Device : grab[Other(y)] # c /\ other[y] => other'[y]
        BY <3>2 DEF AllowBoth
      <4> QED
        BY <1>1, <3>2, <4>1, <4>2, AllowSpares DEF AllowBoth
    <3>3. CASE AllowReplay(c, d)
      BY <1>1, <3>3, EndSpares DEF AllowReplay
    <3> QED
      BY <2>3, <3>1, <3>2, <3>3 DEF AllowEvents
  <2> QED
    BY <1>1, <2>1, <2>2, <2>3 DEF Request
<1>2. Inv /\ [Next]_vars =>
      [\A c \in Client : Request(c) =>
          \A d \in Device :
             /\ grab[d] \notin {c, NULL} => grab'[d] = grab[d]
             /\ FrozenBy(d) \ {c} \subseteq FrozenBy(d)']_vars
  BY <1>1
<1> QED
  BY <1>2, Invariance, PTL DEF Spec, OthersKeepTheirs
(***************************************************************************)
(* The order of events                                                     *)
(***************************************************************************)
\* The calls that process no event of the user
Quiet == {f \in Frame : f.do = "process" => f.ev.n = 0}

\* An event of the user is processed by the innermost call.
OnTop == stack # <<>> => Tail(stack) \in Seq(Quiet)

\* An event of d is about to be processed, and the last one not to wait
At(d)   == Calling("process") /\ Head(stack).ev.n # 0 /\ Head(stack).ev.dev = d
Due(d)  == IF At(d) THEN done[d] + 1 ELSE done[d]

\* The events of d in a queue are those after lo up to hi, in their order.
Line(queue, d, lo, hi) ==
    /\ lo <= hi
    /\ \A i \in DOMAIN queue : queue[i].dev = d => queue[i].n \in (lo + 1) .. hi
    /\ \A n \in (lo + 1) .. hi : \E i \in DOMAIN queue : queue[i].dev = d /\ queue[i].n = n
    /\ \A i, j \in DOMAIN queue :
          queue[i].dev = d /\ queue[j].dev = d /\ i < j => queue[i].n < queue[j].n

Ordered ==
    /\ OnTop
    /\ ~leaked => \A d \in Device :
          /\ At(d) => Head(stack).ev.n = done[d] + 1 /\ ~frozen[d]
          /\ Line(pending, d, Due(d), arrived[d])

LEMMA AppendFields ==
    ASSUME NEW queue \in Seq(Event), NEW ev \in Event
    PROVE  /\ DOMAIN Append(queue, ev) = 1 .. Len(queue) + 1
           /\ Append(queue, ev)[Len(queue) + 1] = ev
           /\ \A i \in DOMAIN queue : /\ i \in DOMAIN Append(queue, ev)
                                      /\ Append(queue, ev)[i] = queue[i]
           /\ \A i \in DOMAIN Append(queue, ev) : i \in DOMAIN queue \/ i = Len(queue) + 1
           /\ \A i \in DOMAIN queue : i < Len(queue) + 1
OBVIOUS

\* A new event goes to the end of its line, and leaves the other line alone.
LEMMA LineAppend ==
    ASSUME NEW queue \in Seq(Event), NEW ev \in Event, NEW d \in Device,
           NEW lo \in Nat, NEW hi \in Nat, Line(queue, d, lo, hi),
           ev.dev = d => ev.n = hi + 1
    PROVE  Line(Append(queue, ev), d, lo, IF ev.dev = d THEN hi + 1 ELSE hi)
<1> DEFINE q == Append(queue, ev)
           last == Len(queue) + 1
           h == IF ev.dev = d THEN hi + 1 ELSE hi
<1>1. /\ last \in DOMAIN q /\ q[last] = ev
      /\ \A i \in DOMAIN queue : i \in DOMAIN q /\ q[i] = queue[i] /\ i < last
      /\ \A i \in DOMAIN q : i \in DOMAIN queue \/ i = last
      /\ last \in Nat /\ \A i \in DOMAIN q : i \in Nat
  BY AppendFields
<1>2. h \in Nat /\ hi <= h /\ lo <= h /\ (ev.dev = d => h = hi + 1) /\ (ev.dev # d => h = hi)
  BY DEF Line
<1> HIDE DEF q, last, h
<1>3. \A i \in DOMAIN q : q[i].dev = d => q[i].n \in (lo + 1) .. h
  <2> SUFFICES ASSUME NEW i \in DOMAIN q, q[i].dev = d PROVE q[i].n \in (lo + 1) .. h
    OBVIOUS
  <2>1. CASE i = last
    BY <1>1, <1>2, <2>1 DEF Line
  <2>2. CASE i \in DOMAIN queue
    <3>1. queue[i].n \in (lo + 1) .. hi
      BY <1>1, <2>2 DEF Line
    <3>2. QED
      BY <1>1, <1>2, <2>2, <3>1
  <2>3. QED
    BY <1>1, <2>1, <2>2
<1>4. \A n \in (lo + 1) .. h : \E i \in DOMAIN q : q[i].dev = d /\ q[i].n = n
  <2> SUFFICES ASSUME NEW n \in (lo + 1) .. h PROVE \E i \in DOMAIN q : q[i].dev = d /\ q[i].n = n
    OBVIOUS
  <2>1. CASE n \in (lo + 1) .. hi
    BY <1>1, <2>1 DEF Line
  <2>2. CASE n \notin (lo + 1) .. hi
    <3>1. ev.dev = d /\ n = hi + 1
      BY <1>2, <2>2
    <3>2. QED
      BY <1>1, <3>1
  <2>3. QED
    BY <2>1, <2>2
<1>5. \A i, j \in DOMAIN q : q[i].dev = d /\ q[j].dev = d /\ i < j => q[i].n < q[j].n
  <2> SUFFICES ASSUME NEW i \in DOMAIN q, NEW j \in DOMAIN q, q[i].dev = d, q[j].dev = d, i < j
               PROVE  q[i].n < q[j].n
    OBVIOUS
  <2>1. i \in DOMAIN queue
    BY <1>1
  <2>2. queue[i].n \in (lo + 1) .. hi /\ q[i].n = queue[i].n
    BY <1>1, <2>1 DEF Line
  <2>3. CASE j \in DOMAIN queue
    BY <1>1, <2>1, <2>3 DEF Line
  <2>4. CASE j = last
    <3>1. q[j].n = hi + 1
      BY <1>1, <2>4
    <3>2. QED
      BY <2>2, <3>1
  <2>5. QED
    BY <1>1, <2>3, <2>4
<1>6. QED
  BY <1>2, <1>3, <1>4, <1>5 DEF Line, q, h

\* The lines of d when nothing of d waits
LEMMA LineEmpty ==
    ASSUME NEW queue, NEW d, NEW lo \in Nat, NEW hi \in Nat, Line(queue, d, lo, hi),
           \A i \in DOMAIN queue : queue[i].dev # d
    PROVE  lo = hi /\ Line(queue, d, hi + 1, hi + 1)
<1>1. lo = hi
  <2>1. lo + 1 \notin (lo + 1) .. hi
    BY DEF Line
  <2>2. QED
    BY <2>1 DEF Line
<1>2. \A n : n \notin (hi + 1 + 1) .. (hi + 1)
  OBVIOUS
<1>3. hi + 1 <= hi + 1
  OBVIOUS
<1>4. QED
  BY <1>1, <1>2, <1>3 DEF Line

LEMMA Joined ==
    ASSUME NEW S, NEW a \in Seq(S), NEW b \in Seq(S)
    PROVE  /\ DOMAIN (a \o b) = 1 .. Len(a) + Len(b)
           /\ \A i \in 1 .. Len(a) : (a \o b)[i] = a[i]
           /\ \A i \in DOMAIN b : (a \o b)[Len(a) + i] = b[i]
<1>1. Len(a) \in Nat /\ Len(b) \in Nat /\ DOMAIN b = 1 .. Len(b)
  OBVIOUS
<1>2. a \o b \in Seq(S) /\ Len(a \o b) = Len(a) + Len(b)
  OBVIOUS
<1>3. ASSUME NEW i \in 1 .. Len(a) PROVE (a \o b)[i] = a[i]
  BY <1>1, <1>3
<1>4. ASSUME NEW i \in DOMAIN b PROVE (a \o b)[Len(a) + i] = b[i]
  BY <1>1, <1>4
<1>5. QED
  BY <1>2, <1>3, <1>4

LEMMA Gap ==
    ASSUME NEW m \in Nat, NEW i \in 1 .. m, NEW j \in 1 .. (i - 1) + (m - i), ~ (j <= i - 1)
    PROVE  j - (i - 1) \in 1 .. m - i /\ (i - 1) + (j - (i - 1)) = j
OBVIOUS

LEMMA RemoveFields ==
    ASSUME NEW queue \in Seq(Event), NEW i \in DOMAIN queue
    PROVE  LET q == RemoveAt(queue, i)
           IN  /\ DOMAIN q = 1 .. Len(queue) - 1
               /\ \A j \in DOMAIN q : q[j] = IF j < i THEN queue[j] ELSE queue[j + 1]
<1>1. i \in 1 .. Len(queue) /\ Len(queue) \in Nat
  OBVIOUS
<1> DEFINE a == SubSeq(queue, 1, i - 1)
           b == SubSeq(queue, i + 1, Len(queue))
<1>2. /\ a \in Seq(Event) /\ Len(a) = i - 1
      /\ \A j \in 1 .. i - 1 : a[j] = queue[j]
  BY <1>1
<1>3. /\ b \in Seq(Event) /\ Len(b) = Len(queue) - i
      /\ \A j \in 1 .. Len(queue) - i : b[j] = queue[i + j]
  BY <1>1
<1>4. RemoveAt(queue, i) = a \o b
  BY DEF RemoveAt
<1> HIDE DEF a, b
<1>5. /\ DOMAIN (a \o b) = 1 .. (i - 1) + (Len(queue) - i)
      /\ \A j \in DOMAIN (a \o b) : (a \o b)[j] = IF j <= i - 1 THEN a[j] ELSE b[j - (i - 1)]
  <2> DEFINE ab == a \o b
             m == Len(queue)
  <2>1. /\ DOMAIN ab = 1 .. Len(a) + Len(b)
        /\ \A j \in 1 .. Len(a) : ab[j] = a[j]
        /\ \A k \in DOMAIN b : ab[Len(a) + k] = b[k]
    <3>1. a \in Seq(Event) /\ b \in Seq(Event)
      BY <1>2, <1>3
    <3>2. QED
      BY <3>1, Joined
  <2>2. Len(a) = i - 1 /\ Len(b) = m - i /\ DOMAIN b = 1 .. Len(b)
    BY <1>2, <1>3
  <2> HIDE DEF ab
  <2>3. /\ DOMAIN ab = 1 .. (i - 1) + (m - i)
        /\ \A j \in 1 .. i - 1 : ab[j] = a[j]
        /\ \A k \in 1 .. m - i : ab[(i - 1) + k] = b[k]
    BY <2>1, <2>2
  <2>4. m \in Nat /\ i \in 1 .. m
    BY <1>1
  <2> HIDE DEF m
  <2>5. ASSUME NEW j \in 1 .. (i - 1) + (m - i), ~ (j <= i - 1) PROVE ab[j] = b[j - (i - 1)]
    <3> DEFINE k == j - (i - 1)
    <3>1. k \in 1 .. m - i /\ (i - 1) + k = j
      BY <2>4, <2>5, Gap
    <3> HIDE DEF k
    <3>2. ab[j] = b[k]
      BY <2>3, <3>1
    <3>3. QED
      BY <3>2 DEF k
  <2>6. ASSUME NEW j \in 1 .. (i - 1) + (m - i), j <= i - 1 PROVE ab[j] = a[j]
    BY <2>3, <2>4, <2>6
  <2>7. /\ DOMAIN ab = 1 .. (i - 1) + (m - i)
        /\ \A j \in DOMAIN ab : ab[j] = IF j <= i - 1 THEN a[j] ELSE b[j - (i - 1)]
    BY <2>3, <2>5, <2>6
  <2>8. QED
    BY <2>7 DEF ab, m
<1>6. (i - 1) + (Len(queue) - i) = Len(queue) - 1
  BY <1>1
<1>7. ASSUME NEW j \in 1 .. Len(queue) - 1
      PROVE  (IF j <= i - 1 THEN a[j] ELSE b[j - (i - 1)])
                = IF j < i THEN queue[j] ELSE queue[j + 1]
  <2>1. CASE j < i
    BY <1>1, <1>2, <2>1
  <2>2. CASE ~ (j < i)
    <3>1. j - (i - 1) \in 1 .. Len(queue) - i /\ i + (j - (i - 1)) = j + 1 /\ ~ (j <= i - 1)
      BY <1>1, <2>2
    <3>2. QED
      BY <1>3, <2>2, <3>1
  <2>3. QED
    BY <2>1, <2>2
<1>8. QED
  BY <1>4, <1>5, <1>6, <1>7

\* Where an event is after i was taken out
LEMMA RemoveMoves ==
    ASSUME NEW queue \in Seq(Event), NEW i \in DOMAIN queue
    PROVE  LET q == RemoveAt(queue, i)
           IN  /\ \A j \in DOMAIN q : LET k == IF j < i THEN j ELSE j + 1
                                      IN  k \in DOMAIN queue /\ k # i /\ q[j] = queue[k]
               /\ \A k \in DOMAIN queue : k # i =>
                     LET j == IF k < i THEN k ELSE k - 1
                     IN  j \in DOMAIN q /\ q[j] = queue[k]
<1> DEFINE q == RemoveAt(queue, i)
<1>1. i \in 1 .. Len(queue) /\ Len(queue) \in Nat /\ DOMAIN queue = 1 .. Len(queue)
  OBVIOUS
<1>2. /\ DOMAIN q = 1 .. Len(queue) - 1
      /\ \A j \in DOMAIN q : q[j] = IF j < i THEN queue[j] ELSE queue[j + 1]
  BY RemoveFields
<1> HIDE DEF q
<1>3. ASSUME NEW j \in DOMAIN q
      PROVE  LET k == IF j < i THEN j ELSE j + 1
             IN  k \in DOMAIN queue /\ k # i /\ q[j] = queue[k]
  BY <1>1, <1>2
<1>4. ASSUME NEW k \in DOMAIN queue, k # i
      PROVE  LET j == IF k < i THEN k ELSE k - 1
             IN  j \in DOMAIN q /\ q[j] = queue[k]
  <2>1. CASE k < i
    BY <1>1, <1>2, <1>4, <2>1
  <2>2. CASE i < k
    <3>1. k - 1 \in DOMAIN q /\ ~ (k - 1 < i) /\ ~ (k < i) /\ (k - 1) + 1 = k
      BY <1>1, <1>2, <1>4, <2>2
    <3>2. QED
      BY <1>2, <3>1
  <2>3. QED
    BY <1>1, <1>4, <2>1, <2>2
<1>5. QED
  BY <1>3, <1>4 DEF q

\* The first event of d goes from its line, and the next is the first.
LEMMA LineRemoveFirst ==
    ASSUME NEW queue \in Seq(Event), NEW i \in DOMAIN queue, NEW d \in Device,
           NEW lo \in Nat, NEW hi \in Nat, Line(queue, d, lo, hi), queue[i].dev = d,
           \A j \in DOMAIN queue : queue[j].dev = d => i <= j
    PROVE  queue[i].n = lo + 1 /\ Line(RemoveAt(queue, i), d, lo + 1, hi)
<1> DEFINE q == RemoveAt(queue, i)
           old(j) == IF j < i THEN j ELSE j + 1
           new(k) == IF k < i THEN k ELSE k - 1
<1>1. /\ \A j \in DOMAIN q : old(j) \in DOMAIN queue /\ old(j) # i /\ q[j] = queue[old(j)]
      /\ \A k \in DOMAIN queue : k # i => new(k) \in DOMAIN q /\ q[new(k)] = queue[k]
  BY RemoveMoves
<1>2. i \in Nat /\ (\A k \in DOMAIN queue : k \in Nat) /\ \A j \in DOMAIN q : j \in Nat
  BY RemoveFields
<1> HIDE DEF q
<1>3. \A j \in DOMAIN queue : queue[j].dev = d => queue[j].n \in (lo + 1) .. hi
  BY DEF Line
<1>4. queue[i].n = lo + 1
  <2>1. queue[i].n \in (lo + 1) .. hi /\ lo + 1 \in (lo + 1) .. hi
    BY <1>3
  <2>2. PICK k \in DOMAIN queue : queue[k].dev = d /\ queue[k].n = lo + 1
    BY <2>1 DEF Line
  <2>3. i <= k
    BY <2>2
  <2>4. k # i => queue[i].n < queue[k].n
    BY <1>2, <2>2, <2>3 DEF Line
  <2>5. QED
    BY <2>1, <2>2, <2>4
<1>5. \A k \in DOMAIN queue : k # i /\ queue[k].dev = d => queue[k].n \in (lo + 1 + 1) .. hi
  <2> SUFFICES ASSUME NEW k \in DOMAIN queue, k # i, queue[k].dev = d
               PROVE  queue[k].n \in (lo + 1 + 1) .. hi
    OBVIOUS
  <2>1. i < k
    BY <1>2
  <2>2. queue[i].n < queue[k].n
    BY <2>1 DEF Line
  <2>3. QED
    BY <1>3, <1>4, <2>2
<1>6. lo + 1 <= hi
  BY <1>3, <1>4
<1>7. \A j \in DOMAIN q : q[j].dev = d => q[j].n \in (lo + 1 + 1) .. hi
  BY <1>1, <1>5
<1>8. \A n \in (lo + 1 + 1) .. hi : \E j \in DOMAIN q : q[j].dev = d /\ q[j].n = n
  <2> SUFFICES ASSUME NEW n \in (lo + 1 + 1) .. hi
               PROVE  \E j \in DOMAIN q : q[j].dev = d /\ q[j].n = n
    OBVIOUS
  <2>1. PICK k \in DOMAIN queue : queue[k].dev = d /\ queue[k].n = n
    BY DEF Line
  <2>2. k # i
    BY <1>4, <2>1
  <2>3. QED
    BY <1>1, <2>1, <2>2
<1>9. \A j, k \in DOMAIN q : q[j].dev = d /\ q[k].dev = d /\ j < k => q[j].n < q[k].n
  <2> SUFFICES ASSUME NEW j \in DOMAIN q, NEW k \in DOMAIN q,
                      q[j].dev = d, q[k].dev = d, j < k
               PROVE  q[j].n < q[k].n
    OBVIOUS
  <2>1. old(j) < old(k)
    BY <1>2
  <2>2. QED
    BY <1>1, <2>1 DEF Line
<1>10. QED
  BY <1>4, <1>6, <1>7, <1>8, <1>9 DEF Line, q

\* An event of the other device leaves the line alone.
LEMMA LineRemoveOther ==
    ASSUME NEW queue \in Seq(Event), NEW i \in DOMAIN queue, NEW d \in Device,
           NEW lo \in Nat, NEW hi \in Nat, Line(queue, d, lo, hi), queue[i].dev # d
    PROVE  Line(RemoveAt(queue, i), d, lo, hi)
<1> DEFINE q == RemoveAt(queue, i)
           old(j) == IF j < i THEN j ELSE j + 1
           new(k) == IF k < i THEN k ELSE k - 1
<1>1. /\ \A j \in DOMAIN q : old(j) \in DOMAIN queue /\ old(j) # i /\ q[j] = queue[old(j)]
      /\ \A k \in DOMAIN queue : k # i => new(k) \in DOMAIN q /\ q[new(k)] = queue[k]
  BY RemoveMoves
<1>2. i \in Nat /\ \A j \in DOMAIN q : j \in Nat
  BY RemoveFields
<1> HIDE DEF q
<1>3. \A j \in DOMAIN q : q[j].dev = d => q[j].n \in (lo + 1) .. hi
  BY <1>1 DEF Line
<1>4. \A n \in (lo + 1) .. hi : \E j \in DOMAIN q : q[j].dev = d /\ q[j].n = n
  <2> SUFFICES ASSUME NEW n \in (lo + 1) .. hi
               PROVE  \E j \in DOMAIN q : q[j].dev = d /\ q[j].n = n
    OBVIOUS
  <2>1. PICK k \in DOMAIN queue : queue[k].dev = d /\ queue[k].n = n
    BY DEF Line
  <2>2. QED
    BY <1>1, <2>1
<1>5. \A j, k \in DOMAIN q : q[j].dev = d /\ q[k].dev = d /\ j < k => q[j].n < q[k].n
  <2> SUFFICES ASSUME NEW j \in DOMAIN q, NEW k \in DOMAIN q,
                      q[j].dev = d, q[k].dev = d, j < k
               PROVE  q[j].n < q[k].n
    OBVIOUS
  <2>1. old(j) < old(k)
    BY <1>2
  <2>2. QED
    BY <1>1, <2>1 DEF Line
<1>6. lo <= hi
  BY DEF Line
<1>7. QED
  BY <1>3, <1>4, <1>5, <1>6 DEF Line, q

(***************************************************************************)
(* No call but PlayReleasedEvents and Input makes one that processes an    *)
(* event of the user.                                                      *)
(***************************************************************************)
LEMMA QuietFrames ==
    /\ \A ev \in Event : Handle(ev) \in Quiet /\ Replay(ev) \in Quiet
    /\ \A ev \in Event : ev.n = 0 => Process(ev) \in Quiet
    /\ Play \in Quiet
    /\ \A k \in Key : Activated(k) \in Quiet
    /\ \A c \in Client : Release(c) \in Quiet /\ Free(c) \in Quiet
<1>1. ASSUME NEW ev \in Event PROVE Handle(ev) \in Quiet /\ Replay(ev) \in Quiet
  <2>1. Handle(ev) \in Frame /\ Replay(ev) \in Frame
    BY FrameTypes
  <2>2. QED
    BY <2>1 DEF Quiet, Handle, Replay
<1>2. \A ev \in Event : ev.n = 0 => Process(ev) \in Quiet
  BY FrameTypes DEF Quiet, Process
<1>3. Play \in Quiet
  BY FrameTypes DEF Quiet, Play
<1>4. \A k \in Key : Activated(k) \in Quiet
  BY FrameTypes DEF Quiet, Activated
<1>5. ASSUME NEW c \in Client PROVE Release(c) \in Quiet /\ Free(c) \in Quiet
  <2>1. Release(c) \in Frame /\ Free(c) \in Frame
    BY FrameTypes
  <2>2. QED
    BY <2>1 DEF Quiet, Release, Free
<1>6. QED
  BY <1>1, <1>2, <1>3, <1>4, <1>5

LEMMA QuietStack ==
    ASSUME CallType, OnTop
    PROVE  /\ stack # <<>> => Tail(stack) \in Seq(Quiet)
           /\ ~Calling("process") => stack \in Seq(Quiet)
<1>1. ASSUME stack # <<>>, Head(stack) \in Quiet PROVE stack \in Seq(Quiet)
  <2>1. stack \in Seq(Frame) /\ Tail(stack) \in Seq(Quiet)
    BY <1>1 DEF CallType, OnTop
  <2>2. stack = <<Head(stack)>> \o Tail(stack)
    BY <1>1, <2>1
  <2>3. <<Head(stack)>> \o Tail(stack) \in Seq(Quiet)
    BY <1>1, <2>1, One
  <2>4. QED
    BY <2>2, <2>3
<1>2. ASSUME stack # <<>>, Head(stack).do # "process" PROVE Head(stack) \in Quiet
  BY <1>2 DEF CallType, Quiet
<1>3. stack = <<>> => stack \in Seq(Quiet)
  OBVIOUS
<1>4. ~Calling("process") => stack = <<>> \/ Head(stack).do # "process"
  BY DEF Calling
<1>5. QED
  BY <1>1, <1>2, <1>3, <1>4 DEF OnTop

LEMMA ComputeQuiet ==
    ASSUME NEW first \in Seq(Quiet), NEW rest \in Seq(Quiet), ComputeFreezes(first, rest)
    PROVE  stack' \in Seq(Quiet)
<1>1. <<Play>> \in Seq(Quiet)
  BY QuietFrames, One
<1>2. first \o <<Play>> \in Seq(Quiet)
  BY <1>1, Concat
<1>3. (first \o <<Play>>) \o rest \in Seq(Quiet)
  BY <1>2, Concat
<1>4. QED
  BY <1>3 DEF ComputeFreezes

LEMMA GrabQuiet ==
    ASSUME NEW ev \in Event, NEW rest \in Seq(Quiet),
           PassiveGrab(ev, rest) \/ ImplicitGrab(ev, rest)
    PROVE  stack' \in Seq(Quiet)
<1>1. <<>> \in Seq(Quiet)
  OBVIOUS
<1>2. ComputeFreezes(<<>>, rest)
  BY DEF PassiveGrab, ImplicitGrab, Activate
<1>3. QED
  BY <1>1, <1>2, ComputeQuiet

LEMMA CoreQuiet ==
    ASSUME NEW ev \in Event, NEW rest \in Seq(Quiet), CoreProcess(ev, rest)
    PROVE  stack' \in Seq(Quiet)
<1>1. ev.key \in Key /\ Opposite(ev) \in Event /\ <<>> \in Seq(Quiet)
  <2>1. Opposite(ev) \in Event
    BY DEF Event, Opposite
  <2>2. ev.key \in Key
    BY DEF Event
  <2>3. QED
    BY <2>1, <2>2
<1>2. /\ <<Activated(ev.key)>> \o rest \in Seq(Quiet)
      /\ <<Handle(Opposite(ev)), Handle(ev)>> \o rest \in Seq(Quiet)
  BY <1>1, QuietFrames, One, Two
<1>3. CASE Press(ev, rest)
  <2> DEFINE after == IF ev.dev = "keyboard" THEN <<Activated(ev.key)>> \o rest ELSE rest
  <2>1. \/ PassiveGrab(ev, after) \/ ImplicitGrab(ev, rest) \/ Ignore(ev, rest)
        \/ FreezeNext(ev, rest)
    BY <1>3, Zenon DEF Press
  <2>2. after \in Seq(Quiet)
    BY <1>2
  <2> HIDE DEF after
  <2>3. Ignore(ev, rest) \/ FreezeNext(ev, rest) => stack' = rest
    BY DEF Ignore, FreezeNext
  <2>4. QED
    BY <2>1, <2>2, <2>3, GrabQuiet
<1>4. CASE ReleaseUp(ev, rest)
  <2>1. \/ Deactivate(ev.dev, FALSE, <<>>, rest) \/ Ignore(ev, rest) \/ FreezeNext(ev, rest)
    BY <1>4, Zenon DEF ReleaseUp
  <2>2. Ignore(ev, rest) \/ FreezeNext(ev, rest) => stack' = rest
    BY DEF Ignore, FreezeNext
  <2>3. Deactivate(ev.dev, FALSE, <<>>, rest) => stack' \in Seq(Quiet)
    BY <1>1, ComputeQuiet DEF Deactivate
  <2>4. QED
    BY <2>1, <2>2, <2>3
<1>5. CASE HandleTwice(ev, rest)
  BY <1>2, <1>5 DEF HandleTwice, Ignore
<1>6. QED
  BY <1>3, <1>4, <1>5 DEF CoreProcess

(***************************************************************************)
(* Every action keeps the order                                            *)
(***************************************************************************)
\* What is so after a call that leaves no event of the user to process
LEMMA NothingOnTop ==
    ASSUME stack' \in Seq(Quiet)
    PROVE  OnTop' /\ \A d : ~At(d)'
<1>1. stack' # <<>> => Head(stack') \in Quiet /\ Tail(stack') \in Seq(Quiet)
  OBVIOUS
<1>2. QED
  BY <1>1 DEF OnTop, At, Calling, Quiet

LEMMA NothingAt ==
    ASSUME stack \in Seq(Quiet)
    PROVE  \A d : ~At(d)
<1>1. stack # <<>> => Head(stack) \in Quiet
  OBVIOUS
<1>2. QED
  BY <1>1 DEF At, Calling, Quiet

LEMMA QuietStep ==
    ASSUME Ordered, stack \in Seq(Quiet), stack' \in Seq(Quiet),
           UNCHANGED <<pending, arrived, done>>, ~leaked' => ~leaked
    PROVE  Ordered'
<1>1. OnTop' /\ (\A d : ~At(d)') /\ \A d : ~At(d)
  BY NothingOnTop, NothingAt
<1>2. ASSUME ~leaked', NEW d \in Device PROVE Line(pending, d, Due(d), arrived[d])'
  <2>1. Line(pending, d, done[d], arrived[d])
    BY <1>1, <1>2 DEF Ordered, Due
  <2>2. Line(pending', d, done'[d], arrived'[d])
    BY <2>1
  <2>3. Due(d)' = done'[d]
    BY <1>1 DEF Due
  <2>4. QED
    BY <2>2, <2>3 DEF Line
<1>3. QED
  BY <1>1, <1>2 DEF Ordered

\* The stack of a call that is not ProcessEvent
LEMMA QuietCall ==
    ASSUME Inv, Ordered, NEW what, Calling(what), what # "process"
    PROVE  /\ stack \in Seq(Quiet) /\ Tail(stack) \in Seq(Quiet)
           /\ Head(stack) \in Frame /\ Head(stack).do = what
           /\ <<>> \in Seq(Quiet)
<1>1. CallType /\ OnTop /\ stack # <<>> /\ ~Calling("process")
  BY DEF Inv, Ordered, Calling
<1>2. QED
  BY <1>1, QuietStack, TopOf

LEMMA QuietIdle ==
    ASSUME Idle
    PROVE  stack \in Seq(Quiet) /\ <<>> \in Seq(Quiet)
BY DEF Idle

LEMMA CallOrdered ==
    ASSUME Inv, Ordered,
           HandleEvent \/ SetActivatingKey \/ ReplayEvent \/ ReleaseActiveGrabs
               \/ FreeClientResources
    PROVE  Ordered'
<1>1. CASE HandleEvent
  <2>1. Calling("handle") /\ CoreProcess(Head(stack).ev, Tail(stack)) /\ UNCHANGED done
    BY <1>1 DEF HandleEvent
  <2>2. stack \in Seq(Quiet) /\ Tail(stack) \in Seq(Quiet) /\ Head(stack).ev \in Event
    BY <2>1, QuietCall, FrameFields
  <2>3. stack' \in Seq(Quiet)
    BY <2>1, <2>2, CoreQuiet
  <2>4. UNCHANGED <<pending, arrived>> /\ leaked' = (leaked \/ frozen[Head(stack).ev.dev])
    BY <2>1 DEF CoreProcess, userVars
  <2>5. ~leaked' => ~leaked
    BY <2>4, Zenon
  <2>6. QED
    BY <2>1, <2>2, <2>3, <2>4, <2>5, QuietStep
<1>2. CASE SetActivatingKey
  <2>1. stack \in Seq(Quiet) /\ stack' \in Seq(Quiet)
    BY <1>2, QuietCall DEF SetActivatingKey
  <2>2. QED
    BY <1>2, <2>1, QuietStep DEF SetActivatingKey, userVars
<1>3. CASE ReplayEvent
  <2>1. stack \in Seq(Quiet) /\ Tail(stack) \in Seq(Quiet) /\ Head(stack).ev \in Event
    BY <1>3, QuietCall, FrameFields DEF ReplayEvent
  <2>2. \/ PassiveGrab(Head(stack).ev, Tail(stack)) \/ ImplicitGrab(Head(stack).ev, Tail(stack))
        \/ stack' = Tail(stack)
    BY <1>3, Zenon DEF ReplayEvent
  <2>3. stack' \in Seq(Quiet)
    BY <2>1, <2>2, GrabQuiet
  <2>4. UNCHANGED <<pending, arrived, done, leaked>>
    BY <1>3 DEF ReplayEvent, userVars
  <2>5. QED
    BY <2>1, <2>3, <2>4, QuietStep
<1>4. CASE ReleaseActiveGrabs \/ FreeClientResources
  <2>1. stack \in Seq(Quiet) /\ Tail(stack) \in Seq(Quiet) /\ <<>> \in Seq(Quiet)
    BY <1>4, QuietCall DEF ReleaseActiveGrabs, FreeClientResources
  <2>2. stack' = Tail(stack) \/ ComputeFreezes(<<>>, stack)
    BY <1>4 DEF ReleaseActiveGrabs, FreeClientResources, Deactivate
  <2>3. stack' \in Seq(Quiet)
    BY <2>1, <2>2, ComputeQuiet
  <2>4. UNCHANGED <<pending, arrived, done, leaked>>
    BY <1>4 DEF ReleaseActiveGrabs, FreeClientResources, userVars
  <2>5. QED
    BY <2>1, <2>3, <2>4, QuietStep
<1>5. QED
  BY <1>1, <1>2, <1>3, <1>4

LEMMA IdleOrdered ==
    ASSUME Inv, Ordered,
           \/ RepeatKeyExpire
           \/ \E d \in Device : WindowGone(d)
           \/ \E c \in Client : Request(c) \/ CloseDownClient(c)
    PROVE  Ordered'
<1>1. Idle
  BY DEF RepeatKeyExpire, WindowGone, Request, GrabDevice, Ungrab, AllowEvents, CloseDownClient
<1>2. CASE RepeatKeyExpire
  <2>1. repeatKey \in Key
    BY <1>2 DEF RepeatKeyExpire, Inv, KeyType
  <2> DEFINE ev(press) == [dev |-> "keyboard", key |-> repeatKey, press |-> press, n |-> 0]
  <2>2. ev(FALSE) \in Event /\ ev(TRUE) \in Event
    BY <2>1 DEF Event, Device
  <2>3. Repeated(FALSE) \in Quiet /\ Repeated(TRUE) \in Quiet
    BY <2>2, QuietFrames DEF Repeated
  <2>4. stack' \in Seq(Quiet)
    BY <1>2, <2>3, QuietIdle, Two DEF RepeatKeyExpire
  <2>5. QED
    BY <1>1, <1>2, <2>4, QuietIdle, QuietStep DEF RepeatKeyExpire, userVars
<1>3. ASSUME NEW c \in Client, CloseDownClient(c) PROVE Ordered'
  <2>1. stack' \in Seq(Quiet)
    BY <1>3, QuietFrames, QuietIdle, Two DEF CloseDownClient
  <2>2. QED
    BY <1>1, <1>3, <2>1, QuietIdle, QuietStep DEF CloseDownClient, userVars
<1>4. ASSUME NEW first \in Seq(Quiet), ComputeFreezes(first, <<>>), Requested
      PROVE  Ordered'
  <2>1. stack' \in Seq(Quiet) /\ stack \in Seq(Quiet)
    BY <1>1, <1>4, QuietIdle, ComputeQuiet
  <2>2. UNCHANGED <<pending, arrived, done, leaked>>
    BY <1>4 DEF Requested, userVars
  <2>3. QED
    BY <2>1, <2>2, QuietStep
<1>5. ASSUME NEW d \in Device, WindowGone(d) PROVE Ordered'
  BY <1>1, <1>4, <1>5, QuietIdle DEF WindowGone, Deactivate
<1>6. ASSUME NEW c \in Client, Request(c) PROVE Ordered'
  <2>1. ASSUME NEW d \in Device, AllowReplay(c, d), Requested PROVE Ordered'
    <3>1. event[d] \in Event
      BY <2>1 DEF AllowReplay, Inv, Grabs, GrabType, Agree
    <3>2. <<Replay(event[d])>> \in Seq(Quiet)
      BY <3>1, QuietFrames, One
    <3>3. QED
      BY <1>4, <2>1, <3>2 DEF AllowReplay, Deactivate
  <2>2. PICK d \in Device : Ungrab(c, d) \/ AllowEvents(c, d)
                              \/ \E this, othr \in Mode : GrabDevice(c, d, this, othr)
    BY <1>6 DEF Request
  <2>3. CASE Ungrab(c, d)
    BY <1>1, <1>4, <2>3, QuietIdle DEF Ungrab, Deactivate
  <2>4. CASE \E this, othr \in Mode : GrabDevice(c, d, this, othr)
    BY <1>1, <1>4, <2>4, QuietIdle DEF GrabDevice, Activate
  <2>5. CASE AllowEvents(c, d)
    <3>1. AllowReplay(c, d) \/ ComputeFreezes(<<>>, <<>>)
      BY <2>5 DEF AllowEvents, AllowOne, AllowBoth
    <3>2. Requested
      BY <2>5 DEF AllowEvents
    <3>3. QED
      BY <1>1, <1>4, <2>1, <3>1, <3>2, QuietIdle
  <2>6. QED
    BY <2>2, <2>3, <2>4, <2>5
<1>7. QED
  BY <1>2, <1>3, <1>5, <1>6

\* The event that was about to be processed is the last one handled now.
LEMMA ProcessOrdered ==
    ASSUME Inv, Ordered, ProcessEvent
    PROVE  Ordered'
<1> DEFINE ev   == Head(stack).ev
           rest == Tail(stack)
<1>1. Calling("process") /\ rest \in Seq(Quiet) /\ ev \in Event
  <2>1. Calling("process")
    BY DEF ProcessEvent
  <2>2. stack # <<>> /\ CallType
    BY <2>1 DEF Calling, Inv
  <2>3. QED
    BY <2>1, <2>2, QuietStack, TopOf, FrameFields DEF Ordered
<1>2. /\ done' = [done EXCEPT ![ev.dev] = IF ev.n = 0 THEN @ ELSE ev.n]
      /\ UNCHANGED <<pending, arrived>>
      /\ ~leaked' => ~leaked
      /\ CoreProcess(ev, rest) \/ stack' = <<Handle(Opposite(ev)), Handle(ev)>> \o rest
  <2>1. CASE CoreProcess(ev, rest)
    <3>1. UNCHANGED <<pending, arrived>> /\ leaked' = (leaked \/ frozen[ev.dev])
      BY <2>1 DEF CoreProcess, userVars
    <3>2. ~leaked' => ~leaked
      BY <3>1, Zenon
    <3>3. QED
      BY <2>1, <3>1, <3>2 DEF ProcessEvent
  <2>2. CASE ~CoreProcess(ev, rest)
    <3>1. /\ stack' = <<Handle(Opposite(ev)), Handle(ev)>> \o rest
          /\ leaked' = (leaked \/ frozen[ev.dev])
          /\ UNCHANGED <<pending, arrived>>
      BY <2>2, Zenon DEF ProcessEvent, userVars
    <3>2. ~leaked' => ~leaked
      BY <3>1, Zenon
    <3>3. QED
      BY <3>1, <3>2 DEF ProcessEvent
  <2>3. QED
    BY <2>1, <2>2
<1>3. stack' \in Seq(Quiet)
  <2>1. Opposite(ev) \in Event
    BY <1>1 DEF Event, Opposite
  <2>2. <<Handle(Opposite(ev)), Handle(ev)>> \o rest \in Seq(Quiet)
    BY <1>1, <2>1, QuietFrames, Two
  <2>3. QED
    BY <1>1, <1>2, <2>2, CoreQuiet
<1>4. OnTop' /\ \A d : ~At(d)'
  BY <1>3, NothingOnTop
<1>5. ASSUME ~leaked', NEW d \in Device PROVE Line(pending, d, Due(d), arrived[d])'
  <2>1. Line(pending, d, Due(d), arrived[d])
    BY <1>2, <1>5 DEF Ordered
  <2>2. done'[d] = Due(d)
    <3>1. At(d) <=> ev.n # 0 /\ ev.dev = d
      BY <1>1 DEF At
    <3>2. At(d) => ev.n = done[d] + 1
      BY <1>2, <1>5 DEF Ordered
    <3>3. done \in [Device -> Nat]
      BY DEF Inv, UserType
    <3>4. QED
      BY <1>2, <3>1, <3>2, <3>3 DEF Due
  <2>3. Line(pending', d, done'[d], arrived'[d])
    BY <1>2, <2>1, <2>2
  <2>4. Due(d)' = done'[d]
    BY <1>4 DEF Due
  <2>5. QED
    BY <2>3, <2>4 DEF Line
<1>6. QED
  BY <1>4, <1>5 DEF Ordered

\* What is so once an event is about to be processed
LEMMA ProcessOnTop ==
    ASSUME NEW ev \in Event, NEW rest \in Seq(Quiet), stack' = <<Process(ev)>> \o rest
    PROVE  /\ OnTop'
           /\ Head(stack') = Process(ev)
           /\ \A d : At(d)' <=> ev.n # 0 /\ ev.dev = d
<1>1. Process(ev) \in Frame /\ rest \in Seq(Frame)
  BY FrameTypes DEF Quiet
<1>2. stack' # <<>> /\ Head(stack') = Process(ev) /\ Tail(stack') = rest
  BY <1>1
<1>3. Process(ev).do = "process" /\ Process(ev).ev = ev
  BY DEF Process
<1>4. QED
  BY <1>2, <1>3 DEF OnTop, At, Calling

\* An event that is played is the first of its device, so its turn has come.
LEMMA PlayOrdered ==
    ASSUME Inv, Ordered, PlayReleasedEvents
    PROVE  Ordered'
<1>1. stack \in Seq(Quiet) /\ Tail(stack) \in Seq(Quiet) /\ \A d : ~At(d)
  BY QuietCall, NothingAt DEF PlayReleasedEvents
<1>2. UNCHANGED <<arrived, done, leaked, frozen>>
  BY DEF PlayReleasedEvents, userVars, lockVars
<1>3. CASE stack' = Tail(stack) /\ UNCHANGED pending
  BY <1>1, <1>2, <1>3, QuietStep
<1>4. ASSUME NEW i \in Released, \A j \in Released : i <= j,
             ProcessInput(pending[i], RemoveAt(pending, i), stack)
      PROVE  Ordered'
  <2> DEFINE ev == pending[i]
             queue == RemoveAt(pending, i)
  <2>1. i \in DOMAIN pending /\ ~frozen[ev.dev] /\ pending \in Seq(Event)
    BY DEF Released, Inv, CallType
  <2>2. ev \in Event /\ ev.dev \in Device /\ ev.n \in Nat
    <3>1. ev \in Event
      BY <2>1
    <3>2. QED
      BY <3>1 DEF Event
  <2>3. ~queues[ev.dev]
    BY <2>1, <2>2 DEF Inv, Grabs, Queued
  <2>4. pending' = queue /\ stack' = <<Process(ev)>> \o stack
    BY <1>4, <2>3 DEF ProcessInput
  <2>5. /\ OnTop' /\ Head(stack').ev = ev
        /\ \A d : At(d)' <=> ev.n # 0 /\ ev.dev = d
    <3> HIDE DEF ev
    <3>1. /\ OnTop' /\ Head(stack') = Process(ev)
          /\ \A d : At(d)' <=> ev.n # 0 /\ ev.dev = d
      BY <1>1, <2>2, <2>4, ProcessOnTop
    <3>2. QED
      BY <3>1 DEF Process
  <2>6. ASSUME ~leaked', NEW d \in Device
        PROVE  /\ At(d)' => Head(stack').ev.n = done'[d] + 1 /\ ~frozen'[d]
               /\ Line(pending, d, Due(d), arrived[d])'
    <3>1. Line(pending, d, done[d], arrived[d]) /\ done[d] \in Nat /\ arrived[d] \in Nat
      BY <1>1, <1>2, <2>6 DEF Ordered, Due, Inv, UserType
    <3>2. CASE ev.dev = d
      <4>1. \A j \in DOMAIN pending : pending[j].dev = d => i <= j
        BY <1>4, <2>1, <3>2 DEF Released
      <4>2. ev.n = done[d] + 1 /\ Line(queue, d, done[d] + 1, arrived[d])
        BY <2>1, <3>1, <3>2, <4>1, LineRemoveFirst
      <4>3. Due(d)' = done'[d] + 1
        BY <2>5, <3>1, <3>2, <4>2 DEF Due
      <4>4. Line(pending', d, done'[d] + 1, arrived'[d])
        BY <1>2, <2>4, <4>2
      <4>5. QED
        BY <1>2, <2>1, <2>5, <3>2, <4>2, <4>3, <4>4 DEF Line
    <3>3. CASE ev.dev # d
      <4>1. Line(queue, d, done[d], arrived[d])
        BY <2>1, <3>1, <3>3, LineRemoveOther
      <4>2. ~At(d)' /\ Due(d)' = done'[d]
        BY <2>5, <3>3 DEF Due
      <4>3. Line(pending', d, done'[d], arrived'[d])
        BY <1>2, <2>4, <4>1
      <4>4. QED
        BY <4>2, <4>3 DEF Line
    <3>4. QED
      BY <3>2, <3>3
  <2>7. QED
    BY <2>5, <2>6 DEF Ordered
<1>5. QED
  BY <1>3, <1>4 DEF PlayReleasedEvents

\* A new event waits behind those of its device, or there are none.
LEMMA InputOrdered ==
    ASSUME Inv, Ordered, NEW d \in Device, NEW k \in Key, Input(d, k)
    PROVE  Ordered'
<1> DEFINE ev == [dev |-> d, key |-> k, press |-> k \notin held[d], n |-> arrived[d] + 1]
<1>1. /\ Idle /\ ProcessInput(ev, pending, <<>>)
      /\ arrived' = [arrived EXCEPT ![d] = @ + 1]
      /\ UNCHANGED <<frozen, done, leaked>>
  BY DEF Input, lockVars
<1>2. /\ arrived \in [Device -> Nat] /\ done \in [Device -> Nat]
      /\ pending \in Seq(Event) /\ <<>> \in Seq(Quiet)
      /\ \A i \in DOMAIN pending : frozen[pending[i].dev]
  BY <1>1, IdleWaits DEF Inv, UserType, CallType
<1>3. ev \in Event /\ ev.dev = d /\ ev.n = arrived[d] + 1 /\ ev.n # 0
  BY <1>2 DEF Event
<1> HIDE DEF ev
<1>4. ASSUME ~leaked, NEW x \in Device
      PROVE  Line(pending, x, done[x], arrived[x])
  BY <1>1, <1>4, QuietIdle, NothingAt DEF Ordered, Due
<1>5. CASE queues[d]
  <2>1. pending' = Append(pending, ev) /\ stack' = <<>>
    BY <1>1, <1>3, <1>5 DEF ProcessInput, EnqueueEvent
  <2>2. OnTop' /\ \A x : ~At(x)'
    BY <1>2, <2>1, NothingOnTop
  <2>3. ASSUME ~leaked', NEW x \in Device PROVE Line(pending, x, Due(x), arrived[x])'
    <3>1. arrived'[x] = IF ev.dev = x THEN arrived[x] + 1 ELSE arrived[x]
      BY <1>1, <1>2, <1>3
    <3>2. Line(Append(pending, ev), x, done[x], IF ev.dev = x THEN arrived[x] + 1 ELSE arrived[x])
      BY <1>1, <1>2, <1>3, <1>4, <2>3, LineAppend
    <3>3. Line(pending', x, done'[x], arrived'[x])
      BY <1>1, <2>1, <3>1, <3>2
    <3>4. Due(x)' = done'[x]
      BY <2>2 DEF Due
    <3>5. QED
      BY <3>3, <3>4 DEF Line
  <2>4. QED
    BY <2>2, <2>3 DEF Ordered
<1>6. CASE ~queues[d]
  <2>1. pending' = pending /\ stack' = <<Process(ev)>> \o <<>>
    BY <1>1, <1>3, <1>6 DEF ProcessInput
  <2>2. /\ OnTop' /\ Head(stack').ev = ev
        /\ \A x : At(x)' <=> ev.n # 0 /\ ev.dev = x
    <3>1. /\ OnTop' /\ Head(stack') = Process(ev)
          /\ \A x : At(x)' <=> ev.n # 0 /\ ev.dev = x
      BY <1>2, <1>3, <2>1, ProcessOnTop
    <3>2. QED
      BY <3>1 DEF Process
  <2>3. ASSUME ~leaked', NEW x \in Device
        PROVE  /\ At(x)' => Head(stack').ev.n = done'[x] + 1 /\ ~frozen'[x]
               /\ Line(pending, x, Due(x), arrived[x])'
    <3>1. Line(pending, x, done[x], arrived[x]) /\ done[x] \in Nat /\ arrived[x] \in Nat
      BY <1>1, <1>2, <1>4, <2>3
    <3>2. CASE x = d
      <4>1. ~frozen[d]
        BY <1>1, <1>6, <2>3 DEF Inv, Grabs, Queued
      <4>2. \A i \in DOMAIN pending : pending[i].dev # x
        BY <1>2, <3>2, <4>1
      <4>3. done[x] = arrived[x] /\ Line(pending, x, arrived[x] + 1, arrived[x] + 1)
        BY <3>1, <4>2, LineEmpty
      <4>4. arrived'[x] = arrived[x] + 1 /\ done'[x] + 1 = arrived[x] + 1
        BY <1>1, <1>2, <3>2, <4>3
      <4>5. Line(pending', x, done'[x] + 1, arrived'[x])
        BY <2>1, <4>3, <4>4
      <4>6. Due(x)' = done'[x] + 1
        BY <1>3, <2>2, <3>2 DEF Due
      <4>7. Head(stack').ev.n = done'[x] + 1
        BY <1>3, <2>2, <3>2, <4>4
      <4>8. QED
        BY <1>1, <3>2, <4>1, <4>5, <4>6, <4>7 DEF Line
    <3>3. CASE x # d
      <4>1. ~At(x)' /\ Due(x)' = done'[x]
        BY <1>3, <2>2, <3>3 DEF Due
      <4>2. arrived'[x] = arrived[x]
        BY <1>1, <1>2, <3>3
      <4>3. Line(pending', x, done'[x], arrived'[x])
        BY <1>1, <2>1, <3>1, <4>2
      <4>4. QED
        BY <4>1, <4>3 DEF Line
    <3>4. QED
      BY <3>2, <3>3
  <2>4. QED
    BY <2>2, <2>3 DEF Ordered
<1>7. QED
  BY <1>5, <1>6

LEMMA NextOrdered == Inv /\ Ordered /\ [Next]_vars => Ordered'
<1> SUFFICES ASSUME Inv, Ordered, [Next]_vars PROVE Ordered'
  OBVIOUS
<1>1. CASE Call
  BY <1>1, CallOrdered, ProcessOrdered, PlayOrdered DEF Call
<1>2. CASE \E d \in Device, k \in Key : Input(d, k)
  BY <1>2, InputOrdered
<1>3. CASE \/ RepeatKeyExpire
           \/ \E d \in Device : WindowGone(d)
           \/ \E c \in Client : Request(c) \/ CloseDownClient(c)
  BY <1>3, IdleOrdered
<1>4. CASE UNCHANGED vars \/ \E c \in Client : Connect(c)
  <2>1. UNCHANGED <<stack, pending, arrived, done, leaked, frozen>>
    BY <1>4 DEF vars, userVars, lockVars, Connect
  <2>2. (\A d : At(d)' <=> At(d)) /\ (OnTop' <=> OnTop) /\ (\A d : Due(d)' = Due(d))
    BY <2>1 DEF At, Calling, OnTop, Due
  <2>3. ASSUME NEW d \in Device, Line(pending, d, Due(d), arrived[d])
        PROVE  Line(pending, d, Due(d), arrived[d])'
    <3>1. Line(pending', d, Due(d), arrived'[d])
      BY <2>1, <2>3
    <3>2. QED
      BY <2>2, <3>1 DEF Line
  <2>4. QED
    BY <2>1, <2>2, <2>3 DEF Ordered
<1>5. QED
  BY <1>1, <1>2, <1>3, <1>4 DEF Next

LEMMA InitOrdered == Init => Ordered
<1> SUFFICES ASSUME Init PROVE Ordered
  OBVIOUS
<1>1. stack = <<>> /\ pending = <<>> /\ \A d \in Device : done[d] = 0 /\ arrived[d] = 0
  BY DEF Init
<1>2. OnTop /\ \A d : ~At(d)
  BY <1>1 DEF OnTop, At, Calling
<1>3. \A d \in Device : Due(d) = 0 /\ Line(pending, d, 0, 0)
  BY <1>1, <1>2 DEF Due, Line
<1>4. QED
  BY <1>1, <1>2, <1>3 DEF Ordered

\* Ordered says of the queue what InOrder says of the queue and the call before it.
LEMMA OrderedComing == Inv /\ Ordered => InOrder
<1> SUFFICES ASSUME Inv, Ordered, ~leaked, NEW d \in Device
             PROVE  /\ done[d] <= arrived[d]
                    /\ {Coming[i].n : i \in Mine(d)} = (done[d] + 1) .. arrived[d]
                    /\ \A i, j \in Mine(d) : i < j => Coming[i].n < Coming[j].n
  BY DEF InOrder
<1> DEFINE l == Len(stack)
<1>1. /\ stack \in Seq(Frame) /\ pending \in Seq(Event) /\ l \in Nat
      /\ done[d] \in Nat /\ arrived[d] \in Nat
  BY DEF Inv, CallType, UserType
<1>2. /\ At(d) => Head(stack).ev.n = done[d] + 1
      /\ Line(pending, d, Due(d), arrived[d])
  BY DEF Ordered
<1>3. /\ DOMAIN Coming = 1 .. l + Len(pending)
      /\ \A i \in 1 .. l : Coming[i] = IF stack[i].do = "process" THEN stack[i].ev
                                       ELSE [n |-> 0]
      /\ \A i \in DOMAIN pending : Coming[l + i] = pending[i]
  <2> DEFINE calls == [i \in DOMAIN stack |-> IF stack[i].do = "process" THEN stack[i].ev
                                              ELSE [n |-> 0]]
  <2>1. calls \in Seq(Event \cup {[n |-> 0]}) /\ Len(calls) = l
    <3>1. \A i \in 1 .. l : calls[i] \in Event \cup {[n |-> 0]}
      BY <1>1, FrameFields
    <3>2. calls = [i \in 1 .. l |-> calls[i]]
      BY <1>1
    <3>3. QED
      BY <1>1, <3>1, <3>2
  <2>2. \A i \in 1 .. l : calls[i] = IF stack[i].do = "process" THEN stack[i].ev ELSE [n |-> 0]
    BY <1>1
  <2>3. pending \in Seq(Event \cup {[n |-> 0]})
    BY <1>1
  <2> HIDE DEF calls
  <2>4. /\ DOMAIN (calls \o pending) = 1 .. l + Len(pending)
        /\ \A i \in 1 .. l : (calls \o pending)[i] = calls[i]
        /\ \A i \in DOMAIN pending : (calls \o pending)[l + i] = pending[i]
    BY <2>1, <2>3, Joined
  <2>5. Coming = calls \o pending
    BY DEF Coming, calls
  <2>6. QED
    BY <2>2, <2>4, <2>5
<1> HIDE DEF l
<1>4. ASSUME NEW i \in 1 .. l
      PROVE  i \in Mine(d) <=> i = 1 /\ At(d)
  <2>1. stack # <<>> /\ i \in DOMAIN stack
    BY <1>1 DEF l
  <2>2. CASE i = 1
    <3>1. Head(stack) = stack[1] /\ 1 \in DOMAIN Coming
      BY <1>1, <1>3, <2>1, <2>2
    <3>2. CASE stack[1].do = "process"
      <4>1. Coming[1] = stack[1].ev
        BY <1>3, <2>2, <3>2
      <4>2. QED
        BY <2>1, <2>2, <3>1, <3>2, <4>1 DEF Mine, At, Calling
    <3>3. CASE stack[1].do # "process"
      <4>1. Coming[1].n = 0
        BY <1>3, <2>2, <3>3
      <4>2. QED
        BY <2>2, <3>1, <3>3, <4>1 DEF Mine, At, Calling
    <3>4. QED
      BY <3>2, <3>3
  <2>3. CASE i # 1
    <3>1. Tail(stack) \in Seq(Quiet)
      BY <2>1 DEF Ordered, OnTop
    <3>2. stack[i] = Tail(stack)[i - 1] /\ i - 1 \in DOMAIN Tail(stack)
      BY <1>1, <2>1, <2>3
    <3>3. stack[i] \in Quiet
      BY <3>1, <3>2
    <3>4. Coming[i].n = 0
      BY <1>3, <3>3 DEF Quiet
    <3>5. QED
      BY <2>3, <3>4 DEF Mine
  <2>4. QED
    BY <2>2, <2>3
<1>5. At(d) => 1 \in 1 .. l /\ Coming[1].n = done[d] + 1
  <2>1. At(d) => stack # <<>> /\ stack[1].do = "process" /\ stack[1].ev.n = done[d] + 1
    BY <1>1, <1>2 DEF At, Calling
  <2>2. stack # <<>> => 1 \in 1 .. l
    BY <1>1 DEF l
  <2>3. QED
    BY <1>3, <2>1, <2>2
<1>6. Due(d) \in Nat /\ done[d] <= Due(d) /\ Due(d) <= arrived[d]
      /\ (~At(d) => Due(d) = done[d]) /\ (At(d) => Due(d) = done[d] + 1)
  BY <1>1, <1>2 DEF Due, Line
<1>7. \A i \in DOMAIN pending : i \in 1 .. Len(pending)
  BY <1>1
<1>8. ASSUME NEW i \in DOMAIN pending
      PROVE  l + i \in Mine(d) <=> pending[i].dev = d
  <2>1. pending[i].dev = d => pending[i].n \in (Due(d) + 1) .. arrived[d]
    BY <1>2 DEF Line
  <2>2. pending[i].dev = d => pending[i].n # 0
    BY <1>1, <1>6, <2>1
  <2>3. l + i \in DOMAIN Coming /\ Coming[l + i] = pending[i]
    BY <1>1, <1>3, <1>7
  <2>4. QED
    BY <2>2, <2>3 DEF Mine
<1>9. ASSUME NEW i \in Mine(d), i \notin 1 .. l
      PROVE  i - l \in DOMAIN pending /\ i = l + (i - l) /\ pending[i - l].dev = d
             /\ Coming[i] = pending[i - l]
  <2>1. i \in 1 .. l + Len(pending) /\ i \notin 1 .. l
    BY <1>3, <1>9 DEF Mine
  <2>2. i - l \in 1 .. Len(pending) /\ i = l + (i - l)
    BY <1>1, <2>1
  <2>3. i - l \in DOMAIN pending
    BY <1>1, <2>2
  <2>4. QED
    BY <1>3, <1>8, <2>2, <2>3
<1>10. \A i \in Mine(d) : Coming[i].n \in (done[d] + 1) .. arrived[d]
  <2> SUFFICES ASSUME NEW i \in Mine(d) PROVE Coming[i].n \in (done[d] + 1) .. arrived[d]
    OBVIOUS
  <2>1. CASE i \in 1 .. l
    BY <1>1, <1>4, <1>5, <1>6, <2>1
  <2>2. CASE i \notin 1 .. l
    <3>1. Coming[i].n \in (Due(d) + 1) .. arrived[d]
      BY <1>2, <1>9, <2>2 DEF Line
    <3>2. QED
      BY <1>1, <1>6, <3>1
  <2>3. QED
    BY <2>1, <2>2
<1>11. \A n \in (done[d] + 1) .. arrived[d] : \E i \in Mine(d) : Coming[i].n = n
  <2> SUFFICES ASSUME NEW n \in (done[d] + 1) .. arrived[d]
               PROVE  \E i \in Mine(d) : Coming[i].n = n
    OBVIOUS
  <2>1. CASE n \in (Due(d) + 1) .. arrived[d]
    <3>1. PICK i \in DOMAIN pending : pending[i].dev = d /\ pending[i].n = n
      BY <1>2, <2>1 DEF Line
    <3>2. QED
      BY <1>3, <1>8, <3>1
  <2>2. CASE n \notin (Due(d) + 1) .. arrived[d]
    <3>1. At(d) /\ n = done[d] + 1
      BY <1>1, <1>6, <2>2
    <3>2. QED
      BY <1>4, <1>5, <3>1
  <2>3. QED
    BY <2>1, <2>2
<1>12. \A i, j \in Mine(d) : i < j => Coming[i].n < Coming[j].n
  <2> SUFFICES ASSUME NEW i \in Mine(d), NEW j \in Mine(d), i < j
               PROVE  Coming[i].n < Coming[j].n
    OBVIOUS
  <2>1. i \in 1 .. l + Len(pending) /\ j \in 1 .. l + Len(pending)
    BY <1>3 DEF Mine
  <2>2. j \notin 1 .. l
    <3>1. j \in 1 .. l => i \in 1 .. l /\ j = 1
      BY <1>1, <1>4, <2>1
    <3>2. QED
      BY <2>1, <3>1
  <2>3. Coming[j].n \in (Due(d) + 1) .. arrived[d]
    BY <1>2, <1>9, <2>2 DEF Line
  <2>4. CASE i \in 1 .. l
    <3>1. Coming[i].n = done[d] + 1 /\ Due(d) = done[d] + 1
      BY <1>4, <1>5, <1>6, <2>4
    <3>2. QED
      BY <1>1, <2>3, <3>1
  <2>5. CASE i \notin 1 .. l
    <3>1. i - l < j - l
      BY <1>1, <2>1
    <3>2. QED
      BY <1>2, <1>9, <2>2, <2>5, <3>1 DEF Line
  <2>6. QED
    BY <2>4, <2>5
<1>13. done[d] <= arrived[d]
  BY <1>1, <1>6
<1>14. QED
  BY <1>10, <1>11, <1>12, <1>13

\* Unless an event got around a freeze before, the events of a device are handled as
\* they came, none twice and none left out: EnqueueEvent, the search that ComputeFreezes
\* starts again after each event it plays, and the calls that it interrupts.
THEOREM EventsInOrder == Spec => []InOrder
<1>1. Spec => []Ordered
  BY InitOrdered, NextOrdered, Invariance, PTL DEF Spec
<1>2. QED
  BY <1>1, OrderedComing, Invariance, PTL


\* An event of the user is handed on only while its device is not frozen, as long as
\* none got around a freeze before: what processInputProc lets through too early at
\* first is what the repeat timer makes up, or the second half of an event whose
\* first half froze the keyboard.
UserWaits ==
    ~leaked => \A d \in Device : At(d) => ~frozen[d]

THEOREM UserWaitsCorrect == Spec => []UserWaits
<1>1. Ordered => UserWaits
  BY DEF Ordered, UserWaits
<1>2. QED
  BY <1>1, InitOrdered, NextOrdered, Invariance, PTL DEF Spec

\* Unless one got around a freeze before, an event is handled when its turn has come:
\* none is handled twice and none is passed over, whatever other calls the handlers
\* make on the way (PlayReleasedEvents, CoreProcessKeyboardEvent).
EachInTurn ==
    [][~leaked => \A d \in Device : done'[d] \in {done[d], done[d] + 1}]_vars

THEOREM EachInTurnCorrect == Spec => EachInTurn
<1> DEFINE Turn == ~leaked => \A d \in Device : done'[d] \in {done[d], done[d] + 1}
<1>1. ASSUME Inv, Ordered, Next PROVE Turn
  <2>1. CASE ProcessEvent
    <3>1. Calling("process") /\ done \in [Device -> Nat]
      BY <1>1, <2>1 DEF ProcessEvent, Inv, UserType
    <3>2. ASSUME ~leaked, NEW d \in Device PROVE done'[d] \in {done[d], done[d] + 1}
      <4>1. At(d) => Head(stack).ev.n = done[d] + 1
        BY <1>1, <3>2 DEF Ordered
      <4>2. QED
        BY <2>1, <3>1, <4>1 DEF ProcessEvent, At
    <3>3. QED
      BY <3>2
  <2>2. ASSUME ~ProcessEvent PROVE UNCHANGED done
    BY <1>1, <2>2 DEF Next, Call, HandleEvent, SetActivatingKey, ReplayEvent,
       PlayReleasedEvents, ReleaseActiveGrabs, FreeClientResources, Input,
       RepeatKeyExpire, WindowGone, Request, GrabDevice, Ungrab, AllowEvents, Requested,
       Connect, CloseDownClient
  <2>3. QED
    BY <2>1, <2>2
<1>2. Inv /\ Ordered /\ [Next]_vars => [Turn]_vars
  BY <1>1
<1>3. QED
  BY <1>2, InitOrdered, NextOrdered, Invariance, PTL DEF Spec, EachInTurn
==================================================================================
