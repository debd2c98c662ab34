------------------------------- MODULE DeviceGrabs -------------------------------
(***************************************************************************)
(* Grabs of the core pointer and the core keyboard, and the events that    *)
(* wait while a device is frozen: dix/events.c, with the keyboard behind   *)
(* XKB (xkb/), whose software repeat is a source of events of its own.     *)
(*                                                                         *)
(* A call that reaches ComputeFreezes may play queued events, and their    *)
(* handlers may change grabs and freezes again: the calls that are still   *)
(* to be made are the frames of "stack", its head first.  Requests, new    *)
(* input and timers come when the stack is empty: one thread runs all.     *)
(***************************************************************************)
EXTENDS Integers, Sequences, SequencesExt

CONSTANTS
    Client,
    Key,            \* keys of the keyboard, buttons of the pointer
    NULL,
    MaxEvents,      \* bound: input events
    MaxGrabs        \* bound: successful GrabPointer and GrabKeyboard requests

Device   == {"pointer", "keyboard"}
Other(d) == IF d = "pointer" THEN "keyboard" ELSE "pointer"

VARIABLES
    \* a DeviceIntRec
    grab,           \* the client of device->grab, or NULL
    passive,        \* fromPassiveGrab
    sync,           \* sync.state
    other,          \* sync.other is set: it is the grab of the other device
    frozen,         \* sync.frozen
    queues,         \* processInputProc is enqueueInputProc
    event,          \* sync.event, kept while sync.state is FROZEN_WITH_EVENT
    down,           \* keys and buttons that the server takes for pressed
    activatingKey,
    repeatKey,      \* the key whose software repeat timer runs
    \* the server
    pending,        \* syncEvents.pending
    stack,          \* the calls still to be made
    clients,        \* connected, and not clientGone
    \* the user, and what the properties look back on
    held,           \* keys and buttons the user holds
    arrived,        \* events of a device so far, which number them
    done,           \* the number of the last one handled
    grabs,          \* grabs that clients asked for and got
    leaked,         \* an event of a frozen device was handled
    revived         \* clients with a grab that began after ReleaseActiveGrabs

grabVars == <<grab, passive, sync, other, event>>
lockVars == <<frozen, queues>>
keyVars  == <<down, activatingKey, repeatKey>>
userVars == <<held, arrived>>
vars     == <<grabVars, lockVars, keyVars, pending, stack, clients, userVars,
              done, grabs, leaked, revived>>

Held  == {"FROZEN_NO_EVENT", "FROZEN_WITH_EVENT"}
State == {"NOT_GRABBED", "THAWED", "FREEZE_NEXT_EVENT", "FREEZE_BOTH_NEXT_EVENT"} \cup Held
Mode  == {"Sync", "Async"}

\* n is 0 for what the repeat timer makes up.
Event == [dev : Device, key : Key, press : BOOLEAN, n : Nat]

ASSUME NullAssumption   == NULL \notin Client \cup Key \cup Event
ASSUME BoundAssumption  == {MaxEvents, MaxGrabs} \subseteq Nat

Frame == [do : {"process", "handle", "replay"}, ev : Event]
         \cup [do : {"play"}]
         \cup [do : {"activated"}, key : Key]
         \cup [do : {"release", "free"}, client : Client]

Process(ev)   == [do |-> "process", ev |-> ev]
Handle(ev)    == [do |-> "handle", ev |-> ev]
Replay(ev)    == [do |-> "replay", ev |-> ev]
Play          == [do |-> "play"]
Activated(k)  == [do |-> "activated", key |-> k]
Release(c)    == [do |-> "release", client |-> c]
Free(c)       == [do |-> "free", client |-> c]

Calling(what) == stack # <<>> /\ Head(stack).do = what
Idle          == stack = <<>>

\* syncEvents.playingEvents
Playing == \E i \in DOMAIN stack : stack[i].do = "play"

Init ==
    /\ grab = [d \in Device |-> NULL]
    /\ passive = [d \in Device |-> FALSE]
    /\ sync = [d \in Device |-> "NOT_GRABBED"]
    /\ other = [d \in Device |-> FALSE]
    /\ frozen = [d \in Device |-> FALSE]
    /\ queues = [d \in Device |-> FALSE]
    /\ event = [d \in Device |-> NULL]
    /\ down = [d \in Device |-> {}]
    /\ activatingKey = NULL
    /\ repeatKey = NULL
    /\ pending = <<>>
    /\ stack = <<>>
    /\ clients = Client
    /\ held = [d \in Device |-> {}]
    /\ arrived = [d \in Device |-> 0]
    /\ done = [d \in Device |-> 0]
    /\ grabs = 0
    /\ leaked = FALSE
    /\ revived = {}

(***************************************************************************)
(* Freezes                                                                 *)
(***************************************************************************)
\* ComputeFreezes, with the new sync.state and sync.other: first is the replay
\* it begins with, rest the calls that follow it
ComputeFreezes(first, rest) ==
    /\ frozen' = [d \in Device |-> other'[d] \/ sync'[d] \in Held]
    /\ queues' = frozen'
    /\ stack' = IF Playing \/ (first = <<>> /\ pending = <<>>)
                THEN rest
                ELSE first \o <<Play>> \o rest

\* sync.event is read only in the state FROZEN_WITH_EVENT.
KeepEvent == event' = [d \in Device |-> IF sync'[d] = "FROZEN_WITH_EVENT"
                                        THEN event[d] ELSE NULL]

\* ActivatePointerGrab, ActivateKeyboardGrab, CheckGrabForSyncs; ev is what a
\* passive grab saves afterwards (CheckPassiveGrabsOnWindow)
Activate(d, c, auto, this, othr, ev, rest) ==
    /\ grab' = [grab EXCEPT ![d] = c]
    /\ passive' = [passive EXCEPT ![d] = auto]
    /\ sync' = [sync EXCEPT ![d] = CASE this = "Async" -> "THAWED"
                                     [] ev = NULL -> "FROZEN_NO_EVENT"
                                     [] OTHER -> "FROZEN_WITH_EVENT"]
    /\ event' = [event EXCEPT ![d] = IF this = "Sync" THEN ev ELSE NULL]
    /\ other' = [x \in Device |->
                    IF x = d THEN other[d] /\ ~(this = "Async" /\ grab[Other(d)] = c)
                             ELSE othr = "Sync"]
    /\ ComputeFreezes(<<>>, rest)

\* Mutant: sync.other of the other device keeps pointing to the grab.
DeactivateKeepsOther(d, synced, first, rest) ==
    /\ grab' = [grab EXCEPT ![d] = NULL]
    /\ passive' = [passive EXCEPT ![d] = FALSE]
    /\ sync' = [sync EXCEPT ![d] = "NOT_GRABBED"]
    /\ other' = [other EXCEPT ![d] = @ /\ ~synced]
    /\ KeepEvent
    /\ ComputeFreezes(first, rest)

\* DeactivatePointerGrab, DeactivateKeyboardGrab; synced: the caller has
\* cleared sync.other of the device first
Deactivate(d, synced, first, rest) ==
    /\ grab' = [grab EXCEPT ![d] = NULL]
    /\ passive' = [passive EXCEPT ![d] = FALSE]
    /\ sync' = [sync EXCEPT ![d] = "NOT_GRABBED"]
    /\ other' = [other EXCEPT ![Other(d)] = FALSE, ![d] = @ /\ ~synced]
    /\ KeepEvent
    /\ ComputeFreezes(first, rest)

(***************************************************************************)
(* Events                                                                  *)
(***************************************************************************)
Opposite(ev) == [ev EXCEPT !.press = ~@]

\* Mutant: the event is put before those that wait.
EnqueueFirst(ev, queue) ==
    /\ pending' = <<ev>> \o queue
    /\ repeatKey' = IF ev.dev = "keyboard" /\ ~ev.press /\ ev.key = repeatKey
                    THEN NULL ELSE repeatKey

\* EnqueueEvent: queue is syncEvents.pending without ev.  Left out: a failed xalloc,
\* which drops the event.
EnqueueEvent(ev, queue) ==
    /\ pending' = Append(queue, ev)
    /\ repeatKey' = IF ev.dev = "keyboard" /\ ~ev.press /\ ev.key = repeatKey
                    THEN NULL ELSE repeatKey

\* ProcessKeyboardEvent: AccessXFilterPressEvent starts the repeat of the key,
\* AccessXFilterReleaseEvent ends it
FilterEvent(ev) ==
    repeatKey' = CASE ev.dev = "keyboard" /\ ev.press -> ev.key
                   [] ev.dev = "keyboard" /\ ~ev.press /\ ev.key = repeatKey -> NULL
                   [] OTHER -> repeatKey

\* (*device->public.processInputProc) on ev, before the calls rest
ProcessInput(ev, queue, rest) ==
    \/ /\ queues[ev.dev]
       /\ EnqueueEvent(ev, queue)
       /\ stack' = rest
    \/ /\ ~queues[ev.dev]
       /\ FilterEvent(ev)
       /\ pending' = queue
       /\ stack' = <<Process(ev)>> \o rest

\* The event leaves all grabs alone.  XkbHandleActions takes the procedure of
\* the keyboard off and on again: it is not enqueueInputProc afterwards, unless
\* the event froze the keyboard in between.
Ignore(ev, rest) ==
    /\ queues' = [queues EXCEPT !["keyboard"] = @ /\ ev.dev = "pointer"]
    /\ stack' = rest
    /\ UNCHANGED <<grabVars, frozen, revived>>

\* DeliverGrabbedEvent, of an event that is delivered
FreezeNext(ev, rest) ==
    LET d    == ev.dev
        o    == Other(d)
        both == sync[d] = "FREEZE_BOTH_NEXT_EVENT"
        same == sync[o] = "FREEZE_BOTH_NEXT_EVENT" /\ grab[o] = grab[d]
    IN  /\ sync[d] \in {"FREEZE_NEXT_EVENT", "FREEZE_BOTH_NEXT_EVENT"}
        /\ sync' = [sync EXCEPT ![d] = "FROZEN_WITH_EVENT",
                                ![o] = IF both /\ same THEN "FROZEN_NO_EVENT" ELSE @]
        /\ other' = [other EXCEPT ![o] = @ \/ (both /\ ~same)]
        /\ event' = [event EXCEPT ![d] = ev]
        /\ frozen' = [x \in Device |-> x = d \/ both \/ frozen[x]]
        /\ queues' = [x \in Device |-> x = d \/ both \/ queues[x]]
        /\ stack' = rest
        /\ UNCHANGED <<grab, passive, revived>>

\* The client whose resources FreeClientResources is at
Freed == {stack[i].client : i \in {j \in DOMAIN stack : stack[j].do = "free"}}

\* CheckDeviceGrabs, CheckPassiveGrabsOnWindow: any client may have asked for
\* this key or button, a client that is being freed too
PassiveGrab(ev, rest) ==
    /\ ev.press
    /\ ev.dev = "pointer" => down'["pointer"] = {ev.key}
    /\ \E c \in clients \cup Freed, this \in Mode, othr \in Mode :
          /\ Activate(ev.dev, c, TRUE, this, othr, ev, rest)
          /\ revived' = revived \cup ({c} \ clients)

\* DeliverEventsToWindow: the client that gets the press has the pointer
ImplicitGrab(ev, rest) ==
    /\ ev.dev = "pointer" /\ ev.press
    /\ \E c \in clients : Activate("pointer", c, TRUE, "Async", "Async", NULL, rest)
    /\ UNCHANGED revived

Twice(ev) == ev.dev = "keyboard" /\ (ev.press <=> ev.key \in down["keyboard"])

\* CoreProcessKeyboardEvent, CoreProcessPointerEvent
Press(ev, rest) ==
    /\ ev.press /\ ~Twice(ev)
    /\ down' = [down EXCEPT ![ev.dev] = @ \cup {ev.key}]
    /\ IF grab[ev.dev] = NULL
       THEN \/ PassiveGrab(ev, IF ev.dev = "keyboard" THEN <<Activated(ev.key)>> \o rest
                                                      ELSE rest)
            \/ ImplicitGrab(ev, rest)
            \/ Ignore(ev, rest)
       ELSE FreezeNext(ev, rest) \/ Ignore(ev, rest)

LastUp(ev) == IF ev.dev = "keyboard" THEN ev.key = activatingKey
                                     ELSE down'["pointer"] = {}

ReleaseUp(ev, rest) ==
    /\ ~ev.press /\ ~Twice(ev)
    /\ down' = [down EXCEPT ![ev.dev] = @ \ {ev.key}]
    /\ IF passive[ev.dev] /\ LastUp(ev)
       THEN Deactivate(ev.dev, FALSE, <<>>, rest) /\ UNCHANGED revived
       ELSE \/ grab[ev.dev] # NULL /\ FreezeNext(ev, rest)
            \/ Ignore(ev, rest)

\* A press of a key that is down is handled as a release and a press; a release
\* of a key that is up is dropped.  Left out: if the first half freezes the keyboard,
\* the second is queued once more and not handled.
HandleTwice(ev, rest) ==
    /\ Twice(ev)
    /\ Ignore(ev, IF ev.press THEN <<Handle(Opposite(ev)), Handle(ev)>> \o rest ELSE rest)
    /\ UNCHANGED down

CoreProcess(ev, rest) ==
    /\ Press(ev, rest) \/ ReleaseUp(ev, rest) \/ HandleTwice(ev, rest)
    /\ leaked' = (leaked \/ frozen[ev.dev])
    /\ UNCHANGED <<activatingKey, repeatKey, pending, clients, userVars, grabs>>

\* XkbHandleActions on one half of an event
HandleEvent ==
    /\ Calling("handle")
    /\ CoreProcess(Head(stack).ev, Tail(stack))
    /\ UNCHANGED done

\* XkbProcessKeyboardEvent, or the pointer's procedure: an event that changes
\* nothing about its key is made into two halves
ProcessEvent ==
    /\ Calling("process")
    /\ LET ev   == Head(stack).ev
           rest == Tail(stack)
       IN  /\ done' = [done EXCEPT ![ev.dev] = IF ev.n = 0 THEN @ ELSE ev.n]
           /\ \/ ~Twice(ev) /\ CoreProcess(ev, rest)
              \/ /\ Twice(ev)
                 /\ stack' = <<Handle(Opposite(ev)), Handle(ev)>> \o rest
                 /\ leaked' = (leaked \/ frozen[ev.dev])
                 /\ UNCHANGED <<grabVars, lockVars, keyVars, pending, clients,
                                userVars, grabs, revived>>

\* CoreProcessKeyboardEvent, after CheckDeviceGrabs has returned
SetActivatingKey ==
    /\ Calling("activated")
    /\ activatingKey' = Head(stack).key
    /\ stack' = Tail(stack)
    /\ UNCHANGED <<grabVars, lockVars, down, repeatKey, pending, clients, userVars,
                   done, grabs, leaked, revived>>

\* ComputeFreezes: the event of replayDev
ReplayEvent ==
    /\ Calling("replay")
    /\ UNCHANGED <<keyVars, pending, clients, userVars, done, grabs, leaked>>
    /\ LET ev   == Head(stack).ev
           rest == Tail(stack)
       IN  \/ PassiveGrab(ev, rest)
           \/ ImplicitGrab(ev, rest)
           \/ stack' = rest /\ UNCHANGED <<grabVars, lockVars, revived>>

\* Mutant: events of a device that is not frozen stay behind one that is.
ReleasedHead == {i \in DOMAIN pending : i = 1 /\ ~frozen[pending[i].dev]}

Released == {i \in DOMAIN pending : ~frozen[pending[i].dev]}

\* Events of a device that is not frozen are played first to last, and the search
\* starts again after each.
PlayReleasedEvents ==
    /\ Calling("play")
    /\ \/ Released = {} /\ stack' = Tail(stack) /\ UNCHANGED <<pending, repeatKey>>
       \/ \E i \in Released :
             /\ \A j \in Released : i <= j
             /\ ProcessInput(pending[i], RemoveAt(pending, i), stack)
    /\ UNCHANGED <<grabVars, lockVars, down, activatingKey, clients, userVars, done,
                   grabs, leaked, revived>>

(***************************************************************************)
(* Input, timers and clients, between two calls                            *)
(***************************************************************************)
\* mieqProcessInputEvents: the user presses or releases k
Input(d, k) ==
    /\ Idle
    /\ arrived["pointer"] + arrived["keyboard"] < MaxEvents
    /\ held' = [held EXCEPT ![d] = IF k \in @ THEN @ \ {k} ELSE @ \cup {k}]
    /\ arrived' = [arrived EXCEPT ![d] = @ + 1]
    /\ ProcessInput([dev |-> d, key |-> k, press |-> k \notin held[d], n |-> arrived[d] + 1],
                    pending, <<>>)
    /\ UNCHANGED <<grabVars, lockVars, down, activatingKey, clients, done, grabs,
                   leaked, revived>>

Repeated(press) == Process([dev |-> "keyboard", key |-> repeatKey, press |-> press, n |-> 0])

\* AccessXRepeatKeyExpire
RepeatKeyExpire ==
    /\ Idle /\ repeatKey # NULL
    /\ stack' = <<Repeated(FALSE), Repeated(TRUE)>>
    /\ UNCHANGED <<grabVars, lockVars, keyVars, pending, clients, userVars, done,
                   grabs, leaked, revived>>

\* What a request does not touch
Requested == UNCHANGED <<keyVars, pending, clients, userVars, done, leaked, revived>>

\* ProcGrabPointer: neither AlreadyGrabbed nor GrabFrozen, which change nothing
MayGrab(c, d) ==
    /\ grab[d] \in {c, NULL}
    /\ ~(frozen[d] /\ other[d] /\ grab[Other(d)] # c)

\* GrabDevice, ProcGrabPointer
GrabDevice(c, d, this, othr) ==
    /\ Idle /\ c \in clients
    /\ grabs < MaxGrabs
    /\ MayGrab(c, d)
    /\ grabs' = grabs + 1
    /\ Activate(d, c, FALSE, this, othr, NULL, <<>>)
    /\ Requested

\* Mutant: a grab cannot be given up while its device is frozen.
UngrabThawed(c, d) ==
    /\ Idle /\ c \in clients
    /\ grab[d] = c /\ ~frozen[d]
    /\ Deactivate(d, FALSE, <<>>, <<>>)
    /\ UNCHANGED grabs
    /\ Requested

\* ProcUngrabPointer, ProcUngrabKeyboard
Ungrab(c, d) ==
    /\ Idle /\ c \in clients
    /\ grab[d] = c
    /\ Deactivate(d, FALSE, <<>>, <<>>)
    /\ UNCHANGED grabs
    /\ Requested

\* DeleteWindowFromAnyEvents: the window of a grab is destroyed or unmapped
WindowGone(d) ==
    /\ Idle /\ grab[d] # NULL
    /\ Deactivate(d, FALSE, <<>>, <<>>)
    /\ UNCHANGED grabs
    /\ Requested

\* Mutant: the client of sync.other is not compared.
SyncedByAny(c, d) == other[d]

\* AllowSome: thisSynced, its first return, and othersFrozen
Synced(c, d)       == grab[Other(d)] = c /\ other[d]
MayAllow(c, d)     == (grab[d] = c /\ sync[d] \in Held) \/ Synced(c, d)
OthersFrozen(c, d) == IF grab[Other(d)] = c THEN sync[Other(d)] \in Held
                                            ELSE other[Other(d)] /\ grab[d] = c

\* AsyncPointer, AsyncKeyboard; SyncPointer, SyncKeyboard
AllowOne(c, d, state) ==
    /\ state = "FREEZE_NEXT_EVENT" => grab[d] = c
    /\ sync' = [sync EXCEPT ![d] = IF grab[d] = c THEN state ELSE @]
    /\ other' = [other EXCEPT ![d] = @ /\ ~Synced(c, d)]
    /\ KeepEvent
    /\ ComputeFreezes(<<>>, <<>>)
    /\ UNCHANGED <<grab, passive>>

\* AsyncBoth, SyncBoth
AllowBoth(c, state) ==
    /\ OthersFrozen(c, "keyboard")
    /\ sync' = [x \in Device |-> IF grab[x] = c THEN state ELSE sync[x]]
    /\ other' = [x \in Device |-> other[x] /\ grab[Other(x)] # c]
    /\ KeepEvent
    /\ ComputeFreezes(<<>>, <<>>)
    /\ UNCHANGED <<grab, passive>>

\* Mutant: there need not be an event to replay.
AllowReplayAny(c, d) ==
    /\ grab[d] = c
    /\ Deactivate(d, Synced(c, d), <<Replay(event[d])>>, <<>>)

\* ReplayPointer, ReplayKeyboard
AllowReplay(c, d) ==
    /\ grab[d] = c /\ sync[d] = "FROZEN_WITH_EVENT"
    /\ Deactivate(d, Synced(c, d), <<Replay(event[d])>>, <<>>)

\* ProcAllowEvents
AllowEvents(c, d) ==
    /\ Idle /\ c \in clients
    /\ MayAllow(c, d)
    /\ \/ \E state \in {"THAWED", "FREEZE_NEXT_EVENT"} : AllowOne(c, d, state)
       \/ /\ d = "keyboard"
          /\ \E state \in {"THAWED", "FREEZE_BOTH_NEXT_EVENT"} : AllowBoth(c, state)
       \/ AllowReplay(c, d)
    /\ UNCHANGED grabs
    /\ Requested

Connect(c) ==
    /\ Idle /\ c \notin clients
    /\ clients' = clients \cup {c}
    /\ revived' = revived \ {c}
    /\ UNCHANGED <<grabVars, lockVars, keyVars, pending, stack, userVars, done, grabs, leaked>>

CloseDownClient(c) ==
    /\ Idle /\ c \in clients
    /\ stack' = <<Release(c), Free(c)>>
    /\ UNCHANGED <<grabVars, lockVars, keyVars, pending, clients, userVars, done,
                   grabs, leaked, revived>>

\* Mutant: the first grab found is the only one released.
ReleaseOneGrab ==
    /\ Calling("release")
    /\ LET c == Head(stack).client
       IN  /\ clients' = clients \ {c}
           /\ \/ \E d \in Device : grab[d] = c /\ Deactivate(d, FALSE, <<>>, Tail(stack))
              \/ /\ \A d \in Device : grab[d] # c
                 /\ stack' = Tail(stack)
                 /\ UNCHANGED <<grabVars, lockVars>>
    /\ UNCHANGED <<keyVars, pending, userVars, done, grabs, leaked, revived>>

\* One pass after the other, until a pass finds no grab of the client: it is
\* clientGone then.
ReleaseActiveGrabs ==
    /\ Calling("release")
    /\ LET c == Head(stack).client
       IN  \/ /\ \E d \in Device : grab[d] = c /\ Deactivate(d, FALSE, <<>>, stack)
              /\ UNCHANGED clients
           \/ /\ \A d \in Device : grab[d] # c
              /\ clients' = clients \ {c}
              /\ stack' = Tail(stack)
              /\ UNCHANGED <<grabVars, lockVars>>
    /\ UNCHANGED <<keyVars, pending, userVars, done, grabs, leaked, revived>>

\* The windows of the client go, and with them grabs of any client.
FreeClientResources ==
    /\ Calling("free")
    /\ \/ \E d \in Device : grab[d] # NULL /\ Deactivate(d, FALSE, <<>>, stack)
       \/ stack' = Tail(stack) /\ UNCHANGED <<grabVars, lockVars>>
    /\ UNCHANGED <<keyVars, pending, clients, userVars, done, grabs, leaked, revived>>

Call == \/ HandleEvent \/ ProcessEvent \/ SetActivatingKey \/ ReplayEvent
        \/ PlayReleasedEvents \/ ReleaseActiveGrabs \/ FreeClientResources

Request(c) == \/ \E d \in Device, this, othr \in Mode : GrabDevice(c, d, this, othr)
              \/ \E d \in Device : Ungrab(c, d) \/ AllowEvents(c, d)

Next ==
    \/ Call
    \/ \E d \in Device, k \in Key : Input(d, k)
    \/ RepeatKeyExpire
    \/ \E d \in Device : WindowGone(d)
    \/ \E c \in Client : Request(c) \/ Connect(c) \/ CloseDownClient(c)

Spec == Init /\ [][Next]_vars

\* The server finishes the call it is in, and a client that has a grab gives it
\* up in the end: it is the client's part, as XGrabKeyboard says.
FairSpec ==
    /\ Spec
    /\ WF_vars(Call)
    /\ \A c \in Client, d \in Device : SF_vars(Ungrab(c, d))

(***************************************************************************)
(* Properties                                                              *)
(***************************************************************************)
\* Types.  That a replay has an event to replay is one of them.
TypeOK ==
    /\ grab \in [Device -> Client \cup {NULL}]
    /\ passive \in [Device -> BOOLEAN]
    /\ sync \in [Device -> State]
    /\ other \in [Device -> BOOLEAN]
    /\ frozen \in [Device -> BOOLEAN]
    /\ queues \in [Device -> BOOLEAN]
    /\ event \in [Device -> Event \cup {NULL}]
    /\ down \in [Device -> SUBSET Key]
    /\ {activatingKey, repeatKey} \subseteq Key \cup {NULL}
    /\ pending \in Seq(Event)
    /\ stack \in Seq(Frame)
    /\ clients \subseteq Client
    /\ held \in [Device -> SUBSET Key]
    /\ arrived \in [Device -> Nat]
    /\ done \in [Device -> Nat]
    /\ grabs \in Nat
    /\ leaked \in BOOLEAN
    /\ revived \subseteq Client

\* sync.state, sync.other and fromPassiveGrab speak of grabs that exist: AllowSome,
\* DeliverGrabbedEvent and the releases follow those pointers without a test.  And
\* sync.frozen is what they come to, whatever order they were set in.
GrabsAgree ==
    /\ \A d \in Device :
          /\ sync[d] = "NOT_GRABBED" <=> grab[d] = NULL
          /\ sync[d] = "FROZEN_WITH_EVENT" <=> event[d] # NULL
          /\ other[d] => grab[Other(d)] # NULL
          /\ passive[d] => grab[d] # NULL
          /\ frozen[d] <=> other[d] \/ sync[d] \in Held
    /\ ~leaked => queues = frozen

\* No event is left behind: between two calls, what still waits waits for a device
\* that is frozen (PlayReleasedEvents, and every caller of ComputeFreezes).
WaitsForAThaw ==
    Idle => \A i \in DOMAIN pending : frozen[pending[i].dev]

\* What is still to be handled, the event that is about to be processed first
Coming  == [i \in DOMAIN stack |-> IF stack[i].do = "process" THEN stack[i].ev
                                   ELSE [n |-> 0]] \o pending
Mine(d) == {i \in DOMAIN Coming : Coming[i].n # 0 /\ Coming[i].dev = d}

\* The events of a device are handled in the order they came, each once, however
\* often they were queued again: unless one got around a freeze before.
InOrder ==
    ~leaked => \A d \in Device :
        /\ done[d] <= arrived[d]
        /\ {Coming[i].n : i \in Mine(d)} = (done[d] + 1) .. arrived[d]
        /\ \A i, j \in Mine(d) : i < j => Coming[i].n < Coming[j].n

\* A client's grab is released when the client dies, even if the release lets queued
\* events bring one of its passive grabs to life (the loop of ReleaseActiveGrabs).
\* The exception is a grab that comes to life in FreeClientResources.
GrabsHaveOwners ==
    \A d \in Device : grab[d] \in clients \cup {NULL} \cup revived

\* The clients that keep a device frozen
FrozenBy(d) == {c \in Client : \/ grab[d] = c /\ sync[d] \in Held
                               \/ grab[Other(d)] = c /\ other[d]}

\* What a client asks for takes no other client's grab, and thaws no device that
\* another client froze.
OthersKeepTheirs ==
    [][\A c \in Client : Request(c) =>
          \A d \in Device :
             /\ grab[d] \notin {c, NULL} => grab'[d] = grab[d]
             /\ FrozenBy(d) \ {c} \subseteq FrozenBy(d)']_vars

\* Input that is queued is played in the end, if clients give up their grabs.
QueueIsPlayed == pending # <<>> ~> pending = <<>> \/ revived # {}

\* "the X server generates no further keyboard events until the grabbing client
\* issues a releasing XAllowEvents call" (XGrKeybrd.man): no event of a frozen
\* device is handled.
FrozenIsSilent ==
    Calling("process") \/ Calling("handle") => ~frozen[Head(stack).ev.dev]
==================================================================================
