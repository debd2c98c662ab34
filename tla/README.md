# A TLA+ development of the Xming X server

Xming is the X.Org server (`src/programs/Xserver`) with a device layer for
Windows (`hw/xwin`).  Its own core logic is not drawing; it is three kinds of
threads and two window systems that share state:

* the **server thread**: `dix/main.c`'s generation loop and `dix/dispatch.c`'s
  dispatcher, plus Xming's window procedures;
* the **clipboard thread** (`winclipboard*.c`): an X client of the server that
  lives in the server's process, and a window in the Windows clipboard viewer
  chain;
* the **window manager threads** (`winmultiwindowwm.c`): two more internal X
  clients, fed by the server thread through a message queue.

Beside them stand two parts of the server that carry protocols of their own:
XDMCP, by which the server finds a display manager and gets a session
(`os/xdmcp.c`, and `programs/xdm` at the other end), and the grabs of the input
devices (`dix/events.c`).

This directory models how they work and interact: modules, TLC configurations
and TLAPS proofs.

## 1. Inventory

Paths are relative to `src/programs/Xserver/`.

| Component | State | Operations | Hard part | What makes it correct |
|---|---|---|---|---|
| Window-manager message queue (`hw/xwin/winmultiwindowwm.c`) | `pHead`, `pTail`, `nQueueSize`, nodes, mutex, condition variable | `winSendMessageToWM`, `PushMessage`, `PopMessage`, `InitQueue` | two senders and a receiver; signal after unlock; nodes freed and reused | a FIFO channel: nothing lost, reordered, handled twice or used after free; no lost wakeup |
| Multi-window window manager (same file, `winmultiwindowwindow.c`, `winwndproc.c`) | `g_fAnotherWMRunnig`, `pmServerStarted`, handlers, `jmp_buf`s | `winInitWM`, `winMultiWindowWMProc`, `winMultiWindowXMsgProc` | start-up behind a mutex; another manager coming and going; handlers shared by threads | starts after the server; gives way to another manager and takes over again; the server knows |
| Selection ownership (`winclipboardwrappers.c`, `winclipboardwndproc.c`, `dix/dispatch.c`) | `CurrentSelections`, `s_iOwners`, `g_atomLastOwnedSelection`, Windows clipboard owner and data | `winProcSetSelectionOwner`, `WM_DRAWCLIPBOARD`, clients' and programs' copies | requests under way in both directions; echoes; unflushed requests | the last copy wins, on both sides, and no echo |
| Paste from X to Windows (`winclipboardwndproc.c`, `winclipboardxevents.c`) | promise on the clipboard, property `CYGX_CUT_BUFFER`, events in socket and Xlib queue | `WM_RENDERFORMAT`, `winProcessXEventsTimeout`, `SelectionNotify`, `WM_USER_PASTE_COMPLETE` | slow, dead or refusing owners; late answers; fallbacks | every paste ends; the text is current; other programs' data is left alone |
| Clipboard thread life cycle (`winclipboardthread.c`, `winclipboardinit.c`, `InitOutput.c`, `InitInput.c`, `winglobals.c`) | `g_fClipboardLaunched/Started`, `g_hwndClipboard`, `g_ptClipboardProc`, `g_jmpEntry`, wrapped dispatch entries | wrapping, launch, start, `WM_DESTROY`, join, I/O error handler | resets overtaking start-up; joins while the thread waits for the server; static counters over generations | one launch a generation; originals there when needed; resets complete |
| Generations and dispatch (`dix/main.c`, `dix/dispatch.c`, `os/WaitFor.c`, `os/connection.c`, `os/io.c`) | clients, `isItTimeToYield`, input buffers, grabs of the server | accept, dispatch, close down, reset | close-down in the middle of a request; retained resources | every client served; buffers never mixed up |
| XDMCP (`os/xdmcp.c`, `os/connection.c`, `programs/xdm`) | protocol state, session id and socket, authorizations; xdm's `protoDisplay` and `display` lists, its child processes | query, request, manage, and their answers; sessions opening, failing, ending | datagrams lost, duplicated, late; xdm's processes outliving what it knows of them; other clients connecting | one session for a display; the granted session is the one that runs; logging in comes and does not fail by itself |
| Resource database (`dix/resource.c`) | hash tables per client | add, free, change | deletion that deletes | no resource freed twice or leaked |
| Grabs and focus (`dix/events.c`, `xkb/xkbAccessX.c`, `xkb/xkbPrKeyEv.c`) | `device->grab`, `sync`, `syncEvents`, `processInputProc`, the repeat timer | grab, ungrab, allow, replay, close-down | two devices freezing each other; handlers that run while queued events are played; a timer behind the queue's back | pointers and flags agree; queued events come out once, in order, and in the end; nobody disturbs another client's grab |
| SYNC extension (`Xext/sync.c`) | counters, triggers, alarms | change, await, alarm | triggers firing triggers; 64-bit overflow | awaits wake when their condition holds |
| Keyboard and mouse emulation (`winkeybd.c`, `winmouse.c`) | modifier state, emulation timer | key and button handlers | focus lost between press and release | no key stuck |

The rest of the tree (drawing code, other servers and drivers, client
libraries and programs, fonts, documentation, vendored Mesa and FreeType) is
listed in `PROJECT.json` with the reason for leaving it out.

Interactions.  The dispatcher calls Xming's wrappers through `InitialVector[2]`,
`ProcVector[X_QueryTree]` and `ProcVector[X_SetSelectionOwner]`.  The wrappers
launch the clipboard thread and take or release the Windows clipboard.  Windows
tells the thread of changes (`WM_DRAWCLIPBOARD`) and asks it for data
(`WM_RENDERFORMAT`); the thread talks to the server over an ordinary X
connection, with Xlib's output buffer and event queue between them.  The server
waits for the thread when it resets.  The server's window procedures send
messages to the window manager threads through the queue.

`PROJECT.json` lists under `hazards` what a test would hardly reach, line by
line, with the properties that watch it.

## 2. Modules

| Module | Models |
|---|---|
| `MessageFifo` | abstract specification: a first-in first-out channel with one receiver |
| `WMQueue`, `MCWMQueue` | the queue's critical sections, step by step; implements `MessageFifo` |
| `WMQueueProofs` | its inductive invariant and the refinement, proved |
| `SelectionBridge` | X selections against the Windows clipboard |
| `SelectionBridgeProofs` | its types, `NoEcho` and `QuietClaimStands`, proved |
| `ClipboardPaste`, `MCClipboardPaste` | one selection being pasted into a Windows program |
| `ClipboardPasteProofs` | its control invariant, types and `OthersDataStays`, proved |
| `PastedTextProofs` | which text is pasted: `RenderedIsCurrent` and `OwnerIsPasted`, proved |
| `ClipboardLifecycle` | the clipboard thread over server generations |
| `ClipboardLifecycleProofs` | its inductive invariant, proved |
| `MultiWindowWM` | the two window manager threads and another window manager; composed with the queue by way of `MessageFifo` |
| `MultiWindowProofs` | its inductive invariant and an action property, proved |
| `Xdmcp` | the server with `-query` or `-broadcast`, the managers it may find, and the datagrams and connections between them; implements `DisplaySessions` |
| `DisplaySessions` | abstract specification: a manager's one offer, one session and its process, and ids never used again |
| `XdmcpProofs` | types, the refinement of `DisplaySessions`, the granted session, undisturbed log ins and an action property, proved |
| `DeviceGrabs` | grabs of the core pointer and keyboard, and the queue of events of frozen devices |
| `DeviceGrabsProofs` | its inductive invariant, the order of events and two action properties, proved |

`PROJECT.json`'s `map` gives the source lines of every definition.  Operators
whose comment begins "Mutant:" are plausible bugs of the definition that
follows; nothing uses them, and each is there to show that a property notices.

### WMQueue

Threads are `Producer`s (the server thread and the XMsg thread) and `WM`.  A
node is an address; `free` is what `malloc` may return, so a freed node comes
back.  `PushMessage` is `PushLock`, `LinkTail`, `PublishHead`, `PushUnlock`,
`Signal`; `PopMessage` is `PopLock`, (`Sleep`, `Relock`)*, `NotEmpty`,
`TakeHead`, `FixTail`, `PopUnlock`; `HandleAndFree` is the rest of the loop of
`winMultiWindowWMProc`.  `pthread_cond_wait` may wake up for no reason.
`chain` is a history variable: the nodes linked and not yet popped.  What a
message makes the window manager do is abstracted, and so is the pause of the
loop while another window manager runs (`g_fAnotherWMRunnig`): the model is of
the time when none does.

### SelectionBridge

The server's state is `owner` (`CurrentSelections`), `sOwners` (`s_iOwners`),
`lastOwned` and `lastDrawable`.  A request of another client is one action, as
the dispatcher runs it: `ServeSetOwner`, in which `WrapSetOwner` is
`winProcSetSelectionOwner` up to the call of the original and `SetOwner` is
`ProcSetSelectionOwner`.  Only where the wrapper tests who owns the clipboard
(`winclipboardwrappers.c:441`) and then empties it (`:451`) the request is cut in
two: `emptying` says that the test has succeeded, `EmptyAndRelease` is the rest, and
a Windows program may copy in between.  The code empties all the same, and that copy
is lost: `TextCopyReachesX` excepts it, and nothing else.  The bridge's
requests go through `outBuf` (Xlib's buffer) and `wire` (the connection);
events come back through `socket` and `libq` (Xlib's queue).  `WM_DRAWCLIPBOARD`
is `Draw`, then `DrawText`, or `DrawOther`, `Sync`, `GetOwnerP`, `ReleaseP`,
`GetOwnerC`, `ReleaseC`, one action per round trip.  `s_fCBCInitialized` may be
left over from an earlier thread, so `Init` leaves it open.  A request's time is
abstracted to acceptable (`Claim`) or not (`ClaimTooLate`).  Windows programs
copy (`AppCopy`) and keep the clipboard open (`AppOpen`, `AppClose`).

### ClipboardPaste

The Windows program is `wpc`; the clipboard thread is `pc` and `wait` (which of
the two waits of `WM_RENDERFORMAT`).  Text is who selected it and how often it
had changed.  `NextEvent` is one turn of `winClipboardFlushXEvents`; its three
last disjuncts are a refusal with another target left, the refusal of
`STRING` outside the second wait and in it.  `XConvertSelection` always returns
1, and the code compares that with `Success`; the model follows the code.
`Torn` is the beginning of a text that changed between the size and the data.
`WM_USER_PASTE_COMPLETE` is two actions, `PasteComplete` (the test of the
clipboard's owner, `winclipboardwndproc.c:576`) and `PromiseAnew`
(`OpenClipboard`, `EmptyClipboard` and the new promise, `:582`): a copy in between,
which `slipped` records, is thrown away, and `OthersDataStays` excepts it.  `cutOff`
records that a wait timed out with a request or an answer still under way, in
Xlib's queue included.  `OwnerIsPasted` says nothing of such a paste: an owner that
answers in time may go unheard then, which is what `paste_seen` finds.

### ClipboardLifecycle

`phase` is where the server thread is: initialising a generation, dispatching,
in `SendMessage`, in `pthread_join`, or past them.  Each thread has a program
counter `tpc`; `setup`, `flush` and `trip` are the places where it waits for an
answer of the server, which comes only while the server dispatches.
`WrappedConnection` is `winProcEstablishConnection` in full, with refused
connections; `QueryTree` is `winProcQueryTree`.  `spoiled` records that the
wrapper went without a launch.  `g_fClipboard` and `g_fXdmcpEnabled` are
options, chosen in `Init`.  After an I/O error a thread exits: where
`g_jmpEntry` belongs to another thread the code's behaviour is undefined.

### MultiWindowWM

`xpc` and `wpc` are the XMsg and the WM thread, `pmServerStarted` the mutex they
start behind.  A check (`CheckAnotherWindowManager`) is `Begin`, `Select`,
`Sync`, `Restore`, `Deselect`, and what the loop makes of it is `Conclude`
(`ConcludeFirst` before the loop).  `root` is who has the exclusive events of
the root window: nobody, the XMsg thread for the time of a check (for good
without `fAllowOtherWM`), or another window manager, which comes and goes
(`StartOther`, `StopOther`).  `handler` is Xlib's one error handler, which all
threads set; an error is an error for the XMsg thread on its way (`xErr`) or one
met by the WM thread (`WHandle(TRUE)`).  The queue is `MessageFifo`, which
`WMQueue` is shown to implement.  What a message does to a window is abstracted.
`fAllowOtherWM` (`-internalwm` rather than `-multiwindow`) is chosen in `Init`.

### Xdmcp

The server is `state` (`xdmcp.c`'s `state`, the two `XDM_COLLECT_*` states as
one), `manager` (`req_sockaddr`), `SessionID`, `sessionSocket`, and what `os/`
keeps beside it: the authorizations (`auth`), the connections (`conns`) and
`dispatchException`.  A manager keeps a list of displays being negotiated and one
of displays it manages; `stage` says in which of them a session id is, `key` is
the authorization made for it, numbered because `request_respond` makes a new one
each time, and `child` is the process of the session, which may outlive what the
manager knows of it: `StopDisplay` sends `SIGTERM` and forgets the display
(`dm.c:713`), and the process lives on, to connect late (`ghost`) or, already
connected, to end its client and run the reset program (`stopped`), until
`StoppedEnds`.  `manage()` is `StartSession`, `FailSession` and `TurnDown`.  In
`FailSession` each `malloc` fails at its own place: for the display's name before
anything is stopped, for the class, the address or the display after it, and for the
authorization when `NewDisplay` has linked the display already.  That one is
freed without being taken out of the list (`xdm/xdmcp.c:1291`, `dpylist.c:264`):
`health` of the manager is `damaged`, and what follows is undefined, in the model a
`Crash` (also for a walk without end) or that the walks do not notice.  `net` is the set of datagrams that can still arrive.  A
datagram is taken out when it is delivered and may be left in (a duplicate, which
`dups` counts) or vanish (`faults`).  Each packet has an action at the end that
reads it, with the tests of state and session id the code makes.

`ManagerPromise` says that a manager implements `DisplaySessions`: what it has on
offer is `Protos`, what it manages `Displays`, the ids used up are those of stage
`gone`, and the session that works is the one with a process that was not told to
stop.  An offer is `RequestRespond` when nothing is on offer, a beginning is
`StartSession` (with or without a process, as `fork` succeeds), a withdrawal
`ExpireProto`, and an end `WaitForChild` or a `FailSession` that stopped the session
before; all else is a stutter, repeated requests, late `MANAGE`s, a failure before
anything is stopped and whatever the server does among them.  What processes
that were told to stop can still do is not the table's business:
`OneSessionConnected` says that the server has one session connected all the same,
because it admits another only after a reset.

`XdmcpWakeupHandler` tests its timer and its keepalive behind `if (0)`
(`os/xdmcp.c:718`, `:721`): the server never sends a datagram again and never
sends `KEEPALIVE`, so neither does the model; xdm's side of `KEEPALIVE` is
reached by nothing.  `-indirect` and xdm's forwarding of queries, access files and
the contents of datagrams are left out.

### DeviceGrabs

One thread runs all of it, and the difficulty is that it calls itself:
`ComputeFreezes` replays an event, whose handler may grab, freeze or thaw, and so
come back to `ComputeFreezes` while `PlayReleasedEvents` still walks over
`syncEvents.pending`.  `stack` holds the calls still to be made: `process`
(`processInputProc`), `handle` (behind XKB), `replay`, `play`
(`PlayReleasedEvents`, whose presence is `playingEvents`), `activated` (the rest
of a key's handler), `release` and `free` (the loops of `ReleaseActiveGrabs` and
`FreeClientResources`).  Requests, input and the repeat timer come when the stack
is empty.  A device's fields are functions of the device: `grab`, `passive`
(`fromPassiveGrab`), `sync` (`sync.state`), `other` (that `sync.other` is set: it
could only be the other device's grab), `frozen`, `event` (`sync.event`), `queues`
(that `processInputProc` is `enqueueInputProc`).  `AllowSome` is there with all of
its modes.  `arrived` and `done` number the events of a device; `leaked` records
that an event of a frozen device was handled, `revived` that a client that dies
got a grab after its active grabs were released.

Windows, event masks, time stamps, motion, focus and the matching of passive
grabs are abstracted: whether a press activates a passive grab, of which client
and in which modes, is a choice, and so is the order in which
`ReleaseActiveGrabs` meets the devices.  All keys repeat, and with the software
repeat: Xming sets repeat delay and rate from Windows (`winconfig.c:268`,
`winkeybd.c:289`) and discards the repeats of Windows itself (`winwndproc.c:1040`).
A failed `xalloc` in `EnqueueEvent`, which drops the event, is left out.  So is the
queueing of the second half of an event that goes through twice (`HandleTwice`) when
its first half froze the keyboard: the model hands it on at once, and `done`
counts an event once.  Modifiers, locks, slow and bouncing keys, radio groups and overlays, devices of
the input extension and the modes for them, and the reset after the last client
are left out.

## 3. Runs

Runs that pass:

| Run | Instance | Shows |
|---|---|---|
| `wm_queue` | 2 senders, 3 nodes, 2 messages, fair | `TypeOK`, `ListIsChain`, `OneOwner`, `NoLostWakeup`, and `FifoPromise`: it refines `MessageFifo`, with its liveness; no deadlock |
| `selection` | 2 clients, 3 operations of the environment, fair | `QuietClaimStands`, `NoEcho`, `TextCopyReachesX`, `OtherCopyReleases` |
| `paste` | owners with all targets, with `UTF8_STRING` only and with `STRING` only, 2 pastes, 2 changes, 1 other event, fair; owners may never answer | `RenderedIsCurrent`, `OwnerIsPasted`, `OthersDataStays`, `PasteEnds` |
| `lifecycle` | 3 generations, 2 threads, 4 connections, all options, fair | `OrigPresent`, `OneLaunch`, `FirstLaunches`, `ShutdownReturns` |
| `xdmcp` | 1 manager, 1 other client, 3 session ids, 3 authorizations each, 2 disturbances, 1 log out, fair | `ManagerPromise`: it refines `DisplaySessions`; `OneSessionConnected`, `RunsTheGrantedSession`, `LoginNeverFails`, `SessionEndsByItself`, `SessionComes` |
| `grabs` | 2 clients, 1 key and 1 button, 3 input events, 1 grab by request besides the passive ones, fair | `GrabsAgree`, `WaitsForAThaw`, `InOrder`, `GrabsHaveOwners`, `OthersKeepTheirs`, `QueueIsPlayed`; no deadlock |
| `multiwindow` | 2 messages of the server, 2 X events, another manager starting twice, both modes, fair | `StartsInTurn`, `OneMoreMessage`, `FlagsStayTogether`, `FlagSettles`, `WorkGetsDone` |

Every one of them checks its module's `TypeOK`, too.

Runs that find a violation, each of something the repository says of itself
(`findings` has the quotations):

| Run | Violates | Because |
|---|---|---|
| `selection_unflushed` | `ReleaseArrives` | the release of `CLIPBOARD` stays in Xlib's output buffer |
| `paste_seen` | `AnswerIsSeen` | `XSync` moves the answer to where `select` does not see it |
| `lifecycle_reset` | `ResetCompletes` | the server waits for the thread that waits for the server |
| `xdmcp_repeat` | `RepeatedRequestIsHarmless` | a `REQUEST` delivered twice gets the same session id with a new authorization; the server ignores the second `ACCEPT`, refuses the session's process, and ends when the manager reports `FAILED` |
| `repeat_frozen` | `FrozenIsSilent` | the repeat timer hands its release and press to XKB, whether the keyboard is frozen or not |

**Bounds.**  Three nodes let a list of two form while a third is handled, and
force addresses to be used again.  `MaxOps` counts what clients and programs
do: three let a copy overtake a copy that overtook another.  Two pastes let an
answer to the first arrive in the second; two changes let the selection change
hands, or be lost to a copy, while it is asked for, and an owner for each target
makes every fallback the one a paste depends on.  Three
generations let a thread of the first meet the second's shutdown and the
third's launch, and two threads let the older live on beside the newer; four
connections exhaust the three early ones of XDMCP.  Another window manager that
starts twice can be met by the first check, by later ones, and between two; two
messages are the one the WM thread waits for and one behind it.
Two disturbances of XDMCP let a duplicate meet a loss, or either meet a client that
slips in; `RunsTheGrantedSession` and `OneSessionConnected` allow any number of losses and failures and one
duplicate or other client, because with two of these a process of an older offer
can be let in and taken for the session.  Three session
ids let a log out be followed by another log in while the process of the first is
still waited for.  An instance with two managers, two session ids of each and one
disturbance (114,442 states) gives the same results.  Three input events with one key let a press, a
repeat and a release be queued together, or a key and a button wait for each
other; the passive grabs are not bounded, so one grab by request is enough for two
clients to hold the two devices and freeze both.  With two grabs by request (882,176
states) the safety properties pass as well.
Histories (`last`, `eligible`, `launches`, `leaked`, `revived`, ...) record; no
guard reads them.

**Deadlock** is checked for the queue and for the grabs.  The other models may
stop: their environments do a bounded number of things, and an XDMCP server may
end.

**Fairness.**  `WF` of the threads' own steps: the operating system schedules
them, and the mutex is never held for ever.  `WF` of the dispatcher, which
serves every client in turn.  `WF(Timeout)`: clocks tick.  Clients, programs,
resets, failures and spurious wakeups have none, so no liveness property rests
on their kindness, but for `AppClose`: a program does not keep the clipboard
open for ever.  In `MultiWindowWM` each of the three threads is scheduled as a
whole; that X events, messages and other managers come to an end is the bound's
doing, and `FlagSettles` and `WorkGetsDone` say what holds when they do.
In `Xdmcp` the server and xdm block in `select` until there is something to do,
and a process of a session runs; `SessionComes` and `LoginNeverFails` are stated
of runs in which nothing goes wrong, since the server sends nothing twice.  In
`DeviceGrabs`, `WF(Call)`: the server goes on with the call it is in.  `SF` of
each client's ungrabbing is the one demand on clients, and it is the one the
manual pages of `XGrabKeyboard` and `XGrabPointer` make: a client that never
gives up a synchronous grab keeps the queue for ever.

## 4. Proofs

`WMQueueProofs`, for any sets of senders, nodes and messages.  The invariant
the runs check is not inductive: that `PublishHead` gives the list its right
head needs who holds the mutex, what each thread's local `pNode` is at each
point, and that nobody else is in a critical section.  `IInv` adds these to
`ListIsChain`, `OneOwner` and `NoLostWakeup`.  From it follow `TypeCorrect`,
`ListCorrect`, `OwnersCorrect`, `WakeupCorrect`, and `QueueIsFifo`: initial
states map to initial states and each step to a step of `MessageFifo` or a
stutter (a send is `LinkTail`, a receive `TakeHead`, a finish `HandleAndFree`).

`ClipboardLifecycleProofs`, for any number of threads, generations and
connections.  `IInv` is `TypeOK`, `OrigPresent`, that a launch sets
`g_fClipboardLaunched` for as long as the generation dispatches (`LaunchFlag`),
that the static counter stays below four while the wrapper counts
(`CallsCounted`), and that the wrapper waits for the first connection of a
generation (`FirstWaits`).  From it `TypeCorrect`, `OriginalsPresent`,
`LaunchedOnce` and `FirstLaunchesTheClipboard`.

`MultiWindowProofs`, for any bounds.  `StartsInTurn` needs who holds the mutex
(`MutexInv`); the types and `FlagsStayTogether` need that every check but the
first is made with `fAllowOtherWM`, and that the server is told what the flag
says (`CheckInv`); `OneMoreMessage` needs that nothing was late before the flag
was set and that the flag was clear when the WM thread began to wait
(`LateInv`).  From them `TypeCorrect`, `StartsInTurnCorrect`,
`OneMoreMessageCorrect` and the action property `FlagsStayTogetherCorrect`.

`SelectionBridgeProofs`, for any clients and number of operations.  `NoEcho` needs
the types only: that no request of the bridge takes the Windows clipboard is a
matter of each single step.  `QuietClaimStands` is not inductive: a release that is
still in Xlib's buffer or on the wire would undo the claim.  `Calm` adds that, while a
claim made in quiet is in force, the bridge is idle, its buffer is empty and all
that is on the wire is answers.

`ClipboardPasteProofs` and `PastedTextProofs`, for any clients, whatever they can
convert to, and any bounds.  `OthersDataStays` needs that a wait of
`WM_RENDERFORMAT` means a program that waits for a promise (`Waits`), that a
program's own text on the clipboard means that a program owns it (`OwnText`), and
that once `PasteComplete` has made its test only a copy that `slipped` can have taken
the clipboard from the bridge (`Tested`); that the
messages which wait never outnumber the pastes (`Counted`) is needed for the
types.  `RenderedIsCurrent` and `OwnerIsPasted` rest on one fact, `Single`: in a
paste that nothing older disturbs, at most one thing is on its way, be it the
request, the `SelectionRequest`, the answer, or the two readings of the property.
So the property cannot change between its two readings, what it holds was
selected during the paste (`Current`), and the target of a refusal tells which
ones were refused before (`Tried`).  A wait that ends with nothing on its way has
therefore seen all three refusals.

`XdmcpProofs`, for any managers, clients and bounds.  The types are inductive
with `ManagerKnown` (a server that waits for an answer has a manager it asked);
`OneSessionPerDisplay` and `NoStrayProcess` (a process that has no display was
waited for or told to stop) are inductive together, each needed for
the other where `manage()` stops the session that ran; `SessionEndsByItself` is
proved of each step.

* `PromiseKept` is the refinement.  `OneSessionPerDisplay` makes the sets of the
  mapping empty or singletons, and `NoStrayProcess` makes the process the managed
  session's.  Each step of a manager maps to the step named in section 2 for its
  own entry of the table (`OfferRefines`, `BeginRefines`, `EndRefines`,
  `WithdrawRefines`), and leaves the other managers' entries alone (`TableEntries`).
* `LoginSucceeds` rests on `Smooth`: as long as nothing went wrong, at most one
  `REQUEST` or `ACCEPT` is on its way, and the server waits for it; a `MANAGE` on
  its way and a process that starts carry the session id and the key the server
  has; no rejection exists; and the server's only connection is its session's.
  So a manager has no reason to decline or refuse, and a process none to fail.
* `RunsGranted` rests on two ways to keep log ins apart.  `OneLogin`: at most one
  `MANAGE`, `REFUSE` or starting process at a time, of the id the server has.
  `OfferInv`: at most one offer at a time, and of all processes of older offers
  none that the server would still admit.  `CleanReset`: no reset in the middle of
  a log in.  Either of the first two is enough where the third holds, and both
  are where it does not.  A repeated datagram breaks at most one of the first two;
  another client breaks `OneLogin` if it comes while the server awaits the
  session, and `CleanReset` otherwise; losses and failures break none.  Hence
  `dups + locals <= 1`, and the invariant `GrantInv` is a disjunction of these
  cases.
* `OneConnected` rests on `GrantInv` and `ConnInv`: any session that is connected has
  the session id the server has, and the server is running it or has just closed
  it.  So none is connected while the server awaits one, and one that is let in
  late finds the server without another.

`DeviceGrabsProofs`, for any clients, keys and bounds.  `Grabs` states the
agreement of a device's pointers and flags at every point between two calls,
`leaked` or not; it is what lets `ComputeFreezes` be described once (`ComputeFreezes`
keeps it whatever the caller made of `sync.state` and `sync.other` before).
`Played` says that whatever is queued for a device that is not frozen is about to
be played, because a `play` is still on the stack: that makes `WaitsForAThaw`
inductive.  `GrabsHaveOwners` is kept because `ReleaseActiveGrabs` counts a client out
only in a pass that found no grab of it.  From these the invariants, and `OthersAreSpared`, the action
property, of each request.

`EventsInOrder` needs `Ordered`.  An event of the user that is being processed is
the innermost call (`OnTop`), it is the next of its device and its device is not
frozen; and the queued events of a device are exactly the ones after the last
that was processed or is about to be, up to the last that arrived, in their
order (`Line`).  `Line` is kept by an event put at the end and by the removal of the
first of a device, wherever in the queue it is, which is what
`PlayReleasedEvents` does however often it is interrupted.  From the same
invariant come `UserWaitsCorrect` (what gets around a freeze first is never an
event of the user on its first way through: the repeat timer's, which is the
finding of `repeat_frozen`, or the second half of an event whose first half froze
the device) and the action property `EachInTurnCorrect`.

Assumptions are only those on the constants in the modules.  `NullAssumption` of
`Xdmcp` also says that `NULL` is not one of the two values of `dispatchException`: the
code's 0 is neither of its bits, and without it `LoginNeverFails` is not even
true.

Every invariant and every action property of the passing runs is proved.
`NoStrayProcess`, which the refinement rests on, is proved and in no run.
Model-checked only, being out of the prover's reach: liveness (`FifoPromise`'s second half,
`TextCopyReachesX`, `OtherCopyReleases`, `PasteEnds`, `ShutdownReturns`,
`FlagSettles`, `WorkGetsDone`, `SessionComes`, `QueueIsPlayed`), `ENABLED`, and
inductions over data; the modules with proofs use no recursive operator.

## 5. Not modelled

Text conversion (Unicode, compound text), locales and the formats of the
Windows clipboard; the `SelectionRequest` branch beyond its being answered;
`WM_CHANGECBCHAIN` and `WM_WM_REINIT`; early exits of `winClipboardProc` on
failing Xlib or Win32 calls before its window exists; I/O errors of the window
manager threads and what is left of them when a generation ends; the effects of
`longjmp` to a dead stack, which are undefined; of XDMCP, `-indirect`, forwarded
queries, `KEEPALIVE` and everything behind the disabled timer; of the grabs,
failed allocations, the queueing of the second half of an event (section 2), which window and mask an event is for, motion, focus, time stamps, XKB's
filters other than the repeat, and extension devices.

One hazard of the grabs has no property: `activatingKey` is set by a press that
comes from the keyboard and not by one that `ComputeFreezes` replays
(`dix/events.c:3048`), so the release of that key need not end the grab the replay
began, as the manual page of `XGrabKey` says it does.  The model follows the code,
and does not record which key began a grab.

Some hazards are in the models and cannot have a property, because the code does go
wrong there and the repository promises nothing else.  A copy of a Windows program
between a test of the clipboard's owner and the `EmptyClipboard` that rests on it is
lost (twice: see `SelectionBridge` and `ClipboardPaste`).  A late answer of an owner
is taken for the answer to the next paste.  A wrapper that was used up by a refused
connection leaves a generation without a clipboard.  A datagram that is lost is never
sent again, a manager may crash over a display it freed, a client that keeps a
synchronous grab keeps the queue, and a thread that fails in its start-up keeps
the other from starting.  The properties nearest to them say what holds
otherwise, with these cases excepted by name (`slipped`, `disturbed`, `spoiled`,
`Undisturbed`, ...).  The hazards without a property, and those of which a property
covers only a part, have a `note` in `PROJECT.json`.

Components with status `not_modelled` there have their reasons beside them.  The
largest part of the repository by far is drivers, drawing code, libraries,
programs, fonts and data that Xming either does not contain or that keep no state
of their own between calls: the share of the repository's lines that the modules
stand for is small for that reason.

## 6. Plan

What is done: the queue, the bridge, the paste, the life cycle, the window
manager threads, XDMCP, the grabs, each with its proofs.  What is left, in this
order:

1. `ClipboardChain`: the viewer chain with `WM_CHANGECBCHAIN`, `WM_WM_REINIT`,
   nested `WM_DRAWCLIPBOARD`.
2. `ClientDispatch`: `WaitForSomething`, input buffers, server grabs, close-down
   modes.
3. `SyncCounters`, `Resources`, keyboard and mouse emulation.
4. `DeviceGrabs` with focus and the windows events are for.
5. Abstract specifications of the paste (a promise that is kept once, or broken in
   time) and of a device's queue, to state the refinements of `ClipboardPaste` and
   `DeviceGrabs`.
