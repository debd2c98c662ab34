------------------------------- MODULE WMQueue -------------------------------
(***************************************************************************)
(* The message queue between the threads of Xming's multi-window mode      *)
(* (hw/xwin/winmultiwindowwm.c): a linked list with head and tail          *)
(* pointers and a counter, one mutex and one condition variable.  The X    *)
(* server thread and the XMsg thread push (winSendMessageToWM), the window *)
(* manager thread pops, handles and frees (winMultiWindowWMProc).          *)
(*                                                                         *)
(* A critical section takes several steps here, so the mutex has to do its *)
(* work; pthread_cond_signal is a step of its own because PushMessage      *)
(* signals after it unlocked.  Nodes are addresses that malloc gives out   *)
(* again after a free.                                                     *)
(***************************************************************************)
EXTENDS Naturals, Sequences

CONSTANTS
    Producer,       \* threads that call winSendMessageToWM
    WM,             \* the thread of winMultiWindowWMProc
    Node,           \* the addresses malloc can return
    Message,        \* message contents
    NULL

ASSUME ThreadAssumption == WM \notin Producer /\ NULL \notin Producer \cup {WM}
ASSUME NodeAssumption   == NULL \notin Node

VARIABLES
    pHead, pTail,   \* the list's ends
    nQueueSize,
    pNext,          \* pNode->pNext, for every address
    msg,            \* pNode->msg
    free,           \* addresses malloc may return
    pmMutex,        \* the thread that holds it, or NULL
    pc,             \* where each thread is
    node,           \* the thread's local pNode
    waiting,        \* the WM thread sleeps on pcNotEmpty
    chain           \* history: the linked nodes, oldest first

list  == <<pHead, pTail, nQueueSize, pNext>>
vars  == <<list, msg, free, pmMutex, pc, node, waiting, chain>>

Thread == Producer \cup {WM}

PushPC == {"idle", "push", "link", "publish", "unlock", "signal"}
PopPC  == {"idle", "test", "sleep", "take", "retail", "release", "handle"}

TypeOK ==
    /\ pHead \in Node \cup {NULL}
    /\ pTail \in Node \cup {NULL}
    /\ nQueueSize \in Nat
    /\ pNext \in [Node -> Node \cup {NULL}]
    /\ msg \in [Node -> Message]
    /\ free \in SUBSET Node
    /\ pmMutex \in Thread \cup {NULL}
    /\ pc \in [Thread -> PushPC \cup PopPC]
    /\ node \in [Thread -> Node \cup {NULL}]
    /\ waiting \in BOOLEAN
    /\ chain \in Seq(Node)

\* InitQueue
Init ==
    /\ pHead = NULL
    /\ pTail = NULL
    /\ nQueueSize = 0
    /\ pNext = [n \in Node |-> NULL]
    /\ msg \in {[n \in Node |-> m] : m \in Message}
    /\ free = Node
    /\ pmMutex = NULL
    /\ pc = [t \in Thread |-> "idle"]
    /\ node = [t \in Thread |-> NULL]
    /\ waiting = FALSE
    /\ chain = << >>

Goto(t, from, to) ==
    /\ pc[t] = from
    /\ pc' = [pc EXCEPT ![t] = to]

Acquire(t) ==
    /\ pmMutex = NULL
    /\ pmMutex' = t

-----------------------------------------------------------------------------
(* winSendMessageToWM and PushMessage                                      *)

\* A malloc that fails drops the message: nothing of the queue changes.
Malloc(p, m) ==
    /\ Goto(p, "idle", "push")
    /\ \E n \in free :
        /\ free' = free \ {n}
        /\ node' = [node EXCEPT ![p] = n]
        /\ msg' = [msg EXCEPT ![n] = m]
    /\ UNCHANGED <<list, pmMutex, waiting, chain>>

PushLock(p) ==
    /\ Goto(p, "push", "link")
    /\ Acquire(p)
    /\ UNCHANGED <<list, msg, free, node, waiting, chain>>

LinkTail(p) ==
    /\ Goto(p, "link", "publish")
    /\ LET ended == [pNext EXCEPT ![node[p]] = NULL] IN
       pNext' = IF pTail = NULL THEN ended
                ELSE [ended EXCEPT ![pTail] = node[p]]
    /\ pTail' = node[p]
    /\ chain' = Append(chain, node[p])
    /\ UNCHANGED <<pHead, nQueueSize, msg, free, pmMutex, node, waiting>>

\* Mutant: the counter is not incremented.
PublishHeadUncounted(p) ==
    /\ Goto(p, "publish", "unlock")
    /\ pHead' = IF pHead = NULL THEN node[p] ELSE pHead
    /\ UNCHANGED <<pTail, nQueueSize, pNext, msg, free, pmMutex, node, waiting, chain>>

PublishHead(p) ==
    /\ Goto(p, "publish", "unlock")
    /\ pHead' = IF pHead = NULL THEN node[p] ELSE pHead
    /\ nQueueSize' = nQueueSize + 1
    /\ UNCHANGED <<pTail, pNext, msg, free, pmMutex, node, waiting, chain>>

\* Mutant: no pthread_cond_signal follows.
PushUnlockSilently(p) ==
    /\ Goto(p, "unlock", "idle")
    /\ pmMutex' = NULL
    /\ node' = [node EXCEPT ![p] = NULL]
    /\ UNCHANGED <<list, msg, free, waiting, chain>>

PushUnlock(p) ==
    /\ Goto(p, "unlock", "signal")
    /\ pmMutex' = NULL
    /\ node' = [node EXCEPT ![p] = NULL]
    /\ UNCHANGED <<list, msg, free, waiting, chain>>

\* A signal nobody waits for is lost.
Signal(p) ==
    /\ Goto(p, "signal", "idle")
    /\ waiting' = FALSE
    /\ UNCHANGED <<list, msg, free, pmMutex, node, chain>>

-----------------------------------------------------------------------------
(* PopMessage and the loop of winMultiWindowWMProc                         *)

\* Mutant: the queue is read without its mutex.
PopLockLess ==
    /\ Goto(WM, "idle", "test")
    /\ UNCHANGED <<list, msg, free, pmMutex, node, waiting, chain>>

PopLock ==
    /\ Goto(WM, "idle", "test")
    /\ Acquire(WM)
    /\ UNCHANGED <<list, msg, free, node, waiting, chain>>

\* pthread_cond_wait gives the mutex up and sleeps in one step.
Sleep ==
    /\ pHead = NULL
    /\ Goto(WM, "test", "sleep")
    /\ pmMutex' = NULL
    /\ waiting' = TRUE
    /\ UNCHANGED <<list, msg, free, node, chain>>

\* POSIX lets pthread_cond_wait return without a signal.
SpuriousWakeup ==
    /\ waiting
    /\ waiting' = FALSE
    /\ UNCHANGED <<list, msg, free, pmMutex, pc, node, chain>>

\* Woken, the thread needs the mutex again, and tests again.
Relock ==
    /\ ~waiting
    /\ Goto(WM, "sleep", "test")
    /\ Acquire(WM)
    /\ UNCHANGED <<list, msg, free, node, waiting, chain>>

NotEmpty ==
    /\ pHead # NULL
    /\ Goto(WM, "test", "take")
    /\ UNCHANGED <<list, msg, free, pmMutex, node, waiting, chain>>

\* Mutant: the newest message is taken instead of the oldest.
TakeTail ==
    /\ Goto(WM, "take", "retail")
    /\ node' = [node EXCEPT ![WM] = pTail]
    /\ pHead' = pNext[pHead]
    /\ chain' = Tail(chain)
    /\ UNCHANGED <<pTail, nQueueSize, pNext, msg, free, pmMutex, waiting>>

TakeHead ==
    /\ Goto(WM, "take", "retail")
    /\ node' = [node EXCEPT ![WM] = pHead]
    /\ pHead' = pNext[pHead]
    /\ chain' = Tail(chain)
    /\ UNCHANGED <<pTail, nQueueSize, pNext, msg, free, pmMutex, waiting>>

\* Mutant: the tail is left behind when the last message goes.
KeepTail ==
    /\ Goto(WM, "retail", "release")
    /\ nQueueSize' = nQueueSize - 1
    /\ UNCHANGED <<pHead, pTail, pNext, msg, free, pmMutex, node, waiting, chain>>

FixTail ==
    /\ Goto(WM, "retail", "release")
    /\ pTail' = IF pTail = node[WM] THEN NULL ELSE pTail
    /\ nQueueSize' = nQueueSize - 1
    /\ UNCHANGED <<pHead, pNext, msg, free, pmMutex, node, waiting, chain>>

PopUnlock ==
    /\ Goto(WM, "release", "handle")
    /\ pmMutex' = NULL
    /\ UNCHANGED <<list, msg, free, node, waiting, chain>>

\* The switch reads pNode->msg, then free (pNode).
HandleAndFree ==
    /\ Goto(WM, "handle", "idle")
    /\ free' = free \cup {node[WM]}
    /\ node' = [node EXCEPT ![WM] = NULL]
    /\ UNCHANGED <<list, msg, pmMutex, waiting, chain>>

-----------------------------------------------------------------------------
PushStep(p) ==
    \/ PushLock(p)
    \/ LinkTail(p)
    \/ PublishHead(p)
    \/ PushUnlock(p)
    \/ Signal(p)

PopStep ==
    \/ PopLock
    \/ Sleep
    \/ Relock
    \/ NotEmpty
    \/ TakeHead
    \/ FixTail
    \/ PopUnlock
    \/ HandleAndFree

Next ==
    \/ \E p \in Producer, m \in Message : Malloc(p, m)
    \/ \E p \in Producer : PushStep(p)
    \/ PopStep
    \/ SpuriousWakeup

\* A thread that can run eventually does; nobody has to send, and no wakeup
\* comes for free.
Fairness ==
    /\ \A p \in Producer : WF_vars(PushStep(p))
    /\ WF_vars(PopStep)

Spec     == Init /\ [][Next]_vars
FairSpec == Spec /\ Fairness

-----------------------------------------------------------------------------
(* Properties                                                              *)

Publishing == \E p \in Producer : pc[p] = "publish"
Taking     == pc[WM] = "retail"

\* The pointers and the counter of the list describe the messages pushed and
\* not yet popped, except for the half-done update of the mutex's holder:
\* PushMessage between its two pointer updates, PopMessage before it fixes the
\* tail.  A wrong tail after the last pop is the classical bug: the next push
\* would link behind a node that was freed.
ListIsChain ==
    /\ pHead = IF chain = << >> \/ (Publishing /\ Len(chain) = 1)
               THEN NULL ELSE chain[1]
    /\ pTail = IF chain # << >> THEN chain[Len(chain)]
               ELSE IF Taking THEN node[WM] ELSE NULL
    /\ \A i \in 1..Len(chain) :
          pNext[chain[i]] = IF i = Len(chain) THEN NULL ELSE chain[i + 1]
    /\ nQueueSize + (IF Publishing THEN 1 ELSE 0)
          = Len(chain) + (IF Taking THEN 1 ELSE 0)

\* Every node has one owner: the allocator, the list, the thread that pushes it
\* or the window manager that handles it.  So nobody links or reads memory that
\* was freed, and no message is handled twice.
OneOwner ==
    /\ \A i, j \in 1..Len(chain) : chain[i] = chain[j] => i = j
    /\ \A i \in 1..Len(chain) :
          /\ chain[i] \notin free
          /\ \A t \in Thread : node[t] = chain[i] => pc[t] \in {"publish", "unlock"}
    /\ \A t \in Thread : node[t] \notin free
    /\ \A t, u \in Thread : node[t] = node[u] /\ node[t] # NULL => t = u

\* PushMessage signals after it unlocked, and only once: if the window manager
\* sleeps although a message is linked, some thread has yet to signal.
NoLostWakeup ==
    waiting /\ chain # << >> =>
        \E p \in Producer : pc[p] \in {"publish", "unlock", "signal"}

\* The queue implements the first-in first-out channel: LinkTail sends, TakeHead
\* receives, HandleAndFree finishes, everything else is invisible; and a
\* message that was pushed is eventually handled.
Fifo == INSTANCE MessageFifo WITH
    queue  <- [i \in 1..Len(chain) |-> msg[chain[i]]],
    inHand <- IF node[WM] = NULL THEN << >> ELSE <<msg[node[WM]]>>

FifoPromise == Fifo!Spec
FifoSafety  == Fifo!Safety
=============================================================================
