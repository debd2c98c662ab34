---------------------------- MODULE WMQueueProofs ----------------------------
(***************************************************************************)
(* For any number of producers, nodes and messages: the window manager's   *)
(* queue keeps its list in order, gives every node one owner, loses no     *)
(* wakeup, and implements the first-in first-out channel of MessageFifo.   *)
(***************************************************************************)
EXTENDS WMQueue, SequenceTheorems, TLAPS

(* The strengthening: who holds the mutex and who holds a node is known    *)
(* from where the threads are.                                             *)

Critical == {"link", "publish", "unlock", "test", "take", "retail", "release"}

LockInv ==
    /\ \A p \in Producer : pc[p] \in PushPC
    /\ pc[WM] \in PopPC
    /\ \A t \in Thread : pc[t] \in Critical <=> pmMutex = t
    /\ waiting => pc[WM] = "sleep"

HandInv ==
    /\ \A p \in Producer :
          node[p] # NULL <=> pc[p] \in {"push", "link", "publish", "unlock"}
    /\ node[WM] # NULL <=> pc[WM] \in {"retail", "release", "handle"}
    /\ pc[WM] = "take" => chain # << >>
    /\ \A p \in Producer :
          pc[p] = "publish" => chain # << >> /\ node[p] = chain[Len(chain)]

IInv ==
    /\ TypeOK
    /\ LockInv
    /\ HandInv
    /\ ListIsChain
    /\ OneOwner
    /\ NoLostWakeup

-----------------------------------------------------------------------------
(* What Append and Tail do to a sequence, in the form the proofs use.       *)

LEMMA AppendChain ==
    ASSUME NEW S, NEW s \in Seq(S), NEW e \in S
    PROVE  /\ Append(s, e) \in Seq(S)
           /\ Append(s, e) # << >>
           /\ Len(s) \in Nat
           /\ Len(Append(s, e)) = Len(s) + 1
           /\ \A i \in 1..Len(s) : Append(s, e)[i] = s[i]
           /\ Append(s, e)[Len(s) + 1] = e
<1>1. /\ Append(s, e) \in Seq(S)
      /\ Len(Append(s, e)) = Len(s) + 1
      /\ \A i \in 1..Len(s) : Append(s, e)[i] = s[i]
      /\ Append(s, e)[Len(s) + 1] = e
  BY AppendProperties
<1>2. Len(s) \in Nat
  BY LenProperties
<1>3. Append(s, e) # << >>
  BY <1>1, <1>2, EmptySeq
<1> QED
  BY <1>1, <1>2, <1>3

LEMMA NonEmptyChain ==
    ASSUME NEW S, NEW s \in Seq(S)
    PROVE  /\ Len(s) \in Nat
           /\ s = << >> <=> Len(s) = 0
           /\ \A i \in 1..Len(s) : s[i] \in S
  BY EmptySeq, LenProperties, ElementOfSeq

LEMMA TailChain ==
    ASSUME NEW S, NEW s \in Seq(S), s # << >>
    PROVE  /\ Tail(s) \in Seq(S)
           /\ Len(s) \in Nat /\ Len(s) > 0
           /\ Len(Tail(s)) = Len(s) - 1
           /\ Tail(s) = << >> <=> Len(s) = 1
           /\ \A i \in 1..(Len(s) - 1) : Tail(s)[i] = s[i + 1]
<1>1. /\ Tail(s) \in Seq(S)
      /\ Len(Tail(s)) = Len(s) - 1
      /\ \A i \in 1..Len(Tail(s)) : Tail(s)[i] = s[i + 1]
  BY HeadTailProperties
<1>2. Len(s) \in Nat /\ Len(s) > 0
  BY NonEmptyChain
<1>3. Tail(s) = << >> <=> Len(Tail(s)) = 0
  BY <1>1, NonEmptyChain
<1> QED
  BY <1>1, <1>2, <1>3

-----------------------------------------------------------------------------
LEMMA InitIInv == Init => IInv
<1> SUFFICES ASSUME Init PROVE IInv
  OBVIOUS
<1> USE ThreadAssumption, NodeAssumption DEF Init, Thread
<1>1. chain \in Seq(Node) /\ Len(chain) = 0
  BY EmptySeq
<1>2. TypeOK
  BY <1>1 DEF TypeOK, PushPC
<1>3. LockInv
  BY DEF LockInv, PushPC, PopPC, Critical
<1>4. HandInv
  BY DEF HandInv
<1>5. ListIsChain
  BY <1>1 DEF ListIsChain, Publishing, Taking
<1>6. OneOwner
  BY <1>1 DEF OneOwner
<1>7. NoLostWakeup
  BY DEF NoLostWakeup
<1> QED
  BY <1>2, <1>3, <1>4, <1>5, <1>6, <1>7 DEF IInv

LEMMA PushLockInv ==
    ASSUME IInv, NEW p \in Producer, PushLock(p)
    PROVE  IInv'
<1> USE ThreadAssumption, NodeAssumption DEF Thread
<1>1. TypeOK'
  BY DEF IInv, TypeOK, PushLock, Goto, Acquire, list, PushPC, PopPC
<1>2. LockInv'
  BY DEF IInv, TypeOK, LockInv, PushLock, Goto, Acquire, Critical, PushPC, PopPC
<1>3. HandInv'
  BY DEF IInv, TypeOK, LockInv, HandInv, PushLock, Goto, Acquire, PushPC, PopPC
<1>4. ListIsChain'
  BY DEF IInv, TypeOK, LockInv, HandInv, ListIsChain, OneOwner, Publishing, Taking, PushLock, Goto, Acquire, list, PushPC, PopPC, Critical
<1>5. OneOwner'
  BY DEF IInv, TypeOK, LockInv, HandInv, ListIsChain, OneOwner, PushLock, Goto, Acquire, list, PushPC, PopPC, Critical
<1>6. NoLostWakeup'
  BY DEF IInv, TypeOK, LockInv, NoLostWakeup, PushLock, Goto, Acquire, list, PushPC, PopPC
<1> QED
  BY <1>1, <1>2, <1>3, <1>4, <1>5, <1>6 DEF IInv

LEMMA LinkTailInv ==
    ASSUME IInv, NEW p \in Producer, LinkTail(p)
    PROVE  IInv'
<1> USE ThreadAssumption, NodeAssumption DEF Thread
<1>1. TypeOK'
  <2>1. node[p] \in Node
    BY DEF IInv, TypeOK, HandInv, LinkTail, Goto
  <2>2. chain' \in Seq(Node)
    BY <2>1, AppendChain DEF IInv, TypeOK, LinkTail
  <2> QED
    BY <2>1, <2>2 DEF IInv, TypeOK, LinkTail, Goto, PushPC, PopPC
<1>2. LockInv'
  BY DEF IInv, TypeOK, LockInv, LinkTail, Goto, Acquire, Critical, PushPC, PopPC
<1>3. HandInv'
  <2>1. node[p] \in Node
    BY DEF IInv, TypeOK, HandInv, LinkTail, Goto
  <2>2. chain' # << >> /\ chain'[Len(chain')] = node[p]
    BY <2>1, AppendChain DEF IInv, TypeOK, LinkTail
  <2>3. \A q \in Producer \ {p} : pc[q] # "publish"
    BY DEF IInv, TypeOK, LockInv, LinkTail, Goto, Critical
  <2> QED
    BY <2>1, <2>2, <2>3 DEF IInv, TypeOK, LockInv, HandInv, LinkTail, Goto
<1>4. ListIsChain'
  BY DEF IInv, TypeOK, LockInv, HandInv, ListIsChain, OneOwner, Publishing, Taking, LinkTail, Goto, Acquire, list, PushPC, PopPC, Critical
<1>5. OneOwner'
  BY DEF IInv, TypeOK, LockInv, HandInv, ListIsChain, OneOwner, LinkTail, Goto, Acquire, list, PushPC, PopPC, Critical
<1>6. NoLostWakeup'
  BY DEF IInv, TypeOK, LockInv, NoLostWakeup, LinkTail, Goto, Acquire, list, PushPC, PopPC
<1> QED
  BY <1>1, <1>2, <1>3, <1>4, <1>5, <1>6 DEF IInv

LEMMA PublishHeadInv ==
    ASSUME IInv, NEW p \in Producer, PublishHead(p)
    PROVE  IInv'
<1> USE ThreadAssumption, NodeAssumption DEF Thread
<1>1. TypeOK'
  BY DEF IInv, TypeOK, PublishHead, Goto, Acquire, list, PushPC, PopPC
<1>2. LockInv'
  BY DEF IInv, TypeOK, LockInv, PublishHead, Goto, Acquire, Critical, PushPC, PopPC
<1>3. HandInv'
  BY DEF IInv, TypeOK, LockInv, HandInv, PublishHead, Goto, Acquire, PushPC, PopPC
<1>4. ListIsChain'
  BY DEF IInv, TypeOK, LockInv, HandInv, ListIsChain, OneOwner, Publishing, Taking, PublishHead, Goto, Acquire, list, PushPC, PopPC, Critical
<1>5. OneOwner'
  BY DEF IInv, TypeOK, LockInv, HandInv, ListIsChain, OneOwner, PublishHead, Goto, Acquire, list, PushPC, PopPC, Critical
<1>6. NoLostWakeup'
  BY DEF IInv, TypeOK, LockInv, NoLostWakeup, PublishHead, Goto, Acquire, list, PushPC, PopPC
<1> QED
  BY <1>1, <1>2, <1>3, <1>4, <1>5, <1>6 DEF IInv

LEMMA PushUnlockInv ==
    ASSUME IInv, NEW p \in Producer, PushUnlock(p)
    PROVE  IInv'
<1> USE ThreadAssumption, NodeAssumption DEF Thread
<1>1. TypeOK'
  BY DEF IInv, TypeOK, PushUnlock, Goto, Acquire, list, PushPC, PopPC
<1>2. LockInv'
  BY DEF IInv, TypeOK, LockInv, PushUnlock, Goto, Acquire, Critical, PushPC, PopPC
<1>3. HandInv'
  BY DEF IInv, TypeOK, LockInv, HandInv, PushUnlock, Goto, Acquire, PushPC, PopPC
<1>4. ListIsChain'
  BY DEF IInv, TypeOK, LockInv, HandInv, ListIsChain, OneOwner, Publishing, Taking, PushUnlock, Goto, Acquire, list, PushPC, PopPC, Critical
<1>5. OneOwner'
  BY DEF IInv, TypeOK, LockInv, HandInv, ListIsChain, OneOwner, PushUnlock, Goto, Acquire, list, PushPC, PopPC, Critical
<1>6. NoLostWakeup'
  BY DEF IInv, TypeOK, LockInv, NoLostWakeup, PushUnlock, Goto, Acquire, list, PushPC, PopPC
<1> QED
  BY <1>1, <1>2, <1>3, <1>4, <1>5, <1>6 DEF IInv

LEMMA SignalInv ==
    ASSUME IInv, NEW p \in Producer, Signal(p)
    PROVE  IInv'
<1> USE ThreadAssumption, NodeAssumption DEF Thread
<1>1. TypeOK'
  BY DEF IInv, TypeOK, Signal, Goto, Acquire, list, PushPC, PopPC
<1>2. LockInv'
  BY DEF IInv, TypeOK, LockInv, Signal, Goto, Acquire, Critical, PushPC, PopPC
<1>3. HandInv'
  BY DEF IInv, TypeOK, LockInv, HandInv, Signal, Goto, Acquire, PushPC, PopPC
<1>4. ListIsChain'
  BY DEF IInv, TypeOK, LockInv, HandInv, ListIsChain, OneOwner, Publishing, Taking, Signal, Goto, Acquire, list, PushPC, PopPC, Critical
<1>5. OneOwner'
  BY DEF IInv, TypeOK, LockInv, HandInv, ListIsChain, OneOwner, Signal, Goto, Acquire, list, PushPC, PopPC, Critical
<1>6. NoLostWakeup'
  BY DEF IInv, TypeOK, LockInv, NoLostWakeup, Signal, Goto, Acquire, list, PushPC, PopPC
<1> QED
  BY <1>1, <1>2, <1>3, <1>4, <1>5, <1>6 DEF IInv

LEMMA MallocInv ==
    ASSUME IInv, NEW p \in Producer, NEW m \in Message, Malloc(p, m)
    PROVE  IInv'
<1> USE ThreadAssumption, NodeAssumption DEF Thread
<1>1. TypeOK'
  BY DEF IInv, TypeOK, Malloc, Goto, Acquire, list, PushPC, PopPC
<1>2. LockInv'
  BY DEF IInv, TypeOK, LockInv, Malloc, Goto, Acquire, Critical, PushPC, PopPC
<1>3. HandInv'
  BY DEF IInv, TypeOK, LockInv, HandInv, Malloc, Goto, Acquire, PushPC, PopPC
<1>4. ListIsChain'
  BY DEF IInv, TypeOK, LockInv, HandInv, ListIsChain, OneOwner, Publishing, Taking, Malloc, Goto, Acquire, list, PushPC, PopPC, Critical
<1>5. OneOwner'
  BY DEF IInv, TypeOK, LockInv, HandInv, ListIsChain, OneOwner, Malloc, Goto, Acquire, list, PushPC, PopPC, Critical
<1>6. NoLostWakeup'
  BY DEF IInv, TypeOK, LockInv, NoLostWakeup, Malloc, Goto, Acquire, list, PushPC, PopPC
<1> QED
  BY <1>1, <1>2, <1>3, <1>4, <1>5, <1>6 DEF IInv

LEMMA PopLockInv ==
    ASSUME IInv, PopLock
    PROVE  IInv'
<1> USE ThreadAssumption, NodeAssumption DEF Thread
<1>1. TypeOK'
  BY DEF IInv, TypeOK, PopLock, Goto, Acquire, list, PushPC, PopPC
<1>2. LockInv'
  BY DEF IInv, TypeOK, LockInv, PopLock, Goto, Acquire, Critical, PushPC, PopPC
<1>3. HandInv'
  BY DEF IInv, TypeOK, LockInv, HandInv, PopLock, Goto, Acquire, PushPC, PopPC
<1>4. ListIsChain'
  BY DEF IInv, TypeOK, LockInv, HandInv, ListIsChain, OneOwner, Publishing, Taking, PopLock, Goto, Acquire, list, PushPC, PopPC, Critical
<1>5. OneOwner'
  BY DEF IInv, TypeOK, LockInv, HandInv, ListIsChain, OneOwner, PopLock, Goto, Acquire, list, PushPC, PopPC, Critical
<1>6. NoLostWakeup'
  BY DEF IInv, TypeOK, LockInv, NoLostWakeup, PopLock, Goto, Acquire, list, PushPC, PopPC
<1> QED
  BY <1>1, <1>2, <1>3, <1>4, <1>5, <1>6 DEF IInv

LEMMA SleepInv ==
    ASSUME IInv, Sleep
    PROVE  IInv'
<1> USE ThreadAssumption, NodeAssumption DEF Thread
<1>1. TypeOK'
  BY DEF IInv, TypeOK, Sleep, Goto, Acquire, list, PushPC, PopPC
<1>2. LockInv'
  BY DEF IInv, TypeOK, LockInv, Sleep, Goto, Acquire, Critical, PushPC, PopPC
<1>3. HandInv'
  BY DEF IInv, TypeOK, LockInv, HandInv, Sleep, Goto, Acquire, PushPC, PopPC
<1>4. ListIsChain'
  BY DEF IInv, TypeOK, LockInv, HandInv, ListIsChain, OneOwner, Publishing, Taking, Sleep, Goto, Acquire, list, PushPC, PopPC, Critical
<1>5. OneOwner'
  BY DEF IInv, TypeOK, LockInv, HandInv, ListIsChain, OneOwner, Sleep, Goto, Acquire, list, PushPC, PopPC, Critical
<1>6. NoLostWakeup'
  <2>1. ~Publishing
    BY DEF IInv, LockInv, Publishing, Sleep, Goto, Critical
  <2>2. chain = << >>
    BY <2>1, NonEmptyChain DEF IInv, TypeOK, ListIsChain, Sleep
  <2> QED
    BY <2>2 DEF NoLostWakeup, Sleep
<1> QED
  BY <1>1, <1>2, <1>3, <1>4, <1>5, <1>6 DEF IInv

LEMMA SpuriousWakeupInv ==
    ASSUME IInv, SpuriousWakeup
    PROVE  IInv'
<1> USE ThreadAssumption, NodeAssumption DEF Thread
<1>1. TypeOK'
  BY DEF IInv, TypeOK, SpuriousWakeup, Goto, Acquire, list, PushPC, PopPC
<1>2. LockInv'
  BY DEF IInv, TypeOK, LockInv, SpuriousWakeup, Goto, Acquire, Critical, PushPC, PopPC
<1>3. HandInv'
  BY DEF IInv, TypeOK, LockInv, HandInv, SpuriousWakeup, Goto, Acquire, PushPC, PopPC
<1>4. ListIsChain'
  BY DEF IInv, TypeOK, LockInv, HandInv, ListIsChain, OneOwner, Publishing, Taking, SpuriousWakeup, Goto, Acquire, list, PushPC, PopPC, Critical
<1>5. OneOwner'
  BY DEF IInv, TypeOK, LockInv, HandInv, ListIsChain, OneOwner, SpuriousWakeup, Goto, Acquire, list, PushPC, PopPC, Critical
<1>6. NoLostWakeup'
  BY DEF IInv, TypeOK, LockInv, NoLostWakeup, SpuriousWakeup, Goto, Acquire, list, PushPC, PopPC
<1> QED
  BY <1>1, <1>2, <1>3, <1>4, <1>5, <1>6 DEF IInv

LEMMA RelockInv ==
    ASSUME IInv, Relock
    PROVE  IInv'
<1> USE ThreadAssumption, NodeAssumption DEF Thread
<1>1. TypeOK'
  BY DEF IInv, TypeOK, Relock, Goto, Acquire, list, PushPC, PopPC
<1>2. LockInv'
  BY DEF IInv, TypeOK, LockInv, Relock, Goto, Acquire, Critical, PushPC, PopPC
<1>3. HandInv'
  BY DEF IInv, TypeOK, LockInv, HandInv, Relock, Goto, Acquire, PushPC, PopPC
<1>4. ListIsChain'
  BY DEF IInv, TypeOK, LockInv, HandInv, ListIsChain, OneOwner, Publishing, Taking, Relock, Goto, Acquire, list, PushPC, PopPC, Critical
<1>5. OneOwner'
  BY DEF IInv, TypeOK, LockInv, HandInv, ListIsChain, OneOwner, Relock, Goto, Acquire, list, PushPC, PopPC, Critical
<1>6. NoLostWakeup'
  BY DEF IInv, TypeOK, LockInv, NoLostWakeup, Relock, Goto, Acquire, list, PushPC, PopPC
<1> QED
  BY <1>1, <1>2, <1>3, <1>4, <1>5, <1>6 DEF IInv

LEMMA NotEmptyInv ==
    ASSUME IInv, NotEmpty
    PROVE  IInv'
<1> USE ThreadAssumption, NodeAssumption DEF Thread
<1>1. TypeOK'
  BY DEF IInv, TypeOK, NotEmpty, Goto, Acquire, list, PushPC, PopPC
<1>2. LockInv'
  BY DEF IInv, TypeOK, LockInv, NotEmpty, Goto, Acquire, Critical, PushPC, PopPC
<1>3. HandInv'
  <2>1. chain # << >>
    BY DEF IInv, ListIsChain, NotEmpty
  <2> QED
    BY <2>1 DEF IInv, TypeOK, LockInv, HandInv, NotEmpty, Goto
<1>4. ListIsChain'
  BY DEF IInv, TypeOK, LockInv, HandInv, ListIsChain, OneOwner, Publishing, Taking, NotEmpty, Goto, Acquire, list, PushPC, PopPC, Critical
<1>5. OneOwner'
  BY DEF IInv, TypeOK, LockInv, HandInv, ListIsChain, OneOwner, NotEmpty, Goto, Acquire, list, PushPC, PopPC, Critical
<1>6. NoLostWakeup'
  BY DEF IInv, TypeOK, LockInv, NoLostWakeup, NotEmpty, Goto, Acquire, list, PushPC, PopPC
<1> QED
  BY <1>1, <1>2, <1>3, <1>4, <1>5, <1>6 DEF IInv

LEMMA TakeHeadInv ==
    ASSUME IInv, TakeHead
    PROVE  IInv'
<1> USE ThreadAssumption, NodeAssumption DEF Thread
<1>0. /\ ~Publishing
      /\ chain # << >>
      /\ pHead = chain[1]
      /\ pHead \in Node
  <2>1. ~Publishing
    BY DEF IInv, LockInv, Publishing, TakeHead, Goto, Critical
  <2>2. chain # << >>
    BY DEF IInv, HandInv, TakeHead, Goto
  <2>3. chain[1] \in Node
    BY <2>2, NonEmptyChain DEF IInv, TypeOK
  <2> QED
    BY <2>1, <2>2, <2>3 DEF IInv, ListIsChain
<1>a. /\ chain' = Tail(chain)
      /\ chain' \in Seq(Node)
      /\ Len(chain) \in Nat /\ Len(chain) > 0
      /\ Len(chain') = Len(chain) - 1
      /\ chain' = << >> <=> Len(chain) = 1
      /\ \A i \in 1..(Len(chain) - 1) : chain'[i] = chain[i + 1]
  BY <1>0, TailChain DEF IInv, TypeOK, TakeHead
<1>1. TypeOK'
  BY <1>0, <1>a DEF IInv, TypeOK, TakeHead, Goto, list, PushPC, PopPC
<1>2. LockInv'
  BY DEF IInv, TypeOK, LockInv, TakeHead, Goto, Acquire, Critical, PushPC, PopPC
<1>3. HandInv'
  <2>1. \A q \in Producer : pc[q] # "publish"
    BY <1>0 DEF Publishing
  <2> QED
    BY <1>0, <2>1 DEF IInv, TypeOK, LockInv, HandInv, TakeHead, Goto
<1>4. ListIsChain'
  <2>1. ~Publishing' /\ Taking'
    BY <1>0 DEF IInv, TypeOK, Publishing, Taking, TakeHead, Goto
  <2>2. ~Taking
    BY DEF Taking, TakeHead, Goto
  <2>3. pHead' = IF chain' = << >> THEN NULL ELSE chain'[1]
    <3>1. pHead' = IF 1 = Len(chain) THEN NULL ELSE chain[1 + 1]
      <4>1. 1 \in 1..Len(chain)
        BY <1>a
      <4> QED
        BY <1>0, <4>1 DEF IInv, ListIsChain, TakeHead
    <3>2. Len(chain) # 1 => 1 \in 1..(Len(chain) - 1)
      BY <1>a
    <3>3. Len(chain) # 1 => chain'[1] = chain[1 + 1]
      BY <1>a, <3>2
    <3> QED
      BY <1>a, <3>1, <3>3
  <2>4. node'[WM] = chain[1]
    BY <1>0 DEF IInv, TypeOK, TakeHead
  <2>5. pTail' = IF chain' # << >> THEN chain'[Len(chain')] ELSE node'[WM]
    <3>1. pTail' = chain[Len(chain)]
      BY <1>0 DEF IInv, ListIsChain, TakeHead
    <3>2. Len(chain) # 1 => Len(chain) - 1 \in 1..(Len(chain) - 1)
      BY <1>a
    <3>3. Len(chain) # 1 => chain'[Len(chain) - 1] = chain[Len(chain) - 1 + 1]
      BY <1>a, <3>2
    <3>4. Len(chain) - 1 + 1 = Len(chain)
      BY <1>a
    <3> QED
      BY <1>a, <2>4, <3>1, <3>3, <3>4
  <2>6. \A i \in 1..Len(chain') :
          pNext'[chain'[i]] = IF i = Len(chain') THEN NULL ELSE chain'[i + 1]
    <3> SUFFICES ASSUME NEW i \in 1..Len(chain')
                 PROVE  pNext'[chain'[i]] =
                          IF i = Len(chain') THEN NULL ELSE chain'[i + 1]
      OBVIOUS
    <3>1. i \in 1..(Len(chain) - 1) /\ i + 1 \in 1..Len(chain)
      BY <1>a
    <3>2. pNext[chain[i + 1]] =
            IF i + 1 = Len(chain) THEN NULL ELSE chain[i + 1 + 1]
      BY <3>1 DEF IInv, ListIsChain
    <3>3. i # Len(chain') => chain'[i + 1] = chain[i + 1 + 1]
      <4>1. /\ Len(chain) \in Nat
            /\ Len(chain') = Len(chain) - 1
        BY <1>a
      <4>2. i # Len(chain') => i + 1 \in 1..(Len(chain) - 1)
        BY <4>1
      <4> QED
        BY <1>a, <4>2
    <3>4. i + 1 = Len(chain) <=> i = Len(chain')
      BY <1>a
    <3>5. pNext' = pNext /\ chain'[i] = chain[i + 1]
      BY <1>a, <3>1 DEF TakeHead
    <3> QED
      BY <3>2, <3>3, <3>4, <3>5
  <2>7. nQueueSize' = Len(chain') + 1
    BY <1>0, <1>a, <2>2 DEF IInv, TypeOK, ListIsChain, TakeHead
  <2> QED
    <3>1. (nQueueSize + (IF Publishing THEN 1 ELSE 0))'
              = (Len(chain) + (IF Taking THEN 1 ELSE 0))'
      BY <1>1, <2>1, <2>7 DEF TypeOK
    <3>2. (pHead = IF chain = << >> \/ (Publishing /\ Len(chain) = 1)
                   THEN NULL ELSE chain[1])'
      BY <2>1, <2>3
    <3>3. (pTail = IF chain # << >> THEN chain[Len(chain)]
                   ELSE IF Taking THEN node[WM] ELSE NULL)'
      BY <2>1, <2>5
    <3> QED
      BY <2>6, <3>1, <3>2, <3>3 DEF ListIsChain
<1>5. OneOwner'
  BY DEF IInv, TypeOK, LockInv, HandInv, ListIsChain, OneOwner, TakeHead, Goto, Acquire, list, PushPC, PopPC, Critical
<1>6. NoLostWakeup'
  BY DEF IInv, TypeOK, LockInv, NoLostWakeup, TakeHead, Goto, Acquire, list, PushPC, PopPC
<1> QED
  BY <1>1, <1>2, <1>3, <1>4, <1>5, <1>6 DEF IInv

LEMMA FixTailInv ==
    ASSUME IInv, FixTail
    PROVE  IInv'
<1> USE ThreadAssumption, NodeAssumption DEF Thread
<1>1. TypeOK'
  <2>1. ~Publishing /\ Taking
    BY DEF IInv, LockInv, Publishing, Taking, FixTail, Goto, Critical
  <2>2. nQueueSize - 1 \in Nat
    BY <2>1, NonEmptyChain DEF IInv, TypeOK, ListIsChain
  <2> QED
    BY <2>2 DEF IInv, TypeOK, FixTail, Goto, list, PushPC, PopPC
<1>2. LockInv'
  BY DEF IInv, TypeOK, LockInv, FixTail, Goto, Acquire, Critical, PushPC, PopPC
<1>3. HandInv'
  BY DEF IInv, TypeOK, LockInv, HandInv, FixTail, Goto, Acquire, PushPC, PopPC
<1>4. ListIsChain'
  BY DEF IInv, TypeOK, LockInv, HandInv, ListIsChain, OneOwner, Publishing, Taking, FixTail, Goto, Acquire, list, PushPC, PopPC, Critical
<1>5. OneOwner'
  BY DEF IInv, TypeOK, LockInv, HandInv, ListIsChain, OneOwner, FixTail, Goto, Acquire, list, PushPC, PopPC, Critical
<1>6. NoLostWakeup'
  BY DEF IInv, TypeOK, LockInv, NoLostWakeup, FixTail, Goto, Acquire, list, PushPC, PopPC
<1> QED
  BY <1>1, <1>2, <1>3, <1>4, <1>5, <1>6 DEF IInv

LEMMA PopUnlockInv ==
    ASSUME IInv, PopUnlock
    PROVE  IInv'
<1> USE ThreadAssumption, NodeAssumption DEF Thread
<1>1. TypeOK'
  BY DEF IInv, TypeOK, PopUnlock, Goto, Acquire, list, PushPC, PopPC
<1>2. LockInv'
  BY DEF IInv, TypeOK, LockInv, PopUnlock, Goto, Acquire, Critical, PushPC, PopPC
<1>3. HandInv'
  BY DEF IInv, TypeOK, LockInv, HandInv, PopUnlock, Goto, Acquire, PushPC, PopPC
<1>4. ListIsChain'
  BY DEF IInv, TypeOK, LockInv, HandInv, ListIsChain, OneOwner, Publishing, Taking, PopUnlock, Goto, Acquire, list, PushPC, PopPC, Critical
<1>5. OneOwner'
  BY DEF IInv, TypeOK, LockInv, HandInv, ListIsChain, OneOwner, PopUnlock, Goto, Acquire, list, PushPC, PopPC, Critical
<1>6. NoLostWakeup'
  BY DEF IInv, TypeOK, LockInv, NoLostWakeup, PopUnlock, Goto, Acquire, list, PushPC, PopPC
<1> QED
  BY <1>1, <1>2, <1>3, <1>4, <1>5, <1>6 DEF IInv

LEMMA HandleAndFreeInv ==
    ASSUME IInv, HandleAndFree
    PROVE  IInv'
<1> USE ThreadAssumption, NodeAssumption DEF Thread
<1>1. TypeOK'
  <2>1. node[WM] \in Node
    BY DEF IInv, TypeOK, HandInv, HandleAndFree, Goto
  <2> QED
    BY <2>1 DEF IInv, TypeOK, HandleAndFree, Goto, list, PushPC, PopPC
<1>2. LockInv'
  BY DEF IInv, TypeOK, LockInv, HandleAndFree, Goto, Acquire, Critical, PushPC, PopPC
<1>3. HandInv'
  BY DEF IInv, TypeOK, LockInv, HandInv, HandleAndFree, Goto, Acquire, PushPC, PopPC
<1>4. ListIsChain'
  BY DEF IInv, TypeOK, LockInv, HandInv, ListIsChain, OneOwner, Publishing, Taking, HandleAndFree, Goto, Acquire, list, PushPC, PopPC, Critical
<1>5. OneOwner'
  BY DEF IInv, TypeOK, LockInv, HandInv, ListIsChain, OneOwner, HandleAndFree, Goto, Acquire, list, PushPC, PopPC, Critical
<1>6. NoLostWakeup'
  BY DEF IInv, TypeOK, LockInv, NoLostWakeup, HandleAndFree, Goto, Acquire, list, PushPC, PopPC
<1> QED
  BY <1>1, <1>2, <1>3, <1>4, <1>5, <1>6 DEF IInv

-----------------------------------------------------------------------------
LEMMA StutterIInv ==
    ASSUME IInv, UNCHANGED vars
    PROVE  IInv'
<1> USE DEF vars, list
<1>1. TypeOK'
  BY DEF IInv, TypeOK
<1>2. LockInv'
  BY DEF IInv, LockInv
<1>3. HandInv'
  BY DEF IInv, HandInv
<1>4. ListIsChain'
  BY DEF IInv, ListIsChain, Publishing, Taking
<1>5. OneOwner'
  BY DEF IInv, OneOwner
<1>6. NoLostWakeup'
  BY DEF IInv, NoLostWakeup
<1> QED
  BY <1>1, <1>2, <1>3, <1>4, <1>5, <1>6 DEF IInv

LEMMA NextIInv == IInv /\ [Next]_vars => IInv'
<1> SUFFICES ASSUME IInv, [Next]_vars PROVE IInv'
  OBVIOUS
<1>1. ASSUME NEW p \in Producer, NEW m \in Message, Malloc(p, m) PROVE IInv'
  BY <1>1, MallocInv
<1>2. ASSUME NEW p \in Producer, PushStep(p) PROVE IInv'
  BY <1>2, PushLockInv, LinkTailInv, PublishHeadInv, PushUnlockInv, SignalInv
     DEF PushStep
<1>3. CASE PopStep
  BY <1>3, PopLockInv, SleepInv, RelockInv, NotEmptyInv, TakeHeadInv, FixTailInv,
     PopUnlockInv, HandleAndFreeInv DEF PopStep
<1>4. CASE SpuriousWakeup
  BY <1>4, SpuriousWakeupInv
<1>5. CASE UNCHANGED vars
  BY <1>5, StutterIInv
<1> QED
  BY <1>1, <1>2, <1>3, <1>4, <1>5 DEF Next

\* The strengthened invariant of the queue holds in every state.
THEOREM Invariance == Spec => []IInv
<1> QED
  BY InitIInv, NextIInv, PTL DEF Spec

\* Every variable of the queue keeps its type: no thread follows a NULL
\* pointer and nQueueSize never becomes negative.
THEOREM TypeCorrect == Spec => []TypeOK
<1>1. IInv => TypeOK
  BY DEF IInv
<1> QED
  BY <1>1, Invariance, PTL

\* pHead, pTail, pNext and nQueueSize describe the messages pushed and not yet
\* popped, for any number of threads that push (PushMessage, PopMessage).
THEOREM ListCorrect == Spec => []ListIsChain
<1>1. IInv => ListIsChain
  BY DEF IInv
<1> QED
  BY <1>1, Invariance, PTL

\* No node is freed while it is linked, linked twice, or held by two threads.
THEOREM OwnersCorrect == Spec => []OneOwner
<1>1. IInv => OneOwner
  BY DEF IInv
<1> QED
  BY <1>1, Invariance, PTL

\* The window manager never sleeps on a message no one will signal, although
\* PushMessage signals after it gave the mutex up.
THEOREM WakeupCorrect == Spec => []NoLostWakeup
<1>1. IInv => NoLostWakeup
  BY DEF IInv
<1> QED
  BY <1>1, Invariance, PTL

-----------------------------------------------------------------------------
(* The queue implements MessageFifo.                                        *)

queueBar  == [i \in 1..Len(chain) |-> msg[chain[i]]]
inHandBar == IF node[WM] = NULL THEN << >> ELSE <<msg[node[WM]]>>

LEMMA QueueBarIsSeq ==
    TypeOK => /\ queueBar \in Seq(Message)
              /\ Len(queueBar) = Len(chain)
<1> SUFFICES ASSUME TypeOK
             PROVE  /\ queueBar \in Seq(Message)
                    /\ Len(queueBar) = Len(chain)
  OBVIOUS
<1>1. /\ Len(chain) \in Nat
      /\ \A i \in 1..Len(chain) : chain[i] \in Node
  BY NonEmptyChain DEF TypeOK
<1>2. queueBar \in [1..Len(chain) -> Message]
  BY <1>1 DEF queueBar, TypeOK
<1>3. queueBar \in Seq(Message)
  BY <1>1, <1>2, SeqDef
<1>4. DOMAIN queueBar = 1..Len(queueBar) /\ Len(queueBar) \in Nat
  BY <1>3, LenProperties
<1>5. DOMAIN queueBar = 1..Len(chain)
  BY <1>2
<1> QED
  BY <1>1, <1>3, <1>4, <1>5

LEMMA LinkTailSends ==
    ASSUME IInv, IInv', NEW p \in Producer, LinkTail(p)
    PROVE  /\ queueBar' = Append(queueBar, msg[node[p]])
           /\ inHandBar' = inHandBar
           /\ msg[node[p]] \in Message
<1>1. node[p] \in Node /\ msg[node[p]] \in Message
  BY DEF IInv, TypeOK, HandInv, LinkTail, Goto
<1>2. /\ chain' = Append(chain, node[p])
      /\ Len(chain) \in Nat
      /\ Len(chain') = Len(chain) + 1
      /\ \A i \in 1..Len(chain) : chain'[i] = chain[i]
      /\ chain'[Len(chain) + 1] = node[p]
  BY <1>1, AppendChain DEF IInv, TypeOK, LinkTail
<1>3. /\ queueBar \in Seq(Message) /\ Len(queueBar) = Len(chain)
      /\ queueBar' \in Seq(Message) /\ Len(queueBar') = Len(chain')
  <2>1. (TypeOK => /\ queueBar \in Seq(Message)
                   /\ Len(queueBar) = Len(chain))'
    BY QueueBarIsSeq, PTL
  <2> QED
    BY <2>1, QueueBarIsSeq DEF IInv
<1>4. /\ Append(queueBar, msg[node[p]]) \in Seq(Message)
      /\ Len(Append(queueBar, msg[node[p]])) = Len(queueBar) + 1
      /\ \A i \in 1..Len(queueBar) : Append(queueBar, msg[node[p]])[i] = queueBar[i]
      /\ Append(queueBar, msg[node[p]])[Len(queueBar) + 1] = msg[node[p]]
  BY <1>1, <1>3, AppendChain
<1>5. ASSUME NEW i \in 1..Len(chain')
      PROVE  queueBar'[i] = Append(queueBar, msg[node[p]])[i]
  <2>1. queueBar'[i] = msg[chain'[i]]
    BY <1>5 DEF queueBar, LinkTail
  <2>2. CASE i \in 1..Len(chain)
    BY <1>2, <1>3, <1>4, <2>1, <2>2 DEF queueBar
  <2>3. CASE i = Len(chain) + 1
    BY <1>2, <1>3, <1>4, <2>1, <2>3
  <2>4. i \in 1..Len(chain) \/ i = Len(chain) + 1
    <3>1. Len(chain) \in Nat /\ Len(chain') = Len(chain) + 1
      BY <1>2
    <3> QED
      BY <1>5, <3>1
  <2> QED
    BY <2>2, <2>3, <2>4
<1>6. queueBar' = Append(queueBar, msg[node[p]])
  BY <1>2, <1>3, <1>4, <1>5, SeqEqual
<1> QED
  BY <1>1, <1>6 DEF inHandBar, LinkTail

LEMMA TakeHeadReceives ==
    ASSUME IInv, IInv', TakeHead
    PROVE  /\ inHandBar = << >>
           /\ queueBar # << >>
           /\ inHandBar' = <<Head(queueBar)>>
           /\ queueBar' = Tail(queueBar)
<1>1. ~Publishing
  BY DEF IInv, LockInv, Publishing, TakeHead, Goto, Critical, Thread
<1>2. chain # << >>
  BY DEF IInv, HandInv, TakeHead, Goto
<1>3. /\ chain' = Tail(chain)
      /\ Len(chain) \in Nat /\ Len(chain) > 0
      /\ Len(chain') = Len(chain) - 1
      /\ \A i \in 1..(Len(chain) - 1) : chain'[i] = chain[i + 1]
  BY <1>2, TailChain DEF IInv, TypeOK, TakeHead
<1>4. /\ queueBar \in Seq(Message) /\ Len(queueBar) = Len(chain)
      /\ queueBar' \in Seq(Message) /\ Len(queueBar') = Len(chain')
  <2>1. (TypeOK => /\ queueBar \in Seq(Message)
                   /\ Len(queueBar) = Len(chain))'
    BY QueueBarIsSeq, PTL
  <2> QED
    BY <2>1, QueueBarIsSeq DEF IInv
<1>5. queueBar # << >>
  BY <1>3, <1>4, EmptySeq
<1>6. /\ Tail(queueBar) \in Seq(Message)
      /\ Len(Tail(queueBar)) = Len(queueBar) - 1
      /\ \A i \in 1..(Len(queueBar) - 1) : Tail(queueBar)[i] = queueBar[i + 1]
  BY <1>4, <1>5, TailChain
<1>7. ASSUME NEW i \in 1..Len(chain')
      PROVE  queueBar'[i] = Tail(queueBar)[i]
  <2>1. queueBar'[i] = msg[chain'[i]]
    BY <1>7 DEF queueBar, TakeHead
  <2>2. i \in 1..(Len(chain) - 1) /\ i + 1 \in 1..Len(chain)
    BY <1>3, <1>7
  <2>3. queueBar[i + 1] = msg[chain[i + 1]]
    BY <2>2 DEF queueBar
  <2> QED
    BY <1>3, <1>4, <1>6, <2>1, <2>2, <2>3
<1>8. queueBar' = Tail(queueBar)
  BY <1>3, <1>4, <1>6, <1>7, SeqEqual
<1>9. 1 \in 1..Len(chain) /\ chain[1] \in Node
  BY <1>3, NonEmptyChain DEF IInv, TypeOK
<1>10. Head(queueBar) = msg[chain[1]]
  BY <1>4, <1>5, <1>9 DEF queueBar
<1>11. node[WM] = NULL /\ node'[WM] = chain[1] /\ chain[1] # NULL
  BY <1>1, <1>2, <1>9, NodeAssumption
     DEF IInv, TypeOK, HandInv, ListIsChain, TakeHead, Goto, Thread
<1> QED
  BY <1>5, <1>8, <1>10, <1>11 DEF inHandBar, TakeHead

LEMMA MallocInvisible ==
    ASSUME IInv, NEW p \in Producer, NEW m \in Message, Malloc(p, m)
    PROVE  UNCHANGED <<queueBar, inHandBar>>
<1>1. PICK n \in free : /\ node' = [node EXCEPT ![p] = n]
                        /\ msg' = [msg EXCEPT ![n] = m]
  BY DEF Malloc
<1>2. chain' = chain /\ node'[WM] = node[WM]
  BY <1>1, ThreadAssumption DEF Malloc, IInv, TypeOK, Thread
<1>3. \A i \in 1..Len(chain) : msg'[chain[i]] = msg[chain[i]]
  BY <1>1, NonEmptyChain DEF IInv, TypeOK, OneOwner
<1>4. node[WM] # NULL => msg'[node[WM]] = msg[node[WM]]
  BY <1>1 DEF IInv, TypeOK, OneOwner, Thread
<1> QED
  BY <1>2, <1>3, <1>4 DEF queueBar, inHandBar

\* Every step of the queue is a step of the channel or invisible to it.
LEMMA StepRefines ==
    ASSUME IInv, IInv', [Next]_vars
    PROVE  [Fifo!Next]_(Fifo!vars)
<1> USE DEF Fifo!Next, Fifo!vars
<1>0. ASSUME UNCHANGED <<queueBar, inHandBar>> PROVE UNCHANGED Fifo!vars
  BY <1>0 DEF queueBar, inHandBar
<1>1. ASSUME chain' = chain, msg' = msg, node'[WM] = node[WM]
      PROVE  UNCHANGED Fifo!vars
  BY <1>1
<1>2. ASSUME NEW p \in Producer, NEW m \in Message, Malloc(p, m)
      PROVE  UNCHANGED Fifo!vars
  BY <1>0, <1>2, MallocInvisible
<1>3. ASSUME NEW p \in Producer, PushStep(p)
      PROVE  [Fifo!Next]_(Fifo!vars)
  <2>1. CASE LinkTail(p)
    BY <2>1, LinkTailSends DEF Fifo!Send, queueBar, inHandBar
  <2>2. CASE PushLock(p) \/ PublishHead(p) \/ PushUnlock(p) \/ Signal(p)
    BY <1>1, <2>2, ThreadAssumption
       DEF PushLock, PublishHead, PushUnlock, Signal, IInv, TypeOK, Thread
  <2> QED
    BY <1>3, <2>1, <2>2 DEF PushStep
<1>4. CASE PopStep
  <2>1. CASE TakeHead
    BY <2>1, TakeHeadReceives DEF Fifo!Receive, queueBar, inHandBar
  <2>2. CASE HandleAndFree
    <3>1. node[WM] # NULL /\ node'[WM] = NULL
      BY <2>2 DEF HandleAndFree, Goto, IInv, TypeOK, HandInv, Thread
    <3>2. inHandBar # << >> /\ inHandBar' = << >>
      BY <3>1 DEF inHandBar
    <3> QED
      BY <2>2, <3>2 DEF HandleAndFree, Fifo!Finish, queueBar, inHandBar
  <2>3. CASE PopLock \/ Sleep \/ Relock \/ NotEmpty \/ FixTail \/ PopUnlock
    BY <1>1, <2>3 DEF PopLock, Sleep, Relock, NotEmpty, FixTail, PopUnlock
  <2> QED
    BY <1>4, <2>1, <2>2, <2>3 DEF PopStep
<1>5. CASE SpuriousWakeup
  BY <1>1, <1>5 DEF SpuriousWakeup
<1>6. CASE UNCHANGED vars
  BY <1>1, <1>6 DEF vars
<1> QED
  BY <1>2, <1>3, <1>4, <1>5, <1>6 DEF Next

\* The window manager's queue is a first-in first-out channel: each message
\* pushed is handed to the window manager at most once and in the order of the
\* pushes, for any number of threads, nodes and messages.
THEOREM QueueIsFifo == Spec => FifoSafety
<1>1. Init => Fifo!Init
  <2> SUFFICES ASSUME Init PROVE Fifo!Init
    OBVIOUS
  <2>1. Len(chain) = 0 /\ node[WM] = NULL
    BY EmptySeq DEF Init, Thread
  <2>2. queueBar = << >>
    BY <2>1 DEF queueBar
  <2> QED
    BY <2>1, <2>2 DEF Fifo!Init, queueBar
<1>2. IInv /\ IInv' /\ [Next]_vars => [Fifo!Next]_(Fifo!vars)
  BY StepRefines
<1> QED
  BY <1>1, <1>2, Invariance, PTL DEF Spec, FifoSafety, Fifo!Safety
=============================================================================
