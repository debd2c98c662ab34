-------------------------- MODULE PastedTextProofs --------------------------
(***************************************************************************)
(* Which text a Windows program is given, for any clients and bounds: what *)
(* ClipboardPaste says of it in RenderedIsCurrent and OwnerIsPasted.       *)
(*                                                                         *)
(* The argument is that a paste that begins undisturbed has one thing on   *)
(* its way at a time: the request, the SelectionRequest made of it, its    *)
(* answer, or the two readings of the property.  So the property does not  *)
(* change between the two readings, and a refusal tells which targets were *)
(* tried before.                                                           *)
(***************************************************************************)
EXTENDS ClipboardPasteProofs, SequenceTheorems

\* A paste that nothing older disturbs
Live == wait # 0 /\ ~disturbed

Reading == pc \in {"size", "read"}

NoAnswer == \A i \in 1..Len(Pending) : Pending[i] = Noise
OneAnswer == \A i, j \in 1..Len(Pending) : Pending[i] # Noise /\ Pending[j] # Noise => i = j
Nothing == wire = <<>> /\ asked = {} /\ NoAnswer

\* At most one request or answer is on its way.
Single ==
    \/ Len(wire) <= 1 /\ asked = {} /\ NoAnswer
    \/ wire = <<>> /\ NoAnswer /\ \E r \in asked : asked = {r}
    \/ wire = <<>> /\ asked = {} /\ OneAnswer

TextOf(r) == [by |-> r.to, n |-> content[r.to]]

\* What is asked for, has been stored or is being read was selected during the
\* paste.
Current ==
    Live =>
        /\ Single
        /\ Reading => Nothing
        /\ \A r \in asked : TextOf(r) \in eligible
        /\ Reading \/ (\E i \in 1..Len(Pending) : Pending[i].ok) => prop \in eligible \cap Text
        /\ pc = "read" => size = prop

Seen ==
    /\ wpc # "closed" => Selected \in eligible
    /\ wpc = "open" => ~rendered

\* c has had the selection for all of the paste.
Keeps(c) == Absent \notin eligible /\ {t.by : t \in eligible} = {c}

\* The targets that are tried before another one
Earlier == [COMPOUND_TEXT |-> {}, UTF8_STRING |-> {"COMPOUND_TEXT"},
            STRING |-> {"COMPOUND_TEXT", "UTF8_STRING"}]

Refuses(c, T) == T \cap Supports[c] = {}

\* An owner that stays has refused all targets before the one on its way, and
\* something is on its way until it has refused the last.
Tried(c) ==
    Live /\ Keeps(c) =>
        /\ \A i \in 1..Len(wire) : Refuses(c, Earlier[wire[i]])
        /\ \A r \in asked : Refuses(c, Earlier[r.target])
        /\ \A i \in 1..Len(Pending) :
             Pending[i] # Noise /\ ~Pending[i].ok
             => Refuses(c, Earlier[Pending[i].target] \cup {Pending[i].target})
        /\ wait = 2 => Refuses(c, Target)
        /\ wait = 1 /\ ~Reading => ~Nothing

AllTried == \A c \in Client : Tried(c)

Fresh == Current /\ Seen /\ AllTried /\ RenderedIsCurrent /\ OwnerIsPasted

(***************************************************************************)
(* The queue of events                                                     *)
(***************************************************************************)
LEMMA QueueKept ==
    ASSUME XType
    PROVE  /\ UNCHANGED <<socket, libq>> => Pending' = Pending
           /\ libq' = Pending /\ socket' = <<>> => Pending' = Pending
<1>1. Pending \in Seq(Event)
  BY PendingType
<1>2. Pending \o <<>> = Pending
  BY <1>1, ConcatEmptySeq
<1> QED
  BY <1>2 DEF Pending

LEMMA QueueGrows ==
    ASSUME XType, NEW e \in Event, socket' = Append(socket, e), libq' = libq
    PROVE  /\ Len(Pending') = Len(Pending) + 1
           /\ \A i \in 1..Len(Pending) : Pending'[i] = Pending[i]
           /\ Pending'[Len(Pending) + 1] = e
           /\ Len(Pending) \in Nat
BY DEF XType, Pending

LEMMA QueueShrinks ==
    ASSUME XType, Pending # <<>>, socket' = <<>>, libq' = Tail(Pending)
    PROVE  /\ Len(Pending) \in Nat \ {0}
           /\ Len(Pending') = Len(Pending) - 1
           /\ \A i \in 1..Len(Pending') : Pending'[i] = Pending[i + 1]
           /\ Head(Pending) = Pending[1] /\ Head(Pending) \in Event
<1>1. Pending \in Seq(Event) /\ <<>> \in Seq(Event)
  BY PendingType
<1>2. Tail(Pending) \in Seq(Event)
  BY <1>1
<1>3. Pending' = Tail(Pending)
  <2>1. Tail(Pending) \o <<>> = Tail(Pending)
    BY <1>2, ConcatEmptySeq
  <2> QED
    BY <2>1 DEF Pending
<1> QED
  BY <1>1, <1>3

(***************************************************************************)
(* What the selection has been                                             *)
(***************************************************************************)
LEMMA KeepsIsOwner ==
    ASSUME NEW c, Keeps(c), Selected \in eligible
    PROVE  owner = c /\ owner # None
BY DEF Keeps, Selected

LEMMA StillKeeps ==
    ASSUME NEW c, Selected \in eligible, eligible \subseteq eligible', Keeps(c)'
    PROVE  Keeps(c)
<1>1. Absent \notin eligible /\ \A t \in eligible : t.by = c
  BY DEF Keeps
<1>2. {t.by : t \in eligible} = {c}
  BY <1>1
<1> QED
  BY <1>1, <1>2 DEF Keeps

\* Steps that leave alone all that the invariant speaks of, or end the paste
LEMMA Idle ==
    ASSUME Fresh, UNCHANGED <<x, wait, size, result, rendered, disturbed, cutOff>>,
           \/ UNCHANGED <<wpc, eligible>> /\ (Reading' <=> Reading) /\ (pc' = "read" <=> pc = "read")
           \/ wpc' = "closed" /\ wait = 0
    PROVE  Fresh'
<1>1. Pending' = Pending /\ Selected' = Selected
  BY DEF x, Pending, Selected
<1>2. CASE UNCHANGED <<wpc, eligible>> /\ (Reading' <=> Reading) /\ (pc' = "read" <=> pc = "read")
  <2>1. Single' <=> Single
    BY <1>1 DEF x, Single, NoAnswer, OneAnswer
  <2>2. Nothing' <=> Nothing
    BY <1>1 DEF x, Nothing, NoAnswer
  <2>3. Current'
    BY <1>1, <1>2, <2>1, <2>2 DEF Fresh, Current, Live, x, TextOf
  <2>4. Seen'
    BY <1>1, <1>2 DEF Fresh, Seen
  <2>5. AllTried'
    BY <1>1, <1>2, <2>2 DEF Fresh, AllTried, Tried, Live, Keeps, x
  <2>6. RenderedIsCurrent' /\ OwnerIsPasted'
    BY <1>2 DEF Fresh, RenderedIsCurrent, OwnerIsPasted
  <2> QED
    BY <2>3, <2>4, <2>5, <2>6 DEF Fresh
<1>3. CASE wpc' = "closed" /\ wait = 0
  BY <1>3 DEF Fresh, Current, Live, Seen, AllTried, Tried, RenderedIsCurrent, OwnerIsPasted
<1> QED
  BY <1>2, <1>3

(***************************************************************************)
(* Changes of the selection                                                *)
(***************************************************************************)
LEMMA Witnessed ==
    ASSUME IInv, Fresh, Witness, wpc # "closed", asked' \subseteq asked,
           \/ asked' = asked
           \/ owner' = None,
           \A c \in Client : content'[c] = content[c] \/ owner' = c,
           UNCHANGED <<wire, prop, socket, libq, thread, wpc, result, rendered, disturbed,
                    cutOff>>
    PROVE  Fresh'
<1>1. XType /\ Pending' = Pending /\ Live' = Live /\ Reading' = Reading
  BY QueueKept DEF IInv, Types, Live, Reading, thread
<1>2. eligible' = eligible \cup {Selected'}
  BY DEF Witness
<1>3. Selected \in eligible
  BY DEF Fresh, Seen
<1>4. Seen'
  BY <1>2 DEF Fresh, Seen
<1>5. \A c : Keeps(c)' => Keeps(c) /\ owner' = c /\ owner' # None /\ asked' = asked
  <2> SUFFICES ASSUME NEW c, Keeps(c)'
               PROVE  Keeps(c) /\ owner' = c /\ owner' # None /\ asked' = asked
    OBVIOUS
  <2>1. Keeps(c)
    BY <1>2, <1>3, StillKeeps
  <2>2. Selected' \in eligible' /\ Absent \notin eligible' /\ \A t \in eligible' : t.by = c
    BY <1>2 DEF Keeps
  <2>3. owner' # None /\ Selected'.by = owner'
    BY <2>2 DEF Selected
  <2>4. owner' = c
    BY <2>2, <2>3
  <2>5. asked' = asked
    BY <2>3
  <2> QED
    BY <2>1, <2>3, <2>4, <2>5
<1>6. Current'
  <2> SUFFICES ASSUME Live'
               PROVE  Current'
    BY DEF Current
  <2>1. Live /\ Single /\ (Reading => Nothing)
    BY <1>1 DEF Fresh, Current
  <2>2. Single'
    BY <1>1, <2>1 DEF Single, NoAnswer, OneAnswer
  <2>3. Reading' => Nothing'
    BY <1>1, <2>1 DEF Nothing, NoAnswer
  <2>4. ASSUME NEW r \in asked'
        PROVE  TextOf(r)' \in eligible'
    <3>1. r \in asked /\ r.to \in Client /\ TextOf(r) \in eligible
      BY <1>1, <2>1 DEF XType, Request, Fresh, Current
    <3>2. CASE content'[r.to] = content[r.to]
      BY <1>2, <3>1, <3>2 DEF TextOf
    <3>3. CASE owner' = r.to
      <4>1. owner' # None
        BY <3>1, <3>3, PasteAssumption
      <4> QED
        BY <1>2, <3>3, <4>1 DEF TextOf, Selected
    <3> QED
      BY <3>1, <3>2, <3>3
  <2>5. Reading' \/ (\E i \in 1..Len(Pending') : Pending'[i].ok)
        => prop' \in eligible' \cap Text
    BY <1>1, <1>2, <2>1 DEF Fresh, Current
  <2>6. pc' = "read" => size' = prop'
    BY <2>1 DEF Fresh, Current, thread
  <2> QED
    BY <2>2, <2>3, <2>4, <2>5, <2>6 DEF Current
<1>7. AllTried'
  <2> SUFFICES ASSUME NEW c \in Client, Live', Keeps(c)'
               PROVE  Tried(c)'
    BY DEF AllTried, Tried
  <2>1. Live /\ Keeps(c) /\ asked' = asked
    BY <1>1, <1>5
  <2>2. Nothing' = Nothing
    BY <1>1, <2>1 DEF Nothing, NoAnswer
  <2>3. Tried(c)
    BY DEF Fresh, AllTried
  <2> QED
    BY <1>1, <2>1, <2>2, <2>3 DEF Tried, thread
<1>8. RenderedIsCurrent'
  BY <1>2 DEF Fresh, RenderedIsCurrent
<1>9. OwnerIsPasted'
  <2> SUFFICES ASSUME NEW c \in Client, Keeps(c)', wpc = "got", rendered, ~disturbed,
                      ~cutOff, result = Absent
               PROVE  Supports[c] = {}
    BY DEF OwnerIsPasted, Keeps
  <2>1. Keeps(c)
    BY <1>5
  <2> QED
    BY <2>1 DEF Keeps, Fresh, OwnerIsPasted
<1> QED
  BY <1>4, <1>6, <1>7, <1>8, <1>9 DEF Fresh

\* Without a program at the clipboard there is nothing to say.
LEMMA Closed ==
    ASSUME IInv, wpc = "closed", UNCHANGED <<wpc, wait>>
    PROVE  Fresh'
<1>1. wait = 0
  BY DEF IInv, Control, Waits
<1> QED
  BY <1>1 DEF Fresh, Current, Live, Seen, AllTried, Tried, RenderedIsCurrent, OwnerIsPasted

LEMMA SelectionFresh ==
    ASSUME IInv, Fresh, (\E c \in Client : Claim(c)) \/ Reselect \/ Vanish \/ TakeSelection
    PROVE  Fresh'
<1>1. XType
  BY DEF IInv, Types
<1>2. UNCHANGED <<wire, prop, socket, libq, thread, wpc, result, rendered, disturbed,
                    cutOff>>
  BY DEF Claim, Reselect, Vanish, TakeSelection, windows
<1>3. CASE wpc = "closed"
  BY <1>2, <1>3, Closed DEF thread
<1>4. CASE wpc # "closed"
  <2>1. Witness
    BY DEF Claim, Reselect, Vanish, TakeSelection
  <2>2. asked' \subseteq asked /\ (asked' = asked \/ owner' = None)
    BY DEF Claim, Reselect, Vanish, TakeSelection
  <2>3. \A c \in Client : content'[c] = content[c] \/ owner' = c
    BY <1>1 DEF Claim, Reselect, Vanish, TakeSelection, XType
  <2> QED
    BY <1>2, <1>4, <2>1, <2>2, <2>3, Witnessed
<1> QED
  BY <1>3, <1>4

(***************************************************************************)
(* Requests and answers                                                    *)
(***************************************************************************)
LEMMA RespondFresh ==
    ASSUME IInv, Fresh, NEW r \in asked, Respond(r)
    PROVE  Fresh'
<1>1. UNCHANGED <<owner, content, wire, libq, converts, thread, windows, history, bounds>>
  BY DEF Respond
<1>2. XType /\ r.to \in Client /\ r.target \in Target
  BY DEF IInv, Types, XType, Request
<1> DEFINE can  == r.target \in Supports[r.to]
           owns == r.to = owner
<1>a. can \in BOOLEAN /\ owns \in BOOLEAN
  <2>1. CASE can /\ owns
    BY <2>1
  <2>2. CASE can /\ ~owns
    BY <2>2
  <2>3. CASE ~can /\ owns
    BY <2>3
  <2>4. CASE ~can /\ ~owns
    BY <2>4
  <2> QED
    BY <2>1, <2>2, <2>3, <2>4, Zenon
<1>b. PICK ok \in {can, owns} :
         /\ ok => can
         /\ prop' = IF ok THEN TextOf(r) ELSE prop
         /\ socket' = Append(socket, [target |-> r.target, ok |-> ok])
  BY DEF Respond, TextOf
<1> HIDE DEF can, owns
<1>3. ok \in BOOLEAN /\ (~ok => ~can \/ ~owns)
  BY <1>a, <1>b
<1> DEFINE e == [target |-> r.target, ok |-> ok]
<1>4. e \in Event /\ e.ok = ok /\ e.target = r.target /\ e # Noise
  BY <1>2, <1>3 DEF Event, Noise, Target
<1>5. TextOf(r) \in Text
  BY <1>2, ContentIsText DEF TextOf
<1> HIDE DEF e
<1>6. /\ Len(Pending') = Len(Pending) + 1
      /\ \A i \in 1..Len(Pending) : Pending'[i] = Pending[i]
      /\ Pending'[Len(Pending) + 1] = e
      /\ Len(Pending) \in Nat
  <2>1. socket' = Append(socket, e) /\ libq' = libq
    BY <1>1, <1>b DEF e
  <2> QED
    BY <1>2, <1>4, <2>1, QueueGrows
<1>7. asked' = asked \ {r}
  BY DEF Respond
<1>8. Live' = Live /\ Reading' = Reading /\ Selected' = Selected /\ \A c : Keeps(c)' = Keeps(c)
  BY <1>1 DEF Live, Reading, Selected, Keeps, thread, windows, history
<1>9. ASSUME Live
      PROVE  wire = <<>> /\ NoAnswer /\ asked = {r} /\ ~Reading /\ TextOf(r) \in eligible
  BY <1>9 DEF Fresh, Current, Single, Nothing
<1>10. Current'
  <2> SUFFICES ASSUME Live
               PROVE  Current'
    BY <1>8 DEF Current
  <2>1. asked' = {} /\ wire' = <<>>
    BY <1>1, <1>7, <1>9
  <2>2. Single'
    BY <1>6, <1>9, <2>1 DEF Single, OneAnswer, NoAnswer
  <2>3. (\E i \in 1..Len(Pending') : Pending'[i].ok) => ok
    BY <1>4, <1>6, <1>9 DEF NoAnswer, Noise
  <2>4. ok => prop' \in eligible' \cap Text
    BY <1>1, <1>b, <1>5, <1>9 DEF history
  <2>5. ~Reading' /\ pc' # "read"
    BY <1>8, <1>9 DEF Reading
  <2> QED
    BY <2>1, <2>2, <2>3, <2>4, <2>5 DEF Current
<1>11. AllTried'
  <2> SUFFICES ASSUME NEW c \in Client, Live, Keeps(c)
               PROVE  Tried(c)'
    BY <1>8 DEF AllTried, Tried
  <2>1. Tried(c)
    BY DEF Fresh, AllTried
  <2>2. owner = c /\ r.to = c
    <3>1. Selected \in eligible
      BY <1>9 DEF Fresh, Seen, IInv, Control, Waits, Live
    <3>2. TextOf(r).by = c
      BY <1>9 DEF Keeps
    <3> QED
      BY <3>1, <3>2, KeepsIsOwner DEF TextOf
  <2>3. Refuses(c, Earlier[r.target])
    BY <2>1 DEF Tried
  <2>4. ~ok => Refuses(c, Earlier[r.target] \cup {r.target})
    BY <1>3, <2>2, <2>3 DEF Refuses, can, owns
  <2>5. asked' = {} /\ wire' = <<>>
    BY <1>1, <1>7, <1>9
  <2>6. \A i \in 1..Len(Pending') :
          Pending'[i] # Noise /\ ~Pending'[i].ok
          => Refuses(c, Earlier[Pending'[i].target] \cup {Pending'[i].target})
    <3>1. ~e.ok => Refuses(c, Earlier[e.target] \cup {e.target})
      BY <1>4, <2>4, Zenon
    <3>2. \A i \in 1..Len(Pending') : Pending'[i] = e \/ Pending'[i] = Noise
      BY <1>6, <1>9 DEF NoAnswer
    <3> QED
      BY <3>1, <3>2
  <2>7. ~Nothing'
    BY <1>4, <1>6 DEF Nothing, NoAnswer
  <2>8. wait' = 2 => Refuses(c, Target)
    BY <1>1, <2>1 DEF Tried, thread
  <2> QED
    BY <2>5, <2>6, <2>7, <2>8 DEF Tried
<1>12. Seen'
  BY <1>1, <1>8 DEF Fresh, Seen, windows, history
<1>13. RenderedIsCurrent' /\ OwnerIsPasted'
  BY <1>1 DEF Fresh, RenderedIsCurrent, OwnerIsPasted, windows, history
<1> QED
  BY <1>10, <1>11, <1>12, <1>13 DEF Fresh

LEMMA OtherEventFresh ==
    ASSUME IInv, Fresh, OtherEvent
    PROVE  Fresh'
<1>1. XType
  BY DEF IInv, Types
<1>2. /\ Len(Pending') = Len(Pending) + 1
      /\ \A i \in 1..Len(Pending) : Pending'[i] = Pending[i]
      /\ Pending'[Len(Pending) + 1] = Noise
      /\ Len(Pending) \in Nat
  BY <1>1, QueueGrows, EventTypes DEF OtherEvent
<1>3. UNCHANGED <<owner, content, wire, asked, prop, thread, windows, history>>
  BY DEF OtherEvent
<1>4. ~Noise.ok
  BY DEF Noise
<1>5. Single => Single'
  BY <1>2, <1>3 DEF Single, OneAnswer, NoAnswer
<1>6. Nothing' <=> Nothing
  BY <1>2, <1>3 DEF Nothing, NoAnswer
<1>7. Current'
  BY <1>2, <1>3, <1>4, <1>5, <1>6 DEF Fresh, Current, Live, Reading, TextOf, thread, history
<1>8. Seen' /\ RenderedIsCurrent' /\ OwnerIsPasted'
  BY <1>3 DEF Fresh, Seen, Selected, RenderedIsCurrent, OwnerIsPasted, windows, history
<1>9. AllTried'
  <2> SUFFICES ASSUME NEW c \in Client, Live', Keeps(c)'
               PROVE  Tried(c)'
    BY DEF AllTried, Tried
  <2>1. Live /\ Keeps(c) /\ Tried(c)
    BY <1>3 DEF Live, Keeps, thread, history, Fresh, AllTried
  <2>2. \A i \in 1..Len(Pending') :
          Pending'[i] # Noise /\ ~Pending'[i].ok
          => Refuses(c, Earlier[Pending'[i].target] \cup {Pending'[i].target})
    BY <1>2, <2>1 DEF Tried
  <2> QED
    BY <1>3, <1>6, <2>1, <2>2 DEF Tried, Reading, thread
<1> QED
  BY <1>7, <1>8, <1>9 DEF Fresh

LEMMA ConvertFresh ==
    ASSUME IInv, Fresh, Convert
    PROVE  Fresh'
<1>1. XType
  BY DEF IInv, Types
<1>a. wire \in Seq(Target) /\ wire # <<>> /\ wire' = Tail(wire) /\ Head(wire) \in Target
  BY <1>1 DEF Convert, XType
<1>2. UNCHANGED <<owner, content, prop, libq, thread, windows, history>>
  BY DEF Convert
<1>3. Seen' /\ RenderedIsCurrent' /\ OwnerIsPasted'
  BY <1>2 DEF Fresh, Seen, Selected, RenderedIsCurrent, OwnerIsPasted, windows, history
<1>4. Live' = Live /\ Reading' = Reading /\ \A c : Keeps(c)' = Keeps(c)
  BY <1>2 DEF Live, Reading, Keeps, thread, history
<1>5. ASSUME Live
      PROVE  /\ Len(wire) = 1 /\ wire' = <<>> /\ asked = {} /\ NoAnswer /\ ~Reading
             /\ Selected \in eligible
  <2>1. asked = {} /\ NoAnswer /\ Len(wire) <= 1 /\ ~Reading
    BY <1>5 DEF Convert, Fresh, Current, Single, Nothing
  <2>2. Len(wire) = 1 /\ wire' = <<>>
    <3>1. Len(wire) \in Nat /\ Len(wire) # 0
      BY <1>a, EmptySeq, LenProperties
    <3>2. Len(wire) = 1
      BY <2>1, <3>1
    <3>3. Tail(wire) \in Seq(Target) /\ Len(Tail(wire)) = 0
      BY <1>a, <3>2
    <3> QED
      BY <1>a, <3>2, <3>3, EmptySeq
  <2>3. Selected \in eligible
    BY <1>5 DEF Fresh, Seen, IInv, Control, Waits, Live
  <2> QED
    BY <2>1, <2>2, <2>3
<1>6. CASE ~Live
  BY <1>3, <1>4, <1>6 DEF Fresh, Current, AllTried, Tried
<1>7. CASE Live /\ owner = None
  <2> DEFINE e == [target |-> Head(wire), ok |-> FALSE]
  <2>1. e \in Event /\ e # Noise /\ ~e.ok
    BY <1>a DEF Event, Noise, Target
  <2> HIDE DEF e
  <2>2. socket' = Append(socket, e) /\ libq' = libq /\ asked' = {}
    BY <1>2, <1>5, <1>7 DEF Convert, e
  <2>3. /\ Len(Pending') = Len(Pending) + 1
        /\ \A i \in 1..Len(Pending) : Pending'[i] = Pending[i]
        /\ Pending'[Len(Pending) + 1] = e
        /\ Len(Pending) \in Nat
    BY <1>1, <2>1, <2>2, QueueGrows
  <2>4. Single'
    BY <1>5, <1>7, <2>2, <2>3 DEF Single, OneAnswer, NoAnswer
  <2>5. ~(\E i \in 1..Len(Pending') : Pending'[i].ok)
    BY <1>5, <1>7, <2>1, <2>3 DEF NoAnswer, Noise
  <2>6. Current'
    BY <1>4, <1>5, <1>7, <2>2, <2>4, <2>5 DEF Current, Reading
  <2>7. ASSUME NEW c, Keeps(c)
        PROVE  FALSE
    BY <1>5, <1>7, <2>7, KeepsIsOwner
  <2>8. AllTried'
    BY <1>4, <2>7 DEF AllTried, Tried
  <2> QED
    BY <1>3, <2>6, <2>8 DEF Fresh
<1>8. CASE Live /\ owner # None
  <2> DEFINE r == [to |-> owner, target |-> Head(wire), n |-> converts]
  <2>1. [by |-> r.to, n |-> content'[r.to]] = Selected /\ r.target = wire[1]
    BY <1>2, <1>a, <1>8 DEF Selected
  <2> HIDE DEF r
  <2>2. asked' = {r} /\ UNCHANGED <<socket, libq>>
    BY <1>2, <1>5, <1>8 DEF Convert, r
  <2>3. Pending' = Pending
    BY <1>1, <2>2, QueueKept
  <2>4. Single' /\ ~Nothing'
    BY <1>5, <1>8, <2>2, <2>3 DEF Single, NoAnswer, Nothing
  <2>5. ~(\E i \in 1..Len(Pending') : Pending'[i].ok)
    BY <1>5, <1>8, <2>3 DEF NoAnswer, Noise
  <2>6. Current'
    <3>1. \A q \in asked' : TextOf(q)' \in eligible'
      BY <1>2, <1>5, <1>8, <2>1, <2>2 DEF history, TextOf
    <3> QED
      BY <1>4, <1>5, <1>8, <2>4, <2>5, <3>1 DEF Current, Reading
  <2>7. AllTried'
    <3> SUFFICES ASSUME NEW c \in Client, Keeps(c)
                 PROVE  Tried(c)'
      BY <1>4 DEF AllTried, Tried
    <3>1. Tried(c)
      BY DEF Fresh, AllTried
    <3>2. Refuses(c, Earlier[r.target])
      BY <1>5, <1>8, <2>1, <3>1 DEF Tried
    <3>3. \A i \in 1..Len(Pending') : Pending'[i] = Noise
      BY <1>5, <1>8, <2>3 DEF NoAnswer
    <3>4. wait' = 2 => Refuses(c, Target)
      BY <1>2, <1>8, <3>1 DEF Tried, thread
    <3> QED
      BY <1>5, <1>8, <2>2, <2>4, <3>2, <3>3, <3>4 DEF Tried
  <2> QED
    BY <1>3, <2>6, <2>7 DEF Fresh
<1> QED
  BY <1>6, <1>7, <1>8

(***************************************************************************)
(* The program and the clipboard thread                                    *)
(***************************************************************************)
LEMMA OpenClipboardFresh ==
    ASSUME IInv, Fresh, OpenClipboard
    PROVE  Fresh'
<1>1. wait' = 0 /\ wpc' = "open" /\ ~rendered' /\ Selected' \in eligible'
  BY DEF OpenClipboard, IInv, Control, Waits, thread, x, Selected
<1> QED
  BY <1>1 DEF Fresh, Current, Live, Seen, AllTried, Tried, RenderedIsCurrent, OwnerIsPasted

LEMMA GetClipboardDataFresh ==
    ASSUME IInv, Fresh, GetClipboardData
    PROVE  Fresh'
<1>1. wait' = 0 /\ wpc' \in {"wait", "got"} /\ ~rendered' /\ Selected' \in eligible'
  BY DEF GetClipboardData, IInv, Control, Waits, thread, x, history, Selected, Fresh, Seen
<1> QED
  BY <1>1 DEF Fresh, Current, Live, Seen, AllTried, Tried, RenderedIsCurrent, OwnerIsPasted

LEMMA CloseClipboardFresh ==
    ASSUME IInv, Fresh, CloseClipboard
    PROVE  Fresh'
<1>1. wait' = 0 /\ wpc' = "closed"
  BY DEF CloseClipboard, IInv, Control, Waits, thread
<1> QED
  BY <1>1 DEF Fresh, Current, Live, Seen, AllTried, Tried, RenderedIsCurrent, OwnerIsPasted

LEMMA AppCopyFresh ==
    ASSUME IInv, Fresh, AppCopy
    PROVE  Fresh'
BY Closed DEF AppCopy, thread

LEMMA RenderFresh ==
    ASSUME IInv, Fresh, Render
    PROVE  Fresh'
<1>1. XType
  BY DEF IInv, Types
<1>2. /\ UNCHANGED <<owner, content, asked, prop, socket, libq, windows, eligible, rendered,
                     cutOff>>
      /\ wire' = Append(wire, "COMPOUND_TEXT") /\ wait' = 1 /\ pc' = "sync"
      /\ wpc = "wait"
  BY DEF Render
<1>3. Seen' /\ RenderedIsCurrent' /\ OwnerIsPasted'
  BY <1>2 DEF Fresh, Seen, Selected, RenderedIsCurrent, OwnerIsPasted, windows
<1>4. CASE UnderWay
  <2>1. ~Live'
    BY <1>4 DEF Render, Live
  <2> QED
    BY <1>3, <2>1 DEF Fresh, Current, AllTried, Tried
<1>5. CASE ~UnderWay
  <2>1. wire = <<>> /\ asked = {} /\ NoAnswer
    <3>1. Pending \in Seq(Event)
      BY <1>1, PendingType
    <3>2. \A i \in 1..Len(Pending) : Pending[i] \in Range(Pending)
      BY <3>1 DEF Range
    <3> QED
      BY <1>5, <3>2 DEF UnderWay, NoAnswer
  <2>2. Pending' = Pending
    BY <1>1, <1>2, QueueKept
  <2>3. Len(wire') = 1 /\ wire'[1] = "COMPOUND_TEXT" /\ wire' # <<>> /\ asked' = {}
    BY <1>2, <2>1
  <2>4. NoAnswer' /\ ~(\E i \in 1..Len(Pending') : Pending'[i].ok)
    BY <2>1, <2>2 DEF NoAnswer, Noise
  <2>5. Current'
    BY <1>2, <2>3, <2>4 DEF Current, Single, Reading
  <2>6. AllTried'
    <3>1. Earlier["COMPOUND_TEXT"] = {}
      BY DEF Earlier
    <3> QED
      BY <1>2, <2>3, <2>4, <3>1 DEF AllTried, Tried, Refuses, Nothing, NoAnswer
  <2> QED
    BY <1>3, <2>5, <2>6 DEF Fresh
<1> QED
  BY <1>4, <1>5

LEMMA SyncFresh ==
    ASSUME IInv, Fresh, Sync
    PROVE  Fresh'
<1>1. XType
  BY DEF IInv, Types
<1>2. /\ UNCHANGED <<owner, content, wire, asked, prop, wait, wpc, result, eligible,
                     rendered, disturbed, cutOff>>
      /\ pc = "sync" /\ pc' = "select" /\ libq' = Pending /\ socket' = <<>>
  BY DEF Sync, RoundTrip
<1>3. Pending' = Pending
  BY <1>1, <1>2, QueueKept
<1>4. Single' = Single /\ Nothing' = Nothing /\ ~Reading /\ ~Reading'
  BY <1>2, <1>3 DEF Single, Nothing, OneAnswer, NoAnswer, Reading
<1>5. Current'
  BY <1>2, <1>3, <1>4 DEF Fresh, Current, Live, TextOf
<1>6. Seen' /\ RenderedIsCurrent' /\ OwnerIsPasted'
  BY <1>2 DEF Fresh, Seen, Selected, RenderedIsCurrent, OwnerIsPasted
<1>7. AllTried'
  BY <1>2, <1>3, <1>4 DEF Fresh, AllTried, Tried, Live, Keeps
<1> QED
  BY <1>5, <1>6, <1>7 DEF Fresh

LEMMA ReadSizeFresh ==
    ASSUME IInv, Fresh, ReadSize
    PROVE  Fresh'
<1>1. XType
  BY DEF IInv, Types
<1>2. /\ UNCHANGED <<owner, content, wire, asked, prop, wait, wpc, result, eligible,
                     rendered, disturbed, cutOff>>
      /\ pc = "size" /\ pc' = "read" /\ libq' = Pending /\ socket' = <<>> /\ size' = prop
  BY DEF ReadSize, RoundTrip
<1>3. Pending' = Pending
  BY <1>1, <1>2, QueueKept
<1>4. Single' = Single /\ Nothing' = Nothing /\ Reading /\ Reading'
  BY <1>2, <1>3 DEF Single, Nothing, OneAnswer, NoAnswer, Reading
<1>5. Current'
  BY <1>2, <1>3, <1>4 DEF Fresh, Current, Live, TextOf
<1>6. Seen' /\ RenderedIsCurrent' /\ OwnerIsPasted'
  BY <1>2 DEF Fresh, Seen, Selected, RenderedIsCurrent, OwnerIsPasted
<1>7. AllTried'
  BY <1>2, <1>3, <1>4 DEF Fresh, AllTried, Tried, Live, Keeps
<1> QED
  BY <1>5, <1>6, <1>7 DEF Fresh

LEMMA SelectFresh ==
    ASSUME IInv, Fresh, Select \/ NoMoreEvents \/ PasteComplete \/ PromiseAnew
    PROVE  Fresh'
<1>1. UNCHANGED <<x, wait, size, wpc, result, eligible, rendered, disturbed, cutOff>>
  BY DEF Select, NoMoreEvents, PasteComplete, PromiseAnew, windows, history
<1>2. ~Reading /\ ~Reading' /\ pc # "read" /\ pc' # "read"
  BY DEF Select, NoMoreEvents, PasteComplete, PromiseAnew, Reading
<1> QED
  BY <1>1, <1>2, Idle

LEMMA TimeoutFresh ==
    ASSUME IInv, Fresh, Timeout
    PROVE  Fresh'
<1>1. /\ UNCHANGED <<x, eligible, disturbed>> /\ pc = "select"
      /\ result' = Absent /\ wait' = 0 /\ wpc' = "got"
  BY DEF Timeout, Deadline, Finish
<1>2. wait \in {1, 2} /\ wpc = "wait"
  BY <1>1 DEF IInv, Control, Waits, Types, ThreadType
<1>3. Current' /\ AllTried'
  BY <1>1 DEF Current, AllTried, Tried, Live
<1>4. Seen' /\ RenderedIsCurrent'
  BY <1>1, <1>2 DEF Fresh, Seen, Selected, x, RenderedIsCurrent
<1>5. OwnerIsPasted'
  <2> SUFFICES ASSUME NEW c \in Client, Keeps(c), ~disturbed, ~cutOff'
               PROVE  Supports[c] = {}
    BY <1>1 DEF OwnerIsPasted, Keeps
  <2>1. ~disturbed /\ ~UnderWay
    BY Zenon DEF Timeout
  <2>2. Tried(c) /\ Live
    BY <1>2, <2>1 DEF Fresh, AllTried, Live
  <2>3. Nothing
    <3>1. Pending \in Seq(Event)
      BY PendingType DEF IInv, Types
    <3>2. \A i \in 1..Len(Pending) : Pending[i] \in Range(Pending)
      BY <3>1 DEF Range
    <3> QED
      BY <2>1, <3>2 DEF UnderWay, Nothing, NoAnswer
  <2>4. Refuses(c, Target)
    BY <1>1, <1>2, <2>2, <2>3 DEF Tried, Reading
  <2> QED
    BY <2>4, PasteAssumption DEF Refuses
<1> QED
  BY <1>3, <1>4, <1>5 DEF Fresh

LEMMA ReadFresh ==
    ASSUME IInv, Fresh, Read
    PROVE  Fresh'
<1>1. XType
  BY DEF IInv, Types
<1>2. /\ UNCHANGED <<owner, content, wire, asked, prop, eligible, disturbed, cutOff>>
      /\ pc = "read" /\ pc' = "idle" /\ wait' = 0
  BY DEF Read, Finish
<1>3. Current' /\ AllTried'
  BY <1>2 DEF Current, AllTried, Tried, Live
<1>4. CASE wait = 0
  <2>1. UNCHANGED <<wpc, result, rendered>>
    BY <1>4 DEF Read
  <2>2. Seen' /\ RenderedIsCurrent' /\ OwnerIsPasted'
    BY <1>2, <2>1 DEF Fresh, Seen, Selected, RenderedIsCurrent, OwnerIsPasted
  <2> QED
    BY <1>3, <2>2 DEF Fresh
<1>5. CASE wait # 0
  <2>1. wpc = "wait" /\ wpc' = "got"
    BY <1>5 DEF Read, Finish, IInv, Control, Waits
  <2>2. Seen'
    BY <1>2, <2>1 DEF Fresh, Seen, Selected
  <2>3. ASSUME ~disturbed'
        PROVE  result' \in eligible' /\ result' # Absent
    <3>1. Live
      BY <1>2, <1>5, <2>3 DEF Live
    <3>2. size = prop /\ prop \in eligible \cap Text
      BY <1>2, <3>1 DEF Fresh, Current, Reading
    <3>3. result' = prop
      BY <1>5, <3>2 DEF Read, Finish
    <3> QED
      BY <1>2, <3>2, <3>3, TextsDiffer
  <2>4. RenderedIsCurrent' /\ OwnerIsPasted'
    BY <2>3 DEF RenderedIsCurrent, OwnerIsPasted
  <2> QED
    BY <1>3, <2>2, <2>4 DEF Fresh
<1> QED
  BY <1>4, <1>5

LEMMA NextEventFresh ==
    ASSUME IInv, Fresh, NextEvent
    PROVE  Fresh'
<1> DEFINE e == Head(Pending)
           refused == e # Noise /\ ~HasData(e)
<1>1. XType
  BY DEF IInv, Types
<1>2. /\ UNCHANGED <<owner, content, asked, prop, eligible, disturbed, cutOff, size>>
      /\ pc = "flush" /\ Pending # <<>> /\ socket' = <<>> /\ libq' = Tail(Pending)
  BY DEF NextEvent
<1>3. /\ Len(Pending) \in Nat \ {0}
      /\ Len(Pending') = Len(Pending) - 1
      /\ \A i \in 1..Len(Pending') : Pending'[i] = Pending[i + 1]
      /\ e = Pending[1] /\ e \in Event
  BY <1>1, <1>2, QueueShrinks
<1>4. \/ /\ e = Noise
         /\ UNCHANGED <<wire, pc, wait, posted, clip, wpc, result, rendered>>
      \/ /\ e # Noise /\ HasData(e) /\ pc' = "size"
         /\ UNCHANGED <<wire, wait, posted, clip, wpc, result, rendered>>
      \/ /\ refused /\ e.target # "STRING"
         /\ wire' = Append(wire, Fallback[e.target])
         /\ UNCHANGED <<pc, wait, posted, clip, wpc, result, rendered>>
      \/ /\ refused /\ e.target = "STRING" /\ wait # 2
         /\ pc' = IF wait = 1 THEN "sync" ELSE "idle"
         /\ wait' = IF wait = 1 THEN 2 ELSE 0
         /\ UNCHANGED <<wire, posted, clip, wpc, result, rendered>>
      \/ /\ refused /\ e.target = "STRING" /\ wait = 2
         /\ Finish(Absent) /\ pc' = "idle" /\ UNCHANGED wire
  BY Zenon DEF NextEvent
<1> HIDE DEF e
<1>5. ~Reading /\ Selected' = Selected /\ \A c : Keeps(c)' = Keeps(c)
  BY <1>2 DEF Reading, Selected, Keeps
<1>6. ASSUME Live, e # Noise
      PROVE  wire = <<>> /\ asked = {} /\ NoAnswer'
  <2>1. Single /\ ~NoAnswer
    BY <1>3, <1>6 DEF Fresh, Current, NoAnswer
  <2>2. wire = <<>> /\ asked = {} /\ OneAnswer
    BY <2>1 DEF Single
  <2>3. NoAnswer'
    <3> SUFFICES ASSUME NEW i \in 1..Len(Pending')
                 PROVE  Pending'[i] = Noise
      BY DEF NoAnswer
    <3>1. i + 1 \in 1..Len(Pending) /\ 1 \in 1..Len(Pending) /\ i + 1 # 1
      BY <1>3
    <3> QED
      BY <1>3, <1>6, <2>2, <3>1 DEF OneAnswer
  <2> QED
    BY <2>2, <2>3
<1>7. ASSUME NoAnswer'
      PROVE  ~(\E i \in 1..Len(Pending') : Pending'[i].ok)
  BY <1>7 DEF NoAnswer, Noise
<1>8. Seen'
  <2>1. UNCHANGED <<wpc, rendered>> \/ (wait = 2 /\ wpc' = "got")
    BY <1>4 DEF Finish
  <2>2. wait = 2 => wpc # "closed"
    BY DEF IInv, Control, Waits
  <2> QED
    BY <1>2, <1>5, <2>1, <2>2 DEF Fresh, Seen
<1>9. CASE e = Noise
  <2>1. UNCHANGED <<wire, pc, wait, wpc, result, rendered>>
    BY <1>4, <1>9
  <2>2. Live' = Live /\ ~Reading' /\ pc' # "read"
    BY <1>2, <2>1 DEF Live, Reading
  <2>3. NoAnswer' <=> NoAnswer
    <3>1. ASSUME NoAnswer' PROVE NoAnswer
      <4> SUFFICES ASSUME NEW i \in 1..Len(Pending)
                   PROVE  Pending[i] = Noise
        BY DEF NoAnswer
      <4>1. CASE i = 1
        BY <1>3, <1>9, <4>1
      <4>2. CASE i # 1
        <5>1. i - 1 \in 1..Len(Pending') /\ (i - 1) + 1 = i
          BY <1>3, <4>2
        <5> QED
          BY <1>3, <3>1, <5>1 DEF NoAnswer
      <4> QED
        BY <4>1, <4>2
    <3>2. ASSUME NoAnswer PROVE NoAnswer'
      BY <1>3, <3>2 DEF NoAnswer
    <3> QED
      BY <3>1, <3>2
  <2>4. OneAnswer => OneAnswer'
    <3> SUFFICES ASSUME OneAnswer, NEW i \in 1..Len(Pending'), NEW j \in 1..Len(Pending'),
                        Pending'[i] # Noise, Pending'[j] # Noise
                 PROVE  i = j
      BY DEF OneAnswer
    <3>1. i + 1 \in 1..Len(Pending) /\ j + 1 \in 1..Len(Pending)
      BY <1>3
    <3>2. i + 1 = j + 1
      BY <1>3, <3>1 DEF OneAnswer
    <3> QED
      BY <3>2
  <2>5. Single => Single'
    BY <1>2, <2>1, <2>3, <2>4 DEF Single
  <2>6. Nothing' <=> Nothing
    BY <1>2, <2>1, <2>3 DEF Nothing
  <2>7. Current'
    BY <1>2, <1>3, <2>1, <2>2, <2>5 DEF Fresh, Current, TextOf
  <2>8. AllTried'
    <3> SUFFICES ASSUME NEW c \in Client, Live, Keeps(c)
                 PROVE  Tried(c)'
      BY <1>5, <2>2 DEF AllTried, Tried
    <3>1. Tried(c)
      BY DEF Fresh, AllTried
    <3>2. \A i \in 1..Len(Pending') :
            Pending'[i] # Noise /\ ~Pending'[i].ok
            => Refuses(c, Earlier[Pending'[i].target] \cup {Pending'[i].target})
      BY <1>3, <3>1 DEF Tried
    <3> QED
      BY <1>2, <1>5, <2>1, <2>6, <3>1, <3>2 DEF Tried
  <2>9. RenderedIsCurrent' /\ OwnerIsPasted'
    BY <1>2, <2>1 DEF Fresh, RenderedIsCurrent, OwnerIsPasted
  <2> QED
    BY <1>8, <2>7, <2>8, <2>9 DEF Fresh
<1>10. CASE e # Noise /\ HasData(e) /\ pc' = "size"
  <2>1. UNCHANGED <<wire, wait, wpc, result, rendered>>
    BY <1>4, <1>10
  <2>2. Live' = Live /\ Reading' /\ pc' # "read"
    BY <1>2, <1>10, <2>1 DEF Live, Reading
  <2>3. Live => Nothing' /\ Single' /\ prop' \in eligible' \cap Text
    <3> SUFFICES ASSUME Live
                 PROVE  Nothing' /\ Single' /\ prop' \in eligible' \cap Text
      OBVIOUS
    <3>1. wire' = <<>> /\ asked' = {} /\ NoAnswer'
      BY <1>2, <1>6, <1>10, <2>1
    <3>2. Nothing' /\ Single'
      BY <3>1 DEF Nothing, Single
    <3>3. \E i \in 1..Len(Pending) : Pending[i].ok
      BY <1>3, <1>10 DEF HasData
    <3>4. prop \in eligible \cap Text
      BY <3>3 DEF Fresh, Current
    <3> QED
      BY <1>2, <3>2, <3>4
  <2>4. Current'
    BY <2>2, <2>3 DEF Current, Nothing
  <2>5. AllTried'
    <3> SUFFICES ASSUME NEW c \in Client, Live, Keeps(c)
                 PROVE  Tried(c)'
      BY <1>5, <2>2 DEF AllTried, Tried
    <3>1. Tried(c)
      BY DEF Fresh, AllTried
    <3>2. Nothing'
      BY <2>3
    <3> QED
      BY <2>1, <2>2, <3>1, <3>2 DEF Tried, Nothing, NoAnswer
  <2>6. RenderedIsCurrent' /\ OwnerIsPasted'
    BY <1>2, <2>1 DEF Fresh, RenderedIsCurrent, OwnerIsPasted
  <2> QED
    BY <1>8, <2>4, <2>5, <2>6 DEF Fresh
\* What a refusal tells of an owner that stays
<1>11. ASSUME NEW c \in Client, Live, Keeps(c), refused
       PROVE  Refuses(c, Earlier[e.target] \cup {e.target})
  <2>1. Tried(c)
    BY DEF Fresh, AllTried
  <2> QED
    BY <1>3, <1>11, <2>1 DEF Tried, HasData
<1>12. CASE refused /\ e.target # "STRING"
  <2>1. wire' = Append(wire, Fallback[e.target]) /\ UNCHANGED <<pc, wait, wpc, result, rendered>>
    BY <1>4, <1>12
  <2>2. Live' = Live /\ ~Reading' /\ pc' # "read"
    BY <1>2, <2>1 DEF Live, Reading
  <2>3. ASSUME Live
        PROVE  /\ Len(wire') = 1 /\ wire' # <<>> /\ wire'[1] = Fallback[e.target]
               /\ asked' = {} /\ NoAnswer'
    <3>1. wire' = Append(<<>>, Fallback[e.target]) /\ asked' = {} /\ NoAnswer'
      BY <1>2, <1>6, <1>12, <2>1, <2>3
    <3> QED
      BY <3>1
  <2>4. Current'
    <3> SUFFICES ASSUME Live'
                 PROVE  Current'
      BY DEF Current
    <3>a. Live
      BY <2>2
    <3>b. Len(wire') = 1 /\ asked' = {} /\ NoAnswer'
      BY <2>3, <3>a
    <3>1. Single' /\ asked' = {} /\ NoAnswer'
      BY <3>b DEF Single
    <3>2. ~(\E i \in 1..Len(Pending') : Pending'[i].ok)
      BY <1>7, <3>1
    <3> QED
      BY <2>2, <3>1, <3>2 DEF Current
  <2>5. AllTried'
    <3> SUFFICES ASSUME NEW c \in Client, Live, Keeps(c)
                 PROVE  Tried(c)'
      BY <1>5, <2>2 DEF AllTried, Tried
    <3>1. Tried(c) /\ Refuses(c, Earlier[e.target] \cup {e.target})
      BY <1>11, <1>12 DEF Fresh, AllTried
    <3>2. e.target \in Target
      BY <1>3, <1>12, EventTypes
    <3>3. Earlier[Fallback[e.target]] = Earlier[e.target] \cup {e.target}
      BY <1>12, <3>2 DEF Earlier, Fallback, Target
    <3>c. Len(wire') = 1 /\ wire'[1] = Fallback[e.target]
      BY <2>3
    <3>4. \A i \in 1..Len(wire') : Refuses(c, Earlier[wire'[i]])
      BY <3>1, <3>3, <3>c
    <3>5. asked' = {} /\ wire' # <<>> /\ \A i \in 1..Len(Pending') : Pending'[i] = Noise
      BY <2>3 DEF NoAnswer
    <3>6. wait' = 2 => Refuses(c, Target)
      BY <2>1, <3>1 DEF Tried
    <3> QED
      BY <3>4, <3>5, <3>6 DEF Tried, Nothing
  <2>6. RenderedIsCurrent' /\ OwnerIsPasted'
    BY <1>2, <2>1 DEF Fresh, RenderedIsCurrent, OwnerIsPasted
  <2> QED
    BY <1>8, <2>4, <2>5, <2>6 DEF Fresh
\* After the last target has been refused
<1>13. ASSUME NEW c \in Client, Live, Keeps(c), refused, e.target = "STRING"
       PROVE  Refuses(c, Target)
  <2>1. Earlier[e.target] \cup {e.target} = Target
    BY <1>13 DEF Earlier, Target
  <2> QED
    BY <1>11, <1>13, <2>1
<1>14. CASE refused /\ e.target = "STRING" /\ wait # 2
  <2>1. /\ UNCHANGED <<wire, wpc, result, rendered>>
        /\ wait' = IF wait = 1 THEN 2 ELSE 0
        /\ pc' = IF wait = 1 THEN "sync" ELSE "idle"
    BY <1>4, <1>14
  <2>2. (Live' => Live) /\ ~Reading' /\ pc' # "read" /\ wait' # 1
    BY <1>2, <2>1 DEF Live, Reading
  <2>3. ASSUME Live
        PROVE  wire' = <<>> /\ Len(wire') = 0 /\ asked' = {} /\ NoAnswer' /\ Single'
    <3>1. wire' = <<>> /\ asked' = {} /\ NoAnswer'
      BY <1>2, <1>6, <1>14, <2>1, <2>3
    <3>2. Len(wire') = 0
      BY <3>1
    <3> QED
      BY <3>1, <3>2 DEF Single
  <2>4. Current'
    <3> SUFFICES ASSUME Live'
                 PROVE  Current'
      BY DEF Current
    <3>1. Single' /\ asked' = {} /\ NoAnswer'
      BY <2>2, <2>3
    <3>2. ~(\E i \in 1..Len(Pending') : Pending'[i].ok)
      BY <1>7, <3>1
    <3> QED
      BY <2>2, <3>1, <3>2 DEF Current
  <2>5. AllTried'
    <3> SUFFICES ASSUME NEW c \in Client, Live, Keeps(c)
                 PROVE  Tried(c)'
      BY <1>5, <2>2 DEF AllTried, Tried
    <3>1. Refuses(c, Target) /\ asked' = {} /\ wait' # 1
      BY <1>13, <1>14, <2>2, <2>3
    <3>2. \A i \in 1..Len(Pending') : Pending'[i] = Noise
      BY <2>3 DEF NoAnswer
    <3>3. \A i \in 1..Len(wire') : FALSE
      BY <2>3
    <3> QED
      BY <3>1, <3>2, <3>3 DEF Tried
  <2>6. RenderedIsCurrent' /\ OwnerIsPasted'
    BY <1>2, <2>1 DEF Fresh, RenderedIsCurrent, OwnerIsPasted
  <2> QED
    BY <1>8, <2>4, <2>5, <2>6 DEF Fresh
<1>15. CASE refused /\ e.target = "STRING" /\ wait = 2
  <2>1. wait' = 0 /\ result' = Absent
    BY <1>4, <1>15 DEF Finish
  <2>2. Current' /\ AllTried' /\ RenderedIsCurrent'
    BY <2>1 DEF Current, AllTried, Tried, Live, RenderedIsCurrent
  <2>3. OwnerIsPasted'
    <3> SUFFICES ASSUME NEW c \in Client, Keeps(c), ~disturbed
                 PROVE  Supports[c] = {}
      BY <1>2 DEF OwnerIsPasted, Keeps
    <3>1. Refuses(c, Target)
      BY <1>13, <1>15 DEF Live
    <3> QED
      BY <3>1, PasteAssumption DEF Refuses
  <2> QED
    BY <1>8, <2>2, <2>3 DEF Fresh
<1> QED
  BY <1>4, <1>9, <1>10, <1>12, <1>14, <1>15, Zenon

(***************************************************************************)
(* The theorems                                                            *)
(***************************************************************************)
LEMMA InitFresh == Init => Fresh
BY DEF Init, Fresh, Current, Live, Seen, AllTried, Tried, RenderedIsCurrent, OwnerIsPasted

LEMMA NextFresh == IInv /\ Fresh /\ [Next]_vars => Fresh'
<1> SUFFICES ASSUME IInv, Fresh, [Next]_vars PROVE Fresh'
  OBVIOUS
<1>1. CASE Convert
  BY <1>1, ConvertFresh
<1>2. CASE ThreadStep
  BY <1>2, SelectionFresh, RenderFresh, SyncFresh, TimeoutFresh, SelectFresh,
     NextEventFresh, ReadSizeFresh, ReadFresh, Zenon DEF ThreadStep
<1>3. CASE ClientStep
  BY <1>3, SelectionFresh, RespondFresh, OtherEventFresh, Zenon DEF ClientStep
<1>4. CASE ProgramStep
  BY <1>4, OpenClipboardFresh, GetClipboardDataFresh, CloseClipboardFresh, AppCopyFresh,
     Zenon DEF ProgramStep
<1>5. CASE UNCHANGED vars
  <2>1. UNCHANGED <<x, wait, size, wpc, result, eligible, rendered, disturbed, cutOff, pc>>
    BY <1>5 DEF vars, thread, windows, history
  <2>2. Reading' = Reading
    BY <2>1 DEF Reading
  <2> QED
    BY <2>1, <2>2, Idle
<1> QED
  BY <1>1, <1>2, <1>3, <1>4, <1>5, Zenon DEF Next

LEMMA FreshAlways == Spec => []Fresh
BY InitFresh, NextFresh, Invariance, PTL DEF Spec

\* A text that is rendered in a paste nothing older disturbed was the selection
\* at some time of that paste, and is whole: for any clients, targets and bounds.
THEOREM PastedIsCurrent == Spec => []RenderedIsCurrent
<1>1. Fresh => RenderedIsCurrent
  BY Zenon DEF Fresh
<1> QED
  BY <1>1, FreshAlways, PTL

\* A program is sent away with nothing, while one owner keeps the selection, only
\* when that owner can convert to no target, or owes an answer when the wait ends:
\* for any clients, targets and bounds.
THEOREM PastedIfAble == Spec => []OwnerIsPasted
<1>1. Fresh => OwnerIsPasted
  BY Zenon DEF Fresh
<1> QED
  BY <1>1, FreshAlways, PTL
=============================================================================
