------------------------- MODULE ClipboardPasteProofs -------------------------
(***************************************************************************)
(* What is proved of ClipboardPaste for any clients, whatever they         *)
(* support, and any number of pastes, changes and other events.            *)
(***************************************************************************)
EXTENDS ClipboardPaste, TLAPS

\* The parts of the type invariant
XType ==
    /\ owner \in Client \cup {None}
    /\ content \in [Client -> 0..MaxChanges]
    /\ wire \in Seq(Target)
    /\ asked \subseteq Request
    /\ prop \in Text \cup {Absent}
    /\ socket \in Seq(Event) /\ libq \in Seq(Event)
    /\ converts \in Nat

ThreadType ==
    /\ pc \in {"idle", "sync", "select", "flush", "size", "read", "promise"}
    /\ wait \in 0..2
    /\ size \in Text \cup {Absent}
    /\ posted \in 0..MaxPastes

WindowsType ==
    /\ winOwner \in {"bridge", "app"}
    /\ clip \in Text \cup {Torn, Promise, AppText}
    /\ wpc \in {"closed", "open", "wait", "got"}
    /\ result \in Text \cup {Torn, Absent, AppText}

HistoryType ==
    /\ eligible \subseteq Text \cup {Absent}
    /\ rendered \in BOOLEAN /\ disturbed \in BOOLEAN
    /\ cutOff \in BOOLEAN /\ slipped \in BOOLEAN

BoundsType ==
    /\ pastes \in 0..MaxPastes
    /\ changes \in 0..MaxChanges
    /\ noise \in 0..MaxNoise

Types == XType /\ ThreadType /\ WindowsType /\ HistoryType /\ BoundsType

LEMMA Parts == TypeOK <=> Types
<1>1. {prop, size} \subseteq Text \cup {Absent} <=>
          prop \in Text \cup {Absent} /\ size \in Text \cup {Absent}
  BY Zenon
<1>2. {rendered, disturbed, cutOff, slipped} \subseteq BOOLEAN <=>
          /\ rendered \in BOOLEAN /\ disturbed \in BOOLEAN
          /\ cutOff \in BOOLEAN /\ slipped \in BOOLEAN
  BY Zenon
<1> QED
  BY <1>1, <1>2, Zenon DEF TypeOK, Types, XType, ThreadType, WindowsType, HistoryType, BoundsType

(***************************************************************************)
(* The inductive invariant                                                 *)
(***************************************************************************)
\* WM_RENDERFORMAT waits for a program that waits, and promised to.
Waits ==
    /\ pc \in {"sync", "select"} => wait # 0
    /\ pc \in {"idle", "promise"} => wait = 0
    /\ wait # 0 => wpc = "wait"
    /\ wpc = "wait" => winOwner = "bridge"

\* One WM_USER_PASTE_COMPLETE for each paste, which bounds those that wait
Counted == posted + (IF wpc \in {"open", "wait"} THEN 1 ELSE 0) <= pastes

\* Each change is one of the selection that Change counts.
Changed == \A c \in Client : content[c] <= changes

\* What a program copied is on the clipboard as long as the program owns it.
OwnText == clip = AppText <=> winOwner = "app"

Control == Waits /\ Counted /\ OwnText

IInv == Types /\ Control /\ Changed

(***************************************************************************)
(* Text                                                                    *)
(***************************************************************************)
LEMMA TextsDiffer ==
    /\ \A t \in Text \cup {Absent, Torn} : t # AppText
    /\ \A t \in Text \cup {Torn} : t # Promise /\ t # Absent
    /\ Promise # AppText
BY PasteAssumption DEF Text, Absent, Torn, AppText, Promise

LEMMA ContentIsText ==
    ASSUME XType, NEW c \in Client
    PROVE  [by |-> c, n |-> content[c]] \in Text
BY DEF XType, Text

LEMMA WitnessType ==
    ASSUME HistoryType, XType', Witness
    PROVE  eligible' \subseteq Text \cup {Absent}
<1>1. Selected' \in Text \cup {Absent}
  BY DEF Selected, XType, Text
<1> QED
  BY <1>1 DEF Witness, HistoryType

LEMMA EventTypes ==
    /\ Noise \in Event
    /\ \A t \in Target, ok \in BOOLEAN : [target |-> t, ok |-> ok] \in Event
    /\ \A e \in Event : e # Noise /\ ~HasData(e) => e.target \in Target
BY DEF Event, Noise, HasData

LEMMA AppendEvent ==
    ASSUME XType, NEW e \in Event
    PROVE  Append(socket, e) \in Seq(Event)
BY DEF XType

LEMMA PendingType ==
    ASSUME XType
    PROVE  Pending \in Seq(Event) /\ <<>> \in Seq(Event)
BY DEF XType, Pending

(***************************************************************************)
(* X clients                                                               *)
(***************************************************************************)
LEMMA ClaimInv ==
    ASSUME IInv, NEW c \in Client, Claim(c)
    PROVE  IInv'
<1> USE DEF IInv, Types
<1>1. BoundsType'
  BY PasteAssumption DEF Claim, Change, BoundsType
<1>2. content[c] + 1 \in 0..MaxChanges
  BY PasteAssumption DEF Claim, Change, BoundsType, Changed, XType
<1>3. XType' /\ Changed'
  <2>1. content' = [content EXCEPT ![c] = content[c] + 1] /\ changes' = changes + 1
    BY DEF Claim, Change
  <2>2. content' \in [Client -> 0..MaxChanges]
    BY <1>2, <2>1 DEF XType
  <2>3. Changed'
    BY <2>1 DEF XType, Changed, BoundsType
  <2> QED
    BY <2>2, <2>3 DEF Claim, XType
<1>4. ThreadType'
  BY DEF Claim, ThreadType, thread
<1>5. WindowsType'
  BY DEF Claim, WindowsType
<1>6. HistoryType'
  BY <1>3, WitnessType DEF Claim, HistoryType
<1>7. Control'
  BY TextsDiffer DEF Claim, thread, Control, Waits, Counted, OwnText
<1> QED
  BY <1>1, <1>3, <1>4, <1>5, <1>6, <1>7

LEMMA ReselectInv ==
    ASSUME IInv, Reselect
    PROVE  IInv'
<1> USE DEF IInv, Types
<1>1. BoundsType'
  BY PasteAssumption DEF Reselect, Change, BoundsType
<1>2. owner \in Client
  BY DEF Reselect, XType
<1>3. content[owner] + 1 \in 0..MaxChanges
  BY <1>2, PasteAssumption DEF Reselect, Change, BoundsType, Changed, XType
<1>4. XType' /\ Changed'
  <2>1. content' = [content EXCEPT ![owner] = content[owner] + 1] /\ changes' = changes + 1
    BY DEF Reselect, Change
  <2>2. content' \in [Client -> 0..MaxChanges]
    BY <1>3, <2>1 DEF XType
  <2>3. Changed'
    BY <2>1 DEF XType, Changed, BoundsType
  <2> QED
    BY <2>2, <2>3 DEF Reselect, XType
<1>5. ThreadType' /\ WindowsType'
  BY DEF Reselect, ThreadType, thread, WindowsType, windows
<1>6. HistoryType'
  BY <1>4, WitnessType DEF Reselect, HistoryType
<1>7. Control'
  BY DEF Reselect, thread, windows, Control, Waits, Counted, OwnText
<1> QED
  BY <1>1, <1>4, <1>5, <1>6, <1>7

LEMMA VanishInv ==
    ASSUME IInv, Vanish
    PROVE  IInv'
<1> USE DEF IInv, Types
<1>1. BoundsType' /\ Changed'
  BY PasteAssumption DEF Vanish, Change, BoundsType, Changed, XType
<1>2. XType'
  BY DEF Vanish, XType
<1>3. ThreadType' /\ WindowsType'
  BY DEF Vanish, ThreadType, thread, WindowsType, windows
<1>4. HistoryType'
  BY <1>2, WitnessType DEF Vanish, HistoryType
<1>5. Control'
  BY DEF Vanish, thread, windows, Control, Waits, Counted, OwnText
<1> QED
  BY <1>1, <1>2, <1>3, <1>4, <1>5

\* Steps that only what X knows changes in
LEMMA XStep ==
    ASSUME IInv, XType', UNCHANGED <<content, thread, windows, history, pastes, changes>>,
           noise' \in 0..MaxNoise
    PROVE  IInv'
<1> USE DEF IInv, Types
<1>1. ThreadType' /\ WindowsType' /\ HistoryType' /\ BoundsType'
  BY DEF ThreadType, thread, WindowsType, windows, HistoryType, history, BoundsType
<1>2. Control' /\ Changed'
  BY DEF thread, windows, Control, Waits, Counted, OwnText, Changed
<1> QED
  BY <1>1, <1>2

LEMMA RespondInv ==
    ASSUME IInv, NEW r \in asked, Respond(r)
    PROVE  IInv'
<1>1. UNCHANGED <<owner, content, wire, libq, converts, thread, windows, history, bounds>>
  BY DEF Respond
<1>2. XType /\ r \in Request /\ r.to \in Client /\ r.target \in Target
  BY DEF IInv, Types, XType, Request
<1> DEFINE can  == r.target \in Supports[r.to]
           owns == r.to = owner
<1>a. can \in BOOLEAN /\ owns \in BOOLEAN
  <2>1. CASE r.target \in Supports[r.to] /\ r.to = owner
    BY <2>1
  <2>2. CASE r.target \in Supports[r.to] /\ r.to # owner
    BY <2>2
  <2>3. CASE r.target \notin Supports[r.to] /\ r.to = owner
    BY <2>3
  <2>4. CASE r.target \notin Supports[r.to] /\ r.to # owner
    BY <2>4
  <2> QED
    BY <2>1, <2>2, <2>3, <2>4, Zenon
<1>3. PICK ok \in {can, owns} :
         /\ prop' = IF ok THEN [by |-> r.to, n |-> content[r.to]] ELSE prop
         /\ socket' = Append(socket, [target |-> r.target, ok |-> ok])
  BY DEF Respond
<1> HIDE DEF can, owns
<1>4. ok \in BOOLEAN
  BY <1>a, <1>3
<1>5. [target |-> r.target, ok |-> ok] \in Event
  BY <1>2, <1>4, EventTypes
<1>6. socket' \in Seq(Event)
  BY <1>2, <1>3, <1>5, AppendEvent
<1>7. prop' \in Text \cup {Absent}
  BY <1>2, <1>3, <1>4, ContentIsText DEF XType
<1>8. asked' \subseteq Request
  BY <1>2 DEF Respond, XType
<1>9. XType'
  BY <1>1, <1>2, <1>6, <1>7, <1>8 DEF XType
<1> QED
  BY <1>1, <1>9, XStep DEF bounds, IInv, Types, BoundsType

LEMMA OtherEventInv ==
    ASSUME IInv, OtherEvent
    PROVE  IInv'
<1>1. XType /\ Append(socket, Noise) \in Seq(Event)
  BY EventTypes, AppendEvent DEF IInv, Types
<1>2. XType'
  BY <1>1 DEF OtherEvent, XType
<1>3. noise' \in 0..MaxNoise
  BY PasteAssumption DEF OtherEvent, IInv, Types, BoundsType
<1> QED
  BY <1>2, <1>3, XStep DEF OtherEvent

LEMMA ConvertInv ==
    ASSUME IInv, Convert
    PROVE  IInv'
<1>1. XType /\ Head(wire) \in Target /\ wire' \in Seq(Target)
  BY DEF Convert, IInv, Types, XType
<1>2. converts' \in Nat
  BY <1>1 DEF Convert, XType
<1>3. CASE owner = None
  <2>1. Append(socket, [target |-> Head(wire), ok |-> FALSE]) \in Seq(Event)
    BY <1>1, EventTypes, AppendEvent
  <2>2. XType'
    BY <1>1, <1>2, <1>3, <2>1 DEF Convert, XType
  <2> QED
    BY <2>2, XStep DEF Convert, bounds, IInv, Types, BoundsType
<1>4. CASE owner # None
  <2>1. [to |-> owner, target |-> Head(wire), n |-> converts] \in Request
    BY <1>1, <1>4 DEF XType, Request
  <2>2. XType'
    BY <1>1, <1>2, <1>4, <2>1 DEF Convert, XType
  <2> QED
    BY <2>2, XStep DEF Convert, bounds, IInv, Types, BoundsType
<1> QED
  BY <1>3, <1>4

(***************************************************************************)
(* The program that pastes, and others that copy                           *)
(***************************************************************************)
LEMMA OpenClipboardInv ==
    ASSUME IInv, OpenClipboard
    PROVE  IInv'
<1> USE DEF IInv, Types
<1>1. XType' /\ ThreadType' /\ Changed'
  BY DEF OpenClipboard, XType, x, ThreadType, thread, Changed
<1>2. WindowsType' /\ BoundsType'
  BY PasteAssumption DEF OpenClipboard, WindowsType, BoundsType
<1>3. Selected \in Text \cup {Absent}
  BY DEF Selected, XType, Text
<1>4. HistoryType'
  BY <1>3 DEF OpenClipboard, HistoryType
<1>5. Control'
  BY DEF OpenClipboard, thread, Control, Waits, Counted, OwnText,
         ThreadType, BoundsType
<1> QED
  BY <1>1, <1>2, <1>4, <1>5

LEMMA GetClipboardDataInv ==
    ASSUME IInv, GetClipboardData
    PROVE  IInv'
<1> USE DEF IInv, Types
<1>1. XType' /\ ThreadType' /\ HistoryType' /\ BoundsType' /\ Changed'
  BY DEF GetClipboardData, XType, x, ThreadType, thread, HistoryType, history,
         BoundsType, bounds, Changed
<1>2. WindowsType'
  BY DEF GetClipboardData, WindowsType
<1>3. Control'
  BY TextsDiffer DEF GetClipboardData, thread, bounds, Control, Waits, Counted,
                     OwnText, ThreadType, BoundsType, WindowsType
<1> QED
  BY <1>1, <1>2, <1>3

LEMMA CloseClipboardInv ==
    ASSUME IInv, CloseClipboard
    PROVE  IInv'
<1> USE DEF IInv, Types
<1>1. XType' /\ ThreadType' /\ BoundsType' /\ Changed'
  BY DEF CloseClipboard, XType, x, ThreadType, thread, BoundsType, bounds, Changed
<1>2. WindowsType' /\ HistoryType'
  BY DEF CloseClipboard, WindowsType, HistoryType
<1>3. Control'
  BY DEF CloseClipboard, thread, bounds, Control, Waits, Counted, OwnText
<1> QED
  BY <1>1, <1>2, <1>3

LEMMA AppCopyInv ==
    ASSUME IInv, AppCopy
    PROVE  IInv'
<1> USE DEF IInv, Types
<1>1. XType' /\ ThreadType'
  BY DEF AppCopy, XType, x, ThreadType, thread
<1>4. slipped' \in BOOLEAN
  BY Zenon DEF AppCopy
<1>5. HistoryType'
  BY <1>4 DEF AppCopy, HistoryType
<1>2. WindowsType' /\ BoundsType' /\ Changed'
  BY PasteAssumption DEF AppCopy, Change, WindowsType, BoundsType, Changed, XType, x
<1>3. Control'
  BY DEF AppCopy, thread, Control, Waits, Counted, OwnText
<1> QED
  BY <1>1, <1>2, <1>3, <1>5

(***************************************************************************)
(* The clipboard thread                                                    *)
(***************************************************************************)
LEMMA TakeSelectionInv ==
    ASSUME IInv, TakeSelection
    PROVE  IInv'
<1> USE DEF IInv, Types
<1>1. XType'
  BY DEF TakeSelection, XType
<1>2. HistoryType'
  BY <1>1, WitnessType DEF TakeSelection, HistoryType
<1>3. ThreadType' /\ WindowsType' /\ BoundsType' /\ Changed'
  BY DEF TakeSelection, ThreadType, thread, WindowsType, windows, BoundsType, bounds,
         Changed
<1>4. Control'
  BY DEF TakeSelection, thread, windows, bounds, Control, Waits, Counted, OwnText
<1> QED
  BY <1>1, <1>2, <1>3, <1>4

LEMMA RenderInv ==
    ASSUME IInv, Render
    PROVE  IInv'
<1> USE DEF IInv, Types
<1>1. XType'
  BY DEF Render, XType, Target
<1>2. UnderWay \in BOOLEAN
  BY Zenon DEF UnderWay
<1>3. HistoryType'
  BY <1>2 DEF Render, HistoryType
<1>4. ThreadType' /\ WindowsType' /\ BoundsType' /\ Changed'
  BY DEF Render, ThreadType, WindowsType, windows, BoundsType, bounds, Changed
<1>5. Control'
  BY DEF Render, windows, bounds, Control, Waits, Counted, OwnText
<1> QED
  BY <1>1, <1>3, <1>4, <1>5

LEMMA RoundTripTypes ==
    ASSUME IInv, NEW from, NEW to, RoundTrip(from, to)
    PROVE  XType' /\ BoundsType' /\ Changed'
<1>1. XType'
  BY PendingType DEF RoundTrip, XType, IInv, Types
<1> QED
  BY <1>1 DEF RoundTrip, bounds, BoundsType, Changed, IInv, Types

LEMMA SyncInv ==
    ASSUME IInv, Sync
    PROVE  IInv'
<1> USE DEF IInv, Types
<1>1. XType' /\ BoundsType' /\ Changed'
  BY RoundTripTypes DEF Sync
<1>2. ThreadType' /\ WindowsType' /\ HistoryType'
  BY DEF Sync, RoundTrip, ThreadType, WindowsType, HistoryType
<1>3. Control'
  BY DEF Sync, RoundTrip, bounds, Control, Waits, Counted, OwnText
<1> QED
  BY <1>1, <1>2, <1>3

LEMMA ReadSizeInv ==
    ASSUME IInv, ReadSize
    PROVE  IInv'
<1> USE DEF IInv, Types
<1>1. XType' /\ BoundsType' /\ Changed'
  BY RoundTripTypes DEF ReadSize
<1>2. ThreadType' /\ WindowsType' /\ HistoryType'
  BY DEF ReadSize, RoundTrip, ThreadType, XType, WindowsType, HistoryType
<1>3. Control'
  BY DEF ReadSize, RoundTrip, bounds, Control, Waits, Counted, OwnText
<1> QED
  BY <1>1, <1>2, <1>3

\* A wait that ends gives a program what it may have, and counts its message.
LEMMA FinishInv ==
    ASSUME IInv, NEW d \in Text \cup {Absent, Torn}, Finish(d), wait # 0,
           pc' = "idle", posted' = posted + 1, UNCHANGED <<size, winOwner, pastes>>
    PROVE  ThreadType' /\ WindowsType' /\ rendered' \in BOOLEAN /\ Control'
<1> USE DEF IInv, Types
<1>1. wpc = "wait" /\ winOwner = "bridge" /\ posted + 1 <= pastes
  BY DEF Control, Waits, Counted
<1>2. ThreadType'
  BY <1>1, PasteAssumption DEF Finish, ThreadType, BoundsType
<1>3. WindowsType' /\ rendered' \in BOOLEAN
  BY DEF Finish, WindowsType
<1>4. clip' # AppText
  BY TextsDiffer DEF Finish
<1>5. Control'
  BY <1>1, <1>4 DEF Finish, Control, Waits, Counted, OwnText
<1> QED
  BY <1>2, <1>3, <1>5

LEMMA TimeoutInv ==
    ASSUME IInv, Timeout
    PROVE  IInv'
<1> USE DEF IInv, Types
<1>1. XType' /\ BoundsType' /\ Changed'
  BY DEF Timeout, XType, x, BoundsType, bounds, Changed
<1>2. wait # 0
  BY DEF Timeout, Deadline, Control, Waits
<1>3. ThreadType' /\ WindowsType' /\ rendered' \in BOOLEAN /\ Control'
  BY <1>2, FinishInv DEF Timeout, bounds
<1>4. cutOff' \in BOOLEAN
  BY Zenon DEF Timeout, UnderWay
<1>5. HistoryType'
  BY <1>3, <1>4 DEF Timeout, HistoryType
<1> QED
  BY <1>1, <1>3, <1>5

LEMMA SelectInv ==
    ASSUME IInv, Select
    PROVE  IInv'
<1> USE DEF IInv, Types
<1>1. XType' /\ WindowsType' /\ HistoryType' /\ BoundsType' /\ Changed'
  BY DEF Select, XType, x, WindowsType, windows, HistoryType, history, BoundsType,
         bounds, Changed
<1>2. ThreadType'
  BY DEF Select, ThreadType
<1>3. Control'
  BY DEF Select, windows, bounds, Control, Waits, Counted, OwnText
<1> QED
  BY <1>1, <1>2, <1>3

LEMMA NoMoreEventsInv ==
    ASSUME IInv, NoMoreEvents
    PROVE  IInv'
<1> USE DEF IInv, Types
<1>1. XType' /\ WindowsType' /\ HistoryType' /\ BoundsType' /\ Changed'
  BY DEF NoMoreEvents, XType, x, WindowsType, windows, HistoryType, history, BoundsType,
         bounds, Changed
<1>2. ThreadType'
  BY DEF NoMoreEvents, ThreadType
<1>3. Control'
  BY DEF NoMoreEvents, windows, bounds, Control, Waits, Counted, OwnText
<1> QED
  BY <1>1, <1>2, <1>3

\* What an event that is taken leaves of the queue, and whom the next target is
\* asked of
LEMMA NextEventTypes ==
    ASSUME IInv, NextEvent
    PROVE  /\ XType' /\ BoundsType' /\ Changed'
           /\ UNCHANGED <<eligible, disturbed, cutOff, slipped>>
<1>1. XType /\ Pending \in Seq(Event) /\ Pending # <<>>
  BY PendingType DEF IInv, Types, NextEvent
<1>2. Head(Pending) \in Event /\ Tail(Pending) \in Seq(Event)
  BY <1>1
<1>3. ASSUME Head(Pending) # Noise, ~HasData(Head(Pending)), Head(Pending).target # "STRING"
      PROVE  Fallback[Head(Pending).target] \in Target
  <2>1. Head(Pending).target \in Target
    BY <1>2, <1>3, EventTypes
  <2> QED
    BY <1>3, <2>1 DEF Fallback, Target
<1>4. wire' \in Seq(Target)
  <2>1. CASE wire' = wire
    BY <1>1, <2>1 DEF XType
  <2>2. CASE /\ Head(Pending) # Noise /\ ~HasData(Head(Pending))
             /\ Head(Pending).target # "STRING"
             /\ wire' = Append(wire, Fallback[Head(Pending).target])
    BY <1>1, <1>3, <2>2 DEF XType
  <2> QED
    BY <2>1, <2>2, Zenon DEF NextEvent
<1>5. XType'
  BY <1>1, <1>2, <1>4 DEF NextEvent, XType
<1> QED
  BY <1>5 DEF NextEvent, bounds, BoundsType, Changed, IInv, Types

LEMMA NextEventInv ==
    ASSUME IInv, NextEvent
    PROVE  IInv'
<1> USE DEF IInv, Types
<1>1. /\ XType' /\ BoundsType' /\ Changed'
      /\ UNCHANGED <<eligible, disturbed, cutOff, slipped>>
  BY NextEventTypes
<1>2. UNCHANGED <<size, winOwner, pastes>> /\ pc = "flush"
  BY DEF NextEvent, bounds
<1>3. CASE UNCHANGED <<wait, posted, clip, wpc, result, rendered>> /\ pc' \in {pc, "size"}
  BY <1>1, <1>2, <1>3 DEF ThreadType, WindowsType, HistoryType, Control, Waits, Counted,
                          OwnText
<1>4. CASE /\ UNCHANGED <<posted, clip, wpc, result, rendered>>
           /\ wait # 2
           /\ pc' = IF wait = 1 THEN "sync" ELSE "idle"
           /\ wait' = IF wait = 1 THEN 2 ELSE 0
  BY <1>1, <1>2, <1>4 DEF ThreadType, WindowsType, HistoryType, Control, Waits, Counted,
                          OwnText
<1>5. CASE wait = 2 /\ Finish(Absent) /\ pc' = "idle" /\ posted' = posted + 1
  <2>1. ThreadType' /\ WindowsType' /\ rendered' \in BOOLEAN /\ Control'
    BY <1>2, <1>5, FinishInv
  <2>2. HistoryType'
    BY <1>1, <2>1 DEF HistoryType
  <2> QED
    BY <1>1, <2>1, <2>2
<1> QED
  BY <1>3, <1>4, <1>5, Zenon DEF NextEvent

LEMMA ReadInv ==
    ASSUME IInv, Read
    PROVE  IInv'
<1> USE DEF IInv, Types
<1>1. XType' /\ BoundsType' /\ Changed'
  BY PendingType DEF Read, XType, bounds, BoundsType, Changed
<1>2. CASE wait = 0
  <2>1. ThreadType' /\ WindowsType' /\ HistoryType'
    BY <1>2 DEF Read, ThreadType, WindowsType, HistoryType
  <2>2. Control'
    BY <1>2 DEF Read, bounds, Control, Waits, Counted, OwnText
  <2> QED
    BY <1>1, <2>1, <2>2
<1>3. CASE wait # 0
  <2>1. PICK d \in IF prop = size THEN {prop} ELSE {prop, Torn} : Finish(d)
    BY <1>3 DEF Read
  <2>2. d \in Text \cup {Absent, Torn}
    BY <2>1 DEF XType
  <2>3. ThreadType' /\ WindowsType' /\ rendered' \in BOOLEAN /\ Control'
    BY <1>3, <2>1, <2>2, FinishInv DEF Read, bounds
  <2>4. HistoryType'
    BY <2>3 DEF Read, HistoryType
  <2> QED
    BY <1>1, <2>3, <2>4
<1> QED
  BY <1>2, <1>3

LEMMA PasteCompleteInv ==
    ASSUME IInv, PasteComplete
    PROVE  IInv'
<1> USE DEF IInv, Types
<1>1. XType' /\ BoundsType' /\ Changed'
  BY DEF PasteComplete, XType, x, BoundsType, bounds, Changed
<1>4. WindowsType' /\ HistoryType'
  BY DEF PasteComplete, WindowsType, windows, HistoryType
<1>2. ThreadType'
  BY PasteAssumption DEF PasteComplete, ThreadType
<1>3. Control'
  BY DEF PasteComplete, windows, bounds, Control, Waits, Counted, OwnText, ThreadType,
         BoundsType
<1> QED
  BY <1>1, <1>2, <1>3, <1>4

LEMMA PromiseAnewInv ==
    ASSUME IInv, PromiseAnew
    PROVE  IInv'
<1> USE DEF IInv, Types
<1>1. XType' /\ HistoryType' /\ BoundsType' /\ Changed'
  BY DEF PromiseAnew, XType, x, HistoryType, history, BoundsType, bounds, Changed
<1>2. ThreadType' /\ WindowsType'
  BY DEF PromiseAnew, ThreadType, WindowsType
<1>3. Control'
  BY TextsDiffer DEF PromiseAnew, bounds, Control, Waits, Counted, OwnText
<1> QED
  BY <1>1, <1>2, <1>3

\* The bridge goes on to promise text only where it owned the clipboard when it
\* tested, and nothing but a copy has taken the clipboard from it since.
Tested == pc = "promise" /\ winOwner = "app" => slipped

LEMMA TestedNext ==
    ASSUME IInv, Tested, [Next]_vars
    PROVE  Tested'
<1>1. CASE UNCHANGED <<pc, slipped>> /\ winOwner' \in {winOwner, "bridge"}
  BY <1>1 DEF Tested
<1>2. CASE AppCopy
  BY <1>2 DEF AppCopy, thread, Tested
<1>3. CASE PasteComplete
  BY <1>3 DEF PasteComplete, windows, Tested
<1>4. CASE pc' # "promise"
  BY <1>4 DEF Tested
<1>5. ASSUME Convert PROVE UNCHANGED <<pc, slipped, winOwner>>
  BY <1>5 DEF Convert, thread, windows, history
<1>6. ASSUME ThreadStep PROVE TakeSelection \/ PasteComplete \/ pc' # "promise"
  <2>1. ASSUME NextEvent PROVE pc' # "promise"
    <3>1. pc = "flush" /\ pc' \in {pc, "size", "sync", "idle"}
      BY <2>1, Zenon DEF NextEvent
    <3> QED
      BY <3>1
  <2> QED
    BY <1>6, <2>1 DEF ThreadStep, Render, Sync, RoundTrip, Timeout, Select, NoMoreEvents,
                      ReadSize, Read, PromiseAnew
<1>7. ASSUME TakeSelection PROVE UNCHANGED <<pc, slipped, winOwner>>
  BY <1>7 DEF TakeSelection, thread, windows
<1>8. ASSUME ClientStep PROVE UNCHANGED <<pc, slipped>> /\ winOwner' \in {winOwner, "bridge"}
  BY <1>8 DEF ClientStep, Claim, Reselect, Vanish, Respond, OtherEvent, thread, windows, history
<1>9. ASSUME ProgramStep PROVE AppCopy \/ UNCHANGED <<pc, slipped, winOwner>>
  BY <1>9 DEF ProgramStep, OpenClipboard, GetClipboardData, CloseClipboard, thread, history
<1>10. ASSUME UNCHANGED vars PROVE UNCHANGED <<pc, slipped, winOwner>>
  BY <1>10 DEF vars, thread, windows, history
<1> QED
  BY <1>1, <1>2, <1>3, <1>4, <1>5, <1>6, <1>7, <1>8, <1>9, <1>10 DEF Next

\* Which steps can take a program's text off the clipboard
LEMMA CopyStays ==
    ASSUME IInv, Tested, Next, clip = AppText, clip' # AppText
    PROVE  slipped \/ \E c \in Client : Claim(c)
<1>1. winOwner = "app" /\ wpc # "wait"
  BY DEF IInv, Control, OwnText, Waits
<1>2. wait = 0
  BY <1>1 DEF IInv, Control, Waits
<1>3. ~Convert
  BY DEF Convert, windows
<1>4. ASSUME ThreadStep PROVE slipped
  <2>1. ~TakeSelection /\ ~Render /\ ~Sync /\ ~Select /\ ~NoMoreEvents /\ ~ReadSize
        /\ ~PasteComplete
    BY DEF TakeSelection, Render, Sync, Select, NoMoreEvents, ReadSize, PasteComplete, windows
  <2>2. ~Timeout /\ ~Read
    BY <1>2 DEF Timeout, Deadline, Read, IInv, Control, Waits
  <2>3. ~NextEvent
    BY <1>2 DEF NextEvent
  <2>4. ASSUME PromiseAnew PROVE slipped
    BY <1>1, <2>4 DEF PromiseAnew, Tested
  <2> QED
    BY <1>4, <2>1, <2>2, <2>3, <2>4, Zenon DEF ThreadStep
<1>5. ASSUME ClientStep PROVE \E c \in Client : Claim(c)
  BY <1>5 DEF ClientStep, Reselect, Vanish, Respond, OtherEvent, windows
<1>6. ~ProgramStep
  BY DEF ProgramStep, OpenClipboard, GetClipboardData, CloseClipboard, AppCopy
<1> QED
  BY <1>3, <1>4, <1>5, <1>6, Zenon DEF Next

(***************************************************************************)
(* The theorems                                                            *)
(***************************************************************************)
LEMMA InitInv == Init => IInv
<1> SUFFICES ASSUME Init PROVE IInv
  OBVIOUS
<1>1. XType
  BY PasteAssumption DEF Init, XType
<1>2. ThreadType
  BY PasteAssumption DEF Init, ThreadType
<1>4. WindowsType
  BY DEF Init, WindowsType
<1>5. HistoryType
  BY DEF Init, HistoryType
<1>6. BoundsType
  BY PasteAssumption DEF Init, BoundsType
<1>3. Control /\ Changed
  BY TextsDiffer DEF Init, Control, Waits, Counted, OwnText, Changed
<1> QED
  BY <1>1, <1>2, <1>3, <1>4, <1>5, <1>6 DEF IInv, Types

LEMMA NextInv == IInv /\ [Next]_vars => IInv'
<1> SUFFICES ASSUME IInv, [Next]_vars PROVE IInv'
  OBVIOUS
<1>1. CASE Convert
  BY <1>1, ConvertInv
<1>2. CASE ThreadStep
  BY <1>2, TakeSelectionInv, RenderInv, SyncInv, TimeoutInv, SelectInv, NextEventInv,
     NoMoreEventsInv, ReadSizeInv, ReadInv, PasteCompleteInv, PromiseAnewInv, Zenon DEF ThreadStep
<1>3. CASE ClientStep
  BY <1>3, ClaimInv, ReselectInv, VanishInv, RespondInv, OtherEventInv, Zenon
     DEF ClientStep
<1>4. CASE ProgramStep
  BY <1>4, OpenClipboardInv, GetClipboardDataInv, CloseClipboardInv, AppCopyInv, Zenon
     DEF ProgramStep
<1>5. CASE UNCHANGED vars
  <2>1. XType' /\ ThreadType' /\ WindowsType' /\ HistoryType' /\ BoundsType'
    BY <1>5 DEF vars, x, thread, windows, history, bounds, XType, ThreadType, WindowsType,
                HistoryType, BoundsType, IInv, Types
  <2>2. Control' /\ Changed'
    BY <1>5 DEF vars, x, thread, windows, bounds, Control, Waits, Counted,
                OwnText, Changed, IInv
  <2> QED
    BY <2>1, <2>2 DEF IInv, Types
<1> QED
  BY <1>1, <1>2, <1>3, <1>4, <1>5, Zenon DEF Next

LEMMA Invariance == Spec => []IInv
BY InitInv, NextInv, PTL DEF Spec

\* Every variable keeps its type: above all, no more WM_USER_PASTE_COMPLETE
\* messages ever wait than there were pastes.
THEOREM TypeCorrect == Spec => []TypeOK
<1>1. IInv => TypeOK
  BY Parts, Zenon DEF IInv
<1> QED
  BY <1>1, Invariance, PTL

\* What a program copied stays on the clipboard until a client takes the selection:
\* no rendering that ends, no wait that times out and no WM_USER_PASTE_COMPLETE
\* throws it away, but for a copy that slips in between the test of that message's
\* handler and its EmptyClipboard.
THEOREM OthersDataCorrect == Spec => OthersDataStays
<1>1. Init => Tested
  BY DEF Init, Tested
<1>2. IInv /\ Tested /\ [Next]_vars => Tested'
  BY TestedNext
<1>3. IInv /\ Tested /\ [Next]_vars
        => [clip = AppText /\ clip' # AppText
              => slipped \/ \E c \in Client : Claim(c)]_vars
  BY CopyStays, Zenon
<1> QED
  BY <1>1, <1>2, <1>3, Invariance, PTL DEF Spec, OthersDataStays
==============================================================================
