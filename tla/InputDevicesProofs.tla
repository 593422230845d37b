-------------------------- MODULE InputDevicesProofs --------------------------
(***************************************************************************)
(* Theorems about the input devices, for any keys, gamepads, fingers,      *)
(* points, layouts and length of the queue.                                *)
(*                                                                         *)
(* The properties speak of moments when all events have been handled.  The *)
(* invariant says for every moment what the events that are still queued   *)
(* will make of the program's state: the last event of a button, a gamepad *)
(* or a finger agrees with the device.                                     *)
(***************************************************************************)
EXTENDS InputDevices, TLAPS

Queued == 1..Len(queue)

\* Event i is of a key that stands for b; of finger f.
KeyTypes       == {"key down", "key up"}
OfBit(i, b)    == queue[i].type \in KeyTypes /\ KeyBit[queue[i].key] = b
FingerTypes    == {"finger down", "finger motion", "finger up", "finger canceled"}
OfFinger(i, f) == queue[i].type \in FingerTypes /\ queue[i].finger = f

\* Nothing comes for b, for f, after event i.
LastOfBit(i, b)    == \A j \in Queued : i < j => ~OfBit(j, b)
LastOfFinger(i, f) == \A j \in Queued : i < j => ~OfFinger(j, f)

KeyInv ==
  /\ \A i \in Queued : queue[i].type = "key down" /\ LastOfBit(i, KeyBit[queue[i].key])
       => queue[i].key \in held
  /\ \A b \in kb : LastOfBit(0, b) => b \in KeysHeld

PadInv ==
  /\ pad # NoPad => \/ plugged[pad] = "in"
                    \/ \E i \in Queued : queue[i].type = "removed" /\ queue[i].which = pad
  /\ \A i \in Queued : queue[i].type = "removed" => plugged[queue[i].which] = "out"
  /\ \A p \in Connected :
       p \in passed \/ p = pad \/ \E i \in Queued : queue[i].type = "added" /\ queue[i].which = p

\* Where the finger of event e is after it.
Where(e) == IF e.type = "finger up" THEN Nowhere ELSE e.to

Moving(f) == joy.active /\ joy.finger = f

\* A finger comes down only after it was lifted: before event j, the last event
\* of f, or what has been handled (i = 0), left it off the screen.
Lifted(i, f) == i # 0 /\ queue[i].type = "finger up"

TouchInv ==
  /\ \A i \in Queued, f \in Fingers \ lost : OfFinger(i, f) =>
       /\ queue[i].type # "finger canceled"
       /\ LastOfFinger(i, f) => at[f] = Where(queue[i])
  /\ \A f \in Fingers \ lost : Moving(f) /\ LastOfFinger(0, f) =>
       at[f] # Nowhere /\ stick \subseteq Pushed(Pixels(at[f]))
  /\ ~joy.active => stick = {}
  /\ \A j \in Queued, f \in Fingers \ lost : OfFinger(j, f) /\ queue[j].type = "finger down" =>
       \A i \in 0..j - 1 :
         /\ IF i = 0 THEN Moving(f) ELSE OfFinger(i, f)
         /\ \A k \in Queued : i < k /\ k < j => ~OfFinger(k, f)
         => Lifted(i, f)

IInv == TypeOK /\ KeyInv /\ PadInv /\ TouchInv

-------------------------------------------------------------------------------
(***************************************************************************)
(* The queue.                                                              *)
(***************************************************************************)
LEMMA Appended ==
  ASSUME queue \in Seq(Events), NEW e \in Events, Event(e)
  PROVE  /\ queue' \in Seq(Events)
         /\ Len(queue) \in Nat /\ Len(queue') = Len(queue) + 1
         /\ queue'[Len(queue) + 1] = e
         /\ \A i \in Queued : i \in Queued' /\ queue'[i] = queue[i]
         /\ \A i \in Queued' : i \in Queued \/ i = Len(queue) + 1
         /\ Len(queue) + 1 \in Queued' /\ Len(queue) + 1 \in Nat
         /\ \A i \in Queued \union {0} : i \in Nat /\ i < Len(queue) + 1
         /\ \A j \in Queued' : \A i \in 0..j - 1 : i # 0 => i \in Queued
         /\ \A i \in Queued : queue[i] \in Events
<1>1. /\ queue' \in Seq(Events)
      /\ Len(queue) \in Nat /\ Len(queue') = Len(queue) + 1
      /\ queue'[Len(queue) + 1] = e
      /\ \A i \in 1..Len(queue) : queue'[i] = queue[i]
  BY DEF Event
<1>2. \A i \in 1..Len(queue) : i \in 1..Len(queue')
  BY <1>1
<1>3. \A i \in 1..Len(queue') : i \in 1..Len(queue) \/ i = Len(queue) + 1
  BY <1>1
<1>4. /\ Len(queue) + 1 \in 1..Len(queue') /\ Len(queue) + 1 \in Nat
      /\ \A i \in 1..Len(queue) \union {0} : i \in Nat /\ i < Len(queue) + 1
      /\ \A j \in 1..Len(queue') : \A i \in 0..j - 1 : i # 0 => i \in 1..Len(queue)
  BY <1>1
<1>5. \A i \in 1..Len(queue) : queue[i] \in Events
  OBVIOUS
<1> QED BY <1>1, <1>2, <1>3, <1>4, <1>5 DEF Queued

LEMMA Taken ==
  ASSUME queue \in Seq(Events), queue # <<>>, queue' = Tail(queue)
  PROVE  /\ queue' \in Seq(Events)
         /\ Len(queue) \in Nat \ {0} /\ Len(queue') = Len(queue) - 1
         /\ 1 \in Queued /\ Head(queue) = queue[1] /\ queue[1] \in Events
         /\ \A i \in Queued' : i + 1 \in Queued /\ queue'[i] = queue[i + 1]
BY DEF Queued

LEMMA EventFacts ==
  ASSUME NEW e \in Events
  PROVE  /\ e.type \in KeyTypes => e.key \in Keys
         /\ e.type \in {"added", "removed"} => e.which \in Pads
         /\ e.type \in FingerTypes => e.finger \in Fingers
         /\ e.type \in {"finger down", "finger motion"} => e.to \in Points
         /\ e.type \in KeyTypes \union {"added", "removed"} \union FingerTypes
BY DEF Events, KeyTypes, FingerTypes

LEMMA PointFacts ==
  ASSUME NEW x \in Points, layout \in Layouts
  PROVE  x # Nowhere /\ Pixels(x) \in Int \X Int
<1>1. /\ x \in (0..100) \X (0..100) /\ layout \in Nat \X Nat
      /\ x[1] \in 0..100 /\ x[2] \in 0..100 /\ layout[1] \in Nat /\ layout[2] \in Nat
  BY InputAssumption
<1>2. x # Nowhere
  BY <1>1 DEF Nowhere
<1>3. x[1] * layout[1] \in Nat /\ x[2] * layout[2] \in Nat
  BY <1>1
<1>4. (x[1] * layout[1]) \div 100 \in Int /\ (x[2] * layout[2]) \div 100 \in Int
  BY <1>3
<1> QED BY <1>2, <1>4 DEF Pixels

-------------------------------------------------------------------------------
(***************************************************************************)
(* The parts of the invariant that a device event leaves alone: it comes   *)
(* last in the queue and its kind is another.                              *)
(***************************************************************************)
LEMMA KeysUntouched ==
  ASSUME queue \in Seq(Events), KeyInv, NEW e \in Events, Event(e),
         e.type \notin KeyTypes, held' = held, kb' = kb
  PROVE  KeyInv'
<1>0. Len(queue) \in Nat /\ Len(queue') = Len(queue) + 1 /\ queue'[Len(queue) + 1] = e
  BY Appended
<1>1. \A i \in Queued' : i \in Queued \/ i = Len(queue) + 1
  BY Appended
<1>2. \A i \in Queued : i \in Queued' /\ queue'[i] = queue[i]
  BY Appended
<1>3. \A i \in Nat : \A b : LastOfBit(i, b)' => LastOfBit(i, b)
  BY <1>2 DEF LastOfBit, OfBit
<1>4. \A b \in kb' : LastOfBit(0, b)' => b \in KeysHeld'
  BY <1>3 DEF KeyInv, KeysHeld
<1>5. \A i \in Queued' : queue'[i].type = "key down" => i \in Queued /\ i \in Nat
  <2>1. \A i \in Queued : i \in Nat
    BY <1>0 DEF Queued
  <2>2. e.type # "key down"
    BY DEF KeyTypes
  <2> QED BY <1>1, <1>0, <2>1, <2>2
<1>6. \A i \in Queued' : queue'[i].type = "key down" /\ LastOfBit(i, KeyBit[queue[i].key])'
        => queue'[i].key \in held'
  BY <1>2, <1>3, <1>5 DEF KeyInv
<1> QED BY <1>4, <1>6 DEF KeyInv

LEMMA PadsUntouched ==
  ASSUME queue \in Seq(Events), PadInv, NEW e \in Events, Event(e),
         e.type # "removed", UNCHANGED <<plugged, pad, passed>>
  PROVE  PadInv'
<1>0. Len(queue) \in Nat /\ Len(queue') = Len(queue) + 1 /\ queue'[Len(queue) + 1] = e
  BY Appended
<1>1. \A i \in Queued' : i \in Queued \/ i = Len(queue) + 1
  BY Appended
<1>2. \A i \in Queued : i \in Queued' /\ queue'[i] = queue[i]
  BY Appended
<1> QED BY <1>1, <1>2, <1>0 DEF PadInv, Connected

LEMMA TouchUntouched ==
  ASSUME queue \in Seq(Events), TouchInv, NEW e \in Events, Event(e),
         e.type \notin FingerTypes, UNCHANGED <<at, lost, joy, stick, layout>>
  PROVE  TouchInv'
<1>0. Len(queue) \in Nat /\ Len(queue') = Len(queue) + 1 /\ queue'[Len(queue) + 1] = e
  BY Appended
<1>1. \A i \in Queued' : i \in Queued \/ i = Len(queue) + 1
  BY Appended
<1>2. \A i \in Queued : i \in Queued' /\ queue'[i] = queue[i]
  BY Appended
<1>3. \A i \in Queued' : \A f : OfFinger(i, f)' => i \in Queued /\ OfFinger(i, f)
  BY <1>1, <1>2, <1>0 DEF OfFinger
<1>4. \A i \in Queued : \A f : OfFinger(i, f) <=> OfFinger(i, f)'
  BY <1>2 DEF OfFinger
<1>5. \A i, f : LastOfFinger(i, f)' => LastOfFinger(i, f)
  BY <1>2, <1>4 DEF LastOfFinger
<1> DEFINE Before(i, j, f) == \A k \in Queued : i < k /\ k < j => ~OfFinger(k, f)
<1>6. \A i, j, f : Before(i, j, f)' => Before(i, j, f)
  BY <1>2, <1>4
<1>7. ASSUME NEW i \in Queued', NEW f \in Fingers \ lost, OfFinger(i, f)'
      PROVE  /\ queue'[i].type # "finger canceled"
             /\ LastOfFinger(i, f)' => at[f] = Where(queue'[i])
  BY <1>2, <1>3, <1>5, <1>7 DEF TouchInv
<1>8. ASSUME NEW j \in Queued', NEW f \in Fingers \ lost, OfFinger(j, f)',
             queue'[j].type = "finger down", NEW i \in 0..j - 1,
             IF i = 0 THEN Moving(f) ELSE OfFinger(i, f)', Before(i, j, f)'
      PROVE  Lifted(i, f)'
  <2>1. j \in Queued /\ OfFinger(j, f) /\ queue[j].type = "finger down"
    BY <1>2, <1>3, <1>8
  <2>2. i # 0 => i \in Queued
    BY Appended
  <2>3. IF i = 0 THEN Moving(f) ELSE OfFinger(i, f)
    BY <1>4, <1>8, <2>2
  <2>4. Before(i, j, f)
    BY <1>6, <1>8
  <2>5. Lifted(i, f)
    BY <2>1, <2>3, <2>4 DEF TouchInv
  <2> QED BY <1>2, <2>2, <2>5 DEF Lifted
<1>9. \A f \in Fingers \ lost : Moving(f) /\ LastOfFinger(0, f)' =>
        at[f] # Nowhere /\ stick \subseteq Pushed(Pixels(at[f]))
  BY <1>5 DEF TouchInv
<1>10. Moving(joy.finger)' = Moving(joy.finger) /\ \A f : Moving(f)' = Moving(f) /\ Pushed(Pixels(at[f]))' = Pushed(Pixels(at[f]))
  BY DEF Moving, Pushed, Pixels
<1> QED BY <1>7, <1>8, <1>9, <1>10 DEF TouchInv

-------------------------------------------------------------------------------
(***************************************************************************)
(* The part of the invariant that a device event is about.                 *)
(***************************************************************************)
LEMMA KeyPressed ==
  ASSUME TypeOK, KeyInv, NEW k \in Keys, NEW t \in KeyTypes, NEW e \in Events,
         e.type = t, e.key = k, Event(e),
         held' = IF t = "key down" THEN held \union {k} ELSE held \ {k}, kb' = kb
  PROVE  KeyInv'
<1>0. /\ queue \in Seq(Events) /\ Len(queue) \in Nat
      /\ queue'[Len(queue) + 1] = e /\ Len(queue') = Len(queue) + 1
  BY Appended DEF TypeOK
<1> PICK n \in Nat : n = Len(queue) + 1
  BY <1>0, Appended
<1>1. \A i \in Queued' : i \in Queued \/ i = n
  BY <1>0, Appended
<1>2. \A i \in Queued : i \in Queued' /\ queue'[i] = queue[i]
  BY <1>0, Appended
<1>3. n \in Queued' /\ \A i \in Queued \union {0} : i < n
  BY <1>0, Appended
<1>5. \A i \in Queued \union {0} : \A b : LastOfBit(i, b)' => LastOfBit(i, b) /\ b # KeyBit[k]
  <2> SUFFICES ASSUME NEW i \in Queued \union {0}, NEW b, LastOfBit(i, b)'
               PROVE  LastOfBit(i, b) /\ b # KeyBit[k]
    OBVIOUS
  <2>1. i < n
    BY <1>3
  <2>2. ~OfBit(n, b)'
    BY <2>1, <1>3 DEF LastOfBit
  <2>3. b # KeyBit[k]
    BY <2>2, <1>0 DEF OfBit
  <2>4. LastOfBit(i, b)
    BY <1>2 DEF LastOfBit, OfBit
  <2> QED BY <2>3, <2>4
<1>6. ASSUME NEW b \in kb, LastOfBit(0, b)' PROVE b \in KeysHeld'
  <2>1. b \in KeysHeld /\ b # KeyBit[k]
    BY <1>5, <1>6 DEF KeyInv
  <2>2. PICK q \in held : b = KeyBit[q]
    BY <2>1 DEF KeysHeld
  <2>3. q \in held'
    BY <2>1, <2>2
  <2> QED BY <2>2, <2>3 DEF KeysHeld
<1>7. ASSUME NEW i \in Queued', queue'[i].type = "key down", LastOfBit(i, KeyBit[queue[i].key])'
      PROVE  queue'[i].key \in held'
  <2>1. CASE i \in Queued
    <3>1. queue[i].key \in held /\ KeyBit[queue[i].key] # KeyBit[k]
      BY <1>2, <1>5, <1>7, <2>1 DEF KeyInv
    <3> QED BY <3>1, <1>2, <2>1
  <2>2. CASE i = n
    BY <2>2, <1>0, <1>7
  <2> QED BY <1>1, <2>1, <2>2
<1> QED BY <1>6, <1>7 DEF KeyInv

LEMMA PadPulled ==
  ASSUME TypeOK, PadInv, NEW p \in Pads, PullOut(p)
  PROVE  PadInv'
<1> DEFINE e == [type |-> "removed", which |-> p]
<1>0. e \in Events /\ Event(e) /\ queue \in Seq(Events)
  BY DEF PullOut, Events, TypeOK
<1>1. /\ queue'[Len(queue) + 1] = e /\ Len(queue) \in Nat /\ Len(queue') = Len(queue) + 1
      /\ \A i \in Queued' : i \in Queued \/ i = Len(queue) + 1
      /\ \A i \in Queued : i \in Queued' /\ queue'[i] = queue[i]
  BY <1>0, Appended
<1>2. Len(queue) + 1 \in Queued'
  BY <1>1 DEF Queued
<1>3. plugged' = [plugged EXCEPT ![p] = "out"] /\ UNCHANGED <<pad, passed>>
  BY DEF PullOut, program
<1>4. e.type = "removed" /\ e.which = p
  OBVIOUS
<1> HIDE DEF e
<1>5. pad' # NoPad => \/ plugged'[pad'] = "in"
                      \/ \E i \in Queued' : queue'[i].type = "removed" /\ queue'[i].which = pad'
  <2>1. CASE pad = p
    BY <2>1, <1>1, <1>2, <1>3, <1>4
  <2>2. CASE pad # p
    BY <2>2, <1>1, <1>3 DEF PadInv, TypeOK
  <2> QED BY <2>1, <2>2
<1>6. \A i \in Queued' : queue'[i].type = "removed" => plugged'[queue'[i].which] = "out"
  BY <1>1, <1>3, <1>4 DEF PadInv, TypeOK
<1>7. \A q \in Connected' :
        q \in passed' \/ q = pad' \/ \E i \in Queued' : queue'[i].type = "added" /\ queue'[i].which = q
  <2> SUFFICES ASSUME NEW q \in Connected'
               PROVE  q \in passed \/ q = pad \/ \E i \in Queued' : queue'[i].type = "added" /\ queue'[i].which = q
    BY <1>3
  <2>1. q \in Connected
    BY <1>3 DEF Connected, TypeOK
  <2> QED BY <2>1, <1>1 DEF PadInv
<1> QED BY <1>5, <1>6, <1>7 DEF PadInv

LEMMA PadPlugged ==
  ASSUME TypeOK, PadInv, NEW p \in Pads, PlugIn(p)
  PROVE  PadInv'
<1> DEFINE e == [type |-> "added", which |-> p]
<1>0. e \in Events /\ Event(e) /\ queue \in Seq(Events)
  BY DEF PlugIn, Events, TypeOK
<1>1. /\ queue'[Len(queue) + 1] = e /\ Len(queue) \in Nat /\ Len(queue') = Len(queue) + 1
      /\ \A i \in Queued' : i \in Queued \/ i = Len(queue) + 1
      /\ \A i \in Queued : i \in Queued' /\ queue'[i] = queue[i]
  BY <1>0, Appended
<1>2. Len(queue) + 1 \in Queued'
  BY <1>1 DEF Queued
<1>3. plugged[p] = "new" /\ plugged' = [plugged EXCEPT ![p] = "in"] /\ UNCHANGED <<pad, passed>>
  BY DEF PlugIn, program
<1>4. e.type = "added" /\ e.which = p
  OBVIOUS
<1> HIDE DEF e
<1>5. pad' # NoPad => \/ plugged'[pad'] = "in"
                      \/ \E i \in Queued' : queue'[i].type = "removed" /\ queue'[i].which = pad'
  BY <1>1, <1>3 DEF PadInv, TypeOK
<1>6. \A i \in Queued' : queue'[i].type = "removed" => plugged'[queue'[i].which] = "out"
  <2> SUFFICES ASSUME NEW i \in Queued', queue'[i].type = "removed"
               PROVE  plugged'[queue'[i].which] = "out"
    OBVIOUS
  <2>1. i \in Queued /\ queue'[i] = queue[i]
    BY <1>1, <1>4
  <2>2. plugged[queue[i].which] = "out"
    BY <2>1 DEF PadInv
  <2> QED BY <2>1, <2>2, <1>3 DEF TypeOK
<1>7. \A q \in Connected' :
        q \in passed' \/ q = pad' \/ \E i \in Queued' : queue'[i].type = "added" /\ queue'[i].which = q
  <2> SUFFICES ASSUME NEW q \in Connected'
               PROVE  q \in passed \/ q = pad \/ \E i \in Queued' : queue'[i].type = "added" /\ queue'[i].which = q
    BY <1>3
  <2>1. CASE q = p
    BY <2>1, <1>1, <1>2, <1>4
  <2>2. CASE q # p
    <3>1. q \in Connected
      BY <2>2, <1>3 DEF Connected, TypeOK
    <3> QED BY <3>1, <1>1 DEF PadInv
  <2> QED BY <2>1, <2>2
<1> QED BY <1>5, <1>6, <1>7 DEF PadInv

(***************************************************************************)
(* A finger acts and where it then is agrees with its event.  It comes     *)
(* down only where it was not, which its last event, or the joystick if it *)
(* has none, agrees with.                                                  *)
(***************************************************************************)
LEMMA FingerActs ==
  ASSUME TypeOK, TouchInv, NEW f \in Fingers, NEW e \in Events, Event(e),
         e.type \in FingerTypes, e.finger = f,
         e.type = "finger down" => at[f] = Nowhere,
         e.type = "finger canceled" => f \in lost',
         e.type # "finger canceled" => at'[f] = Where(e),
         \A g \in Fingers \ {f} : at'[g] = at[g],
         lost \subseteq lost', UNCHANGED <<joy, stick, layout>>
  PROVE  TouchInv'
<1>0. /\ queue \in Seq(Events) /\ Len(queue) \in Nat
      /\ queue'[Len(queue) + 1] = e /\ Len(queue') = Len(queue) + 1
  BY Appended DEF TypeOK
<1> PICK n \in Nat : n = Len(queue) + 1
  BY <1>0, Appended
<1>1. \A i \in Queued' : i \in Queued \/ i = n
  BY <1>0, Appended
<1>2. \A i \in Queued : i \in Queued' /\ queue'[i] = queue[i]
  BY <1>0, Appended
<1>3. n \in Queued' /\ \A i \in Queued \union {0} : i < n
  BY <1>0, Appended
<1>4. OfFinger(n, f)' /\ \A g : OfFinger(n, g)' => g = f
  BY <1>0 DEF OfFinger
<1>5. \A i \in Queued : \A g : OfFinger(i, g)' <=> OfFinger(i, g)
  BY <1>2 DEF OfFinger
<1>6. \A i \in Queued \union {0} : ~LastOfFinger(i, f)'
  BY <1>3, <1>4 DEF LastOfFinger
<1>7. \A i, g : LastOfFinger(i, g)' => LastOfFinger(i, g)
  BY <1>2, <1>5 DEF LastOfFinger
<1> DEFINE Before(i, j, g) == \A k \in Queued : i < k /\ k < j => ~OfFinger(k, g)
<1>8. \A i, j, g : Before(i, j, g)' => Before(i, j, g)
  BY <1>2, <1>5
<1>9. \A g : Moving(g)' = Moving(g) /\ (Pushed(Pixels(at[g])))' = Pushed(Pixels(at'[g]))
  <2>1. joy' = joy /\ layout' = layout
    OBVIOUS
  <2>2. \A q : Pushed(q)' = Pushed(q)
    BY <2>1 DEF Pushed
  <2>3. \A x : Pixels(x)' = Pixels(x)
    BY <2>1 DEF Pixels
  <2> QED BY <2>1, <2>2, <2>3 DEF Moving
<1>10. ASSUME NEW i \in Queued', NEW g \in Fingers \ lost', OfFinger(i, g)'
       PROVE  /\ queue'[i].type # "finger canceled"
              /\ LastOfFinger(i, g)' => at'[g] = Where(queue'[i])
  <2>1. CASE i = n
    BY <2>1, <1>0, <1>4, <1>10
  <2>2. CASE i \in Queued
    <3>1. /\ queue[i].type # "finger canceled"
          /\ LastOfFinger(i, g) => at[g] = Where(queue[i])
      BY <2>2, <1>5, <1>10 DEF TouchInv
    <3>2. CASE g = f
      BY <3>1, <3>2, <2>2, <1>2, <1>6
    <3>3. CASE g # f
      BY <3>1, <3>3, <2>2, <1>2, <1>7, <1>10
    <3> QED BY <3>2, <3>3
  <2> QED BY <1>1, <2>1, <2>2
<1>11. ASSUME NEW g \in Fingers \ lost', Moving(g), LastOfFinger(0, g)'
       PROVE  at'[g] # Nowhere /\ stick \subseteq Pushed(Pixels(at'[g]))
  BY <1>6, <1>7, <1>11 DEF TouchInv
<1>12. ASSUME NEW j \in Queued', NEW g \in Fingers \ lost', OfFinger(j, g)',
              queue'[j].type = "finger down", NEW i \in 0..j - 1,
              IF i = 0 THEN Moving(g) ELSE OfFinger(i, g)', Before(i, j, g)'
       PROVE  Lifted(i, g)'
  <2>1. j \in Queued \/ j = n
    BY <1>1
  <2>2. i # 0 => i \in Queued
    BY <1>0, Appended
  <2>3. IF i = 0 THEN Moving(g) ELSE OfFinger(i, g)
    BY <1>5, <1>12, <2>2
  <2>4. Before(i, j, g)
    BY <1>8, <1>12
  <2>5. g \in Fingers \ lost
    OBVIOUS
  <2>6. CASE j \in Queued
    <3>1. OfFinger(j, g) /\ queue[j].type = "finger down"
      BY <2>6, <1>2, <1>5, <1>12
    <3>2. Lifted(i, g)
      BY <2>3, <2>4, <2>5, <2>6, <3>1 DEF TouchInv
    <3> QED BY <1>2, <2>2, <3>2 DEF Lifted
  <2>7. CASE j = n
    <3>1. g = f /\ at[f] = Nowhere
      BY <2>7, <1>0, <1>4, <1>12
    <3>2. LastOfFinger(i, f)
      <4>1. \A k \in Queued : k < n
        BY <1>3
      <4> QED BY <4>1, <3>1, <2>4, <2>7 DEF LastOfFinger
    <3>3. i # 0
      BY <2>3, <2>5, <3>1, <3>2 DEF TouchInv
    <3>4. at[f] = Where(queue[i]) /\ queue[i].type # "finger canceled" /\ OfFinger(i, f)
      BY <2>2, <2>3, <2>5, <3>1, <3>2, <3>3 DEF TouchInv
    <3>5. queue[i] \in Events
      BY <2>2, <3>3, <1>0, Appended
    <3>6. queue[i].type = "finger up"
      <4>1. queue[i].type # "finger up" => queue[i].to \in Points
        BY <3>4, <3>5, EventFacts DEF OfFinger, FingerTypes
      <4>2. queue[i].type # "finger up" => queue[i].to # Nowhere
        BY <4>1, PointFacts DEF TypeOK
      <4> QED BY <4>2, <3>1, <3>4 DEF Where
    <3> QED BY <3>3, <3>6, <2>2, <1>2 DEF Lifted
  <2> QED BY <2>1, <2>6, <2>7
<1> QED BY <1>9, <1>10, <1>11, <1>12 DEF TouchInv

-------------------------------------------------------------------------------
(***************************************************************************)
(* The program handles the oldest event.                                   *)
(***************************************************************************)
LEMMA Handled ==
  ASSUME TypeOK, HandleEvent
  PROVE  /\ Queued = {1} \union {i + 1 : i \in Queued'}
         /\ \A i \in Queued' : i \in Nat \ {0} /\ i + 1 \in Queued /\ queue'[i] = queue[i + 1]
         /\ 1 \in Queued /\ Head(queue) = queue[1] /\ queue[1] \in Events
         /\ queue' \in Seq(Events)
<1>1. queue \in Seq(Events) /\ queue # <<>> /\ queue' = Tail(queue)
  BY DEF TypeOK, HandleEvent
<1>2. /\ Len(queue) \in Nat \ {0} /\ Len(queue') = Len(queue) - 1
      /\ 1 \in Queued /\ Head(queue) = queue[1] /\ queue[1] \in Events /\ queue' \in Seq(Events)
      /\ \A i \in Queued' : i + 1 \in Queued /\ queue'[i] = queue[i + 1]
  BY <1>1, Taken
<1>3. \A n \in Nat \ {0} : 1..n = {1} \union {i + 1 : i \in 1..n - 1}
  <2> SUFFICES ASSUME NEW n \in Nat \ {0} PROVE 1..n = {1} \union {i + 1 : i \in 1..n - 1}
    OBVIOUS
  <2>1. ASSUME NEW i \in 1..n PROVE i \in {1} \union {k + 1 : k \in 1..n - 1}
    <3>1. i = 1 \/ (i - 1 \in 1..n - 1 /\ i = (i - 1) + 1)
      OBVIOUS
    <3> QED BY <3>1
  <2>2. ASSUME NEW i \in {1} \union {k + 1 : k \in 1..n - 1} PROVE i \in 1..n
    <3>1. i = 1 \/ \E k \in 1..n - 1 : i = k + 1
      OBVIOUS
    <3> QED BY <3>1
  <2> QED BY <2>1, <2>2
<1>4. \A i \in 1..Len(queue) - 1 : i \in Nat \ {0}
  BY <1>2
<1>5. 1..Len(queue) = {1} \union {i + 1 : i \in 1..Len(queue) - 1}
  BY <1>2, <1>3
<1> QED BY <1>2, <1>4, <1>5 DEF Queued

LEMMA KeyHandled ==
  ASSUME TypeOK, KeyInv, HandleEvent
  PROVE  KeyInv'
<1> DEFINE e == queue[1]
<1>1. /\ Queued = {1} \union {i + 1 : i \in Queued'}
      /\ \A i \in Queued' : i \in Nat \ {0} /\ i + 1 \in Queued /\ queue'[i] = queue[i + 1]
      /\ 1 \in Queued /\ e \in Events
  BY Handled
<1>2. held' = held /\ KeyboardEvent(e)
  BY Handled DEF HandleEvent, devices
<1>3. \A i \in Queued' : \A b : OfBit(i, b)' <=> OfBit(i + 1, b)
  BY <1>1 DEF OfBit
<1>4. ASSUME NEW i \in Queued' \union {0}, NEW b, LastOfBit(i, b)' PROVE LastOfBit(i + 1, b)
  <2> SUFFICES ASSUME NEW j \in Queued, i + 1 < j PROVE ~OfBit(j, b)
    BY DEF LastOfBit
  <2>1. PICK m \in Queued' : j = m + 1
    BY <1>1
  <2>2. i < m
    BY <2>1, <1>1
  <2> QED BY <2>1, <2>2, <1>3, <1>4 DEF LastOfBit
<1>5. ASSUME NEW i \in Queued', queue'[i].type = "key down", LastOfBit(i, KeyBit[queue[i].key])'
      PROVE  queue'[i].key \in held'
  BY <1>1, <1>2, <1>4, <1>5 DEF KeyInv
<1>6. ASSUME NEW b \in kb', LastOfBit(0, b)' PROVE b \in KeysHeld'
  <2>1. LastOfBit(1, b)
    BY <1>4, <1>6
  <2>2. CASE e.type = "key down" /\ b = KeyBit[e.key]
    <3>1. e.key \in held
      BY <2>1, <2>2, <1>1 DEF KeyInv
    <3> QED BY <3>1, <2>2, <1>2 DEF KeysHeld
  <2>3. CASE ~(e.type = "key down" /\ b = KeyBit[e.key])
    <3>1. b \in kb /\ ~OfBit(1, b)
      BY <2>3, <1>2, <1>6 DEF KeyboardEvent, SetBit, OfBit, KeyTypes
    <3>2. LastOfBit(0, b)
      <4> SUFFICES ASSUME NEW j \in Queued PROVE ~OfBit(j, b)
        BY DEF LastOfBit
      <4>1. j = 1 \/ 1 < j
        BY <1>1
      <4> QED BY <4>1, <3>1, <2>1 DEF LastOfBit
    <3> QED BY <3>1, <3>2, <1>2 DEF KeyInv, KeysHeld
  <2> QED BY <2>2, <2>3
<1> QED BY <1>5, <1>6 DEF KeyInv

LEMMA PadHandled ==
  ASSUME TypeOK, PadInv, HandleEvent
  PROVE  PadInv'
<1> DEFINE e == queue[1]
<1>1. /\ Queued = {1} \union {i + 1 : i \in Queued'}
      /\ \A i \in Queued' : i \in Nat \ {0} /\ i + 1 \in Queued /\ queue'[i] = queue[i + 1]
      /\ 1 \in Queued /\ e \in Events
  BY Handled
<1>2. plugged' = plugged /\ GamepadEvent(e)
  BY Handled DEF HandleEvent, devices
<1>3. ASSUME pad' # NoPad
      PROVE  \/ plugged[pad'] = "in"
             \/ \E i \in Queued' : queue'[i].type = "removed" /\ queue'[i].which = pad'
  <2>1. pad' = pad \/ plugged[pad'] = "in"
    BY <1>2, <1>3 DEF GamepadEvent, PassedOver, Open
  <2>2. CASE pad' = pad /\ plugged[pad] # "in"
    <3>1. PICK i \in Queued : queue[i].type = "removed" /\ queue[i].which = pad
      BY <1>3, <2>2 DEF PadInv
    <3>2. i # 1
      BY <3>1, <1>2, <1>3, <2>2 DEF GamepadEvent, PassedOver
    <3> QED BY <3>1, <3>2, <1>1, <2>2
  <2> QED BY <2>1, <2>2
<1>4. \A i \in Queued' : queue'[i].type = "removed" => plugged'[queue'[i].which] = "out"
  BY <1>1, <1>2 DEF PadInv
<1>5. ASSUME NEW p \in Connected
      PROVE  p \in passed' \/ p = pad' \/ \E i \in Queued' : queue'[i].type = "added" /\ queue'[i].which = p
  <2>0. p \in Pads /\ plugged[p] = "in" /\ p # NoPad /\ passed \subseteq passed'
    BY <1>2, InputAssumption DEF Connected, GamepadEvent, PassedOver
  <2>1. CASE p \in passed
    BY <2>0, <2>1
  <2>2. CASE p = pad
    <3>1. ~(e.type = "removed" /\ e.which = p)
      BY <2>0, <1>1 DEF PadInv
    <3> QED BY <2>0, <2>2, <3>1, <1>2 DEF GamepadEvent, PassedOver
  <2>3. CASE \E i \in Queued : queue[i].type = "added" /\ queue[i].which = p
    <3>1. PICK i \in Queued : queue[i].type = "added" /\ queue[i].which = p
      BY <2>3
    <3>2. CASE i = 1
      BY <3>1, <3>2, <2>0, <1>2 DEF GamepadEvent, PassedOver, Open
    <3>3. CASE i # 1
      BY <3>1, <3>3, <1>1
    <3> QED BY <3>2, <3>3
  <2> QED BY <2>1, <2>2, <2>3 DEF PadInv
<1> QED BY <1>2, <1>3, <1>4, <1>5 DEF PadInv, Connected

(***************************************************************************)
(* What TouchEvent does to the joystick, by the event: a finger takes it,  *)
(* moves it, lets go of it, or has nothing to do with it.                  *)
(***************************************************************************)
LEMMA TouchCases ==
  ASSUME TypeOK, NEW e \in Events, TouchEvent(e)
  PROVE  \/ /\ e.type = "finger down" /\ ~joy.active /\ stick' = stick
            /\ joy' = [active |-> TRUE, finger |-> e.finger, anchor |-> Pixels(e.to)]
         \/ e.type = "finger motion" /\ Moving(e.finger) /\ stick' = Pushed(Pixels(e.to)) /\ joy' = joy
         \/ e.type = "finger up" /\ Moving(e.finger) /\ stick' = {} /\ joy' = [joy EXCEPT !.active = FALSE]
         \/ /\ joy' = joy /\ stick' = stick
            /\ ~(e.type \in {"finger motion", "finger up"} /\ Moving(e.finger))
BY DEF TouchEvent, Tracks, Moving

LEMMA TouchHandled ==
  ASSUME TypeOK, TouchInv, HandleEvent
  PROVE  TouchInv'
<1> DEFINE e == queue[1]
           Before(i, j, f) == \A k \in Queued : i < k /\ k < j => ~OfFinger(k, f)
<1>1. /\ Queued = {1} \union {i + 1 : i \in Queued'}
      /\ \A i \in Queued' : i \in Nat \ {0} /\ i + 1 \in Queued /\ queue'[i] = queue[i + 1]
      /\ 1 \in Queued /\ e \in Events
  BY Handled
<1>2. at' = at /\ lost' = lost /\ layout' = layout /\ TouchEvent(e)
  BY Handled DEF HandleEvent, devices
<1>3. \A i \in Queued' : \A f : OfFinger(i, f)' <=> OfFinger(i + 1, f)
  BY <1>1 DEF OfFinger
<1>4. ASSUME NEW i \in Queued' \union {0}, NEW f, LastOfFinger(i, f)' PROVE LastOfFinger(i + 1, f)
  <2> SUFFICES ASSUME NEW j \in Queued, i + 1 < j PROVE ~OfFinger(j, f)
    BY DEF LastOfFinger
  <2>1. PICK m \in Queued' : j = m + 1
    BY <1>1
  <2>2. i < m
    BY <2>1, <1>1
  <2> QED BY <2>1, <2>2, <1>3, <1>4 DEF LastOfFinger
<1>5. ASSUME NEW i \in Queued' \union {0}, NEW j \in Queued', NEW f, Before(i, j, f)'
      PROVE  Before(i + 1, j + 1, f)
  <2> SUFFICES ASSUME NEW k \in Queued, i + 1 < k, k < j + 1 PROVE ~OfFinger(k, f)
    OBVIOUS
  <2>1. PICK m \in Queued' : k = m + 1
    BY <1>1
  <2>2. i < m /\ m < j
    BY <2>1, <1>1
  <2> QED BY <2>1, <2>2, <1>3, <1>5
<1>6. ASSUME NEW f, LastOfFinger(1, f), ~OfFinger(1, f) PROVE LastOfFinger(0, f)
  <2> SUFFICES ASSUME NEW j \in Queued PROVE ~OfFinger(j, f)
    BY DEF LastOfFinger
  <2>1. j = 1 \/ 1 < j
    BY <1>1
  <2> QED BY <2>1, <1>6 DEF LastOfFinger
<1>7. ASSUME NEW f, NEW j, Before(1, j, f), ~OfFinger(1, f) PROVE Before(0, j, f)
  <2> SUFFICES ASSUME NEW k \in Queued, k < j PROVE ~OfFinger(k, f)
    OBVIOUS
  <2>1. k = 1 \/ 1 < k
    BY <1>1
  <2> QED BY <2>1, <1>7
<1>8. ASSUME NEW f \in Fingers \ lost, Moving(f)'
      PROVE  \/ ~joy.active /\ e.type = "finger down" /\ OfFinger(1, f) /\ stick' = stick
             \/ /\ Moving(f) /\ e.type = "finger motion" /\ OfFinger(1, f)
                /\ stick' = Pushed(Pixels(e.to)) /\ joy' = joy
             \/ Moving(f) /\ stick' = stick /\ joy' = joy /\ ~OfFinger(1, f)
  <2>1. OfFinger(1, f) => e.type # "finger canceled"
    BY <1>1 DEF TouchInv
  <2>2. joy \in [active : BOOLEAN, finger : Fingers \union {0}, anchor : Int \X Int]
    BY DEF TypeOK
  <2>3. CASE /\ e.type = "finger down" /\ ~joy.active /\ stick' = stick
             /\ joy' = [active |-> TRUE, finger |-> e.finger, anchor |-> Pixels(e.to)]
    BY <2>3, <1>8 DEF Moving, OfFinger, FingerTypes
  <2>4. CASE e.type = "finger motion" /\ Moving(e.finger) /\ stick' = Pushed(Pixels(e.to)) /\ joy' = joy
    BY <2>4, <1>8 DEF Moving, OfFinger, FingerTypes
  <2>5. CASE joy' = [joy EXCEPT !.active = FALSE]
    BY <2>2, <2>5, <1>8 DEF Moving
  <2>6. CASE /\ joy' = joy /\ stick' = stick
             /\ ~(e.type \in {"finger motion", "finger up"} /\ Moving(e.finger))
    <3>1. Moving(f)
      BY <2>6, <1>8 DEF Moving
    <3>2. ASSUME OfFinger(1, f) PROVE FALSE
      <4>1. e.type = "finger down" /\ e.finger = f
        BY <3>1, <3>2, <2>1, <2>6 DEF OfFinger, FingerTypes
      <4>2. 1 - 1 = 0 /\ 0 \in 0..1 - 1 /\ \A k \in Queued : ~(0 < k /\ k < 1)
        BY <1>1
      <4>3. Lifted(0, f)
        BY <1>1, <3>1, <3>2, <4>1, <4>2 DEF TouchInv
      <4> QED BY <4>3 DEF Lifted
    <3> QED BY <2>6, <3>1, <3>2
  <2> QED BY <1>1, <1>2, <2>3, <2>4, <2>5, <2>6, TouchCases
<1>9. ASSUME NEW i \in Queued', NEW f \in Fingers \ lost, OfFinger(i, f)'
      PROVE  /\ queue'[i].type # "finger canceled"
             /\ LastOfFinger(i, f)' => at[f] = Where(queue'[i])
  <2>1. i + 1 \in Queued /\ OfFinger(i + 1, f) /\ queue'[i] = queue[i + 1]
    BY <1>1, <1>3, <1>9
  <2>2. LastOfFinger(i, f)' => LastOfFinger(i + 1, f)
    BY <1>4
  <2> QED BY <2>1, <2>2 DEF TouchInv
<1>10. ASSUME NEW f \in Fingers \ lost, Moving(f)', LastOfFinger(0, f)'
       PROVE  at[f] # Nowhere /\ stick' \subseteq Pushed(Pixels(at[f]))'
  <2>1. LastOfFinger(1, f)
    BY <1>4, <1>10
  <2>2. CASE e.type = "finger down" /\ OfFinger(1, f) /\ ~joy.active /\ stick' = stick
    <3>1. stick' = {}
      BY <2>2 DEF TouchInv
    <3>2. at[f] = e.to /\ e.to \in Points
      BY <2>1, <2>2, <1>1, EventFacts DEF TouchInv, Where
    <3> QED BY <3>1, <3>2, PointFacts DEF TypeOK
  <2>3. CASE /\ Moving(f) /\ e.type = "finger motion" /\ OfFinger(1, f)
             /\ stick' = Pushed(Pixels(e.to)) /\ joy' = joy
    <3>1. at[f] = e.to /\ e.to \in Points
      BY <2>1, <2>3, <1>1, EventFacts DEF TouchInv, Where
    <3>2. Pushed(Pixels(at[f]))' = Pushed(Pixels(at[f]))
      <4>1. joy' = joy /\ at' = at /\ layout' = layout
        BY <2>3, <1>2
      <4> QED BY <4>1 DEF Pushed, Pixels
    <3> QED BY <2>3, <3>1, <3>2, PointFacts DEF TypeOK
  <2>4. CASE Moving(f) /\ stick' = stick /\ joy' = joy /\ ~OfFinger(1, f)
    <3>1. LastOfFinger(0, f)
      BY <1>6, <2>1, <2>4
    <3>2. Pushed(Pixels(at[f]))' = Pushed(Pixels(at[f]))
      BY <2>4, <1>2 DEF Pushed, Pixels
    <3> QED BY <2>4, <3>1, <3>2 DEF TouchInv
  <2> QED BY <1>8, <1>10, <2>2, <2>3, <2>4
<1>11. ~joy'.active => stick' = {}
  <2>1. joy \in [active : BOOLEAN, finger : Fingers \union {0}, anchor : Int \X Int]
    BY DEF TypeOK
  <2> QED BY <2>1, <1>1, <1>2, TouchCases DEF TouchInv, Moving
<1>12. ASSUME NEW j \in Queued', NEW f \in Fingers \ lost, OfFinger(j, f)',
              queue'[j].type = "finger down", NEW i \in 0..j - 1,
              IF i = 0 THEN Moving(f)' ELSE OfFinger(i, f)', Before(i, j, f)'
       PROVE  Lifted(i, f)'
  <2>1. j + 1 \in Queued /\ OfFinger(j + 1, f) /\ queue[j + 1].type = "finger down"
    BY <1>1, <1>3, <1>12
  <2>2. i \in Queued' \union {0} /\ i + 1 \in 0..(j + 1) - 1 /\ 0 \in 0..(j + 1) - 1 /\ i + 1 # 0
    <3>1. i # 0 => i \in Queued'
      <4>1. queue' \in Seq(Events) /\ Len(queue') \in Nat
        BY Handled
      <4> QED BY <4>1 DEF Queued
    <3> QED BY <3>1, <1>1
  <2>3. Before(i + 1, j + 1, f)
    BY <1>5, <1>12, <2>2
  <2>4. CASE i # 0
    <3>1. OfFinger(i + 1, f)
      BY <1>3, <1>12, <2>2, <2>4
    <3>2. Lifted(i + 1, f)
      BY <2>1, <2>2, <2>3, <3>1 DEF TouchInv
    <3> QED BY <3>2, <2>2, <2>4, <1>1 DEF Lifted
  <2>5. CASE i = 0
    <3>1. Before(1, j + 1, f)
      BY <2>3, <2>5
    <3>2. CASE OfFinger(1, f) /\ e.type \in {"finger down", "finger motion"}
      <4>1. 1 \in 0..(j + 1) - 1 /\ 1 # 0
        BY <2>2, <2>5
      <4>2. Lifted(1, f)
        BY <2>1, <3>1, <3>2, <4>1 DEF TouchInv
      <4> QED BY <4>2, <3>2 DEF Lifted
    <3>3. CASE Moving(f) /\ ~OfFinger(1, f)
      <4>1. Before(0, j + 1, f)
        BY <1>7, <3>1, <3>3
      <4>2. Lifted(0, f)
        BY <2>1, <2>2, <3>3, <4>1 DEF TouchInv
      <4> QED BY <4>2 DEF Lifted
    <3> QED BY <1>8, <1>12, <2>5, <3>2, <3>3
  <2> QED BY <2>4, <2>5
<1> QED BY <1>2, <1>9, <1>10, <1>11, <1>12 DEF TouchInv

-------------------------------------------------------------------------------
LEMMA InitInv == Init => IInv
<1> SUFFICES ASSUME Init PROVE IInv
  OBVIOUS
<1>1. PICK ids \in {s \in UNION {[1..n -> Pads] : n \in 0..2} : \A i, j \in DOMAIN s : s[i] = s[j] => i = j} :
        /\ plugged = [p \in Pads |-> IF \E i \in DOMAIN ids : ids[i] = p THEN "in" ELSE "new"]
        /\ pad \in IF ids = <<>> THEN {NoPad} ELSE {NoPad, ids[1]}
        /\ queue = [i \in DOMAIN ids |-> [type |-> "added", which |-> ids[i]]]
  BY DEF Init
<1>2. PICK n \in 0..2 : ids \in [1..n -> Pads]
  BY <1>1
<1>3. queue \in [1..n -> Events] /\ n \in Nat
  <2>1. DOMAIN ids = 1..n /\ \A i \in 1..n : ids[i] \in Pads
    BY <1>2
  <2>2. \A p \in Pads : [type |-> "added", which |-> p] \in Events
    BY DEF Events
  <2>3. queue = [i \in 1..n |-> [type |-> "added", which |-> ids[i]]]
    BY <1>1, <2>1
  <2> QED BY <2>1, <2>2, <2>3
<1>4. queue \in Seq(Events) /\ Len(queue) = n
  BY <1>3
<1>5. /\ Queued = 1..n
      /\ \A i \in Queued : queue[i].type = "added" /\ queue[i].which = ids[i] /\ ids[i] \in Pads
  BY <1>1, <1>2, <1>4 DEF Queued
<1>6. \A p \in Pads : plugged[p] = "in" <=> \E i \in Queued : ids[i] = p
  BY <1>1, <1>2, <1>5
<1>7. pad # NoPad => 1 \in Queued /\ pad = ids[1]
  <2>1. ids # <<>> => n # 0
    BY <1>2
  <2> QED BY <2>1, <1>1, <1>2, <1>5
<1>8. TypeOK
  <2>1. /\ held = {} /\ at = [f \in Fingers |-> Nowhere] /\ lost = {} /\ kb = {} /\ passed = {}
        /\ pressed = [p \in Pads |-> {}] /\ stick = {} /\ layout \in Layouts
        /\ joy = [active |-> FALSE, finger |-> 0, anchor |-> <<0, 0>>]
    BY DEF Init
  <2>2. plugged \in [Pads -> {"new", "in", "out"}]
    BY <1>1
  <2>3. pad \in Pads \union {NoPad}
    BY <1>5, <1>7
  <2>4. /\ joy \in [active : BOOLEAN, finger : Fingers \union {0}, anchor : Int \X Int]
        /\ ~joy.active
    BY <2>1
  <2> QED BY <2>1, <2>2, <2>3, <2>4, <1>4 DEF TypeOK
<1>9. KeyInv
  <2>1. kb = {} /\ \A i \in Queued : queue[i].type # "key down"
    BY <1>5 DEF Init
  <2> QED BY <2>1 DEF KeyInv
<1>10. PadInv
  <2>1. \A i \in Queued : queue[i].type # "removed"
    BY <1>5
  <2>2. pad # NoPad => plugged[pad] = "in"
    BY <1>5, <1>6, <1>7
  <2>3. \A p \in Connected : \E i \in Queued : queue[i].type = "added" /\ queue[i].which = p
    BY <1>5, <1>6 DEF Connected
  <2> QED BY <2>1, <2>2, <2>3 DEF PadInv
<1>11. TouchInv
  <2>1. stick = {} /\ ~joy.active
    BY DEF Init
  <2>2. \A i \in Queued : \A f : ~OfFinger(i, f)
    <3>1. "added" \notin FingerTypes
      BY DEF FingerTypes
    <3> QED BY <1>5, <3>1 DEF OfFinger
  <2> QED BY <2>1, <2>2 DEF TouchInv, Moving
<1> QED BY <1>8, <1>9, <1>10, <1>11 DEF IInv

-------------------------------------------------------------------------------
(***************************************************************************)
(* Types.                                                                  *)
(***************************************************************************)
LEMMA TypesKept == TypeOK /\ [Next]_vars => TypeOK'
<1> SUFFICES ASSUME TypeOK, [Next]_vars PROVE TypeOK'
  OBVIOUS
<1>0. queue \in Seq(Events)
  BY DEF TypeOK
<1>1. ASSUME NEW k \in Keys, KeyDown(k) \/ KeyUp(k) PROVE TypeOK'
  <2>1. PICK e \in Events : Event(e)
    BY <1>1 DEF KeyDown, KeyUp, Events
  <2>2. queue' \in Seq(Events)
    BY <1>0, <2>1, Appended
  <2>3. held' \subseteq Keys /\ UNCHANGED <<plugged, pressed, at, lost, program>>
    BY <1>1 DEF KeyDown, KeyUp, TypeOK
  <2> QED BY <2>2, <2>3 DEF TypeOK, program
<1>2. ASSUME NEW p \in Pads, PlugIn(p) \/ PullOut(p) PROVE TypeOK'
  <2>1. PICK e \in Events : Event(e)
    BY <1>2 DEF PlugIn, PullOut, Events
  <2>2. queue' \in Seq(Events)
    BY <1>0, <2>1, Appended
  <2>3. /\ plugged' \in [Pads -> {"new", "in", "out"}] /\ pressed' \in [Pads -> SUBSET PadBits]
        /\ UNCHANGED <<held, at, lost, program>>
    BY <1>2 DEF PlugIn, PullOut, TypeOK
  <2> QED BY <2>2, <2>3 DEF TypeOK, program
<1>3. ASSUME NEW p \in Pads, NEW bits \in SUBSET PadBits, PadPress(p, bits) PROVE TypeOK'
  BY <1>3 DEF PadPress, TypeOK, program
<1>4. ASSUME NEW f \in Fingers, NEW x \in Points, FingerDown(f, x) \/ FingerMove(f, x) PROVE TypeOK'
  <2>1. PICK e \in Events : Event(e)
    BY <1>4 DEF FingerDown, FingerMove, Events
  <2>2. queue' \in Seq(Events)
    BY <1>0, <2>1, Appended
  <2>3. /\ at' \in [Fingers -> Points \union {Nowhere}]
        /\ UNCHANGED <<held, plugged, pressed, lost, program>>
    BY <1>4 DEF FingerDown, FingerMove, TypeOK
  <2> QED BY <2>2, <2>3 DEF TypeOK, program
<1>5. ASSUME NEW f \in Fingers, FingerUp(f) \/ TouchCancelled(f) PROVE TypeOK'
  <2>1. PICK e \in Events : Event(e)
    BY <1>5 DEF FingerUp, TouchCancelled, Events
  <2>2. queue' \in Seq(Events)
    BY <1>0, <2>1, Appended
  <2>3. /\ at' \in [Fingers -> Points \union {Nowhere}] /\ lost' \subseteq Fingers
        /\ UNCHANGED <<held, plugged, pressed, program>>
    BY <1>5 DEF FingerUp, TouchCancelled, TypeOK
  <2> QED BY <2>2, <2>3 DEF TypeOK, program
<1>6. ASSUME HandleEvent PROVE TypeOK'
  <2> DEFINE e == queue[1]
  <2>1. /\ e \in Events /\ KeyboardEvent(e) /\ GamepadEvent(e) /\ TouchEvent(e)
        /\ queue' \in Seq(Events) /\ UNCHANGED <<devices, layout>>
    BY <1>6, Handled DEF HandleEvent
  <2>2. kb' \subseteq STRING
    <3>1. e.type = "key down" => KeyBit[e.key] \in STRING
      BY <2>1, EventFacts, InputAssumption DEF KeyTypes
    <3> QED BY <2>1, <3>1 DEF KeyboardEvent, SetBit, TypeOK
  <2>3. pad' \in Pads \union {NoPad} /\ passed' \subseteq Pads
    <3>1. e.type = "added" => e.which \in Pads
      BY <2>1, EventFacts
    <3> QED BY <2>1, <3>1 DEF GamepadEvent, PassedOver, Open, TypeOK
  <2>4. /\ joy' \in [active : BOOLEAN, finger : Fingers \union {0}, anchor : Int \X Int]
        /\ joy'.active => joy'.finger \in Fingers
        /\ stick' \subseteq Directions
    <3>0. /\ joy \in [active : BOOLEAN, finger : Fingers \union {0}, anchor : Int \X Int]
          /\ joy.active => joy.finger \in Fingers
          /\ stick \subseteq Directions
      BY DEF TypeOK
    <3>1. CASE /\ e.type = "finger down" /\ stick' = stick
               /\ joy' = [active |-> TRUE, finger |-> e.finger, anchor |-> Pixels(e.to)]
      <4>1. e.finger \in Fingers /\ Pixels(e.to) \in Int \X Int
        BY <2>1, <3>1, EventFacts, PointFacts DEF TypeOK, FingerTypes
      <4> QED BY <3>0, <3>1, <4>1
    <3>2. CASE stick' = Pushed(Pixels(e.to)) /\ joy' = joy
      <4>1. stick' \subseteq Directions
        BY <3>2 DEF Pushed
      <4> QED BY <3>0, <3>2, <4>1
    <3>3. CASE stick' = {} /\ joy' = [joy EXCEPT !.active = FALSE]
      BY <3>0, <3>3
    <3>4. CASE joy' = joy /\ stick' = stick
      BY <3>0, <3>4
    <3> QED BY <2>1, <3>1, <3>2, <3>3, <3>4, TouchCases
  <2> QED BY <2>1, <2>2, <2>3, <2>4 DEF TypeOK, devices
<1>7. CASE UNCHANGED vars
  BY <1>7 DEF vars, devices, program, TypeOK
<1> QED BY <1>1, <1>2, <1>3, <1>4, <1>5, <1>6, <1>7 DEF Next, Device

-------------------------------------------------------------------------------
\* A step that leaves alone what the three invariants speak of.
LEMMA NothingChanges ==
  ASSUME KeyInv, PadInv, TouchInv,
         held' = held, plugged' = plugged, at' = at, lost' = lost, queue' = queue,
         kb' = kb, pad' = pad, passed' = passed, joy' = joy, stick' = stick, layout' = layout
  PROVE  KeyInv' /\ PadInv' /\ TouchInv'
<1>1. Queued' = Queued /\ KeysHeld' = KeysHeld /\ Connected' = Connected
  BY DEF Queued, KeysHeld, Connected
<1>2. \A i : \A b : LastOfBit(i, b)' = LastOfBit(i, b)
  BY <1>1 DEF LastOfBit, OfBit
<1>3. KeyInv'
  BY <1>1, <1>2 DEF KeyInv
<1>4. PadInv'
  BY <1>1 DEF PadInv
<1>5. \A x : Pixels(x)' = Pixels(x)
  BY DEF Pixels
<1>6. \A q : Pushed(q)' = Pushed(q)
  BY DEF Pushed
<1>7. \A f : Moving(f)' = Moving(f)
  BY DEF Moving
<1>8. \A i : \A f : /\ OfFinger(i, f)' = OfFinger(i, f) /\ Lifted(i, f)' = Lifted(i, f)
                   /\ LastOfFinger(i, f)' = LastOfFinger(i, f)
  BY <1>1 DEF OfFinger, Lifted, LastOfFinger
<1>9. TouchInv'
  BY <1>1, <1>5, <1>6, <1>7, <1>8 DEF TouchInv
<1> QED BY <1>3, <1>4, <1>9

-------------------------------------------------------------------------------
LEMMA StepKeepsInv == IInv /\ [Next]_vars => IInv'
<1> SUFFICES ASSUME IInv, [Next]_vars PROVE KeyInv' /\ PadInv' /\ TouchInv'
  BY TypesKept DEF IInv
<1>0. TypeOK /\ KeyInv /\ PadInv /\ TouchInv /\ queue \in Seq(Events)
  BY DEF IInv, TypeOK
<1>1. ASSUME NEW k \in Keys, NEW t \in KeyTypes, Event([type |-> t, key |-> k]),
             held' = IF t = "key down" THEN held \union {k} ELSE held \ {k},
             UNCHANGED <<plugged, pressed, at, lost, program>>
      PROVE  KeyInv' /\ PadInv' /\ TouchInv'
  <2> DEFINE e == [type |-> t, key |-> k]
  <2>1. e \in Events /\ e.type = t /\ e.key = k /\ e.type \notin FingerTypes /\ e.type # "removed"
    BY DEF Events, KeyTypes, FingerTypes
  <2>2. /\ kb' = kb
        /\ UNCHANGED <<plugged, pad, passed>>
        /\ UNCHANGED <<at, lost, joy, stick, layout>>
    BY <1>1 DEF program
  <2> HIDE DEF e
  <2>3. Event(e)
    BY <1>1 DEF e
  <2>4. KeyInv'
    BY <1>0, <1>1, <2>1, <2>2, <2>3, KeyPressed
  <2>5. PadInv'
    BY <1>0, <2>1, <2>2, <2>3, PadsUntouched
  <2>6. TouchInv'
    BY <1>0, <2>1, <2>2, <2>3, TouchUntouched
  <2> QED BY <2>4, <2>5, <2>6
<1>2. ASSUME NEW k \in Keys, KeyDown(k) PROVE KeyInv' /\ PadInv' /\ TouchInv'
  <2>1. "key down" \in KeyTypes
    BY DEF KeyTypes
  <2> QED BY <1>1, <1>2, <2>1 DEF KeyDown
<1>3. ASSUME NEW k \in Keys, KeyUp(k) PROVE KeyInv' /\ PadInv' /\ TouchInv'
  <2>1. "key up" \in KeyTypes /\ "key up" # "key down"
    BY DEF KeyTypes
  <2> QED BY <1>1, <1>3, <2>1 DEF KeyUp
<1>4. ASSUME NEW p \in Pads, NEW t \in {"added", "removed"}, Event([type |-> t, which |-> p]),
             held' = held, kb' = kb, UNCHANGED <<at, lost, joy, stick, layout>>
      PROVE  KeyInv' /\ TouchInv'
  <2> DEFINE e == [type |-> t, which |-> p]
  <2>1. e \in Events /\ e.type \notin KeyTypes /\ e.type \notin FingerTypes
    BY DEF Events, KeyTypes, FingerTypes
  <2> HIDE DEF e
  <2>2. Event(e)
    BY <1>4 DEF e
  <2>3. KeyInv'
    BY <1>0, <1>4, <2>1, <2>2, KeysUntouched
  <2>4. TouchInv'
    BY <1>0, <1>4, <2>1, <2>2, TouchUntouched
  <2> QED BY <2>3, <2>4
<1>5. ASSUME NEW p \in Pads, PlugIn(p) PROVE KeyInv' /\ PadInv' /\ TouchInv'
  BY <1>0, <1>4, <1>5, PadPlugged DEF PlugIn, program
<1>6. ASSUME NEW p \in Pads, PullOut(p) PROVE KeyInv' /\ PadInv' /\ TouchInv'
  BY <1>0, <1>4, <1>6, PadPulled DEF PullOut, program
<1>7. ASSUME NEW p \in Pads, NEW bits \in SUBSET PadBits, PadPress(p, bits)
      PROVE  KeyInv' /\ PadInv' /\ TouchInv'
  BY <1>0, <1>7, NothingChanges DEF PadPress, program
<1>8. ASSUME NEW f \in Fingers, NEW e \in Events, Event(e), e.type \in FingerTypes, e.finger = f,
             e.type = "finger down" => at[f] = Nowhere,
             e.type = "finger canceled" => f \in lost',
             e.type # "finger canceled" => at'[f] = Where(e),
             \A g \in Fingers \ {f} : at'[g] = at[g],
             lost \subseteq lost', UNCHANGED <<held, plugged, pressed, program>>
      PROVE  KeyInv' /\ PadInv' /\ TouchInv'
  <2>1. e.type \notin KeyTypes /\ e.type # "removed"
    BY <1>8 DEF KeyTypes, FingerTypes
  <2>2. /\ held' = held /\ kb' = kb
        /\ UNCHANGED <<plugged, pad, passed>>
        /\ UNCHANGED <<joy, stick, layout>>
    BY <1>8 DEF program
  <2>3. KeyInv'
    BY <1>0, <1>8, <2>1, <2>2, KeysUntouched
  <2>4. PadInv'
    BY <1>0, <1>8, <2>1, <2>2, PadsUntouched
  <2>5. TouchInv'
    BY <1>0, <1>8, <2>2, FingerActs
  <2> QED BY <2>3, <2>4, <2>5
<1>9. ASSUME NEW f \in Fingers, NEW x \in Points, FingerDown(f, x) \/ FingerMove(f, x)
      PROVE  KeyInv' /\ PadInv' /\ TouchInv'
  <2>1. PICK t \in {"finger down", "finger motion"} :
          /\ Event([type |-> t, finger |-> f, to |-> x]) /\ (t = "finger down" => at[f] = Nowhere)
    BY <1>9 DEF FingerDown, FingerMove
  <2> DEFINE e == [type |-> t, finger |-> f, to |-> x]
  <2>2. e \in Events /\ e.type = t /\ e.finger = f /\ Where(e) = x /\ t \in FingerTypes /\ t # "finger canceled"
    BY DEF Events, FingerTypes, Where
  <2>3. /\ at' = [at EXCEPT ![f] = x] /\ lost' = lost
        /\ UNCHANGED <<held, plugged, pressed, program>>
    BY <1>9 DEF FingerDown, FingerMove
  <2>4. at'[f] = x /\ \A g \in Fingers \ {f} : at'[g] = at[g]
    BY <1>0, <2>3 DEF TypeOK
  <2> HIDE DEF e
  <2>5. Event(e)
    BY <2>1 DEF e
  <2> QED BY <1>8, <2>1, <2>2, <2>3, <2>4, <2>5
<1>10. ASSUME NEW f \in Fingers, FingerUp(f) \/ TouchCancelled(f)
       PROVE  KeyInv' /\ PadInv' /\ TouchInv'
  <2>1. PICK t \in {"finger up", "finger canceled"} :
          /\ Event([type |-> t, finger |-> f]) /\ (t = "finger canceled" => f \in lost')
    BY <1>10 DEF FingerUp, TouchCancelled
  <2> DEFINE e == [type |-> t, finger |-> f]
  <2>2. /\ e \in Events /\ e.type = t /\ e.finger = f /\ t \in FingerTypes /\ t # "finger down"
        /\ t # "finger canceled" => Where(e) = Nowhere
    BY DEF Events, FingerTypes, Where
  <2>3. /\ at' = [at EXCEPT ![f] = Nowhere] /\ lost \subseteq lost'
        /\ UNCHANGED <<held, plugged, pressed, program>>
    BY <1>10 DEF FingerUp, TouchCancelled
  <2>4. at'[f] = Nowhere /\ \A g \in Fingers \ {f} : at'[g] = at[g]
    BY <1>0, <2>3 DEF TypeOK
  <2> HIDE DEF e
  <2>5. Event(e)
    BY <2>1 DEF e
  <2> QED BY <1>8, <2>1, <2>2, <2>3, <2>4, <2>5
<1>11. CASE HandleEvent
  BY <1>0, <1>11, KeyHandled, PadHandled, TouchHandled
<1>12. CASE UNCHANGED vars
  BY <1>0, <1>12, NothingChanges DEF vars, devices, program
<1> QED BY <1>2, <1>3, <1>5, <1>6, <1>7, <1>9, <1>10, <1>11, <1>12 DEF Next, Device

LEMMA AlwaysInv == Spec => []IInv
BY InitInv, StepKeepsInv, PTL DEF Spec

\* When nothing is queued, what the program holds agrees with the devices.
LEMMA NothingQueued ==
  ASSUME IInv, queue = <<>>
  PROVE  /\ kb \subseteq KeysHeld /\ stick \subseteq Touching
         /\ pad \in Connected \/ (pad = NoPad /\ Connected \subseteq passed)
<1>1. Queued = {}
  BY DEF Queued
<1>2. kb \subseteq KeysHeld
  BY <1>1 DEF IInv, KeyInv, LastOfBit
<1>3. pad \in Connected \/ (pad = NoPad /\ Connected \subseteq passed)
  BY <1>1, InputAssumption DEF IInv, PadInv, Connected, TypeOK
<1>4. stick \subseteq Touching
  <2>1. CASE ~joy.active
    BY <2>1 DEF IInv, TouchInv
  <2>2. CASE joy.active /\ joy.finger \in lost
    BY <2>2 DEF Touching
  <2>3. CASE joy.active /\ joy.finger \notin lost
    <3>1. joy.finger \in Fingers \ lost /\ Moving(joy.finger) /\ LastOfFinger(0, joy.finger)
      BY <2>3, <1>1 DEF IInv, TypeOK, Moving, LastOfFinger
    <3>2. at[joy.finger] # Nowhere /\ stick \subseteq Pushed(Pixels(at[joy.finger]))
      BY <3>1 DEF IInv, TouchInv
    <3> QED BY <2>3, <3>2 DEF Touching
  <2> QED BY <2>1, <2>2, <2>3
<1> QED BY <1>2, <1>3, <1>4

\* Every reachable state of the input devices is well typed.
THEOREM TypeCorrect == Spec => []TypeOK
<1>1. IInv => TypeOK
  BY DEF IInv
<1> QED BY <1>1, AlwaysInv, PTL

\* No bit of keyboard or touch screen is on that nobody holds, for any keys that
\* share a bit and any number of fingers (set_bit, input_touch_handle_event).
THEOREM NoGhostButtonsAlways == Spec => []NoGhostButtons
<1>1. IInv => NoGhostButtons
  BY NothingQueued DEF NoGhostButtons
<1> QED BY <1>1, AlwaysInv, PTL

\* The gamepad in use is there, or every one that is there was passed over or could
\* not be opened, for any number of gamepads (input_gamepad_event).
THEOREM PadServedAlways == Spec => []PadServed
<1>1. IInv => PadServed
  BY NothingQueued DEF PadServed
<1> QED BY <1>1, AlwaysInv, PTL

\* The relay refuses only what its user really holds (isValidInput).
THEOREM OnlyOpposedRefusedAlways == Spec => []OnlyOpposedRefused
<1>1. IInv => OnlyOpposedRefused
  <2> SUFFICES ASSUME IInv, queue = <<>>, ~IsValidInput(Local)
               PROVE  Opposed(KeysHeld \union PadsHeld \union Touching)
    BY DEF OnlyOpposedRefused
  <2>1. Opposed(Local)
    BY DEF IsValidInput, Opposed
  <2>2. PadRead \subseteq PadsHeld
    BY NothingQueued DEF PadRead, PadsHeld
  <2>3. Local \subseteq KeysHeld \union PadsHeld \union Touching
    BY <2>2, NothingQueued DEF Local
  <2> QED BY <2>1, <2>3 DEF Opposed
<1> QED BY <1>1, AlwaysInv, PTL
===============================================================================
