----------------------------- MODULE RollbackProofs -----------------------------
(***************************************************************************)
(* Theorems about the rollback engine, for every set of inputs, every ring *)
(* size and every bound on frames and matches.                             *)
(***************************************************************************)
EXTENDS Rollback, SequenceTheorems, TLAPS

-------------------------------------------------------------------------------
(***************************************************************************)
(* Types.                                                                  *)
(***************************************************************************)
LEMMA PeerFacts == ASSUME NEW i \in Peers PROVE Other(i) \in Peers /\ Other(i) # i
BY DEF Peers, Other

LEMMA SlotType == ASSUME NEW f \in Nat PROVE Slot(f) \in 0..(RING - 1)
BY RollbackAssumption DEF Slot

Ring == [0..(RING - 1) -> RingEntry]

LEMMA AppliedType ==
  ASSUME NEW s \in State, NEW ins \in Seq(Inputs \X Inputs)
  PROVE  Applied(s, ins) \in State
<1>1. s.ins \o ins \in Seq(Inputs \X Inputs)
  BY DEF State
<1> QED BY <1>1 DEF Applied, State

LEMMA ReplayedType ==
  ASSUME NEW b \in Ring, NEW d \in Nat, NEW f \in Nat, f >= d
  PROVE  Replayed(b, d, f) \in State
<1>1. ASSUME NEW n \in 1..(f - d) PROVE b[Slot(d + n - 1)] \in RingEntry
  BY SlotType DEF Ring
<1>2. [n \in 1..(f - d) |-> <<b[Slot(d + n - 1)].local, b[Slot(d + n - 1)].remote>>]
         \in [1..(f - d) -> Inputs \X Inputs]
  BY <1>1 DEF RingEntry
<1>3. [n \in 1..(f - d) |-> <<b[Slot(d + n - 1)].local, b[Slot(d + n - 1)].remote>>]
         \in Seq(Inputs \X Inputs)
  <2>1. f - d \in Nat
    OBVIOUS
  <2>2. [1..(f - d) -> Inputs \X Inputs] \subseteq Seq(Inputs \X Inputs)
    BY <2>1, SeqDef
  <2> QED BY <1>2, <2>2
<1>4. b[Slot(d)].snapshot \in State
  BY SlotType DEF Ring, RingEntry
<1> QED BY <1>3, <1>4, AppliedType DEF Replayed

\* When the frame to rewind to is still to come, nothing is replayed.
LEMMA ReplayedNothing ==
  ASSUME NEW b \in Ring, NEW d \in Nat, NEW f \in Nat, f < d
  PROVE  Replayed(b, d, f) \in State
<1>1. 1..(f - d) = {}
  OBVIOUS
<1>2. [n \in 1..(f - d) |-> <<b[Slot(d + n - 1)].local, b[Slot(d + n - 1)].remote>>]
        \in [{} -> Inputs \X Inputs]
  BY <1>1
<1>3. [n \in 1..(f - d) |-> <<b[Slot(d + n - 1)].local, b[Slot(d + n - 1)].remote>>]
        \in Seq(Inputs \X Inputs)
  BY <1>2, 1..0 = {}, 0 \in Nat, SeqDef
<1>4. b[Slot(d)].snapshot \in State
  BY SlotType DEF Ring, RingEntry
<1> QED BY <1>3, <1>4, AppliedType DEF Replayed

LEMMA LastOnType ==
  ASSUME NEW k \in 0..(RING - 1), NEW f \in Nat \ {0}
  PROVE  LastOn(k, f) \in Int /\ LastOn(k, f) < f
<1>1. (f - 1 - k) % RING \in 0..(RING - 1)
  BY RollbackAssumption
<1> QED BY <1>1 DEF LastOn

LEMMA ResavedType ==
  ASSUME NEW b \in Ring, NEW d \in Nat, NEW f \in Nat \ {0}
  PROVE  Resaved(b, d, f) \in Ring
<1> SUFFICES ASSUME NEW k \in 0..(RING - 1), ~(LastOn(k, f) < d)
             PROVE  [b[k] EXCEPT !.snapshot = Replayed(b, d, LastOn(k, f) + 1)] \in RingEntry
  BY DEF Resaved, Ring
<1>1. LastOn(k, f) + 1 \in Nat /\ LastOn(k, f) + 1 >= d
  BY LastOnType
<1>2. Replayed(b, d, LastOn(k, f) + 1) \in State
  BY <1>1, ReplayedType
<1> QED BY <1>2 DEF Ring, RingEntry
\* What a rewinding tick starts from.
LEMMA RewoundType ==
  ASSUME NEW b \in Ring, NEW d \in 1..MaxFrame, NEW f \in Nat \ {0}
  PROVE  Replayed(b, d, f) \in State /\ Resaved(b, d, f) \in Ring
<1>1. d \in Nat
  BY RollbackAssumption
<1>2. Replayed(b, d, f) \in State
  BY <1>1, ReplayedType, ReplayedNothing
<1> QED BY <1>1, <1>2, ResavedType

LEMMA SavedType ==
  ASSUME NEW b \in Ring, NEW s \in State, NEW f \in Nat
  PROVE  Saved(b, s, f) \in Ring
<1> DEFINE e == [snapshot |-> s, local |-> Neutral, remote |-> b[Slot(f)].remote,
                 confirmed |-> FALSE]
<1>1. Slot(f) \in 0..(RING - 1)
  BY SlotType
<1>2. e \in RingEntry
  BY <1>1, RollbackAssumption DEF Ring, RingEntry
<1>3. Saved(b, s, f) = [b EXCEPT ![Slot(f)] = e]
  BY <1>1 DEF Saved, Ring
<1> HIDE DEF e
<1> QED BY <1>1, <1>2, <1>3 DEF Ring

LEMMA GetRemoteType ==
  ASSUME NEW b \in Ring, NEW f \in Nat
  PROVE  GetRemote(b, f) \in Inputs
<1>1. b[Slot(f)] \in RingEntry /\ (f > 0 => b[Slot(f - 1)] \in RingEntry)
  BY SlotType DEF Ring
<1> QED BY <1>1, RollbackAssumption DEF GetRemote, RingEntry

\* A peer that is about to begin a match may still begin one.
TypeInv == TypeOK /\ \A i \in Peers : phase[i] = "ready" => match[i] < MaxMatches

LEMMA InitType == Init => TypeInv
<1> SUFFICES ASSUME Init PROVE TypeInv
  OBVIOUS
<1>1. Zero \in State
  BY EmptySeq DEF Zero, Begun, State
<1>2. EmptyEntry \in RingEntry
  BY <1>1, RollbackAssumption DEF EmptyEntry, RingEntry
<1>3. <<>> \in Seq([frame : 1..MaxFrame, input : Inputs]) /\ <<>> \in Seq(Inputs)
  OBVIOUS
<1> QED BY <1>1, <1>2, <1>3, RollbackAssumption DEF Init, TypeInv, TypeOK

\* What is delivered is a message of the other peer, and one ring entry hears it.
LEMMA Delivered ==
  ASSUME TypeInv, NEW i \in Peers, Deliver(i)
  PROVE  LET h == Head(inbox[i])
             e == buf[i][Slot(h.frame)]
         IN /\ h.frame \in 1..MaxFrame /\ h.frame \in Nat /\ h.input \in Inputs
            /\ Tail(inbox[i]) \in Seq([frame : 1..MaxFrame, input : Inputs])
            /\ Slot(h.frame) \in 0..(RING - 1) /\ e \in RingEntry
            /\ buf \in [Peers -> Ring]
            /\ buf' = [buf EXCEPT ![i] = [buf[i] EXCEPT ![Slot(h.frame)] =
                         [e EXCEPT !.remote = h.input, !.confirmed = TRUE]]]
<1> DEFINE M == [frame : 1..MaxFrame, input : Inputs]
           h == Head(inbox[i])
           e == buf[i][Slot(h.frame)]
<1>1. inbox[i] # <<>> /\ inbox[i] \in Seq(M)
  BY DEF Deliver, TypeInv, TypeOK
<1>2. h \in M /\ Tail(inbox[i]) \in Seq(M)
  <2> HIDE DEF M
  <2> QED BY <1>1, HeadTailProperties
<1>3. h.frame \in 1..MaxFrame /\ h.input \in Inputs /\ h.frame \in Nat
  BY <1>2, RollbackAssumption
<1>4. Slot(h.frame) \in 0..(RING - 1)
  BY <1>3, SlotType
<1>5. buf \in [Peers -> Ring]
  BY DEF TypeInv, TypeOK, Ring
<1>6. e \in RingEntry
  BY <1>4, <1>5 DEF Ring
<1>7. buf' = [buf EXCEPT ![i] = [buf[i] EXCEPT ![Slot(h.frame)] =
                [e EXCEPT !.remote = h.input, !.confirmed = TRUE]]]
  <2>1. buf' = [buf EXCEPT ![i][Slot(h.frame)].remote = h.input,
                           ![i][Slot(h.frame)].confirmed = TRUE]
    BY DEF Deliver
  <2> QED BY <1>4, <1>5, <1>6, <2>1 DEF Ring, RingEntry
<1> QED BY <1>2, <1>3, <1>4, <1>5, <1>6, <1>7

LEMMA DeliverType ==
  ASSUME TypeInv, NEW i \in Peers, Deliver(i)
  PROVE  TypeInv'
<1> DEFINE M == [frame : 1..MaxFrame, input : Inputs]
           h == Head(inbox[i])
           e == buf[i][Slot(h.frame)]
           e2 == [e EXCEPT !.remote = h.input, !.confirmed = TRUE]
           b == [buf[i] EXCEPT ![Slot(h.frame)] = e2]
<1>3. /\ h.frame \in 1..MaxFrame /\ h.input \in Inputs /\ Tail(inbox[i]) \in Seq(M)
      /\ Slot(h.frame) \in 0..(RING - 1) /\ e \in RingEntry /\ buf \in [Peers -> Ring]
      /\ buf' = [buf EXCEPT ![i] = b]
  BY Delivered
<1>5. inbox' \in [Peers -> Seq(M)]
  <2>1. inbox' = [inbox EXCEPT ![i] = Tail(@)] /\ inbox \in [Peers -> Seq(M)]
    BY DEF Deliver, TypeInv, TypeOK
  <2> HIDE DEF M
  <2> QED BY <1>3, <2>1
<1>9. e2 \in RingEntry
  BY <1>3 DEF RingEntry
<1>10. b \in Ring
  BY <1>3, <1>9 DEF Ring
<1>12. buf' \in [Peers -> Ring]
  BY <1>3, <1>10
<1>13. /\ diverge' \in [Peers -> (1..MaxFrame) \union {-1}]
       /\ missed' \in [Peers -> SUBSET (1..MaxFrame)]
  <2>1. CASE Mismatch(e, h.input)
    <3>1. /\ diverge' = [diverge EXCEPT ![i] = Earliest(@, h.frame)]
          /\ missed' = [missed EXCEPT ![i] = @ \union {h.frame}]
      BY <2>1 DEF Deliver
    <3>2. diverge \in [Peers -> (1..MaxFrame) \union {-1}] /\ missed \in [Peers -> SUBSET (1..MaxFrame)]
      BY DEF TypeInv, TypeOK
    <3>3. Earliest(diverge[i], h.frame) \in (1..MaxFrame) \union {-1}
      BY <1>3, <3>2 DEF Earliest
    <3>4. missed[i] \union {h.frame} \in SUBSET (1..MaxFrame)
      BY <1>3, <3>2
    <3> HIDE DEF h
    <3> QED BY <3>1, <3>2, <3>3, <3>4
  <2>2. CASE ~Mismatch(e, h.input)
    BY <2>2 DEF Deliver, TypeInv, TypeOK
  <2> QED BY <2>1, <2>2
<1>14. touched' \in [Peers -> BOOLEAN]
  <2>1. touched' = [touched EXCEPT ![i] = @ \/ h.input # Neutral]
    BY DEF Deliver
  <2>2. touched \in [Peers -> BOOLEAN]
    BY DEF TypeInv, TypeOK
  <2>3. (touched[i] \/ h.input # Neutral) \in BOOLEAN
    OBVIOUS
  <2> HIDE DEF h
  <2> QED BY <1>3, <2>1, <2>2, <2>3
<1>15. UNCHANGED <<phase, match, frame, sim, pressed>>
  BY DEF Deliver
<1> HIDE DEF M, h, e, e2, b
<1>16. inbox' \in [Peers -> Seq([frame : 1..MaxFrame, input : Inputs])]
  BY <1>5 DEF M
<1> QED BY <1>12, <1>13, <1>14, <1>15, <1>16 DEF TypeInv, TypeOK, Ring

LEMMA FightTickType ==
  ASSUME TypeInv, NEW i \in Peers, NEW x \in Inputs, FightTick(i, x)
  PROVE  TypeInv'
<1> DEFINE f      == frame[i] + 1
           remote == GetRemote(buf[i], f)
           base   == IF Rewinds(i) THEN Replayed(buf[i], diverge[i], f) ELSE sim[i]
           b      == IF Rewinds(i) THEN Resaved(buf[i], diverge[i], f) ELSE buf[i]
           pair   == BySlot(i, x, remote)
           after  == Applied(base, <<pair>>)
<1>1. f \in 1..MaxFrame /\ f \in Nat \ {0} /\ match[i] \in Nat
  BY RollbackAssumption DEF FightTick, TypeInv, TypeOK
<1>2. buf[i] \in Ring /\ sim[i] \in State
  BY DEF TypeInv, TypeOK, Ring
<1>3. remote \in Inputs
  BY <1>1, <1>2, GetRemoteType
<1>4. Rewinds(i) => diverge[i] \in 1..MaxFrame
  BY RollbackAssumption DEF Rewinds, TypeInv, TypeOK
<1>5. base \in State /\ b \in Ring
  BY <1>1, <1>2, <1>4, RewoundType
<1>6. pair \in Inputs \X Inputs
  BY <1>3 DEF BySlot
<1>7. after \in State
  <2>1. <<pair>> \in Seq(Inputs \X Inputs)
    BY <1>6
  <2> HIDE DEF base, pair
  <2> QED BY <1>5, <2>1, AppliedType
<1>8. Saved(b, after, f) \in Ring
  BY <1>1, <1>5, <1>7, SavedType
<1>9. sim' = [sim EXCEPT ![i] = after] /\ buf' = [buf EXCEPT ![i] = Saved(b, after, f)]
  BY DEF FightTick
<1>10. [frame |-> f, input |-> x] \in [frame : 1..MaxFrame, input : Inputs]
  BY <1>1
<1>11. /\ frame' = [frame EXCEPT ![i] = f]
       /\ diverge' = [diverge EXCEPT ![i] = -1]
       /\ inbox' = [inbox EXCEPT ![Other(i)] =
                      IF phase[Other(i)] = "lobby" THEN @
                      ELSE Append(@, [frame |-> f, input |-> x])]
       /\ pressed' = [pressed EXCEPT ![i] = Append(@, x)]
       /\ missed' = [missed EXCEPT ![i] = {}]
       /\ UNCHANGED <<phase, match, touched>>
  BY DEF FightTick
<1> HIDE DEF f, remote, base, b, pair, after
<1>12. sim' \in [Peers -> State] /\ buf' \in [Peers -> Ring]
  BY <1>7, <1>8, <1>9 DEF TypeInv, TypeOK, Ring
<1>13. inbox' \in [Peers -> Seq([frame : 1..MaxFrame, input : Inputs])]
  <2> DEFINE M == [frame : 1..MaxFrame, input : Inputs]
             o == Other(i)
             m == [frame |-> f, input |-> x]
  <2>1. m \in M /\ o \in Peers /\ inbox \in [Peers -> Seq(M)]
    BY <1>10, PeerFacts DEF TypeInv, TypeOK
  <2>2. inbox' = [inbox EXCEPT ![o] = IF phase[o] = "lobby" THEN @ ELSE Append(@, m)]
    BY <1>11
  <2> HIDE DEF M, o, m
  <2>3. Append(inbox[o], m) \in Seq(M)
    BY <2>1
  <2>4. inbox' \in [Peers -> Seq(M)]
    BY <2>1, <2>2, <2>3
  <2> QED BY <2>4 DEF M
<1>14. pressed' \in [Peers -> Seq(Inputs)]
  BY <1>3, <1>11 DEF TypeInv, TypeOK
<1>15. /\ frame' \in [Peers -> 0..MaxFrame]
       /\ diverge' \in [Peers -> (1..MaxFrame) \union {-1}]
       /\ missed' \in [Peers -> SUBSET (1..MaxFrame)]
  BY <1>1, <1>11 DEF TypeInv, TypeOK
<1> QED BY <1>11, <1>12, <1>13, <1>14, <1>15 DEF TypeInv, TypeOK, Ring

LEMMA NextType == ASSUME TypeInv, [Next]_vars PROVE TypeInv'
<1> USE DEF TypeInv, TypeOK
<1>1. ASSUME BothReady PROVE TypeInv'
  BY <1>1, RollbackAssumption DEF BothReady, engine
<1>2. ASSUME NEW i \in Peers, IdleTick(i) PROVE TypeInv'
  <2>1. frame' \in [Peers -> 0..MaxFrame]
    BY <1>2, RollbackAssumption DEF IdleTick
  <2>2. UNCHANGED <<phase, match, engine, inbox, history>>
    BY <1>2 DEF IdleTick
  <2> QED BY <2>1, <2>2 DEF engine, history
<1>3. ASSUME NEW i \in Peers, BeginFight(i) PROVE TypeInv'
  <2>1. match[i] \in 0..MaxMatches /\ match[i] < MaxMatches
    BY <1>3 DEF BeginFight
  <2>2. Begun(match[i] + 1) \in State
    BY <2>1, EmptySeq, RollbackAssumption DEF Begun, State
  <2>3. match[i] + 1 \in 0..MaxMatches
    BY <2>1, RollbackAssumption
  <2>4. /\ match' \in [Peers -> 0..MaxMatches] /\ sim' \in [Peers -> State]
        /\ phase' \in [Peers -> {"lobby", "ready", "fight"}]
        /\ pressed' \in [Peers -> Seq(Inputs)]
    BY <1>3, <2>2, <2>3 DEF BeginFight
  <2>5. \A j \in Peers : phase'[j] = "ready" => match'[j] < MaxMatches
    BY <1>3 DEF BeginFight
  <2>6. UNCHANGED <<frame, buf, diverge, inbox, missed, touched>>
    BY <1>3 DEF BeginFight
  <2> QED BY <2>4, <2>5, <2>6
<1>4. ASSUME NEW i \in Peers, LeaveFight(i) PROVE TypeInv'
  <2>1. /\ phase' \in [Peers -> {"lobby", "ready", "fight"}]
        /\ \A j \in Peers : phase'[j] = "ready" => match[j] < MaxMatches
    BY <1>4 DEF LeaveFight
  <2>2. inbox' \in [Peers -> Seq([frame : 1..MaxFrame, input : Inputs])]
    BY <1>4, EmptySeq DEF LeaveFight
  <2>3. UNCHANGED <<match, frame, engine, history>>
    BY <1>4 DEF LeaveFight
  <2> QED BY <2>1, <2>2, <2>3 DEF engine, history
<1>5. UNCHANGED vars => TypeInv'
  BY DEF vars, engine, history
<1> QED BY <1>1, <1>2, <1>3, <1>4, <1>5, DeliverType, FightTickType DEF Next

\* Every variable keeps its type, however often the ring goes round.
THEOREM TypeCorrect == Spec => []TypeOK
<1>1. TypeInv => TypeOK
  BY DEF TypeInv
<1> QED BY <1>1, InitType, NextType, PTL DEF Spec
-------------------------------------------------------------------------------
(***************************************************************************)
(* Divergence.                                                             *)
(***************************************************************************)
LEMMA NextEarliest ==
  ASSUME TypeInv, DivergeEarliest, [Next]_vars
  PROVE  DivergeEarliest'
<1>1. ASSUME UNCHANGED <<diverge, missed>> PROVE DivergeEarliest'
  BY <1>1 DEF DivergeEarliest
<1>2. ASSUME NEW i \in Peers, Deliver(i) PROVE DivergeEarliest'
  <2> DEFINE f == Head(inbox[i]).frame
  <2>1. f \in 1..MaxFrame
    BY <1>2, Delivered
  <2>2. /\ diverge \in [Peers -> (1..MaxFrame) \union {-1}]
        /\ missed \in [Peers -> SUBSET (1..MaxFrame)]
    BY DEF TypeInv, TypeOK
  <2>3. CASE /\ diverge' = [diverge EXCEPT ![i] = Earliest(@, f)]
             /\ missed' = [missed EXCEPT ![i] = @ \union {f}]
    <3> HIDE DEF f
    <3> QED BY <2>1, <2>2, <2>3, RollbackAssumption DEF DivergeEarliest, Earliest
  <2> QED BY <1>1, <1>2, <2>3 DEF Deliver
<1>3. ASSUME NEW i \in Peers, NEW x \in Inputs, FightTick(i, x) PROVE DivergeEarliest'
  BY <1>3 DEF FightTick, DivergeEarliest, TypeInv, TypeOK
<1>4. ASSUME NEW i \in Peers, BothReady \/ IdleTick(i) \/ BeginFight(i) \/ LeaveFight(i)
      PROVE  DivergeEarliest'
  BY <1>1, <1>4 DEF BothReady, IdleTick, BeginFight, LeaveFight, engine, history
<1>5. UNCHANGED vars => DivergeEarliest'
  BY <1>1 DEF vars, engine, history
<1> QED BY <1>2, <1>3, <1>4, <1>5 DEF Next, Peers

\* A rewind is due exactly when a frame has proved wrong, and goes back to the
\* earliest of them.
THEOREM EarliestCorrect == Spec => []DivergeEarliest
<1>1. Init => DivergeEarliest
  BY DEF Init, DivergeEarliest
<1> QED BY <1>1, InitType, NextType, NextEarliest, PTL DEF Spec

-------------------------------------------------------------------------------
(***************************************************************************)
(* A neutral opponent.  While no button of the opponent's was ever         *)
(* confirmed, the ring holds neutral remote inputs only, whichever frames  *)
(* its entries stem from: so every prediction is neutral and right, no     *)
(* frame proves wrong, and no rewind disturbs the state.                   *)
(***************************************************************************)
Untouched(i) ==
  /\ diverge[i] = -1
  /\ \A k \in 0..(RING - 1) : buf[i][k].remote = Neutral

QuietInv == \A i \in Peers : ~touched[i] => Untouched(i)

LEMMA NextQuiet ==
  ASSUME TypeInv, QuietInv, [Next]_vars
  PROVE  QuietInv'
<1>1. ASSUME UNCHANGED <<diverge, buf, touched>> PROVE QuietInv'
  BY <1>1 DEF QuietInv, Untouched
<1>2. ASSUME NEW i \in Peers, Deliver(i) PROVE QuietInv'
  <2> DEFINE h == Head(inbox[i])
             e == buf[i][Slot(h.frame)]
             e2 == [e EXCEPT !.remote = h.input, !.confirmed = TRUE]
  <2>1. /\ Slot(h.frame) \in 0..(RING - 1) /\ e \in RingEntry /\ buf \in [Peers -> Ring]
        /\ buf' = [buf EXCEPT ![i] = [buf[i] EXCEPT ![Slot(h.frame)] = e2]]
    BY <1>2, Delivered
  <2>2. /\ touched' = [touched EXCEPT ![i] = @ \/ h.input # Neutral]
        /\ touched \in [Peers -> BOOLEAN]
    BY <1>2 DEF Deliver, TypeInv, TypeOK
  <2>3. ASSUME NEW j \in Peers, j # i, ~touched'[j] PROVE Untouched(j)'
    <3>1. buf'[j] = buf[j]
      BY <2>1, <2>3
    <3>2. ~touched[j]
      <4>1. touched'[j] = touched[j]
        BY <2>2, <2>3
      <4> QED BY <2>3, <4>1
    <3>3. diverge'[j] = diverge[j]
      BY <1>2, <2>3 DEF Deliver, TypeInv, TypeOK
    <3> QED BY <3>1, <3>2, <3>3 DEF QuietInv, Untouched
  <2>4. ASSUME ~touched'[i] PROVE Untouched(i)'
    <3>1. touched'[i] = (touched[i] \/ h.input # Neutral)
      BY <2>2
    <3>2. ~touched[i] /\ h.input = Neutral
      BY <2>4, <3>1
    <3>3. Untouched(i)
      BY <3>2 DEF QuietInv
    <3>4. ~Mismatch(e, h.input)
      BY <2>1, <3>2, <3>3 DEF Mismatch, Untouched
    <3>5. diverge' = diverge
      BY <1>2, <3>4 DEF Deliver
    <3>6. e2.remote = Neutral
      BY <2>1, <3>2 DEF RingEntry
    <3>7. \A k \in 0..(RING - 1) : buf'[i][k].remote = Neutral
      <4> HIDE DEF h, e2
      <4> QED BY <2>1, <3>3, <3>6 DEF Untouched, Ring
    <3> QED BY <3>3, <3>5, <3>7 DEF Untouched
  <2> QED BY <2>3, <2>4 DEF QuietInv
<1>3. ASSUME NEW i \in Peers, NEW x \in Inputs, FightTick(i, x) PROVE QuietInv'
  <2> DEFINE f == frame[i] + 1
  <2>1. touched' = touched
    BY <1>3 DEF FightTick
  <2>2. ASSUME NEW j \in Peers, j # i, ~touched[j] PROVE Untouched(j)'
    <3>1. buf'[j] = buf[j] /\ diverge'[j] = diverge[j]
      BY <1>3, <2>2 DEF FightTick, TypeInv, TypeOK
    <3> QED BY <2>2, <3>1 DEF QuietInv, Untouched
  <2>3. ASSUME ~touched[i] PROVE Untouched(i)'
    <3>1. Untouched(i) /\ ~Rewinds(i)
      BY <2>3 DEF QuietInv, Untouched, Rewinds
    <3>2. PICK s : buf' = [buf EXCEPT ![i] = Saved(buf[i], s, f)]
      BY <1>3, <3>1 DEF FightTick
    <3>3. diverge'[i] = -1
      BY <1>3 DEF FightTick, TypeInv, TypeOK
    <3>4. buf \in [Peers -> Ring] /\ f \in Nat
      BY RollbackAssumption DEF TypeInv, TypeOK, Ring
    <3>5. Slot(f) \in 0..(RING - 1)
      BY <3>4, SlotType
    <3>6. \A k \in 0..(RING - 1) : Saved(buf[i], s, f)[k].remote = Neutral
      <4> HIDE DEF f
      <4> QED BY <3>1, <3>4, <3>5 DEF Saved, Untouched, Ring
    <3> HIDE DEF f
    <3> QED BY <3>2, <3>3, <3>4, <3>6 DEF Untouched
  <2> QED BY <2>1, <2>2, <2>3 DEF QuietInv
<1>4. ASSUME NEW i \in Peers, BothReady \/ IdleTick(i) \/ BeginFight(i) \/ LeaveFight(i)
      PROVE  QuietInv'
  BY <1>1, <1>4 DEF BothReady, IdleTick, BeginFight, LeaveFight, engine, history
<1>5. UNCHANGED vars => QuietInv'
  BY <1>1 DEF vars, engine, history
<1> QED BY <1>2, <1>3, <1>4, <1>5 DEF Next, Peers

\* One more input pressed is one more pair in the solo game.
LEMMA SoloGrows ==
  ASSUME NEW i \in Peers, NEW p \in Seq(Inputs), NEW x \in Inputs
  PROVE  [n \in DOMAIN Append(p, x) |-> BySlot(i, Append(p, x)[n], Neutral)]
           = [n \in DOMAIN p |-> BySlot(i, p[n], Neutral)] \o <<BySlot(i, x, Neutral)>>
<1> DEFINE y == BySlot(i, x, Neutral)
           q == [n \in DOMAIN p |-> BySlot(i, p[n], Neutral)]
           r == [n \in DOMAIN Append(p, x) |-> BySlot(i, Append(p, x)[n], Neutral)]
<1>1. Len(p) \in Nat /\ DOMAIN p = 1..Len(p)
  BY LenProperties
<1>2. /\ Append(p, x) \in Seq(Inputs) /\ Len(Append(p, x)) = Len(p) + 1
      /\ \A n \in 1..Len(p) : Append(p, x)[n] = p[n]
      /\ Append(p, x)[Len(p) + 1] = x
  BY AppendProperties
<1>3. \A z \in Inputs : BySlot(i, z, Neutral) \in Inputs \X Inputs
  BY RollbackAssumption DEF BySlot
<1>4. q \in Seq(Inputs \X Inputs) /\ Len(q) = Len(p) /\ \A n \in 1..Len(p) : q[n] = BySlot(i, p[n], Neutral)
  <2>1. \A n \in 1..Len(p) : p[n] \in Inputs
    BY <1>1, ElementOfSeq
  <2>2. q \in [1..Len(p) -> Inputs \X Inputs]
    BY <1>1, <1>3, <2>1
  <2>3. q \in Seq(Inputs \X Inputs)
    BY <1>1, <2>2, SeqDef
  <2> QED BY <1>1, <2>2, <2>3, LenProperties
<1>5. r \in Seq(Inputs \X Inputs) /\ Len(r) = Len(p) + 1
      /\ \A n \in 1..(Len(p) + 1) : r[n] = BySlot(i, Append(p, x)[n], Neutral)
  <2>1. DOMAIN Append(p, x) = 1..(Len(p) + 1) /\ Len(p) + 1 \in Nat
    BY <1>1, <1>2, LenProperties
  <2>2. \A n \in 1..(Len(p) + 1) : Append(p, x)[n] \in Inputs
    BY <1>2, ElementOfSeq
  <2>3. r \in [1..(Len(p) + 1) -> Inputs \X Inputs]
    BY <1>3, <2>1, <2>2
  <2>4. r \in Seq(Inputs \X Inputs)
    BY <2>1, <2>3, SeqDef
  <2> QED BY <2>1, <2>3, <2>4, LenProperties
<1>6. q \o <<y>> = Append(q, y)
  BY <1>3, <1>4, AppendIsConcat
<1>7. /\ Append(q, y) \in Seq(Inputs \X Inputs) /\ Len(Append(q, y)) = Len(q) + 1
      /\ \A n \in 1..Len(q) : Append(q, y)[n] = q[n]
      /\ Append(q, y)[Len(q) + 1] = y
  BY <1>3, <1>4, AppendProperties
<1>8. \A n \in 1..Len(r) : r[n] = Append(q, y)[n]
  <2> SUFFICES ASSUME NEW n \in 1..Len(r) PROVE r[n] = Append(q, y)[n]
    OBVIOUS
  <2> HIDE DEF q, r
  <2>1. CASE n \in 1..Len(p)
    BY <1>1, <1>2, <1>4, <1>5, <1>7, <2>1
  <2>2. CASE n = Len(p) + 1
    BY <1>1, <1>2, <1>4, <1>5, <1>7, <2>2
  <2>3. n \in 1..(Len(p) + 1)
    BY <1>5
  <2>4. n \in 1..Len(p) \/ n = Len(p) + 1
    <3> DEFINE k == Len(p)
    <3>1. k \in Nat /\ n \in 1..(k + 1)
      BY <1>1, <2>3
    <3> HIDE DEF k
    <3>2. n \in 1..k \/ n = k + 1
      BY <3>1
    <3> QED BY <3>2 DEF k
  <2> QED BY <2>1, <2>2, <2>4
<1> HIDE DEF q, r, y
<1>9. r = Append(q, y)
  BY <1>4, <1>5, <1>7, <1>8, SeqEqual
<1> QED BY <1>6, <1>9 DEF q, r, y

LEMMA NextExact ==
  ASSUME TypeInv, QuietInv, ExactWhileNeutral, [Next]_vars
  PROVE  ExactWhileNeutral'
<1>1. ASSUME UNCHANGED <<phase, match, sim, pressed, touched>> PROVE ExactWhileNeutral'
  BY <1>1 DEF ExactWhileNeutral, Solo
<1>2. BothReady => ExactWhileNeutral'
  BY DEF BothReady, ExactWhileNeutral
<1>3. ASSUME NEW i \in Peers, BeginFight(i) PROVE ExactWhileNeutral'
  <2>1. [n \in DOMAIN <<>> |-> BySlot(i, <<>>[n], Neutral)] = <<>>
    OBVIOUS
  <2>2. /\ sim'[i] = Begun(match[i] + 1) /\ match'[i] = match[i] + 1 /\ pressed'[i] = <<>>
        /\ touched' = touched
        /\ \A j \in Peers : j # i => /\ sim'[j] = sim[j] /\ match'[j] = match[j]
                                     /\ pressed'[j] = pressed[j] /\ phase'[j] = phase[j]
    BY <1>3 DEF BeginFight, TypeInv, TypeOK
  <2>3. sim'[i] = Solo(i)'
    BY <2>1, <2>2 DEF Begun, Solo
  <2> QED BY <2>2, <2>3 DEF ExactWhileNeutral, Solo
<1>4. ASSUME NEW i \in Peers, LeaveFight(i) PROVE ExactWhileNeutral'
  BY <1>4 DEF LeaveFight, ExactWhileNeutral, Solo, engine, history, TypeInv, TypeOK
<1>5. ASSUME NEW i \in Peers, Deliver(i) PROVE ExactWhileNeutral'
  <2>1. \A j \in Peers : ~touched'[j] => ~touched[j]
    <3>1. touched' = [touched EXCEPT ![i] = @ \/ Head(inbox[i]).input # Neutral]
      BY <1>5 DEF Deliver
    <3>2. \A j \in Peers : touched'[j] = touched[j] \/ j = i
      BY <3>1 DEF TypeInv, TypeOK
    <3>3. touched'[i] = (touched[i] \/ Head(inbox[i]).input # Neutral)
      BY <3>1 DEF TypeInv, TypeOK
    <3> QED BY <3>2, <3>3
  <2>2. UNCHANGED <<phase, match, sim, pressed>>
    BY <1>5 DEF Deliver
  <2> QED BY <2>1, <2>2 DEF ExactWhileNeutral, Solo
<1>6. ASSUME NEW i \in Peers, NEW x \in Inputs, FightTick(i, x) PROVE ExactWhileNeutral'
  <2>1. UNCHANGED <<phase, match, touched>> /\ phase[i] = "fight"
    BY <1>6 DEF FightTick
  <2>2. \A j \in Peers : j # i => sim'[j] = sim[j] /\ pressed'[j] = pressed[j]
    BY <1>6 DEF FightTick, TypeInv, TypeOK
  <2>3. ASSUME ~touched[i] PROVE sim'[i] = Solo(i)'
    <3> DEFINE f == frame[i] + 1
    <3>1. Untouched(i) /\ ~Rewinds(i) /\ sim[i] = Solo(i)
      BY <2>1, <2>3 DEF QuietInv, Untouched, Rewinds, ExactWhileNeutral
    <3>2. f \in Nat /\ f > 0
      BY RollbackAssumption DEF TypeInv, TypeOK
    <3>3. Slot(f) \in 0..(RING - 1) /\ Slot(f - 1) \in 0..(RING - 1)
      BY <3>2, SlotType
    <3>4. GetRemote(buf[i], f) = Neutral
      BY <3>1, <3>2, <3>3 DEF GetRemote, Untouched
    <3>5. sim'[i] = Applied(sim[i], <<BySlot(i, x, Neutral)>>)
      <4>1. sim' = [sim EXCEPT ![i] = Applied(sim[i], <<BySlot(i, x, GetRemote(buf[i], f))>>)]
        BY <1>6, <3>1 DEF FightTick
      <4> QED BY <3>4, <4>1 DEF TypeInv, TypeOK
    <3>6. pressed'[i] = Append(pressed[i], x) /\ pressed[i] \in Seq(Inputs)
      BY <1>6 DEF FightTick, TypeInv, TypeOK
    <3>7. Solo(i)'.ins = Solo(i).ins \o <<BySlot(i, x, Neutral)>> /\ Solo(i)'.match = Solo(i).match
      BY <2>1, <3>6, SoloGrows DEF Solo
    <3>8. Applied(Solo(i), <<BySlot(i, x, Neutral)>>)
            = [match |-> Solo(i).match, ins |-> Solo(i).ins \o <<BySlot(i, x, Neutral)>>]
      BY DEF Applied
    <3>9. Solo(i)' = [match |-> Solo(i)'.match, ins |-> Solo(i)'.ins]
      BY DEF Solo
    <3> QED BY <3>1, <3>5, <3>7, <3>8, <3>9
  <2> QED BY <2>1, <2>2, <2>3 DEF ExactWhileNeutral, Solo
<1>7. ASSUME NEW i \in Peers, IdleTick(i) PROVE ExactWhileNeutral'
  BY <1>1, <1>7 DEF IdleTick, engine, history
<1>8. UNCHANGED vars => ExactWhileNeutral'
  BY <1>1 DEF vars, engine, history
<1> QED BY <1>2, <1>3, <1>4, <1>5, <1>6, <1>7, <1>8 DEF Next

\* Until the opponent's first button is confirmed, the game a player sees is
\* exactly the one its own inputs make.
THEOREM ExactCorrect == Spec => []ExactWhileNeutral
<1>1. Init => QuietInv /\ ExactWhileNeutral
  BY DEF Init, QuietInv, Untouched, EmptyEntry, ExactWhileNeutral
<1> QED BY <1>1, InitType, NextType, NextQuiet, NextExact, PTL DEF Spec
===============================================================================
