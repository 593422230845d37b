--------------------------- MODULE RelayServerProofs ---------------------------
(***************************************************************************)
(* Theorems about the relay, for every set of rooms, connections, ids,     *)
(* players and inputs and every value of the bounds.                       *)
(***************************************************************************)
EXTENDS RelayRefinement, SequenceTheorems, FiniteSetTheorems, TLAPS

-------------------------------------------------------------------------------
(***************************************************************************)
(* Helpers.                                                                *)
(***************************************************************************)

\* What is sent keeps the outboxes sequences of messages, if it is messages.
LEMMA ToldType ==
  ASSUME TypeOK, NEW msgs \in [Conns -> Seq(Message)]
  PROVE  Told(msgs) \in [Conns -> Seq(Message)]
<1> SUFFICES ASSUME NEW c \in Conns
             PROVE (IF ws[c] = "open" THEN out[c] \o msgs[c] ELSE out[c]) \in Seq(Message)
  BY DEF Told
<1>1. out[c] \in Seq(Message) /\ msgs[c] \in Seq(Message)
  BY DEF TypeOK
<1> QED BY <1>1

LEMMA ToSlotsType ==
  ASSUME NEW r \in Rooms, NEW ms \in [Slots -> Seq(Message)]
  PROVE  ToSlots(r, ms) \in [Conns -> Seq(Message)]
BY EmptySeq DEF ToSlots, Slots

\* The two slots are each other's opponents.
LEMMA OpponentType == ASSUME NEW s \in Slots PROVE Opponent(s) \in Slots /\ Opponent(s) # s
BY DEF Slots, Opponent

LEMMA NoConnOutside == NoConn \notin Conns
BY RoomAssumption

\* Recording an input keeps a log well formed.
Logs == [entries : Seq(LogEntry), latest : [Slots -> Inputs \union {Neutral}]]

LEMMA RecordType ==
  ASSUME NEW lg \in Logs, NEW s \in Slots, NEW f \in Nat, NEW i \in Inputs
  PROVE  Record(lg, s, f, i) \in Logs
<1> DEFINE latest == [lg.latest EXCEPT ![s] = i]
           n == Len(lg.entries)
           merged == [lg.entries EXCEPT ![n] = Merged(@, s, i)]
           grown == Append(lg.entries, NewEntry(latest, f))
<1>1. latest \in [Slots -> Inputs \union {Neutral}]
  BY DEF Logs
<1>2. lg.entries \in Seq(LogEntry)
  BY DEF Logs
<1>3. NewEntry(latest, f) \in LogEntry
  BY <1>1 DEF NewEntry, LogEntry
<1>4. grown \in Seq(LogEntry)
  BY <1>2, <1>3
<1>5. ASSUME MergesWithLast(lg.entries, f) PROVE merged \in Seq(LogEntry)
  <2>1. n \in 1..n /\ n \in Nat
    BY <1>2, <1>5 DEF MergesWithLast
  <2>2. lg.entries[n] \in LogEntry
    BY <1>2, <2>1
  <2>3. Merged(lg.entries[n], s, i) \in LogEntry
    BY <2>2 DEF Merged, LogEntry
  <2> QED BY <1>2, <2>1, <2>3
<1> QED BY <1>1, <1>4, <1>5 DEF Record, Logs

-------------------------------------------------------------------------------
(***************************************************************************)
(* Type correctness, one lemma per action.                                 *)
(***************************************************************************)

LEMMA MessageTypes ==
  /\ Waiting \in Message /\ Notice \in Message /\ Ping \in Message
  /\ \A s \in Slots : Start(s) \in Message /\ End(s) \in Message
  /\ \A l \in Loadouts : Loadout(l) \in Message
  /\ \A n \in Nat, f \in Frame : Relay(n, f) \in Message
<1>1. \A n \in Nat, f \in Frame : Relay(n, f) \in Message
  BY DEF Relay, Frame, Message
<1> QED BY <1>1 DEF Message

\* The part of TypeOK that is not about rooms and their messages.
OtherTypes ==
  /\ ws \in [Conns -> {"new", "open", "closing", "closed"}]
  /\ clock \in [Conns -> Nat]
  /\ rooms \in [Ids -> Rooms \union {NoRoom}]
  /\ idOf \in [Rooms -> Ids]
  /\ invited \in [Rooms -> [Slots -> Players]]
  /\ awaited \in SUBSET Conns

RoomTypes ==
  /\ state \in [Rooms -> {"unborn", "waiting", "active", "closed", "lost"}]
  /\ slots \in [Rooms -> [Slots -> Conns \union {NoConn}]]
  /\ seq \in [Rooms -> [Slots -> Nat]]
  /\ log \in [Rooms -> Logs]
  /\ pingTimer \in [Rooms -> BOOLEAN]
  /\ verdict \in [Rooms -> Slots \union {Undecided}]
  /\ accepted \in [Rooms -> [Slots -> Seq(Frame)]]
  /\ out \in [Conns -> Seq(Message)]

LEMMA TypeSplit == TypeOK <=> RoomTypes /\ OtherTypes
BY DEF TypeOK, RoomTypes, OtherTypes, Logs

LEMMA TypeSplitNext == TypeOK' <=> RoomTypes' /\ OtherTypes'
BY DEF TypeOK, RoomTypes, OtherTypes, Logs

LEMMA AttachType ==
  ASSUME TypeOK, NEW r \in Rooms, NEW s \in Slots, NEW c \in Conns, Attach(r, s, c)
  PROVE  RoomTypes'
<1> USE DEF RoomTypes
<1>1. RoomTypes
  BY TypeSplit
<1>2. slots' \in [Rooms -> [Slots -> Conns \union {NoConn}]]
  BY <1>1 DEF Attach
<1>3. CASE StartsMatch(r, s)
  <2> DEFINE msgs == [d \in Conns |->
                       IF d = c THEN <<Waiting, Start(s)>>
                       ELSE IF Holds(d, r, Opponent(s)) THEN <<Start(Opponent(s))>>
                       ELSE <<>>]
  <2>1. msgs \in [Conns -> Seq(Message)]
    BY MessageTypes, OpponentType
  <2>2. out' = Told(msgs)
    BY <1>3 DEF Attach
  <2>3. out' \in [Conns -> Seq(Message)]
    BY <2>1, <2>2, ToldType
  <2> QED BY <1>1, <1>2, <1>3, <2>3 DEF Attach
<1>4. CASE ~StartsMatch(r, s)
  <2> DEFINE msgs == [d \in Conns |-> IF d = c THEN <<Waiting>> ELSE <<>>]
  <2>1. msgs \in [Conns -> Seq(Message)]
    BY MessageTypes
  <2>2. out' = Told(msgs)
    BY <1>4 DEF Attach
  <2>3. out' \in [Conns -> Seq(Message)]
    BY <2>1, <2>2, ToldType
  <2> QED BY <1>1, <1>2, <1>4, <2>3 DEF Attach
<1> QED BY <1>3, <1>4

LEMMA InputType ==
  ASSUME TypeOK, NEW r \in Rooms, NEW s \in Slots, NEW i \in Inputs, HandleInput(r, s, i)
  PROVE  RoomTypes' /\ clock' \in [Conns -> Nat]
<1> DEFINE c == slots[r][s]
           f == [frame |-> clock[c], input |-> i]
<1>1. RoomTypes
  BY TypeSplit
<1>2. c \in Conns
  BY <1>1, NoConnOutside DEF HandleInput, Receives, RoomTypes
<1>3. clock[c] \in Nat /\ clock' \in [Conns -> Nat]
  BY <1>2 DEF HandleInput, TypeOK
<1>4. f \in Frame
  BY <1>3 DEF Frame
<1>5. CASE TakesInput(r, i)
  <2>1. Accept(r, s, f)
    BY <1>5 DEF HandleInput
  <2>2. log' \in [Rooms -> Logs]
    <3>1. Record(log[r], s, f.frame, f.input) \in Logs
      BY <1>1, <1>3, RecordType DEF RoomTypes
    <3> QED BY <1>1, <2>1, <3>1 DEF Accept, RoomTypes
  <2>3. accepted' \in [Rooms -> [Slots -> Seq(Frame)]]
    BY <1>1, <1>4, <2>1 DEF Accept, RoomTypes
  <2>4. seq' \in [Rooms -> [Slots -> Nat]] /\ out' \in [Conns -> Seq(Message)]
    <3>1. CASE MayForward(slots[r][Opponent(s)])
      <4> DEFINE o  == Opponent(s)
                 ms == [t \in Slots |-> IF t = o THEN <<Relay(seq[r][o], f)>> ELSE <<>>]
      <4>1. Forward(r, o, f)
        BY <2>1, <3>1 DEF Accept
      <4>2. o \in Slots /\ seq[r][o] \in Nat
        BY <1>1, OpponentType DEF RoomTypes
      <4>3. ms \in [Slots -> Seq(Message)]
        BY <1>4, <4>2, MessageTypes
      <4>4. out' = Told(ToSlots(r, ms))
        BY <4>1 DEF Forward
      <4>5. out' \in [Conns -> Seq(Message)]
        BY <4>3, <4>4, ToSlotsType, ToldType
      <4>6. seq' \in [Rooms -> [Slots -> Nat]]
        BY <1>1, <4>1, <4>2 DEF Forward, NextSeq, RoomTypes
      <4> QED BY <4>5, <4>6
    <3>2. CASE ~MayForward(slots[r][Opponent(s)])
      BY <1>1, <2>1, <3>2 DEF Accept, RoomTypes
    <3> QED BY <3>1, <3>2
  <2> QED BY <1>1, <1>3, <2>2, <2>3, <2>4 DEF HandleInput, RoomTypes
<1>6. CASE ~TakesInput(r, i)
  BY <1>1, <1>3, <1>6 DEF HandleInput, RoomTypes
<1> QED BY <1>5, <1>6

LEMMA LoadoutType ==
  ASSUME TypeOK, NEW r \in Rooms, NEW s \in Slots, NEW l \in Loadouts, HandleLoadout(r, s, l)
  PROVE  RoomTypes'
<1> DEFINE ms == [t \in Slots |-> IF t = Opponent(s) THEN <<Loadout(l)>> ELSE <<>>]
<1>1. ms \in [Slots -> Seq(Message)]
  BY MessageTypes
<1>2. out' = Told(ToSlots(r, ms))
  BY DEF HandleLoadout
<1>3. out' \in [Conns -> Seq(Message)]
  BY <1>1, <1>2, ToSlotsType, ToldType
<1> QED BY <1>3, TypeSplit DEF HandleLoadout, RoomTypes

LEMMA PingType ==
  ASSUME TypeOK, NEW r \in Rooms, SendPing(r)
  PROVE  RoomTypes'
<1> DEFINE ms == [t \in Slots |-> <<Ping>>]
<1>1. ms \in [Slots -> Seq(Message)]
  BY MessageTypes
<1>2. out' = Told(ToSlots(r, ms))
  BY DEF SendPing
<1>3. out' \in [Conns -> Seq(Message)]
  BY <1>1, <1>2, ToSlotsType, ToldType
<1> QED BY <1>3, TypeSplit DEF SendPing, RoomTypes

LEMMA EndType ==
  ASSUME TypeOK, NEW r \in Rooms, NEW s \in Slots, EndRoom(r, s)
  PROVE  RoomTypes'
<1>1. Farewell(s) \in [Slots -> Seq(Message)]
  BY MessageTypes, OpponentType DEF Farewell, WinnerWhenClosed
<1>2. out' \in [Conns -> Seq(Message)]
  BY <1>1, ToSlotsType, ToldType DEF EndRoom
<1> QED BY <1>2, OpponentType, TypeSplit DEF EndRoom, RoomTypes, WinnerWhenClosed

LEMMA CloseType ==
  ASSUME TypeOK, NEW c \in Conns, CloseEvent(c)
  PROVE  TypeOK'
<1>1. RoomTypes /\ OtherTypes
  BY TypeSplit
<1>2. CASE CloseStranger(c)
  BY <1>1, <1>2, TypeSplitNext
     DEF CloseEvent, CloseStranger, roomVars, managerVars, RoomTypes, OtherTypes
<1>3. ASSUME NEW r \in Rooms, NEW s \in Slots, CloseAttached(c, r, s)
      PROVE  TypeOK'
  <2>1. CASE Live(r)
    <3>1. RoomTypes'
      BY <1>3, <2>1, EndType DEF CloseAttached, HandleClose
    <3>2. OtherTypes'
      BY <1>1, <1>3, <2>1 DEF CloseEvent, CloseAttached, HandleRoomEnd, Forgotten, OtherTypes
    <3> QED BY <3>1, <3>2, TypeSplitNext
  <2>2. CASE ~Live(r)
    <3>1. RoomTypes'
      BY <1>1, <1>3, <2>2 DEF CloseAttached, HandleClose, roomVars, RoomTypes
    <3>2. OtherTypes'
      BY <1>1, <1>3, <2>2 DEF CloseEvent, CloseAttached, OtherTypes
    <3> QED BY <3>1, <3>2, TypeSplitNext
  <2> QED BY <2>1, <2>2
<1> QED BY <1>2, <1>3 DEF CloseEvent

LEMMA RestartType ==
  ASSUME TypeOK, Restart
  PROVE  TypeOK'
BY TypeSplit, TypeSplitNext DEF Restart, Live, RoomTypes, OtherTypes

LEMMA InitType == Init => TypeOK
<1> SUFFICES ASSUME Init PROVE TypeOK
  OBVIOUS
<1>1. \A S : <<>> \in Seq(S)
  BY EmptySeq
<1>2. EmptyLog \in Logs
  BY <1>1 DEF EmptyLog, Logs
<1>3. RoomTypes
  BY <1>1, <1>2 DEF Init, RoomTypes
<1>4. OtherTypes
  BY RoomAssumption, ServerAssumption DEF Init, OtherTypes
<1> QED BY <1>3, <1>4, TypeSplit

LEMMA NextType ==
  ASSUME TypeOK, [Next]_vars
  PROVE  TypeOK'
<1>0. RoomTypes /\ OtherTypes
  BY TypeSplit
<1>1. ASSUME NEW r \in Rooms, NEW i \in Ids, NEW ps \in Invitations, CreateRoom(r, i, ps)
      PROVE  TypeOK'
  BY <1>0, <1>1, TypeSplitNext DEF CreateRoom, Invitations, RoomTypes, OtherTypes
<1>2. ASSUME NEW c \in Conns, Connect(c)
      PROVE  TypeOK'
  BY <1>0, <1>2, TypeSplitNext DEF Connect, roomVars, managerVars, RoomTypes, OtherTypes
<1>3. ASSUME NEW c \in Conns, HangUp(c)
      PROVE  TypeOK'
  BY <1>0, <1>3, TypeSplitNext DEF HangUp, roomVars, managerVars, RoomTypes, OtherTypes
<1>4. ASSUME NEW c \in Conns, RefuseOther(c)
      PROVE  TypeOK'
  BY <1>0, <1>4, TypeSplitNext
     DEF RefuseOther, FirstMessage, ServerCloses, roomVars, managerVars, RoomTypes, OtherTypes
<1>5. ASSUME NEW c \in Conns, NEW i \in Ids, NEW s \in Slots, RefuseJoin(c, i, s)
      PROVE  TypeOK'
  BY <1>0, <1>5, TypeSplitNext
     DEF RefuseJoin, FirstMessage, ServerCloses, roomVars, managerVars, RoomTypes, OtherTypes
<1>6. ASSUME NEW c \in Conns, NEW i \in Ids, NEW s \in Slots, Join(c, i, s)
      PROVE  TypeOK'
  <2>1. rooms[i] \in Rooms
    BY <1>0, <1>6 DEF Join, Admissible, OtherTypes
  <2>2. RoomTypes'
    BY <1>6, <2>1, AttachType DEF Join
  <2>3. OtherTypes'
    BY <1>0, <1>6 DEF Join, FirstMessage, managerVars, OtherTypes
  <2> QED BY <2>2, <2>3, TypeSplitNext
<1>7. ASSUME NEW r \in Rooms, NEW s \in Slots, NEW i \in Inputs, Input(r, s, i)
      PROVE  TypeOK'
  <2>1. RoomTypes' /\ clock' \in [Conns -> Nat]
    BY <1>7, InputType DEF Input
  <2>2. OtherTypes'
    BY <1>0, <1>7, <2>1 DEF Input, HandleInput, managerVars, OtherTypes
  <2> QED BY <2>1, <2>2, TypeSplitNext
<1>8. ASSUME NEW r \in Rooms, NEW s \in Slots, NEW l \in Loadouts, ForwardLoadout(r, s, l)
      PROVE  TypeOK'
  <2>1. RoomTypes'
    BY <1>8, LoadoutType DEF ForwardLoadout
  <2>2. OtherTypes'
    BY <1>0, <1>8 DEF ForwardLoadout, HandleLoadout, managerVars, OtherTypes
  <2> QED BY <2>1, <2>2, TypeSplitNext
<1>9. ASSUME NEW r \in Rooms, PingTick(r)
      PROVE  TypeOK'
  <2>1. RoomTypes'
    BY <1>9, PingType DEF PingTick
  <2>2. OtherTypes'
    BY <1>0, <1>9 DEF PingTick, SendPing, managerVars, OtherTypes
  <2> QED BY <2>1, <2>2, TypeSplitNext
<1>10. ASSUME NEW c \in Conns, CloseEvent(c)
       PROVE  TypeOK'
  BY <1>10, CloseType
<1>11. ASSUME Restart PROVE TypeOK'
  BY <1>11, RestartType
<1>12. CASE UNCHANGED vars
  BY <1>0, <1>12, TypeSplitNext DEF vars, roomVars, managerVars, RoomTypes, OtherTypes
<1> QED
  BY <1>1, <1>2, <1>3, <1>4, <1>5, <1>6, <1>7, <1>8, <1>9, <1>10, <1>11, <1>12
     DEF Next, Crash, InputOverflow

\* The relay's variables keep their types, for all values of the constants.
THEOREM TypeCorrect == Spec => []TypeOK
<1>1. Init => TypeOK
  BY InitType
<1>2. TypeOK /\ [Next]_vars => TypeOK'
  BY NextType
<1> QED BY <1>1, <1>2, PTL DEF Spec

-------------------------------------------------------------------------------
(***************************************************************************)
(* The seats and the registry.  OneSeat is not inductive by itself: a      *)
(* connection that could still speak its first message must hold no slot,  *)
(* a room that does not exist yet must have empty slots, and the map must  *)
(* lead to live rooms only.  This much needs no assumption on room ids.    *)
(***************************************************************************)
SeatInv ==
  /\ \A c \in Conns, r \in Rooms, s \in Slots :
       Holds(c, r, s) => c \notin awaited /\ ws[c] # "new"
  /\ \A c \in awaited : ws[c] # "new"
  /\ \A r \in Rooms, s \in Slots : state[r] = "unborn" => slots[r][s] = NoConn
  /\ \A i \in Ids : rooms[i] # NoRoom => idOf[rooms[i]] = i /\ Live(rooms[i])
  /\ \A r \in Rooms : (state[r] = "active") <=> pingTimer[r]
  /\ OneSeat

\* Every action but the four below leaves the seats, the registry and the
\* timers alone and makes nobody "new" or awaited.
Quiet ==
  /\ UNCHANGED <<state, slots, pingTimer, rooms, idOf, invited>>
  /\ awaited' \subseteq awaited
  /\ \A c \in Conns : (ws[c] # "new") => (ws'[c] # "new")

LEMMA QuietKeepsSeats == ASSUME SeatInv, TypeOK, Quiet PROVE SeatInv'
BY DEF SeatInv, Quiet, OneSeat, Holds, Live, Registered, TypeOK

LEMMA InitSeats == Init => SeatInv
BY RoomAssumption, ServerAssumption DEF Init, SeatInv, OneSeat, Holds, Live, Registered

LEMMA CreateRoomSeats ==
  ASSUME SeatInv, TypeOK, NEW r \in Rooms, NEW i \in Ids, NEW ps \in Invitations,
         CreateRoom(r, i, ps)
  PROVE  SeatInv'
<1> USE DEF CreateRoom, TypeOK
<1>1. \A c \in Conns, s \in Slots : ~Holds(c, r, s)
  BY RoomAssumption DEF SeatInv, Holds
<1>2. OneSeat'
  BY <1>1 DEF SeatInv, OneSeat, Holds
<1>3. \A j \in Ids : rooms'[j] # NoRoom => idOf'[rooms'[j]] = j /\ state'[rooms'[j]] \in {"waiting", "active"}
  <2> SUFFICES ASSUME NEW j \in Ids, rooms'[j] # NoRoom
               PROVE idOf'[rooms'[j]] = j /\ state'[rooms'[j]] \in {"waiting", "active"}
    OBVIOUS
  <2>1. CASE j = i
    BY <2>1 DEF Live
  <2>2. CASE j # i
    <3>1. rooms'[j] = rooms[j] /\ rooms[j] # r /\ rooms[j] \in Rooms
      <4>1. rooms'[j] = rooms[j] /\ rooms[j] \in Rooms
        BY <2>2
      <4>2. Live(rooms[j])
        BY <4>1, ServerAssumption DEF SeatInv
      <4> QED BY <4>1, <4>2 DEF Live
    <3>2. idOf[rooms[j]] = j /\ state[rooms[j]] \in {"waiting", "active"}
      BY <3>1, ServerAssumption DEF SeatInv, Live
    <3>3. state'[rooms[j]] = state[rooms[j]] /\ idOf'[rooms[j]] = idOf[rooms[j]]
      BY <3>1
    <3> QED BY <3>1, <3>2, <3>3
  <2> QED BY <2>1, <2>2
<1>4. \A q \in Rooms : (state'[q] = "active") <=> pingTimer'[q]
  BY DEF SeatInv
<1>6. \A q \in Rooms, s \in Slots : state'[q] = "unborn" => slots'[q][s] = NoConn
  BY DEF SeatInv
<1>7. /\ \A c \in Conns, q \in Rooms, s \in Slots :
           Holds(c, q, s)' => c \notin awaited' /\ ws'[c] # "new"
      /\ \A c \in awaited' : ws'[c] # "new"
  BY DEF SeatInv, Holds
<1> QED BY <1>2, <1>3, <1>4, <1>6, <1>7 DEF SeatInv, Live

LEMMA ConnectSeats ==
  ASSUME SeatInv, TypeOK, NEW c \in Conns, Connect(c)
  PROVE  SeatInv'
BY DEF SeatInv, TypeOK, Connect, roomVars, managerVars, OneSeat, Holds, Live, Registered

LEMMA JoinSeats ==
  ASSUME SeatInv, TypeOK, NEW c \in Conns, NEW i \in Ids, NEW s \in Slots, Join(c, i, s),
         NEW r \in Rooms, r = rooms[i]
  PROVE  SeatInv'
<1> USE DEF TypeOK
<1>1. r \in Rooms /\ idOf[r] = i /\ Live(r) /\ invited[r][s] = Owner[c]
  BY DEF Join, Admissible, SeatInv
<1>2. c \in awaited /\ ws[c] # "new" /\ awaited' = awaited \ {c}
  BY DEF Join, FirstMessage
<1>3. slots' = [slots EXCEPT ![r][s] = c] /\ UNCHANGED <<ws, managerVars>>
  BY DEF Join, Attach
<1>4. \A q \in Rooms, t \in Slots : ~Holds(c, q, t)
  BY <1>2 DEF SeatInv
<1>5. \A d \in Conns, q \in Rooms, t \in Slots :
        Holds(d, q, t)' => Holds(d, q, t) \/ (d = c /\ q = r /\ t = s)
  BY <1>1, <1>3 DEF Holds
<1>6. OneSeat'
  <2> SUFFICES ASSUME NEW d \in Conns, NEW q1 \in Rooms, NEW q2 \in Rooms,
                      NEW t1 \in Slots, NEW t2 \in Slots, Holds(d, q1, t1)'
               PROVE  /\ Owner[d] = invited'[q1][t1]
                      /\ Holds(d, q2, t2)' => q1 = q2 /\ t1 = t2
    BY DEF OneSeat
  <2>1. invited' = invited
    BY <1>3 DEF managerVars
  <2>4. \A e \in Conns, x1, x2 \in Rooms, y1, y2 \in Slots :
           Holds(e, x1, y1) =>
             Owner[e] = invited[x1][y1] /\ (Holds(e, x2, y2) => x1 = x2 /\ y1 = y2)
    BY DEF SeatInv, OneSeat
  <2>2. Owner[d] = invited'[q1][t1]
    <3>1. CASE Holds(d, q1, t1)
      BY <2>1, <2>4, <3>1
    <3>2. CASE d = c /\ q1 = r /\ t1 = s
      BY <1>1, <2>1, <3>2
    <3> QED BY <1>5, <3>1, <3>2
  <2>3. Holds(d, q2, t2)' => q1 = q2 /\ t1 = t2
    <3> SUFFICES ASSUME Holds(d, q2, t2)' PROVE q1 = q2 /\ t1 = t2
      OBVIOUS
    <3>1. CASE d = c
      BY <1>4, <1>5, <3>1
    <3>2. CASE d # c
      <4>1. Holds(d, q1, t1) /\ Holds(d, q2, t2)
        BY <1>5, <3>2
      <4> QED BY <2>4, <4>1
    <3> QED BY <3>1, <3>2
  <2> QED BY <2>2, <2>3
<1>7. \A q \in Rooms : Live(q) => Live(q)'
  BY <1>1 DEF Join, Attach, Live
<1>8. \A q \in Rooms : state[q] # "unborn" => state'[q] # "unborn"
  BY <1>1 DEF Join, Attach
<1>9. \A q \in Rooms : (state'[q] = "active") <=> pingTimer'[q]
  <2>0. (\A q \in Rooms : (state[q] = "active") <=> pingTimer[q]) /\ Attach(r, s, c)
    BY DEF SeatInv, Join
  <2>1. CASE StartsMatch(r, s)
    <3>1. state' = [state EXCEPT ![r] = "active"] /\ pingTimer' = [pingTimer EXCEPT ![r] = TRUE]
      BY <2>0, <2>1 DEF Attach
    <3> QED BY <1>1, <2>0, <3>1
  <2>2. CASE ~StartsMatch(r, s)
    BY <2>0, <2>2 DEF Attach
  <2> QED BY <2>1, <2>2
<1>10. \A q \in Rooms, t \in Slots : state'[q] = "unborn" => slots'[q][t] = NoConn
  <2> SUFFICES ASSUME NEW q \in Rooms, NEW t \in Slots, state'[q] = "unborn"
               PROVE slots'[q][t] = NoConn
    OBVIOUS
  <2>1. state[q] = "unborn"
    BY <1>1 DEF Join, Attach
  <2>2. q # r
    BY <1>1, <2>1 DEF Live
  <2> QED BY <1>3, <2>1, <2>2 DEF SeatInv
<1> QED BY <1>2, <1>3, <1>5, <1>6, <1>7, <1>9, <1>10
        DEF SeatInv, managerVars, Registered

LEMMA CloseSeats ==
  ASSUME SeatInv, TypeOK, NEW c \in Conns, CloseEvent(c)
  PROVE  SeatInv'
<1>1. /\ awaited' \subseteq awaited
      /\ \A d \in Conns : (ws[d] # "new") => (ws'[d] # "new")
  BY DEF CloseEvent, TypeOK
<1>2. ASSUME UNCHANGED <<roomVars, managerVars>> PROVE SeatInv'
  BY <1>1, <1>2, QuietKeepsSeats DEF Quiet, roomVars, managerVars
<1>3. ASSUME NEW r \in Rooms, NEW s \in Slots, Live(r),
             EndRoom(r, s), HandleRoomEnd(r), UNCHANGED <<idOf, invited>>
      PROVE  SeatInv'
  <2> USE <1>3 DEF TypeOK
  <2>1. \A i \in Ids : rooms'[i] # NoRoom => rooms'[i] = rooms[i] /\ rooms[i] # r
    BY DEF HandleRoomEnd, Forgotten, SeatInv
  <2>2. \A q \in Rooms : q # r => state'[q] = state[q] /\ pingTimer'[q] = pingTimer[q]
    BY DEF EndRoom
  <2>3. state'[r] = "closed" /\ pingTimer'[r] = FALSE
    BY DEF EndRoom
  <2>4. \A i \in Ids : rooms'[i] # NoRoom => idOf'[rooms'[i]] = i /\ state'[rooms'[i]] \in {"waiting", "active"}
    BY <2>1, <2>2 DEF SeatInv, Live
  <2>6. OneSeat'
    BY DEF SeatInv, OneSeat, EndRoom, Holds
  <2>7. /\ \A q \in Rooms : (state'[q] = "active") <=> pingTimer'[q]
        /\ \A q \in Rooms, t \in Slots : state'[q] = "unborn" => slots'[q][t] = NoConn
    BY <2>2, <2>3 DEF SeatInv, EndRoom
  <2>8. /\ \A d \in Conns, q \in Rooms, t \in Slots :
             Holds(d, q, t)' => d \notin awaited' /\ ws'[d] # "new"
        /\ \A d \in awaited' : ws'[d] # "new"
    BY <1>1 DEF SeatInv, EndRoom, Holds
  <2> QED BY <2>4, <2>6, <2>7, <2>8 DEF SeatInv, Live
<1> QED BY <1>2, <1>3
        DEF CloseEvent, CloseStranger, CloseAttached, HandleClose, roomVars, managerVars

LEMMA RestartSeats ==
  ASSUME SeatInv, TypeOK, Restart
  PROVE  SeatInv'
<1> USE DEF Restart, TypeOK
<1>1. OneSeat'
  BY DEF SeatInv, OneSeat, Holds
<1>2. \A q \in Rooms : ~Live(q)' /\ (state'[q] = "unborn" => state[q] = "unborn")
  BY DEF Live
<1>3. \A q \in Rooms : state'[q] # "active" /\ pingTimer'[q] = FALSE
  BY DEF Live
<1>4. \A i \in Ids : rooms'[i] = NoRoom
  OBVIOUS
<1> QED BY <1>1, <1>2, <1>3, <1>4 DEF SeatInv, Holds, Registered

LEMMA NextSeats ==
  ASSUME SeatInv, TypeOK, [Next]_vars
  PROVE  SeatInv'
<1>1. ASSUME NEW c \in Conns, HangUp(c) \/ RefuseOther(c) PROVE Quiet
  BY <1>1 DEF Quiet, TypeOK, HangUp, RefuseOther, FirstMessage, ServerCloses,
              roomVars, managerVars
<1>2. ASSUME NEW c \in Conns, NEW i \in Ids, NEW s \in Slots, RefuseJoin(c, i, s) PROVE Quiet
  BY <1>2 DEF Quiet, TypeOK, RefuseJoin, FirstMessage, ServerCloses, roomVars, managerVars
<1>3. ASSUME NEW r \in Rooms, NEW s \in Slots, NEW i \in Inputs, Input(r, s, i) PROVE Quiet
  BY <1>3 DEF Quiet, Input, HandleInput, managerVars
<1>4. ASSUME NEW r \in Rooms, NEW s \in Slots, NEW l \in Loadouts, ForwardLoadout(r, s, l)
      PROVE Quiet
  BY <1>4 DEF Quiet, ForwardLoadout, HandleLoadout, managerVars
<1>5. ASSUME NEW r \in Rooms, PingTick(r) PROVE Quiet
  BY <1>5 DEF Quiet, PingTick, SendPing, managerVars
<1>6. UNCHANGED vars => Quiet
  BY DEF Quiet, vars, roomVars, managerVars
<1>7. ASSUME NEW c \in Conns, NEW i \in Ids, NEW s \in Slots, Join(c, i, s)
      PROVE  rooms[i] \in Rooms
  BY <1>7 DEF Join, Admissible, TypeOK
<1> QED
  BY <1>1, <1>2, <1>3, <1>4, <1>5, <1>6, <1>7, QuietKeepsSeats,
     CreateRoomSeats, ConnectSeats, JoinSeats, CloseSeats, RestartSeats
     DEF Next, Crash, InputOverflow

\* A connection never holds two slots, nor a slot of another player's.
THEOREM SeatsCorrect == Spec => []OneSeat
<1>1. Init => TypeOK /\ SeatInv
  BY InitType, InitSeats
<1>2. TypeOK /\ SeatInv /\ [Next]_vars => (TypeOK /\ SeatInv)'
  BY NextType, NextSeats
<1>3. SeatInv => OneSeat
  BY DEF SeatInv
<1> QED BY <1>1, <1>2, <1>3, PTL DEF Spec

-------------------------------------------------------------------------------
(***************************************************************************)
(* The registry.  A live room can be missing from the map only after       *)
(* another room of its id was made: such a room is never unborn again, so  *)
(* it stays the witness, even when it has ended.                           *)
(***************************************************************************)
Born(r) == state[r] # "unborn"

Findable(r) == Live(r) => (rooms[idOf[r]] = r \/ SharesId(r))

FindInv == \A r \in Rooms : Findable(r)

LEMMA FindGivesRegistry == ASSUME TypeOK, SeatInv, FindInv PROVE RegistrySound
BY ServerAssumption DEF SeatInv, FindInv, Findable, RegistrySound, Registered

\* What all actions but CreateRoom, CloseEvent and Restart do to the registry.
KeepsRegistry ==
  /\ UNCHANGED <<rooms, idOf>>
  /\ \A r \in Rooms : (Live(r)' => Live(r)) /\ (Born(r) => Born(r)')

LEMMA KeepsFindable == ASSUME FindInv, TypeOK, KeepsRegistry PROVE FindInv'
BY DEF FindInv, Findable, SharesId, Born, KeepsRegistry, TypeOK

LEMMA NextFindable ==
  ASSUME FindInv, SeatInv, TypeOK, [Next]_vars
  PROVE  FindInv'
<1>1. ASSUME NEW r \in Rooms, NEW i \in Ids, NEW ps \in Invitations, CreateRoom(r, i, ps)
      PROVE  FindInv'
  <2>1. /\ idOf' = [idOf EXCEPT ![r] = i] /\ ~Born(r)
        /\ rooms' = [rooms EXCEPT ![i] = r] /\ state' = [state EXCEPT ![r] = "waiting"]
    BY <1>1 DEF CreateRoom, Born
  <2>2. \A q \in Rooms : q # r => state'[q] = state[q] /\ idOf'[q] = idOf[q]
    BY <2>1 DEF TypeOK
  <2>3. idOf'[r] = i /\ rooms'[i] = r /\ state'[r] = "waiting"
    BY <2>1 DEF TypeOK
  <2> SUFFICES ASSUME NEW q \in Rooms, Live(q)'
               PROVE  rooms'[idOf'[q]] = q \/ SharesId(q)'
    BY DEF FindInv, Findable
  <2>4. CASE q = r
    BY <2>3, <2>4
  <2>5. CASE q # r /\ idOf[q] = i
    BY <2>2, <2>3, <2>5 DEF SharesId
  <2>6. CASE q # r /\ idOf[q] # i
    <3>1. Live(q) /\ idOf'[q] = idOf[q] /\ rooms'[idOf[q]] = rooms[idOf[q]]
      BY <2>1, <2>2, <2>6 DEF Live, TypeOK
    <3>2. CASE rooms[idOf[q]] = q
      BY <3>1, <3>2
    <3>3. CASE SharesId(q)
      <4>1. PICK w \in Rooms \ {q} : state[w] # "unborn" /\ idOf[w] = idOf[q]
        BY <3>3 DEF SharesId
      <4>2. w # r
        BY <2>1, <4>1 DEF Born
      <4> QED BY <2>2, <3>1, <4>1, <4>2 DEF SharesId
    <3> QED BY <3>1, <3>2, <3>3 DEF FindInv, Findable
  <2> QED BY <2>4, <2>5, <2>6
<1>2. ASSUME NEW c \in Conns, NEW i \in Ids, NEW s \in Slots, Join(c, i, s)
      PROVE  KeepsRegistry
  <2>1. rooms[i] \in Rooms /\ Live(rooms[i])
    BY <1>2 DEF Join, Admissible, SeatInv, TypeOK
  <2>2. \A q \in Rooms : state'[q] = state[q] \/ (q = rooms[i] /\ state'[q] = "active")
    BY <1>2, <2>1 DEF Join, Attach, TypeOK
  <2> QED BY <1>2, <2>1, <2>2 DEF KeepsRegistry, Join, managerVars, Live, Born
<1>3. ASSUME NEW c \in Conns, CloseEvent(c)
      PROVE  FindInv'
  <2>1. ASSUME UNCHANGED <<roomVars, managerVars>> PROVE KeepsRegistry
    BY <2>1 DEF KeepsRegistry, roomVars, managerVars, Live, Born
  <2>2. ASSUME NEW r \in Rooms, NEW s \in Slots, Live(r),
               EndRoom(r, s), HandleRoomEnd(r), UNCHANGED <<idOf, invited>>
        PROVE  FindInv'
    <3>1. \A q \in Rooms : (Live(q)' => Live(q) /\ q # r) /\ (Born(q) => Born(q)') /\ Born(r)
      BY <2>2 DEF EndRoom, TypeOK, Live, Born
    <3> SUFFICES ASSUME NEW q \in Rooms, Live(q)'
                 PROVE  rooms'[idOf[q]] = q \/ SharesId(q)'
      BY <2>2 DEF FindInv, Findable
    <3>2. CASE idOf[q] = idOf[r]
      BY <2>2, <3>1, <3>2 DEF SharesId, Born
    <3>3. CASE idOf[q] # idOf[r]
      <4>1. rooms'[idOf[q]] = rooms[idOf[q]]
        BY <2>2, <3>3 DEF HandleRoomEnd, Forgotten, TypeOK
      <4>2. rooms[idOf[q]] = q \/ SharesId(q)
        BY <3>1 DEF FindInv, Findable
      <4>3. SharesId(q) => SharesId(q)'
        BY <2>2, <3>1 DEF SharesId, Born
      <4> QED BY <4>1, <4>2, <4>3
    <3> QED BY <3>2, <3>3
  <2> QED BY <1>3, <2>1, <2>2, KeepsFindable
          DEF CloseEvent, CloseStranger, CloseAttached, HandleClose, roomVars, managerVars
<1>4. ASSUME Restart PROVE FindInv'
  <2>1. \A q \in Rooms : ~Live(q)'
    BY <1>4 DEF Restart, TypeOK, Live
  <2> QED BY <2>1 DEF FindInv, Findable
<1>5. ASSUME NEW c \in Conns, Connect(c) \/ HangUp(c) \/ RefuseOther(c) PROVE KeepsRegistry
  BY <1>5 DEF KeepsRegistry, Connect, HangUp, RefuseOther, roomVars, managerVars, Live, Born
<1>6. ASSUME NEW c \in Conns, NEW i \in Ids, NEW s \in Slots, RefuseJoin(c, i, s)
      PROVE  KeepsRegistry
  BY <1>6 DEF KeepsRegistry, RefuseJoin, roomVars, managerVars, Live, Born
<1>7. ASSUME NEW r \in Rooms, NEW s \in Slots, NEW i \in Inputs, Input(r, s, i)
      PROVE  KeepsRegistry
  BY <1>7 DEF KeepsRegistry, Input, HandleInput, managerVars, Live, Born
<1>8. ASSUME NEW r \in Rooms, NEW s \in Slots, NEW l \in Loadouts, ForwardLoadout(r, s, l)
      PROVE  KeepsRegistry
  BY <1>8 DEF KeepsRegistry, ForwardLoadout, HandleLoadout, managerVars, Live, Born
<1>9. ASSUME NEW r \in Rooms, PingTick(r) PROVE KeepsRegistry
  BY <1>9 DEF KeepsRegistry, PingTick, SendPing, managerVars, Live, Born
<1>10. UNCHANGED vars => KeepsRegistry
  BY DEF KeepsRegistry, vars, roomVars, managerVars, Live, Born
<1> QED
  BY <1>1, <1>2, <1>3, <1>4, <1>5, <1>6, <1>7, <1>8, <1>9, <1>10, KeepsFindable
     DEF Next, Crash, InputOverflow

\* Whatever ids are posted, the map leads to live rooms under their own ids,
\* a live room is missing from it only if another room of its id was made,
\* and timers run exactly while matches do.
THEOREM RegistryCorrect == Spec => []RegistrySound
<1>1. Init => TypeOK /\ SeatInv /\ FindInv
  <2>1. Init => FindInv
    BY DEF Init, FindInv, Findable, Live
  <2> QED BY <2>1, InitType, InitSeats
<1>2. TypeOK /\ SeatInv /\ FindInv /\ [Next]_vars => (TypeOK /\ SeatInv /\ FindInv)'
  BY NextType, NextSeats, NextFindable
<1>3. TypeOK /\ SeatInv /\ FindInv => RegistrySound
  BY FindGivesRegistry
<1> QED BY <1>1, <1>2, <1>3, PTL DEF Spec

-------------------------------------------------------------------------------
(***************************************************************************)
(* The verdict.  A room that is over hears and says nothing any more, so   *)
(* that the last word its winner has heard stays the result.               *)
(***************************************************************************)
Over(r) == state[r] = "closed"

LEMMA ToldNothing ==
  ASSUME TypeOK, NEW c \in Conns, NEW msgs \in [Conns -> Seq(Message)], msgs[c] = <<>>
  PROVE  Told(msgs)[c] = out[c]
<1>1. out[c] \in Seq(Message)
  BY DEF TypeOK
<1>2. out[c] \o <<>> = out[c]
  BY <1>1, ConcatEmptySeq
<1> QED BY <1>2 DEF Told

\* Who holds a slot of one room hears nothing that is said in another.
LEMMA OtherRoomSilent ==
  ASSUME TypeOK, SeatInv, NEW r \in Rooms, NEW q \in Rooms, r # q, NEW s \in Slots,
         NEW c \in Conns, Holds(c, r, s), NEW ms \in [Slots -> Seq(Message)]
  PROVE  Told(ToSlots(q, ms))[c] = out[c]
<1>1. ~Holds(c, q, 0) /\ ~Holds(c, q, 1)
  BY DEF SeatInv, OneSeat, Slots
<1>2. ToSlots(q, ms)[c] = <<>>
  BY <1>1 DEF ToSlots
<1> QED BY <1>2, ToSlotsType, ToldNothing

\* What every step but the end of a room does to the rooms that are over.
KeepsVerdicts ==
  /\ \A r \in Rooms : Over(r)' <=> Over(r)
  /\ verdict' = verdict
  /\ \A r \in Rooms, s \in Slots : Over(r) => slots'[r][s] = slots[r][s]
  /\ \A c \in Conns : ws[c] = "closed" => ws'[c] = "closed"
  /\ \A c \in Conns, r \in Rooms, s \in Slots :
       Over(r) /\ Holds(c, r, s) /\ ws'[c] = "open" => ws[c] = "open" /\ out'[c] = out[c]

LEMMA KeepsVerdictSound ==
  ASSUME TypeOK, VerdictSound, KeepsVerdicts
  PROVE  VerdictSound'
<1> SUFFICES ASSUME NEW r \in Rooms
             PROVE
               /\ (state'[r] = "closed") <=> (verdict'[r] # Undecided)
               /\ verdict'[r] # Undecided =>
                    LET loser  == slots'[r][Opponent(verdict'[r])]
                        winner == slots'[r][verdict'[r]]
                    IN /\ loser # NoConn /\ ws'[loser] = "closed"
                       /\ winner # NoConn /\ ws'[winner] = "open" =>
                            out'[winner][Len(out'[winner])] = End(verdict'[r])
  BY DEF VerdictSound
<1>1. (state'[r] = "closed") <=> (verdict'[r] # Undecided)
  BY DEF VerdictSound, KeepsVerdicts, Over
<1>2. CASE verdict'[r] = Undecided
  BY <1>1, <1>2
<1>3. CASE verdict'[r] # Undecided
  <2> DEFINE w == verdict[r]
             loser == slots[r][Opponent(w)]
             winner == slots[r][w]
  <2>1. w = verdict'[r] /\ w \in Slots /\ Opponent(w) \in Slots /\ Over(r)
    BY <1>3, OpponentType DEF KeepsVerdicts, VerdictSound, TypeOK, Over
  <2>2. slots'[r][Opponent(w)] = loser /\ slots'[r][w] = winner
    BY <2>1 DEF KeepsVerdicts
  <2>3. loser # NoConn /\ loser \in Conns /\ ws[loser] = "closed"
    BY <1>3, <2>1 DEF VerdictSound, TypeOK
  <2>4. ws'[loser] = "closed"
    BY <2>3 DEF KeepsVerdicts
  <2>5. ASSUME winner # NoConn, ws'[winner] = "open"
        PROVE  out'[winner][Len(out'[winner])] = End(w)
    <3>1. winner \in Conns
      BY <2>1, <2>5 DEF TypeOK
    <3>2. ws[winner] = "open" /\ out'[winner] = out[winner]
      BY <2>1, <2>5, <3>1 DEF KeepsVerdicts, Holds
    <3>3. out[winner][Len(out[winner])] = End(w)
      BY <1>3, <2>1, <2>5, <3>2 DEF VerdictSound
    <3> QED BY <3>2, <3>3
  <2> QED BY <1>1, <2>1, <2>2, <2>3, <2>4, <2>5
<1> QED BY <1>2, <1>3

\* Ending a live room settles it and leaves the others alone.
LEMMA EndVerdictSound ==
  ASSUME TypeOK, SeatInv, VerdictSound, NEW c \in Conns, NEW r \in Rooms, NEW s \in Slots,
         Holds(c, r, s), Live(r), EndRoom(r, s),
         ws[c] = "closing", ws' = [ws EXCEPT ![c] = "closed"]
  PROVE  VerdictSound'
<1>2. Farewell(s) \in [Slots -> Seq(Message)]
  BY MessageTypes, OpponentType DEF Farewell, WinnerWhenClosed
<1>7. ASSUME NEW q \in Rooms, NEW d \in Conns, NEW t \in Slots, q # r, Holds(d, q, t)
      PROVE  Told(ToSlots(r, Farewell(s)))[d] = out[d]
  BY <1>2, <1>7, OtherRoomSilent
<1> USE DEF TypeOK
<1> DEFINE w == Opponent(s)
           d == slots[r][w]
           V(q) ==
               /\ (state'[q] = "closed") <=> (verdict'[q] # Undecided)
               /\ verdict'[q] # Undecided =>
                    LET loser  == slots'[q][Opponent(verdict'[q])]
                        winner == slots'[q][verdict'[q]]
                    IN /\ loser # NoConn /\ ws'[loser] = "closed"
                       /\ winner # NoConn /\ ws'[winner] = "open" =>
                            out'[winner][Len(out'[winner])] = End(verdict'[q])
<1>1. w \in Slots /\ w # s /\ Opponent(w) = s /\ w # Undecided
  BY DEF Slots, Opponent, Undecided
<1>3. slots' = slots /\ state'[r] = "closed" /\ verdict'[r] = w
  BY DEF EndRoom, WinnerWhenClosed
<1>4. V(r)
  <2>1. c # NoConn /\ ws'[c] = "closed" /\ slots'[r][Opponent(w)] = c
    BY <1>1, <1>3, RoomAssumption DEF Holds
  <2>2. ASSUME d # NoConn, ws'[d] = "open"
        PROVE  out'[d][Len(out'[d])] = End(w)
    <3>1. d \in Conns /\ d # c /\ ws[d] = "open"
      BY <1>1, <2>2 DEF EndRoom
    <3>2. ToSlots(r, Farewell(s))[d] = Farewell(s)[w]
      <4>1. Holds(d, r, w) /\ ~Holds(d, r, s)
        BY <1>1, <3>1 DEF SeatInv, OneSeat, Holds
      <4> QED BY <1>1, <3>1, <4>1 DEF ToSlots, Slots
    <3>3. Farewell(s)[w] = <<Notice, End(w)>>
      BY <1>1 DEF Farewell, WinnerWhenClosed
    <3>4. out'[d] = out[d] \o <<Notice, End(w)>>
      BY <3>1, <3>2, <3>3 DEF EndRoom, Told
    <3>5. out[d] \in Seq(Message) /\ <<Notice, End(w)>> \in Seq(Message)
      BY <1>1, <3>1, MessageTypes
    <3>6. Len(<<Notice, End(w)>>) = 2 /\ Len(out[d]) \in Nat
      BY <3>5, LenProperties
    <3>7. Len(out'[d]) = Len(out[d]) + 2
      BY <3>4, <3>5, <3>6, ConcatProperties
    <3>8. out'[d][Len(out[d]) + 2] = <<Notice, End(w)>>[2]
      <4>1. Len(out[d]) + 2 \in 1..(Len(out[d]) + 2) /\ ~(Len(out[d]) + 2 <= Len(out[d]))
        BY <3>6
      <4>2. (Len(out[d]) + 2) - Len(out[d]) = 2
        BY <3>6
      <4> QED BY <3>4, <3>5, <3>6, <4>1, <4>2, ConcatProperties
    <3> QED BY <3>7, <3>8
  <2> QED BY <1>1, <1>3, <2>1, <2>2
<1>5. ASSUME NEW q \in Rooms, q # r PROVE V(q)
  <2>1. state'[q] = state[q] /\ verdict'[q] = verdict[q]
    BY <1>5 DEF EndRoom
  <2>2. (state[q] = "closed") <=> (verdict[q] # Undecided)
    BY DEF VerdictSound
  <2>3. CASE verdict[q] = Undecided
    BY <2>1, <2>2, <2>3
  <2>4. CASE verdict[q] # Undecided
    <3> DEFINE v == verdict[q]
               loser == slots[q][Opponent(v)]
               winner == slots[q][v]
    <3>1. v \in Slots /\ Opponent(v) \in Slots
      BY <2>4, OpponentType
    <3>2. loser # NoConn /\ loser \in Conns /\ ws[loser] = "closed"
      BY <2>4, <3>1 DEF VerdictSound
    <3>3. ws'[loser] = "closed"
      BY <3>2
    <3>4. ASSUME winner # NoConn, ws'[winner] = "open"
          PROVE  out'[winner][Len(out'[winner])] = End(v)
      <4>1. winner \in Conns /\ ws[winner] = "open" /\ Holds(winner, q, v)
        BY <3>1, <3>4 DEF Holds
      <4>2. out'[winner] = out[winner]
        <5>1. out' = Told(ToSlots(r, Farewell(s)))
          BY DEF EndRoom
        <5>2. Told(ToSlots(r, Farewell(s)))[winner] = out[winner]
          BY <1>5, <1>7, <3>1, <4>1
        <5> QED BY <5>1, <5>2
      <4>3. out[winner][Len(out[winner])] = End(v)
        BY <2>4, <3>1, <3>4, <4>1 DEF VerdictSound
      <4> QED BY <4>2, <4>3
    <3> QED BY <1>3, <2>1, <2>2, <2>4, <3>2, <3>3, <3>4
  <2> QED BY <2>3, <2>4
<1>6. \A q \in Rooms : V(q)
  BY <1>4, <1>5
<1> QED BY <1>6 DEF VerdictSound

LEMMA NextVerdict ==
  ASSUME TypeOK, SeatInv, VerdictSound, [Next]_vars
  PROVE  VerdictSound'
<1>1. ASSUME NEW r \in Rooms, NEW i \in Ids, NEW ps \in Invitations, CreateRoom(r, i, ps)
      PROVE  KeepsVerdicts
  BY <1>1 DEF CreateRoom, KeepsVerdicts, Over, TypeOK
<1>2. ASSUME NEW c \in Conns, Connect(c) PROVE KeepsVerdicts
  BY <1>2 DEF Connect, KeepsVerdicts, Over, TypeOK, roomVars, managerVars, SeatInv, Holds
<1>3. ASSUME NEW c \in Conns, HangUp(c) \/ RefuseOther(c) PROVE KeepsVerdicts
  BY <1>3 DEF HangUp, RefuseOther, FirstMessage, ServerCloses,
              KeepsVerdicts, Over, TypeOK, roomVars, managerVars
<1>4. ASSUME NEW c \in Conns, NEW i \in Ids, NEW s \in Slots, RefuseJoin(c, i, s)
      PROVE  KeepsVerdicts
  BY <1>4 DEF RefuseJoin, FirstMessage, ServerCloses,
              KeepsVerdicts, Over, TypeOK, roomVars, managerVars
<1>5. ASSUME NEW c \in Conns, NEW i \in Ids, NEW s \in Slots, Join(c, i, s)
      PROVE  KeepsVerdicts
  <2>1. PICK q \in Rooms : q = rooms[i]
    BY <1>5 DEF Join, Admissible, TypeOK
  <2>2. Live(q) /\ Attach(q, s, c) /\ ws' = ws /\ c \in awaited
    BY <1>5, <2>1 DEF Join, Admissible, SeatInv, FirstMessage
  <2>3. /\ \A r \in Rooms : Over(r)' <=> Over(r)
        /\ verdict' = verdict
        /\ \A r \in Rooms, t \in Slots : Over(r) => slots'[r][t] = slots[r][t]
    BY <2>2 DEF Attach, Over, Live, TypeOK
  <2>4. ASSUME NEW d \in Conns, NEW r \in Rooms, NEW t \in Slots, Over(r), Holds(d, r, t)
        PROVE  out'[d] = out[d]
    <3>1. d # c /\ ~Holds(d, q, Opponent(s))
      BY <2>2, <2>4, OpponentType DEF SeatInv, OneSeat, Over, Live
    <3>2. CASE StartsMatch(q, s)
      <4> DEFINE msgs == [e \in Conns |->
                       IF e = c THEN <<Waiting, Start(s)>>
                       ELSE IF Holds(e, q, Opponent(s)) THEN <<Start(Opponent(s))>>
                       ELSE <<>>]
      <4>1. msgs \in [Conns -> Seq(Message)] /\ msgs[d] = <<>>
        BY <3>1, MessageTypes, OpponentType
      <4>2. out' = Told(msgs)
        BY <2>2, <3>2 DEF Attach
      <4> HIDE DEF msgs
      <4> QED BY <4>1, <4>2, ToldNothing
    <3>3. CASE ~StartsMatch(q, s)
      <4> DEFINE msgs == [e \in Conns |-> IF e = c THEN <<Waiting>> ELSE <<>>]
      <4>1. msgs \in [Conns -> Seq(Message)] /\ msgs[d] = <<>>
        BY <3>1, MessageTypes
      <4>2. out' = Told(msgs)
        BY <2>2, <3>3 DEF Attach
      <4> HIDE DEF msgs
      <4> QED BY <4>1, <4>2, ToldNothing
    <3> QED BY <3>2, <3>3
  <2> QED BY <2>2, <2>3, <2>4 DEF KeepsVerdicts
<1>6. ASSUME NEW q \in Rooms, NEW ms \in [Slots -> Seq(Message)], ~Over(q),
             out' = Told(ToSlots(q, ms)), UNCHANGED <<state, slots, verdict, ws>>
      PROVE  KeepsVerdicts
  <2>1. ASSUME NEW d \in Conns, NEW r \in Rooms, NEW t \in Slots, Over(r), Holds(d, r, t)
        PROVE  out'[d] = out[d]
    <3>1. r # q
      BY <1>6, <2>1
    <3> QED BY <1>6, <2>1, <3>1, OtherRoomSilent
  <2> QED BY <1>6, <2>1 DEF KeepsVerdicts, Over
<1>7. ASSUME UNCHANGED <<state, slots, verdict, ws, out>> PROVE KeepsVerdicts
  BY <1>7 DEF KeepsVerdicts, Over
<1>8. ASSUME NEW r \in Rooms, NEW s \in Slots, NEW i \in Inputs, Input(r, s, i)
      PROVE  KeepsVerdicts
  <2> DEFINE o == Opponent(s)
             f == [frame |-> clock[slots[r][s]], input |-> i]
             ms == [t \in Slots |-> IF t = o THEN <<Relay(seq[r][o], f)>> ELSE <<>>]
  <2>1. UNCHANGED <<state, slots, verdict, ws>>
    BY <1>8 DEF Input, HandleInput
  <2>2. CASE TakesInput(r, i) /\ MayForward(slots[r][o])
    <3>1. Forward(r, o, f)
      BY <1>8, <2>2 DEF Input, HandleInput, Accept
    <3>2. f \in Frame /\ seq[r][o] \in Nat
      <4>1. slots[r][s] \in Conns
        BY <1>8, RoomAssumption DEF Input, HandleInput, Receives, TypeOK
      <4> QED BY <4>1, OpponentType DEF TypeOK, Frame
    <3>3. ms \in [Slots -> Seq(Message)]
      BY <3>2, MessageTypes
    <3>4. out' = Told(ToSlots(r, ms))
      BY <3>1 DEF Forward
    <3>5. ~Over(r)
      BY <2>2 DEF TakesInput, Over
    <3> HIDE DEF ms
    <3> QED BY <1>6, <2>1, <3>3, <3>4, <3>5
  <2>3. CASE ~(TakesInput(r, i) /\ MayForward(slots[r][o]))
    <3>1. out' = out
      BY <1>8, <2>3 DEF Input, HandleInput, Accept
    <3> QED BY <1>7, <2>1, <3>1
  <2> QED BY <2>2, <2>3
<1>9. ASSUME NEW r \in Rooms, NEW s \in Slots, NEW l \in Loadouts, ForwardLoadout(r, s, l)
      PROVE  KeepsVerdicts
  <2> DEFINE ms == [t \in Slots |-> IF t = Opponent(s) THEN <<Loadout(l)>> ELSE <<>>]
  <2>1. ms \in [Slots -> Seq(Message)]
    BY MessageTypes
  <2>2. out' = Told(ToSlots(r, ms)) /\ UNCHANGED <<state, slots, verdict, ws>> /\ ~Over(r)
    BY <1>9 DEF ForwardLoadout, HandleLoadout, Over
  <2> HIDE DEF ms
  <2> QED BY <1>6, <2>1, <2>2
<1>10. ASSUME NEW r \in Rooms, PingTick(r) PROVE KeepsVerdicts
  <2> DEFINE ms == [t \in Slots |-> <<Ping>>]
  <2>1. ms \in [Slots -> Seq(Message)]
    BY MessageTypes
  <2>2. out' = Told(ToSlots(r, ms)) /\ UNCHANGED <<state, slots, verdict, ws>> /\ ~Over(r)
    BY <1>10 DEF PingTick, SendPing, SeatInv, Over
  <2> HIDE DEF ms
  <2> QED BY <1>6, <2>1, <2>2
<1>11. ASSUME NEW c \in Conns, CloseEvent(c) PROVE VerdictSound'
  <2>1. ws[c] = "closing" /\ ws' = [ws EXCEPT ![c] = "closed"]
    BY <1>11 DEF CloseEvent
  <2>2. ASSUME UNCHANGED <<roomVars, out>> PROVE KeepsVerdicts
    BY <2>1, <2>2 DEF KeepsVerdicts, roomVars, Over, TypeOK
  <2>3. ASSUME NEW r \in Rooms, NEW s \in Slots, CloseAttached(c, r, s), Live(r)
        PROVE  VerdictSound'
    BY <2>1, <2>3, EndVerdictSound DEF CloseAttached, HandleClose
  <2> QED BY <1>11, <2>2, <2>3, KeepsVerdictSound
          DEF CloseEvent, CloseStranger, CloseAttached, HandleClose
<1>12. ASSUME Restart PROVE KeepsVerdicts
  BY <1>12 DEF Restart, KeepsVerdicts, Over, Live, TypeOK
<1>13. UNCHANGED vars => KeepsVerdicts
  BY <1>7 DEF vars, roomVars
<1> QED
  BY <1>1, <1>2, <1>3, <1>4, <1>5, <1>8, <1>9, <1>10, <1>11, <1>12, <1>13, KeepsVerdictSound
     DEF Next, Crash, InputOverflow

\* A room has a verdict exactly when it is over, the verdict is against a
\* player who had joined and is really gone, and the winner has been told.
THEOREM VerdictCorrect == Spec => []VerdictSound
<1>1. Init => TypeOK /\ SeatInv /\ VerdictSound
  <2>1. Init => VerdictSound
    BY DEF Init, VerdictSound
  <2> QED BY <2>1, InitType, InitSeats
<1>2. TypeOK /\ SeatInv /\ VerdictSound /\ [Next]_vars => (TypeOK /\ SeatInv /\ VerdictSound)'
  BY NextType, NextSeats, NextVerdict
<1> QED BY <1>1, <1>2, PTL DEF Spec
-------------------------------------------------------------------------------
(***************************************************************************)
(* What is over stays over.                                                *)
(***************************************************************************)
KeepsClosed ==
  \A r \in Rooms : state[r] = "closed" =>
    /\ state'[r] = "closed" /\ verdict'[r] = verdict[r]
    /\ log'[r] = log[r] /\ slots'[r] = slots[r]

LEMMA NextClosed ==
  ASSUME TypeOK, SeatInv, [Next]_vars
  PROVE  KeepsClosed
<1>1. ASSUME NEW r \in Rooms, NEW i \in Ids, NEW ps \in Invitations, CreateRoom(r, i, ps)
      PROVE  KeepsClosed
  BY <1>1 DEF CreateRoom, KeepsClosed, TypeOK
<1>2. ASSUME NEW c \in Conns, Connect(c) \/ HangUp(c) \/ RefuseOther(c) PROVE KeepsClosed
  BY <1>2 DEF Connect, HangUp, RefuseOther, KeepsClosed, roomVars
<1>3. ASSUME NEW c \in Conns, NEW i \in Ids, NEW s \in Slots, RefuseJoin(c, i, s)
      PROVE  KeepsClosed
  BY <1>3 DEF RefuseJoin, KeepsClosed, roomVars
<1>4. ASSUME NEW c \in Conns, NEW i \in Ids, NEW s \in Slots, Join(c, i, s)
      PROVE  KeepsClosed
  <2>1. PICK q \in Rooms : q = rooms[i]
    BY <1>4 DEF Join, Admissible, TypeOK
  <2>2. Live(q) /\ Attach(q, s, c)
    BY <1>4, <2>1 DEF Join, Admissible, SeatInv
  <2> QED BY <2>2 DEF Attach, Live, KeepsClosed, TypeOK
<1>5. ASSUME NEW r \in Rooms, NEW s \in Slots, NEW i \in Inputs, Input(r, s, i)
      PROVE  KeepsClosed
  BY <1>5 DEF Input, HandleInput, TakesInput, Accept, KeepsClosed, TypeOK
<1>6. ASSUME NEW r \in Rooms, NEW s \in Slots, NEW l \in Loadouts, ForwardLoadout(r, s, l)
      PROVE  KeepsClosed
  BY <1>6 DEF ForwardLoadout, HandleLoadout, KeepsClosed
<1>7. ASSUME NEW r \in Rooms, PingTick(r) PROVE KeepsClosed
  BY <1>7 DEF PingTick, SendPing, KeepsClosed
<1>8. ASSUME NEW c \in Conns, CloseEvent(c) PROVE KeepsClosed
  <2>1. UNCHANGED roomVars => KeepsClosed
    BY DEF KeepsClosed, roomVars
  <2>2. ASSUME NEW r \in Rooms, NEW s \in Slots, Live(r), EndRoom(r, s) PROVE KeepsClosed
    BY <2>2 DEF EndRoom, Live, KeepsClosed, TypeOK
  <2> QED BY <1>8, <2>1, <2>2 DEF CloseEvent, CloseStranger, CloseAttached, HandleClose
<1>9. Restart => KeepsClosed
  BY DEF Restart, Live, KeepsClosed, TypeOK
<1>10. UNCHANGED vars => KeepsClosed
  BY DEF KeepsClosed, vars, roomVars
<1> QED
  BY <1>1, <1>2, <1>3, <1>4, <1>5, <1>6, <1>7, <1>8, <1>9, <1>10
     DEF Next, Crash, InputOverflow

\* A closed room never changes its state, verdict, log or slots again.
THEOREM ClosedRoomsStay == Spec => ClosedForGood
<1>1. Init => TypeOK /\ SeatInv
  BY InitType, InitSeats
<1>2. TypeOK /\ SeatInv /\ [Next]_vars => (TypeOK /\ SeatInv)'
  BY NextType, NextSeats
<1>3. TypeOK /\ SeatInv /\ [Next]_vars =>
        [\A r \in Rooms : state[r] = "closed" =>
           /\ state'[r] = "closed" /\ verdict'[r] = verdict[r]
           /\ log'[r] = log[r] /\ slots'[r] = slots[r]]_vars
  BY NextClosed DEF KeepsClosed
<1> QED BY <1>1, <1>2, <1>3, PTL DEF Spec, ClosedForGood
-------------------------------------------------------------------------------
(***************************************************************************)
(* The slots.  The slot of a room is empty only before the match, both are *)
(* taken exactly in a match or after one, and a connection hears nothing   *)
(* before it sits.                                                         *)
(***************************************************************************)
SlotInv ==
  /\ \A r \in Rooms, s \in Slots : slots[r][s] = NoConn =>
       /\ state[r] # "active"
       /\ \A t \in Slots : seq[r][t] = 0 /\ accepted[r][t] = <<>>
  /\ \A r \in Rooms : state[r] \in {"unborn", "waiting"} => \E s \in Slots : slots[r][s] = NoConn
  /\ \A c \in Conns : (\A r \in Rooms, s \in Slots : ~Holds(c, r, s)) => out[c] = <<>>
  /\ \A c \in Conns, r \in Rooms, s \in Slots :
       Holds(c, r, s) /\ ws[c] = "open" => state[r] # "lost"

\* Who holds a slot, and that nobody else does.
LEMMA HolderFacts ==
  ASSUME TypeOK, NEW r \in Rooms, NEW s \in Slots, slots[r][s] # NoConn
  PROVE  slots[r][s] \in Conns /\ Holds(slots[r][s], r, s)
BY DEF TypeOK, Holds

\* What is said to the slots of a room is heard there by who is open, and
\* nowhere else.
LEMMA SlotsHear ==
  ASSUME TypeOK, SeatInv, NEW r \in Rooms, NEW ms \in [Slots -> Seq(Message)],
         out' = Told(ToSlots(r, ms))
  PROVE  /\ \A c \in Conns, q \in Rooms, t \in Slots : Holds(c, q, t) =>
              out'[c] = IF q = r /\ ws[c] = "open" THEN out[c] \o ms[t] ELSE out[c]
         /\ \A c \in Conns : (\A t \in Slots : ~Holds(c, r, t)) => out'[c] = out[c]
<1>1. ASSUME NEW c \in Conns, NEW t \in Slots, Holds(c, r, t) PROVE ToSlots(r, ms)[c] = ms[t]
  <2>1. \A u \in Slots : Holds(c, r, u) => u = t
    BY <1>1 DEF SeatInv, OneSeat
  <2> QED BY <1>1, <2>1 DEF ToSlots, Slots
<1>2. ASSUME NEW c \in Conns, \A t \in Slots : ~Holds(c, r, t) PROVE out'[c] = out[c]
  <2>1. ToSlots(r, ms)[c] = <<>>
    BY <1>2 DEF ToSlots, Slots
  <2> QED BY <2>1, ToSlotsType, ToldNothing
<1>3. ASSUME NEW c \in Conns, NEW q \in Rooms, NEW t \in Slots, Holds(c, q, t)
      PROVE  out'[c] = IF q = r /\ ws[c] = "open" THEN out[c] \o ms[t] ELSE out[c]
  <2>1. CASE q = r
    BY <1>1, <1>3, <2>1 DEF Told
  <2>2. CASE q # r
    BY <1>3, <2>2, OtherRoomSilent
  <2> QED BY <2>1, <2>2
<1> QED BY <1>2, <1>3

\* Connection c takes slot s of room r: what changes, and who hears what.
Seated(r, s, c) ==
  /\ state[r] = "waiting" /\ slots[r][s] = NoConn
  /\ \A q \in Rooms, t \in Slots : slots'[q][t] = IF q = r /\ t = s THEN c ELSE slots[q][t]
  /\ seq' = seq /\ log' = log /\ verdict' = verdict /\ accepted' = accepted
  /\ ws' = ws /\ clock' = clock
  /\ \A q \in Rooms, t \in Slots : ~Holds(c, q, t)
  /\ out[c] = <<>>
  /\ \A q \in Rooms : state'[q] = IF q = r /\ StartsMatch(r, s) THEN "active" ELSE state[q]
  /\ out'[c] = IF ws[c] # "open" THEN <<>>
               ELSE IF StartsMatch(r, s) THEN <<Waiting, Start(s)>> ELSE <<Waiting>>
  /\ \A d \in Conns : d # c =>
       out'[d] = IF ws[d] = "open" /\ Holds(d, r, Opponent(s))
                 THEN Append(out[d], Start(Opponent(s))) ELSE out[d]

LEMMA JoinSeated ==
  ASSUME TypeOK, SeatInv, SlotInv, NEW c \in Conns, NEW i \in Ids, NEW s \in Slots, Join(c, i, s)
  PROVE  \E r \in Rooms : Seated(r, s, c)
<1>1. PICK r \in Rooms : r = rooms[i]
  BY DEF Join, Admissible, TypeOK
<1>2. /\ Live(r) /\ slots[r][s] = NoConn /\ Attach(r, s, c) /\ c \in awaited
      /\ UNCHANGED <<ws, clock>>
  BY <1>1 DEF Join, Admissible, SeatInv, FirstMessage
<1>3. state[r] = "waiting"
  BY <1>2 DEF SlotInv, Live
<1>4. \A q \in Rooms, t \in Slots : ~Holds(c, q, t)
  BY <1>2 DEF SeatInv
<1>5. out[c] = <<>>
  BY <1>4 DEF SlotInv
<1>6. \A q \in Rooms : state'[q] = IF q = r /\ StartsMatch(r, s) THEN "active" ELSE state[q]
  BY <1>2, <1>3 DEF Attach, TypeOK
<1>7. \A d \in Conns : Holds(d, r, Opponent(s)) => StartsMatch(r, s)
  BY RoomAssumption DEF Holds, StartsMatch
<1>8. \A d \in Conns : out[d] \in Seq(Message) /\ out[d] \o <<>> = out[d]
  BY ConcatEmptySeq DEF TypeOK
<1>9. \A d \in Conns : d # c =>
         out'[d] = IF ws[d] = "open" /\ Holds(d, r, Opponent(s))
                   THEN Append(out[d], Start(Opponent(s))) ELSE out[d]
  <2>1. \A d \in Conns : d # c =>
           out'[d] = IF ws[d] = "open" /\ Holds(d, r, Opponent(s))
                     THEN out[d] \o <<Start(Opponent(s))>> ELSE out[d]
    BY <1>2, <1>7, <1>8 DEF Attach, Told
  <2>2. \A d \in Conns : Append(out[d], Start(Opponent(s))) = out[d] \o <<Start(Opponent(s))>>
    BY <1>8, AppendIsConcat, MessageTypes, OpponentType
  <2> QED BY <2>1, <2>2
<1>10. out'[c] = IF ws[c] # "open" THEN <<>>
                 ELSE IF StartsMatch(r, s) THEN <<Waiting, Start(s)>> ELSE <<Waiting>>
  <2>1. <<>> \o <<Waiting, Start(s)>> = <<Waiting, Start(s)>> /\ <<>> \o <<Waiting>> = <<Waiting>>
    OBVIOUS
  <2> QED BY <1>2, <1>5, <2>1 DEF Attach, Told
<1>11. \A q \in Rooms, t \in Slots : slots'[q][t] = IF q = r /\ t = s THEN c ELSE slots[q][t]
  BY <1>2 DEF Attach, TypeOK
<1>12. /\ seq' = seq /\ log' = log /\ verdict' = verdict /\ accepted' = accepted
       /\ ws' = ws /\ clock' = clock
  BY <1>2 DEF Attach
<1> QED BY <1>2, <1>3, <1>4, <1>5, <1>6, <1>9, <1>10, <1>11, <1>12 DEF Seated

\* An input that is taken is passed on to the opponent if it is open.
Taken(r, s, c, d, o, f) ==
  /\ c = slots[r][s] /\ d = slots[r][o] /\ o = Opponent(s) /\ o # s /\ Opponent(o) = s
  /\ Holds(c, r, s) /\ Holds(d, r, o) /\ state[r] = "active"
  /\ f.frame = clock[c] /\ clock[c] \in Nat /\ clock[c] < StartFrame[c] + MaxInputs[c]
  /\ \A e \in Conns : clock'[e] = IF e = c THEN clock[c] + 1 ELSE clock[e]
  /\ \A q \in Rooms : log'[q] = IF q = r THEN Record(log[r], s, f.frame, f.input) ELSE log[q]
  /\ \A q \in Rooms, t \in Slots :
       /\ accepted'[q][t] = IF q = r /\ t = s THEN Append(accepted[r][s], f) ELSE accepted[q][t]
       /\ seq'[q][t] = IF q = r /\ t = o /\ ws[d] = "open" THEN seq[r][o] + 1 ELSE seq[q][t]
  /\ seq[r][o] \in Nat
  /\ \A e \in Conns :
       out'[e] = IF e = d /\ ws[d] = "open" THEN Append(out[d], Relay(seq[r][o], f)) ELSE out[e]
  /\ state' = state /\ slots' = slots /\ verdict' = verdict /\ ws' = ws

LEMMA InputTaken ==
  ASSUME TypeOK, SeatInv, SlotInv, NEW r \in Rooms, NEW s \in Slots, NEW i \in Inputs, Input(r, s, i),
         TakesInput(r, i)
  PROVE  \E c \in Conns, d \in Conns, o \in Slots, f \in Frame :
           f.input = i /\ Taken(r, s, c, d, o, f)
<1> DEFINE c == slots[r][s]
           o == Opponent(s)
           d == slots[r][o]
           f == [frame |-> clock[c], input |-> i]
           ms == [t \in Slots |-> IF t = o THEN <<Relay(seq[r][o], f)>> ELSE <<>>]
<1>1. o \in Slots /\ o # s /\ Opponent(o) = s /\ state[r] = "active"
  BY DEF Opponent, Slots, TakesInput
<1>2. c \in Conns /\ d \in Conns /\ Holds(c, r, s) /\ Holds(d, r, o)
  BY <1>1, HolderFacts DEF SlotInv
<1>3. HandleInput(r, s, i) /\ Accept(r, s, f) /\ UNCHANGED <<state, slots, verdict, ws>>
  BY DEF Input, HandleInput
<1>4. /\ clock[c] \in Nat /\ clock[c] < StartFrame[c] + MaxInputs[c]
      /\ clock' = [clock EXCEPT ![c] = @ + 1]
  BY <1>2, <1>3 DEF HandleInput, TypeOK
<1>5. f \in Frame /\ seq[r][o] \in Nat
  BY <1>1, <1>4 DEF Frame, TypeOK
<1>6. ms \in [Slots -> Seq(Message)] /\ ms[o] = <<Relay(seq[r][o], f)>> /\ ms[s] = <<>>
  BY <1>1, <1>5, MessageTypes
<1>7. MayForward(d) <=> ws[d] = "open"
  BY <1>2, RoomAssumption DEF MayForward
<1>8. /\ seq' = IF ws[d] = "open" THEN [seq EXCEPT ![r][o] = @ + 1] ELSE seq
      /\ out' = IF ws[d] = "open" THEN Told(ToSlots(r, ms)) ELSE out
      /\ log' = [log EXCEPT ![r] = Record(@, s, f.frame, f.input)]
      /\ accepted' = [accepted EXCEPT ![r][s] = Append(@, f)]
  BY <1>3, <1>7 DEF Accept, Forward, NextSeq
<1>9. ASSUME ws[d] = "open"
      PROVE  \A e \in Conns : out'[e] = IF e = d THEN Append(out[d], Relay(seq[r][o], f)) ELSE out[e]
  <2>1. /\ \A e \in Conns, q \in Rooms, t \in Slots : Holds(e, q, t) =>
              out'[e] = IF q = r /\ ws[e] = "open" THEN out[e] \o ms[t] ELSE out[e]
        /\ \A e \in Conns : (\A t \in Slots : ~Holds(e, r, t)) => out'[e] = out[e]
    <3> HIDE DEF ms
    <3> QED BY <1>6, <1>8, <1>9, SlotsHear
  <2>2. \A e \in Conns : out[e] \in Seq(Message) /\ out[e] \o <<>> = out[e]
    BY ConcatEmptySeq DEF TypeOK
  <2>3. out'[d] = Append(out[d], Relay(seq[r][o], f))
    <3>1. out'[d] = out[d] \o <<Relay(seq[r][o], f)>>
      BY <1>1, <1>2, <1>6, <1>9, <2>1
    <3>2. out[d] \in Seq(Message) /\ Relay(seq[r][o], f) \in Message
      BY <1>2, <1>5, <2>2, MessageTypes
    <3> QED BY <3>1, <3>2, AppendIsConcat
  <2>4. ASSUME NEW e \in Conns, e # d PROVE out'[e] = out[e]
    <3>1. ~Holds(e, r, o)
      BY <2>4 DEF Holds
    <3>2. \A t \in Slots : t = s \/ t = o
      BY <1>1 DEF Slots
    <3>3. CASE Holds(e, r, s)
      BY <1>6, <2>1, <2>2, <3>3
    <3>4. CASE ~Holds(e, r, s)
      BY <2>1, <3>1, <3>2, <3>4
    <3> QED BY <3>3, <3>4
  <2> QED BY <1>9, <2>3, <2>4
<1>10. ASSUME ws[d] # "open" PROVE out' = out
  BY <1>8, <1>10
<1>11. /\ \A e \in Conns : clock'[e] = IF e = c THEN clock[c] + 1 ELSE clock[e]
       /\ \A q \in Rooms : log'[q] = IF q = r THEN Record(log[r], s, f.frame, f.input) ELSE log[q]
  BY <1>2, <1>4, <1>8 DEF TypeOK
<1>12. \A q \in Rooms, t \in Slots :
          accepted'[q][t] = IF q = r /\ t = s THEN Append(accepted[r][s], f) ELSE accepted[q][t]
  BY <1>8 DEF TypeOK
<1>13. \A q \in Rooms, t \in Slots :
          seq'[q][t] = IF q = r /\ t = o /\ ws[d] = "open" THEN seq[r][o] + 1 ELSE seq[q][t]
  BY <1>1, <1>8 DEF TypeOK
<1>14. state' = state /\ slots' = slots /\ verdict' = verdict /\ ws' = ws
  BY <1>3
<1>15. f.frame = clock[c] /\ f.input = i
  OBVIOUS
<1> HIDE DEF f, ms
<1>16. Taken(r, s, c, d, o, f)
  BY <1>1, <1>2, <1>4, <1>5, <1>9, <1>10, <1>11, <1>12, <1>13, <1>14, <1>15 DEF Taken
<1> QED BY <1>1, <1>2, <1>5, <1>15, <1>16

LEMMA InitSlots == Init => SlotInv
BY RoomAssumption DEF Init, SlotInv, Holds, Slots

\* Steps that say nothing to those without a seat and leave slots, inputs and
\* the rooms' states alone.
LEMMA SlotsUndisturbed ==
  ASSUME TypeOK, SlotInv, UNCHANGED <<state, slots, seq, accepted>>,
         \A c \in Conns : ws'[c] = "open" => ws[c] \in {"new", "open"},
         \A c \in Conns, r \in Rooms, s \in Slots : Holds(c, r, s) => ws[c] # "new",
         \A c \in Conns : (\A r \in Rooms, s \in Slots : ~Holds(c, r, s)) => out'[c] = out[c]
  PROVE  SlotInv'
BY DEF SlotInv, Holds

LEMMA NextSlots ==
  ASSUME TypeOK, SeatInv, SlotInv, [Next]_vars
  PROVE  SlotInv'
<1>0. \A c \in Conns, r \in Rooms, s \in Slots : Holds(c, r, s) => ws[c] # "new"
  BY DEF SeatInv
<1>1. ASSUME NEW r \in Rooms, NEW i \in Ids, NEW ps \in Invitations, CreateRoom(r, i, ps)
      PROVE  SlotInv'
  <2>1. /\ state[r] = "unborn" /\ state' = [state EXCEPT ![r] = "waiting"]
        /\ UNCHANGED <<slots, seq, accepted, ws, out>>
    BY <1>1 DEF CreateRoom
  <2>2. \A q \in Rooms : state'[q] = IF q = r THEN "waiting" ELSE state[q]
    BY <2>1 DEF TypeOK
  <2> QED BY <2>1, <2>2 DEF SlotInv, Holds
<1>2. ASSUME NEW c \in Conns, Connect(c) \/ HangUp(c) \/ RefuseOther(c)
      PROVE  SlotInv'
  <2>1. \A d \in Conns : ws'[d] = "open" => ws[d] \in {"new", "open"}
    BY <1>2 DEF Connect, HangUp, RefuseOther, ServerCloses, TypeOK
  <2> QED BY <1>0, <1>2, <2>1, SlotsUndisturbed DEF Connect, HangUp, RefuseOther, roomVars
<1>3. ASSUME NEW c \in Conns, NEW i \in Ids, NEW s \in Slots, RefuseJoin(c, i, s)
      PROVE  SlotInv'
  <2>1. \A d \in Conns : ws'[d] = "open" => ws[d] \in {"new", "open"}
    BY <1>3 DEF RefuseJoin, ServerCloses, TypeOK
  <2> QED BY <1>0, <1>3, <2>1, SlotsUndisturbed DEF RefuseJoin, roomVars
<1>4. ASSUME NEW c \in Conns, NEW i \in Ids, NEW s \in Slots, Join(c, i, s)
      PROVE  SlotInv'
  <2>1. PICK r \in Rooms : Seated(r, s, c)
    BY <1>4, JoinSeated
  <2>3. c # NoConn /\ Opponent(s) \in Slots /\ Opponent(s) # s /\ \A t \in Slots : t \in {s, Opponent(s)}
    BY NoConnOutside, OpponentType DEF Slots, Opponent
  <2>4. \A q \in Rooms, t \in Slots : slots'[q][t] = NoConn =>
          /\ state'[q] # "active"
          /\ \A u \in Slots : seq'[q][u] = 0 /\ accepted'[q][u] = <<>>
    BY <2>1, <2>3 DEF SlotInv, StartsMatch, Seated
  <2>5. \A q \in Rooms : state'[q] \in {"unborn", "waiting"} => \E t \in Slots : slots'[q][t] = NoConn
    BY <2>1, <2>3 DEF SlotInv, StartsMatch, Seated
  <2>6. ASSUME NEW d \in Conns, \A q \in Rooms, t \in Slots : slots'[q][t] # d
        PROVE  out'[d] = <<>>
    <3>1. d # c
      BY <2>1, <2>6 DEF Seated
    <3>2. \A q \in Rooms, t \in Slots : slots[q][t] # d
      BY <2>1, <2>6, NoConnOutside DEF Seated
    <3> QED BY <2>1, <2>3, <3>1, <3>2 DEF SlotInv, Holds, Seated
  <2>7. \A d \in Conns, q \in Rooms, t \in Slots :
          slots'[q][t] = d /\ ws'[d] = "open" => state'[q] # "lost"
    BY <2>1 DEF SlotInv, Holds, Seated
  <2> QED BY <2>4, <2>5, <2>6, <2>7 DEF SlotInv, Holds
<1>5. ASSUME NEW r \in Rooms, NEW s \in Slots, NEW i \in Inputs, Input(r, s, i)
      PROVE  SlotInv'
  <2>1. CASE TakesInput(r, i)
    <3>1. PICK c \in Conns, d \in Conns, o \in Slots, f \in Frame : Taken(r, s, c, d, o, f)
      BY <1>5, <2>1, InputTaken
    <3>2. \A q \in Rooms, t \in Slots : q # r => seq'[q][t] = seq[q][t] /\ accepted'[q][t] = accepted[q][t]
      BY <3>1 DEF Taken
    <3> QED BY <3>1, <3>2 DEF SlotInv, Holds, Taken
  <2>2. CASE ~TakesInput(r, i)
    BY <1>0, <1>5, <2>2, SlotsUndisturbed DEF Input, HandleInput
  <2> QED BY <2>1, <2>2
<1>6. ASSUME NEW r \in Rooms, NEW ms \in [Slots -> Seq(Message)],
             out' = Told(ToSlots(r, ms)), UNCHANGED <<state, slots, seq, accepted, ws>>
      PROVE  SlotInv'
  <2>1. \A c \in Conns : (\A q \in Rooms, s \in Slots : ~Holds(c, q, s)) => out'[c] = out[c]
    BY <1>6, SlotsHear
  <2> QED BY <1>0, <1>6, <2>1, SlotsUndisturbed
<1>7. ASSUME NEW r \in Rooms, NEW s \in Slots, NEW l \in Loadouts, ForwardLoadout(r, s, l)
      PROVE  SlotInv'
  <2> DEFINE ms == [t \in Slots |-> IF t = Opponent(s) THEN <<Loadout(l)>> ELSE <<>>]
  <2>1. ms \in [Slots -> Seq(Message)]
    BY MessageTypes
  <2>2. out' = Told(ToSlots(r, ms)) /\ UNCHANGED <<state, slots, seq, accepted, ws>>
    BY <1>7 DEF ForwardLoadout, HandleLoadout
  <2> HIDE DEF ms
  <2> QED BY <1>6, <2>1, <2>2
<1>8. ASSUME NEW r \in Rooms, PingTick(r) PROVE SlotInv'
  <2> DEFINE ms == [t \in Slots |-> <<Ping>>]
  <2>1. ms \in [Slots -> Seq(Message)]
    BY MessageTypes
  <2>2. out' = Told(ToSlots(r, ms)) /\ UNCHANGED <<state, slots, seq, accepted, ws>>
    BY <1>8 DEF PingTick, SendPing
  <2> HIDE DEF ms
  <2> QED BY <1>6, <2>1, <2>2
<1>9. ASSUME NEW c \in Conns, CloseEvent(c) PROVE SlotInv'
  <2>1. \A d \in Conns : ws'[d] = "open" => ws[d] = "open"
    BY <1>9 DEF CloseEvent, TypeOK
  <2>2. ASSUME UNCHANGED <<roomVars, out>> PROVE SlotInv'
    BY <1>0, <2>1, <2>2, SlotsUndisturbed DEF roomVars
  <2>3. ASSUME NEW r \in Rooms, NEW s \in Slots, EndRoom(r, s) PROVE SlotInv'
    <3>1. Farewell(s) \in [Slots -> Seq(Message)]
      BY MessageTypes, OpponentType DEF Farewell, WinnerWhenClosed
    <3>2. \A d \in Conns : (\A t \in Slots : ~Holds(d, r, t)) => out'[d] = out[d]
      BY <2>3, <3>1, SlotsHear DEF EndRoom
    <3>3. \A q \in Rooms : state'[q] = state[q] \/ state'[q] = "closed"
      BY <2>3 DEF EndRoom, TypeOK
    <3> QED BY <2>1, <2>3, <3>2, <3>3 DEF EndRoom, SlotInv, Holds
  <2> QED BY <1>9, <2>2, <2>3 DEF CloseEvent, CloseStranger, CloseAttached, HandleClose
<1>10. ASSUME Restart PROVE SlotInv'
  <2>1. \A c \in Conns : ws'[c] # "open"
    BY <1>10 DEF Restart
  <2>2. \A r \in Rooms : state'[r] = state[r] \/ (state'[r] = "lost" /\ Live(r))
    BY <1>10 DEF Restart
  <2> QED BY <1>10, <2>1, <2>2 DEF Restart, SlotInv, Holds
<1>11. UNCHANGED vars => SlotInv'
  BY <1>0, SlotsUndisturbed DEF vars, roomVars
<1> QED
  BY <1>1, <1>2, <1>3, <1>4, <1>5, <1>7, <1>8, <1>9, <1>10, <1>11
     DEF Next, Crash, InputOverflow
-------------------------------------------------------------------------------
(***************************************************************************)
(* The input log.  An entry is merged with what the same side sends for    *)
(* the same frame, which never happens because a client's frames increase  *)
(* (ClockInv), and with what the other side sends for it.                  *)
(***************************************************************************)
ClockInv ==
  /\ \A c \in Conns : clock[c] >= StartFrame[c]
  /\ \A c \in Conns, r \in Rooms, s \in Slots : Holds(c, r, s) =>
       \A k \in 1..Len(accepted[r][s]) : accepted[r][s][k].frame < clock[c]

LEMMA InitClock == Init => ClockInv /\ LogComplete
<1> SUFFICES ASSUME Init PROVE ClockInv /\ LogComplete
  OBVIOUS
<1>1. \A r \in Rooms, s \in Slots : accepted[r][s] = <<>> /\ Len(accepted[r][s]) = 0
  BY DEF Init
<1>2. \A c \in Conns : clock[c] >= StartFrame[c]
  BY RoomAssumption DEF Init
<1> QED BY <1>1, <1>2 DEF ClockInv, LogComplete

LEMMA ClockKept ==
  ASSUME TypeOK, ClockInv, LogComplete, UNCHANGED <<slots, accepted, log>>,
         NEW b \in Conns, \A c \in Conns : clock'[c] = IF c = b THEN clock[c] + 1 ELSE clock[c]
  PROVE  ClockInv' /\ LogComplete'
<1>1. LogComplete'
  BY DEF LogComplete
<1>2. \A c \in Conns : clock[c] \in Nat /\ StartFrame[c] \in Nat /\ clock[c] >= StartFrame[c]
  BY RoomAssumption DEF TypeOK, ClockInv
<1>3. \A c \in Conns : clock'[c] >= StartFrame[c]
  BY <1>2
<1>4. ASSUME NEW c \in Conns, NEW r \in Rooms, NEW s \in Slots, Holds(c, r, s),
             NEW k \in 1..Len(accepted[r][s])
      PROVE  accepted[r][s][k].frame < clock'[c]
  <2>1. accepted[r][s][k] \in Frame
    BY DEF TypeOK
  <2>2. accepted[r][s][k].frame \in Nat
    BY <2>1 DEF Frame
  <2>3. accepted[r][s][k].frame < clock[c]
    BY <1>4 DEF ClockInv
  <2> QED BY <1>2, <2>2, <2>3
<1>5. ClockInv'
  BY <1>3, <1>4 DEF ClockInv, Holds
<1> QED BY <1>1, <1>5

\* The log lg has become after: the input is in it, and so is all that was.
RecordedIn(lg, after, s, f, i) ==
  /\ \E e \in 1..Len(after.entries) : after.entries[e].frame = f /\ after.entries[e].input[s] = i
  /\ \A e \in 1..Len(lg.entries), t \in Slots : t # s \/ lg.entries[e].frame # f =>
       /\ e \in 1..Len(after.entries)
       /\ after.entries[e].frame = lg.entries[e].frame
       /\ after.entries[e].input[t] = lg.entries[e].input[t]

LEMMA RecordKeeps ==
  ASSUME NEW lg \in Logs, NEW s \in Slots, NEW f \in Nat, NEW i \in Inputs,
         NEW after, after = Record(lg, s, f, i)
  PROVE  RecordedIn(lg, after, s, f, i)
<1> DEFINE old == lg.entries
           n == Len(old)
           latest == [lg.latest EXCEPT ![s] = i]
           new == after.entries
<1>1. old \in Seq(LogEntry) /\ n \in Nat
  BY DEF Logs
<1>2. CASE MergesWithLast(old, f)
  <2>1. n \in 1..n /\ old[n].frame = f
    BY <1>1, <1>2 DEF MergesWithLast
  <2>2. new = [old EXCEPT ![n] = Merged(old[n], s, i)]
    BY <1>2 DEF Record
  <2>3. old[n] \in LogEntry
    BY <1>1, <2>1
  <2>4. /\ Merged(old[n], s, i).frame = f /\ Merged(old[n], s, i).input[s] = i
        /\ \A t \in Slots : t # s => Merged(old[n], s, i).input[t] = old[n].input[t]
    BY <2>1, <2>3 DEF Merged, LogEntry
  <2>5. Len(new) = n /\ \A e \in 1..n : new[e] = IF e = n THEN Merged(old[n], s, i) ELSE old[e]
    BY <1>1, <2>1, <2>2
  <2> HIDE DEF new, old
  <2> QED BY <2>1, <2>4, <2>5 DEF new, old, RecordedIn
<1>3. CASE ~MergesWithLast(old, f)
  <2>1. new = Append(old, NewEntry(latest, f))
    BY <1>3 DEF Record
  <2>2. latest \in [Slots -> Inputs \union {Neutral}] /\ latest[s] = i
    BY DEF Logs
  <2>3. NewEntry(latest, f) \in LogEntry /\ NewEntry(latest, f).frame = f /\ NewEntry(latest, f).input[s] = i
    BY <2>2 DEF NewEntry, LogEntry
  <2> HIDE DEF latest
  <2>4. Len(new) = n + 1 /\ new[n + 1] = NewEntry(latest, f) /\ \A e \in 1..n : new[e] = old[e]
    BY <1>1, <2>1, <2>3
  <2>5. n + 1 \in 1..Len(new) /\ \A e \in 1..n : e \in 1..Len(new)
    BY <1>1, <2>4
  <2> HIDE DEF new, old
  <2> QED BY <2>3, <2>4, <2>5 DEF new, old, RecordedIn
<1> QED BY <1>2, <1>3

LEMMA NextClock ==
  ASSUME TypeOK, SeatInv, SlotInv, ClockInv, LogComplete, [Next]_vars
  PROVE  ClockInv' /\ LogComplete'
<1>1. ASSUME UNCHANGED <<slots, accepted, log, clock>> PROVE ClockInv' /\ LogComplete'
  BY <1>1 DEF ClockInv, LogComplete, Holds
<1>2. ASSUME NEW r \in Rooms, NEW i \in Ids, NEW ps \in Invitations, CreateRoom(r, i, ps)
      PROVE  ClockInv' /\ LogComplete'
  BY <1>1, <1>2 DEF CreateRoom
<1>3. ASSUME NEW c \in Conns, Connect(c) \/ HangUp(c) \/ RefuseOther(c)
      PROVE  ClockInv' /\ LogComplete'
  BY <1>1, <1>3 DEF Connect, HangUp, RefuseOther, roomVars
<1>4. ASSUME NEW c \in Conns, NEW i \in Ids, NEW s \in Slots, RefuseJoin(c, i, s)
      PROVE  ClockInv' /\ LogComplete'
  BY <1>1, <1>4 DEF RefuseJoin, roomVars
<1>5. ASSUME NEW c \in Conns, NEW i \in Ids, NEW s \in Slots, Join(c, i, s)
      PROVE  ClockInv' /\ LogComplete'
  <2>1. PICK r \in Rooms : Seated(r, s, c)
    BY <1>5, JoinSeated
  <2>2. LogComplete'
    BY <2>1 DEF LogComplete, Seated
  <2>3. accepted[r][s] = <<>>
    BY <2>1 DEF SlotInv, Seated
  <2>4. ASSUME NEW d \in Conns, NEW q \in Rooms, NEW t \in Slots, slots'[q][t] = d,
               NEW k \in 1..Len(accepted[q][t])
        PROVE  accepted[q][t][k].frame < clock[d]
    <3>1. ~(q = r /\ t = s)
      BY <2>3
    <3>2. Holds(d, q, t)
      BY <2>1, <2>4, <3>1 DEF Holds, Seated
    <3> QED BY <3>2 DEF ClockInv
  <2>5. accepted' = accepted /\ clock' = clock
    BY <2>1 DEF Seated
  <2> QED BY <2>2, <2>4, <2>5 DEF ClockInv, Holds
<1>6. ASSUME NEW r \in Rooms, NEW s \in Slots, NEW i \in Inputs, Input(r, s, i)
      PROVE  ClockInv' /\ LogComplete'
  <2>1. CASE TakesInput(r, i)
    <3>1. PICK c \in Conns, d \in Conns, o \in Slots, f \in Frame : Taken(r, s, c, d, o, f)
      BY <1>6, <2>1, InputTaken
    <3>2. /\ \A e \in Conns : clock[e] \in Nat /\ StartFrame[e] \in Nat /\ clock[e] >= StartFrame[e]
          /\ \A e \in Conns : clock'[e] = IF e = c THEN clock[c] + 1 ELSE clock[e]
      BY <3>1, RoomAssumption DEF TypeOK, ClockInv, Taken
    <3>3. \A q \in Rooms, t \in Slots :
            accepted'[q][t] = IF q = r /\ t = s THEN Append(accepted[r][s], f) ELSE accepted[q][t]
      BY <3>1 DEF Taken
    <3>4. ASSUME NEW q \in Rooms, NEW t \in Slots, NEW k \in 1..Len(accepted'[q][t])
          PROVE  \/ k \in 1..Len(accepted[q][t]) /\ accepted'[q][t][k] = accepted[q][t][k]
                 \/ q = r /\ t = s /\ accepted'[q][t][k] = f
      <4>1. CASE q = r /\ t = s
        <5>1. accepted[r][s] \in Seq(Frame)
          BY DEF TypeOK
        <5>2. accepted'[q][t] = Append(accepted[r][s], f)
          BY <3>3, <4>1
        <5>3. k \in 1..Len(accepted[r][s]) \/ k = Len(accepted[r][s]) + 1
          BY <5>1, <5>2
        <5> QED BY <4>1, <5>1, <5>2, <5>3
      <4>2. CASE ~(q = r /\ t = s)
        <5>1. accepted'[q][t] = accepted[q][t]
          BY <3>3, <4>2
        <5> QED BY <5>1
      <4> QED BY <4>1, <4>2
    <3>5. ASSUME NEW e \in Conns, NEW q \in Rooms, NEW t \in Slots, Holds(e, q, t),
                 NEW k \in 1..Len(accepted'[q][t])
          PROVE  accepted'[q][t][k].frame < clock'[e]
      <4>1. CASE k \in 1..Len(accepted[q][t]) /\ accepted'[q][t][k] = accepted[q][t][k]
        <5>1. accepted[q][t][k].frame < clock[e]
          BY <3>5, <4>1 DEF ClockInv
        <5>2. accepted[q][t] \in Seq(Frame)
          BY DEF TypeOK
        <5>3. accepted[q][t][k] \in Frame
          BY <4>1, <5>2
        <5>4. accepted[q][t][k].frame \in Nat
          BY <5>3 DEF Frame
        <5> QED BY <3>2, <4>1, <5>1, <5>4
      <4>2. CASE q = r /\ t = s /\ accepted'[q][t][k] = f
        <5>1. e = c /\ f.frame = clock[c]
          BY <3>1, <3>5, <4>2 DEF Taken, Holds
        <5> QED BY <3>2, <4>2, <5>1
      <4> QED BY <3>4, <4>1, <4>2
    <3>6. ClockInv'
      <4>1. slots' = slots /\ \A e \in Conns : clock'[e] >= StartFrame[e]
        BY <3>1, <3>2 DEF Taken
      <4> QED BY <3>5, <4>1 DEF ClockInv, Holds
    <3>7. RecordedIn(log[r], log'[r], s, f.frame, f.input)
      <4>1. log[r] \in Logs /\ f.frame \in Nat /\ f.input \in Inputs
        BY DEF TypeOK, Logs, Frame
      <4>2. log'[r] = Record(log[r], s, f.frame, f.input)
        BY <3>1 DEF Taken
      <4> QED BY <4>1, <4>2, RecordKeeps
    <3>8. ASSUME NEW q \in Rooms, NEW t \in Slots, NEW k \in 1..Len(accepted'[q][t])
          PROVE  \E e \in 1..Len(log'[q].entries) :
                    /\ log'[q].entries[e].frame = accepted'[q][t][k].frame
                    /\ log'[q].entries[e].input[t] = accepted'[q][t][k].input
      <4>1. CASE k \in 1..Len(accepted[q][t]) /\ accepted'[q][t][k] = accepted[q][t][k]
        <5>1. PICK e \in 1..Len(log[q].entries) :
                    /\ log[q].entries[e].frame = accepted[q][t][k].frame
                    /\ log[q].entries[e].input[t] = accepted[q][t][k].input
          BY <4>1 DEF LogComplete
        <5>2. CASE q = r
          <6>1. t # s \/ log[r].entries[e].frame # f.frame
            <7>1. t = s => accepted[q][t][k].frame < clock[c] /\ f.frame = clock[c] /\ clock[c] \in Nat
              BY <3>1, <3>2, <4>1, <5>2 DEF ClockInv, Taken
            <7> QED BY <5>1, <5>2, <7>1
          <6>2. /\ e \in 1..Len(log'[r].entries)
                /\ log'[r].entries[e].frame = log[r].entries[e].frame
                /\ log'[r].entries[e].input[t] = log[r].entries[e].input[t]
            BY <3>7, <5>1, <5>2, <6>1 DEF RecordedIn
          <6> QED BY <4>1, <5>1, <5>2, <6>2
        <5>3. CASE q # r
          <6>1. log'[q] = log[q]
            BY <3>1, <5>3 DEF Taken
          <6> QED BY <4>1, <5>1, <6>1
        <5> QED BY <5>2, <5>3
      <4>2. CASE q = r /\ t = s /\ accepted'[q][t][k] = f
        BY <3>7, <4>2 DEF RecordedIn
      <4> QED BY <3>4, <4>1, <4>2
    <3> QED BY <3>6, <3>8 DEF LogComplete
  <2>2. CASE ~TakesInput(r, i)
    <3>1. UNCHANGED <<slots, log, accepted>> /\ Receives(r, s) /\ clock' = [clock EXCEPT ![slots[r][s]] = @ + 1]
      BY <1>6, <2>2 DEF Input, HandleInput
    <3>2. slots[r][s] \in Conns
      BY <3>1, HolderFacts DEF Receives
    <3>3. \A c \in Conns : clock'[c] = IF c = slots[r][s] THEN clock[c] + 1 ELSE clock[c]
      BY <3>1, <3>2 DEF TypeOK
    <3> QED BY <3>1, <3>2, <3>3, ClockKept
  <2> QED BY <2>1, <2>2
<1>7. ASSUME NEW r \in Rooms, NEW s \in Slots, NEW l \in Loadouts, ForwardLoadout(r, s, l)
      PROVE  ClockInv' /\ LogComplete'
  BY <1>1, <1>7 DEF ForwardLoadout, HandleLoadout
<1>8. ASSUME NEW r \in Rooms, PingTick(r) PROVE ClockInv' /\ LogComplete'
  BY <1>1, <1>8 DEF PingTick, SendPing
<1>9. ASSUME NEW c \in Conns, CloseEvent(c) PROVE ClockInv' /\ LogComplete'
  BY <1>1, <1>9 DEF CloseEvent, CloseStranger, CloseAttached, HandleClose, EndRoom, roomVars
<1>10. Restart => ClockInv' /\ LogComplete'
  BY <1>1 DEF Restart
<1>11. UNCHANGED vars => ClockInv' /\ LogComplete'
  BY <1>1 DEF vars, roomVars
<1> QED
  BY <1>2, <1>3, <1>4, <1>5, <1>6, <1>7, <1>8, <1>9, <1>10, <1>11
     DEF Next, Crash, InputOverflow

\* Every input a room accepted is in its log under its frame, on its side,
\* whatever the opponent sent in between (handleMessage, recordP1, recordP2).
THEOREM LogCorrect == Spec => []LogComplete
<1> DEFINE Inv == TypeOK /\ SeatInv /\ SlotInv /\ ClockInv /\ LogComplete
<1>1. Init => Inv
  BY InitType, InitSeats, InitSlots, InitClock
<1>2. Inv /\ [Next]_vars => Inv'
  BY NextType, NextSeats, NextSlots, NextClock
<1>3. Inv => LogComplete
  OBVIOUS
<1> HIDE DEF Inv
<1> QED BY <1>1, <1>2, <1>3, PTL DEF Spec
-------------------------------------------------------------------------------
(***************************************************************************)
(* The batches in an outbox.  A batch is found by its rank, the number of  *)
(* batches up to it; that every rank up to the last is taken is an         *)
(* invariant, because it grows with the outbox.                            *)
(***************************************************************************)
Upto(q, k) == {j \in RelayPlaces(q) : j <= k}

Ranked(q) ==
  \A n \in 1..Cardinality(RelayPlaces(q)) : \E k \in RelayPlaces(q) : Cardinality(Upto(q, k)) = n

LEMMA PlacesFinite ==
  ASSUME NEW M, NEW q \in Seq(M)
  PROVE  /\ RelayPlaces(q) \subseteq 1..Len(q) /\ Len(q) \in Nat
         /\ IsFiniteSet(RelayPlaces(q)) /\ Cardinality(RelayPlaces(q)) \in Nat
         /\ \A k : IsFiniteSet(Upto(q, k)) /\ Cardinality(Upto(q, k)) \in Nat
<1>1. RelayPlaces(q) \subseteq 1..Len(q) /\ Len(q) \in Nat
  BY DEF RelayPlaces
<1>2. IsFiniteSet(1..Len(q))
  BY <1>1, FS_Interval
<1>3. IsFiniteSet(RelayPlaces(q)) /\ Cardinality(RelayPlaces(q)) \in Nat
  BY <1>1, <1>2, FS_Subset, FS_CardinalityType
<1>4. ASSUME NEW k PROVE IsFiniteSet(Upto(q, k)) /\ Cardinality(Upto(q, k)) \in Nat
  <2>1. Upto(q, k) \in SUBSET RelayPlaces(q)
    BY DEF Upto
  <2> QED BY <1>3, <2>1, FS_Subset, FS_CardinalityType
<1> QED BY <1>1, <1>3, <1>4

\* No two batches have the same rank.
LEMMA RankUnique ==
  ASSUME NEW M, NEW q \in Seq(M), NEW j \in RelayPlaces(q), NEW k \in RelayPlaces(q),
         Cardinality(Upto(q, j)) = Cardinality(Upto(q, k))
  PROVE  j = k
<1>1. j \in Nat /\ k \in Nat
  BY PlacesFinite
<1>2. ASSUME NEW a \in RelayPlaces(q), NEW b \in RelayPlaces(q), a \in Nat, b \in Nat, a < b,
             Cardinality(Upto(q, a)) = Cardinality(Upto(q, b))
      PROVE  FALSE
  <2>1. Upto(q, a) \in SUBSET Upto(q, b)
    BY <1>2, PlacesFinite DEF Upto
  <2>2. IsFiniteSet(Upto(q, b))
    BY PlacesFinite
  <2>3. Upto(q, a) = Upto(q, b)
    BY <1>2, <2>1, <2>2, FS_Subset
  <2>4. b \in Upto(q, b) /\ b \notin Upto(q, a)
    BY <1>2 DEF Upto
  <2> QED BY <2>3, <2>4
<1> QED BY <1>1, <1>2

\* The batch of rank n is the n-th of the batches.
LEMMA RelayAtRank ==
  ASSUME NEW M, NEW q \in Seq(M), NEW k \in RelayPlaces(q),
         NEW n \in 1..Cardinality(RelayPlaces(q)), Cardinality(Upto(q, k)) = n
  PROVE  RelayAt(q, n) = k /\ RelaysOf(q)[n] = q[k]
<1>1. RelayAt(q, n) \in RelayPlaces(q) /\ Cardinality(Upto(q, RelayAt(q, n))) = n
  BY DEF RelayAt, Upto
<1>2. RelayAt(q, n) = k
  BY <1>1, RankUnique
<1> QED BY <1>2 DEF RelaysOf

\* Another message leaves the batches as they are.
LEMMA OtherMessage ==
  ASSUME NEW M, NEW q \in Seq(M), NEW m \in M, m.type # "RELAY", Ranked(q)
  PROVE  Ranked(Append(q, m)) /\ RelaysOf(Append(q, m)) = RelaysOf(q)
<1> DEFINE new == Append(q, m)
<1>1. new \in Seq(M) /\ Len(new) = Len(q) + 1 /\ new[Len(q) + 1] = m /\ \A k \in 1..Len(q) : new[k] = q[k]
  OBVIOUS
<1>2. DOMAIN new = 1..Len(q) \union {Len(q) + 1} /\ DOMAIN q = 1..Len(q)
  BY <1>1
<1> HIDE DEF new
<1>3. RelayPlaces(new) = RelayPlaces(q)
  BY <1>1, <1>2 DEF RelayPlaces
<1>4. \A k : Upto(new, k) = Upto(q, k)
  BY <1>3 DEF Upto
<1>5. Ranked(new)
  BY <1>3, <1>4 DEF Ranked
<1>6. ASSUME NEW n \in 1..Cardinality(RelayPlaces(q)) PROVE RelaysOf(new)[n] = RelaysOf(q)[n]
  <2>1. PICK k \in RelayPlaces(q) : Cardinality(Upto(q, k)) = n
    BY DEF Ranked
  <2>2. RelaysOf(q)[n] = q[k] /\ RelaysOf(new)[n] = new[k]
    BY <1>1, <1>3, <1>4, <2>1, RelayAtRank
  <2>3. k \in 1..Len(q)
    BY PlacesFinite
  <2> QED BY <1>1, <2>2, <2>3
<1>7. RelaysOf(new) = RelaysOf(q)
  BY <1>3, <1>6 DEF RelaysOf
<1> QED BY <1>5, <1>7 DEF new

\* A further batch comes after those there are.
LEMMA FurtherBatch ==
  ASSUME NEW M, NEW q \in Seq(M), NEW m \in M, m.type = "RELAY", Ranked(q)
  PROVE  /\ Ranked(Append(q, m))
         /\ Len(RelaysOf(q)) \in Nat /\ Len(RelaysOf(Append(q, m))) = Len(RelaysOf(q)) + 1
         /\ RelaysOf(Append(q, m))[Len(RelaysOf(q)) + 1] = m
         /\ \A n \in 1..Len(RelaysOf(q)) : RelaysOf(Append(q, m))[n] = RelaysOf(q)[n]
<1> DEFINE new == Append(q, m)
           z == Len(q) + 1
           size == Cardinality(RelayPlaces(q))
<1>1. new \in Seq(M) /\ Len(new) = z /\ new[z] = m /\ \A k \in 1..Len(q) : new[k] = q[k]
  OBVIOUS
<1>2. DOMAIN new = 1..Len(q) \union {z} /\ DOMAIN q = 1..Len(q) /\ Len(q) \in Nat
  BY <1>1
<1> HIDE DEF new
<1>3. RelayPlaces(new) = RelayPlaces(q) \union {z}
  BY <1>1, <1>2 DEF RelayPlaces
<1>4. z \notin RelayPlaces(q) /\ \A k \in RelayPlaces(q) : k \in Nat /\ k < z
  BY <1>2, PlacesFinite
<1>5. size \in Nat /\ Cardinality(RelayPlaces(new)) = size + 1
  BY <1>3, <1>4, PlacesFinite, FS_AddElement
<1>6. \A k \in RelayPlaces(q) : Upto(new, k) = Upto(q, k)
  BY <1>2, <1>3, <1>4 DEF Upto
<1>7. Upto(new, z) = RelayPlaces(new)
  BY <1>2, <1>3, <1>4 DEF Upto
<1>8. \A n \in 1..size : \E k \in RelayPlaces(q) : Cardinality(Upto(q, k)) = n
  BY DEF Ranked
<1>9. ASSUME NEW n \in 1..Cardinality(RelayPlaces(new))
      PROVE  \E k \in RelayPlaces(new) : Cardinality(Upto(new, k)) = n
  <2>1. CASE n = size + 1
    BY <1>3, <1>5, <1>7, <2>1
  <2>2. CASE n # size + 1
    <3>1. n \in 1..size
      BY <1>5, <2>2
    <3> QED BY <1>3, <1>6, <1>8, <3>1
  <2> QED BY <2>1, <2>2
<1>10. Ranked(new)
  BY <1>9 DEF Ranked
<1>11. ASSUME NEW n \in 1..size PROVE RelaysOf(new)[n] = RelaysOf(q)[n]
  <2>1. PICK k \in RelayPlaces(q) : Cardinality(Upto(q, k)) = n
    BY <1>8
  <2>2. n \in 1..Cardinality(RelayPlaces(new)) /\ k \in RelayPlaces(new) /\ Cardinality(Upto(new, k)) = n
    BY <1>3, <1>5, <1>6, <2>1
  <2>3. RelaysOf(q)[n] = q[k] /\ RelaysOf(new)[n] = new[k]
    BY <1>1, <2>1, <2>2, RelayAtRank
  <2>4. k \in 1..Len(q)
    BY PlacesFinite
  <2> QED BY <1>1, <2>3, <2>4
<1>12. RelaysOf(new)[size + 1] = m
  <2>1. size + 1 \in 1..Cardinality(RelayPlaces(new))
    BY <1>5
  <2>2. z \in RelayPlaces(new)
    BY <1>3
  <2>3. Cardinality(Upto(new, z)) = size + 1
    BY <1>5, <1>7
  <2> QED BY <1>1, <2>1, <2>2, <2>3, RelayAtRank
<1>13. Len(RelaysOf(q)) = size /\ Len(RelaysOf(new)) = size + 1
  BY <1>5 DEF RelaysOf
<1> QED BY <1>5, <1>10, <1>11, <1>12, <1>13 DEF new
-------------------------------------------------------------------------------
(***************************************************************************)
(* What the opponent hears.  The batches in the outbox of a slot's holder  *)
(* are what the room took from the other side, as many as the slot's       *)
(* batch number says.                                                      *)
(***************************************************************************)
PassedOn(c, r, s) ==
  LET heard == RelaysOf(out[c])
      said  == accepted[r][Opponent(s)]
  IN /\ Ranked(out[c])
     /\ Len(heard) = seq[r][s]
     /\ Len(heard) <= Len(said)
     /\ \A k \in 1..Len(heard) : heard[k] = Relay(k - 1, said[k])
     /\ ws[c] = "open" => Len(heard) = Len(said)

FaithInv ==
  \A c \in Conns, r \in Rooms, s \in Slots : Holds(c, r, s) => PassedOn(c, r, s)

LEMMA FaithGivesRelay == TypeOK /\ FaithInv => FaithfulRelay
<1> SUFFICES ASSUME TypeOK, FaithInv, NEW r \in Rooms, NEW s \in Slots, slots[r][s] # NoConn
             PROVE  LET heard == RelayStream(slots[r][s])
                        said  == accepted[r][Opponent(s)]
                    IN /\ Len(heard) = seq[r][s]
                       /\ Len(heard) <= Len(said)
                       /\ \A k \in 1..Len(heard) : heard[k] = Relay(k - 1, said[k])
                       /\ ws[slots[r][s]] = "open" => Len(heard) = Len(said)
  BY DEF FaithfulRelay
<1>1. PassedOn(slots[r][s], r, s)
  BY HolderFacts DEF FaithInv
<1> QED BY <1>1 DEF PassedOn, RelayStream

LEMMA InitFaith == Init => FaithInv
BY NoConnOutside DEF Init, FaithInv, Holds

\* The batches of q are those of p.
SameBatches(p, q) == Ranked(p) => Ranked(q) /\ RelaysOf(q) = RelaysOf(p)

LEMMA PassedKept ==
  ASSUME NEW c \in Conns, NEW r \in Rooms, NEW s \in Slots, PassedOn(c, r, s),
         SameBatches(out[c], out'[c]), ws'[c] = "open" => ws[c] = "open",
         seq'[r][s] = seq[r][s], accepted'[r][Opponent(s)] = accepted[r][Opponent(s)]
  PROVE  PassedOn(c, r, s)'
BY DEF PassedOn, SameBatches

LEMMA FaithKept ==
  ASSUME FaithInv, UNCHANGED <<slots, seq, accepted>>,
         \A c \in Conns, r \in Rooms, s \in Slots : Holds(c, r, s) =>
           SameBatches(out[c], out'[c]) /\ (ws'[c] = "open" => ws[c] = "open")
  PROVE  FaithInv'
<1> SUFFICES ASSUME NEW c \in Conns, NEW r \in Rooms, NEW s \in Slots, Holds(c, r, s)
             PROVE  PassedOn(c, r, s)'
  BY DEF FaithInv, Holds
<1>1. PassedOn(c, r, s) /\ SameBatches(out[c], out'[c]) /\ (ws'[c] = "open" => ws[c] = "open")
  BY DEF FaithInv
<1> QED BY <1>1, PassedKept

\* Messages that are not batches.
Others == {m \in Message : m.type # "RELAY"}

LEMMA OtherTypesOfMessage ==
  /\ Waiting \in Others /\ Notice \in Others /\ Ping \in Others
  /\ \A s \in Slots : Start(s) \in Others /\ End(s) \in Others
  /\ \A l \in Loadouts : Loadout(l) \in Others
BY MessageTypes DEF Others, Waiting, Notice, Ping, Start, End, Loadout

\* Up to two other messages.
Chatter == {<<>>} \union {<<a>> : a \in Others} \union {<<a, b>> : a \in Others, b \in Others}

LEMMA ChatterKeeps ==
  ASSUME NEW q \in Seq(Message), NEW w \in Chatter
  PROVE  SameBatches(q, q \o w)
<1>1. CASE w = <<>>
  <2>1. q \o w = q
    BY <1>1, ConcatEmptySeq
  <2> QED BY <2>1 DEF SameBatches
<1>2. ASSUME NEW a \in Others, w = <<a>> PROVE SameBatches(q, q \o w)
  <2>1. a \in Message /\ a.type # "RELAY"
    BY DEF Others
  <2>2. Append(q, a) = q \o <<a>>
    BY <2>1
  <2>3. Ranked(q) => Ranked(Append(q, a)) /\ RelaysOf(Append(q, a)) = RelaysOf(q)
    BY <2>1, OtherMessage
  <2> QED BY <1>2, <2>2, <2>3 DEF SameBatches
<1>3. ASSUME NEW a \in Others, NEW b \in Others, w = <<a, b>> PROVE SameBatches(q, q \o w)
  <2>1. a \in Message /\ a.type # "RELAY" /\ b \in Message /\ b.type # "RELAY"
    BY DEF Others
  <2>2. Append(q, a) \in Seq(Message)
    BY <2>1
  <2>3. Append(Append(q, a), b) = q \o <<a, b>>
    BY <2>1
  <2>4. Ranked(q) => Ranked(Append(q, a)) /\ RelaysOf(Append(q, a)) = RelaysOf(q)
    BY <2>1, OtherMessage
  <2>5. Ranked(Append(q, a)) => /\ Ranked(Append(Append(q, a), b))
                                /\ RelaysOf(Append(Append(q, a), b)) = RelaysOf(Append(q, a))
    BY <2>1, <2>2, OtherMessage
  <2> QED BY <1>3, <2>3, <2>4, <2>5 DEF SameBatches
<1> QED BY <1>1, <1>2, <1>3 DEF Chatter

LEMMA ChatterType == Chatter \subseteq Seq(Message)
<1>1. \A a \in Others, b \in Others : <<>> \in Seq(Message) /\ <<a>> \in Seq(Message) /\ <<a, b>> \in Seq(Message)
  <2>1. Others \subseteq Message
    BY DEF Others
  <2> QED BY <2>1
<1>2. <<>> \in Seq(Message)
  BY EmptySeq
<1>3. ASSUME NEW w \in Chatter PROVE w \in Seq(Message)
  <2>1. \/ w = <<>>
        \/ \E a \in Others : w = <<a>>
        \/ \E a \in Others, b \in Others : w = <<a, b>>
    BY DEF Chatter
  <2> QED BY <1>1, <1>2, <2>1
<1> QED BY <1>3

LEMMA SlotsChatter ==
  ASSUME TypeOK, SeatInv, NEW r \in Rooms, NEW ms \in [Slots -> Chatter],
         out' = Told(ToSlots(r, ms))
  PROVE  \A c \in Conns, q \in Rooms, t \in Slots : Holds(c, q, t) => SameBatches(out[c], out'[c])
<1>1. ms \in [Slots -> Seq(Message)]
  BY ChatterType
<1>2. SUFFICES ASSUME NEW c \in Conns, NEW q \in Rooms, NEW t \in Slots, Holds(c, q, t)
               PROVE  SameBatches(out[c], out'[c])
  OBVIOUS
<1>3. out'[c] = IF q = r /\ ws[c] = "open" THEN out[c] \o ms[t] ELSE out[c]
  BY <1>1, <1>2, SlotsHear
<1>4. SameBatches(out[c], out[c] \o ms[t]) /\ SameBatches(out[c], out[c])
  BY ChatterKeeps DEF TypeOK, SameBatches
<1> QED BY <1>3, <1>4

LEMMA JoinFaith ==
  ASSUME TypeOK, SeatInv, SlotInv, FaithInv,
         NEW c \in Conns, NEW i \in Ids, NEW s \in Slots, Join(c, i, s)
  PROVE  FaithInv'
<1>1. PICK r \in Rooms : Seated(r, s, c)
  BY JoinSeated
<1>2. Opponent(s) \in Slots
  BY OpponentType
<1>3. /\ \A q \in Rooms, t \in Slots : slots'[q][t] = IF q = r /\ t = s THEN c ELSE slots[q][t]
      /\ seq' = seq /\ accepted' = accepted /\ ws' = ws
      /\ \A t \in Slots : seq[r][t] = 0 /\ accepted[r][t] = <<>>
      /\ out[c] = <<>>
  BY <1>1 DEF Seated, SlotInv
<1>4. PassedOn(c, r, s)'
  <2>1. out'[c] \in {<<>>, <<Waiting>>, <<Waiting, Start(s)>>}
    BY <1>1 DEF Seated
  <2>2. \A k \in DOMAIN out'[c] : out'[c][k].type # "RELAY"
    <3>1. Waiting.type # "RELAY" /\ Start(s).type # "RELAY"
      BY DEF Waiting, Start
    <3>2. \A k \in DOMAIN out'[c] : out'[c][k] \in {Waiting, Start(s)}
      BY <2>1
    <3> QED BY <3>1, <3>2
  <2>3. RelayPlaces(out'[c]) = {}
    BY <2>2 DEF RelayPlaces
  <2>4. Cardinality(RelayPlaces(out'[c])) = 0
    BY <2>3, FS_EmptySet
  <2>5. Ranked(out'[c]) /\ Len(RelaysOf(out'[c])) = 0
    BY <2>4 DEF Ranked, RelaysOf
  <2>6. seq'[r][s] = 0 /\ Len(accepted'[r][Opponent(s)]) = 0
    BY <1>2, <1>3
  <2> QED BY <2>5, <2>6 DEF PassedOn
<1>5. ASSUME NEW d \in Conns, NEW q \in Rooms, NEW t \in Slots, Holds(d, q, t)
      PROVE  PassedOn(d, q, t)'
  <2>1. d # c
    BY <1>1, <1>5 DEF Seated
  <2>2. out'[d] = out[d] \/ out'[d] = Append(out[d], Start(Opponent(s)))
    BY <1>1, <2>1 DEF Seated
  <2>3. SameBatches(out[d], out'[d])
    <3>1. out[d] \in Seq(Message) /\ Start(Opponent(s)) \in Message
      BY <1>2, MessageTypes DEF TypeOK
    <3>2. Start(Opponent(s)).type # "RELAY"
      BY <1>2, OtherTypesOfMessage DEF Others
    <3> DEFINE m == Start(Opponent(s))
    <3>3. Ranked(out[d]) => /\ Ranked(Append(out[d], m))
                            /\ RelaysOf(Append(out[d], m)) = RelaysOf(out[d])
      <4> HIDE DEF m
      <4> QED BY <3>1, <3>2, OtherMessage DEF m
    <3> QED BY <2>2, <3>3 DEF SameBatches
  <2> QED BY <1>3, <1>5, <2>3, PassedKept DEF FaithInv
<1> QED BY <1>3, <1>4, <1>5 DEF FaithInv, Holds

LEMMA InputFaith ==
  ASSUME TypeOK, SeatInv, SlotInv, FaithInv,
         NEW r \in Rooms, NEW s \in Slots, NEW i \in Inputs, Input(r, s, i), TakesInput(r, i)
  PROVE  FaithInv'
<1>1. PICK c \in Conns, d \in Conns, o \in Slots, f \in Frame : Taken(r, s, c, d, o, f)
  BY InputTaken
<1>2. /\ o # s /\ Opponent(o) = s /\ Opponent(s) = o /\ Holds(d, r, o) /\ Holds(c, r, s)
      /\ seq[r][o] \in Nat /\ ws' = ws /\ slots' = slots
  BY <1>1 DEF Taken
<1>3. /\ \A q \in Rooms, t \in Slots :
            /\ accepted'[q][t] = IF q = r /\ t = s THEN Append(accepted[r][s], f) ELSE accepted[q][t]
            /\ seq'[q][t] = IF q = r /\ t = o /\ ws[d] = "open" THEN seq[r][o] + 1 ELSE seq[q][t]
      /\ \A e \in Conns :
            out'[e] = IF e = d /\ ws[d] = "open" THEN Append(out[d], Relay(seq[r][o], f)) ELSE out[e]
  BY <1>1 DEF Taken
<1> DEFINE said == accepted[r][s]
           m == Relay(seq[r][o], f)
<1>4. /\ accepted'[r][Opponent(o)] = Append(said, f)
      /\ Append(said, f) \in Seq(Frame) /\ Len(said) \in Nat /\ Len(Append(said, f)) = Len(said) + 1
      /\ Append(said, f)[Len(said) + 1] = f /\ \A k \in 1..Len(said) : Append(said, f)[k] = said[k]
  <2>1. said \in Seq(Frame)
    BY DEF TypeOK
  <2>2. accepted'[r][Opponent(o)] = Append(said, f)
    BY <1>2, <1>3
  <2> HIDE DEF said
  <2> QED BY <2>1, <2>2
<1>5. PassedOn(d, r, o)
  BY <1>2 DEF FaithInv
<1>6. /\ Ranked(out[d]) /\ Len(RelaysOf(out[d])) = seq[r][o]
      /\ Len(RelaysOf(out[d])) <= Len(said)
      /\ \A k \in 1..Len(RelaysOf(out[d])) : RelaysOf(out[d])[k] = Relay(k - 1, said[k])
      /\ ws[d] = "open" => Len(RelaysOf(out[d])) = Len(said)
  BY <1>2, <1>5 DEF PassedOn
<1>7. out[d] \in Seq(Message) /\ m \in Message /\ m.type = "RELAY"
  BY <1>2, MessageTypes DEF TypeOK, Relay
<1> HIDE DEF said, m
<1>8. ASSUME ws[d] = "open" PROVE PassedOn(d, r, o)'
  <2>1. out'[d] = Append(out[d], m) /\ seq'[r][o] = seq[r][o] + 1
    BY <1>2, <1>3, <1>8 DEF m
  <2>2. /\ Ranked(out'[d]) /\ Len(RelaysOf(out'[d])) = seq[r][o] + 1
        /\ RelaysOf(out'[d])[seq[r][o] + 1] = m
        /\ \A n \in 1..seq[r][o] : RelaysOf(out'[d])[n] = RelaysOf(out[d])[n]
    BY <1>6, <1>7, <2>1, FurtherBatch
  <2>3. \A k \in 1..seq[r][o] + 1 : RelaysOf(out'[d])[k] = Relay(k - 1, Append(said, f)[k])
    <3> TAKE k \in 1..seq[r][o] + 1
    <3>1. CASE k = seq[r][o] + 1
      <4>1. k - 1 = seq[r][o] /\ Append(said, f)[k] = f
        BY <1>2, <1>4, <1>6, <1>8, <3>1
      <4> QED BY <2>2, <3>1, <4>1 DEF m
    <3>2. CASE k # seq[r][o] + 1
      <4>1. k \in 1..seq[r][o] /\ k \in 1..Len(said)
        BY <1>2, <1>4, <1>6, <1>8, <3>2
      <4> QED BY <1>4, <1>6, <2>2, <4>1
    <3> QED BY <3>1, <3>2
  <2>4. seq[r][o] + 1 = Len(Append(said, f))
    BY <1>4, <1>6, <1>8
  <2>5. PassedOn(d, r, o)'
    <3>1. Len(RelaysOf(out'[d])) = seq'[r][o]
      BY <2>1, <2>2
    <3>2. Len(RelaysOf(out'[d])) = Len(accepted'[r][Opponent(o)])
      BY <1>4, <2>2, <2>4
    <3>3. \A k \in 1..Len(RelaysOf(out'[d])) :
             RelaysOf(out'[d])[k] = Relay(k - 1, accepted'[r][Opponent(o)][k])
      BY <1>4, <2>2, <2>3
    <3>4. Len(RelaysOf(out'[d])) \in Nat
      BY <1>2, <2>2
    <3> QED BY <2>2, <3>1, <3>2, <3>3, <3>4 DEF PassedOn
  <2> QED BY <2>5
<1>9. ASSUME ws[d] # "open" PROVE PassedOn(d, r, o)'
  <2>1. out'[d] = out[d] /\ seq'[r][o] = seq[r][o] /\ ws'[d] # "open"
    BY <1>2, <1>3, <1>9
  <2>2. Len(RelaysOf(out[d])) <= Len(Append(said, f))
    BY <1>2, <1>4, <1>6
  <2>3. \A k \in 1..Len(RelaysOf(out[d])) : RelaysOf(out[d])[k] = Relay(k - 1, Append(said, f)[k])
    BY <1>2, <1>4, <1>6
  <2> QED BY <1>4, <1>6, <2>1, <2>2, <2>3 DEF PassedOn
<1>10. PassedOn(d, r, o)'
  BY <1>8, <1>9
<1>11. ASSUME NEW e \in Conns, NEW q \in Rooms, NEW t \in Slots, Holds(e, q, t), ~(q = r /\ t = o)
       PROVE  PassedOn(e, q, t)'
  <2>1. e # d
    BY <1>2, <1>11 DEF SeatInv, OneSeat
  <2>2. out'[e] = out[e] /\ SameBatches(out[e], out'[e])
    BY <1>3, <2>1 DEF SameBatches
  <2>3. ~(q = r /\ Opponent(t) = s) /\ Opponent(t) \in Slots
    BY <1>2, <1>11, OpponentType DEF Opponent, Slots
  <2>4. seq'[q][t] = seq[q][t] /\ accepted'[q][Opponent(t)] = accepted[q][Opponent(t)]
    BY <1>3, <1>11, <2>3
  <2> QED BY <1>2, <1>11, <2>2, <2>4, PassedKept DEF FaithInv
<1> QED BY <1>2, <1>10, <1>11 DEF FaithInv, Holds

LEMMA NextFaith ==
  ASSUME TypeOK, SeatInv, SlotInv, FaithInv, [Next]_vars
  PROVE  FaithInv'
<1>1. ASSUME UNCHANGED <<slots, seq, accepted, out>>,
             \A c \in Conns, r \in Rooms, s \in Slots : Holds(c, r, s) => (ws'[c] = "open" => ws[c] = "open")
      PROVE  FaithInv'
  BY <1>1, FaithKept DEF SameBatches
<1>2. ASSUME NEW r \in Rooms, NEW i \in Ids, NEW ps \in Invitations, CreateRoom(r, i, ps)
      PROVE  FaithInv'
  BY <1>1, <1>2 DEF CreateRoom
<1>3. ASSUME NEW c \in Conns, Connect(c) \/ HangUp(c) \/ RefuseOther(c)
      PROVE  FaithInv'
  <2>1. \A d \in Conns : d # c => ws'[d] = ws[d]
    BY <1>3 DEF Connect, HangUp, RefuseOther, ServerCloses, TypeOK
  <2>2. ws'[c] = "open" => ws[c] = "new"
    BY <1>3 DEF Connect, HangUp, RefuseOther, ServerCloses, TypeOK
  <2>3. \A d \in Conns, r \in Rooms, s \in Slots : Holds(d, r, s) => (ws'[d] = "open" => ws[d] = "open")
    BY <2>1, <2>2 DEF SeatInv
  <2>4. UNCHANGED <<slots, seq, accepted, out>>
    BY <1>3 DEF Connect, HangUp, RefuseOther, roomVars
  <2> QED BY <1>1, <2>3, <2>4
<1>4. ASSUME NEW c \in Conns, NEW i \in Ids, NEW s \in Slots, RefuseJoin(c, i, s)
      PROVE  FaithInv'
  <2>1. \A d \in Conns : ws'[d] = "open" => ws[d] = "open"
    BY <1>4 DEF RefuseJoin, ServerCloses, TypeOK
  <2> QED BY <1>1, <1>4, <2>1 DEF RefuseJoin, roomVars
<1>5. ASSUME NEW c \in Conns, NEW i \in Ids, NEW s \in Slots, Join(c, i, s)
      PROVE  FaithInv'
  BY <1>5, JoinFaith
<1>6. ASSUME NEW r \in Rooms, NEW s \in Slots, NEW i \in Inputs, Input(r, s, i)
      PROVE  FaithInv'
  <2>1. CASE TakesInput(r, i)
    BY <1>6, <2>1, InputFaith
  <2>2. CASE ~TakesInput(r, i)
    BY <1>1, <1>6, <2>2 DEF Input, HandleInput
  <2> QED BY <2>1, <2>2
<1>7. ASSUME NEW r \in Rooms, NEW ms \in [Slots -> Chatter], out' = Told(ToSlots(r, ms)),
             UNCHANGED <<slots, seq, accepted>>, \A c \in Conns : ws'[c] = "open" => ws[c] = "open"
      PROVE  FaithInv'
  BY <1>7, SlotsChatter, FaithKept
<1>8. ASSUME NEW r \in Rooms, NEW s \in Slots, NEW l \in Loadouts, ForwardLoadout(r, s, l)
      PROVE  FaithInv'
  <2> DEFINE ms == [t \in Slots |-> IF t = Opponent(s) THEN <<Loadout(l)>> ELSE <<>>]
  <2>1. ms \in [Slots -> Chatter]
    BY OtherTypesOfMessage DEF Chatter
  <2>2. out' = Told(ToSlots(r, ms)) /\ UNCHANGED <<slots, seq, accepted, ws>>
    BY <1>8 DEF ForwardLoadout, HandleLoadout
  <2> HIDE DEF ms
  <2> QED BY <1>7, <2>1, <2>2
<1>9. ASSUME NEW r \in Rooms, PingTick(r) PROVE FaithInv'
  <2> DEFINE ms == [t \in Slots |-> <<Ping>>]
  <2>1. ms \in [Slots -> Chatter]
    BY OtherTypesOfMessage DEF Chatter
  <2>2. out' = Told(ToSlots(r, ms)) /\ UNCHANGED <<slots, seq, accepted, ws>>
    BY <1>9 DEF PingTick, SendPing
  <2> HIDE DEF ms
  <2> QED BY <1>7, <2>1, <2>2
<1>10. ASSUME NEW c \in Conns, CloseEvent(c) PROVE FaithInv'
  <2>1. \A d \in Conns : ws'[d] = "open" => ws[d] = "open"
    BY <1>10 DEF CloseEvent, TypeOK
  <2>2. ASSUME UNCHANGED <<roomVars, out>> PROVE FaithInv'
    BY <1>1, <2>1, <2>2 DEF roomVars
  <2>3. ASSUME NEW r \in Rooms, NEW s \in Slots, EndRoom(r, s) PROVE FaithInv'
    <3>1. Farewell(s) \in [Slots -> Chatter]
      BY OtherTypesOfMessage, OpponentType DEF Farewell, WinnerWhenClosed, Chatter
    <3> QED BY <1>7, <2>1, <2>3, <3>1 DEF EndRoom
  <2> QED BY <1>10, <2>2, <2>3 DEF CloseEvent, CloseStranger, CloseAttached, HandleClose
<1>11. ASSUME Restart PROVE FaithInv'
  <2>1. \A c \in Conns : ws'[c] # "open"
    BY <1>11 DEF Restart
  <2> QED BY <1>1, <1>11, <2>1 DEF Restart
<1>12. UNCHANGED vars => FaithInv'
  BY <1>1 DEF vars, roomVars
<1> QED
  BY <1>2, <1>3, <1>4, <1>5, <1>6, <1>8, <1>9, <1>10, <1>11, <1>12
     DEF Next, Crash, InputOverflow

\* The opponent hears what the room accepted, in order, without gap or
\* repetition, and all of it while its socket is open (handleMessage, flush).
THEOREM RelayIsFaithful == Spec => []FaithfulRelay
<1> DEFINE Inv == TypeOK /\ SeatInv /\ SlotInv /\ FaithInv
<1>1. Init => Inv
  BY InitType, InitSeats, InitSlots, InitFaith
<1>2. Inv /\ [Next]_vars => Inv'
  BY NextType, NextSeats, NextSlots, NextFaith
<1>3. Inv => FaithfulRelay
  BY FaithGivesRelay
<1> HIDE DEF Inv
<1> QED BY <1>1, <1>2, <1>3, PTL DEF Spec
-------------------------------------------------------------------------------
(***************************************************************************)
(* The order of what a client hears.                                       *)
(***************************************************************************)
Traffic == {"RELAY", "LOADOUT", "PING"}

Heard(c, r, s) ==
  /\ out[c] # <<>> => out[c][1] = Waiting
  /\ Len(out[c]) > 1 => out[c][2] = Start(s) /\ state[r] \notin {"unborn", "waiting"}
  /\ \A k \in 3..Len(out[c]) :
       \/ out[c][k].type \in Traffic
       \/ out[c][k] = Notice /\ k = Len(out[c]) - 1 /\ state[r] = "closed"
       \/ out[c][k] = End(s) /\ k = Len(out[c]) /\ state[r] = "closed"
            /\ out[c][k - 1] = Notice /\ verdict[r] = s
  /\ ws[c] = "open" => out[c] # <<>> /\ (state[r] # "waiting" => Len(out[c]) > 1)

OrderInv == \A c \in Conns, r \in Rooms, s \in Slots : Holds(c, r, s) => Heard(c, r, s)

LEMMA TypesApart ==
  ASSUME NEW s \in Slots
  PROVE  /\ Waiting.type = "WAITING" /\ Notice.type = "DISCONNECT"
         /\ Start(s).type = "START" /\ End(s).type = "END"
BY DEF Waiting, Notice, Start, End

LEMMA OrderGivesProtocol == TypeOK /\ OrderInv => ProtocolOrder
<1> SUFFICES ASSUME TypeOK, OrderInv, NEW c \in Conns, NEW r \in Rooms, NEW s \in Slots, Holds(c, r, s)
             PROVE  InOrder(c, r, s) /\ (ws[c] = "open" => ((Len(out[c]) > 1) <=> (state[r] # "waiting")))
  BY DEF ProtocolOrder
<1>1. out[c] \in Seq(Message) /\ Len(out[c]) \in Nat
  BY DEF TypeOK
<1>2. Heard(c, r, s)
  BY DEF OrderInv
<1>3. ASSUME NEW k \in 1..Len(out[c])
      PROVE  /\ (out[c][k] = Waiting) <=> (k = 1)
             /\ (out[c][k] = Start(s)) <=> (k = 2)
             /\ out[c][k].type = "START" => k = 2
             /\ out[c][k].type = "DISCONNECT" => k = Len(out[c]) - 1
             /\ out[c][k].type = "END" =>
                  k = Len(out[c]) /\ out[c][k] = End(s) /\ out[c][k - 1] = Notice /\ verdict[r] = s
  <2>1. CASE k = 1
    <3>1. out[c][k] = Waiting
      BY <1>1, <1>2, <2>1 DEF Heard
    <3> QED BY <2>1, <3>1, TypesApart
  <2>2. CASE k = 2
    <3>1. out[c][k] = Start(s)
      BY <1>1, <1>2, <2>2 DEF Heard
    <3> QED BY <2>2, <3>1, TypesApart
  <2>3. CASE k # 1 /\ k # 2
    <3>1. k \in 3..Len(out[c])
      BY <1>1, <2>3
    <3>2. CASE out[c][k].type \in Traffic
      BY <2>3, <3>2, TypesApart DEF Traffic
    <3>3. CASE out[c][k] = Notice /\ k = Len(out[c]) - 1
      BY <2>3, <3>3, TypesApart
    <3>4. CASE out[c][k] = End(s) /\ k = Len(out[c]) /\ out[c][k - 1] = Notice /\ verdict[r] = s
      BY <2>3, <3>4, TypesApart
    <3> QED BY <1>2, <3>1, <3>2, <3>3, <3>4 DEF Heard
  <2> QED BY <2>1, <2>2, <2>3
<1>4. InOrder(c, r, s)
  BY <1>3 DEF InOrder
<1> QED BY <1>1, <1>2, <1>4 DEF Heard

LEMMA InitOrder == Init => OrderInv
BY NoConnOutside DEF Init, OrderInv, Holds

\* What a connection may hear in a step, if it holds slot s of room r.
HeardKeptBy(c, r, s) ==
  /\ out'[c] = out[c] /\ (ws'[c] = "open" => ws[c] = "open")
  /\ \/ state'[r] = state[r] /\ verdict'[r] = verdict[r]
     \/ Live(r) /\ state'[r] \in {"closed", "lost"} /\ ws'[c] # "open"
     \/ state[r] = "waiting" /\ state'[r] = "active" /\ ws'[c] # "open"

LEMMA HeardKept ==
  ASSUME TypeOK, NEW c \in Conns, NEW r \in Rooms, NEW s \in Slots,
         Heard(c, r, s), HeardKeptBy(c, r, s)
  PROVE  Heard(c, r, s)'
<1>1. CASE state'[r] = state[r] /\ verdict'[r] = verdict[r]
  BY <1>1 DEF Heard, HeardKeptBy
<1>2. CASE /\ state[r] \in {"waiting", "active"} /\ state'[r] \in {"active", "closed", "lost"}
           /\ ws'[c] # "open"
  BY <1>2 DEF Heard, HeardKeptBy
<1> QED BY <1>1, <1>2 DEF HeardKeptBy, Live

LEMMA HeardTraffic ==
  ASSUME TypeOK, NEW c \in Conns, NEW r \in Rooms, NEW s \in Slots, Heard(c, r, s),
         state[r] = "active", ws[c] = "open", state'[r] = state[r], verdict'[r] = verdict[r],
         NEW m \in Message, m.type \in Traffic, out'[c] = Append(out[c], m)
  PROVE  Heard(c, r, s)'
<1>1. out[c] \in Seq(Message) /\ Len(out[c]) \in Nat
  BY DEF TypeOK
<1>2. /\ Len(out'[c]) = Len(out[c]) + 1 /\ out'[c][Len(out[c]) + 1] = m
      /\ \A k \in 1..Len(out[c]) : out'[c][k] = out[c][k]
  BY <1>1
<1>3. Len(out[c]) > 1
  BY DEF Heard
<1>4. out'[c] # <<>> /\ out'[c][1] = Waiting /\ out'[c][2] = Start(s)
  BY <1>1, <1>2, <1>3 DEF Heard
<1>5. ASSUME NEW k \in 3..Len(out'[c]) PROVE out'[c][k].type \in Traffic
  <2>1. k \in 3..Len(out[c]) \/ k = Len(out[c]) + 1
    BY <1>1, <1>2
  <2>2. k \in 3..Len(out[c]) => out[c][k].type \in Traffic /\ out'[c][k] = out[c][k]
    BY <1>1, <1>2 DEF Heard
  <2> QED BY <1>2, <2>1, <2>2
<1> QED BY <1>1, <1>2, <1>3, <1>4, <1>5 DEF Heard

LEMMA HeardStart ==
  ASSUME TypeOK, NEW c \in Conns, NEW r \in Rooms, NEW s \in Slots, Heard(c, r, s),
         state[r] = "waiting", ws[c] = "open", state'[r] = "active",
         out'[c] = Append(out[c], Start(s))
  PROVE  Heard(c, r, s)'
<1>1. out[c] \in Seq(Message) /\ Len(out[c]) \in Nat
  BY DEF TypeOK
<1>2. Len(out[c]) = 1 /\ out[c][1] = Waiting
  <2>1. out[c] # <<>> /\ ~(Len(out[c]) > 1) /\ out[c][1] = Waiting
    BY DEF Heard
  <2>2. Len(out[c]) \in Nat \ {0}
    BY <1>1, <2>1, EmptySeq
  <2>3. ~(Len(out[c]) > 1)
    BY <2>1
  <2>4. Len(out[c]) = 1
    <3>1. \A n \in Nat \ {0} : ~(n > 1) => n = 1
      OBVIOUS
    <3> QED BY <2>2, <2>3, <3>1, Zenon
  <2> QED BY <2>1, <2>4
<1>3. /\ Len(out'[c]) = 2 /\ out'[c][1] = Waiting /\ out'[c][2] = Start(s)
  BY <1>1, <1>2
<1> QED BY <1>3 DEF Heard

LEMMA HeardEnd ==
  ASSUME TypeOK, NEW c \in Conns, NEW r \in Rooms, NEW s \in Slots, Heard(c, r, s),
         state[r] = "active", ws[c] = "open", state'[r] = "closed", verdict'[r] = s,
         out'[c] = out[c] \o <<Notice, End(s)>>
  PROVE  Heard(c, r, s)'
<1> DEFINE n == Len(out[c])
<1>1. out[c] \in Seq(Message) /\ n \in Nat
  BY DEF TypeOK
<1>2. n > 1
  BY DEF Heard
<1>3. /\ Len(out'[c]) = n + 2 /\ out'[c][n + 1] = Notice /\ out'[c][n + 2] = End(s)
      /\ \A k \in 1..n : out'[c][k] = out[c][k]
  BY <1>1
<1>4. out'[c] # <<>> /\ out'[c][1] = Waiting /\ out'[c][2] = Start(s)
  BY <1>1, <1>2, <1>3 DEF Heard
<1>5. ASSUME NEW k \in 3..Len(out'[c])
      PROVE  \/ out'[c][k].type \in Traffic
             \/ out'[c][k] = Notice /\ k = Len(out'[c]) - 1
             \/ out'[c][k] = End(s) /\ k = Len(out'[c]) /\ out'[c][k - 1] = Notice
  <2>1. k \in 3..n \/ k = n + 1 \/ k = n + 2
    BY <1>1, <1>3
  <2>2. k \in 3..n => out[c][k].type \in Traffic /\ out'[c][k] = out[c][k]
    BY <1>1, <1>3 DEF Heard
  <2>3. k = n + 2 => k - 1 = n + 1
    BY <1>1
  <2>4. k = n + 1 => k = Len(out'[c]) - 1
    BY <1>1, <1>3
  <2> QED BY <1>3, <2>1, <2>2, <2>3, <2>4
<1>6. Len(out'[c]) > 1
  BY <1>1, <1>3
<1>7. \A k \in 3..Len(out'[c]) :
         \/ out'[c][k].type \in Traffic
         \/ out'[c][k] = Notice /\ k = Len(out'[c]) - 1 /\ state'[r] = "closed"
         \/ out'[c][k] = End(s) /\ k = Len(out'[c]) /\ state'[r] = "closed"
              /\ out'[c][k - 1] = Notice /\ verdict'[r] = s
  BY <1>5
<1> QED BY <1>4, <1>6, <1>7 DEF Heard

\* The holder of slot s of room r is gone and the room ends.
Ended(r, s, c) ==
  /\ Holds(c, r, s) /\ Live(r) /\ ws[c] = "closing"
  /\ slots' = slots /\ seq' = seq /\ accepted' = accepted
  /\ \A e \in Conns : ws'[e] = IF e = c THEN "closed" ELSE ws[e]
  /\ \A q \in Rooms : /\ state'[q] = IF q = r THEN "closed" ELSE state[q]
                      /\ verdict'[q] = IF q = r THEN Opponent(s) ELSE verdict[q]
  /\ \A e \in Conns, q \in Rooms, t \in Slots : Holds(e, q, t) =>
       out'[e] = IF q = r /\ t = Opponent(s) /\ ws[e] = "open"
                 THEN out[e] \o <<Notice, End(Opponent(s))>> ELSE out[e]

LEMMA CloseEnds ==
  ASSUME TypeOK, SeatInv, NEW c \in Conns, CloseEvent(c)
  PROVE  \/ UNCHANGED <<roomVars, out>>
         \/ \E r \in Rooms, s \in Slots : Ended(r, s, c)
<1>1. ws[c] = "closing" /\ \A e \in Conns : ws'[e] = IF e = c THEN "closed" ELSE ws[e]
  BY DEF CloseEvent, TypeOK
<1>2. ASSUME NEW r \in Rooms, NEW s \in Slots, Holds(c, r, s), Live(r), EndRoom(r, s)
      PROVE  Ended(r, s, c)
  <2>1. Opponent(s) \in Slots /\ Opponent(s) # s /\ \A t \in Slots : t \in {s, Opponent(s)}
    BY OpponentType DEF Slots, Opponent
  <2>2. /\ Farewell(s) \in [Slots -> Seq(Message)]
        /\ Farewell(s)[Opponent(s)] = <<Notice, End(Opponent(s))>>
    BY <2>1, MessageTypes DEF Farewell, WinnerWhenClosed
  <2>3. \A e \in Conns, q \in Rooms, t \in Slots : Holds(e, q, t) =>
          out'[e] = IF q = r /\ ws[e] = "open" THEN out[e] \o Farewell(s)[t] ELSE out[e]
    BY <1>2, <2>2, SlotsHear DEF EndRoom
  <2>4. \A e \in Conns : Holds(e, r, s) => ws[e] # "open"
    BY <1>1, <1>2 DEF Holds
  <2>5. \A e \in Conns, q \in Rooms, t \in Slots : Holds(e, q, t) =>
          out'[e] = IF q = r /\ t = Opponent(s) /\ ws[e] = "open"
                    THEN out[e] \o <<Notice, End(Opponent(s))>> ELSE out[e]
    BY <2>1, <2>2, <2>3, <2>4
  <2>6. \A q \in Rooms : /\ state'[q] = IF q = r THEN "closed" ELSE state[q]
                         /\ verdict'[q] = IF q = r THEN Opponent(s) ELSE verdict[q]
    BY <1>2 DEF EndRoom, WinnerWhenClosed, TypeOK
  <2> QED BY <1>1, <1>2, <2>5, <2>6 DEF Ended, EndRoom
<1> QED BY <1>2 DEF CloseEvent, CloseStranger, CloseAttached, HandleClose

\* A message for the holders of a room's slots while the match runs.
Chatted(r) ==
  /\ state[r] = "active" /\ UNCHANGED <<state, verdict, slots, ws>>
  /\ \A c \in Conns, q \in Rooms, t \in Slots : Holds(c, q, t) =>
       \/ out'[c] = out[c]
       \/ /\ q = r /\ ws[c] = "open"
          /\ \E m \in Message : m.type \in Traffic /\ out'[c] = Append(out[c], m)

LEMMA ChattedOrder ==
  ASSUME TypeOK, OrderInv, NEW r \in Rooms, Chatted(r)
  PROVE  OrderInv'
<1> SUFFICES ASSUME NEW c \in Conns, NEW q \in Rooms, NEW t \in Slots, Holds(c, q, t)
             PROVE  Heard(c, q, t)'
  BY DEF OrderInv, Holds, Chatted
<1>1. Heard(c, q, t) /\ state' = state /\ verdict' = verdict /\ ws' = ws
  BY DEF OrderInv, Chatted
<1>2. CASE out'[c] = out[c]
  BY <1>1, <1>2, HeardKept DEF HeardKeptBy
<1>3. ASSUME q = r, ws[c] = "open",
             NEW m \in Message, m.type \in Traffic, out'[c] = Append(out[c], m)
      PROVE  Heard(c, q, t)'
  <2>1. state[q] = "active"
    BY <1>3 DEF Chatted
  <2> QED BY <1>1, <1>3, <2>1, HeardTraffic
<1> QED BY <1>2, <1>3 DEF Chatted

LEMMA SlotsChatted ==
  ASSUME TypeOK, SeatInv, NEW r \in Rooms, NEW S \in SUBSET Slots, NEW m \in Message, m.type \in Traffic,
         state[r] = "active", UNCHANGED <<state, verdict, slots, ws>>,
         out' = Told(ToSlots(r, [t \in Slots |-> IF t \in S THEN <<m>> ELSE <<>>]))
  PROVE  Chatted(r)
<1> DEFINE ms == [t \in Slots |-> IF t \in S THEN <<m>> ELSE <<>>]
<1>1. ms \in [Slots -> Seq(Message)] /\ \A t \in Slots : ms[t] = IF t \in S THEN <<m>> ELSE <<>>
  OBVIOUS
<1> HIDE DEF ms
<1>2. \A c \in Conns, q \in Rooms, t \in Slots : Holds(c, q, t) =>
         out'[c] = IF q = r /\ ws[c] = "open" THEN out[c] \o ms[t] ELSE out[c]
  BY <1>1, SlotsHear DEF ms
<1>3. ASSUME NEW c \in Conns PROVE out[c] \o <<>> = out[c] /\ out[c] \o <<m>> = Append(out[c], m)
  <2>1. out[c] \in Seq(Message)
    BY DEF TypeOK
  <2> QED BY <2>1, ConcatEmptySeq, AppendIsConcat
<1>4. ASSUME NEW c \in Conns, NEW q \in Rooms, NEW t \in Slots, Holds(c, q, t)
      PROVE  \/ out'[c] = out[c]
             \/ q = r /\ ws[c] = "open" /\ out'[c] = Append(out[c], m)
  BY <1>1, <1>2, <1>3, <1>4
<1> QED BY <1>4 DEF Chatted

LEMMA LoadoutChats ==
  ASSUME TypeOK, SeatInv, NEW r \in Rooms, NEW s \in Slots, NEW l \in Loadouts, ForwardLoadout(r, s, l)
  PROVE  Chatted(r)
<1>1. Loadout(l) \in Message /\ Loadout(l).type \in Traffic
  BY MessageTypes DEF Loadout, Traffic
<1>2. {Opponent(s)} \in SUBSET Slots
  BY OpponentType
<1>3. /\ state[r] = "active" /\ UNCHANGED <<state, verdict, slots, ws>>
      /\ out' = Told(ToSlots(r, [t \in Slots |-> IF t = Opponent(s) THEN <<Loadout(l)>> ELSE <<>>]))
  BY DEF ForwardLoadout, HandleLoadout
<1>4. [t \in Slots |-> IF t = Opponent(s) THEN <<Loadout(l)>> ELSE <<>>]
        = [t \in Slots |-> IF t \in {Opponent(s)} THEN <<Loadout(l)>> ELSE <<>>]
  OBVIOUS
<1> QED BY <1>1, <1>2, <1>3, <1>4, SlotsChatted

LEMMA PingChats ==
  ASSUME TypeOK, SeatInv, NEW r \in Rooms, PingTick(r)
  PROVE  Chatted(r)
<1>1. Ping \in Message /\ Ping.type \in Traffic
  BY MessageTypes DEF Ping, Traffic
<1>2. /\ state[r] = "active" /\ UNCHANGED <<state, verdict, slots, ws>>
      /\ out' = Told(ToSlots(r, [t \in Slots |-> <<Ping>>]))
  BY DEF PingTick, SendPing, SeatInv
<1>3. [t \in Slots |-> <<Ping>>] = [t \in Slots |-> IF t \in Slots THEN <<Ping>> ELSE <<>>]
  OBVIOUS
<1> QED BY <1>1, <1>2, <1>3, SlotsChatted

LEMMA JoinOrder ==
  ASSUME TypeOK, SeatInv, SlotInv, OrderInv,
         NEW c \in Conns, NEW i \in Ids, NEW s \in Slots, Join(c, i, s)
  PROVE  OrderInv'
<1>1. PICK r \in Rooms : Seated(r, s, c)
  BY JoinSeated
<1>2. /\ \A q \in Rooms, t \in Slots : slots'[q][t] = IF q = r /\ t = s THEN c ELSE slots[q][t]
      /\ state[r] = "waiting" /\ ws' = ws /\ verdict' = verdict
      /\ \A q \in Rooms : state'[q] = IF q = r /\ StartsMatch(r, s) THEN "active" ELSE state[q]
  BY <1>1 DEF Seated
<1>3. Heard(c, r, s)'
  <2>1. CASE ws[c] # "open"
    BY <1>1, <1>2, <2>1 DEF Heard, Seated
  <2>2. CASE ws[c] = "open" /\ StartsMatch(r, s)
    <3>1. out'[c] = <<Waiting, Start(s)>> /\ state'[r] = "active"
      BY <1>1, <2>2 DEF Seated
    <3> QED BY <3>1 DEF Heard
  <2>3. CASE ws[c] = "open" /\ ~StartsMatch(r, s)
    <3>1. out'[c] = <<Waiting>> /\ state'[r] = "waiting"
      BY <1>1, <2>3 DEF Seated
    <3> QED BY <3>1 DEF Heard
  <2> QED BY <2>1, <2>2, <2>3
<1>4. ASSUME NEW d \in Conns, NEW q \in Rooms, NEW t \in Slots, Holds(d, q, t)
      PROVE  Heard(d, q, t)'
  <2>1. d # c /\ Heard(d, q, t)
    BY <1>1, <1>4 DEF OrderInv, Seated
  <2>2. CASE ws[d] = "open" /\ Holds(d, r, Opponent(s))
    <3>1. q = r /\ t = Opponent(s)
      BY <1>4, <2>2, OpponentType DEF SeatInv, OneSeat
    <3>2. StartsMatch(r, s)
      BY <2>2, RoomAssumption DEF StartsMatch, Holds
    <3>3. out'[d] = Append(out[d], Start(t)) /\ state'[q] = "active" /\ state[q] = "waiting"
      BY <1>1, <1>2, <2>1, <2>2, <3>1, <3>2 DEF Seated
    <3> QED BY <2>1, <2>2, <3>3, HeardStart
  <2>3. CASE ~(ws[d] = "open" /\ Holds(d, r, Opponent(s)))
    <3>1. out'[d] = out[d]
      BY <1>1, <2>1, <2>3 DEF Seated
    <3>2. CASE q = r
      <4>1. t = Opponent(s)
        BY <1>1, <1>4, <3>2, NoConnOutside DEF Seated, Holds, Opponent, Slots
      <4>2. ws'[d] # "open"
        BY <1>2, <1>4, <2>3, <3>2, <4>1
      <4> QED BY <1>2, <2>1, <3>1, <3>2, <4>2, HeardKept DEF HeardKeptBy
    <3>3. CASE q # r
      BY <1>2, <2>1, <3>1, <3>3, HeardKept DEF HeardKeptBy
    <3> QED BY <3>2, <3>3
  <2> QED BY <2>2, <2>3
<1> QED BY <1>2, <1>3, <1>4 DEF OrderInv, Holds

LEMMA CloseOrder ==
  ASSUME TypeOK, SeatInv, SlotInv, OrderInv, NEW r \in Rooms, NEW s \in Slots, NEW c \in Conns, Ended(r, s, c)
  PROVE  OrderInv'
<1>1. /\ Holds(c, r, s) /\ Live(r) /\ slots' = slots
      /\ \A e \in Conns : ws'[e] = "open" => ws[e] = "open"
      /\ \A q \in Rooms : /\ state'[q] = IF q = r THEN "closed" ELSE state[q]
                          /\ verdict'[q] = IF q = r THEN Opponent(s) ELSE verdict[q]
  BY DEF Ended
<1>2. ASSUME NEW e \in Conns, NEW q \in Rooms, NEW t \in Slots, Holds(e, q, t)
      PROVE  Heard(e, q, t)'
  <2>1. Heard(e, q, t)
    BY <1>2 DEF OrderInv
  <2>2. CASE q = r /\ t = Opponent(s) /\ ws[e] = "open"
    <3>1. \A u \in Slots : slots[r][u] # NoConn
      BY <1>1, <1>2, <2>2, RoomAssumption DEF Holds, Slots, Opponent
    <3>2. state[r] = "active"
      BY <1>1, <3>1 DEF SlotInv, Live
    <3>3. out'[e] = out[e] \o <<Notice, End(t)>>
      BY <1>2, <2>2 DEF Ended
    <3> QED BY <1>1, <2>1, <2>2, <3>2, <3>3, HeardEnd
  <2>3. CASE ~(q = r /\ t = Opponent(s) /\ ws[e] = "open")
    <3>1. out'[e] = out[e]
      BY <1>2, <2>3 DEF Ended
    <3>2. CASE q = r
      <4>1. ws'[e] # "open"
        <5>1. CASE t = s
          BY <1>1, <1>2, <3>2, <5>1 DEF Ended, Holds
        <5>2. CASE t # s
          <6>1. t = Opponent(s)
            BY <5>2 DEF Slots, Opponent
          <6> QED BY <1>1, <2>3, <3>2, <6>1
        <5> QED BY <5>1, <5>2
      <4> QED BY <1>1, <2>1, <3>1, <3>2, <4>1, HeardKept DEF HeardKeptBy
    <3>3. CASE q # r
      BY <1>1, <2>1, <3>1, <3>3, HeardKept DEF HeardKeptBy
    <3> QED BY <3>2, <3>3
  <2> QED BY <2>2, <2>3
<1> QED BY <1>1, <1>2 DEF OrderInv, Holds

LEMMA NextOrder ==
  ASSUME TypeOK, SeatInv, SlotInv, OrderInv, [Next]_vars
  PROVE  OrderInv'
<1>1. ASSUME UNCHANGED <<slots, verdict, out>>,
             \A c \in Conns, r \in Rooms, s \in Slots : Holds(c, r, s) => HeardKeptBy(c, r, s)
      PROVE  OrderInv'
  BY <1>1, HeardKept DEF OrderInv, Holds
<1>2. ASSUME NEW r \in Rooms, NEW i \in Ids, NEW ps \in Invitations, CreateRoom(r, i, ps)
      PROVE  OrderInv'
  <2>1. /\ state[r] = "unborn" /\ \A q \in Rooms : q # r => state'[q] = state[q]
        /\ UNCHANGED <<slots, verdict, ws, out>>
    BY <1>2 DEF CreateRoom, TypeOK
  <2>2. \A c \in Conns, q \in Rooms, s \in Slots : Holds(c, q, s) => q # r
    BY <2>1, RoomAssumption DEF SeatInv, Holds
  <2> QED BY <1>1, <2>1, <2>2 DEF HeardKeptBy
<1>3. ASSUME NEW c \in Conns, Connect(c) \/ HangUp(c) \/ RefuseOther(c)
      PROVE  OrderInv'
  <2>1. \A d \in Conns : d # c => ws'[d] = ws[d]
    BY <1>3 DEF Connect, HangUp, RefuseOther, ServerCloses, TypeOK
  <2>2. ws'[c] = "open" => ws[c] = "new"
    BY <1>3 DEF Connect, HangUp, RefuseOther, ServerCloses, TypeOK
  <2>3. \A d \in Conns, r \in Rooms, s \in Slots : Holds(d, r, s) => (ws'[d] = "open" => ws[d] = "open")
    BY <2>1, <2>2 DEF SeatInv
  <2>4. UNCHANGED <<state, slots, verdict, out>>
    BY <1>3 DEF Connect, HangUp, RefuseOther, roomVars
  <2> QED BY <1>1, <2>3, <2>4 DEF HeardKeptBy
<1>4. ASSUME NEW c \in Conns, NEW i \in Ids, NEW s \in Slots, RefuseJoin(c, i, s)
      PROVE  OrderInv'
  <2>1. \A d \in Conns : ws'[d] = "open" => ws[d] = "open"
    BY <1>4 DEF RefuseJoin, ServerCloses, TypeOK
  <2> QED BY <1>1, <1>4, <2>1 DEF RefuseJoin, roomVars, HeardKeptBy
<1>5. ASSUME NEW c \in Conns, NEW i \in Ids, NEW s \in Slots, Join(c, i, s)
      PROVE  OrderInv'
  BY <1>5, JoinOrder
<1>6. ASSUME NEW r \in Rooms, NEW s \in Slots, NEW i \in Inputs, Input(r, s, i)
      PROVE  OrderInv'
  <2>1. CASE TakesInput(r, i)
    <3>1. PICK c \in Conns, d \in Conns, o \in Slots, f \in Frame : Taken(r, s, c, d, o, f)
      BY <1>6, <2>1, InputTaken
    <3>2. Relay(seq[r][o], f) \in Message /\ Relay(seq[r][o], f).type \in Traffic
      BY <3>1, MessageTypes DEF Taken, Relay, Traffic
    <3>3. \A e \in Conns, q \in Rooms, t \in Slots : Holds(e, q, t) /\ e = d => q = r
      BY <3>1 DEF Taken, SeatInv, OneSeat
    <3>4. ASSUME NEW e \in Conns, NEW q \in Rooms, NEW t \in Slots, Holds(e, q, t)
          PROVE  \/ out'[e] = out[e]
                 \/ /\ q = r /\ ws[e] = "open"
                    /\ \E m \in Message : m.type \in Traffic /\ out'[e] = Append(out[e], m)
      <4>1. out'[e] = IF e = d /\ ws[d] = "open" THEN Append(out[d], Relay(seq[r][o], f)) ELSE out[e]
        BY <3>1 DEF Taken
      <4>2. CASE e = d /\ ws[d] = "open"
        BY <3>2, <3>3, <3>4, <4>1, <4>2
      <4>3. CASE ~(e = d /\ ws[d] = "open")
        BY <4>1, <4>3
      <4> QED BY <4>2, <4>3
    <3>5. Chatted(r)
      BY <3>1, <3>4 DEF Taken, Chatted
    <3> QED BY <3>5, ChattedOrder
  <2>2. CASE ~TakesInput(r, i)
    BY <1>1, <1>6, <2>2 DEF Input, HandleInput, HeardKeptBy
  <2> QED BY <2>1, <2>2
<1>7. ASSUME NEW r \in Rooms, NEW s \in Slots, NEW l \in Loadouts, ForwardLoadout(r, s, l)
      PROVE  OrderInv'
  BY <1>7, LoadoutChats, ChattedOrder
<1>8. ASSUME NEW r \in Rooms, PingTick(r) PROVE OrderInv'
  BY <1>8, PingChats, ChattedOrder
<1>9. ASSUME NEW c \in Conns, CloseEvent(c) PROVE OrderInv'
  <2>1. CASE UNCHANGED <<roomVars, out>>
    <3>1. \A d \in Conns : ws'[d] = "open" => ws[d] = "open"
      BY <1>9 DEF CloseEvent, TypeOK
    <3> QED BY <1>1, <2>1, <3>1 DEF roomVars, HeardKeptBy
  <2>2. CASE \E r \in Rooms, s \in Slots : Ended(r, s, c)
    BY <2>2, CloseOrder
  <2> QED BY <1>9, <2>1, <2>2, CloseEnds
<1>10. ASSUME Restart PROVE OrderInv'
  <2>1. UNCHANGED <<slots, verdict, out>> /\ \A c \in Conns : ws'[c] # "open"
    BY <1>10 DEF Restart
  <2>2. \A r \in Rooms : state'[r] = state[r] \/ (Live(r) /\ state'[r] = "lost")
    BY <1>10 DEF Restart
  <2> QED BY <1>1, <2>1, <2>2 DEF HeardKeptBy
<1>11. UNCHANGED vars => OrderInv'
  BY <1>1 DEF vars, roomVars, HeardKeptBy
<1> QED
  BY <1>2, <1>3, <1>4, <1>5, <1>6, <1>7, <1>8, <1>9, <1>10, <1>11
     DEF Next, Crash, InputOverflow

\* A client of a room hears WAITING, START with its slot, traffic, and at the
\* very end the notice and the result, which it has won; and while its socket
\* is open it has heard START exactly when its room left 'waiting' (attach,
\* sendPing, flush, handleClose, end).
THEOREM HeardInOrder == Spec => []ProtocolOrder
<1> DEFINE Inv == TypeOK /\ SeatInv /\ SlotInv /\ OrderInv
<1>1. Init => Inv
  BY InitType, InitSeats, InitSlots, InitOrder
<1>2. Inv /\ [Next]_vars => Inv'
  BY NextType, NextSeats, NextSlots, NextOrder
<1>3. Inv => ProtocolOrder
  BY OrderGivesProtocol
<1> HIDE DEF Inv
<1> QED BY <1>1, <1>2, <1>3, PTL DEF Spec
-------------------------------------------------------------------------------
(***************************************************************************)
(* The relay implements Duel.  What a side has heard is read off the state *)
(* of its room: as many of the other side's inputs as its batch number     *)
(* says.                                                                   *)
(***************************************************************************)
RefinementInv == TypeOK /\ SeatInv /\ SlotInv /\ ClockInv /\ LogComplete /\ FaithInv

HeardSoFar(r, s) == [k \in 1..seq[r][s] |-> accepted[r][Opponent(s)][k]]

HeardAgrees == \A r \in Rooms, s \in Slots : HeardBy(r, s) = HeardSoFar(r, s)

LEMMA HeardByState == RefinementInv => HeardAgrees
<1> SUFFICES ASSUME RefinementInv, NEW r \in Rooms, NEW s \in Slots
             PROVE  HeardBy(r, s) = HeardSoFar(r, s)
  BY DEF HeardAgrees
<1>1. TypeOK /\ SlotInv /\ FaithInv
  BY DEF RefinementInv
<1>2. CASE slots[r][s] = NoConn
  <2>1. seq[r][s] = 0
    BY <1>1, <1>2 DEF SlotInv
  <2>2. HeardSoFar(r, s) = <<>>
    BY <2>1 DEF HeardSoFar
  <2> QED BY <1>2, <2>2 DEF HeardBy
<1>3. CASE slots[r][s] # NoConn
  <2> DEFINE c == slots[r][s]
             heard == RelaysOf(out[c])
             said == accepted[r][Opponent(s)]
  <2>1. PassedOn(c, r, s)
    BY <1>1, <1>3, HolderFacts DEF FaithInv
  <2>2. /\ Len(heard) = seq[r][s] /\ Len(heard) <= Len(said)
        /\ \A k \in 1..Len(heard) : heard[k] = Relay(k - 1, said[k])
    BY <2>1 DEF PassedOn
  <2>3. said \in Seq(Frame) /\ seq[r][s] \in Nat
    BY <1>1, OpponentType DEF TypeOK
  <2>4. HeardBy(r, s) = [k \in 1..Len(heard) |-> [frame |-> heard[k].frame, input |-> heard[k].input]]
    BY <1>3 DEF HeardBy, RelayStream
  <2> HIDE DEF heard, said
  <2>5. ASSUME NEW k \in 1..seq[r][s]
        PROVE  [frame |-> heard[k].frame, input |-> heard[k].input] = said[k]
    <3>1. heard[k] = Relay(k - 1, said[k])
      BY <2>2, <2>5
    <3>2. heard[k].frame = said[k].frame /\ heard[k].input = said[k].input
      BY <3>1 DEF Relay
    <3>3. said[k] \in Frame
      BY <2>2, <2>3, <2>5
    <3> QED BY <3>2, <3>3 DEF Frame
  <2> QED BY <2>2, <2>4, <2>5 DEF HeardSoFar, said
<1> QED BY <1>2, <1>3

LEMMA HeardByNext == RefinementInv' => HeardAgrees'
BY HeardByState, PTL

\* What the phases are.
LEMMA Phases ==
  ASSUME TypeOK, NEW r \in Rooms
  PROVE  /\ PhaseOf(r) = "gathering" <=> state[r] \in {"unborn", "waiting"}
         /\ PhaseOf(r) = "fighting" <=> state[r] = "active"
         /\ PhaseOf(r) = "over" <=> state[r] = "closed"
         /\ PhaseOf(r) = "lost" <=> state[r] = "lost"
BY DEF PhaseOf, TypeOK

LEMMA InitRefines == Init => Match!Init
<1> SUFFICES ASSUME Init PROVE Match!Init
  OBVIOUS
<1>1. /\ \A r \in Rooms : state[r] = "unborn" /\ verdict[r] = Undecided
      /\ \A r \in Rooms, s \in Slots : slots[r][s] = NoConn
      /\ accepted = [r \in Rooms |-> [s \in Slots |-> <<>>]]
  BY DEF Init
<1>2. \A r \in Rooms : PhaseOf(r) = "gathering" /\ GoneFrom(r) = {}
  BY <1>1 DEF PhaseOf, GoneFrom
<1>3. \A r \in Rooms, s \in Slots : HeardBy(r, s) = <<>>
  BY <1>1 DEF HeardBy
<1> QED BY <1>1, <1>2, <1>3 DEF Match!Init, Match!Sides, Slots

\* The parts of the mapping a step leaves alone.
SamePhases   == \A r \in Rooms : PhaseOf(r)' = PhaseOf(r)
SameGone     == \A r \in Rooms : GoneFrom(r)' = GoneFrom(r)
SameSaid     == accepted' = accepted /\ seq' = seq
SameVerdicts == verdict' = verdict

LEMMA SameHeard ==
  ASSUME RefinementInv, RefinementInv', SameSaid, NEW r \in Rooms, NEW s \in Slots
  PROVE  HeardBy(r, s)' = HeardBy(r, s)
<1>1. HeardAgrees /\ HeardAgrees'
  BY HeardByState, HeardByNext
<1>2. HeardBy(r, s) = HeardSoFar(r, s)
  BY <1>1 DEF HeardAgrees
<1>3. HeardBy(r, s)' = HeardSoFar(r, s)'
  BY <1>1 DEF HeardAgrees
<1>4. HeardSoFar(r, s)' = HeardSoFar(r, s)
  BY DEF HeardSoFar, SameSaid
<1> QED BY <1>2, <1>3, <1>4

LEMMA StutterRefines ==
  ASSUME RefinementInv, RefinementInv', SamePhases, SameGone, SameSaid, SameVerdicts
  PROVE  UNCHANGED Match!vars
<1>1. \A r \in Rooms, s \in Slots : HeardBy(r, s)' = HeardBy(r, s)
  BY SameHeard
<1> QED BY <1>1 DEF Match!vars, SamePhases, SameGone, SameSaid, SameVerdicts

LEMMA LeaveRefines ==
  ASSUME RefinementInv, RefinementInv', SamePhases, SameSaid, SameVerdicts,
         NEW r \in Rooms, NEW s \in Slots, s \notin GoneFrom(r),
         \A q \in Rooms : GoneFrom(q)' = IF q = r THEN GoneFrom(r) \union {s} ELSE GoneFrom(q)
  PROVE  Match!Leave(r, s)
<1>1. \A q \in Rooms, t \in Slots : HeardBy(q, t)' = HeardBy(q, t)
  BY SameHeard
<1> QED BY <1>1 DEF Match!Leave, SamePhases, SameSaid, SameVerdicts

LEMMA BeginRefines ==
  ASSUME RefinementInv, RefinementInv', SameSaid, SameVerdicts,
         NEW r \in Rooms, NEW S \in SUBSET Slots, PhaseOf(r) = "gathering",
         \A q \in Rooms : PhaseOf(q)' = IF q = r THEN "fighting" ELSE PhaseOf(q),
         \A q \in Rooms : GoneFrom(q)' = IF q = r THEN GoneFrom(r) \union S ELSE GoneFrom(q)
  PROVE  Match!Begin(r)
<1>1. \A q \in Rooms, t \in Slots : HeardBy(q, t)' = HeardBy(q, t)
  BY SameHeard
<1>2. S \in SUBSET Match!Sides
  BY DEF Match!Sides, Slots
<1> QED BY <1>1, <1>2 DEF Match!Begin, SameSaid, SameVerdicts

LEMMA DecideRefines ==
  ASSUME RefinementInv, RefinementInv', SameSaid, SameGone,
         NEW r \in Rooms, NEW w \in Slots, PhaseOf(r) \in {"gathering", "fighting"},
         Opponent(w) \in GoneFrom(r),
         \A q \in Rooms : PhaseOf(q)' = IF q = r THEN "over" ELSE PhaseOf(q),
         \A q \in Rooms : verdict'[q] = IF q = r THEN w ELSE verdict[q]
  PROVE  Match!Decide(r, w)
<1>1. \A q \in Rooms, t \in Slots : HeardBy(q, t)' = HeardBy(q, t)
  BY SameHeard
<1>2. w # Undecided
  BY DEF Slots, Undecided
<1>3. Match!Other(w) \in GoneFrom(r)
  BY DEF Match!Other, Opponent
<1> QED BY <1>1, <1>2, <1>3 DEF Match!Decide, SameGone, SameSaid

LEMMA BlackoutRefines ==
  ASSUME RefinementInv, RefinementInv', SameSaid, SameVerdicts,
         \A r \in Rooms : PhaseOf(r)' = PhaseOf(r) \/ (PhaseOf(r) # "over" /\ PhaseOf(r)' = "lost"),
         \A r \in Rooms : GoneFrom(r) \subseteq GoneFrom(r)'
  PROVE  Match!Blackout
<1>1. \A q \in Rooms, t \in Slots : HeardBy(q, t)' = HeardBy(q, t)
  BY SameHeard
<1> DEFINE L == {r \in Rooms : PhaseOf(r) # "over" /\ PhaseOf(r)' = "lost"}
<1>2. \A r \in Rooms : PhaseOf(r)' = IF r \in L THEN "lost" ELSE PhaseOf(r)
  OBVIOUS
<1>3. L \in SUBSET {m \in Rooms : [r \in Rooms |-> PhaseOf(r)][m] # "over"}
  OBVIOUS
<1>4. [r \in Rooms |-> PhaseOf(r)]'
        = [m \in Rooms |-> IF m \in L THEN "lost" ELSE [r \in Rooms |-> PhaseOf(r)][m]]
  BY <1>2
<1>5. [r \in Rooms |-> GoneFrom(r)]' \in [Rooms -> SUBSET Match!Sides]
  BY DEF GoneFrom, Match!Sides, Slots
<1> QED BY <1>1, <1>3, <1>4, <1>5 DEF Match!Blackout, SameSaid, SameVerdicts

\* Nobody who sits leaves or comes.
LEMMA GoneKept ==
  ASSUME TypeOK, slots' = slots,
         \A c \in Conns, r \in Rooms, s \in Slots : Holds(c, r, s) => ((ws'[c] = "open") <=> (ws[c] = "open"))
  PROVE  SameGone
BY HolderFacts DEF SameGone, GoneFrom

LEMMA PhaseKept ==
  ASSUME NEW q \in Rooms, state'[q] = state[q]
  PROVE  PhaseOf(q)' = PhaseOf(q)
BY DEF PhaseOf

LEMMA UpdateCell ==
  ASSUME NEW A, NEW B, NEW V, NEW g \in [A -> [B -> V]], NEW h \in [A -> [B -> V]],
         NEW a \in A, NEW b \in B, NEW v,
         \A x \in A, y \in B : h[x][y] = IF x = a /\ y = b THEN v ELSE g[x][y]
  PROVE  h = [g EXCEPT ![a][b] = v]
<1>1. h[a] = [g[a] EXCEPT ![b] = v]
  OBVIOUS
<1>2. \A x \in A : x # a => h[x] = g[x]
  OBVIOUS
<1> QED BY <1>1, <1>2

LEMMA SeqIsFunction ==
  ASSUME NEW S, NEW q \in Seq(S)
  PROVE  q = [k \in 1..Len(q) |-> q[k]]
OBVIOUS

LEMMA StateKept ==
  ASSUME state' = state
  PROVE  SamePhases
BY DEF SamePhases, PhaseOf

LEMMA JoinRefines ==
  ASSUME RefinementInv, RefinementInv', NEW c \in Conns, NEW i \in Ids, NEW s \in Slots, Join(c, i, s)
  PROVE  [Match!Next]_Match!vars
<1>1. TypeOK /\ SeatInv /\ SlotInv
  BY DEF RefinementInv
<1>2. PICK r \in Rooms : Seated(r, s, c)
  BY <1>1, JoinSeated
<1>3. /\ state[r] = "waiting" /\ slots[r][s] = NoConn /\ c # NoConn /\ ws' = ws
      /\ \A q \in Rooms, t \in Slots : slots'[q][t] = IF q = r /\ t = s THEN c ELSE slots[q][t]
      /\ \A q \in Rooms : state'[q] = IF q = r /\ StartsMatch(r, s) THEN "active" ELSE state[q]
  BY <1>2, NoConnOutside DEF Seated
<1>4. SameSaid /\ SameVerdicts
  BY <1>2 DEF Seated, SameSaid, SameVerdicts
<1> DEFINE S == IF ws[c] = "open" THEN {} ELSE {s}
<1>5. /\ s \notin GoneFrom(r) /\ S \in SUBSET Slots
      /\ \A q \in Rooms : GoneFrom(q)' = IF q = r THEN GoneFrom(r) \union S ELSE GoneFrom(q)
  BY <1>3 DEF GoneFrom
<1>6. CASE StartsMatch(r, s)
  <2>1. PhaseOf(r) = "gathering"
    BY <1>1, <1>3, Phases
  <2>2. ASSUME NEW q \in Rooms PROVE PhaseOf(q)' = IF q = r THEN "fighting" ELSE PhaseOf(q)
    <3>1. CASE q = r
      BY <1>3, <1>6, <3>1 DEF PhaseOf
    <3>2. CASE q # r
      <4>1. state'[q] = state[q]
        BY <1>3, <3>2
      <4> QED BY <3>2, <4>1, PhaseKept
    <3> QED BY <3>1, <3>2
  <2>3. Match!Begin(r)
    <3> HIDE DEF S
    <3> QED BY <1>4, <1>5, <2>1, <2>2, BeginRefines
  <2> QED BY <2>3 DEF Match!Next
<1>7. CASE ~StartsMatch(r, s)
  <2>1. SamePhases
    BY <1>3, <1>7 DEF SamePhases, PhaseOf
  <2>2. CASE ws[c] = "open"
    <3>1. SameGone
      BY <1>5, <2>2 DEF SameGone
    <3> QED BY <1>4, <2>1, <3>1, StutterRefines
  <2>3. CASE ws[c] # "open"
    <3>1. Match!Leave(r, s)
      BY <1>4, <1>5, <2>1, <2>3, LeaveRefines
    <3> QED BY <3>1 DEF Match!Next, Match!Sides, Slots
  <2> QED BY <2>2, <2>3
<1> QED BY <1>6, <1>7

LEMMA HangUpRefines ==
  ASSUME RefinementInv, RefinementInv', NEW c \in Conns, HangUp(c)
  PROVE  [Match!Next]_Match!vars
<1>1. TypeOK /\ SeatInv
  BY DEF RefinementInv
<1>2. /\ ws[c] = "open" /\ \A d \in Conns : ws'[d] = IF d = c THEN "closing" ELSE ws[d]
      /\ state' = state /\ slots' = slots
  BY <1>1 DEF HangUp, roomVars, TypeOK
<1>3. SameSaid /\ SameVerdicts /\ SamePhases
  BY <1>2, StateKept DEF HangUp, roomVars, SameSaid, SameVerdicts
<1>4. CASE \A r \in Rooms, s \in Slots : ~Holds(c, r, s)
  <2>1. SameGone
    BY <1>1, <1>2, <1>4, GoneKept
  <2> QED BY <1>3, <2>1, StutterRefines
<1>5. ASSUME NEW r \in Rooms, NEW s \in Slots, Holds(c, r, s) PROVE [Match!Next]_Match!vars
  <2>1. \A q \in Rooms, t \in Slots : slots[q][t] = c => q = r /\ t = s
    BY <1>1, <1>5 DEF SeatInv, OneSeat, Holds
  <2>2. slots[r][s] = c /\ c # NoConn /\ \A q \in Rooms, t \in Slots : slots[q][t] \in Conns \union {NoConn}
    BY <1>1, <1>5, NoConnOutside DEF Holds, TypeOK
  <2>3. /\ s \notin GoneFrom(r)
        /\ \A q \in Rooms : GoneFrom(q)' = IF q = r THEN GoneFrom(r) \union {s} ELSE GoneFrom(q)
    BY <1>2, <2>1, <2>2 DEF GoneFrom
  <2>4. Match!Leave(r, s)
    BY <1>3, <2>3, LeaveRefines
  <2> QED BY <2>4 DEF Match!Next, Match!Sides, Slots
<1> QED BY <1>4, <1>5

LEMMA InputRefines ==
  ASSUME RefinementInv, RefinementInv',
         NEW r \in Rooms, NEW s \in Slots, NEW i \in Inputs, Input(r, s, i), TakesInput(r, i)
  PROVE  [Match!Next]_Match!vars
<1>1. TypeOK /\ SeatInv /\ SlotInv /\ ClockInv /\ FaithInv
  BY DEF RefinementInv
<1>2. PICK c \in Conns, d \in Conns, o \in Slots, f \in Frame : f.input = i /\ Taken(r, s, c, d, o, f)
  BY <1>1, InputTaken
<1>3. /\ o = Opponent(s) /\ o # s /\ Opponent(o) = s /\ state[r] = "active" /\ slots[r][o] = d /\ d # NoConn
      /\ state' = state /\ slots' = slots /\ verdict' = verdict /\ ws' = ws
  BY <1>2, NoConnOutside DEF Taken
<1>4. \A q \in Rooms, t \in Slots :
         /\ accepted'[q][t] = IF q = r /\ t = s THEN Append(accepted[r][s], f) ELSE accepted[q][t]
         /\ seq'[q][t] = IF q = r /\ t = o /\ ws[d] = "open" THEN seq[r][o] + 1 ELSE seq[q][t]
  BY <1>2 DEF Taken
<1>5. SamePhases /\ SameGone /\ SameVerdicts
  BY <1>1, <1>3, StateKept, GoneKept DEF SameVerdicts
<1>6. f \in Moves
  <2>1. clock[c] \in Nat /\ StartFrame[c] \in Nat /\ MaxInputs[c] \in Nat
    BY RoomAssumption, <1>2 DEF Taken
  <2>2. f.frame = clock[c] /\ clock[c] >= StartFrame[c] /\ clock[c] < StartFrame[c] + MaxInputs[c]
    BY <1>1, <1>2 DEF Taken, ClockInv
  <2>3. f.frame \in StartFrame[c]..(StartFrame[c] + MaxInputs[c])
    BY <2>1, <2>2
  <2> QED BY <2>3 DEF Moves, Frame
<1>7. PhaseOf(r) = "fighting"
  BY <1>1, <1>3, Phases
<1>8. Match!Other(s) \in GoneFrom(r) <=> ws[d] # "open"
  BY <1>3 DEF GoneFrom, Match!Other, Opponent
<1>9. PassedOn(d, r, o) /\ accepted[r][s] \in Seq(Frame) /\ seq[r][o] \in Nat
  BY <1>1, <1>2 DEF FaithInv, Taken, TypeOK
<1>10. Len(RelaysOf(out[d])) = seq[r][o] /\ seq[r][o] <= Len(accepted[r][s])
       /\ (ws[d] = "open" => seq[r][o] = Len(accepted[r][s]))
  BY <1>3, <1>9 DEF PassedOn
<1>11. HeardAgrees /\ HeardAgrees'
  BY HeardByState, HeardByNext
<1>12. HeardBy(r, o)' = IF ws[d] = "open" THEN Append(HeardBy(r, o), f) ELSE HeardBy(r, o)
  <2> DEFINE n == seq[r][o]
             said == accepted[r][s]
  <2>1. /\ Append(said, f) \in Seq(Frame) /\ Len(Append(said, f)) = Len(said) + 1 /\ Len(said) \in Nat
        /\ \A k \in 1..Len(said) : Append(said, f)[k] = said[k]
    BY <1>9
  <2>2. /\ HeardBy(r, o) = [k \in 1..n |-> said[k]]
        /\ HeardBy(r, o)' = [k \in 1..seq'[r][o] |-> accepted'[r][s][k]]
    BY <1>3, <1>11 DEF HeardAgrees, HeardSoFar
  <2>3. accepted'[r][s] = Append(said, f) /\ seq'[r][o] = IF ws[d] = "open" THEN n + 1 ELSE n
    BY <1>4
  <2> HIDE DEF n, said
  <2>4. CASE ws[d] = "open"
    <3>1. n = Len(said) /\ seq'[r][o] = Len(Append(said, f))
      BY <1>10, <2>1, <2>3, <2>4 DEF n, said
    <3>2. said = [k \in 1..Len(said) |-> said[k]]
      BY <1>9, SeqIsFunction DEF said
    <3>3. Append(said, f) = [k \in 1..Len(Append(said, f)) |-> Append(said, f)[k]]
      BY <2>1, SeqIsFunction
    <3>4. HeardBy(r, o) = said
      BY <2>2, <3>1, <3>2, Zenon
    <3>5. HeardBy(r, o)' = Append(said, f)
      BY <2>2, <2>3, <3>1, <3>3, Zenon
    <3> QED BY <2>4, <3>4, <3>5
  <2>5. CASE ws[d] # "open"
    <3>1. n \in Nat /\ n <= Len(said)
      BY <1>9, <1>10 DEF n, said
    <3>2. \A k \in 1..n : Append(said, f)[k] = said[k]
      BY <2>1, <3>1
    <3>3. HeardBy(r, o)' = [k \in 1..n |-> Append(said, f)[k]]
      BY <2>2, <2>3, <2>5
    <3> QED BY <2>2, <2>5, <3>2, <3>3
  <2> QED BY <2>4, <2>5
<1>13. ASSUME NEW q \in Rooms, NEW t \in Slots, ~(q = r /\ t = o)
       PROVE  HeardBy(q, t)' = HeardBy(q, t)
  <2>1. Opponent(t) \in Slots /\ ~(q = r /\ Opponent(t) = s)
    BY <1>3, <1>13, OpponentType DEF Opponent, Slots
  <2>2. seq'[q][t] = seq[q][t] /\ accepted'[q][Opponent(t)] = accepted[q][Opponent(t)]
    BY <1>4, <1>13, <2>1
  <2>3. HeardSoFar(q, t)' = HeardSoFar(q, t)
    BY <2>2 DEF HeardSoFar
  <2>4. HeardBy(q, t)' = HeardSoFar(q, t)' /\ HeardBy(q, t) = HeardSoFar(q, t)
    BY <1>11 DEF HeardAgrees
  <2> QED BY <2>3, <2>4
<1>14. Match!Say(r, s, f)
  <2> DEFINE H == [q \in Rooms |-> [t \in Slots |-> HeardBy(q, t)]]
  <2>1. accepted' = [accepted EXCEPT ![r][s] = Append(@, f)]
    <3>1. accepted' \in [Rooms -> [Slots -> Seq(Frame)]] /\ accepted \in [Rooms -> [Slots -> Seq(Frame)]]
      BY DEF RefinementInv, TypeOK
    <3>2. \A q \in Rooms, t \in Slots :
            accepted'[q][t] = IF q = r /\ t = s THEN Append(accepted[r][s], f) ELSE accepted[q][t]
      BY <1>4
    <3> DEFINE v == Append(accepted[r][s], f)
    <3>3. accepted' = [accepted EXCEPT ![r][s] = v]
      <4> HIDE DEF v
      <4>1. \A q \in Rooms, t \in Slots : accepted'[q][t] = IF q = r /\ t = s THEN v ELSE accepted[q][t]
        BY <3>2 DEF v
      <4> QED BY <3>1, <4>1, UpdateCell
    <3> QED BY <3>3
  <2>2. H' = IF ws[d] # "open" THEN H ELSE [H EXCEPT ![r][o] = Append(@, f)]
    <3>1. CASE ws[d] # "open"
      BY <1>12, <1>13, <3>1
    <3>2. CASE ws[d] = "open"
      <4>1. \A q \in Rooms, t \in Slots :
              HeardBy(q, t)' = IF q = r /\ t = o THEN Append(HeardBy(r, o), f) ELSE HeardBy(q, t)
        BY <1>12, <1>13, <3>2
      <4> QED BY <3>2, <4>1
    <3> QED BY <3>1, <3>2
  <2>3. Match!Other(s) = o
    BY <1>3 DEF Match!Other, Opponent
  <2> HIDE DEF H
  <2> QED BY <1>5, <1>7, <1>8, <2>1, <2>2, <2>3 DEF Match!Say, SamePhases, SameGone, SameVerdicts, H
<1> QED BY <1>6, <1>14 DEF Match!Next, Match!Sides, Slots

LEMMA CloseRefines ==
  ASSUME RefinementInv, RefinementInv', NEW c \in Conns, CloseEvent(c)
  PROVE  [Match!Next]_Match!vars
<1>1. TypeOK /\ SeatInv
  BY DEF RefinementInv
<1>2. CASE UNCHANGED <<roomVars, out>>
  <2>1. state' = state /\ slots' = slots /\ SameSaid /\ SameVerdicts
    BY <1>2 DEF roomVars, SameSaid, SameVerdicts
  <2>2. \A e \in Conns : (ws'[e] = "open") <=> (ws[e] = "open")
    BY <1>1 DEF CloseEvent, TypeOK
  <2> QED BY <1>1, <2>1, <2>2, StateKept, GoneKept, StutterRefines
<1>3. ASSUME NEW r \in Rooms, NEW s \in Slots, Ended(r, s, c) PROVE [Match!Next]_Match!vars
  <2>1. /\ slots[r][s] = c /\ c # NoConn /\ ws[c] = "closing" /\ Live(r) /\ slots' = slots /\ SameSaid
        /\ \A e \in Conns : ws'[e] = IF e = c THEN "closed" ELSE ws[e]
    BY <1>3, NoConnOutside DEF Ended, Holds, SameSaid
  <2>2. /\ \A q \in Rooms : state'[q] = IF q = r THEN "closed" ELSE state[q]
        /\ \A q \in Rooms : verdict'[q] = IF q = r THEN Opponent(s) ELSE verdict[q]
    BY <1>3 DEF Ended
  <2>3. SameGone
    BY <1>1, <2>1, GoneKept
  <2>4. PhaseOf(r) \in {"gathering", "fighting"}
    BY <1>1, <2>1, Phases DEF Live
  <2>5. ASSUME NEW q \in Rooms PROVE PhaseOf(q)' = IF q = r THEN "over" ELSE PhaseOf(q)
    <3>1. CASE q = r
      BY <2>2, <3>1 DEF PhaseOf
    <3>2. CASE q # r
      <4>1. state'[q] = state[q]
        BY <2>2, <3>2
      <4> QED BY <3>2, <4>1, PhaseKept
    <3> QED BY <3>1, <3>2
  <2>6. Opponent(s) \in Slots /\ Opponent(Opponent(s)) = s
    BY DEF Opponent, Slots
  <2>7. s \in GoneFrom(r)
    BY <2>1 DEF GoneFrom
  <2>8. Match!Decide(r, Opponent(s))
    BY <2>1, <2>2, <2>3, <2>4, <2>5, <2>6, <2>7, DecideRefines
  <2> QED BY <2>6, <2>8 DEF Match!Next, Match!Sides, Slots
<1> QED BY <1>1, <1>2, <1>3, CloseEnds

LEMMA RestartRefines ==
  ASSUME RefinementInv, RefinementInv', Restart
  PROVE  [Match!Next]_Match!vars
<1>1. TypeOK
  BY DEF RefinementInv
<1>2. SameSaid /\ SameVerdicts /\ slots' = slots /\ \A c \in Conns : ws'[c] # "open"
  BY DEF Restart, SameSaid, SameVerdicts
<1>3. \A r \in Rooms : state'[r] = state[r] \/ (Live(r) /\ state'[r] = "lost")
  BY DEF Restart
<1>4. \A r \in Rooms : PhaseOf(r)' = PhaseOf(r) \/ (PhaseOf(r) # "over" /\ PhaseOf(r)' = "lost")
  <2>1. \A r \in Rooms : Live(r) => PhaseOf(r) # "over"
    BY <1>1, Phases DEF Live
  <2> QED BY <1>3, <2>1 DEF PhaseOf
<1>5. \A r \in Rooms : GoneFrom(r) \subseteq GoneFrom(r)'
  BY <1>1, <1>2, HolderFacts DEF GoneFrom
<1>6. Match!Blackout
  BY <1>2, <1>4, <1>5, BlackoutRefines
<1> QED BY <1>6 DEF Match!Next

LEMMA NextRefines ==
  ASSUME RefinementInv, RefinementInv', [Next]_vars
  PROVE  [Match!Next]_Match!vars
<1>0. TypeOK /\ SeatInv
  BY DEF RefinementInv
<1>1. ASSUME UNCHANGED <<slots, seq, accepted, verdict>>, SamePhases,
             \A c \in Conns, r \in Rooms, s \in Slots : Holds(c, r, s) => ((ws'[c] = "open") <=> (ws[c] = "open"))
      PROVE  [Match!Next]_Match!vars
  BY <1>0, <1>1, GoneKept, StutterRefines DEF SameSaid, SameVerdicts
<1>2. ASSUME NEW r \in Rooms, NEW i \in Ids, NEW ps \in Invitations, CreateRoom(r, i, ps)
      PROVE  [Match!Next]_Match!vars
  <2>1. /\ \A q \in Rooms : state'[q] = IF q = r THEN "waiting" ELSE state[q]
        /\ state[r] = "unborn" /\ UNCHANGED <<slots, seq, accepted, verdict, ws>>
    BY <1>0, <1>2 DEF CreateRoom, TypeOK
  <2>2. SamePhases
    BY <2>1 DEF SamePhases, PhaseOf
  <2> QED BY <1>1, <2>1, <2>2
<1>3. ASSUME NEW c \in Conns, \A d \in Conns : d # c => ws'[d] = ws[d],
             \A r \in Rooms, s \in Slots : ~Holds(c, r, s), UNCHANGED roomVars
      PROVE  [Match!Next]_Match!vars
  <2>1. \A d \in Conns, r \in Rooms, s \in Slots : Holds(d, r, s) => ((ws'[d] = "open") <=> (ws[d] = "open"))
    BY <1>3
  <2> QED BY <1>1, <1>3, <2>1, StateKept DEF roomVars
<1>4. ASSUME NEW c \in Conns, Connect(c) PROVE [Match!Next]_Match!vars
  <2>1. ws[c] = "new" /\ UNCHANGED roomVars /\ \A d \in Conns : d # c => ws'[d] = ws[d]
    BY <1>0, <1>4 DEF Connect, TypeOK
  <2> QED BY <1>0, <1>3, <2>1 DEF SeatInv
<1>5. ASSUME NEW c \in Conns, RefuseOther(c) \/ \E i \in Ids, s \in Slots : RefuseJoin(c, i, s)
      PROVE  [Match!Next]_Match!vars
  <2>1. c \in awaited /\ UNCHANGED roomVars /\ \A d \in Conns : d # c => ws'[d] = ws[d]
    BY <1>0, <1>5 DEF RefuseOther, RefuseJoin, FirstMessage, ServerCloses, TypeOK
  <2> QED BY <1>0, <1>3, <2>1 DEF SeatInv
<1>6. ASSUME NEW c \in Conns, NEW i \in Ids, NEW s \in Slots, Join(c, i, s)
      PROVE  [Match!Next]_Match!vars
  BY <1>6, JoinRefines
<1>7. ASSUME NEW r \in Rooms, NEW s \in Slots, NEW i \in Inputs, Input(r, s, i)
      PROVE  [Match!Next]_Match!vars
  <2>1. CASE TakesInput(r, i)
    BY <1>7, <2>1, InputRefines
  <2>2. CASE ~TakesInput(r, i)
    BY <1>1, <1>7, <2>2, StateKept DEF Input, HandleInput
  <2> QED BY <2>1, <2>2
<1>8. ASSUME NEW r \in Rooms, NEW s \in Slots, NEW l \in Loadouts, ForwardLoadout(r, s, l)
      PROVE  [Match!Next]_Match!vars
  BY <1>1, <1>8, StateKept DEF ForwardLoadout, HandleLoadout
<1>9. ASSUME NEW r \in Rooms, PingTick(r) PROVE [Match!Next]_Match!vars
  BY <1>1, <1>9, StateKept DEF PingTick, SendPing
<1>10. UNCHANGED vars => [Match!Next]_Match!vars
  BY <1>1, StateKept DEF vars, roomVars
<1> QED
  BY <1>2, <1>4, <1>5, <1>6, <1>7, <1>8, <1>9, <1>10, HangUpRefines, CloseRefines, RestartRefines
     DEF Next, Crash, InputOverflow

\* The relay is a duel: every step of the rooms, sockets and outboxes is a
\* step of the promise of module Duel, or changes nothing of it (attach,
\* handleMessage, handleClose, end and the death of the process).
THEOREM RelayImplementsDuel == Spec => ImplementsDuel
<1>1. Init => RefinementInv
  BY InitType, InitSeats, InitSlots, InitClock, InitFaith DEF RefinementInv
<1>2. RefinementInv /\ [Next]_vars => RefinementInv'
  BY NextType, NextSeats, NextSlots, NextClock, NextFaith DEF RefinementInv
<1>3. Init => Match!Init
  BY InitRefines
<1>4. RefinementInv /\ RefinementInv' /\ [Next]_vars => [Match!Next]_Match!vars
  BY NextRefines
<1> QED BY <1>1, <1>2, <1>3, <1>4, PTL DEF Spec, ImplementsDuel, Match!Spec
===============================================================================
