------------------------------ MODULE RelayServer ------------------------------
(***************************************************************************)
(* The relay process (relay-server/room-manager.ts and index.ts): the map  *)
(* of room ids to room objects, POST /rooms, the routing of each           *)
(* connection's first message, and the sockets of module RelayRoom.  The   *)
(* process may die at any moment and be started again: its rooms and       *)
(* sockets are gone.                                                       *)
(*                                                                         *)
(* The set relay:rooms:{serverId} in Redis is left out: its commands are   *)
(* sent and forgotten, they may fail, overtake one another or, without     *)
(* Redis, never be sent, and nothing reads it.                             *)
(***************************************************************************)
EXTENDS RelayRoom, FiniteSets

CONSTANTS
  Ids,        \* room ids
  NoRoom,     \* an id that is not in the map
  Players,
  Owner,      \* connection -> the player id its client presents
  MaxRooms,   \* config.relay.maxRooms
  MayCrash    \* TRUE: the process may die for reasons of its own

ASSUME ServerAssumption ==
  /\ NoRoom \notin Rooms
  /\ Ids # {} /\ Players # {}
  /\ Owner \in [Conns -> Players]
  /\ MaxRooms \in Nat
  /\ MayCrash \in BOOLEAN

VARIABLES
  rooms,    \* RoomManager.rooms: id -> room object or NoRoom
  idOf,     \* room -> its id
  invited,  \* room -> slot -> player
  awaited   \* connections whose first message has not come yet

managerVars == <<rooms, idOf, invited>>
vars == <<roomVars, ws, out, clock, managerVars, awaited>>

Registered == {i \in Ids : rooms[i] # NoRoom}

Init ==
  /\ state     = [r \in Rooms |-> "unborn"]
  /\ slots     = [r \in Rooms |-> [s \in Slots |-> NoConn]]
  /\ seq       = [r \in Rooms |-> [s \in Slots |-> 0]]
  /\ log       = [r \in Rooms |-> EmptyLog]
  /\ pingTimer = [r \in Rooms |-> FALSE]
  /\ verdict   = [r \in Rooms |-> Undecided]
  /\ accepted  = [r \in Rooms |-> [s \in Slots |-> <<>>]]
  /\ ws        = [c \in Conns |-> "new"]
  /\ out       = [c \in Conns |-> <<>>]
  /\ clock     = StartFrame
  /\ rooms     = [i \in Ids |-> NoRoom]
  /\ idOf      = [r \in Rooms |-> CHOOSE i \in Ids : TRUE]
  /\ invited   = [r \in Rooms |-> [s \in Slots |-> CHOOSE p \in Players : TRUE]]
  /\ awaited   = {}

(***************************************************************************)
(* POST /rooms: createRoom registers a new room object under its id, over  *)
(* whatever the map holds there: whoever posts chooses the id, and may     *)
(* choose one that is taken.  At capacity it throws and nothing changes.   *)
(***************************************************************************)
HasCapacity == Cardinality(Registered) < MaxRooms

CreateRoom(r, i, ps) ==
  /\ state[r] = "unborn"
  /\ HasCapacity
  /\ state'   = [state EXCEPT ![r] = "waiting"]
  /\ idOf'    = [idOf EXCEPT ![r] = i]
  /\ invited' = [invited EXCEPT ![r] = ps]
  /\ rooms'   = [rooms EXCEPT ![i] = r]
  /\ UNCHANGED <<slots, seq, log, pingTimer, verdict, accepted, ws, out, clock, awaited>>

\* A client opens a WebSocket; handleNewConnection waits for its first message.
Connect(c) ==
  /\ ws[c] = "new"
  /\ ws' = [ws EXCEPT ![c] = "open"]
  /\ awaited' = awaited \union {c}
  /\ UNCHANGED <<roomVars, out, clock, managerVars>>

(***************************************************************************)
(* The first message.  A CLIENT_JOIN that names a room in the map, a slot  *)
(* and the player invited to it, attaches the connection if the slot is    *)
(* free.  Any other first message makes the server close the connection.   *)
(***************************************************************************)
\* ws.on where the code has ws.once.
FirstMessage_EveryMessage(c) ==
  /\ c \in awaited
  /\ ws[c] \in {"open", "closing"}
  /\ UNCHANGED awaited

FirstMessage(c) ==
  /\ c \in awaited
  /\ ws[c] \in {"open", "closing"}
  /\ awaited' = awaited \ {c}

Admissible(c, i, s) ==
  /\ rooms[i] # NoRoom
  /\ invited[rooms[i]][s] = Owner[c]
  /\ slots[rooms[i]][s] = NoConn

Join(c, i, s) ==
  /\ FirstMessage(c)
  /\ Admissible(c, i, s)
  /\ Attach(rooms[i], s, c)
  /\ UNCHANGED <<ws, clock, managerVars>>

ServerCloses(c) == ws' = [ws EXCEPT ![c] = "closing"]

\* 4004 room not found, 4003 wrong player, 4001 slot taken
RefuseJoin(c, i, s) ==
  /\ FirstMessage(c)
  /\ ~Admissible(c, i, s)
  /\ ServerCloses(c)
  /\ UNCHANGED <<roomVars, out, clock, managerVars>>

\* 4000: the first message is not a CLIENT_JOIN
RefuseOther(c) ==
  /\ FirstMessage(c)
  /\ ServerCloses(c)
  /\ UNCHANGED <<roomVars, out, clock, managerVars>>

(***************************************************************************)
(* Messages and timers of attached connections (module RelayRoom).         *)
(***************************************************************************)
Input(r, s, i) ==
  HandleInput(r, s, i) /\ UNCHANGED <<managerVars, awaited>>

ForwardLoadout(r, s, l) ==
  HandleLoadout(r, s, l) /\ UNCHANGED <<managerVars, awaited>>

PingTick(r) ==
  SendPing(r) /\ UNCHANGED <<managerVars, awaited>>

\* The client hangs up, or its network is lost and TCP notices.
HangUp(c) ==
  /\ ws[c] = "open"
  /\ ws' = [ws EXCEPT ![c] = "closing"]
  /\ UNCHANGED <<roomVars, out, clock, managerVars, awaited>>

(***************************************************************************)
(* The 'close' event.  A connection that holds a slot has its room's       *)
(* handler run; when that ends the room, handleRoomEnd takes the room's id *)
(* out of the map, whichever object is registered there.                   *)
(***************************************************************************)
Forgotten(r) == idOf[r]

\* Without rooms.delete.
HandleRoomEnd_KeepsRoom(r) == UNCHANGED rooms

HandleRoomEnd(r) == rooms' = [rooms EXCEPT ![Forgotten(r)] = NoRoom]

\* The close handler of relay-room.ts returns at once if the room is closed.
CloseAttached(c, r, s) ==
  /\ Holds(c, r, s)
  /\ HandleClose(r, s)
  /\ IF Live(r) THEN HandleRoomEnd(r) ELSE UNCHANGED rooms
  /\ UNCHANGED <<idOf, invited>>

CloseStranger(c) ==
  /\ \A r \in Rooms, s \in Slots : ~Holds(c, r, s)
  /\ UNCHANGED <<roomVars, out, managerVars>>

CloseEvent(c) ==
  /\ ws[c] = "closing"
  /\ ws' = [ws EXCEPT ![c] = "closed"]
  /\ awaited' = awaited \ {c}
  /\ CloseStranger(c) \/ \E r \in Rooms, s \in Slots : CloseAttached(c, r, s)
  /\ UNCHANGED clock

(***************************************************************************)
(* The process dies and is started again.  Nothing in the code does it on  *)
(* purpose except SIGTERM, which exits without ending the rooms; but an    *)
(* exception in a handler does too, as when a batch number outgrows its    *)
(* two bytes.                                                              *)
(***************************************************************************)
Restart ==
  /\ state'     = [r \in Rooms |-> IF Live(r) THEN "lost" ELSE state[r]]
  /\ pingTimer' = [r \in Rooms |-> FALSE]
  /\ ws'        = [c \in Conns |-> IF ws[c] = "new" THEN "new" ELSE "closed"]
  /\ rooms'     = [i \in Ids |-> NoRoom]
  /\ awaited'   = {}
  /\ UNCHANGED <<slots, seq, log, verdict, accepted, out, clock, idOf, invited>>

Crash == MayCrash /\ (\E c \in Conns : ws[c] \notin {"new", "closed"}) /\ Restart

InputOverflow(r, s, i) ==
  /\ Receives(r, s)
  /\ clock[slots[r][s]] < StartFrame[slots[r][s]] + MaxInputs[slots[r][s]]
  /\ TakesInput(r, i)
  /\ Overflows(r, s)
  /\ Restart

\* Every caller of POST /rooms names two different players.
Invitations == {ps \in [Slots -> Players] : ps[0] # ps[1]}

Next ==
  \/ \E r \in Rooms, i \in Ids, ps \in Invitations : CreateRoom(r, i, ps)
  \/ \E c \in Conns : Connect(c) \/ HangUp(c) \/ CloseEvent(c) \/ RefuseOther(c)
  \/ \E c \in Conns, i \in Ids, s \in Slots : Join(c, i, s) \/ RefuseJoin(c, i, s)
  \/ \E r \in Rooms, s \in Slots, i \in Inputs : Input(r, s, i) \/ InputOverflow(r, s, i)
  \/ \E r \in Rooms, s \in Slots, l \in Loadouts : ForwardLoadout(r, s, l)
  \/ \E r \in Rooms : PingTick(r)
  \/ Crash

(***************************************************************************)
(* The WebSocket library emits 'close' for every connection whose peer is  *)
(* gone.  Nothing else is promised: clients need not connect, speak or     *)
(* hang up, and rooms need not be created.                                 *)
(***************************************************************************)
Spec == Init /\ [][Next]_vars /\ \A c \in Conns : WF_vars(CloseEvent(c))

-------------------------------------------------------------------------------
Frame == [frame : Nat, input : Inputs]

Message ==
  {Waiting, Notice, Ping}
    \union {Start(s) : s \in Slots} \union {End(s) : s \in Slots}
    \union {Loadout(l) : l \in Loadouts}
    \union [type : {"RELAY"}, seq : Nat, frame : Nat, input : Inputs]

LogEntry == [frame : Nat, input : [Slots -> Inputs \union {Neutral}]]

\* The variables keep the shapes their comments give.
TypeOK ==
  /\ state \in [Rooms -> {"unborn", "waiting", "active", "closed", "lost"}]
  /\ slots \in [Rooms -> [Slots -> Conns \union {NoConn}]]
  /\ seq \in [Rooms -> [Slots -> Nat]]
  /\ log \in [Rooms -> [entries : Seq(LogEntry), latest : [Slots -> Inputs \union {Neutral}]]]
  /\ pingTimer \in [Rooms -> BOOLEAN]
  /\ verdict \in [Rooms -> Slots \union {Undecided}]
  /\ accepted \in [Rooms -> [Slots -> Seq(Frame)]]
  /\ ws \in [Conns -> {"new", "open", "closing", "closed"}]
  /\ out \in [Conns -> Seq(Message)]
  /\ clock \in [Conns -> Nat]
  /\ rooms \in [Ids -> Rooms \union {NoRoom}]
  /\ idOf \in [Rooms -> Ids]
  /\ invited \in [Rooms -> [Slots -> Players]]
  /\ awaited \in SUBSET Conns

(***************************************************************************)
(* What the opponent hears is a prefix of what the room accepted from the  *)
(* other side, numbered 0, 1, 2, ... without gap or repetition, and all of *)
(* it as long as the opponent's socket is open: the relay "ONLY forwards   *)
(* inputs" (handleMessage and flush).                                      *)
(***************************************************************************)
RelayPlaces(q) == {k \in DOMAIN q : q[k].type = "RELAY"}
RelayAt(q, n) == CHOOSE k \in RelayPlaces(q) : Cardinality({j \in RelayPlaces(q) : j <= k}) = n
RelaysOf(q) == [n \in 1..Cardinality(RelayPlaces(q)) |-> q[RelayAt(q, n)]]
RelayStream(c) == RelaysOf(out[c])

FaithfulRelay ==
  \A r \in Rooms, s \in Slots : slots[r][s] # NoConn =>
    LET heard == RelayStream(slots[r][s])
        said  == accepted[r][Opponent(s)]
    IN /\ Len(heard) = seq[r][s]
       /\ Len(heard) <= Len(said)
       /\ \A k \in 1..Len(heard) : heard[k] = Relay(k - 1, said[k])
       /\ ws[slots[r][s]] = "open" => Len(heard) = Len(said)

(***************************************************************************)
(* The order in which a client of the protocol hears things, whatever the  *)
(* interleaving of joins, messages, pings and closes: WAITING, then START  *)
(* with its own slot, then traffic, and at the very end the notice that    *)
(* the peer is gone and the result, which it has won.  A client whose      *)
(* socket is open has heard START exactly when its room left 'waiting'.    *)
(***************************************************************************)
InOrder(c, r, s) ==
  LET n == Len(out[c]) IN
  \A k \in 1..n :
    /\ (out[c][k] = Waiting) <=> (k = 1)
    /\ (out[c][k] = Start(s)) <=> (k = 2)
    /\ out[c][k].type = "START" => k = 2
    /\ out[c][k].type = "DISCONNECT" => k = n - 1
    /\ out[c][k].type = "END" =>
         k = n /\ out[c][k] = End(s) /\ out[c][k - 1] = Notice /\ verdict[r] = s

ProtocolOrder ==
  \A c \in Conns, r \in Rooms, s \in Slots : Holds(c, r, s) =>
    /\ InOrder(c, r, s)
    /\ ws[c] = "open" => ((Len(out[c]) > 1) <=> (state[r] # "waiting"))

(***************************************************************************)
(* A room has a verdict exactly when it is closed; the loser is a player   *)
(* who had joined and whose socket is really closed; and the winner, if    *)
(* its socket is open, has been told (handleClose, end).                   *)
(***************************************************************************)
VerdictSound ==
  \A r \in Rooms :
    /\ (state[r] = "closed") <=> (verdict[r] # Undecided)
    /\ verdict[r] # Undecided =>
         LET loser  == slots[r][Opponent(verdict[r])]
             winner == slots[r][verdict[r]]
         IN /\ loser # NoConn /\ ws[loser] = "closed"
            /\ winner # NoConn /\ ws[winner] = "open" =>
                 out[winner][Len(out[winner])] = End(verdict[r])

(***************************************************************************)
(* The map leads to live rooms only, each under its own id, across ends    *)
(* and restarts; a live room is in the map, where its players find it,     *)
(* unless a second room was posted under its id, which replaces it there   *)
(* and whose end takes the entry away (createRoom, handleRoomEnd).  The    *)
(* ping timer runs exactly while the match does, so none is left behind by *)
(* a room that ends outside the map.                                       *)
(***************************************************************************)
SharesId(r) == \E q \in Rooms \ {r} : state[q] # "unborn" /\ idOf[q] = idOf[r]

RegistrySound ==
  /\ \A i \in Registered : Live(rooms[i]) /\ idOf[rooms[i]] = i
  /\ \A r \in Rooms : Live(r) => (rooms[idOf[r]] = r \/ SharesId(r))
  /\ \A r \in Rooms : (state[r] = "active") <=> pingTimer[r]

\* A connection holds at most one slot of one room, for its whole life, and
\* only a slot to which its player was invited.
OneSeat ==
  \A c \in Conns, r1, r2 \in Rooms, s1, s2 \in Slots :
    Holds(c, r1, s1) =>
      /\ Owner[c] = invited[r1][s1]
      /\ Holds(c, r2, s2) => r1 = r2 /\ s1 = s2

\* Every accepted input is in the input log under its frame, on its side,
\* whatever the other player's inputs did in between (InputLog.upsert).
LogComplete ==
  \A r \in Rooms, s \in Slots : \A k \in 1..Len(accepted[r][s]) :
    \E e \in 1..Len(log[r].entries) :
      /\ log[r].entries[e].frame = accepted[r][s][k].frame
      /\ log[r].entries[e].input[s] = accepted[r][s][k].input

\* A closed room stays as it is: late messages, a second close or a restart
\* change neither its verdict nor its log (the state checks of
\* handleMessage, handleClose and end).
ClosedForGood ==
  [][\A r \in Rooms : state[r] = "closed" =>
       /\ state'[r] = "closed" /\ verdict'[r] = verdict[r]
       /\ log'[r] = log[r] /\ slots'[r] = slots[r]]_vars

(***************************************************************************)
(* Nobody is left in a match whose opponent has gone: once a player of an  *)
(* active room is no longer there, each player who stays hears the result. *)
(* In the code that is at once, at the close event (handleClose); the      *)
(* reconnection that the architecture text allows for, and which would     *)
(* come first, does not exist.                                             *)
(***************************************************************************)
StillThere(r, s) == slots[r][s] # NoConn /\ ws[slots[r][s]] = "open"

HasHeardEnd(c) == \E k \in DOMAIN out[c] : out[c][k].type = "END"

StayerHearsResult ==
  \A r \in Rooms :
    (state[r] = "active" /\ \E s \in Slots : ~StillThere(r, s)) ~>
      (\A s \in Slots : StillThere(r, s) => HasHeardEnd(slots[r][s]))
===============================================================================
