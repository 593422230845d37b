----------------------------- MODULE ClientSession -----------------------------
(***************************************************************************)
(* A session of the game as the players' programs see it: the lobby and    *)
(* the screens of fury-clash-client/src/main.c, the pending slot of        *)
(* core/state_machine.c and the connection of network/net_client.c, two    *)
(* programs and the relay between them.                                    *)
(*                                                                         *)
(* A frame of the main loop is: events of the user, net_client_receive,    *)
(* the logic of the current screen, and the ticks that are due, of which   *)
(* the first applies a requested screen.  Every event is an action and so  *)
(* is the rest of the frame, which nothing can interrupt.                  *)
(* Inputs and pings have no effect on the session, other than that to send *)
(* one may fail (module Rollback has what inputs do).                      *)
(*                                                                         *)
(* The relay is that of modules RelayRoom and RelayServer, reduced to what *)
(* a client of it can tell: a connection hears WAITING, START, the         *)
(* loadout of its opponent, and END or the end of the connection           *)
(* (RelayServer's ProtocolOrder and VerdictSound are what justifies it).   *)
(*                                                                         *)
(* A program started with arguments skips the lobby: it connects to a room *)
(* made by create-room.sh, and fights without loadouts.                    *)
(***************************************************************************)
EXTENDS Integers, Sequences

CONSTANTS
  Clients,
  Rooms,      \* room codes: a new one for every room
  NConns,     \* bound: sockets opened in all
  Packs,      \* client -> the loadouts its user may choose: 1 is fire, 2 is frost
  Presses,    \* client -> the buttons of the role screen its user presses
  Before,     \* client -> the slot it had, if all have played before
  Stale,      \* the loadout that session left behind
  MayFail     \* TRUE: requests fail, links break, the relay dies

Conns == 1..NConns
NoConn == 0
NoRoom == 0
Slots == {0, 1}
Opponent(s) == 1 - s
Unset == 0          \* my_loadout before a choice, LOADOUT_NONE
NotHeard == -1      \* opponent_loadout before SERVER_LOADOUT
Undecided == -1

ASSUME SessionAssumption ==
  /\ Before \in [Clients -> Slots] /\ Stale \in Nat /\ NConns \in Nat
  /\ NoRoom \notin Rooms /\ "nobody" \notin Clients
  /\ Packs \in [Clients -> SUBSET (Nat \ {Unset})] /\ MayFail \in BOOLEAN
  /\ Presses \in [Clients -> SUBSET {"create", "join", "local"}]

VARIABLES
  cl,       \* client -> its program: lobby, screen and connection
  conn,     \* connection -> whose it is, and its two ends
  up,       \* connection -> messages sent and not taken by the relay
  inbox,    \* connection -> messages sent and not received by the client
  seat,     \* room -> slot -> connection
  state,    \* room -> "unborn", "waiting", "active", "closed" or "lost"
  verdict   \* room -> winnerSlot

vars == <<cl, conn, up, inbox, seat, state, verdict>>
relayVars == <<seat, state, verdict>>

-------------------------------------------------------------------------------
(* The program. *)

\* lobby_init, on the fields that matter here.
LobbyInit(r) ==
  [r EXCEPT !.sub = "setup", !.p1 = FALSE, !.local = FALSE, !.mine = Unset, !.sent = FALSE]

\* statemachine_request: the last request of a frame counts.
Request(r, screen) == [r EXCEPT !.pend = screen]

\* statemachine_tick
Ticked(r) ==
  IF r.pend = "none" THEN r ELSE [r EXCEPT !.game = r.pend, !.pend = "none"]

\* net_client_configure: whatever the struct held is forgotten.
Configured(r, room, s) ==
  [r EXCEPT !.room = room, !.slot = s, !.online = TRUE,
            !.fd = NoConn, !.hs = "idle", !.net = "idle",
            !.opp = NotHeard, !.yours = 0, !.winner = 0]

\* net_client_connect: on socket k, where TCP may be done at once, or without
\* one after a failure.
Connected(r, k) ==
  IF k = NoConn THEN {[r EXCEPT !.net = "error"]}
  ELSE {[r EXCEPT !.fd = k, !.hs = h, !.net = "connecting"] : h \in {"tcp", "http"}}

\* net_client_disconnect
Disconnected(r) == [r EXCEPT !.fd = NoConn, !.hs = "closed", !.net = "idle"]

Broken(r) == [r EXCEPT !.net = "error"]

NewProgram ==
  [running |-> TRUE, args |-> FALSE, game |-> "title", pend |-> "lobby",
   sub |-> "setup", p1 |-> FALSE, local |-> FALSE, mine |-> Unset, sent |-> FALSE,
   me |-> 0, sim |-> <<Unset, Unset>>,
   net |-> "idle", hs |-> "idle", fd |-> NoConn, room |-> NoRoom, slot |-> 0, online |-> FALSE,
   opp |-> NotHeard, yours |-> 0, winner |-> 0]

\* A program with arguments, before it connects.
WithArguments(room, s) ==
  [Configured(NewProgram, room, s) EXCEPT !.args = TRUE, !.pend = "none", !.me = s]

\* What an earlier session in slot s leaves behind, once its results are left.
Played(s, opp) ==
  [NewProgram EXCEPT !.game = "results", !.online = TRUE, !.hs = "closed", !.me = s,
                     !.yours = s, !.winner = s, !.opp = opp, !.sim = <<opp, opp>>]

NewConn == [by |-> "nobody", client |-> "new", relay |-> "new"]

Init ==
  /\ \/ /\ cl \in {[c \in Clients |-> NewProgram], [c \in Clients |-> Played(Before[c], Stale)]}
        /\ state = [r \in Rooms |-> "unborn"]
     \/ \E room \in Rooms :
          /\ cl = [c \in Clients |-> WithArguments(room, Before[c])]
          /\ state = [r \in Rooms |-> IF r = room THEN "waiting" ELSE "unborn"]
  /\ conn    = [k \in Conns |-> NewConn]
  /\ up      = [k \in Conns |-> <<>>]
  /\ inbox   = [k \in Conns |-> <<>>]
  /\ seat    = [r \in Rooms |-> [s \in Slots |-> NoConn]]
  /\ verdict = [r \in Rooms |-> Undecided]

Becomes(c, r) == cl' = [cl EXCEPT ![c] = r]

\* The sockets that a connect of client c may get: a new one, or none.
Socket(c, k) ==
  \/ /\ k \in Conns /\ conn[k].client = "new"
     /\ \A j \in 1..k - 1 : conn[j].client # "new"
     /\ conn' = [conn EXCEPT ![k] = [by |-> c, client |-> "open", relay |-> "new"]]
  \/ MayFail /\ k = NoConn /\ UNCHANGED conn

\* close(g_ws.fd): what has not been received is lost.
Closes(c) ==
  /\ conn' = [k \in Conns |-> IF k = cl[c].fd THEN [conn[k] EXCEPT !.client = "closed"] ELSE conn[k]]
  /\ inbox' = [k \in Conns |-> IF k = cl[c].fd THEN <<>> ELSE inbox[k]]

\* A program with arguments, before its first frame.
NotStarted(r) == r.running /\ r.game = "title" /\ r.pend = "none" /\ r.hs = "idle"

\* main, before the loop.
Starts(c) ==
  /\ NotStarted(cl[c])
  /\ \E k \in Conns \union {NoConn} :
       Socket(c, k) /\ \E r \in Connected(cl[c], k) : Becomes(c, Request(r, "search"))
  /\ UNCHANGED <<up, inbox, relayVars>>

(***************************************************************************)
(* Events of the user: lobby_handle_touch and lobby_handle_key, and the    *)
(* keys of the other screens.  A client reads the events of a frame before *)
(* it does anything else.                                                  *)
(***************************************************************************)
In(c, sub) == cl[c].running /\ cl[c].game = "lobby" /\ cl[c].sub = sub

Moves(c, from, to) ==
  /\ In(c, from)
  /\ Becomes(c, [cl[c] EXCEPT !.sub = to])
  /\ UNCHANGED <<conn, up, inbox, relayVars>>

Navigate(c) ==
  \/ Moves(c, "setup", "role")        \* Next
  \/ Moves(c, "role", "setup")        \* Escape
  \/ "create" \in Presses[c] /\ Moves(c, "role", "creating")
  \/ "join" \in Presses[c] /\ Moves(c, "role", "enter code")
  \/ Moves(c, "enter code", "role")   \* Back

LocalPlay(c) ==
  /\ "local" \in Presses[c] /\ In(c, "role")
  /\ Becomes(c, [cl[c] EXCEPT !.sub = "loadout", !.local = TRUE])
  /\ UNCHANGED <<conn, up, inbox, relayVars>>

\* What a user may have typed: the code of a room, or a wrong one.
Codes == {r \in Rooms : state[r] # "unborn"} \union {NoRoom}

\* lobby_join_room
JoinRoom(c) ==
  /\ In(c, "enter code")
  /\ \E room \in Codes, k \in Conns \union {NoConn} :
       /\ Socket(c, k)
       /\ \E r \in Connected(Configured(cl[c], room, 1), k) :
            Becomes(c, [r EXCEPT !.p1 = FALSE, !.sub = "waiting"])
  /\ UNCHANGED <<up, inbox, relayVars>>

\* Escape without net_client_disconnect.
Leave_Connected(c) ==
  /\ In(c, "show code") \/ In(c, "waiting")
  /\ Becomes(c, [cl[c] EXCEPT !.sub = "role"])
  /\ UNCHANGED <<conn, up, inbox, relayVars>>

\* Escape
Leave(c) ==
  /\ In(c, "show code") \/ In(c, "waiting")
  /\ Becomes(c, [Disconnected(cl[c]) EXCEPT !.sub = "role"])
  /\ Closes(c)
  /\ UNCHANGED <<up, relayVars>>

\* ws_send, on an open WebSocket only; r is what the caller leaves.
Sends(c, r, m) ==
  LET k == cl[c].fd IN
  IF k = NoConn \/ cl[c].hs # "open" THEN Becomes(c, r) /\ UNCHANGED up
  ELSE \/ Becomes(c, r) /\ up' = [up EXCEPT ![k] = Append(@, m)]
       \/ (conn[k].relay = "closed" /\ Becomes(c, Broken(r)) /\ UNCHANGED up)

PickLoadout(c, l) ==
  LET r == [cl[c] EXCEPT !.mine = l, !.sent = ~cl[c].local] IN
  /\ In(c, "loadout") /\ ~cl[c].sent
  /\ IF cl[c].local THEN Becomes(c, r) /\ UNCHANGED up
     ELSE Sends(c, r, [type |-> "LOADOUT", loadout |-> l])
  /\ UNCHANGED <<conn, inbox, relayVars>>

\* Escape while a program with arguments searches.
StopSearch(c) ==
  /\ cl[c].running /\ cl[c].game = "search"
  /\ Becomes(c, Request(Disconnected(cl[c]), "title"))
  /\ Closes(c)
  /\ UNCHANGED <<up, relayVars>>

\* Return or space on the title, to which StopSearch leads, and on which every
\* program is until the first tick: the request of main is replaced, and one
\* that has connected comes to the lobby with its socket open.
LeaveTitle(c) ==
  /\ cl[c].running /\ cl[c].game = "title" /\ ~NotStarted(cl[c])
  /\ Becomes(c, Request(cl[c], "lobby"))
  /\ UNCHANGED <<conn, up, inbox, relayVars>>

\* Return or space on the results.
Continue(c) ==
  /\ cl[c].running /\ cl[c].game = "results"
  /\ Becomes(c, Request(LobbyInit(Disconnected(cl[c])), "lobby"))
  /\ Closes(c)
  /\ UNCHANGED <<up, relayVars>>

\* The window is closed; net_client_shutdown, and the end of the process, which
\* closes every socket it still has.
Quit(c) ==
  /\ cl[c].running
  /\ Becomes(c, [NewProgram EXCEPT !.running = FALSE])
  /\ conn' = [k \in Conns |-> IF conn[k].by = c THEN [conn[k] EXCEPT !.client = "closed"] ELSE conn[k]]
  /\ inbox' = [k \in Conns |-> IF conn[k].by = c THEN <<>> ELSE inbox[k]]
  /\ UNCHANGED <<up, relayVars>>

(***************************************************************************)
(* The logic of the screens, on the program r as net_client_receive leaves *)
(* it.                                                                     *)
(***************************************************************************)
\* To the loadouts as soon as the connection stands.
BothThere_Early(r) ==
  r.game = "lobby" /\ r.sub \in {"show code", "waiting"} /\ r.net \in {"waiting", "ready"}

BothThere(r) ==
  r.game = "lobby" /\ r.sub \in {"show code", "waiting"} /\ r.net = "ready"

\* net_client_ack_start
ToLoadout(r) ==
  IF BothThere(r) THEN [r EXCEPT !.sub = "loadout", !.me = r.yours, !.net = "fighting"] ELSE r

OpponentsPack(r) == IF r.local THEN Unset ELSE r.opp

BothChosen(r) ==
  r.game = "lobby" /\ r.sub = "loadout" /\ r.mine # Unset /\ OpponentsPack(r) # NotHeard

\* Always as if this program had made the room.
Loadouts_AsFirst(r) == <<r.mine, OpponentsPack(r)>>

Loadouts(r) ==
  IF r.p1 \/ r.local THEN <<r.mine, OpponentsPack(r)>> ELSE <<OpponentsPack(r), r.mine>>

\* simulation_init
ToFight(r) ==
  IF BothChosen(r)
  THEN [Request(r, "fight") EXCEPT !.sub = "ready", !.sim = Loadouts(r)] ELSE r

\* GS_MATCH_SEARCH: there are no loadouts.
FromSearch(r) ==
  IF r.game = "search" /\ r.net = "ready"
  THEN [Request(r, "fight") EXCEPT !.sim = <<Unset, Unset>>, !.me = r.yours, !.net = "fighting"]
  ELSE r

\* Only the END of the relay ends a fight.
FightIsOver_EndOnly(r) == r.game = "fight" /\ r.online /\ r.net = "ended"

FightIsOver(r) == r.game = "fight" /\ r.online /\ r.net \in {"ended", "error"}

ToResults(r) == IF FightIsOver(r) THEN Request(r, "results") ELSE r

\* A tick of the fight sends an input, which can fail.
InputFails(r) ==
  r.game = "fight" /\ r.net \in {"ready", "fighting"} /\ r.hs = "open" /\ conn[r.fd].relay = "closed"

\* The rest of the frame: the logic, and the ticks that are due, if any.
Goes(c, r) ==
  LET q == ToResults(FromSearch(ToFight(ToLoadout(r)))) IN
  \E p \in {q, Ticked(q)} : Becomes(c, p) \/ (InputFails(p) /\ Becomes(c, Broken(p)))

(***************************************************************************)
(* A frame, by what net_client_receive finds.                              *)
(***************************************************************************)
Dispatch(r, m) ==
  CASE m.type = "WAITING" -> [r EXCEPT !.net = "waiting"]
    [] m.type = "START"   -> [r EXCEPT !.net = "ready", !.yours = m.slot]
    [] m.type = "LOADOUT" -> [r EXCEPT !.opp = m.loadout]
    [] m.type = "END"     -> [r EXCEPT !.net = "ended", !.winner = m.winner]
    [] m.type = "DISCONNECT" -> r

Dispatched(r, ms) ==
  LET after[n \in 0..Len(ms)] == IF n = 0 THEN r ELSE Dispatch(after[n - 1], ms[n])
  IN after[Len(ms)]

\* Nothing to read, or nothing has come yet.
NothingToRead(c) == Goes(c, cl[c]) /\ UNCHANGED <<conn, up, inbox>>

\* Step 1: the TCP connection stands, or cannot be made.
TcpDone(c) ==
  /\ cl[c].hs = "tcp"
  /\ \/ Goes(c, [cl[c] EXCEPT !.hs = "http"]) /\ UNCHANGED conn
     \/ /\ MayFail /\ Goes(c, Broken(cl[c]))
        /\ conn' = [conn EXCEPT ![cl[c].fd].relay = "closed"]
  /\ UNCHANGED <<up, inbox>>

\* Step 3: the answer to the upgrade; CLIENT_JOIN follows at once.
Upgraded(c) ==
  LET k == cl[c].fd IN
  /\ cl[c].hs = "http" /\ conn[k].relay = "new"
  /\ conn' = [conn EXCEPT ![k].relay = "open"]
  /\ up' = [up EXCEPT ![k] = Append(@, [type |-> "JOIN", room |-> cl[c].room, slot |-> cl[c].slot])]
  /\ Goes(c, [cl[c] EXCEPT !.hs = "open", !.net = "waiting"])
  /\ UNCHANGED inbox

\* Step 4: what has come so far.
Drain(c) ==
  LET k == cl[c].fd IN
  /\ cl[c].hs = "open"
  /\ \E n \in 1..Len(inbox[k]) :
       /\ Goes(c, Dispatched(cl[c], SubSeq(inbox[k], 1, n)))
       /\ inbox' = [inbox EXCEPT ![k] = SubSeq(@, n + 1, Len(@))]
  /\ UNCHANGED <<conn, up>>

\* recv returns 0 or fails, or the relay's close frame is read.
EndOfStream(c) ==
  LET k == cl[c].fd IN
  /\ cl[c].hs \in {"http", "open"} /\ inbox[k] = <<>> /\ conn[k].relay = "closed"
  /\ Goes(c, Broken(cl[c]))
  /\ UNCHANGED <<conn, up, inbox>>

Creating(c) == cl[c].game = "lobby" /\ cl[c].sub = "creating"

Frame(c) ==
  /\ cl[c].running /\ ~Creating(c) /\ UNCHANGED relayVars
  /\ \/ NothingToRead(c)
     \/ cl[c].fd # NoConn /\ (TcpDone(c) \/ Upgraded(c) \/ Drain(c) \/ EndOfStream(c))

(***************************************************************************)
(* The frame in which lobby_create_room runs.  POST /rooms is answered     *)
(* with success, or is not; a room whose answer is lost concerns nobody.   *)
(* A program may come here with a connection only by LeaveTitle; what it   *)
(* reads in this frame it may as well have read in the frame before.       *)
(***************************************************************************)
CreateRoom(c) ==
  /\ cl[c].running /\ Creating(c)
  /\ \/ \E room \in Rooms, k \in Conns \union {NoConn} :
          /\ state[room] = "unborn"
          /\ state' = [state EXCEPT ![room] = "waiting"]
          /\ Socket(c, k)
          /\ \E r \in Connected(Configured(cl[c], room, 0), k) :
               Goes(c, [r EXCEPT !.p1 = TRUE, !.sub = "show code"])
     \/ /\ MayFail
        /\ Goes(c, [cl[c] EXCEPT !.sub = "role"])
        /\ UNCHANGED <<state, conn>>
  /\ UNCHANGED <<up, inbox, seat, verdict>>

(***************************************************************************)
(* The relay.                                                              *)
(***************************************************************************)
Reaches(k) == conn[k].relay = "open" /\ conn[k].client = "open"

Told(msgs) ==
  inbox' = [k \in Conns |-> IF k \in DOMAIN msgs /\ Reaches(k)
                            THEN inbox[k] \o msgs[k] ELSE inbox[k]]

Takes(k, type) ==
  /\ conn[k].relay = "open" /\ up[k] # <<>> /\ Head(up[k]).type = type
  /\ up' = [up EXCEPT ![k] = Tail(@)]

Waiting  == [type |-> "WAITING"]
Start(s) == [type |-> "START", slot |-> s]
End(w)   == [type |-> "END", winner |-> w]
Notice   == [type |-> "DISCONNECT"]

\* handleNewConnection, attach
RelayJoins(k) ==
  LET m == Head(up[k]) IN
  /\ Takes(k, "JOIN")
  /\ IF m.room # NoRoom /\ state[m.room] \in {"waiting", "active"} /\ seat[m.room][m.slot] = NoConn
     THEN LET o == seat[m.room][Opponent(m.slot)] IN
          /\ seat' = [seat EXCEPT ![m.room][m.slot] = k]
          /\ IF o = NoConn
             THEN Told([j \in {k} |-> <<Waiting>>]) /\ UNCHANGED state
             ELSE /\ state' = [state EXCEPT ![m.room] = "active"]
                  /\ Told([j \in {k, o} |-> IF j = k THEN <<Waiting, Start(m.slot)>>
                                            ELSE <<Start(Opponent(m.slot))>>])
          /\ UNCHANGED conn
     ELSE /\ conn' = [conn EXCEPT ![k].relay = "closed"]
          /\ UNCHANGED <<seat, state, inbox>>
  /\ UNCHANGED <<cl, verdict>>

Sits(k, r, s) == seat[r][s] = k

\* handleMessage, CLIENT_LOADOUT
RelayForwards(k) ==
  /\ Takes(k, "LOADOUT")
  /\ Told([j \in {o \in Conns : \E r \in Rooms, s \in Slots :
                     Sits(k, r, s) /\ Sits(o, r, Opponent(s)) /\ state[r] = "active"} |->
             <<Head(up[k])>>])
  /\ UNCHANGED <<cl, conn, relayVars>>

\* END names the slot that left.
EndsRoomOf_Leaver(k) ==
  IF \E r \in Rooms, s \in Slots : Sits(k, r, s) /\ state[r] \in {"waiting", "active"}
  THEN \E r \in Rooms, s \in Slots :
         /\ Sits(k, r, s)
         /\ state'   = [state EXCEPT ![r] = "closed"]
         /\ verdict' = [verdict EXCEPT ![r] = Opponent(s)]
         /\ Told([j \in {seat[r][Opponent(s)]} |-> <<Notice, End(s)>>])
  ELSE UNCHANGED <<state, verdict, inbox>>

\* handleClose and end, when connection k is gone.
EndsRoomOf(k) ==
  IF \E r \in Rooms, s \in Slots : Sits(k, r, s) /\ state[r] \in {"waiting", "active"}
  THEN \E r \in Rooms, s \in Slots :
         /\ Sits(k, r, s)
         /\ state'   = [state EXCEPT ![r] = "closed"]
         /\ verdict' = [verdict EXCEPT ![r] = Opponent(s)]
         /\ Told([j \in {seat[r][Opponent(s)]} |-> <<Notice, End(Opponent(s))>>])
  ELSE UNCHANGED <<state, verdict, inbox>>

\* The client has closed its end, and the relay has read all it sent.
RelayHearsClose(k) ==
  /\ conn[k].client = "closed" /\ conn[k].relay = "open" /\ up[k] = <<>>
  /\ conn' = [conn EXCEPT ![k].relay = "closed"]
  /\ EndsRoomOf(k)
  /\ UNCHANGED <<cl, up, seat>>

\* The network fails between the two; both ends notice.
LinkBreaks(k) ==
  /\ MayFail
  /\ conn[k].client = "open" /\ conn[k].relay # "closed"
  /\ conn' = [conn EXCEPT ![k].relay = "closed"]
  /\ EndsRoomOf(k)
  /\ UNCHANGED <<cl, up, seat>>

\* The relay dies: every connection to it ends, its rooms are gone.
RelayDies ==
  /\ MayFail
  /\ \E k \in Conns : conn[k].relay = "open"
  /\ conn' = [k \in Conns |-> IF conn[k].relay = "open"
                              THEN [conn[k] EXCEPT !.relay = "closed"] ELSE conn[k]]
  /\ state' = [r \in Rooms |-> IF state[r] \in {"waiting", "active"} THEN "lost" ELSE state[r]]
  /\ UNCHANGED <<cl, up, inbox, seat, verdict>>

RelayWorks(k) == RelayJoins(k) \/ RelayForwards(k) \/ RelayHearsClose(k)

User(c) ==
  \/ Navigate(c) \/ LocalPlay(c) \/ JoinRoom(c) \/ Leave(c)
  \/ StopSearch(c) \/ LeaveTitle(c) \/ Continue(c) \/ Quit(c)
  \/ \E l \in Packs[c] : PickLoadout(c, l)

Next ==
  \/ \E c \in Clients : Starts(c) \/ User(c) \/ Frame(c) \/ CreateRoom(c)
  \/ \E k \in Conns : RelayWorks(k) \/ LinkBreaks(k)
  \/ RelayDies

(***************************************************************************)
(* The main loop goes on: a frame that would change something is not put   *)
(* off for ever, which includes that ticks come due.  The relay takes what *)
(* reaches it.  The user need not do anything.                             *)
(***************************************************************************)
Spec ==
  /\ Init /\ [][Next]_vars
  /\ \A c \in Clients : WF_vars(Frame(c))
  /\ WF_vars(\E k \in Conns : RelayWorks(k))
-------------------------------------------------------------------------------
AllPacks == UNION {Packs[c] : c \in Clients}
AnyPack == AllPacks \union {Stale} \union {Unset, NotHeard}

Message ==
  {Waiting, Notice} \union {Start(s) : s \in Slots} \union {End(s) : s \in Slots}
    \union {[type |-> "LOADOUT", loadout |-> l] : l \in AllPacks}
    \union {[type |-> "JOIN", room |-> r, slot |-> s] : r \in Rooms \union {NoRoom}, s \in Slots}

Screens == {"title", "search", "lobby", "fight", "results"}

Program ==
  [running : BOOLEAN, args : BOOLEAN,
   game : Screens, pend : Screens \union {"none"},
   sub : {"setup", "role", "creating", "show code", "enter code", "waiting", "loadout", "ready"},
   p1 : BOOLEAN, local : BOOLEAN, mine : AllPacks \union {Unset}, sent : BOOLEAN,
   me : Slots, sim : AnyPack \X AnyPack,
   net : {"idle", "connecting", "waiting", "ready", "fighting", "ended", "error"},
   hs : {"idle", "tcp", "http", "open", "closed"}, fd : Conns \union {NoConn},
   room : Rooms \union {NoRoom}, slot : Slots, online : BOOLEAN,
   opp : AnyPack, yours : Slots, winner : Slots]

\* The variables keep the shapes their comments give.
TypeOK ==
  /\ cl \in [Clients -> Program]
  /\ conn \in [Conns -> [by : Clients \union {"nobody"}, client : {"new", "open", "closed"},
                         relay : {"new", "open", "closed"}]]
  /\ up \in [Conns -> Seq(Message)] /\ inbox \in [Conns -> Seq(Message)]
  /\ seat \in [Rooms -> [Slots -> Conns \union {NoConn}]]
  /\ state \in [Rooms -> {"unborn", "waiting", "active", "closed", "lost"}]
  /\ verdict \in [Rooms -> Slots \union {Undecided}]

(***************************************************************************)
(* A program holds every socket it opened and did not close, on every way  *)
(* through the screens but one.  net_client_configure forgets the socket   *)
(* without closing it, so each path must disconnect first; LeaveTitle does *)
(* not (main.c:803), and what it may lose is the first socket of a program *)
(* started with arguments, and no other.                                   *)
(***************************************************************************)
FirstOf(c, k) == conn[k].by = c /\ \A j \in 1..k - 1 : conn[j].by # c

NoSocketLost ==
  \A k \in Conns : \A c \in Clients :
    conn[k].by = c /\ conn[k].client = "open" => cl[c].fd = k \/ (cl[c].args /\ FirstOf(c, k))

(***************************************************************************)
(* Two programs that fight each other fight the same fight: they hold the  *)
(* two different slots and started it with the same two loadouts, those    *)
(* that both users chose; the local fighter has the local choice.          *)
(* is_p1, your_slot, my_loadout and the forwarded loadout come from        *)
(* different places and different moments.                                 *)
(***************************************************************************)
Fights(c, r, s) ==
  cl[c].game = "fight" /\ ~cl[c].local /\ cl[c].fd # NoConn /\ Sits(cl[c].fd, r, s)

SameFight ==
  \A c, d \in Clients, r \in Rooms, s, t \in Slots :
    /\ Fights(c, r, s) => cl[c].me = s /\ cl[c].sim[s + 1] = cl[c].mine
    /\ Fights(c, r, s) /\ Fights(d, r, t) /\ c # d => s # t /\ cl[c].sim = cl[d].sim

(***************************************************************************)
(* A program that was told how its match ended shows the verdict of the    *)
(* room it sat in, and shows it to the right player.  (One that lost its   *)
(* connection shows the winner of a fresh g_ws, player 1.)                 *)
(***************************************************************************)
TrueResult ==
  \A c \in Clients, r \in Rooms, s \in Slots :
    cl[c].fd # NoConn /\ Sits(cl[c].fd, r, s) /\ cl[c].net = "ended" =>
      /\ cl[c].winner = verdict[r]
      /\ cl[c].game \in {"fight", "results"} => cl[c].me = s

(***************************************************************************)
(* A loadout reaches the relay while the match runs or when it is over,    *)
(* never before both are there: the relay would drop it and the opponent   *)
(* would wait for ever (handleMessage forwards it only in an active room). *)
(***************************************************************************)
NoLoadoutTooEarly ==
  \A r \in Rooms, s \in Slots : \A k \in Conns :
    Sits(k, r, s) /\ (\E n \in 1..Len(up[k]) : up[k][n].type = "LOADOUT")
      => state[r] # "waiting"

\* A fight against somebody does not outlive its room or its connection: the
\* program leaves for the results, when the opponent quits as well as when the
\* relay dies.
FightEnds ==
  \A c \in Clients :
    (\E r \in Rooms, s \in Slots :
       Fights(c, r, s) /\ (state[r] # "active" \/ conn[cl[c].fd].relay = "closed"))
      ~> cl[c].game # "fight" \/ ~cl[c].running
===============================================================================
