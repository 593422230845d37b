------------------------------- MODULE RelayRoom -------------------------------
(***************************************************************************)
(* The room object of the relay (relay-server/relay-room.ts): two slots,   *)
(* the input log, the ping timer and the verdict, together with the        *)
(* sockets it listens on.  Each handler runs to completion on Node's event *)
(* loop, so each is one action; what interleaves is the handlers, and the  *)
(* gap between a peer hanging up (readyState leaves OPEN) and the 'close'  *)
(* event that tells the room.                                              *)
(*                                                                         *)
(* The room manager that creates rooms, routes first messages to them and  *)
(* hears of their end is module RelayServer.                               *)
(*                                                                         *)
(* The transient state 'ending' exists only inside end(); pendingFrames is *)
(* filled and drained by the same handler, so that a batch holds the one   *)
(* frame just received.                                                    *)
(***************************************************************************)
EXTENDS InputLog, Integers

CONSTANTS
  Rooms,       \* room objects ever constructed
  Conns,       \* WebSocket connections ever accepted
  NoConn,      \* an empty slot
  Inputs,      \* the inputs a client may send (sets of buttons)
  Loadouts,    \* the loadout bytes a client may send
  StartFrame,  \* the value of each client's frame counter as it enters the fight
  SeqLimit,    \* 2^16: how many batch numbers fit the 2-byte seq field
  MaxInputs,   \* bound: connection -> inputs sent over it
  MaxTraffic   \* bound: messages queued to a connection by loadouts and pings

ASSUME RoomAssumption ==
  /\ NoConn \notin Conns
  /\ StartFrame \in [Conns -> Nat]
  /\ MaxInputs \in [Conns -> Nat]
  /\ SeqLimit \in Nat /\ MaxTraffic \in Nat

VARIABLES
  state,      \* room -> "unborn", "waiting", "active", "closed" or "lost"
  slots,      \* room -> slot -> connection or NoConn
  seq,        \* room -> slot -> number of the next batch for that slot
  log,        \* room -> input log
  pingTimer,  \* room -> is the interval timer set
  verdict,    \* room -> winnerSlot given to onEnd, or Undecided
  ws,         \* connection -> "new", "open", "closing" or "closed"
  out,        \* connection -> the messages sent on it
  clock,      \* connection -> the frame its client sends next
  accepted    \* history: room -> slot -> the inputs the room took from it

roomVars == <<state, slots, seq, log, pingTimer, verdict, accepted>>

Undecided == -2

Live(r) == state[r] \in {"waiting", "active"}
Holds(c, r, s) == slots[r][s] = c

(***************************************************************************)
(* Messages of the server.                                                 *)
(***************************************************************************)
Waiting    == [type |-> "WAITING"]
Start(s)   == [type |-> "START", slot |-> s]
Relay(n, f)== [type |-> "RELAY", seq |-> n, frame |-> f.frame, input |-> f.input]
Loadout(l) == [type |-> "LOADOUT", loadout |-> l]
Notice     == [type |-> "DISCONNECT"]
End(w)     == [type |-> "END", winner |-> w]
Ping       == [type |-> "PING"]

\* ws.send drops the message when the socket is no longer OPEN, and the
\* room's own readyState checks do the same.
Told(msgs) ==
  [c \in Conns |-> IF ws[c] = "open" THEN out[c] \o msgs[c] ELSE out[c]]

\* The messages ms for whoever holds a slot of room r, one sequence per slot.
ToSlots(r, ms) ==
  [c \in Conns |-> IF Holds(c, r, 0) THEN ms[0]
                   ELSE IF Holds(c, r, 1) THEN ms[1] ELSE <<>>]

IsValidInput(i) == ~({"up", "down"} \subseteq i) /\ ~({"left", "right"} \subseteq i)

(***************************************************************************)
(* attach: the connection takes the slot and hears WAITING; when the other *)
(* slot is taken too the match starts, both sides hear START and the ping  *)
(* timer is set.  The caller has checked that the slot is free.            *)
(***************************************************************************)
StartsMatch(r, s) == slots[r][Opponent(s)] # NoConn

Attach(r, s, c) ==
  /\ slots[r][s] = NoConn
  /\ slots' = [slots EXCEPT ![r][s] = c]
  /\ IF StartsMatch(r, s)
     THEN /\ state'     = [state EXCEPT ![r] = "active"]
          /\ pingTimer' = [pingTimer EXCEPT ![r] = TRUE]
          /\ out' = Told([d \in Conns |->
                       IF d = c THEN <<Waiting, Start(s)>>
                       ELSE IF Holds(d, r, Opponent(s)) THEN <<Start(Opponent(s))>>
                       ELSE <<>>])
     ELSE /\ out' = Told([d \in Conns |-> IF d = c THEN <<Waiting>> ELSE <<>>])
          /\ UNCHANGED <<state, pingTimer>>
  /\ UNCHANGED <<seq, log, verdict, accepted>>

(***************************************************************************)
(* handleMessage, CLIENT_INPUT.  The client numbers its inputs by its own  *)
(* frame counter.  A room that is not active, and an input with impossible *)
(* directions, take nothing.  An accepted input is logged and forwarded    *)
(* to the opponent when its socket is OPEN.                                *)
(***************************************************************************)
\* Forwarding to a slot without asking for its socket's readyState.
MayForward_AnyState(o) == o # NoConn

MayForward(o) == o # NoConn /\ ws[o] = "open"

NextSeq(n) == n + 1

\* flush: number the batch and send it.
Forward(r, s, f) ==
  /\ seq' = [seq EXCEPT ![r][s] = NextSeq(@)]
  /\ out' = Told(ToSlots(r, [t \in Slots |->
                   IF t = s THEN <<Relay(seq[r][s], f)>> ELSE <<>>]))

Accept(r, s, f) ==
  /\ log'      = [log EXCEPT ![r] = Record(@, s, f.frame, f.input)]
  /\ accepted' = [accepted EXCEPT ![r][s] = Append(@, f)]
  /\ IF MayForward(slots[r][Opponent(s)])
     THEN Forward(r, Opponent(s), f)
     ELSE UNCHANGED <<seq, out>>

\* The socket may deliver what it had buffered while it is closing.
Receives(r, s) ==
  /\ slots[r][s] # NoConn
  /\ ws[slots[r][s]] \in {"open", "closing"}

\* Taking inputs in every state but 'waiting'.
TakesInput_AfterEnd(r, i) == state[r] # "waiting" /\ IsValidInput(i)

TakesInput(r, i) == state[r] = "active" /\ IsValidInput(i)

\* The batch number does not fit two bytes: writeUInt16LE throws.
Overflows(r, s) ==
  MayForward(slots[r][Opponent(s)]) /\ seq[r][Opponent(s)] >= SeqLimit

HandleInput(r, s, i) ==
  LET c == slots[r][s] IN
  /\ Receives(r, s)
  /\ clock[c] < StartFrame[c] + MaxInputs[c]
  /\ clock' = [clock EXCEPT ![c] = @ + 1]
  /\ IF TakesInput(r, i)
     THEN ~Overflows(r, s) /\ Accept(r, s, [frame |-> clock[c], input |-> i])
     ELSE UNCHANGED <<seq, log, accepted, out>>
  /\ UNCHANGED <<state, slots, pingTimer, verdict, ws>>

(***************************************************************************)
(* handleMessage, CLIENT_LOADOUT: forwarded once, while the match runs and *)
(* the opponent's socket is OPEN; otherwise forgotten.                     *)
(***************************************************************************)
HandleLoadout(r, s, l) ==
  LET o == slots[r][Opponent(s)] IN
  /\ Receives(r, s)
  /\ state[r] = "active"
  /\ MayForward(o)
  /\ Len(out[o]) < MaxTraffic
  /\ out' = Told(ToSlots(r, [t \in Slots |->
                   IF t = Opponent(s) THEN <<Loadout(l)>> ELSE <<>>]))
  /\ UNCHANGED <<state, slots, seq, log, pingTimer, verdict, accepted, ws, clock>>

\* sendPing, at every tick of the interval timer.
SendPing(r) ==
  /\ pingTimer[r]
  /\ \E s \in Slots : MayForward(slots[r][s])
  /\ \A s \in Slots : slots[r][s] # NoConn => Len(out[slots[r][s]]) < MaxTraffic
  /\ out' = Told(ToSlots(r, [t \in Slots |-> <<Ping>>]))
  /\ UNCHANGED <<state, slots, seq, log, pingTimer, verdict, accepted, ws, clock>>

(***************************************************************************)
(* handleClose of slot s, and end() which it calls: the opponent, if it is *)
(* there, hears that its peer is gone and then the result; the room closes *)
(* with the opponent as the winner.  The caller marks the socket closed.   *)
(***************************************************************************)
\* The player who left wins.
WinnerWhenClosed_Leaver(s) == s

WinnerWhenClosed(s) == Opponent(s)

\* The result before the notice.
Farewell_ResultFirst(s) ==
  [t \in Slots |-> IF t = s THEN <<End(WinnerWhenClosed(s))>>
                   ELSE <<End(WinnerWhenClosed(s)), Notice>>]

Farewell(s) == [t \in Slots |-> IF t = s THEN <<End(WinnerWhenClosed(s))>>
                                ELSE <<Notice, End(WinnerWhenClosed(s))>>]

EndRoom(r, s) ==
  /\ state'     = [state EXCEPT ![r] = "closed"]
  /\ pingTimer' = [pingTimer EXCEPT ![r] = FALSE]
  /\ verdict'   = [verdict EXCEPT ![r] = WinnerWhenClosed(s)]
  /\ out'       = Told(ToSlots(r, Farewell(s)))
  /\ UNCHANGED <<slots, seq, log, accepted>>

\* With a check for 'waiting' in place of the one for 'closed'.
HandleClose_WaitingOnly(r, s) ==
  IF state[r] = "waiting" THEN EndRoom(r, s) ELSE UNCHANGED <<roomVars, out>>

\* A second close finds the room closed and does nothing.
HandleClose(r, s) ==
  IF Live(r) THEN EndRoom(r, s) ELSE UNCHANGED <<roomVars, out>>
===============================================================================
