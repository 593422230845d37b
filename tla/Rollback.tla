-------------------------------- MODULE Rollback --------------------------------
(***************************************************************************)
(* Two clients in a networked fight: the rollback engine                   *)
(* (network/rollback.c) as the main loop drives it (main.c), the frame     *)
(* counter of the game loop, and the inputs on their way through the       *)
(* relay, which keeps their order (module RelayServer, FaithfulRelay).     *)
(*                                                                         *)
(* The simulation is deterministic in its inputs, so its state is the      *)
(* start of a match and the inputs applied since, as pairs of what player  *)
(* 1 and player 2 did.  A state of match 0 is one nobody ever saved: the   *)
(* zeroes of rollback_init.                                                *)
(***************************************************************************)
EXTENDS Integers, Sequences

CONSTANTS
  Inputs,      \* inputs a player can press, with Neutral among them
  Neutral,     \* the input bits 0
  RING,        \* FC_ROLLBACK_FRAMES
  MaxFrame,    \* bound: the last frame
  MaxMatches   \* bound: matches in one run of the program

ASSUME RollbackAssumption ==
  /\ Neutral \in Inputs
  /\ RING \in Nat \ {0}
  /\ MaxFrame \in Nat /\ MaxMatches \in Nat

Peers == {0, 1}     \* a peer is its slot
Other(i) == 1 - i

VARIABLES
  phase,      \* peer -> "lobby", "ready" (START received) or "fight"
  match,      \* peer -> how many matches it has begun
  frame,      \* peer -> g_loop.current_frame
  sim,        \* peer -> g_sim
  buf,        \* peer -> g_buf
  diverge,    \* peer -> g_diverge_frame
  inbox,      \* peer -> inputs of the other peer on their way to it
  pressed,    \* history: peer -> its inputs of this match, one per fight tick
  missed,     \* history: peer -> mismatched frames since the last rewind
  touched     \* history: peer -> was a non-neutral input ever confirmed to it

engine == <<sim, buf, diverge>>
history == <<pressed, missed, touched>>
vars == <<phase, match, frame, engine, inbox, history>>

Begun(n) == [match |-> n, ins |-> <<>>]
Zero     == Begun(0)

\* A ring entry.
EmptyEntry ==
  [snapshot |-> Zero, local |-> Neutral, remote |-> Neutral, confirmed |-> FALSE]

Slot(f) == f % RING

Init ==
  /\ phase   = [i \in Peers |-> "lobby"]
  /\ match   = [i \in Peers |-> 0]
  /\ frame   = [i \in Peers |-> 0]
  /\ sim     = [i \in Peers |-> Zero]
  /\ buf     = [i \in Peers |-> [k \in 0..(RING - 1) |-> EmptyEntry]]
  /\ diverge = [i \in Peers |-> -1]
  /\ inbox   = [i \in Peers |-> <<>>]
  /\ pressed = [i \in Peers |-> <<>>]
  /\ missed  = [i \in Peers |-> {}]
  /\ touched = [i \in Peers |-> FALSE]

(***************************************************************************)
(* The main loop around the fight.  The frame counter counts every tick    *)
(* since the program started.  Both peers get START from the relay; each   *)
(* begins (simulation_init) when it knows both loadouts; neither of these  *)
(* touches the rollback engine.                                            *)
(***************************************************************************)
BothReady ==
  /\ \A i \in Peers : phase[i] = "lobby" /\ match[i] < MaxMatches
  /\ phase' = [i \in Peers |-> "ready"]
  /\ inbox' = [i \in Peers |-> <<>>]
  /\ UNCHANGED <<match, frame, engine, pressed, missed, touched>>

IdleTick(i) ==
  /\ phase[i] # "fight"
  /\ frame[i] < MaxFrame
  /\ frame' = [frame EXCEPT ![i] = @ + 1]
  /\ UNCHANGED <<phase, match, engine, inbox, history>>

BeginFight(i) ==
  /\ phase[i] = "ready"
  /\ phase'   = [phase EXCEPT ![i] = "fight"]
  /\ match'   = [match EXCEPT ![i] = @ + 1]
  /\ sim'     = [sim EXCEPT ![i] = Begun(match[i] + 1)]
  /\ pressed' = [pressed EXCEPT ![i] = <<>>]
  /\ UNCHANGED <<frame, buf, diverge, inbox, missed, touched>>

\* The match is over, the results are shown and the socket is closed.
LeaveFight(i) ==
  /\ phase[i] = "fight"
  /\ phase' = [phase EXCEPT ![i] = "lobby"]
  /\ inbox' = [inbox EXCEPT ![i] = <<>>]
  /\ UNCHANGED <<match, frame, engine, history>>

(***************************************************************************)
(* rollback_confirm_remote, for the next input that arrives.               *)
(***************************************************************************)
\* The latest mismatch instead of the earliest.
Earliest_Latest(d, f) == IF d < 0 \/ f > d THEN f ELSE d

Earliest(d, f) == IF d < 0 \/ f < d THEN f ELSE d

\* Any confirmation counts.
Mismatch_Always(e, x) == ~e.confirmed

Mismatch(e, x) == ~e.confirmed /\ e.remote # x

Deliver(i) ==
  LET f == Head(inbox[i]).frame
      x == Head(inbox[i]).input
      e == buf[i][Slot(f)]
  IN
  /\ inbox[i] # <<>>
  /\ inbox' = [inbox EXCEPT ![i] = Tail(@)]
  /\ IF Mismatch(e, x)
     THEN /\ diverge' = [diverge EXCEPT ![i] = Earliest(@, f)]
          /\ missed'  = [missed EXCEPT ![i] = @ \union {f}]
     ELSE UNCHANGED <<diverge, missed>>
  /\ buf' = [buf EXCEPT ![i][Slot(f)].remote = x, ![i][Slot(f)].confirmed = TRUE]
  /\ touched' = [touched EXCEPT ![i] = @ \/ x # Neutral]
  /\ UNCHANGED <<phase, match, frame, sim, pressed>>

(***************************************************************************)
(* One tick of the fight: rollback_get_remote, the rewind if one is due,   *)
(* simulation_tick, rollback_save, net_client_send_input.                  *)
(***************************************************************************)
\* The confirmed input of the frame, or what the entry before it holds.
GetRemote(b, f) ==
  IF b[Slot(f)].confirmed THEN b[Slot(f)].remote
  ELSE IF f > 0 THEN b[Slot(f - 1)].remote ELSE Neutral

Applied(s, ins) == [match |-> s.match, ins |-> s.ins \o ins]

\* rollback_rewind_and_resim: the state at d and what the entries from d on
\* hold, as player 1's and player 2's input.
Replayed(b, d, f) ==
  Applied(b[Slot(d)].snapshot,
          [n \in 1..(f - d) |-> <<b[Slot(d + n - 1)].local, b[Slot(d + n - 1)].remote>>])

\* Entry k is saved last for the last frame before f that falls on it.
LastOn(k, f) == f - 1 - ((f - 1 - k) % RING)

Resaved(b, d, f) ==
  [k \in 0..(RING - 1) |->
     IF LastOn(k, f) < d THEN b[k]
     ELSE [b[k] EXCEPT !.snapshot = Replayed(b, d, LastOn(k, f) + 1)]]

Rewinds(i) == diverge[i] >= 0

\* rollback_save; the remote input of the entry stays.
Saved(b, s, f) ==
  [b EXCEPT ![Slot(f)] =
     [snapshot |-> s, local |-> Neutral, remote |-> @.remote, confirmed |-> FALSE]]

\* The local player's input and what stands for the other's, by slot.
BySlot(i, local, remote) == IF i = 0 THEN <<local, remote>> ELSE <<remote, local>>

FightTick(i, local) ==
  LET f      == frame[i] + 1
      remote == GetRemote(buf[i], f)
      base   == IF Rewinds(i) THEN Replayed(buf[i], diverge[i], f) ELSE sim[i]
      b      == IF Rewinds(i) THEN Resaved(buf[i], diverge[i], f) ELSE buf[i]
      after  == Applied(base, <<BySlot(i, local, remote)>>)
  IN
  /\ phase[i] = "fight"
  /\ frame[i] < MaxFrame
  /\ frame'   = [frame EXCEPT ![i] = f]
  /\ sim'     = [sim EXCEPT ![i] = after]
  /\ buf'     = [buf EXCEPT ![i] = Saved(b, after, f)]
  /\ diverge' = [diverge EXCEPT ![i] = -1]
  /\ inbox'   = [inbox EXCEPT ![Other(i)] =
                   IF phase[Other(i)] = "lobby" THEN @
                   ELSE Append(@, [frame |-> f, input |-> local])]
  /\ pressed' = [pressed EXCEPT ![i] = Append(@, local)]
  /\ missed'  = [missed EXCEPT ![i] = {}]
  /\ UNCHANGED <<phase, match, touched>>

Next ==
  \/ BothReady
  \/ \E i \in Peers : IdleTick(i) \/ BeginFight(i) \/ LeaveFight(i) \/ Deliver(i)
  \/ \E i \in Peers, x \in Inputs : FightTick(i, x)

Spec == Init /\ [][Next]_vars

-------------------------------------------------------------------------------
State == [match : Nat, ins : Seq(Inputs \X Inputs)]
RingEntry ==
  [snapshot : State, local : Inputs, remote : Inputs, confirmed : BOOLEAN]

\* The variables keep the shapes their comments give.
TypeOK ==
  /\ phase \in [Peers -> {"lobby", "ready", "fight"}]
  /\ match \in [Peers -> 0..MaxMatches] /\ frame \in [Peers -> 0..MaxFrame]
  /\ sim \in [Peers -> State]
  /\ buf \in [Peers -> [0..(RING - 1) -> RingEntry]]
  /\ diverge \in [Peers -> (1..MaxFrame) \union {-1}]
  /\ inbox \in [Peers -> Seq([frame : 1..MaxFrame, input : Inputs])]
  /\ pressed \in [Peers -> Seq(Inputs)]
  /\ missed \in [Peers -> SUBSET (1..MaxFrame)]
  /\ touched \in [Peers -> BOOLEAN]

(***************************************************************************)
(* Against an opponent who has not pressed anything yet the game is exact, *)
(* however late or early the inputs arrive and however often the ring goes *)
(* round: the state is what the local player's inputs and nothing else     *)
(* make of the match (no needless rewind: rollback_confirm_remote and      *)
(* rollback_get_remote).                                                   *)
(***************************************************************************)
Solo(i) ==
  [match |-> match[i],
   ins   |-> [n \in DOMAIN pressed[i] |-> BySlot(i, pressed[i][n], Neutral)]]

ExactWhileNeutral ==
  \A i \in Peers : phase[i] = "fight" /\ ~touched[i] => sim[i] = Solo(i)

\* A rewind that is due goes back to the earliest of the frames that have
\* proved wrong since the last one, in whatever order they were confirmed,
\* and is due exactly when there is one (rollback_confirm_remote).
DivergeEarliest ==
  \A i \in Peers :
    /\ (diverge[i] = -1) <=> (missed[i] = {})
    /\ missed[i] # {} => diverge[i] \in missed[i] /\ \A f \in missed[i] : diverge[i] <= f

-------------------------------------------------------------------------------
(***************************************************************************)
(* FURY_CLASH_ARCHITECTURE.md:109-111: a rewind re-simulates "with         *)
(* corrected inputs" and then the "current frame is now correct".  Only    *)
(* the other player's inputs are ever in doubt: whatever was mispredicted, *)
(* the local player's fighter does in each frame of the match what the     *)
(* local player pressed in it.  The run rb_rewind refutes it               *)
(* (rollback_rewind_and_resim, rollback_save).                             *)
(***************************************************************************)
OwnInputsKept ==
  \A i \in Peers : phase[i] = "fight" =>
    [n \in DOMAIN sim[i].ins |-> sim[i].ins[n][i + 1]] = pressed[i]
===============================================================================
