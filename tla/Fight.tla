--------------------------------- MODULE Fight ---------------------------------
(***************************************************************************)
(* The simulation of a fight (gameplay/): two fighters on a line, their    *)
(* jumps and punches, the boxes that hit, and the round.  One step is one  *)
(* simulation_tick with any inputs of the two players.                     *)
(*                                                                         *)
(* Lengths are integers in a unit of the instance; y is measured from the  *)
(* ground, up is negative.  IDLE, WALK_FWD and WALK_BACK are one state,    *)
(* "ground" (the code never tells them apart but to draw), so are the      *)
(* three jumps.  The code has no transition to CROUCH or BLOCK, so no hit  *)
(* is blocked, and no way to start the moves 0 to 2 of the table.  The     *)
(* frame of a state is kept where it is read, in an attack.                *)
(***************************************************************************)
EXTENDS Integers

CONSTANTS
  Left, Right,          \* FC_STAGE_LEFT, FC_STAGE_RIGHT
  Start,                \* player -> x at the start
  Gravity,              \* FC_GRAVITY, per tick
  Forth, Back,          \* walking speeds
  JumpVx, JumpVy,       \* player -> jump_vx, jump_vy of its fighter
  Body,                 \* overlap_threshold of physics_push_apart
  HurtHalf, HurtHeight, \* the hurtbox: half its width, and its height
  Moves,                \* the two air punches of fighter_data
  FullHealth, Frost,    \* FC_MAX_HEALTH, what the frost pack adds
  Fire,                 \* percent of its damage a fire pack deals
  Loadouts,             \* player -> loadouts it can come with
  Inputs,               \* player -> the sets of buttons it can hold
  RoundTicks,           \* FC_ROUND_TIME_SEC * FC_TICK_RATE
  RoundsToWin,          \* FC_ROUNDS_TO_WIN
  Speed                 \* bound: no fighter goes further across in a tick

Players  == {0, 1}
Other(i) == 1 - i
Punches  == {"LP", "HP"}
Buttons  == {"up", "left", "right"} \cup Punches
Packs    == {"none", "fire", "frost"}

Move == [startup : Nat, active : Nat, total : Nat, damage : Nat, stun : Nat,
         kx : Nat, ky : Int, x : Int, y : Int, w : Nat, h : Nat]

ASSUME FightAssumption ==
  /\ Left \in Int /\ Right \in Int /\ Start \in [Players -> Left..Right]
  /\ Gravity \in Nat /\ Forth \in Nat /\ Back \in Nat
  /\ JumpVx \in [Players -> Nat] /\ JumpVy \in [Players -> Int]
  /\ Body \in Nat /\ HurtHalf \in Nat /\ HurtHeight \in Nat
  /\ Moves \in [Punches -> Move]
  /\ FullHealth \in Nat \ {0} /\ Frost \in Nat /\ Fire \in Nat
  /\ Loadouts \in [Players -> SUBSET Packs]
  /\ Inputs \in [Players -> SUBSET SUBSET Buttons]
  /\ RoundTicks \in Nat \ {0} /\ RoundsToWin \in Nat \ {0}

\* A body is wide against a step, and the fighters start a body apart: 60 px,
\* 200 px/s at 60 ticks per second, 300 and 980.
ASSUME SpeedAssumption ==
  /\ Speed \in Nat /\ 4 * Speed < Body
  /\ Forth <= Speed /\ Back <= Speed
  /\ \A i \in Players : JumpVx[i] <= Speed
  /\ \A m \in Punches : Moves[m].kx <= Speed
  /\ Start[0] + Body <= Start[1]

\* Half a hurtbox and the offset of a punch are short against a body: 30 px, 5
\* and 10 px.
ASSUME ReachAssumption ==
  \A m \in Punches : HurtHalf + Moves[m].x <= Body - 4 * Speed

VARIABLES
  fighters,   \* player -> Fighter
  round       \* RoundState

vars == <<fighters, round>>

(***************************************************************************)
(* Moving.  A fighter is a record f.                                       *)
(***************************************************************************)
Clamped(x) == IF x < Left THEN Left ELSE IF x > Right THEN Right ELSE x

Airborne(f) == f.y < 0

Turned(f, opponent) ==
  IF f.state # "ground" THEN f
  ELSE [f EXCEPT !.facing = IF opponent.x >= f.x THEN 1 ELSE -1]

Falling(f) == IF Airborne(f) THEN [f EXCEPT !.vy = @ + Gravity] ELSE f

Moved(f) ==
  LET up   == f.y + f.vy < 0
      lands == ~up /\ f.state = "jump"
  IN  [f EXCEPT !.x  = Clamped(@ + f.vx),
                !.y  = IF up THEN @ + f.vy ELSE 0,
                !.vy = IF up THEN @ ELSE 0,
                !.vx = IF lands THEN 0 ELSE @,
                !.state = IF lands THEN "ground" ELSE @]

\* A mutant: the landing forgets the box.
Landed_KeepsBox(f) ==
  IF f.state = "attack" /\ ~Airborne(f)
  THEN [f EXCEPT !.state = "ground", !.frame = 0, !.vx = 0]
  ELSE f

\* Landing cancels an air attack.
Landed(f) ==
  IF f.state = "attack" /\ ~Airborne(f)
  THEN [f EXCEPT !.state = "ground", !.frame = 0, !.box = FALSE, !.vx = 0]
  ELSE f

(***************************************************************************)
(* Acting on the buttons.                                                  *)
(***************************************************************************)
\* The frames of a move in which its box is on.
Window(m) == m.startup .. (m.startup + m.active - 1)

Attacking(f) ==
  LET m == Moves[f.move]
  IN  IF f.frame >= m.total
      THEN [f EXCEPT !.state = "jump", !.frame = 0, !.box = FALSE]
      ELSE [f EXCEPT !.box = f.frame \in Window(m), !.frame = @ + 1]

Forward(f) == IF f.facing = 1 THEN "right" ELSE "left"

\* The direction the buttons ask for: forward wins when both are held.
Way(f, input) ==
  IF Forward(f) \in input THEN f.facing
  ELSE IF {"left", "right"} \cap input # {} THEN -f.facing ELSE 0

Pace(f, input) == Way(f, input) * (IF Forward(f) \in input THEN Forth ELSE Back)

Steered(i, f, input) ==
  IF "up" \in input
  THEN [f EXCEPT !.state = "jump", !.vx = JumpVx[i] * Way(f, input), !.vy = JumpVy[i]]
  ELSE [f EXCEPT !.vx = Pace(f, input)]

\* A punch button that was not held at the last tick starts an air punch.
Punching(f, input) ==
  LET fresh == (input \cap Punches) \ f.prev
  IN  IF fresh = {} \/ ~Airborne(f) THEN f
      ELSE [f EXCEPT !.state = "attack", !.frame = 1, !.box = FALSE,
                     !.move = IF "HP" \in fresh THEN "HP" ELSE "LP"]

Acting(i, f, input) ==
  CASE f.state = "attack" -> Attacking(f)
    [] f.state = "ground" -> Steered(i, f, input)
    [] f.state = "jump"   -> Punching(f, input)
    [] f.state = "hit"    -> f

Ticked(i, f, input, opponent) ==
  IF f.hitstun > 0 THEN [f EXCEPT !.hitstun = @ - 1]
  ELSE LET g == Landed(Moved(Falling(Turned(f, opponent))))
       IN  [Acting(i, g, input) EXCEPT !.prev = input \cap Punches]

(***************************************************************************)
(* Hitting and pushing.  fs is the pair of fighters.                       *)
(***************************************************************************)
Overlap(a, aw, b, bw) == a < b + bw /\ a + aw > b

\* Facing left moves the near edge of the box, and does not mirror it.
Edge(f) == f.x + Moves[f.move].x * f.facing

Hits(a, d) ==
  LET m == Moves[a.move]
  IN  /\ a.box
      /\ Overlap(Edge(a), m.w, d.x - HurtHalf, 2 * HurtHalf)
      /\ Overlap(a.y + m.y, m.h, d.y - HurtHeight, HurtHeight)

Percent(f)   == IF f.pack = "fire" THEN Fire ELSE 100
Damage(a)    == (Moves[a.move].damage * Percent(a)) \div 100

Wounded(h, n) == IF h < n THEN 0 ELSE h - n

Struck(a, d) ==
  LET m == Moves[a.move]
  IN  [d EXCEPT !.health = Wounded(@, Damage(a)), !.hitstun = m.stun,
                !.vx = -m.kx, !.vy = m.ky, !.state = "hit", !.frame = 0]

Resolved(fs, i) ==
  IF Hits(fs[i], fs[Other(i)])
  THEN [j \in Players |-> IF j = i THEN [fs[i] EXCEPT !.box = FALSE]
                                   ELSE Struck(fs[i], fs[j])]
  ELSE fs

\* Half of the overlap, rounded up to a unit: the code halves exactly.
Push(d) == (Body - d + 1) \div 2

Shoved(fs, n) ==
  [i \in Players |-> [fs[i] EXCEPT !.x = Clamped(IF i = 0 THEN @ - n ELSE @ + n)]]

\* A mutant: fighters in the air do not push.
PushedApart_Grounded(fs) ==
  LET d == fs[1].x - fs[0].x
  IN  IF 0 < d /\ d < Body /\ ~Airborne(fs[0]) /\ ~Airborne(fs[1])
      THEN Shoved(fs, Push(d))
      ELSE fs

\* Height plays no part.
PushedApart(fs) ==
  LET d == fs[1].x - fs[0].x
  IN  IF 0 < d /\ d < Body THEN Shoved(fs, Push(d))
      ELSE IF 0 < -d /\ -d < Body THEN Shoved(fs, -Push(-d))
      ELSE fs

(***************************************************************************)
(* The round.  round_start_next has no caller: one round is all there is.  *)
(***************************************************************************)

\* A mutant: out only below 0.
KO_BelowZero(f) == f.health < 0

KO(f) == f.health <= 0

\* A mutant: the comparison the other way round.
Winners_Swapped(fs) ==
  IF KO(fs[0]) /\ KO(fs[1]) THEN Players
  ELSE IF KO(fs[1]) \/ fs[0].health < fs[1].health THEN {0} ELSE {1}

\* Who gets the round when it ends: player 1 also when time is up in a tie.
Winners(fs) ==
  IF KO(fs[0]) /\ KO(fs[1]) THEN Players
  ELSE IF KO(fs[1]) \/ fs[0].health > fs[1].health THEN {0} ELSE {1}

RoundTicked(r, fs) ==
  IF r.over THEN r
  ELSE IF r.timer > 1 /\ \A i \in Players : ~KO(fs[i])
  THEN [r EXCEPT !.timer = @ - 1]
  ELSE LET won == [i \in Players |-> IF i \in Winners(fs) THEN r.won[i] + 1 ELSE r.won[i]]
       IN  [timer |-> r.timer - 1, over |-> TRUE, won |-> won, winners |-> Winners(fs),
            match |-> \E i \in Players : won[i] >= RoundsToWin]

(***************************************************************************)
(* The behaviours.                                                         *)
(***************************************************************************)
NewFighter(i, pack) ==
  [x |-> Start[i], y |-> 0, vx |-> 0, vy |-> 0, facing |-> IF i = 0 THEN 1 ELSE -1,
   state |-> "ground", frame |-> 0, hitstun |-> 0, move |-> "LP", box |-> FALSE,
   health |-> FullHealth + (IF pack = "frost" THEN Frost ELSE 0), pack |-> pack, prev |-> {}]

NewRound ==
  [timer |-> RoundTicks, over |-> FALSE, match |-> FALSE, winners |-> {},
   won |-> [i \in Players |-> 0]]

Init ==
  /\ \E a \in Loadouts[0], b \in Loadouts[1] :
       fighters = [i \in Players |-> NewFighter(i, IF i = 0 THEN a ELSE b)]
  /\ round = NewRound

\* Player 1 moves before player 2 looks, and hits before player 2 does.
AfterTicks(a, b) ==
  LET p1 == Ticked(0, fighters[0], a, fighters[1])
      p2 == Ticked(1, fighters[1], b, p1)
  IN  [i \in Players |-> IF i = 0 THEN p1 ELSE p2]

AfterHits(a, b) == Resolved(Resolved(AfterTicks(a, b), 0), 1)

Tick ==
  /\ ~round.match
  /\ \E a \in Inputs[0], b \in Inputs[1] : fighters' = PushedApart(AfterHits(a, b))
  /\ round' = RoundTicked(round, fighters')

Next == Tick

Spec == Init /\ [][Next]_vars

-------------------------------------------------------------------------------
(***************************************************************************)
(* Properties.                                                             *)
(***************************************************************************)
Fighter ==
  [x : Left..Right, y : Int, vx : Int, vy : Int, facing : {-1, 1},
   state : {"ground", "jump", "attack", "hit"}, frame : Nat, hitstun : Nat,
   move : Punches, box : BOOLEAN, health : Nat, pack : Packs, prev : SUBSET Punches]

\* The types of the simulation's state: the stage holds both fighters, and
\* health, the stun and the timer never count below zero, whatever hits.
TypeOK ==
  /\ fighters \in [Players -> Fighter]
  /\ round \in [timer : Nat, over : BOOLEAN, match : BOOLEAN,
                winners : SUBSET Players, won : [Players -> Nat]]

\* Player 1 stays left of player 2 and each looks at the other, through every
\* jump, wall and knockback: with the positions crossed, facing would be stale
\* in the air, and "forward" would mean away (fighter_tick,
\* physics_push_apart).
SidesKept ==
  /\ fighters[0].x < fighters[1].x
  /\ fighters[0].facing = 1 /\ fighters[1].facing = -1

\* A box that is on belongs to a punch in the air and in its window, or to a
\* fighter who was hit out of one; landing, the end of the move and a hit all
\* take it back (fighter_tick, hitbox_resolve).
BoxInWindow ==
  \A i \in Players : fighters[i].box =>
    \/ /\ fighters[i].state = "attack" /\ Airborne(fighters[i])
       /\ fighters[i].frame - 1 \in Window(Moves[fighters[i].move])
    \/ fighters[i].state = "hit"

\* A box lies in front of the fighter who punches, whichever way it faces: "x is
\* forward of body center (flipped by facing in hitbox.c)", fighter_data.c:27.
\* The code does not do so: Edge moves the corner and the width stays.
BoxAhead ==
  \A i \in Players :
    LET f == fighters[i] IN
    f.box => \A x \in Edge(f)..Edge(f) + Moves[f.move].w : (x - f.x) * f.facing >= 0

\* What follows for player 2, who always faces left: no punch of it ever lands.
PlayerTwoHarmless == fighters[0].state # "hit"

\* A knock-out and the end of the round are one step: no tick shows a fighter
\* without health in a round that goes on (round_tick after the hits).
KoEndsRound == (\E i \in Players : fighters[i].health = 0) => round.over

\* The tick that ends the round gives it to nobody who has less health than the
\* other, and to both only when both are down (round_tick).
WinnerNotBehind ==
  [][ ~round.over /\ round'.over =>
        /\ round'.winners # {}
        /\ \A i \in round'.winners : fighters'[i].health >= fighters'[Other(i)].health
        /\ round'.winners = Players => \A i \in Players : fighters'[i].health = 0 ]_vars
===============================================================================
