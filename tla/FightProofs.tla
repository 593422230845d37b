------------------------------ MODULE FightProofs ------------------------------
(***************************************************************************)
(* Theorems about the simulation of a fight, for every stage, table of     *)
(* moves, loadouts and inputs.                                             *)
(*                                                                         *)
(* The invariant has a part about each fighter on its own (Sound), a part  *)
(* about the two (Apart) and one about the round (Running).                *)
(***************************************************************************)
EXTENDS Fight, TLAPS

Slow(f) == -Speed <= f.vx /\ f.vx <= Speed

Stunned(f) == f.hitstun > 0 => f.state = "hit"

Boxed(f) ==
  f.box => \/ f.state = "attack" /\ Airborne(f) /\ f.frame - 1 \in Window(Moves[f.move])
           \/ f.state = "hit"

Sound(f) == f \in Fighter /\ Slow(f) /\ Stunned(f) /\ Boxed(f)

Apart(fs) ==
  /\ fs[0].x + Body - 2 * Speed <= fs[1].x
  /\ fs[0].facing = 1 /\ fs[1].facing = -1

RoundState ==
  [timer : Nat, over : BOOLEAN, match : BOOLEAN, winners : SUBSET Players, won : [Players -> Nat]]

Running == ~round.over => round.timer > 0

IInv ==
  /\ fighters \in [Players -> Fighter]
  /\ round \in RoundState
  /\ \A i \in Players : Sound(fighters[i])
  /\ Apart(fighters)
  /\ Running
  /\ fighters[0].state # "hit"

-------------------------------------------------------------------------------
(***************************************************************************)
(* One fighter.                                                            *)
(***************************************************************************)
LEMMA MoveFacts == ASSUME NEW p \in Punches PROVE Moves[p] \in Move /\ Moves[p].kx <= Speed
BY FightAssumption, SpeedAssumption

LEMMA ClampedFacts ==
  ASSUME NEW x \in Int
  PROVE  /\ Clamped(x) \in Left..Right
         /\ \A y \in Left..Right : y <= x => y <= Clamped(x) /\ Clamped(x) <= x
         /\ \A y \in Left..Right : x <= y => Clamped(x) <= y /\ x <= Clamped(x)
<1>1. Left <= Right
  BY FightAssumption, 0 \in Players DEF Players
<1> QED BY <1>1, FightAssumption DEF Clamped

LEMMA TurnedFacts ==
  ASSUME NEW f \in Fighter, NEW o \in Fighter
  PROVE  /\ Turned(f, o) \in Fighter
         /\ Turned(f, o) = [f EXCEPT !.facing = Turned(f, o).facing]
         /\ o.x >= f.x /\ f.facing = 1 => Turned(f, o).facing = 1
         /\ o.x < f.x /\ f.facing = -1 => Turned(f, o).facing = -1
BY FightAssumption DEF Turned, Fighter

LEMMA FallingFacts ==
  ASSUME NEW f \in Fighter
  PROVE  /\ Falling(f) \in Fighter
         /\ Falling(f) = [f EXCEPT !.vy = Falling(f).vy]
BY FightAssumption DEF Falling, Fighter

LEMMA MovedFacts ==
  ASSUME NEW f \in Fighter, Slow(f)
  PROVE  /\ Moved(f) \in Fighter /\ Slow(Moved(f))
         /\ f.x - Speed <= Moved(f).x /\ Moved(f).x <= f.x + Speed
         /\ Moved(f).facing = f.facing /\ Moved(f).health = f.health
         /\ Moved(f).hitstun = f.hitstun /\ Moved(f).box = f.box
         /\ Moved(f).state \in {f.state, "ground"}
         /\ f.state \in {"attack", "hit"} => Moved(f).state = f.state
<1>1. f.x \in Left..Right /\ f.x \in Int /\ f.vx \in Int /\ f.y \in Int /\ f.vy \in Int
  BY FightAssumption DEF Fighter
<1>2. /\ Clamped(f.x + f.vx) \in Left..Right
      /\ f.x - Speed <= Clamped(f.x + f.vx) /\ Clamped(f.x + f.vx) <= f.x + Speed
  BY <1>1, ClampedFacts, SpeedAssumption DEF Slow
<1> DEFINE up  == f.y + f.vy < 0
           lands == ~up /\ f.state = "jump"
           y   == IF up THEN f.y + f.vy ELSE 0
           vy  == IF up THEN f.vy ELSE 0
           vx  == IF lands THEN 0 ELSE f.vx
           st  == IF lands THEN "ground" ELSE f.state
<1>3. y \in Int /\ vy \in Int /\ vx \in Int /\ st \in {"ground", "jump", "attack", "hit"}
  BY <1>1 DEF Fighter
<1>4. Moved(f) = [f EXCEPT !.x = Clamped(f.x + f.vx), !.y = y, !.vy = vy, !.vx = vx, !.state = st]
  BY DEF Moved
<1>5. Moved(f) \in Fighter
  <2> HIDE DEF y, vy, vx, st
  <2> QED BY <1>2, <1>3, <1>4 DEF Fighter
<1>6. /\ Moved(f).x = Clamped(f.x + f.vx)
      /\ Moved(f).facing = f.facing /\ Moved(f).health = f.health
      /\ Moved(f).hitstun = f.hitstun /\ Moved(f).box = f.box
  BY DEF Moved, Fighter
<1>7. /\ Moved(f).vx \in {f.vx, 0} /\ Moved(f).state \in {f.state, "ground"}
      /\ f.state \in {"attack", "hit"} => Moved(f).state = f.state
  BY DEF Moved, Fighter
<1> QED BY <1>1, <1>2, <1>5, <1>6, <1>7, SpeedAssumption DEF Slow

\* After the landing only a punch in the air is still a punch, and only a box
\* that was on is on.
Settled(f) ==
  /\ f.box => f.state \in {"attack", "hit"}
  /\ f.state = "attack" => Airborne(f)

LEMMA LandedFacts ==
  ASSUME NEW f \in Fighter, Slow(f), f.box => f.state \in {"attack", "hit"}
  PROVE  /\ Landed(f) \in Fighter /\ Slow(Landed(f)) /\ Settled(Landed(f))
         /\ Landed(f).x = f.x /\ Landed(f).facing = f.facing
         /\ Landed(f).health = f.health /\ Landed(f).hitstun = f.hitstun
         /\ Landed(f).state = "hit" <=> f.state = "hit"
<1>1. CASE f.state = "attack" /\ ~Airborne(f)
  <2>1. Landed(f) = [f EXCEPT !.state = "ground", !.frame = 0, !.box = FALSE, !.vx = 0]
    BY <1>1 DEF Landed
  <2>2. Landed(f) \in Fighter
    <3> DEFINE zero == 0
               off  == FALSE
               st   == "ground"
    <3>1. /\ zero \in Nat /\ zero \in Int /\ off \in BOOLEAN
          /\ st \in {"ground", "jump", "attack", "hit"}
      OBVIOUS
    <3>2. Landed(f) = [f EXCEPT !.state = st, !.frame = zero, !.box = off, !.vx = zero]
      BY <2>1
    <3> HIDE DEF zero, off, st
    <3> QED BY <3>1, <3>2 DEF Fighter
  <2>3. Landed(f).vx = 0 /\ Landed(f).state = "ground" /\ Landed(f).box = FALSE
    BY <2>1 DEF Fighter
  <2>4. /\ Landed(f).x = f.x /\ Landed(f).facing = f.facing
        /\ Landed(f).health = f.health /\ Landed(f).hitstun = f.hitstun
    BY <2>1 DEF Fighter
  <2> QED BY <1>1, <2>2, <2>3, <2>4, SpeedAssumption DEF Slow, Settled
<1>2. CASE ~(f.state = "attack" /\ ~Airborne(f))
  BY <1>2 DEF Landed, Settled
<1> QED BY <1>1, <1>2

\* What acting may change of a fighter who is not stunned.
Acted(f, g) ==
  /\ g \in Fighter /\ Slow(g) /\ Boxed(g)
  /\ g.x = f.x /\ g.facing = f.facing /\ g.health = f.health /\ g.hitstun = f.hitstun
  /\ g.state = "hit" <=> f.state = "hit"

LEMMA AttackingFacts ==
  ASSUME NEW f \in Fighter, Slow(f), f.state = "attack", Airborne(f)
  PROVE  Acted(f, Attacking(f))
<1>1. Moves[f.move] \in Move
  BY MoveFacts DEF Fighter
<1>2. CASE f.frame >= Moves[f.move].total
  BY <1>2 DEF Attacking, Acted, Fighter, Slow, Boxed
<1>3. CASE ~(f.frame >= Moves[f.move].total)
  <2>1. Attacking(f) = [f EXCEPT !.box = f.frame \in Window(Moves[f.move]), !.frame = @ + 1]
    BY <1>3 DEF Attacking
  <2> DEFINE g == Attacking(f)
  <2>2. g \in Fighter
    <3> DEFINE b == f.frame \in Window(Moves[f.move])
               n == f.frame + 1
    <3>1. b \in BOOLEAN /\ n \in Nat
      BY DEF Fighter
    <3>2. g = [f EXCEPT !.box = b, !.frame = n]
      BY <2>1
    <3> HIDE DEF b, n, g
    <3> QED BY <3>1, <3>2 DEF Fighter
  <2>3. /\ g.box = (f.frame \in Window(Moves[f.move])) /\ g.frame = f.frame + 1
        /\ g.x = f.x /\ g.y = f.y /\ g.vx = f.vx /\ g.facing = f.facing /\ g.state = f.state
        /\ g.health = f.health /\ g.hitstun = f.hitstun /\ g.move = f.move
    BY <2>1 DEF Fighter
  <2>4. g.frame - 1 = f.frame
    BY <2>3 DEF Fighter
  <2>5. Boxed(g)
    BY <2>3, <2>4 DEF Boxed, Airborne
  <2> QED BY <2>2, <2>3, <2>5 DEF Acted, Slow
<1> QED BY <1>2, <1>3

LEMMA WayFacts ==
  ASSUME NEW f \in Fighter, NEW input
  PROVE  Way(f, input) \in {-1, 0, 1}
BY DEF Way, Fighter

LEMMA SteeredFacts ==
  ASSUME NEW i \in Players, NEW f \in Fighter, NEW input \in SUBSET Buttons,
         Slow(f), Settled(f), f.state = "ground"
  PROVE  Acted(f, Steered(i, f, input))
<1>1. Way(f, input) \in {-1, 0, 1}
  BY WayFacts
<1>2. /\ JumpVx[i] \in Nat /\ JumpVx[i] <= Speed /\ JumpVy[i] \in Int
      /\ Forth \in Nat /\ Forth <= Speed /\ Back \in Nat /\ Back <= Speed /\ Speed \in Nat
  BY FightAssumption, SpeedAssumption
<1>3. CASE "up" \in input
  <2> DEFINE vx == JumpVx[i] * Way(f, input)
  <2>1. vx \in Int /\ -Speed <= vx /\ vx <= Speed
    BY <1>1, <1>2
  <2>2. Steered(i, f, input) = [f EXCEPT !.state = "jump", !.vx = vx, !.vy = JumpVy[i]]
    BY <1>3 DEF Steered
  <2> HIDE DEF vx
  <2> QED BY <2>1, <2>2, <1>2 DEF Acted, Fighter, Slow, Boxed, Settled
<1>4. CASE "up" \notin input
  <2>1. Pace(f, input) \in Int /\ -Speed <= Pace(f, input) /\ Pace(f, input) <= Speed
    BY <1>1, <1>2 DEF Pace
  <2>2. Steered(i, f, input) = [f EXCEPT !.vx = Pace(f, input)]
    BY <1>4 DEF Steered
  <2> QED BY <2>1, <2>2 DEF Acted, Fighter, Slow, Boxed, Settled
<1> QED BY <1>3, <1>4

LEMMA PunchingFacts ==
  ASSUME NEW f \in Fighter, NEW input \in SUBSET Buttons,
         Slow(f), Settled(f), f.state = "jump"
  PROVE  Acted(f, Punching(f, input))
<1>1. CASE (input \cap Punches) \ f.prev = {} \/ ~Airborne(f)
  BY <1>1 DEF Punching, Acted, Settled, Boxed
<1>2. CASE ~((input \cap Punches) \ f.prev = {} \/ ~Airborne(f))
  <2> DEFINE m == IF "HP" \in (input \cap Punches) \ f.prev THEN "HP" ELSE "LP"
  <2>1. m \in Punches
    BY DEF Punches
  <2>2. Punching(f, input)
          = [f EXCEPT !.state = "attack", !.frame = 1, !.box = FALSE, !.move = m]
    BY <1>2 DEF Punching
  <2> HIDE DEF m
  <2> DEFINE g == Punching(f, input)
  <2>3. g \in Fighter
    <3> DEFINE one == 1
               off == FALSE
               st  == "attack"
    <3>1. one \in Nat /\ off \in BOOLEAN /\ st \in {"ground", "jump", "attack", "hit"}
      OBVIOUS
    <3>2. g = [f EXCEPT !.state = st, !.frame = one, !.box = off, !.move = m]
      BY <2>2
    <3> HIDE DEF one, off, st, g
    <3> QED BY <2>1, <3>1, <3>2 DEF Fighter
  <2>4. /\ g.box = FALSE /\ g.state = "attack" /\ g.x = f.x /\ g.vx = f.vx
        /\ g.facing = f.facing /\ g.health = f.health /\ g.hitstun = f.hitstun
    BY <2>2 DEF Fighter
  <2> QED BY <2>3, <2>4 DEF Acted, Slow, Boxed
<1> QED BY <1>1, <1>2

LEMMA ActingFacts ==
  ASSUME NEW i \in Players, NEW f \in Fighter, NEW input \in SUBSET Buttons,
         Slow(f), Settled(f)
  PROVE  Acted(f, Acting(i, f, input))
<1>1. CASE f.state = "attack"
  BY <1>1, AttackingFacts DEF Acting, Settled
<1>2. CASE f.state = "ground"
  BY <1>2, SteeredFacts DEF Acting
<1>3. CASE f.state = "jump"
  BY <1>3, PunchingFacts DEF Acting
<1>4. CASE f.state = "hit"
  BY <1>4 DEF Acting, Acted, Boxed
<1> QED BY <1>1, <1>2, <1>3, <1>4 DEF Fighter

\* The tick of a fighter: it goes at most one step and keeps looking at an
\* opponent who stays on its side.
LEMMA TickedFacts ==
  ASSUME NEW i \in Players, NEW f, Sound(f), NEW o \in Fighter, NEW input \in SUBSET Buttons
  PROVE  LET g == Ticked(i, f, input, o)
         IN  /\ Sound(g)
             /\ f.x - Speed <= g.x /\ g.x <= f.x + Speed
             /\ o.x >= f.x /\ f.facing = 1 => g.facing = 1
             /\ o.x < f.x /\ f.facing = -1 => g.facing = -1
             /\ g.state = "hit" <=> f.state = "hit"
<1> DEFINE g == Ticked(i, f, input, o)
<1>1. f \in Fighter /\ Slow(f) /\ f.x \in Int /\ f.hitstun \in Nat /\ Speed \in Nat
  BY FightAssumption, SpeedAssumption DEF Sound, Fighter
<1>2. CASE f.hitstun > 0
  <2>1. g = [f EXCEPT !.hitstun = f.hitstun - 1]
    BY <1>2 DEF Ticked
  <2>2. g \in Fighter
    <3> DEFINE n == f.hitstun - 1
    <3>1. n \in Nat
      BY <1>1, <1>2
    <3>2. g = [f EXCEPT !.hitstun = n]
      BY <2>1
    <3> HIDE DEF n, g
    <3> QED BY <1>1, <3>1, <3>2 DEF Fighter
  <2>3. /\ g.x = f.x /\ g.y = f.y /\ g.vx = f.vx /\ g.facing = f.facing /\ g.state = f.state
        /\ g.box = f.box /\ g.frame = f.frame /\ g.move = f.move
    BY <1>1, <2>1 DEF Fighter
  <2>4. g.state = "hit"
    BY <1>2, <2>3 DEF Sound, Stunned
  <2> QED BY <1>1, <2>2, <2>3, <2>4 DEF Sound, Slow, Stunned, Boxed
<1>3. CASE ~(f.hitstun > 0)
  <2> DEFINE t == Turned(f, o)
             d == Falling(t)
             m == Moved(d)
             a == Landed(m)
             r == Acting(i, a, input)
  <2>1. /\ t \in Fighter /\ t.x = f.x /\ t.vx = f.vx /\ t.state = f.state /\ t.box = f.box
        /\ t.hitstun = f.hitstun
        /\ o.x >= f.x /\ f.facing = 1 => t.facing = 1
        /\ o.x < f.x /\ f.facing = -1 => t.facing = -1
    BY <1>1, TurnedFacts DEF Fighter
  <2>2. /\ d \in Fighter /\ d.x = f.x /\ d.vx = f.vx /\ d.state = f.state /\ d.box = f.box
        /\ d.facing = t.facing /\ d.hitstun = f.hitstun
    BY <2>1, FallingFacts DEF Fighter
  <2> HIDE DEF t, d
  <2>3. /\ m \in Fighter /\ Slow(m) /\ f.x - Speed <= m.x /\ m.x <= f.x + Speed
        /\ m.facing = t.facing /\ m.hitstun = f.hitstun /\ m.box = f.box
        /\ m.state \in {f.state, "ground"}
        /\ f.state \in {"attack", "hit"} => m.state = f.state
    BY <1>1, <2>2, MovedFacts DEF Slow
  <2> HIDE DEF m
  <2>4. m.box => m.state \in {"attack", "hit"}
    BY <2>3 DEF Sound, Boxed
  <2>5. /\ a \in Fighter /\ Slow(a) /\ Settled(a) /\ a.x = m.x /\ a.facing = m.facing
        /\ a.hitstun = m.hitstun /\ (a.state = "hit" <=> m.state = "hit")
    BY <2>3, <2>4, LandedFacts
  <2> HIDE DEF a
  <2>6. Acted(a, r)
    BY <2>5, ActingFacts
  <2> HIDE DEF r
  <2>7. g = [r EXCEPT !.prev = input \cap Punches]
    BY <1>3 DEF Ticked, r, a, m, d, t
  <2> HIDE DEF g
  <2>8. /\ g \in Fighter /\ g.x = r.x /\ g.y = r.y /\ g.vx = r.vx /\ g.facing = r.facing
        /\ g.state = r.state /\ g.box = r.box /\ g.frame = r.frame /\ g.move = r.move
        /\ g.hitstun = r.hitstun
    BY <2>6, <2>7 DEF Acted, Fighter
  <2>9. Slow(g) /\ Boxed(g)
    BY <2>6, <2>8 DEF Acted, Slow, Boxed, Airborne
  <2>10. Stunned(g)
    BY <1>1, <1>3, <2>3, <2>5, <2>6, <2>8 DEF Acted, Stunned
  <2>11. g.x = m.x /\ g.facing = t.facing /\ (g.state = "hit" <=> f.state = "hit")
    BY <2>3, <2>5, <2>6, <2>8 DEF Acted
  <2> QED BY <2>1, <2>3, <2>8, <2>9, <2>10, <2>11 DEF Sound, g
<1> QED BY <1>1, <1>2, <1>3

-------------------------------------------------------------------------------
(***************************************************************************)
(* Hits.                                                                   *)
(***************************************************************************)
LEMMA DamageType == ASSUME NEW a \in Fighter PROVE Damage(a) \in Nat
<1>1. Moves[a.move].damage \in Nat
  BY MoveFacts DEF Fighter, Move
<1>2. Percent(a) \in Nat
  BY FightAssumption DEF Percent
<1>3. Moves[a.move].damage * Percent(a) \in Nat
  BY <1>1, <1>2
<1> QED BY <1>3 DEF Damage

LEMMA StruckFacts ==
  ASSUME NEW a \in Fighter, NEW d, Sound(d)
  PROVE  /\ Sound(Struck(a, d))
         /\ Struck(a, d).x = d.x /\ Struck(a, d).facing = d.facing
<1> DEFINE m == Moves[a.move]
           g == Struck(a, d)
<1>1. m \in Move /\ m.kx <= Speed /\ Speed \in Nat
  BY MoveFacts, SpeedAssumption DEF Fighter
<1> DEFINE h  == Wounded(d.health, Damage(a))
           vx == -m.kx
           st == "hit"
           n  == 0
<1>2. /\ h \in Nat /\ vx \in Int /\ -Speed <= vx /\ vx <= Speed
      /\ m.stun \in Nat /\ m.ky \in Int /\ n \in Nat
      /\ st \in {"ground", "jump", "attack", "hit"}
  <2>1. d.health \in Nat
    BY DEF Sound, Fighter
  <2> QED BY <1>1, <2>1, DamageType DEF Wounded, Move
<1>3. g = [d EXCEPT !.health = h, !.hitstun = m.stun, !.vx = vx, !.vy = m.ky,
                    !.state = st, !.frame = n]
  BY DEF Struck
<1>4. g \in Fighter /\ g.x = d.x /\ g.facing = d.facing /\ g.vx = vx /\ g.state = st
  <2> HIDE DEF h, vx, st, n, m, g
  <2> QED BY <1>2, <1>3 DEF Sound, Fighter
<1> QED BY <1>2, <1>4 DEF Sound, Slow, Stunned, Boxed

Pair == [Players -> Fighter]

\* Player 1, further left than player 2, does not get hit: the box of player 2
\* begins less than half a body to its left and runs away from player 1.
LEMMA BehindBack ==
  ASSUME NEW fs \in Pair, fs[1].facing = -1, fs[0].x + Body - 4 * Speed <= fs[1].x
  PROVE  ~Hits(fs[1], fs[0])
<1>1. fs[0] \in Fighter /\ fs[1] \in Fighter
  BY DEF Pair, Players
<1> DEFINE m == Moves[fs[1].move]
<1>2. /\ m \in Move /\ HurtHalf + m.x <= Body - 4 * Speed
      /\ Speed \in Nat /\ Body \in Nat /\ HurtHalf \in Nat
  BY <1>1, MoveFacts, ReachAssumption, SpeedAssumption, FightAssumption DEF Fighter
<1>3. m.x \in Int /\ fs[0].x \in Int /\ fs[1].x \in Int
  BY <1>1, <1>2, FightAssumption DEF Move, Fighter
<1>4. Edge(fs[1]) = fs[1].x - m.x
  BY <1>3 DEF Edge
<1>5. ~(fs[1].x - m.x < fs[0].x - HurtHalf + 2 * HurtHalf)
  BY <1>2, <1>3
<1> QED BY <1>4, <1>5 DEF Hits, Overlap

LEMMA ResolvedFacts ==
  ASSUME NEW fs \in Pair, \A i \in Players : Sound(fs[i]), fs[0].state # "hit",
         fs[1].facing = -1, fs[0].x + Body - 4 * Speed <= fs[1].x
  PROVE  LET gs == Resolved(Resolved(fs, 0), 1)
         IN  /\ gs \in Pair
             /\ \A i \in Players : Sound(gs[i]) /\ gs[i].x = fs[i].x /\ gs[i].facing = fs[i].facing
             /\ gs[0].state = fs[0].state
<1> DEFINE hs == Resolved(fs, 0)
<1>1. /\ hs \in Pair
      /\ \A i \in Players : Sound(hs[i]) /\ hs[i].x = fs[i].x /\ hs[i].facing = fs[i].facing
      /\ hs[0].state = fs[0].state
  <2>1. CASE ~Hits(fs[0], fs[1])
    BY <2>1 DEF Resolved, Other
  <2>2. CASE Hits(fs[0], fs[1])
    <3> DEFINE g == [fs[0] EXCEPT !.box = FALSE]
               d == Struck(fs[0], fs[1])
    <3>1. fs[0] \in Fighter /\ fs[1] \in Fighter /\ Sound(fs[0]) /\ Sound(fs[1])
      BY DEF Pair, Players
    <3>2. Sound(d) /\ d.x = fs[1].x /\ d.facing = fs[1].facing
      BY <3>1, StruckFacts
    <3>3. /\ g \in Fighter /\ g.x = fs[0].x /\ g.facing = fs[0].facing /\ g.vx = fs[0].vx
          /\ g.state = fs[0].state /\ g.hitstun = fs[0].hitstun /\ g.box = FALSE
      BY <3>1 DEF Fighter
    <3>4. Sound(g)
      BY <3>1, <3>3 DEF Sound, Slow, Stunned, Boxed
    <3>5. hs = [j \in Players |-> IF j = 0 THEN g ELSE d]
      BY <2>2 DEF Resolved, Other, Players
    <3> HIDE DEF g, d, hs
    <3>6. hs[0] = g /\ hs[1] = d
      BY <3>5 DEF Players
    <3>7. hs \in Pair
      BY <3>2, <3>3, <3>5 DEF Pair, Sound
    <3> QED BY <3>2, <3>3, <3>4, <3>6, <3>7 DEF Players, hs
  <2> QED BY <2>1, <2>2
<1> HIDE DEF hs
<1>2. ~Hits(hs[1], hs[0])
  BY <1>1, BehindBack DEF Players
<1>3. Resolved(hs, 1) = hs
  BY <1>2 DEF Resolved, Other
<1> QED BY <1>1, <1>3 DEF hs

-------------------------------------------------------------------------------
(***************************************************************************)
(* The push: what four steps can take of a body it gives back to within    *)
(* two, at a wall as well.                                                 *)
(***************************************************************************)
LEMMA ShovedFacts ==
  ASSUME NEW fs \in Pair, \A i \in Players : Sound(fs[i]), NEW n \in Int
  PROVE  LET gs == Shoved(fs, n)
         IN  /\ gs \in Pair
             /\ gs[0].x = Clamped(fs[0].x - n) /\ gs[1].x = Clamped(fs[1].x + n)
             /\ \A i \in Players : /\ Sound(gs[i]) /\ gs[i].facing = fs[i].facing
                                   /\ gs[i].state = fs[i].state /\ gs[i].health = fs[i].health
<1>1. ASSUME NEW i \in Players, NEW x \in Left..Right
      PROVE  LET g == [fs[i] EXCEPT !.x = x]
             IN  /\ Sound(g) /\ g.x = x /\ g.facing = fs[i].facing /\ g.state = fs[i].state
                 /\ g.health = fs[i].health
  <2> DEFINE g == [fs[i] EXCEPT !.x = x]
  <2>1. Sound(fs[i]) /\ fs[i] \in Fighter
    BY DEF Sound
  <2>2. /\ g \in Fighter /\ g.x = x /\ g.y = fs[i].y /\ g.vx = fs[i].vx /\ g.facing = fs[i].facing
        /\ g.state = fs[i].state /\ g.health = fs[i].health /\ g.hitstun = fs[i].hitstun
        /\ g.box = fs[i].box /\ g.frame = fs[i].frame /\ g.move = fs[i].move
    BY <2>1 DEF Fighter
  <2> HIDE DEF g
  <2>3. Sound(g)
    BY <2>1, <2>2 DEF Sound, Slow, Stunned, Boxed, Airborne
  <2> QED BY <2>2, <2>3 DEF g
<1> DEFINE X(i) == Clamped(IF i = 0 THEN fs[i].x - n ELSE fs[i].x + n)
           gs   == Shoved(fs, n)
<1>2. \A i \in Players : X(i) \in Left..Right
  <2> TAKE i \in Players
  <2>1. fs[i].x \in Int
    BY FightAssumption DEF Pair, Fighter
  <2> QED BY <2>1, ClampedFacts
<1>3. gs = [i \in Players |-> [fs[i] EXCEPT !.x = X(i)]]
  BY DEF Shoved
<1>4. \A i \in Players : /\ Sound(gs[i]) /\ gs[i].x = X(i) /\ gs[i].facing = fs[i].facing
                         /\ gs[i].state = fs[i].state /\ gs[i].health = fs[i].health
  <2> HIDE DEF X, gs
  <2> QED BY <1>1, <1>2, <1>3
<1>5. gs \in Pair
  BY <1>3, <1>4 DEF Pair, Sound
<1> QED BY <1>4, <1>5 DEF Players

LEMMA PushedFacts ==
  ASSUME NEW fs \in Pair, \A i \in Players : Sound(fs[i]),
         fs[0].facing = 1, fs[1].facing = -1, fs[0].x + Body - 4 * Speed <= fs[1].x
  PROVE  LET gs == PushedApart(fs)
         IN  /\ gs \in Pair /\ Apart(gs)
             /\ \A i \in Players : Sound(gs[i]) /\ gs[i].state = fs[i].state
<1> DEFINE a == fs[0].x
           b == fs[1].x
           n == Push(b - a)
<1>1. /\ a \in Left..Right /\ b \in Left..Right /\ Left \in Int /\ Right \in Int
      /\ Body \in Nat /\ Speed \in Nat /\ 4 * Speed < Body /\ Left + Body <= Right
  <2>1. a \in Left..Right /\ b \in Left..Right
    BY DEF Pair, Fighter, Players
  <2>2. Start[0] \in Left..Right /\ Start[1] \in Left..Right
    BY FightAssumption DEF Players
  <2> QED BY <2>1, <2>2, FightAssumption, SpeedAssumption
<1>2. 0 < b - a /\ a \in Int /\ b \in Int /\ a + Body - 4 * Speed <= b
  BY <1>1
<1>3. CASE ~(b - a < Body)
  <2>1. PushedApart(fs) = fs
    BY <1>1, <1>2, <1>3 DEF PushedApart
  <2> QED BY <1>1, <1>3, <2>1 DEF Apart
<1>4. CASE b - a < Body
  <2>1. n \in Int /\ 2 * n >= Body - (b - a) /\ 2 * n <= Body - (b - a) + 1
    BY <1>1, <1>2 DEF Push
  <2>2. PushedApart(fs) = Shoved(fs, n)
    BY <1>2, <1>4 DEF PushedApart
  <2> HIDE DEF n
  <2>3. Clamped(a - n) + Body - 2 * Speed <= Clamped(b + n)
    <3>1. \/ Clamped(a - n) = a - n
          \/ Clamped(a - n) = Left /\ a - n < Left
      BY <1>1, <1>2, <1>4, <2>1 DEF Clamped
    <3>2. \/ Clamped(b + n) = b + n
          \/ Clamped(b + n) = Right /\ b + n > Right
      BY <1>1, <1>2, <1>4, <2>1 DEF Clamped
    <3> HIDE DEF a, b
    <3> QED BY <1>1, <1>2, <1>4, <2>1, <3>1, <3>2
  <2> DEFINE gs == Shoved(fs, n)
  <2>4. /\ gs \in Pair /\ gs[0].x = Clamped(a - n) /\ gs[1].x = Clamped(b + n)
        /\ \A i \in Players : /\ Sound(gs[i]) /\ gs[i].facing = fs[i].facing
                              /\ gs[i].state = fs[i].state
    BY <2>1, ShovedFacts
  <2>5. Apart(gs)
    BY <2>3, <2>4 DEF Apart, Players
  <2> QED BY <2>2, <2>4, <2>5
<1> QED BY <1>3, <1>4

-------------------------------------------------------------------------------
(***************************************************************************)
(* The round.                                                              *)
(***************************************************************************)
LEMMA RoundFacts ==
  ASSUME NEW r \in RoundState, NEW fs \in Pair, ~r.over => r.timer > 0
  PROVE  LET q == RoundTicked(r, fs)
         IN  /\ q \in RoundState
             /\ ~q.over => q.timer > 0 /\ \A i \in Players : ~KO(fs[i])
             /\ ~r.over /\ q.over => q.winners = Winners(fs)
<1> DEFINE q == RoundTicked(r, fs)
<1>1. CASE r.over
  BY <1>1 DEF RoundTicked, RoundState
<1>2. CASE ~r.over /\ r.timer > 1 /\ \A i \in Players : ~KO(fs[i])
  <2>1. q = [r EXCEPT !.timer = r.timer - 1]
    BY <1>2 DEF RoundTicked
  <2>2. r.timer - 1 \in Nat /\ r.timer - 1 > 0
    BY <1>2 DEF RoundState
  <2>3. q \in RoundState /\ q.timer = r.timer - 1 /\ q.over = r.over
    BY <2>1, <2>2 DEF RoundState
  <2> QED BY <1>2, <2>2, <2>3
<1>3. CASE ~r.over /\ ~(r.timer > 1 /\ \A i \in Players : ~KO(fs[i]))
  <2> DEFINE won   == [i \in Players |-> IF i \in Winners(fs) THEN r.won[i] + 1 ELSE r.won[i]]
             t     == r.timer - 1
             enough == \E i \in Players : won[i] >= RoundsToWin
  <2>1. q = [timer |-> t, over |-> TRUE, won |-> won, winners |-> Winners(fs), match |-> enough]
    BY <1>3 DEF RoundTicked
  <2>2. t \in Nat /\ enough \in BOOLEAN
    BY <1>3 DEF RoundState
  <2>3. Winners(fs) \in SUBSET Players
    BY DEF Winners, Players
  <2>4. won \in [Players -> Nat]
    BY DEF RoundState
  <2> HIDE DEF won, t, enough
  <2>5. q \in RoundState
    BY <2>1, <2>2, <2>3, <2>4 DEF RoundState
  <2>6. q.over = TRUE /\ q.winners = Winners(fs)
    BY <2>1
  <2> QED BY <2>5, <2>6
<1> QED BY <1>1, <1>2, <1>3

-------------------------------------------------------------------------------
(***************************************************************************)
(* The invariant.                                                          *)
(***************************************************************************)
LEMMA InitInv == Init => IInv
<1> SUFFICES ASSUME Init PROVE IInv
  OBVIOUS
<1>1. PICK p \in Loadouts[0], s \in Loadouts[1] :
        fighters = [i \in Players |-> NewFighter(i, IF i = 0 THEN p ELSE s)]
  BY DEF Init
<1>2. p \in Packs /\ s \in Packs
  BY FightAssumption DEF Players
<1>3. ASSUME NEW i \in Players, NEW k \in Packs
      PROVE  LET f == NewFighter(i, k)
             IN  /\ Sound(f) /\ f.x = Start[i] /\ f.state = "ground"
                 /\ f.facing = IF i = 0 THEN 1 ELSE -1
  <2> DEFINE f == NewFighter(i, k)
             h == FullHealth + (IF k = "frost" THEN Frost ELSE 0)
             d == IF i = 0 THEN 1 ELSE -1
  <2>1. h \in Nat /\ d \in {-1, 1} /\ Start[i] \in Left..Right /\ "LP" \in Punches
    BY FightAssumption DEF Punches
  <2>2. f = [x |-> Start[i], y |-> 0, vx |-> 0, vy |-> 0, facing |-> d,
             state |-> "ground", frame |-> 0, hitstun |-> 0, move |-> "LP", box |-> FALSE,
             health |-> h, pack |-> k, prev |-> {}]
    BY DEF NewFighter
  <2> HIDE DEF f, h, d
  <2>3. f \in Fighter
    BY <2>1, <2>2 DEF Fighter
  <2>4. /\ f.vx = 0 /\ f.hitstun = 0 /\ f.box = FALSE /\ f.x = Start[i] /\ f.state = "ground"
        /\ f.facing = d
    BY <2>2
  <2> QED BY <2>3, <2>4, SpeedAssumption DEF Sound, Slow, Stunned, Boxed, f, d
<1>4. \A i \in Players : /\ Sound(fighters[i]) /\ fighters[i].x = Start[i]
                         /\ fighters[i].state = "ground"
                         /\ fighters[i].facing = IF i = 0 THEN 1 ELSE -1
  BY <1>1, <1>2, <1>3
<1>5. fighters \in [Players -> Fighter]
  BY <1>1, <1>4 DEF Sound
<1>6. Apart(fighters)
  <2>1. Start[0] \in Int /\ Start[1] \in Int /\ Body \in Nat /\ Speed \in Nat
    BY FightAssumption, SpeedAssumption DEF Players
  <2> QED BY <1>4, <2>1, SpeedAssumption DEF Apart, Players
<1>7. round \in RoundState /\ Running
  BY FightAssumption DEF Init, NewRound, RoundState, Running
<1>8. fighters[0].state # "hit"
  BY <1>4 DEF Players
<1> QED BY <1>4, <1>5, <1>6, <1>7, <1>8 DEF IInv

\* What one tick makes of the fighters, before and after the hits.
LEMMA AfterTicksFacts ==
  ASSUME IInv, NEW a \in SUBSET Buttons, NEW b \in SUBSET Buttons
  PROVE  LET fs == AfterTicks(a, b)
         IN  /\ fs \in Pair /\ \A i \in Players : Sound(fs[i])
             /\ fs[0].facing = 1 /\ fs[1].facing = -1
             /\ fs[0].x + Body - 4 * Speed <= fs[1].x
             /\ fs[0].state # "hit"
<1> DEFINE p1 == Ticked(0, fighters[0], a, fighters[1])
           p2 == Ticked(1, fighters[1], b, p1)
           fs == AfterTicks(a, b)
<1>1. /\ Sound(fighters[0]) /\ Sound(fighters[1])
      /\ fighters[0] \in Fighter /\ fighters[1] \in Fighter
      /\ fighters[0].x + Body - 2 * Speed <= fighters[1].x
      /\ fighters[0].facing = 1 /\ fighters[1].facing = -1 /\ fighters[0].state # "hit"
  BY DEF IInv, Apart, Players
<1>2. /\ Speed \in Nat /\ Body \in Nat /\ 4 * Speed < Body
      /\ fighters[0].x \in Int /\ fighters[1].x \in Int
  BY <1>1, FightAssumption, SpeedAssumption DEF Fighter
<1>3. fighters[1].x >= fighters[0].x
  BY <1>1, <1>2
<1>4. /\ Sound(p1) /\ p1.x <= fighters[0].x + Speed /\ p1.facing = 1 /\ p1.state # "hit"
  BY <1>1, <1>3, TickedFacts DEF Players
<1>5. p1 \in Fighter /\ p1.x \in Int
  BY <1>4, FightAssumption DEF Sound, Fighter
<1> HIDE DEF p1
<1>6. p1.x < fighters[1].x
  BY <1>1, <1>2, <1>4, <1>5
<1>7. /\ Sound(p2) /\ fighters[1].x - Speed <= p2.x /\ p2.facing = -1
  BY <1>1, <1>5, <1>6, TickedFacts DEF Players
<1>8. p2 \in Fighter /\ p2.x \in Int
  BY <1>7, FightAssumption DEF Sound, Fighter
<1>9. p1.x + Body - 4 * Speed <= p2.x
  BY <1>1, <1>2, <1>4, <1>5, <1>7, <1>8
<1> HIDE DEF p2
<1>10. fs = [i \in Players |-> IF i = 0 THEN p1 ELSE p2]
  BY DEF AfterTicks, p1, p2
<1> HIDE DEF fs
<1>11. fs[0] = p1 /\ fs[1] = p2 /\ fs \in Pair
  BY <1>5, <1>8, <1>10 DEF Players, Pair
<1> QED BY <1>4, <1>7, <1>9, <1>11 DEF fs, Players

LEMMA TickInv == IInv /\ Tick => IInv'
<1> SUFFICES ASSUME IInv, Tick PROVE IInv'
  OBVIOUS
<1>1. PICK a \in Inputs[0], b \in Inputs[1] : fighters' = PushedApart(AfterHits(a, b))
  BY DEF Tick
<1>2. a \in SUBSET Buttons /\ b \in SUBSET Buttons
  BY FightAssumption DEF Players
<1> DEFINE fs == AfterTicks(a, b)
           gs == AfterHits(a, b)
<1>3. /\ fs \in Pair /\ \A i \in Players : Sound(fs[i])
      /\ fs[0].facing = 1 /\ fs[1].facing = -1
      /\ fs[0].x + Body - 4 * Speed <= fs[1].x
      /\ fs[0].state # "hit"
  BY <1>2, AfterTicksFacts
<1> HIDE DEF fs
<1>4. gs = Resolved(Resolved(fs, 0), 1)
  BY DEF AfterHits, fs
<1> HIDE DEF gs
<1>5. /\ gs \in Pair
      /\ \A i \in Players : Sound(gs[i]) /\ gs[i].x = fs[i].x /\ gs[i].facing = fs[i].facing
      /\ gs[0].state = fs[0].state
  BY <1>3, <1>4, ResolvedFacts
<1>6. gs[0].facing = 1 /\ gs[1].facing = -1 /\ gs[0].x + Body - 4 * Speed <= gs[1].x
  BY <1>3, <1>5 DEF Players
<1>7. /\ fighters' \in Pair /\ Apart(fighters')
      /\ \A i \in Players : Sound(fighters'[i]) /\ fighters'[i].state = gs[i].state
  BY <1>1, <1>5, <1>6, PushedFacts DEF gs
<1>8. fighters'[0].state # "hit"
  BY <1>3, <1>5, <1>7 DEF Players
<1>9. round' \in RoundState /\ Running'
  <2>1. round \in RoundState /\ (~round.over => round.timer > 0)
    BY DEF IInv, Running
  <2>2. round' = RoundTicked(round, fighters')
    BY DEF Tick
  <2> QED BY <1>7, <2>1, <2>2, RoundFacts DEF Running
<1> QED BY <1>7, <1>8, <1>9 DEF IInv, Pair

LEMMA Inductive == Spec => []IInv
<1>1. IInv /\ UNCHANGED vars => IInv'
  BY DEF IInv, vars, Running, Apart, Sound
<1> QED BY <1>1, InitInv, TickInv, PTL DEF Spec, Next

-------------------------------------------------------------------------------
(***************************************************************************)
(* The theorems.                                                           *)
(***************************************************************************)
\* The types of the simulation's state.
THEOREM TypeCorrect == Spec => []TypeOK
<1>1. IInv => TypeOK
  BY DEF IInv, TypeOK, RoundState
<1> QED BY <1>1, Inductive, PTL

\* Nobody crosses over, whatever the buttons: the push leaves a body less two
\* steps between the fighters, and two ticks cannot use that up.
THEOREM SidesKeptAlways == Spec => []SidesKept
<1>1. IInv => SidesKept
  <2> SUFFICES ASSUME IInv PROVE SidesKept
    OBVIOUS
  <2>1. fighters[0].x \in Int /\ fighters[1].x \in Int
    BY FightAssumption DEF IInv, Fighter, Players
  <2> QED BY <2>1, SpeedAssumption, FightAssumption DEF IInv, Apart, SidesKept
<1> QED BY <1>1, Inductive, PTL

\* A box that is on belongs to a punch in its window or to a fighter who was
\* hit out of one.
THEOREM BoxInWindowAlways == Spec => []BoxInWindow
<1>1. IInv => BoxInWindow
  BY DEF IInv, Sound, Boxed, BoxInWindow
<1> QED BY <1>1, Inductive, PTL

\* Player 2 never lands a punch, whatever the buttons: how far it goes that the
\* boxes are not mirrored (hitbox_check), which BoxAhead says they are.
THEOREM PlayerTwoNeverHits == Spec => []PlayerTwoHarmless
<1>1. IInv => PlayerTwoHarmless
  BY DEF IInv, PlayerTwoHarmless
<1> QED BY <1>1, Inductive, PTL

\* A fighter without health has lost or shared the round: the hits of a tick
\* come before its round_tick.
THEOREM KoEndsRoundAlways == Spec => []KoEndsRound
<1>1. Init => KoEndsRound
  <2> SUFFICES ASSUME Init PROVE KoEndsRound
    OBVIOUS
  <2>1. PICK p \in Loadouts[0], s \in Loadouts[1] :
          fighters = [i \in Players |-> NewFighter(i, IF i = 0 THEN p ELSE s)]
    BY DEF Init
  <2>2. ASSUME NEW i \in Players PROVE fighters[i].health # 0
    BY <2>1, FightAssumption DEF NewFighter
  <2> QED BY <2>2 DEF KoEndsRound
<1>2. IInv /\ Tick => KoEndsRound'
  <2> SUFFICES ASSUME IInv, Tick, NEW i \in Players, fighters'[i].health = 0, ~round'.over
               PROVE  FALSE
    BY DEF KoEndsRound
  <2>1. fighters' \in Pair
    BY TickInv DEF IInv, Pair
  <2>2. /\ round \in RoundState /\ (~round.over => round.timer > 0)
        /\ round' = RoundTicked(round, fighters')
    BY DEF IInv, Running, Tick
  <2>3. ~KO(fighters'[i])
    BY <2>1, <2>2, RoundFacts
  <2> QED BY <2>3 DEF KO
<1>3. KoEndsRound /\ UNCHANGED vars => KoEndsRound'
  BY DEF KoEndsRound, vars
<1> QED BY <1>1, <1>2, <1>3, Inductive, PTL DEF Spec, Next

\* The tick that ends the round never gives it to the player with less health,
\* and to both only when both are down.
THEOREM WinnerNotBehindAlways == Spec => WinnerNotBehind
<1> DEFINE Fair == ~round.over /\ round'.over =>
              /\ round'.winners # {}
              /\ \A i \in round'.winners : fighters'[i].health >= fighters'[Other(i)].health
              /\ round'.winners = Players => \A i \in Players : fighters'[i].health = 0
<1>1. IInv /\ Tick => Fair
  <2> SUFFICES ASSUME IInv, Tick, ~round.over, round'.over PROVE Fair
    OBVIOUS
  <2>1. fighters' \in Pair
    BY TickInv DEF IInv, Pair
  <2>2. round'.winners = Winners(fighters')
    BY <2>1, RoundFacts DEF IInv, Running, Tick
  <2>3. fighters'[0].health \in Nat /\ fighters'[1].health \in Nat
    BY <2>1 DEF Pair, Fighter, Players
  <2>4. CASE KO(fighters'[0]) /\ KO(fighters'[1])
    BY <2>2, <2>3, <2>4 DEF Winners, KO, Players, Other
  <2>5. CASE /\ ~(KO(fighters'[0]) /\ KO(fighters'[1]))
             /\ KO(fighters'[1]) \/ fighters'[0].health > fighters'[1].health
    BY <2>2, <2>3, <2>5 DEF Winners, KO, Players, Other
  <2>6. CASE /\ ~(KO(fighters'[0]) /\ KO(fighters'[1]))
             /\ ~(KO(fighters'[1]) \/ fighters'[0].health > fighters'[1].health)
    BY <2>2, <2>3, <2>6 DEF Winners, KO, Players, Other
  <2> QED BY <2>4, <2>5, <2>6
<1>2. IInv /\ [Next]_vars => [Fair]_vars
  BY <1>1 DEF Next
<1> QED BY <1>2, Inductive, PTL DEF Spec, WinnerNotBehind
===============================================================================
