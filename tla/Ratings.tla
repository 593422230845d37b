-------------------------------- MODULE Ratings --------------------------------
(***************************************************************************)
(* From the end of a match to the new ratings: handleRoomEnd of the relay  *)
(* (relay-server/room-manager.ts) writes the match, reads both players and *)
(* queues a job; a worker (workers/elo-worker.ts) computes the ratings     *)
(* (matchmaker/elo.ts) and writes players and match in one transaction.    *)
(*                                                                         *)
(* Each database call and each queue operation is a step: the ends of      *)
(* several rooms, and the jobs, interleave.  Every one of them may fail;   *)
(* handleRoomEnd gives up at the first failure.  The queue (BullMQ)        *)
(* delivers a job again when the worker that had it dies.                  *)
(*                                                                         *)
(* A room ends with the slot of the winner (module RelayRoom): nothing     *)
(* ends a match as a draw, so the counter of draws is left out.            *)
(***************************************************************************)
EXTENDS Integers, Sequences, FiniteSets, Functions

CONSTANTS
  Players,        \* players with a row in the database
  Matches,
  Names,          \* match -> slot -> the player id the room was made with
  Start,          \* player -> its rating and games before
  Workers,
  KNew, KEstablished, NewPlayerThreshold, Floor,    \* shared/constants.ts
  SCALE, Expected(_, _),    \* expectedScore, in units of 1 / SCALE
  Nobody,         \* a worker without a job
  MayFail,        \* TRUE: database and queue calls may fail
  MaxDeaths       \* bound: deaths of workers

Slots == {0, 1}
Other(s) == 1 - s

ASSUME RatingsAssumption ==
  /\ IsFiniteSet(Players) /\ IsFiniteSet(Matches)
  /\ Start \in [Players -> [elo : Nat, games : Nat]]
  /\ {NewPlayerThreshold, MaxDeaths} \subseteq Nat
  /\ {KNew, KEstablished, Floor, SCALE} \subseteq Nat \ {0}
  /\ \A p \in Players : Start[p].elo >= Floor
  /\ MayFail \in BOOLEAN
  /\ Nobody \notin Matches
  /\ \A m \in Matches : Names[m][0] # Names[m][1]

VARIABLES
  player,    \* player -> its row: elo, games, wins, losses
  row,       \* match -> its row: winner, and per slot change and after
  room,      \* match -> how far its end has come
  verdict,   \* match -> winnerSlot of the room's end
  snap,      \* match -> slot -> what handleRoomEnd read of the player
  jobs,      \* the queue "elo": matches
  worker,    \* worker -> the job it has, and whether it is committed
  replays,   \* matches whose replay job is queued
  deaths     \* workers that died so far

vars == <<player, row, room, verdict, snap, jobs, worker, replays, deaths>>
ending == <<row, room, verdict, snap, replays>>

Unread == [elo |-> -1, games |-> -1]
NoRow  == [winner |-> -1, change |-> <<0, 0>>, after |-> <<0, 0>>]

Init ==
  /\ player  = [p \in Players |->
                  [elo |-> Start[p].elo, games |-> Start[p].games, wins |-> 0, losses |-> 0]]
  /\ row     = [m \in Matches |-> NoRow]
  /\ room    = [m \in Matches |-> "open"]
  /\ verdict = [m \in Matches |-> -1]
  /\ snap    = [m \in Matches |-> [s \in Slots |-> Unread]]
  /\ jobs    = <<>>
  /\ worker  = [w \in Workers |-> [job |-> Nobody, committed |-> FALSE]]
  /\ replays = {}
  /\ deaths  = 0

(***************************************************************************)
(* handleRoomEnd.                                                          *)
(***************************************************************************)
RoomEnds(m, s) ==
  /\ room[m] = "open"
  /\ room' = [room EXCEPT ![m] = "ended"]
  /\ verdict' = [verdict EXCEPT ![m] = s]
  /\ UNCHANGED <<player, row, snap, jobs, worker, replays, deaths>>

\* The other slot.
Winner_Swapped(s) == Other(s)

Winner(s) == s

\* match.create needs the rows of both players.
CreateMatch(m) ==
  /\ room[m] = "ended"
  /\ IF \A s \in Slots : Names[m][s] \in Players
     THEN /\ room' = [room EXCEPT ![m] = "reading"]
          /\ row'  = [row EXCEPT ![m].winner = Winner(verdict[m])]
     ELSE /\ room' = [room EXCEPT ![m] = "given up"]
          /\ UNCHANGED row
  /\ UNCHANGED <<player, verdict, snap, jobs, worker, replays, deaths>>

\* The ratings put under each other's names.
ReadPlayer_Crossed(m, s) ==
  /\ room[m] = "reading"
  /\ snap[m][s] = Unread
  /\ snap' = [snap EXCEPT ![m][s] =
                [elo |-> player[Names[m][Other(s)]].elo, games |-> player[Names[m][s]].games]]
  /\ UNCHANGED <<player, row, room, verdict, jobs, worker, replays, deaths>>

\* The two reads, sent together and answered in either order.
ReadPlayer(m, s) ==
  /\ room[m] = "reading"
  /\ snap[m][s] = Unread
  /\ snap' = [snap EXCEPT ![m][s] =
                [elo |-> player[Names[m][s]].elo, games |-> player[Names[m][s]].games]]
  /\ UNCHANGED <<player, row, room, verdict, jobs, worker, replays, deaths>>

AddEloJob(m) ==
  /\ room[m] = "reading"
  /\ \A s \in Slots : snap[m][s] # Unread
  /\ jobs' = Append(jobs, m)
  /\ room' = [room EXCEPT ![m] = "queued"]
  /\ UNCHANGED <<player, row, verdict, snap, worker, replays, deaths>>

\* The replay job put on the queue of the ratings.
AddReplayJob_ToElo(m) ==
  /\ room[m] = "queued"
  /\ jobs' = Append(jobs, m)
  /\ room' = [room EXCEPT ![m] = "persisted"]
  /\ UNCHANGED <<player, row, verdict, snap, replays, worker, deaths>>

AddReplayJob(m) ==
  /\ room[m] = "queued"
  /\ replays' = replays \union {m}
  /\ room' = [room EXCEPT ![m] = "persisted"]
  /\ UNCHANGED <<player, row, verdict, snap, jobs, worker, deaths>>

\* An await rejects, or the relay process dies.
GiveUp(m) ==
  /\ MayFail
  /\ room[m] \in {"ended", "reading", "queued"}
  /\ room' = [room EXCEPT ![m] = "given up"]
  /\ UNCHANGED <<player, row, verdict, snap, jobs, worker, replays, deaths>>

(***************************************************************************)
(* calculateElo.  Math.round rounds halves up.                             *)
(***************************************************************************)
Rounded(n) == (2 * n + SCALE) \div (2 * SCALE)

K(games) == IF games < NewPlayerThreshold THEN KNew ELSE KEstablished

\* e2 is 1 - e1.
ExpectedOf(m, s) ==
  LET e1 == Expected(snap[m][0].elo, snap[m][1].elo) IN IF s = 0 THEN e1 ELSE SCALE - e1

Score(m, s) == IF row[m].winner = s THEN SCALE ELSE 0

Delta(m, s) == Rounded(K(snap[m][s].games) * (Score(m, s) - ExpectedOf(m, s)))

NewElo(m, s) ==
  LET elo == snap[m][s].elo + Delta(m, s) IN IF elo > Floor THEN elo ELSE Floor

(***************************************************************************)
(* The worker.                                                             *)
(***************************************************************************)
TakeJob(w) ==
  /\ worker[w].job = Nobody /\ jobs # <<>>
  /\ worker' = [worker EXCEPT ![w] = [job |-> Head(jobs), committed |-> FALSE]]
  /\ jobs' = Tail(jobs)
  /\ UNCHANGED <<player, ending, deaths>>

One(b) == IF b THEN 1 ELSE 0

\* The losses of player 2 counted as player 1's are.
Lost_Copied(m, s) == row[m].winner = 1
Lost(m, s) == row[m].winner = Other(s)

Updated(m, s) ==
  LET r == player[Names[m][s]] IN
  [elo    |-> NewElo(m, s),
   games  |-> r.games + 1,
   wins   |-> r.wins + One(row[m].winner = s),
   losses |-> r.losses + One(Lost(m, s))]

\* $transaction: both players and the match, or nothing.
Commit(w) ==
  LET m == worker[w].job IN
  /\ m # Nobody /\ ~worker[w].committed
  /\ player' = [p \in Players |->
                  IF p = Names[m][0] THEN Updated(m, 0)
                  ELSE IF p = Names[m][1] THEN Updated(m, 1) ELSE player[p]]
  /\ row' = [row EXCEPT ![m].change = <<Delta(m, 0), Delta(m, 1)>>,
                        ![m].after  = <<NewElo(m, 0), NewElo(m, 1)>>]
  /\ worker' = [worker EXCEPT ![w].committed = TRUE]
  /\ UNCHANGED <<room, verdict, snap, jobs, replays, deaths>>

Release(w) == worker' = [worker EXCEPT ![w] = [job |-> Nobody, committed |-> FALSE]]

Complete(w) ==
  /\ worker[w].job # Nobody /\ worker[w].committed
  /\ Release(w)
  /\ UNCHANGED <<player, ending, jobs, deaths>>

\* The transaction fails; the job is not tried again.
JobFails(w) ==
  /\ MayFail
  /\ worker[w].job # Nobody /\ ~worker[w].committed
  /\ Release(w)
  /\ UNCHANGED <<player, ending, jobs, deaths>>

\* A job found stalled is put back, once.
Redelivered(m) == Append(jobs, m)

WorkerDies(w) ==
  /\ worker[w].job # Nobody
  /\ deaths < MaxDeaths
  /\ deaths' = deaths + 1
  /\ jobs' = Redelivered(worker[w].job)
  /\ Release(w)
  /\ UNCHANGED <<player, ending>>

Persist(m) ==
  \/ CreateMatch(m) \/ AddEloJob(m) \/ AddReplayJob(m)
  \/ \E s \in Slots : ReadPlayer(m, s)

Work(w) == TakeJob(w) \/ Commit(w) \/ Complete(w)

Next ==
  \/ \E m \in Matches, s \in Slots : RoomEnds(m, s)
  \/ \E m \in Matches : Persist(m) \/ GiveUp(m)
  \/ \E w \in Workers : Work(w) \/ JobFails(w) \/ WorkerDies(w)

Spec == Init /\ [][Next]_vars
-------------------------------------------------------------------------------
\* The transaction of m has been committed.
Rated(m) == row[m].after # NoRow.after
Busy(m) == \E w \in Workers : worker[w].job = m

\* The variables keep the shapes their comments give; no rating is below the
\* floor.
TypeOK ==
  /\ player \in [Players -> [elo : Int, games : Nat, wins : Nat, losses : Nat]]
  /\ \A p \in Players : player[p].elo >= Floor
  /\ row \in [Matches -> [winner : Slots \union {-1}, change : Int \X Int, after : Int \X Int]]
  /\ room \in [Matches -> {"open", "ended", "reading", "queued", "persisted", "given up"}]
  /\ verdict \in [Matches -> Slots \union {-1}]
  /\ snap \in [Matches -> [Slots -> [elo : Int, games : Int]]]
  /\ jobs \in Seq(Matches)
  /\ worker \in [Workers -> [job : Matches \union {Nobody}, committed : BOOLEAN]]
  /\ replays \in SUBSET Matches
  /\ deaths \in 0..MaxDeaths

(***************************************************************************)
(* The winner of a rated match is who the relay said had won, across the   *)
(* match row, the job and the worker: that player did not lose points, the *)
(* other did not gain any, and the one that had no more points before has  *)
(* gained some if it won (handleRoomEnd, elo-worker, calculateElo).        *)
(***************************************************************************)
WinnerGains ==
  \A m \in Matches : Rated(m) =>
    LET w == verdict[m]
        before(s) == snap[m][s].elo
    IN /\ row[m].change[w + 1] >= 0 /\ row[m].change[Other(w) + 1] <= 0
       /\ before(w) <= before(Other(w)) => row[m].after[w + 1] > before(w)

\* Wins and losses tell the games of a player apart, and there are as many
\* wins as losses, however often jobs are delivered or fail (one transaction
\* for both players).
GamesAddUp ==
  /\ \A p \in Players : player[p].games = Start[p].games + player[p].wins + player[p].losses
  /\ SumFunctionOnSet([p \in Players |-> player[p].wins], Players) =
       SumFunctionOnSet([p \in Players |-> player[p].losses], Players)

\* The games of the players are those of the rated matches, each counted once,
\* and once more at most for every worker that died over a job (a job delivered
\* again after its transaction counts the match again: worker without a check
\* that the match is rated).
CountedOnce ==
  LET counted == SumFunctionOnSet([p \in Players |-> player[p].games - Start[p].games], Players)
      rated   == Cardinality({m \in Matches : Rated(m)})
  IN 2 * rated <= counted /\ counted <= 2 * (rated + deaths)

(***************************************************************************)
(* "New rating: R' = R + K * (S - E)" (elo.ts:13): a match, when it is     *)
(* rated, moves the rating each player has by its change, and not below    *)
(* the floor, unless that player was rated between the read and the        *)
(* transaction - its games are then no longer those that were read.  Only  *)
(* this overlap is excepted: the job carries the rating of the time its    *)
(* room ended (room-manager.ts:130) and the second of two such jobs undoes *)
(* the first; a match that is read after all earlier ones were rated must  *)
(* build on them, however many they are.                                   *)
(***************************************************************************)
RatingMovesByDelta ==
  [][\A m \in Matches : ~Rated(m) /\ Rated(m)' =>
       \A s \in Slots :
         LET p     == Names[m][s]
             moved == player[p].elo + row'[m].change[s + 1]
         IN player[p].games = snap[m][s].games =>
              player'[p].elo = IF moved > Floor THEN moved ELSE Floor]_vars
===============================================================================
