----------------------------- MODULE DatabaseProofs -----------------------------
(***************************************************************************)
(* Theorems about the two transactions on rows of players: the ratings     *)
(* after a match and the purchases, each for itself.                       *)
(***************************************************************************)
EXTENDS Ratings, Shop, FiniteSetTheorems, WellFoundedInduction, TLAPS

(***************************************************************************)
(* Part 1: sums, as module Functions defines them: by a recursion over     *)
(* sets, about which nothing can be shown by induction here.  Instead, of  *)
(* the sets a statement fails for there is one that is least.              *)
(***************************************************************************)
Pick(s) == CHOOSE x \in s : TRUE

\* h[s] is the sum of f over s, for every part s of A.
IsSum(f, A, h) ==
  \A s \in SUBSET A : h[s] = IF s = {} THEN 0 ELSE f[Pick(s)] + h[s \ {Pick(s)}]

\* Of some parts of a finite set, there is one that is no longer one of them without any of its members.
LEMMA LeastSubset ==
  ASSUME NEW S, IsFiniteSet(S), NEW X \in SUBSET SUBSET S, X # {}
  PROVE  \E T \in X : \A x \in T : T \ {x} \notin X
<1>1. IsWellFoundedOn(StrictSubsetOrdering(S), SUBSET S)
  BY FS_StrictSubsetOrderingWellFounded, FS_FiniteSubsetsOfFinite
<1>2. PICK T \in X : \A y \in X : ~(<<y, T>> \in StrictSubsetOrdering(S))
  BY <1>1, WFMin, Zenon
<1>3. \A x \in T : T \ {x} \subseteq T /\ T \ {x} # T /\ T \ {x} \in SUBSET S /\ T \in SUBSET S
  OBVIOUS
<1>4. \A x \in T : <<T \ {x}, T>> \in StrictSubsetOrdering(S)
  BY <1>3 DEF StrictSubsetOrdering
<1> QED BY <1>2, <1>4

LEMMA PickIn == \A s : s # {} => Pick(s) \in s
BY DEF Pick

\* Two functions that are sums of f agree where both are.
LEMMA SumsAgree ==
  ASSUME NEW S, IsFiniteSet(S), NEW f, NEW A \in SUBSET S, NEW B, NEW g, NEW h,
         IsSum(f, A, g), IsSum(f, B, h), NEW s \in SUBSET A, s \in SUBSET B
  PROVE  g[s] = h[s]
<1> DEFINE X == {t \in SUBSET S : t \subseteq A /\ t \subseteq B /\ g[t] # h[t]}
<1>1. SUFFICES ASSUME X # {} PROVE FALSE
  OBVIOUS
<1>2. PICK T \in X : \A x \in T : T \ {x} \notin X
  <2>1. X \in SUBSET SUBSET S
    OBVIOUS
  <2> HIDE DEF X
  <2> QED BY <1>1, <2>1, LeastSubset
<1>3. T \subseteq A /\ T \subseteq B /\ g[T] # h[T] /\ T \in SUBSET S
  OBVIOUS
<1>4. T # {}
  BY <1>3 DEF IsSum
<1>5. Pick(T) \in T /\ T \ {Pick(T)} \notin X
  BY <1>2, <1>4, PickIn
<1>6. g[T \ {Pick(T)}] = h[T \ {Pick(T)}]
  BY <1>3, <1>5
<1>7. g[T] = f[Pick(T)] + g[T \ {Pick(T)}] /\ h[T] = f[Pick(T)] + h[T \ {Pick(T)}]
  BY <1>3, <1>4 DEF IsSum
<1> QED BY <1>3, <1>6, <1>7

\* The recursion has a solution, so the one that is chosen is one.
LEMMA SumsExist ==
  ASSUME NEW S, IsFiniteSet(S), NEW f
  PROVE  \E h : IsSum(f, S, h)
<1> DEFINE Has(T) == \E h : IsSum(f, T, h)
           X == {T \in SUBSET S : ~Has(T)}
<1>1. SUFFICES ASSUME X # {} PROVE FALSE
  OBVIOUS
<1>2. PICK T \in X : \A x \in T : T \ {x} \notin X
  <2>1. X \in SUBSET SUBSET S
    OBVIOUS
  <2> HIDE DEF X
  <2> QED BY <1>1, <2>1, LeastSubset
<1>3. T \in SUBSET S /\ ~Has(T) /\ \A x \in T : Has(T \ {x})
  BY <1>2
<1> DEFINE G == [x \in T |-> CHOOSE h : IsSum(f, T \ {x}, h)]
<1>4. \A x \in T : IsSum(f, T \ {x}, G[x])
  BY <1>3, Zenon
<1> HIDE DEF G, X
<1>5. T # {}
  <2> DEFINE h == [s \in SUBSET {} |-> 0]
  <2>1. \A s \in SUBSET {} : s = {}
    OBVIOUS
  <2>3. IsSum(f, {}, h)
    BY <2>1 DEF IsSum
  <2> QED BY <1>3, <2>3
<1> DEFINE h == [s \in SUBSET T |-> IF s = T THEN f[Pick(T)] + G[Pick(T)][T \ {Pick(T)}] ELSE G[Pick(T \ s)][s]]
<1>6. \A x \in T : \A s \in SUBSET (T \ {x}) : h[s] = G[x][s]
  <2> SUFFICES ASSUME NEW x \in T, NEW s \in SUBSET (T \ {x}) PROVE h[s] = G[x][s]
    OBVIOUS
  <2>1. s # T /\ s \in SUBSET T /\ T \ s # {}
    OBVIOUS
  <2>2. Pick(T \ s) \in T \ s
    BY <2>1, PickIn
  <2>3. ASSUME NEW y \in T, s \in SUBSET (T \ {y}) PROVE G[y][s] = G[x][s]
    <3> HIDE DEF h
    <3>1. T \ {y} \in SUBSET S /\ s \in SUBSET (T \ {x})
      BY <1>3
    <3>2. IsSum(f, T \ {y}, G[y]) /\ IsSum(f, T \ {x}, G[x])
      BY <1>4
    <3>3. PICK A \in SUBSET S : A = T \ {y}
      BY <3>1
    <3>4. PICK a, b : a = G[y] /\ b = G[x]
      OBVIOUS
    <3>5. IsSum(f, A, a) /\ IsSum(f, T \ {x}, b) /\ s \in SUBSET A
      BY <2>3, <3>2, <3>3, <3>4
    <3>6. a[s] = b[s]
      BY <3>1, <3>5, SumsAgree
    <3> QED BY <3>4, <3>6
  <2>4. G[Pick(T \ s)][s] = G[x][s]
    BY <2>1, <2>2, <2>3
  <2> QED BY <2>1, <2>4
<1>7. ASSUME NEW s \in SUBSET T PROVE h[s] = IF s = {} THEN 0 ELSE f[Pick(s)] + h[s \ {Pick(s)}]
  <2>1. CASE s = T
    <3>1. Pick(T) \in T /\ T \ {Pick(T)} \in SUBSET (T \ {Pick(T)})
      BY <1>5, PickIn
    <3>2. h[T \ {Pick(T)}] = G[Pick(T)][T \ {Pick(T)}]
      BY <1>6, <3>1
    <3>3. h[T] = f[Pick(T)] + G[Pick(T)][T \ {Pick(T)}]
      OBVIOUS
    <3> HIDE DEF h
    <3> QED BY <1>5, <2>1, <3>2, <3>3
  <2>2. CASE s # T
    <3>1. PICK x \in T : x \notin s
      BY <2>2
    <3>2. s \in SUBSET (T \ {x}) /\ s \ {Pick(s)} \in SUBSET (T \ {x})
      BY <3>1
    <3>3. h[s] = G[x][s] /\ h[s \ {Pick(s)}] = G[x][s \ {Pick(s)}]
      BY <1>6, <3>2
    <3> HIDE DEF h
    <3>4. IsSum(f, T \ {x}, G[x])
      BY <1>4, <3>1
    <3>5. \A t \in SUBSET (T \ {x}) : G[x][t] = IF t = {} THEN 0 ELSE f[Pick(t)] + G[x][t \ {Pick(t)}]
      BY <3>4 DEF IsSum
    <3> QED BY <3>2, <3>3, <3>5
  <2> QED BY <2>1, <2>2
<1>8. IsSum(f, T, h)
  <2> HIDE DEF h
  <2> QED BY <1>7 DEF IsSum
<1> QED BY <1>3, <1>8

\* What the fold of the library computes.
\* What SumFunctionOnSet chooses.
LEMMA SumIsSum ==
  ASSUME NEW S, IsFiniteSet(S), NEW f
  PROVE  \E h : IsSum(f, S, h) /\ SumFunctionOnSet(f, S) = h[S]
<1> DEFINE h == CHOOSE g : g = [s \in SUBSET S |-> IF s = {} THEN 0 ELSE f[Pick(s)] + g[s \ {Pick(s)}]]
<1>1. SumFunctionOnSet(f, S) = h[S]
  BY DEF SumFunctionOnSet, FoldFunctionOnSet, MapThenFoldSet, Pick
<1>2. \E g : g = [s \in SUBSET S |-> IF s = {} THEN 0 ELSE f[Pick(s)] + g[s \ {Pick(s)}]]
  <2>1. PICK g : IsSum(f, S, g)
    BY SumsExist
  <2> DEFINE k == [s \in SUBSET S |-> g[s]]
  <2>2. \A s \in SUBSET S : k[s] = IF s = {} THEN 0 ELSE f[Pick(s)] + k[s \ {Pick(s)}]
    BY <2>1 DEF IsSum
  <2>3. k = [s \in SUBSET S |-> k[s]]
    OBVIOUS
  <2> HIDE DEF h, k
  <2>4. k = [s \in SUBSET S |-> IF s = {} THEN 0 ELSE f[Pick(s)] + k[s \ {Pick(s)}]]
    BY <2>2, <2>3
  <2> QED BY <2>4
<1>3. h = [s \in SUBSET S |-> IF s = {} THEN 0 ELSE f[Pick(s)] + h[s \ {Pick(s)}]]
  BY <1>2
<1> HIDE DEF h
<1> QED BY <1>1, <1>3 DEF IsSum

LEMMA SumsAreInt ==
  ASSUME NEW A, IsFiniteSet(A), NEW f, NEW h, IsSum(f, A, h), \A x \in A : f[x] \in Int
  PROVE  \A s \in SUBSET A : h[s] \in Int
<1> DEFINE X == {s \in SUBSET A : h[s] \notin Int}
<1>1. SUFFICES ASSUME X # {} PROVE FALSE
  OBVIOUS
<1>2. PICK T \in X : \A x \in T : T \ {x} \notin X
  <2>1. X \in SUBSET SUBSET A
    OBVIOUS
  <2> HIDE DEF X
  <2> QED BY <1>1, <2>1, LeastSubset
<1>3. T \in SUBSET A /\ h[T] \notin Int /\ \A x \in T : h[T \ {x}] \in Int
  BY <1>2
<1>4. T # {}
  <2>1. h[{}] = 0
    BY DEF IsSum
  <2> QED BY <1>3, <2>1
<1>5. PICK x \in T : x = Pick(T)
  BY <1>4, PickIn
<1>6. h[T] = f[x] + h[T \ {x}]
  BY <1>3, <1>4, <1>5 DEF IsSum
<1> QED BY <1>3, <1>5, <1>6

\* One more member adds its value.
LEMMA SumOfMore ==
  ASSUME NEW S, IsFiniteSet(S), NEW f, NEW y, y \notin S, \A x \in S \union {y} : f[x] \in Int
  PROVE  /\ SumFunctionOnSet(f, S) \in Int
         /\ SumFunctionOnSet(f, S \union {y}) = f[y] + SumFunctionOnSet(f, S)
<1> DEFINE A == S \union {y}
<1>1. IsFiniteSet(A)
  BY FS_AddElement
<1>0. y \in A /\ A \ {y} = S /\ S \in SUBSET A /\ A \in SUBSET A /\ \A x \in A : f[x] \in Int
  OBVIOUS
<1> HIDE DEF A
<1>2. PICK h : IsSum(f, A, h) /\ SumFunctionOnSet(f, A) = h[A]
  BY <1>1, SumIsSum
<1>3. PICK k : IsSum(f, S, k) /\ SumFunctionOnSet(f, S) = k[S]
  BY SumIsSum
<1>4. k[S] = h[S]
  <2>1. S \in SUBSET A /\ A \in SUBSET A /\ S \in SUBSET S
    BY <1>0
  <2> QED BY <1>1, <1>2, <1>3, <2>1, SumsAgree
<1>5. \A s \in SUBSET A : h[s] = IF s = {} THEN 0 ELSE f[Pick(s)] + h[s \ {Pick(s)}]
  BY <1>2 DEF IsSum
<1>6. \A s \in SUBSET A : h[s] \in Int
  BY <1>0, <1>1, <1>2, SumsAreInt
<1> DEFINE Right(s) == \A x \in s : h[s] = f[x] + h[s \ {x}]
           X == {s \in SUBSET A : ~Right(s)}
<1>7. X = {}
  <2> SUFFICES ASSUME X # {} PROVE FALSE
    OBVIOUS
  <2>1. PICK T \in X : \A x \in T : T \ {x} \notin X
    <3>1. X \in SUBSET SUBSET A
      OBVIOUS
    <3> HIDE DEF X
    <3> QED BY <1>1, <3>1, LeastSubset
  <2>2. T \in SUBSET A /\ (\A x \in T : Right(T \ {x})) /\ ~Right(T)
    BY <2>1
  <2>3. PICK z \in T : h[T] # f[z] + h[T \ {z}]
    BY <2>2
  <2>4. PICK x \in T : x = Pick(T)
    BY <2>3, PickIn
  <2>5. h[T] = f[x] + h[T \ {x}] /\ z # x
    BY <1>5, <2>2, <2>3, <2>4
  <2>6. PICK U \in SUBSET A : U = T \ {x, z} /\ U = (T \ {x}) \ {z} /\ U = (T \ {z}) \ {x}
    BY <2>2
  <2>7. h[T \ {x}] = f[z] + h[U]
    BY <2>2, <2>5, <2>6
  <2>8. h[T \ {z}] = f[x] + h[U]
    BY <2>2, <2>5, <2>6
  <2>9. f[x] \in Int /\ f[z] \in Int /\ h[U] \in Int
    BY <1>0, <1>6, <2>2
  <2> QED BY <2>3, <2>5, <2>7, <2>8, <2>9
<1>8. h[A] = f[y] + h[S] /\ h[S] \in Int
  BY <1>0, <1>6, <1>7
<1> QED BY <1>2, <1>3, <1>4, <1>8 DEF A

LEMMA SumIsInt ==
  ASSUME NEW S, IsFiniteSet(S), NEW f, \A x \in S : f[x] \in Int
  PROVE  SumFunctionOnSet(f, S) \in Int
<1>1. PICK h : IsSum(f, S, h) /\ SumFunctionOnSet(f, S) = h[S]
  BY SumIsSum
<1>2. \A s \in SUBSET S : h[s] \in Int
  BY <1>1, SumsAreInt
<1> QED BY <1>1, <1>2

\* Only the values on the set count.
LEMMA SumsEqual ==
  ASSUME NEW S, IsFiniteSet(S), NEW f, NEW g, \A x \in S : g[x] = f[x]
  PROVE  SumFunctionOnSet(g, S) = SumFunctionOnSet(f, S)
<1>1. PICK h : IsSum(f, S, h) /\ SumFunctionOnSet(f, S) = h[S]
  BY SumIsSum
<1>2. PICK k : IsSum(g, S, k) /\ SumFunctionOnSet(g, S) = k[S]
  BY SumIsSum
<1>3. \A s \in SUBSET S : s # {} => g[Pick(s)] = f[Pick(s)]
  BY PickIn
<1>4. IsSum(f, S, k)
  BY <1>2, <1>3 DEF IsSum
<1>5. S \in SUBSET S
  OBVIOUS
<1>6. h[S] = k[S]
  BY <1>1, <1>4, <1>5, SumsAgree
<1> QED BY <1>1, <1>2, <1>6

\* Nothing adds up to nothing.
LEMMA SumOfNone ==
  ASSUME NEW S, IsFiniteSet(S), NEW f, \A x \in S : f[x] = 0
  PROVE  SumFunctionOnSet(f, S) = 0
<1>1. PICK h : IsSum(f, S, h) /\ SumFunctionOnSet(f, S) = h[S]
  BY SumIsSum
<1>2. PICK z : z = [s \in SUBSET S |-> 0]
  OBVIOUS
<1>3. IsSum(f, S, z)
  <2>1. \A s \in SUBSET S : s # {} => f[Pick(s)] = 0
    BY PickIn
  <2>2. \A s \in SUBSET S : z[s] = 0 /\ z[s \ {Pick(s)}] = 0
    BY <1>2
  <2> QED BY <2>1, <2>2 DEF IsSum
<1>4. S \in SUBSET S
  OBVIOUS
<1>5. h[S] = z[S]
  BY <1>1, <1>3, <1>4, SumsAgree
<1> QED BY <1>1, <1>2, <1>5

\* Where one value differs, the sum does as much.
LEMMA SumChanges ==
  ASSUME NEW S, IsFiniteSet(S), NEW f, NEW g, NEW y \in S,
         \A x \in S : f[x] \in Int /\ g[x] \in Int,
         \A x \in S : x # y => g[x] = f[x]
  PROVE  /\ SumFunctionOnSet(f, S) \in Int
         /\ SumFunctionOnSet(g, S) = SumFunctionOnSet(f, S) + (g[y] - f[y])
<1>1. PICK T : T = S \ {y} /\ y \notin T /\ S = T \union {y} /\ IsFiniteSet(T)
  <2> DEFINE T == S \ {y}
  <2>1. IsFiniteSet(T)
    BY FS_RemoveElement
  <2> QED BY <2>1
<1>2. SumFunctionOnSet(g, T) = SumFunctionOnSet(f, T)
  BY <1>1, SumsEqual
<1>3. SumFunctionOnSet(f, T) \in Int /\ SumFunctionOnSet(f, S) = f[y] + SumFunctionOnSet(f, T)
  BY <1>1, SumOfMore
<1>4. SumFunctionOnSet(g, S) = g[y] + SumFunctionOnSet(g, T)
  BY <1>1, SumOfMore
<1> QED BY <1>2, <1>3, <1>4

(***************************************************************************)
(* Part 2: the ratings, for any players, matches, workers and deaths, and  *)
(* any expectation that never favours the lower rating.                    *)
(*                                                                         *)
(* WinnerGains is not inductive: a job must carry what handleRoomEnd read, *)
(* and the match row the winner the room ended with (RowInv, JobInv); a    *)
(* job that is done twice must write the same (RatedInv).  A rating moves  *)
(* by its delta because what a job carries is the present rating as long   *)
(* as the player has as many games as were read with it (Current): every   *)
(* transaction adds one to the games, so that they never return to what    *)
(* they were.                                                              *)
(***************************************************************************)
\* What is used of the curve of elo.ts, expectedScore.
ExpectedSound ==
  \A a, b \in Int :
    /\ Expected(a, b) \in 0..SCALE
    /\ a <= b => 2 * Expected(a, b) <= SCALE
    /\ b <= a => SCALE <= 2 * Expected(a, b)

Read(m) == \A s \in Slots : snap[m][s] # Unread
HasRow(m) == row[m].winner # -1

RowInv ==
  \A m \in Matches :
    /\ room[m] \in {"open", "ended"} => ~HasRow(m)
    /\ room[m] # "open" => verdict[m] \in Slots
    /\ room[m] \in {"reading", "queued", "persisted"} => HasRow(m)
    /\ HasRow(m) => row[m].winner = verdict[m] /\ \A s \in Slots : Names[m][s] \in Players
    /\ \A s \in Slots : snap[m][s] # Unread => HasRow(m)

JobInv ==
  /\ \A i \in 1..Len(jobs) : Read(jobs[i])
  /\ \A w \in Workers : worker[w].job # Nobody => Read(worker[w].job)

RatedInv ==
  \A m \in Matches : Rated(m) =>
    /\ Read(m)
    /\ row[m].change = <<Delta(m, 0), Delta(m, 1)>>
    /\ row[m].after = <<NewElo(m, 0), NewElo(m, 1)>>

\* What was read of a player, r, beside its row now, q.
UpToDate(r, q) == r.games <= q.games /\ (r.games = q.games => r.elo = q.elo)

Current ==
  \A m \in Matches : \A s \in Slots : snap[m][s] # Unread => UpToDate(snap[m][s], player[Names[m][s]])

IInv == TypeOK /\ RowInv /\ JobInv /\ RatedInv /\ Current

-------------------------------------------------------------------------------
(***************************************************************************)
(* calculateElo.                                                           *)
(***************************************************************************)
LEMMA Quotient ==
  ASSUME NEW n \in Int, NEW d \in Nat \ {0}
  PROVE  LET q == n \div d IN q \in Int /\ d * q <= n /\ n < d * q + d
OBVIOUS

LEMMA RoundedFacts ==
  ASSUME NEW n \in Int
  PROVE  /\ Rounded(n) \in Int
         /\ n >= 0 => Rounded(n) >= 0
         /\ n <= 0 => Rounded(n) <= 0
         /\ 2 * n >= SCALE => Rounded(n) >= 1
<1>1. SCALE \in Nat /\ SCALE > 0
  BY RatingsAssumption
<1> DEFINE q == Rounded(n)  d == 2 * SCALE
<1>2. d \in Nat \ {0} /\ 2 * n + SCALE \in Int
  BY <1>1
<1>3. q \in Int /\ d * q <= 2 * n + SCALE /\ 2 * n + SCALE < d * q + d
  BY <1>2, Quotient DEF Rounded
<1> HIDE DEF q
<1>4. ASSUME q <= -1 PROVE d * q + d <= 0
  BY <1>1, <1>3, <1>4
<1>5. ASSUME q >= 1 PROVE d * q >= d
  BY <1>1, <1>3, <1>5
<1>6. n >= 0 => q >= 0
  BY <1>1, <1>3, <1>4
<1>7. n <= 0 => q <= 0
  BY <1>1, <1>3, <1>5
<1>8. ASSUME 2 * n >= SCALE PROVE q >= 1
  <2>1. CASE q = 0
    BY <1>1, <1>3, <1>8, <2>1
  <2>2. CASE q <= -1
    BY <1>1, <1>3, <1>4, <1>8, <2>2
  <2> QED BY <1>3, <2>1, <2>2
<1> QED BY <1>3, <1>6, <1>7, <1>8 DEF q

LEMMA DeltaFacts ==
  ASSUME ExpectedSound, TypeOK, NEW m \in Matches, NEW s \in Slots
  PROVE  /\ Delta(m, s) \in Int /\ NewElo(m, s) \in Int /\ NewElo(m, s) >= Floor
         /\ NewElo(m, s) \in {snap[m][s].elo + Delta(m, s), Floor}
         /\ NewElo(m, s) >= snap[m][s].elo + Delta(m, s)
         /\ row[m].winner = s => Delta(m, s) >= 0
         /\ row[m].winner # s => Delta(m, s) <= 0
         /\ row[m].winner = s /\ snap[m][s].elo <= snap[m][Other(s)].elo => Delta(m, s) >= 1
<1> DEFINE k == K(snap[m][s].games)  e == ExpectedOf(m, s)  n == k * (Score(m, s) - e)
<1>a. s \in {0, 1} /\ Slots = {0, 1} /\ snap[m] \in [Slots -> [elo : Int, games : Int]]
  BY DEF Slots, TypeOK
<1>b. /\ snap[m][0].elo \in Int /\ snap[m][1].elo \in Int
      /\ snap[m][s].elo \in Int /\ snap[m][s].games \in Int
  BY <1>a
<1>c. /\ SCALE \in Nat /\ SCALE > 0 /\ Floor \in Nat
      /\ KNew \in Nat /\ KNew > 0 /\ KEstablished \in Nat /\ KEstablished > 0
  BY RatingsAssumption
<1>0. k \in Nat /\ k >= 1
  BY <1>c DEF K
<1> DEFINE a == snap[m][0].elo  b == snap[m][1].elo  x == Expected(a, b)
<1>d. /\ x \in Int /\ 0 <= x /\ x <= SCALE
      /\ a <= b => 2 * x <= SCALE
      /\ b <= a => SCALE <= 2 * x
  <2>1. a \in Int /\ b \in Int
    BY <1>b
  <2> HIDE DEF a, b
  <2>2. /\ Expected(a, b) \in 0..SCALE
        /\ a <= b => 2 * Expected(a, b) <= SCALE
        /\ b <= a => SCALE <= 2 * Expected(a, b)
    BY <2>1 DEF ExpectedSound
  <2> QED BY <1>c, <2>2
<1>f. e = IF s = 0 THEN x ELSE SCALE - x
  BY DEF ExpectedOf
<1> HIDE DEF x, e
<1>1. e \in Int /\ 0 <= e /\ e <= SCALE
  BY <1>c, <1>d, <1>f
<1>2. snap[m][s].elo <= snap[m][Other(s)].elo => 2 * e <= SCALE
  <2>1. CASE s = 0
    BY <1>b, <1>c, <1>d, <1>f, <2>1 DEF Other
  <2>2. CASE s = 1
    BY <1>b, <1>c, <1>d, <1>f, <2>2 DEF Other
  <2> QED BY <1>a, <2>1, <2>2
<1>3. Score(m, s) \in {0, SCALE} /\ (row[m].winner = s <=> Score(m, s) = SCALE)
  BY <1>c DEF Score
<1> HIDE DEF k
<1>4. n \in Int
  BY <1>0, <1>c, <1>1, <1>3
<1>5. ASSUME row[m].winner = s PROVE n >= 0
  <2>1. SCALE - e >= 0
    BY <1>0, <1>c, <1>1
  <2> QED BY <1>0, <1>c, <1>1, <1>3, <1>5, <2>1
<1>6. ASSUME row[m].winner # s PROVE n <= 0
  <2>1. n = -(k * e)
    BY <1>0, <1>c, <1>1, <1>3, <1>6
  <2>2. k * e >= 0
    BY <1>0, <1>c, <1>1
  <2> QED BY <1>0, <1>c, <1>1, <2>1, <2>2
<1>7. ASSUME row[m].winner = s, 2 * e <= SCALE PROVE 2 * n >= SCALE
  <2> DEFINE y == SCALE - e
  <2>1. y \in Int /\ y >= 0 /\ 2 * y >= SCALE /\ n = k * y
    BY <1>0, <1>c, <1>1, <1>3, <1>7
  <2> HIDE DEF y
  <2>2. k * y >= y
    BY <1>0, <2>1
  <2> QED BY <1>0, <1>c, <1>4, <2>1, <2>2
<1> HIDE DEF n
<1>8. Delta(m, s) = Rounded(n)
  BY DEF Delta, n, k, e
<1>9. /\ Delta(m, s) \in Int
      /\ n >= 0 => Delta(m, s) >= 0
      /\ n <= 0 => Delta(m, s) <= 0
      /\ 2 * n >= SCALE => Delta(m, s) >= 1
  BY <1>4, <1>8, RoundedFacts
<1>10. /\ NewElo(m, s) \in Int /\ NewElo(m, s) >= Floor
       /\ NewElo(m, s) \in {snap[m][s].elo + Delta(m, s), Floor}
       /\ NewElo(m, s) >= snap[m][s].elo + Delta(m, s)
  BY <1>b, <1>c, <1>9 DEF NewElo
<1> QED BY <1>2, <1>5, <1>6, <1>7, <1>9, <1>10

-------------------------------------------------------------------------------
(***************************************************************************)
(* What a step leaves alone.                                               *)
(***************************************************************************)
\* Delta and NewElo are made of what was read and of the winner.
LEMMA DeltaKept ==
  ASSUME NEW m \in Matches, \A t \in Slots : snap'[m][t] = snap[m][t], row'[m].winner = row[m].winner
  PROVE  \A s \in Slots : Delta(m, s)' = Delta(m, s) /\ NewElo(m, s)' = NewElo(m, s)
<1>1. 0 \in Slots /\ 1 \in Slots
  BY DEF Slots
<1>2. \A s \in Slots : ExpectedOf(m, s)' = ExpectedOf(m, s)
  BY <1>1 DEF ExpectedOf
<1>3. \A s \in Slots : Delta(m, s)' = Delta(m, s)
  BY <1>2 DEF Delta, Score
<1> QED BY <1>3 DEF NewElo

\* If a match that was read stays as it is, the jobs and the ratings are about
\* the same things.
LEMMA Same ==
  ASSUME RatedInv, Current, player' = player, row' = row,
         \A m \in Matches : \A s \in Slots : snap[m][s] # Unread => snap'[m][s] = snap[m][s],
         \A m \in Matches : \A s \in Slots : snap[m][s] = Unread /\ snap'[m][s] # Unread =>
           UpToDate(snap'[m][s], player[Names[m][s]])
  PROVE  RatedInv' /\ Current'
<1>1. \A m \in Matches : Rated(m)' = Rated(m)
  BY DEF Rated
<1>3. RatedInv'
  <2> SUFFICES ASSUME NEW m \in Matches, Rated(m)
               PROVE  /\ Read(m)'
                      /\ row'[m].change = <<Delta(m, 0)', Delta(m, 1)'>>
                      /\ row'[m].after = <<NewElo(m, 0)', NewElo(m, 1)'>>
    BY <1>1 DEF RatedInv
  <2>1. Read(m) /\ row[m].change = <<Delta(m, 0), Delta(m, 1)>> /\ row[m].after = <<NewElo(m, 0), NewElo(m, 1)>>
    BY DEF RatedInv
  <2>2. \A t \in Slots : snap'[m][t] = snap[m][t]
    BY <2>1 DEF Read
  <2>3. \A s \in Slots : Delta(m, s)' = Delta(m, s) /\ NewElo(m, s)' = NewElo(m, s)
    BY <2>2, DeltaKept
  <2>4. 0 \in Slots /\ 1 \in Slots
    BY DEF Slots
  <2> QED BY <2>1, <2>2, <2>3, <2>4 DEF Read
<1>4. Current'
  <2> SUFFICES ASSUME NEW m \in Matches, NEW s \in Slots, snap'[m][s] # Unread
               PROVE  UpToDate(snap'[m][s], player[Names[m][s]])
    BY DEF Current
  <2> QED BY DEF Current
<1> QED BY <1>3, <1>4

LEMMA ReadKept ==
  ASSUME NEW m, \A s \in Slots : snap[m][s] # Unread => snap'[m][s] = snap[m][s], Read(m)
  PROVE  Read(m)'
BY DEF Read

\* The jobs that wait and those that are done, when one is added, taken or
\* left.
LEMMA JobsKept ==
  ASSUME TypeOK, JobInv,
         \A m \in Matches : Read(m) => \A s \in Slots : snap'[m][s] # Unread,
         \/ jobs' = jobs
         \/ jobs # <<>> /\ jobs' = Tail(jobs)
         \/ \E m \in Matches : Read(m) /\ jobs' = Append(jobs, m),
         \A w \in Workers : \/ worker'[w].job \in {worker[w].job, Nobody}
                            \/ jobs # <<>> /\ worker'[w].job = Head(jobs)
  PROVE  JobInv' /\ jobs' \in Seq(Matches)
<1>1. jobs \in Seq(Matches) /\ \A w \in Workers : worker[w].job # Nobody => worker[w].job \in Matches
  BY DEF TypeOK
<1>2. \A w \in Workers : worker'[w].job # Nobody => (\A s \in Slots : snap'[worker'[w].job][s] # Unread)
  <2> SUFFICES ASSUME NEW w \in Workers, worker'[w].job # Nobody PROVE \A s \in Slots : snap'[worker'[w].job][s] # Unread
    OBVIOUS
  <2>1. CASE worker'[w].job = worker[w].job
    <3>1. worker[w].job \in Matches /\ Read(worker[w].job)
      BY <1>1, <2>1 DEF JobInv
    <3> QED BY <2>1, <3>1 DEF Read
  <2>2. CASE jobs # <<>> /\ worker'[w].job = Head(jobs)
    <3>1. 1 \in 1..Len(jobs) /\ Head(jobs) = jobs[1] /\ jobs[1] \in Matches
      BY <1>1, <2>2
    <3>2. Read(jobs[1])
      BY <3>1 DEF JobInv
    <3> QED BY <2>2, <3>1, <3>2 DEF Read
  <2> QED BY <2>1, <2>2
<1>3. jobs' \in Seq(Matches) /\ \A i \in 1..Len(jobs') :
        jobs'[i] \in Matches /\ Read(jobs'[i])
  <2>1. CASE jobs' = jobs
    BY <1>1, <2>1 DEF JobInv
  <2>2. CASE jobs # <<>> /\ jobs' = Tail(jobs)
    <3>1. /\ jobs' \in Seq(Matches)
          /\ \A i \in 1..Len(jobs') : i + 1 \in 1..Len(jobs) /\ jobs'[i] = jobs[i + 1]
      BY <1>1, <2>2
    <3> QED BY <1>1, <3>1 DEF JobInv
  <2>3. ASSUME NEW m \in Matches, Read(m), jobs' = Append(jobs, m)
        PROVE  jobs' \in Seq(Matches) /\ \A i \in 1..Len(jobs') : jobs'[i] \in Matches /\ Read(jobs'[i])
    <3>1. /\ jobs' \in Seq(Matches)
          /\ \A i \in 1..Len(jobs') : jobs'[i] = m \/ (i \in 1..Len(jobs) /\ jobs'[i] = jobs[i])
      BY <1>1, <2>3
    <3> QED BY <1>1, <2>3, <3>1 DEF JobInv
  <2> QED BY <2>1, <2>2, <2>3
<1>4. \A i \in 1..Len(jobs') : (\A s \in Slots : snap'[jobs'[i]][s] # Unread)
  <2> SUFFICES ASSUME NEW i \in 1..Len(jobs') PROVE (\A s \in Slots : snap'[jobs'[i]][s] # Unread)
    OBVIOUS
  <2>1. PICK m \in Matches : m = jobs'[i] /\ Read(m)
    BY <1>3
  <2>2. \A s \in Slots : snap'[m][s] # Unread
    BY <2>1
  <2> QED BY <2>1, <2>2
<1> QED BY <1>2, <1>3, <1>4 DEF JobInv, Read

-------------------------------------------------------------------------------
LEMMA InitInv == Init => IInv
<1> SUFFICES ASSUME Init PROVE IInv
  OBVIOUS
<1>1. /\ \A m \in Matches : room[m] = "open" /\ row[m] = NoRow
      /\ \A m \in Matches : \A s \in Slots : snap[m][s] = Unread
      /\ jobs = <<>> /\ \A w \in Workers : worker[w].job = Nobody
  BY DEF Init
<1>2. TypeOK
  <2>1. \A p \in Players :
          Start[p].elo \in Nat /\ Start[p].games \in Nat /\ Start[p].elo >= Floor /\ Floor \in Nat
    BY RatingsAssumption
  <2>2. player \in [Players -> [elo : Int, games : Nat, wins : Nat, losses : Nat]]
    BY <2>1 DEF Init
  <2>3. \A p \in Players : player[p].elo >= Floor
    BY <2>1 DEF Init
  <2>4. NoRow \in [winner : Slots \union {-1}, change : Int \X Int, after : Int \X Int]
    BY DEF NoRow
  <2>5. deaths \in 0..MaxDeaths
    BY RatingsAssumption DEF Init
  <2>6. Unread \in [elo : Int, games : Int]
    BY DEF Unread
  <2> QED BY <2>2, <2>3, <2>4, <2>5, <2>6 DEF Init, TypeOK
<1>3. RowInv /\ JobInv
  BY <1>1 DEF RowInv, JobInv, HasRow, NoRow
<1>4. RatedInv
  BY <1>1 DEF RatedInv, Rated
<1>5. Current
  BY <1>1 DEF Current
<1> QED BY <1>2, <1>3, <1>4, <1>5 DEF IInv

\* Steps that leave players and rows alone, and change how far rooms have come,
\* what was read, or who works on what.
LEMMA RoomEndsKeeps ==
  ASSUME IInv, NEW m \in Matches, NEW s \in Slots, RoomEnds(m, s)
  PROVE  IInv'
<1>1. TypeOK'
  BY DEF RoomEnds, IInv, TypeOK
<1>2. RowInv'
  BY DEF RoomEnds, IInv, TypeOK, RowInv, HasRow
<1>3. JobInv'
  BY DEF RoomEnds, IInv, JobInv, Read
<1>4. RatedInv' /\ Current'
  BY Same DEF RoomEnds, IInv
<1> QED BY <1>1, <1>2, <1>3, <1>4 DEF IInv

LEMMA CreateMatchKeeps ==
  ASSUME IInv, NEW m \in Matches, CreateMatch(m)
  PROVE  IInv'
<1>0. /\ room[m] = "ended" /\ verdict[m] \in Slots /\ row[m].winner = -1
      /\ \A s \in Slots : snap[m][s] = Unread
      /\ ~Rated(m)
      /\ 0 \in Slots
  BY DEF CreateMatch, IInv, RowInv, HasRow, RatedInv, Read, Slots
<1>1. CASE \A s \in Slots : Names[m][s] \in Players
  <2>1. /\ room' = [room EXCEPT ![m] = "reading"] /\ row' = [row EXCEPT ![m].winner = verdict[m]]
        /\ UNCHANGED <<player, verdict, snap, jobs, worker, replays, deaths>>
    BY <1>1 DEF CreateMatch, Winner
  <2>2. TypeOK'
    <3>1. row[m] \in [winner : Slots \union {-1}, change : Int \X Int, after : Int \X Int]
      BY DEF IInv, TypeOK
    <3>2. [row[m] EXCEPT !.winner = verdict[m]]
            \in [winner : Slots \union {-1}, change : Int \X Int, after : Int \X Int]
      BY <1>0, <3>1
    <3>3. row' \in [Matches -> [winner : Slots \union {-1}, change : Int \X Int, after : Int \X Int]]
      BY <2>1, <3>2 DEF IInv, TypeOK
    <3>4. room' \in [Matches -> {"open", "ended", "reading", "queued", "persisted", "given up"}]
      BY <2>1 DEF IInv, TypeOK
    <3> QED BY <2>1, <3>3, <3>4 DEF IInv, TypeOK
  <2>3. row'[m].winner = verdict[m] /\ row'[m].after = row[m].after
    BY <2>1 DEF IInv, TypeOK
  <2>4. \A o \in Matches \ {m} : row'[o] = row[o] /\ room'[o] = room[o]
    BY <2>1 DEF IInv, TypeOK
  <2>5. RowInv'
    <3>1. room'[m] = "reading" /\ verdict[m] # -1
      <4>1. room'[m] = "reading"
        BY <2>1 DEF IInv, TypeOK
      <4> QED BY <1>0, <4>1 DEF Slots
    <3> SUFFICES ASSUME NEW o \in Matches
                 PROVE  /\ room'[o] \in {"open", "ended"} => row'[o].winner = -1
                        /\ room'[o] # "open" => verdict[o] \in Slots
                        /\ room'[o] \in {"reading", "queued", "persisted"} => row'[o].winner # -1
                        /\ row'[o].winner # -1 =>
                             row'[o].winner = verdict[o] /\ \A s \in Slots : Names[o][s] \in Players
                        /\ \A s \in Slots : snap[o][s] # Unread => row'[o].winner # -1
      BY <2>1 DEF RowInv, HasRow
    <3>2. CASE o = m
      BY <1>0, <1>1, <2>3, <3>1, <3>2
    <3>3. CASE o # m
      BY <2>4, <3>3 DEF IInv, RowInv, HasRow
    <3> QED BY <3>2, <3>3
  <2>6. JobInv'
    BY <2>1 DEF IInv, JobInv, Read
  <2>7. \A o \in Matches : Rated(o)' = Rated(o)
    BY <2>3, <2>4 DEF Rated
  <2>8. RatedInv'
    <3> SUFFICES ASSUME NEW o \in Matches, Rated(o)
                 PROVE  /\ Read(o)'
                        /\ row'[o].change = <<Delta(o, 0)', Delta(o, 1)'>>
                        /\ row'[o].after = <<NewElo(o, 0)', NewElo(o, 1)'>>
      BY <2>7 DEF RatedInv
    <3>1. o # m
      BY <1>0
    <3>2. \A s \in Slots : Delta(o, s)' = Delta(o, s) /\ NewElo(o, s)' = NewElo(o, s)
      BY <2>1, <2>4, <3>1, DeltaKept
    <3>3. 0 \in Slots /\ 1 \in Slots
      BY DEF Slots
    <3> QED BY <2>1, <2>4, <3>1, <3>2, <3>3 DEF IInv, RatedInv, Read
  <2>9. Current'
    BY <2>1 DEF IInv, Current
  <2> QED BY <2>2, <2>5, <2>6, <2>8, <2>9 DEF IInv
<1>2. CASE ~\A s \in Slots : Names[m][s] \in Players
  <2>1. room' = [room EXCEPT ![m] = "given up"]
        /\ UNCHANGED <<row, player, verdict, snap, jobs, worker, replays, deaths>>
    BY <1>2 DEF CreateMatch
  <2>2. TypeOK' /\ RowInv'
    BY <1>0, <2>1 DEF IInv, TypeOK, RowInv, HasRow
  <2>3. JobInv'
    BY <2>1 DEF IInv, JobInv, Read
  <2>4. RatedInv' /\ Current'
    BY <2>1, Same DEF IInv
  <2> QED BY <2>2, <2>3, <2>4 DEF IInv
<1> QED BY <1>1, <1>2

LEMMA ReadPlayerKeeps ==
  ASSUME IInv, NEW m \in Matches, NEW s \in Slots, ReadPlayer(m, s)
  PROVE  IInv'
<1> DEFINE p == Names[m][s]  r == [elo |-> player[p].elo, games |-> player[p].games]
<1>0. /\ HasRow(m) /\ p \in Players /\ snap[m][s] = Unread
      /\ snap' = [snap EXCEPT ![m][s] = r]
      /\ UNCHANGED <<player, row, room, verdict, jobs, worker, replays, deaths>>
  BY DEF ReadPlayer, IInv, RowInv
<1>1. /\ r \in [elo : Int, games : Int] /\ r.elo = player[p].elo /\ r.games = player[p].games
      /\ player[p].games \in Nat /\ player[p].elo >= Floor /\ Floor > 0
  <2>1. player[p] \in [elo : Int, games : Nat, wins : Nat, losses : Nat] /\ player[p].elo >= Floor
    BY <1>0 DEF IInv, TypeOK
  <2> QED BY <2>1, RatingsAssumption
<1>2. r # Unread
  BY <1>1, RatingsAssumption DEF Unread
<1> HIDE DEF r
<1>3. snap'[m][s] = r
      /\ \A o \in Matches : \A t \in Slots : <<o, t>> # <<m, s>> => snap'[o][t] = snap[o][t]
  BY <1>0 DEF IInv, TypeOK
<1>4. /\ \A o \in Matches : \A t \in Slots : snap[o][t] # Unread => snap'[o][t] = snap[o][t]
      /\ \A o \in Matches : \A t \in Slots : snap[o][t] = Unread /\ snap'[o][t] # Unread =>
           UpToDate(snap'[o][t], player[Names[o][t]])
  BY <1>0, <1>1, <1>3 DEF UpToDate
<1>5. TypeOK'
  BY <1>0, <1>1 DEF IInv, TypeOK
<1>6. RowInv'
  BY <1>0, <1>3 DEF IInv, RowInv, HasRow
<1>7. JobInv'
  BY <1>0, <1>2, <1>4, JobsKept DEF IInv, Read
<1>8. RatedInv' /\ Current'
  BY <1>0, <1>4, Same DEF IInv
<1> QED BY <1>5, <1>6, <1>7, <1>8 DEF IInv

LEMMA OthersKeep ==
  ASSUME IInv, NEW m \in Matches, AddEloJob(m) \/ AddReplayJob(m) \/ GiveUp(m)
  PROVE  IInv'
<1>0. /\ UNCHANGED <<player, row, verdict, snap, worker, deaths>>
      /\ room[m] \notin {"open"}
      /\ \E x \in {"queued", "persisted", "given up"} :
           /\ room' = [room EXCEPT ![m] = x]
           /\ x # "given up" => room[m] \in {"reading", "queued"}
      /\ replays' \in {replays, replays \union {m}}
      /\ jobs' = jobs \/ (jobs' = Append(jobs, m) /\ Read(m))
  BY DEF AddEloJob, AddReplayJob, GiveUp, Read
<1>1. JobInv' /\ jobs' \in Seq(Matches)
  BY <1>0, JobsKept DEF IInv, Read
<1>2. TypeOK'
  BY <1>0, <1>1 DEF IInv, TypeOK
<1>3. RowInv'
  BY <1>0 DEF IInv, TypeOK, RowInv, HasRow
<1>4. RatedInv' /\ Current'
  BY <1>0, Same DEF IInv
<1> QED BY <1>1, <1>2, <1>3, <1>4 DEF IInv

LEMMA WorkersKeep ==
  ASSUME IInv, NEW w \in Workers, TakeJob(w) \/ Complete(w) \/ JobFails(w) \/ WorkerDies(w)
  PROVE  IInv'
<1>0. /\ UNCHANGED <<player, row, room, verdict, snap, replays>>
      /\ \E j \in {Nobody, Head(jobs)} :
           /\ worker' = [worker EXCEPT ![w] = [job |-> j, committed |-> FALSE]]
           /\ j = Nobody \/ (jobs # <<>> /\ j = Head(jobs))
      /\ \/ jobs' = jobs /\ deaths' = deaths
         \/ jobs # <<>> /\ jobs' = Tail(jobs) /\ deaths' = deaths
         \/ worker[w].job # Nobody /\ jobs' = Append(jobs, worker[w].job)
            /\ deaths < MaxDeaths /\ deaths' = deaths + 1
  BY DEF TakeJob, Complete, JobFails, WorkerDies, Release, Redelivered, ending
<1>a. /\ jobs \in Seq(Matches) /\ deaths \in 0..MaxDeaths /\ MaxDeaths \in Nat
      /\ worker \in [Workers -> [job : Matches \union {Nobody}, committed : BOOLEAN]]
  BY RatingsAssumption DEF IInv, TypeOK
<1>1. jobs # <<>> => Head(jobs) \in Matches
  BY <1>a
<1>2. worker[w].job # Nobody => worker[w].job \in Matches /\ Read(worker[w].job)
  BY DEF IInv, TypeOK, JobInv
<1>3. \A v \in Workers : \/ worker'[v].job \in {worker[v].job, Nobody}
                         \/ jobs # <<>> /\ worker'[v].job = Head(jobs)
  <2>1. PICK j \in {Nobody, Head(jobs)} :
          /\ worker' = [worker EXCEPT ![w] = [job |-> j, committed |-> FALSE]]
          /\ j = Nobody \/ (jobs # <<>> /\ j = Head(jobs))
    BY <1>0
  <2>2. worker'[w].job = j /\ \A v \in Workers \ {w} : worker'[v] = worker[v]
    BY <1>a, <2>1
  <2> QED BY <2>1, <2>2
<1>4. JobInv' /\ jobs' \in Seq(Matches)
  BY <1>0, <1>2, <1>3, JobsKept DEF IInv, Read
<1>5. worker' \in [Workers -> [job : Matches \union {Nobody}, committed : BOOLEAN]]
  <2>1. PICK j \in Matches \union {Nobody} : worker' = [worker EXCEPT ![w] = [job |-> j, committed |-> FALSE]]
    BY <1>0, <1>1
  <2> QED BY <1>a, <2>1
<1>6. deaths' \in 0..MaxDeaths
  BY <1>0, <1>a
<1>7. TypeOK'
  BY <1>0, <1>4, <1>5, <1>6 DEF IInv, TypeOK
<1>8. RowInv'
  BY <1>0 DEF IInv, RowInv, HasRow
<1>9. RatedInv' /\ Current'
  BY <1>0, Same DEF IInv
<1> QED BY <1>4, <1>7, <1>8, <1>9 DEF IInv

\* The transaction of the job of w: what it writes, for players and matches.
LEMMA Committed ==
  ASSUME ExpectedSound, IInv, NEW w \in Workers, Commit(w)
  PROVE  /\ worker[w].job \in Matches /\ Read(worker[w].job)
         /\ \A s \in Slots :
              LET m == worker[w].job  p == Names[m][s] IN
              /\ p \in Players
              /\ player'[p].elo = NewElo(m, s) /\ player'[p].games = player[p].games + 1
              /\ row'[m].change[s + 1] = Delta(m, s)
         /\ \A p \in Players : p \notin {Names[worker[w].job][t] : t \in Slots} => player'[p] = player[p]
         /\ LET m == worker[w].job IN
              /\ row'[m].winner = row[m].winner
              /\ row'[m].change = <<Delta(m, 0), Delta(m, 1)>>
              /\ row'[m].after = <<NewElo(m, 0), NewElo(m, 1)>>
              /\ row'[m].after # NoRow.after
              /\ \A o \in Matches \ {m} : row'[o] = row[o] /\ Rated(o)' = Rated(o)
         /\ UNCHANGED <<room, verdict, snap, jobs, replays, deaths>>
         /\ worker'[w].job = worker[w].job /\ \A v \in Workers : worker'[v].job = worker[v].job
         /\ TypeOK'
<1> DEFINE m == worker[w].job
<1>0. TypeOK /\ 0 \in Slots /\ 1 \in Slots /\ Slots = {0, 1}
  BY DEF IInv, Slots
<1>1. m \in Matches /\ Read(m)
  <2>1. m # Nobody
    BY DEF Commit
  <2> QED BY <1>0, <2>1 DEF IInv, TypeOK, JobInv
<1> DEFINE p1 == Names[m][0]  p2 == Names[m][1]
<1>2. /\ player' = [p \in Players |-> IF p = p1 THEN Updated(m, 0)
                                      ELSE IF p = p2 THEN Updated(m, 1) ELSE player[p]]
      /\ row' = [row EXCEPT ![m].change = <<Delta(m, 0), Delta(m, 1)>>,
                            ![m].after  = <<NewElo(m, 0), NewElo(m, 1)>>]
      /\ worker' = [worker EXCEPT ![w].committed = TRUE]
      /\ UNCHANGED <<room, verdict, snap, jobs, replays, deaths>>
  BY DEF Commit
<1> HIDE DEF m
<1>3. p1 \in Players /\ p2 \in Players /\ p1 # p2
  BY <1>0, <1>1, RatingsAssumption DEF IInv, RowInv, Read
<1>4. \A s \in Slots : /\ Delta(m, s) \in Int /\ NewElo(m, s) \in Int
                       /\ NewElo(m, s) >= Floor /\ Floor \in Nat /\ Floor > 0
  BY <1>0, <1>1, DeltaFacts, RatingsAssumption
<1>5. \A s \in Slots : /\ Updated(m, s).elo = NewElo(m, s)
                       /\ Updated(m, s).games = player[Names[m][s]].games + 1
                       /\ Updated(m, s) \in [elo : Int, games : Nat, wins : Nat, losses : Nat]
  <2> SUFFICES ASSUME NEW s \in Slots
               PROVE  /\ Updated(m, s).elo = NewElo(m, s)
                      /\ Updated(m, s).games = player[Names[m][s]].games + 1
                      /\ Updated(m, s) \in [elo : Int, games : Nat, wins : Nat, losses : Nat]
    OBVIOUS
  <2>1. Names[m][s] \in Players
    BY <1>0, <1>3
  <2>2. player[Names[m][s]] \in [elo : Int, games : Nat, wins : Nat, losses : Nat]
    BY <1>0, <2>1 DEF TypeOK
  <2>3. \A b \in BOOLEAN : One(b) \in Nat
    BY DEF One
  <2>4. One(row[m].winner = s) \in Nat /\ One(Lost(m, s)) \in Nat
    BY <2>3 DEF Lost
  <2> QED BY <1>4, <2>2, <2>4 DEF Updated
<1>6. /\ player'[p1] = Updated(m, 0) /\ player'[p2] = Updated(m, 1)
      /\ \A p \in Players \ {p1, p2} : player'[p] = player[p]
  BY <1>2, <1>3
<1>7. \A p \in Players : p \notin {Names[m][t] : t \in Slots} => player'[p] = player[p]
  BY <1>0, <1>6
<1>8. /\ row[m] \in [winner : Slots \union {-1}, change : Int \X Int, after : Int \X Int]
      /\ row \in [Matches -> [winner : Slots \union {-1}, change : Int \X Int, after : Int \X Int]]
  BY <1>0, <1>1 DEF TypeOK
<1>9. /\ row'[m].winner = row[m].winner
      /\ row'[m].change = <<Delta(m, 0), Delta(m, 1)>>
      /\ row'[m].after = <<NewElo(m, 0), NewElo(m, 1)>>
      /\ \A o \in Matches \ {m} : row'[o] = row[o]
  BY <1>1, <1>2, <1>8
<1>10. \A s \in Slots : row'[m].change[s + 1] = Delta(m, s)
  BY <1>0, <1>9
<1>11. row'[m].after # NoRow.after
  <2>1. NewElo(m, 0) # 0
    BY <1>0, <1>4
  <2>2. row'[m].after[1] = NewElo(m, 0) /\ NoRow.after[1] = 0
    BY <1>9 DEF NoRow
  <2> QED BY <2>1, <2>2
<1>12. \A o \in Matches \ {m} : Rated(o)' = Rated(o)
  BY <1>9 DEF Rated
<1>13. worker' \in [Workers -> [job : Matches \union {Nobody}, committed : BOOLEAN]]
       /\ \A v \in Workers : worker'[v].job = worker[v].job
  <2>1. worker \in [Workers -> [job : Matches \union {Nobody}, committed : BOOLEAN]]
    BY <1>0 DEF TypeOK
  <2> QED BY <1>2, <2>1
<1>14. TypeOK'
  <2>1. player' \in [Players -> [elo : Int, games : Nat, wins : Nat, losses : Nat]]
    BY <1>0, <1>2, <1>5 DEF TypeOK
  <2>2. \A p \in Players : player'[p].elo >= Floor
    <3>1. Updated(m, 0).elo >= Floor /\ Updated(m, 1).elo >= Floor
      BY <1>0, <1>4, <1>5
    <3>2. \A p \in Players \ {p1, p2} : player'[p].elo >= Floor
      BY <1>0, <1>6 DEF TypeOK
    <3> QED BY <1>3, <1>6, <3>1, <3>2
  <2>3. /\ <<Delta(m, 0), Delta(m, 1)>> \in Int \X Int
        /\ <<NewElo(m, 0), NewElo(m, 1)>> \in Int \X Int
    BY <1>0, <1>4
  <2>4. row' \in [Matches -> [winner : Slots \union {-1}, change : Int \X Int, after : Int \X Int]]
    BY <1>1, <1>2, <1>8, <2>3
  <2> QED BY <1>0, <1>2, <1>13, <2>1, <2>2, <2>4 DEF TypeOK
<1>15. \A s \in Slots : /\ Names[m][s] \in Players /\ player'[Names[m][s]].elo = NewElo(m, s)
                        /\ player'[Names[m][s]].games = player[Names[m][s]].games + 1
  BY <1>0, <1>3, <1>5, <1>6
<1> QED BY <1>1, <1>2, <1>7, <1>9, <1>10, <1>11, <1>12, <1>13, <1>14, <1>15 DEF m

LEMMA CommitKeeps ==
  ASSUME ExpectedSound, IInv, NEW w \in Workers, Commit(w)
  PROVE  IInv'
<1> DEFINE m == worker[w].job
<1>1. /\ m \in Matches /\ Read(m) /\ TypeOK'
      /\ \A p \in Players : p \notin {Names[m][t] : t \in Slots} => player'[p] = player[p]
      /\ row'[m].winner = row[m].winner
      /\ row'[m].change = <<Delta(m, 0), Delta(m, 1)>>
      /\ row'[m].after = <<NewElo(m, 0), NewElo(m, 1)>>
      /\ row'[m].after # NoRow.after
      /\ \A o \in Matches \ {m} : row'[o] = row[o] /\ Rated(o)' = Rated(o)
      /\ UNCHANGED <<room, verdict, snap, jobs, replays, deaths>>
      /\ \A v \in Workers : worker'[v].job = worker[v].job
  BY Committed
<1> HIDE DEF m
<1>2. \A o \in Matches : row'[o].winner = row[o].winner
  BY <1>1
<1>3. RowInv'
  BY <1>1, <1>2 DEF IInv, RowInv, HasRow
<1>4. JobInv'
  BY <1>1 DEF IInv, JobInv, Read
<1>5. \A o \in Matches : \A s \in Slots : Delta(o, s)' = Delta(o, s) /\ NewElo(o, s)' = NewElo(o, s)
  BY <1>1, <1>2, DeltaKept
<1>6. RatedInv'
  <2> SUFFICES ASSUME NEW o \in Matches, Rated(o)'
               PROVE  /\ Read(o)'
                      /\ row'[o].change = <<Delta(o, 0)', Delta(o, 1)'>>
                      /\ row'[o].after = <<NewElo(o, 0)', NewElo(o, 1)'>>
    BY DEF RatedInv
  <2>1. /\ Delta(o, 0)' = Delta(o, 0) /\ Delta(o, 1)' = Delta(o, 1)
        /\ NewElo(o, 0)' = NewElo(o, 0) /\ NewElo(o, 1)' = NewElo(o, 1)
    BY <1>5 DEF Slots
  <2>2. CASE o = m
    BY <1>1, <2>1, <2>2 DEF Read
  <2>3. CASE o # m
    BY <1>1, <2>1, <2>3 DEF IInv, RatedInv, Read
  <2> QED BY <2>2, <2>3
<1>7. Current'
  <2> SUFFICES ASSUME NEW o \in Matches, NEW s \in Slots, snap[o][s] # Unread
               PROVE  UpToDate(snap[o][s], player'[Names[o][s]])
    BY <1>1 DEF Current
  <2> DEFINE p == Names[o][s]  r == snap[o][s]
  <2>1. UpToDate(r, player[p])
    BY DEF IInv, Current
  <2>2. p \in Players /\ r \in [elo : Int, games : Int] /\ player[p].games \in Nat
    <3>1. HasRow(o) /\ TypeOK
      BY DEF IInv, RowInv
    <3>2. p \in Players
      BY <3>1 DEF IInv, RowInv
    <3>3. player[p] \in [elo : Int, games : Nat, wins : Nat, losses : Nat]
      BY <3>1, <3>2 DEF TypeOK
    <3>4. snap[o] \in [Slots -> [elo : Int, games : Int]]
      BY <3>1 DEF TypeOK
    <3> QED BY <3>2, <3>3, <3>4
  <2>3. CASE p \in {Names[m][t] : t \in Slots}
    <3>1. player'[p].games = player[p].games + 1
      BY <2>3, Committed DEF m
    <3> HIDE DEF p, r
    <3>2. r.games \in Int /\ r.games <= player[p].games
      BY <2>1, <2>2 DEF UpToDate
    <3>3. r.games < player'[p].games
      BY <2>2, <3>1, <3>2
    <3>4. r.games <= player'[p].games /\ r.games # player'[p].games
      BY <2>2, <3>1, <3>2, <3>3
    <3>5. UpToDate(r, player'[p])
      BY <3>4 DEF UpToDate
    <3> QED BY <3>5 DEF p, r
  <2>4. CASE p \notin {Names[m][t] : t \in Slots}
    BY <1>1, <2>1, <2>2, <2>4
  <2> QED BY <2>3, <2>4
<1> QED BY <1>1, <1>3, <1>4, <1>6, <1>7 DEF IInv

LEMMA StepKeepsInv == ASSUME ExpectedSound PROVE IInv /\ [Next]_vars => IInv'
<1> SUFFICES ASSUME IInv, [Next]_vars PROVE IInv'
  OBVIOUS
<1>1. CASE UNCHANGED vars
  <2>1. /\ UNCHANGED <<player, row, room, verdict, snap, jobs, worker, replays, deaths>>
    BY <1>1 DEF vars
  <2>2. RatedInv' /\ Current'
    BY <2>1, Same DEF IInv
  <2> QED BY <2>1, <2>2 DEF IInv, TypeOK, RowInv, HasRow, JobInv, Read
<1> QED BY <1>1, RoomEndsKeeps, CreateMatchKeeps, ReadPlayerKeeps, OthersKeep, WorkersKeep, CommitKeeps
        DEF Next, Persist, Work

LEMMA AlwaysInv == ASSUME ExpectedSound PROVE Spec => []IInv
BY InitInv, StepKeepsInv, PTL DEF Spec

\* Every reachable state of the ratings is well typed, and no rating falls below
\* the floor (calculateElo, the transaction of the worker).
THEOREM TypeCorrect == ASSUME ExpectedSound PROVE Spec => []TypeOK
<1>1. IInv => TypeOK
  BY DEF IInv
<1> QED BY <1>1, AlwaysInv, PTL

\* Whoever the relay says has won does not lose points, and gains some when it
\* had no more before, for any matches, failures and jobs that are done twice.
THEOREM WinnerGainsAlways == ASSUME ExpectedSound PROVE Spec => []WinnerGains
<1>1. IInv => WinnerGains
  <2> SUFFICES ASSUME IInv, NEW m \in Matches, Rated(m)
               PROVE  LET w == verdict[m]
                          before(s) == snap[m][s].elo
                      IN /\ row[m].change[w + 1] >= 0 /\ row[m].change[Other(w) + 1] <= 0
                         /\ before(w) <= before(Other(w)) => row[m].after[w + 1] > before(w)
    BY DEF WinnerGains
  <2> DEFINE w == verdict[m]  l == Other(w)
  <2>1. /\ Slots = {0, 1} /\ row[m].change = <<Delta(m, 0), Delta(m, 1)>>
        /\ row[m].after = <<NewElo(m, 0), NewElo(m, 1)>>
        /\ HasRow(m) /\ row[m].winner = w /\ TypeOK
    BY DEF IInv, RatedInv, RowInv, Read, Slots
  <2>2. w \in Slots /\ l \in Slots /\ l # w
    <3>1. row[m] \in [winner : Slots \union {-1}, change : Int \X Int, after : Int \X Int]
      BY DEF IInv, TypeOK
    <3>2. w \in {0, 1}
      BY <2>1, <3>1 DEF HasRow
    <3> QED BY <2>1, <3>2 DEF Other
  <2> HIDE DEF w, l
  <2>3. /\ row[m].change[w + 1] = Delta(m, w) /\ row[m].change[l + 1] = Delta(m, l)
        /\ row[m].after[w + 1] = NewElo(m, w)
    BY <2>1, <2>2
  <2>4. Delta(m, w) >= 0 /\ Delta(m, l) <= 0
    BY <2>1, <2>2, DeltaFacts
  <2>5. ASSUME snap[m][w].elo <= snap[m][l].elo PROVE NewElo(m, w) > snap[m][w].elo
    <3>1. /\ Delta(m, w) >= 1 /\ Delta(m, w) \in Int /\ NewElo(m, w) \in Int
          /\ NewElo(m, w) >= snap[m][w].elo + Delta(m, w)
      BY <2>1, <2>2, <2>5, DeltaFacts DEF l
    <3>2. snap[m][w].elo \in Int
      <4>1. snap[m] \in [Slots -> [elo : Int, games : Int]]
        BY <2>1 DEF TypeOK
      <4> QED BY <2>2, <4>1
    <3> QED BY <3>1, <3>2
  <2> QED BY <2>3, <2>4, <2>5 DEF w, l
<1> QED BY <1>1, AlwaysInv, PTL

\* Only a transaction rates a match.
LEMMA RatedKept ==
  ASSUME IInv, [Next]_vars, \A w \in Workers : ~Commit(w)
  PROVE  \A m \in Matches : row'[m].after = row[m].after
<1>1. \A k, m \in Matches : CreateMatch(k) => row'[m].after = row[m].after
  <2> SUFFICES ASSUME NEW k \in Matches, NEW m \in Matches, CreateMatch(k) PROVE row'[m].after = row[m].after
    OBVIOUS
  <2>1. /\ row[m] \in [winner : Slots \union {-1}, change : Int \X Int, after : Int \X Int]
        /\ row \in [Matches -> [winner : Slots \union {-1}, change : Int \X Int, after : Int \X Int]]
    BY DEF IInv, TypeOK
  <2>2. row' = row \/ row' = [row EXCEPT ![k].winner = Winner(verdict[k])]
    BY DEF CreateMatch
  <2> QED BY <2>1, <2>2
<1> QED BY <1>1 DEF Next, Persist, Work, RoomEnds, ReadPlayer, AddEloJob, AddReplayJob, GiveUp,
                    TakeJob, Complete, JobFails, WorkerDies, ending, vars

\* When a match is rated, it moves both ratings by its change, and not below the
\* floor, except that of a player who was rated between the read of its row and
\* the transaction (elo-worker.ts writes what the job carries), for any number
\* of matches before it.
THEOREM RatingMovesByDeltaAlways == ASSUME ExpectedSound PROVE Spec => RatingMovesByDelta
<1> DEFINE Moved(m) ==
      \A s \in Slots :
        LET p     == Names[m][s]
            moved == player[p].elo + row'[m].change[s + 1]
        IN player[p].games = snap[m][s].games =>
             player'[p].elo = IF moved > Floor THEN moved ELSE Floor
<1>1. IInv /\ [Next]_vars => [\A m \in Matches : ~Rated(m) /\ Rated(m)' => Moved(m)]_vars
  <2> SUFFICES ASSUME IInv, Next, NEW m \in Matches, ~Rated(m), Rated(m)' PROVE Moved(m)
    OBVIOUS
  <2>1. row'[m].after # row[m].after
    BY DEF Rated
  <2>2. PICK w \in Workers : Commit(w)
    BY <2>1, RatedKept
  <2>3. worker[w].job = m
    BY <2>1, <2>2, Committed
  <2>4. /\ Read(m)
        /\ \A s \in Slots : player'[Names[m][s]].elo = NewElo(m, s) /\ row'[m].change[s + 1] = Delta(m, s)
    BY <2>2, <2>3, Committed
  <2> SUFFICES ASSUME NEW s \in Slots, player[Names[m][s]].games = snap[m][s].games
               PROVE  LET moved == player[Names[m][s]].elo + row'[m].change[s + 1]
                      IN player'[Names[m][s]].elo = IF moved > Floor THEN moved ELSE Floor
    OBVIOUS
  <2>5. snap[m][s].elo = player[Names[m][s]].elo
    BY <2>4 DEF IInv, Current, Read, UpToDate
  <2> QED BY <2>4, <2>5 DEF NewElo
<1> QED BY <1>1, AlwaysInv, PTL DEF Spec, RatingMovesByDelta

-------------------------------------------------------------------------------
(***************************************************************************)
(* The games.  A job that is done twice counts its match twice: there is   *)
(* one copy of a job at a time (Single), and every copy that is still to   *)
(* be done of a match that is already rated was paid for by a death.       *)
(***************************************************************************)
Queued(m) == \E i \in 1..Len(jobs) : jobs[i] = m
Undone(m) == Queued(m) \/ \E w \in Workers : worker[w].job = m /\ ~worker[w].committed

\* There is one copy of a job, in the queue or with one worker.
Single ==
  /\ \A i, j \in 1..Len(jobs) : jobs[i] = jobs[j] => i = j
  /\ \A w, v \in Workers : worker[w].job = worker[v].job /\ worker[w].job # Nobody => w = v
  /\ \A w \in Workers : ~Queued(worker[w].job)

\* What has a job, or had one, is a match whose room has ended and made it.
RoomIsOver ==
  \A m \in Matches : Queued(m) \/ Busy(m) \/ Rated(m) => room[m] \in {"queued", "persisted", "given up"}

\* The matches that are rated, those of them that will be rated once more, and
\* all the games that were counted.
Done == {m \in Matches : Rated(m)}
Again == {m \in Done : Undone(m)}
Counted == SumFunctionOnSet([p \in Players |-> player[p].games - Start[p].games], Players)

CountInv ==
  /\ 2 * Cardinality(Done) <= Counted
  /\ Counted + 2 * Cardinality(Again) <= 2 * (Cardinality(Done) + deaths)

LEMMA DoneFinite == /\ IsFiniteSet(Done) /\ IsFiniteSet(Again)
                    /\ Cardinality(Done) \in Nat /\ Cardinality(Again) \in Nat
<1>1. Done \subseteq Matches /\ Again \subseteq Matches
  BY DEF Done, Again
<1> QED BY <1>1, RatingsAssumption, FS_Subset, FS_CardinalityType

\* A transaction counts one game for both, a win for one and a loss for the other.
LEMMA CommitCounts ==
  ASSUME ExpectedSound, IInv, NEW w \in Workers, Commit(w)
  PROVE  \E p, q \in Players :
           /\ p # q
           /\ player'[p].games = player[p].games + 1 /\ player'[q].games = player[q].games + 1
           /\ player'[p].wins = player[p].wins + 1 /\ player'[q].wins = player[q].wins
           /\ player'[q].losses = player[q].losses + 1 /\ player'[p].losses = player[p].losses
           /\ \A o \in Players \ {p, q} : player'[o] = player[o]
<1> PICK m \in Matches : m = worker[w].job
  BY Committed
<1>1. /\ Read(m)
      /\ player' = [p \in Players |->
                      IF p = Names[m][0] THEN Updated(m, 0)
                      ELSE IF p = Names[m][1] THEN Updated(m, 1) ELSE player[p]]
  BY Committed DEF Commit
<1>2. Slots = {0, 1}
  BY DEF Slots
<1>3. row[m].winner \in {0, 1} /\ Names[m][0] \in Players /\ Names[m][1] \in Players
  <2>1. HasRow(m) /\ (\A s \in Slots : Names[m][s] \in Players)
    BY <1>1, <1>2 DEF IInv, RowInv, Read
  <2>2. row[m].winner \in {0, 1, -1}
    BY <1>2 DEF IInv, TypeOK
  <2> QED BY <1>2, <2>1, <2>2 DEF HasRow
<1>4. Names[m][0] # Names[m][1]
  BY RatingsAssumption
<1> DEFINE a == Names[m][0]  b == Names[m][1]
<1>5. /\ player'[a] = Updated(m, 0) /\ player'[b] = Updated(m, 1)
      /\ \A o \in Players \ {a, b} : player'[o] = player[o]
  BY <1>1, <1>3, <1>4
<1>6. /\ player[a] \in [elo : Int, games : Nat, wins : Nat, losses : Nat]
      /\ player[b] \in [elo : Int, games : Nat, wins : Nat, losses : Nat]
  BY <1>3 DEF IInv, TypeOK
<1>7. CASE row[m].winner = 0
  <2>1. One(row[m].winner = 0) = 1 /\ One(row[m].winner = 1) = 0 /\ One(Lost(m, 0)) = 0 /\ One(Lost(m, 1)) = 1
    BY <1>7 DEF One, Lost, Other
  <2>2. /\ player'[a].games = player[a].games + 1 /\ player'[b].games = player[b].games + 1
        /\ player'[a].wins = player[a].wins + 1 /\ player'[b].wins = player[b].wins
        /\ player'[b].losses = player[b].losses + 1 /\ player'[a].losses = player[a].losses
    BY <1>5, <1>6, <2>1 DEF Updated
  <2> QED BY <1>3, <1>4, <1>5, <2>2
<1>8. CASE row[m].winner = 1
  <2>1. One(row[m].winner = 0) = 0 /\ One(row[m].winner = 1) = 1 /\ One(Lost(m, 0)) = 1 /\ One(Lost(m, 1)) = 0
    BY <1>8 DEF One, Lost, Other
  <2>2. /\ player'[a].games = player[a].games + 1 /\ player'[b].games = player[b].games + 1
        /\ player'[b].wins = player[b].wins + 1 /\ player'[a].wins = player[a].wins
        /\ player'[a].losses = player[a].losses + 1 /\ player'[b].losses = player[b].losses
    BY <1>5, <1>6, <2>1 DEF Updated
  <2> QED BY <1>3, <1>4, <1>5, <2>2
<1> QED BY <1>3, <1>7, <1>8

LEMMA OnlyCommitCounts ==
  ASSUME [Next]_vars, \A w \in Workers : ~Commit(w)
  PROVE  player' = player
BY DEF Next, Persist, Work, RoomEnds, CreateMatch, ReadPlayer, AddEloJob, AddReplayJob, GiveUp,
       TakeJob, Complete, JobFails, WorkerDies, vars

\* Wins and losses add up, for every player and over all of them, however often
\* jobs are delivered, done twice or lost (elo-worker.ts, the transaction).
THEOREM GamesAddUpAlways == ASSUME ExpectedSound PROVE Spec => []GamesAddUp
<1> DEFINE wins == [p \in Players |-> player[p].wins]
           losses == [p \in Players |-> player[p].losses]
<1>1. Init => GamesAddUp
  <2> SUFFICES ASSUME Init PROVE GamesAddUp
    OBVIOUS
  <2>1. \A p \in Players : /\ player[p].wins = 0 /\ player[p].losses = 0
                           /\ player[p].games = Start[p].games /\ Start[p].games \in Nat
    BY RatingsAssumption DEF Init
  <2>2. \A p \in Players : wins[p] = 0 /\ losses[p] = 0
    BY <2>1
  <2>3. SumFunctionOnSet(wins, Players) = 0 /\ SumFunctionOnSet(losses, Players) = 0
    <3> HIDE DEF wins, losses
    <3> QED BY <2>2, RatingsAssumption, SumOfNone
  <2> QED BY <2>1, <2>3 DEF GamesAddUp
<1>2. IInv /\ GamesAddUp /\ [Next]_vars => GamesAddUp'
  <2> SUFFICES ASSUME IInv, GamesAddUp, [Next]_vars PROVE GamesAddUp'
    OBVIOUS
  <2>1. CASE \A w \in Workers : ~Commit(w)
    BY <2>1, OnlyCommitCounts DEF GamesAddUp
  <2>2. ASSUME NEW w \in Workers, Commit(w) PROVE GamesAddUp'
    <3>1. PICK p, q \in Players :
            /\ p # q
            /\ player'[p].games = player[p].games + 1 /\ player'[q].games = player[q].games + 1
            /\ player'[p].wins = player[p].wins + 1 /\ player'[q].wins = player[q].wins
            /\ player'[q].losses = player[q].losses + 1 /\ player'[p].losses = player[p].losses
            /\ \A o \in Players \ {p, q} : player'[o] = player[o]
      BY <2>2, CommitCounts
    <3>2. \A o \in Players : /\ player[o] \in [elo : Int, games : Nat, wins : Nat, losses : Nat]
                             /\ player[o].wins \in Int /\ player[o].losses \in Int
      <4>1. \A o \in Players : player[o] \in [elo : Int, games : Nat, wins : Nat, losses : Nat]
        BY DEF IInv, TypeOK
      <4> QED BY <4>1
    <3>3. \A o \in Players : Start[o].games \in Nat
      BY RatingsAssumption
    <3>4. \A o \in Players : player'[o].games = Start[o].games + player'[o].wins + player'[o].losses
      <4> SUFFICES ASSUME NEW o \in Players
                   PROVE  player'[o].games = Start[o].games + player'[o].wins + player'[o].losses
        OBVIOUS
      <4>1. player[o].games = Start[o].games + player[o].wins + player[o].losses
        BY DEF GamesAddUp
      <4>2. CASE o = p
        BY <3>1, <3>2, <3>3, <4>1, <4>2
      <4>3. CASE o = q
        BY <3>1, <3>2, <3>3, <4>1, <4>3
      <4>4. CASE o \notin {p, q}
        BY <3>1, <4>1, <4>4
      <4> QED BY <4>2, <4>3, <4>4
    <3>5. PICK f, g : f = wins /\ g = wins'
      OBVIOUS
    <3>6. PICK k, l : k = losses /\ l = losses'
      OBVIOUS
    <3>7. \A o \in Players : /\ f[o] \in Int /\ g[o] \in Int /\ g[o] = f[o] + (IF o = p THEN 1 ELSE 0)
                             /\ k[o] \in Int /\ l[o] \in Int /\ l[o] = k[o] + (IF o = q THEN 1 ELSE 0)
      <4> SUFFICES ASSUME NEW o \in Players
                   PROVE  /\ f[o] \in Int /\ g[o] \in Int /\ g[o] = f[o] + (IF o = p THEN 1 ELSE 0)
                          /\ k[o] \in Int /\ l[o] \in Int /\ l[o] = k[o] + (IF o = q THEN 1 ELSE 0)
        OBVIOUS
      <4>1. f[o] = player[o].wins /\ g[o] = player'[o].wins /\ k[o] = player[o].losses /\ l[o] = player'[o].losses
        BY <3>5, <3>6
      <4>2. player[o].wins \in Int /\ player[o].losses \in Int
        BY <3>2
      <4> HIDE DEF wins, losses
      <4>3. CASE o = p
        BY <3>1, <4>1, <4>2, <4>3
      <4>4. CASE o = q
        BY <3>1, <4>1, <4>2, <4>4
      <4>5. CASE o \notin {p, q}
        BY <3>1, <4>1, <4>2, <4>5
      <4> QED BY <4>3, <4>4, <4>5
    <3>a. IsFiniteSet(Players)
      BY RatingsAssumption
    <3>8. (\A o \in Players : f[o] \in Int /\ g[o] \in Int)
      BY <3>7
    <3>9. (\A o \in Players : k[o] \in Int /\ l[o] \in Int)
      BY <3>7
    <3>10. SumFunctionOnSet(g, Players) = SumFunctionOnSet(f, Players) + 1
      <4>1. (\A o \in Players : o # p => g[o] = f[o]) /\ g[p] - f[p] = 1
        BY <3>7
      <4>2. SumFunctionOnSet(g, Players) = SumFunctionOnSet(f, Players) + (g[p] - f[p])
        BY <3>a, <3>8, <4>1, SumChanges
      <4> QED BY <4>1, <4>2
    <3>11. SumFunctionOnSet(l, Players) = SumFunctionOnSet(k, Players) + 1
      <4>1. (\A o \in Players : o # q => l[o] = k[o]) /\ l[q] - k[q] = 1
        BY <3>7
      <4>2. SumFunctionOnSet(l, Players) = SumFunctionOnSet(k, Players) + (l[q] - k[q])
        BY <3>a, <3>9, <4>1, SumChanges
      <4> QED BY <4>1, <4>2
    <3>12. SumFunctionOnSet(f, Players) = SumFunctionOnSet(k, Players)
      BY <3>5, <3>6 DEF GamesAddUp
    <3>13. SumFunctionOnSet(wins', Players) = SumFunctionOnSet(losses', Players)
      BY <3>5, <3>6, <3>10, <3>11, <3>12
    <3> QED BY <3>4, <3>13 DEF GamesAddUp
  <2> QED BY <2>1, <2>2
<1> QED BY <1>1, <1>2, AlwaysInv, PTL DEF Spec

LEMMA JobAdded ==
  ASSUME NEW m \in Matches, jobs \in Seq(Matches), jobs' = Append(jobs, m)
  PROVE  /\ Len(jobs) \in Nat /\ Len(jobs') = Len(jobs) + 1
         /\ \A i \in 1..Len(jobs) : jobs'[i] = jobs[i]
         /\ jobs'[Len(jobs) + 1] = m
         /\ \A x : Queued(x)' <=> Queued(x) \/ x = m
<1>1. /\ Len(jobs) \in Nat /\ Len(jobs') = Len(jobs) + 1
      /\ \A i \in 1..Len(jobs) : jobs'[i] = jobs[i]
      /\ jobs'[Len(jobs) + 1] = m
  OBVIOUS
<1>2. ASSUME NEW x PROVE (\E i \in 1..Len(jobs') : jobs'[i] = x) <=> (\E i \in 1..Len(jobs) : jobs[i] = x) \/ x = m
  BY <1>1
<1> QED BY <1>1, <1>2 DEF Queued

LEMMA JobTaken ==
  ASSUME jobs \in Seq(Matches), jobs # <<>>, jobs' = Tail(jobs), Single
  PROVE  /\ Len(jobs') \in Nat /\ Len(jobs) = Len(jobs') + 1
         /\ \A i \in 1..Len(jobs') : i + 1 \in 1..Len(jobs) /\ jobs'[i] = jobs[i + 1]
         /\ Head(jobs) \in Matches /\ Queued(Head(jobs))
         /\ \A i \in 1..Len(jobs') : jobs'[i] # Head(jobs)
         /\ \A x : Queued(x)' => Queued(x)
<1>1. /\ Len(jobs') \in Nat /\ Len(jobs) = Len(jobs') + 1
      /\ \A i \in 1..Len(jobs') : i + 1 \in 1..Len(jobs) /\ jobs'[i] = jobs[i + 1]
      /\ 1 \in 1..Len(jobs) /\ jobs[1] = Head(jobs) /\ Head(jobs) \in Matches
  OBVIOUS
<1>2. \A i \in 1..Len(jobs') : jobs'[i] # Head(jobs)
  <2> SUFFICES ASSUME NEW i \in 1..Len(jobs'), jobs'[i] = Head(jobs) PROVE FALSE
    OBVIOUS
  <2>1. i + 1 \in 1..Len(jobs) /\ jobs[i + 1] = jobs[1] /\ i + 1 # 1
    BY <1>1
  <2> QED BY <1>1, <2>1 DEF Single
<1>3. Queued(Head(jobs))
  BY <1>1 DEF Queued
<1>4. \A x : (\E i \in 1..Len(jobs') : jobs'[i] = x) => (\E i \in 1..Len(jobs) : jobs[i] = x)
  BY <1>1
<1> QED BY <1>1, <1>2, <1>3, <1>4 DEF Queued

\* What a worker is left with.
LEMMA Released ==
  ASSUME TypeOK, NEW w \in Workers, Release(w)
  PROVE  /\ worker'[w].job = Nobody /\ \A v \in Workers \ {w} : worker'[v] = worker[v]
BY DEF Release, TypeOK

LEMMA NobodyQueued == TypeOK => ~Queued(Nobody)
<1> SUFFICES ASSUME TypeOK, NEW i \in 1..Len(jobs), jobs[i] = Nobody PROVE FALSE
  BY DEF Queued
<1>1. jobs \in Seq(Matches)
  BY DEF TypeOK
<1>2. jobs[i] \in Matches
  BY <1>1
<1> QED BY <1>2, RatingsAssumption

LEMMA SingleKept == ASSUME ExpectedSound, IInv, Single, RoomIsOver, Next PROVE Single'
<1>0. TypeOK /\ jobs \in Seq(Matches) /\ ~Queued(Nobody)
  BY NobodyQueued DEF IInv, TypeOK
<1>1. ASSUME jobs' = jobs, \A v \in Workers : worker'[v].job = worker[v].job PROVE Single'
  BY <1>1 DEF Single, Queued
<1>2. ASSUME NEW m \in Matches, AddEloJob(m) PROVE Single'
  <2>1. jobs' = Append(jobs, m) /\ worker' = worker /\ room[m] = "reading"
    BY <1>2 DEF AddEloJob
  <2>2. ~Queued(m) /\ ~Busy(m)
    BY <2>1 DEF RoomIsOver
  <2>3. /\ Len(jobs) \in Nat /\ Len(jobs') = Len(jobs) + 1
        /\ \A i \in 1..Len(jobs) : jobs'[i] = jobs[i] /\ jobs[i] # m
        /\ jobs'[Len(jobs) + 1] = m
        /\ \A x : Queued(x)' <=> Queued(x) \/ x = m
    BY <1>0, <2>1, <2>2, JobAdded DEF Queued
  <2>4. \A i, j \in 1..Len(jobs') : jobs'[i] = jobs'[j] => i = j
    <3> SUFFICES ASSUME NEW i \in 1..Len(jobs'), NEW j \in 1..Len(jobs'), jobs'[i] = jobs'[j] PROVE i = j
      OBVIOUS
    <3>1. (i \in 1..Len(jobs) \/ i = Len(jobs) + 1) /\ (j \in 1..Len(jobs) \/ j = Len(jobs) + 1)
      BY <2>3
    <3> QED BY <2>3, <3>1 DEF Single
  <2>5. \A v \in Workers : ~Queued(worker[v].job)'
    <3> SUFFICES ASSUME NEW v \in Workers PROVE ~(\E i \in 1..Len(jobs') : jobs'[i] = worker[v].job)
      BY <2>1 DEF Queued
    <3>1. PICK x : x = worker[v].job
      OBVIOUS
    <3>2. ~Queued(x) /\ x # m
      BY <2>2, <3>1 DEF Single, Busy
    <3>3. ~Queued(x)'
      BY <2>3, <3>2
    <3> QED BY <3>1, <3>3 DEF Queued
  <2> QED BY <2>1, <2>4, <2>5 DEF Single
<1>3. ASSUME NEW w \in Workers, TakeJob(w) PROVE Single'
  <2>1. /\ jobs # <<>> /\ jobs' = Tail(jobs)
        /\ worker' = [worker EXCEPT ![w] = [job |-> Head(jobs), committed |-> FALSE]]
    BY <1>3 DEF TakeJob
  <2>2. PICK h \in Matches : h = Head(jobs)
    BY <1>0, <2>1, JobTaken
  <2>3. /\ Len(jobs') \in Nat
        /\ \A i \in 1..Len(jobs') : i + 1 \in 1..Len(jobs) /\ jobs'[i] = jobs[i + 1]
        /\ Queued(h) /\ (\A i \in 1..Len(jobs') : jobs'[i] # h) /\ \A x : Queued(x)' => Queued(x)
    BY <1>0, <2>1, <2>2, JobTaken
  <2>4. worker'[w].job = h /\ \A v \in Workers \ {w} : worker'[v] = worker[v] /\ worker[v].job # h
    <3>1. worker'[w].job = h /\ \A v \in Workers \ {w} : worker'[v] = worker[v]
      BY <1>0, <2>1, <2>2 DEF TypeOK
    <3>2. \A v \in Workers : worker[v].job # h
      BY <2>3 DEF Single
    <3> QED BY <3>1, <3>2
  <2>5. \A i, j \in 1..Len(jobs') : jobs'[i] = jobs'[j] => i = j
    BY <2>3 DEF Single
  <2>6. \A v, u \in Workers : worker'[v].job = worker'[u].job /\ worker'[v].job # Nobody => v = u
    BY <2>4 DEF Single
  <2>7. ASSUME NEW v \in Workers PROVE ~Queued(worker[v].job)'
    <3>1. PICK x : x = worker'[v].job
      OBVIOUS
    <3>2. ~Queued(x)'
      <4>1. CASE v = w
        BY <2>3, <2>4, <3>1, <4>1 DEF Queued
      <4>2. CASE v # w
        BY <2>3, <2>4, <3>1, <4>2 DEF Single
      <4> QED BY <4>1, <4>2
    <3> QED BY <3>1, <3>2 DEF Queued
  <2> QED BY <2>5, <2>6, <2>7 DEF Single
<1>4. ASSUME NEW w \in Workers, Release(w), jobs' = jobs PROVE Single'
  <2>1. worker'[w].job = Nobody /\ \A v \in Workers \ {w} : worker'[v] = worker[v]
    BY <1>0, <1>4, Released
  <2>2. \A v, u \in Workers : worker'[v].job = worker'[u].job /\ worker'[v].job # Nobody => v = u
    BY <2>1 DEF Single
  <2>3. \A v \in Workers : ~(\E i \in 1..Len(jobs') : jobs'[i] = worker'[v].job)
    BY <1>0, <1>4, <2>1 DEF Single, Queued
  <2> QED BY <1>4, <2>2, <2>3 DEF Single, Queued
<1>5. ASSUME NEW w \in Workers, WorkerDies(w) PROVE Single'
  <2>1. PICK m \in Matches : m = worker[w].job
    BY <1>0, <1>5 DEF WorkerDies, TypeOK
  <2>2. jobs' = Append(jobs, m) /\ Release(w) /\ m # Nobody /\ ~Queued(m)
    BY <1>5, <2>1 DEF WorkerDies, Redelivered, Single
  <2>3. /\ Len(jobs) \in Nat /\ Len(jobs') = Len(jobs) + 1
        /\ \A i \in 1..Len(jobs) : jobs'[i] = jobs[i] /\ jobs[i] # m
        /\ jobs'[Len(jobs) + 1] = m
        /\ \A x : Queued(x)' <=> Queued(x) \/ x = m
    BY <1>0, <2>2, JobAdded DEF Queued
  <2>4. \A i, j \in 1..Len(jobs') : jobs'[i] = jobs'[j] => i = j
    <3> SUFFICES ASSUME NEW i \in 1..Len(jobs'), NEW j \in 1..Len(jobs'), jobs'[i] = jobs'[j] PROVE i = j
      OBVIOUS
    <3>1. (i \in 1..Len(jobs) \/ i = Len(jobs) + 1) /\ (j \in 1..Len(jobs) \/ j = Len(jobs) + 1)
      BY <2>3
    <3> QED BY <2>3, <3>1 DEF Single
  <2>5. worker'[w].job = Nobody /\ \A v \in Workers \ {w} : worker'[v] = worker[v] /\ worker[v].job # m
    BY <1>0, <2>1, <2>2, Released DEF Single
  <2>6. \A v, u \in Workers : worker'[v].job = worker'[u].job /\ worker'[v].job # Nobody => v = u
    BY <2>5 DEF Single
  <2>7. ASSUME NEW v \in Workers PROVE ~Queued(worker[v].job)'
    <3>1. PICK x : x = worker'[v].job
      OBVIOUS
    <3>2. ~Queued(x) /\ x # m
      BY <1>0, <2>2, <2>5, <3>1 DEF Single
    <3>3. ~Queued(x)'
      BY <2>3, <3>2
    <3> QED BY <3>1, <3>3 DEF Queued
  <2> QED BY <2>4, <2>6, <2>7 DEF Single
<1>6. ASSUME NEW w \in Workers, Commit(w) PROVE Single'
  BY <1>1, <1>6, Committed
<1> QED BY <1>1, <1>2, <1>3, <1>4, <1>5, <1>6
        DEF Next, Persist, Work, RoomEnds, CreateMatch, ReadPlayer, AddReplayJob, GiveUp, Complete, JobFails

LEMMA RoomIsOverKept == ASSUME ExpectedSound, IInv, Single, RoomIsOver, Next PROVE RoomIsOver'
<1> DEFINE Over == {"queued", "persisted", "given up"}
<1>0. /\ TypeOK /\ jobs \in Seq(Matches) /\ ~Queued(Nobody)
      /\ room \in [Matches -> {"open", "ended", "reading", "queued", "persisted", "given up"}]
  BY NobodyQueued DEF IInv, TypeOK
<1>1. ASSUME \A x : Queued(x)' => Queued(x), \A v \in Workers : worker'[v].job \in {worker[v].job, Nobody},
             \A m \in Matches : row'[m].after = row[m].after,
             \A m \in Matches : room[m] \in Over => room'[m] \in Over
      PROVE  RoomIsOver'
  <2> SUFFICES ASSUME NEW m \in Matches, (Queued(m) \/ Busy(m) \/ Rated(m))' PROVE room'[m] \in Over
    BY DEF RoomIsOver
  <2>1. m # Nobody
    BY RatingsAssumption
  <2>2. Queued(m) \/ Busy(m) \/ Rated(m)
    <3>1. CASE Queued(m)'
      BY <1>1, <3>1
    <3>2. CASE Busy(m)'
      BY <1>1, <2>1, <3>2 DEF Busy
    <3>3. CASE Rated(m)'
      BY <1>1, <3>3 DEF Rated
    <3> QED BY <3>1, <3>2, <3>3
  <2> QED BY <1>1, <2>2 DEF RoomIsOver
<1>2. ASSUME NEW m \in Matches, AddEloJob(m) PROVE RoomIsOver'
  <2>1. jobs' = Append(jobs, m) /\ worker' = worker /\ row' = row /\ room' = [room EXCEPT ![m] = "queued"]
    BY <1>2 DEF AddEloJob
  <2>2. \A x : Queued(x)' <=> Queued(x) \/ x = m
    BY <1>0, <2>1, JobAdded
  <2> QED BY <1>0, <2>1, <2>2 DEF RoomIsOver, Busy, Rated
<1>3. ASSUME NEW w \in Workers, TakeJob(w) PROVE RoomIsOver'
  <2>1. /\ jobs # <<>> /\ jobs' = Tail(jobs) /\ row' = row /\ room' = room
        /\ worker' = [worker EXCEPT ![w] = [job |-> Head(jobs), committed |-> FALSE]]
    BY <1>3 DEF TakeJob, ending
  <2>2. PICK h \in Matches : h = Head(jobs)
    BY <1>0, <2>1, JobTaken
  <2>3. Queued(h) /\ \A x : Queued(x)' => Queued(x)
    BY <1>0, <2>1, <2>2, JobTaken
  <2>4. worker'[w].job = h /\ \A v \in Workers \ {w} : worker'[v] = worker[v]
    BY <1>0, <2>1, <2>2 DEF TypeOK
  <2> SUFFICES ASSUME NEW m \in Matches, (Queued(m) \/ Busy(m) \/ Rated(m))' PROVE room[m] \in Over
    BY <2>1 DEF RoomIsOver
  <2>5. Queued(m) \/ Busy(m) \/ Rated(m)
    BY <2>1, <2>3, <2>4 DEF Busy, Rated
  <2> QED BY <2>5 DEF RoomIsOver
<1>4. ASSUME NEW w \in Workers, WorkerDies(w) PROVE RoomIsOver'
  <2>1. PICK m \in Matches : m = worker[w].job
    BY <1>0, <1>4 DEF WorkerDies, TypeOK
  <2>2. jobs' = Append(jobs, m) /\ Release(w) /\ row' = row /\ room' = room
    BY <1>4, <2>1 DEF WorkerDies, Redelivered, ending
  <2>3. \A x : Queued(x)' <=> Queued(x) \/ x = m
    BY <1>0, <2>2, JobAdded
  <2>4. worker'[w].job = Nobody /\ \A v \in Workers \ {w} : worker'[v] = worker[v]
    BY <1>0, <2>2, Released
  <2> SUFFICES ASSUME NEW o \in Matches, (Queued(o) \/ Busy(o) \/ Rated(o))' PROVE room[o] \in Over
    BY <2>2 DEF RoomIsOver
  <2>5. o # Nobody /\ Busy(m)
    BY <2>1, RatingsAssumption DEF Busy
  <2>6. Queued(o) \/ Busy(o) \/ Rated(o)
    BY <2>2, <2>3, <2>4, <2>5 DEF Busy, Rated
  <2> QED BY <2>6 DEF RoomIsOver
<1>5. ASSUME NEW w \in Workers, Commit(w) PROVE RoomIsOver'
  <2>1. PICK m \in Matches : m = worker[w].job
    BY <1>5, Committed
  <2>2. /\ UNCHANGED <<room, jobs>> /\ \A v \in Workers : worker'[v].job = worker[v].job
        /\ \A o \in Matches \ {m} : Rated(o)' = Rated(o)
    BY <1>5, <2>1, Committed
  <2> SUFFICES ASSUME NEW o \in Matches, (Queued(o) \/ Busy(o) \/ Rated(o))' PROVE room[o] \in Over
    BY <2>2 DEF RoomIsOver
  <2>3. Queued(o) \/ Busy(o) \/ Rated(o)
    BY <2>1, <2>2 DEF Busy, Queued
  <2> QED BY <2>3 DEF RoomIsOver
<1>6. ASSUME \A w \in Workers : ~Commit(w), jobs' = jobs,
             \A v \in Workers : worker'[v].job \in {worker[v].job, Nobody},
             \A m \in Matches : room[m] \in Over => room'[m] \in Over
      PROVE  RoomIsOver'
  <2>1. \A m \in Matches : row'[m].after = row[m].after
    BY <1>6, RatedKept
  <2>2. \A x : Queued(x)' => Queued(x)
    BY <1>6 DEF Queued
  <2> HIDE DEF Over
  <2> QED BY <1>1, <1>6, <2>1, <2>2
<1>7. ASSUME NEW m \in Matches,
             (\E s \in Slots : RoomEnds(m, s) \/ ReadPlayer(m, s)) \/ CreateMatch(m) \/ AddReplayJob(m) \/ GiveUp(m)
      PROVE  jobs' = jobs /\ worker' = worker /\ \A o \in Matches : room[o] \in Over => room'[o] \in Over
  BY <1>0, <1>7 DEF RoomEnds, ReadPlayer, CreateMatch, AddReplayJob, GiveUp
<1>8. ASSUME NEW w \in Workers, Complete(w) \/ JobFails(w)
      PROVE  jobs' = jobs /\ room' = room /\ \A v \in Workers : worker'[v].job \in {worker[v].job, Nobody}
  <2>1. jobs' = jobs /\ room' = room /\ Release(w)
    BY <1>8 DEF Complete, JobFails, ending
  <2> QED BY <1>0, <2>1, Released
<1> HIDE DEF Over
<1> QED BY <1>2, <1>3, <1>4, <1>5, <1>6, <1>7, <1>8 DEF Next, Persist, Work

LEMMA GamesAreInt == ASSUME TypeOK PROVE \A p \in Players : player[p].games - Start[p].games \in Int
<1> SUFFICES ASSUME NEW p \in Players PROVE player[p].games - Start[p].games \in Int
  OBVIOUS
<1>1. player[p] \in [elo : Int, games : Nat, wins : Nat, losses : Nat] /\ Start[p].games \in Nat
  BY RatingsAssumption DEF TypeOK
<1> QED BY <1>1

LEMMA CountedIsInt == ASSUME TypeOK PROVE Counted \in Int
<1>1. PICK f : f = [p \in Players |-> player[p].games - Start[p].games]
  OBVIOUS
<1>2. IsFiniteSet(Players) /\ \A p \in Players : f[p] \in Int
  BY <1>1, GamesAreInt, RatingsAssumption
<1>3. SumFunctionOnSet(f, Players) \in Int
  BY <1>2, SumIsInt
<1> QED BY <1>1, <1>3 DEF Counted

LEMMA CommitCountsTwo ==
  ASSUME ExpectedSound, IInv, NEW w \in Workers, Commit(w)
  PROVE  Counted \in Int /\ Counted' = Counted + 2
<1>1. PICK p, q \in Players :
        /\ p # q
        /\ player'[p].games = player[p].games + 1 /\ player'[q].games = player[q].games + 1
        /\ \A o \in Players \ {p, q} : player'[o] = player[o]
  BY CommitCounts
<1>2. TypeOK /\ TypeOK'
  BY Committed DEF IInv
<1>3. \A o \in Players : player[o].games - Start[o].games \in Int
  BY <1>2, GamesAreInt
<1>4. \A o \in Players : player[o].games \in Int /\ Start[o].games \in Int
  <2>1. \A o \in Players : player[o] \in [elo : Int, games : Nat, wins : Nat, losses : Nat] /\ Start[o].games \in Nat
    BY <1>2, RatingsAssumption DEF TypeOK
  <2> QED BY <2>1
<1>5. PICK f : f = [o \in Players |-> player[o].games - Start[o].games]
  OBVIOUS
<1>6. PICK h : h = [o \in Players |-> player'[o].games - Start[o].games]
  OBVIOUS
<1>7. PICK g : g = [o \in Players |-> IF o = p THEN f[o] + 1 ELSE f[o]]
  OBVIOUS
<1>8. IsFiniteSet(Players)
  BY RatingsAssumption
<1>9. \A o \in Players : f[o] \in Int /\ g[o] \in Int
  BY <1>3, <1>5, <1>7
<1>10. (\A o \in Players : o # p => g[o] = f[o]) /\ g[p] - f[p] = 1
  BY <1>7, <1>9
<1>11. \A o \in Players : h[o] = IF o = q THEN g[o] + 1 ELSE g[o]
  <2> SUFFICES ASSUME NEW o \in Players PROVE h[o] = IF o = q THEN g[o] + 1 ELSE g[o]
    OBVIOUS
  <2>1. f[o] = player[o].games - Start[o].games /\ h[o] = player'[o].games - Start[o].games
    BY <1>5, <1>6
  <2>2. CASE o = p
    BY <1>1, <1>4, <1>7, <2>1, <2>2
  <2>3. CASE o = q
    BY <1>1, <1>4, <1>7, <2>1, <2>3
  <2>4. CASE o \notin {p, q}
    BY <1>1, <1>7, <2>1, <2>4
  <2> QED BY <2>2, <2>3, <2>4
<1>12. (\A o \in Players : g[o] \in Int /\ h[o] \in Int)
  BY <1>9, <1>11
<1>13. h[q] - g[q] = 1
  BY <1>9, <1>11
<1>a. \A o \in Players : o # q => h[o] = g[o]
  BY <1>11
<1>14. /\ SumFunctionOnSet(f, Players) \in Int
       /\ SumFunctionOnSet(g, Players) = SumFunctionOnSet(f, Players) + (g[p] - f[p])
  BY <1>8, <1>9, <1>10, SumChanges
<1>15. SumFunctionOnSet(h, Players) = SumFunctionOnSet(g, Players) + (h[q] - g[q])
  BY <1>8, <1>12, <1>a, SumChanges
<1>16. SumFunctionOnSet(h, Players) = SumFunctionOnSet(f, Players) + 2
  BY <1>10, <1>13, <1>14, <1>15
<1> QED BY <1>5, <1>6, <1>14, <1>16 DEF Counted

\* Without a transaction, nothing is counted, and a copy of a job that was done
\* comes back only by a death.
LEMMA CountStays ==
  ASSUME IInv, CountInv, player' = player, \A m \in Matches : Rated(m)' = Rated(m),
         \/ deaths' = deaths /\ \A m \in Done : Undone(m)' => Undone(m)
         \/ deaths' = deaths + 1 /\ \E o \in Matches : \A m \in Done \ {o} : Undone(m)' => Undone(m)
  PROVE  CountInv'
<1>1. Done' = Done /\ Counted' = Counted
  BY DEF Done, Counted
<1>2. PICK A, B : A = Again' /\ B = Again
  OBVIOUS
<1>3. IsFiniteSet(B) /\ Cardinality(B) \in Nat /\ Cardinality(Done) \in Nat
  BY <1>2, DoneFinite
<1>4. deaths \in Int /\ Counted \in Int
  <2>1. deaths \in 0..MaxDeaths /\ MaxDeaths \in Nat
    BY RatingsAssumption DEF IInv, TypeOK
  <2>2. Counted \in Int
    BY CountedIsInt DEF IInv
  <2> QED BY <2>1, <2>2
<1>5. \/ deaths' = deaths /\ Cardinality(A) \in Nat /\ Cardinality(A) <= Cardinality(B)
      \/ deaths' = deaths + 1 /\ Cardinality(A) \in Nat /\ Cardinality(A) <= Cardinality(B) + 1
  <2>1. CASE deaths' = deaths /\ \A m \in Done : Undone(m)' => Undone(m)
    <3>1. A \subseteq B
      BY <1>1, <1>2, <2>1 DEF Again
    <3> QED BY <1>3, <2>1, <3>1, FS_Subset, FS_CardinalityType
  <2>2. CASE deaths' = deaths + 1 /\ \E o \in Matches : \A m \in Done \ {o} : Undone(m)' => Undone(m)
    <3>1. PICK o \in Matches : \A m \in Done \ {o} : Undone(m)' => Undone(m)
      BY <2>2
    <3>2. A \subseteq B \union {o}
      BY <1>1, <1>2, <3>1 DEF Again
    <3>3. IsFiniteSet(B \union {o}) /\ Cardinality(B \union {o}) <= Cardinality(B) + 1
          /\ Cardinality(B \union {o}) \in Nat
      <4>1. PICK C : C = B \union {o}
        OBVIOUS
      <4>2. IsFiniteSet(C) /\ Cardinality(C) = IF o \in B THEN Cardinality(B) ELSE Cardinality(B) + 1
        BY <1>3, <4>1, FS_AddElement
      <4> QED BY <1>3, <4>1, <4>2
    <3>4. IsFiniteSet(A) /\ Cardinality(A) <= Cardinality(B \union {o}) /\ Cardinality(A) \in Nat
      BY <3>2, <3>3, FS_Subset, FS_CardinalityType
    <3> QED BY <1>3, <2>2, <3>3, <3>4
  <2> QED BY <2>1, <2>2
<1> QED BY <1>1, <1>2, <1>3, <1>4, <1>5 DEF CountInv

LEMMA CommitKeepsCount ==
  ASSUME ExpectedSound, IInv, Single, CountInv, NEW w \in Workers, Commit(w)
  PROVE  CountInv'
<1> PICK m \in Matches : m = worker[w].job
  BY Committed
<1>1. /\ \A o \in Matches \ {m} : Rated(o)' = Rated(o)
      /\ Rated(m)' /\ UNCHANGED <<jobs, deaths>>
      /\ \A v \in Workers : worker'[v].job = worker[v].job
  BY Committed DEF Rated
<1>2. ~worker[w].committed /\ worker' = [worker EXCEPT ![w].committed = TRUE]
  BY DEF Commit
<1>3. worker'[w].committed /\ \A v \in Workers \ {w} : worker'[v] = worker[v] /\ worker[v].job # m
  <2>1. worker \in [Workers -> [job : Matches \union {Nobody}, committed : BOOLEAN]]
    BY DEF IInv, TypeOK
  <2>2. m # Nobody
    BY RatingsAssumption
  <2> QED BY <1>2, <2>1, <2>2 DEF Single
<1>4. ~Undone(m)' /\ Undone(m)
  <2>1. ~Queued(m)'
    BY <1>1 DEF Queued, Single
  <2>2. ~(\E v \in Workers : worker'[v].job = m /\ ~worker'[v].committed)
    BY <1>1, <1>3
  <2> QED BY <1>2, <2>1, <2>2 DEF Undone
<1>5. \A o \in Matches \ {m} : Undone(o)' => Undone(o)
  <2> SUFFICES ASSUME NEW o \in Matches \ {m}, Undone(o)' PROVE Undone(o)
    OBVIOUS
  <2>1. CASE Queued(o)'
    BY <1>1, <2>1 DEF Undone, Queued
  <2>2. ASSUME NEW v \in Workers, worker'[v].job = o, ~worker'[v].committed PROVE Undone(o)
    BY <1>1, <1>3, <2>2 DEF Undone
  <2> QED BY <2>1, <2>2 DEF Undone
<1>6. PICK A, B, C, D : A = Again' /\ B = Again /\ C = Done' /\ D = Done
  OBVIOUS
<1>7. C = D \union {m} /\ A \subseteq B \ {m} /\ (m \in D => m \in B)
  BY <1>1, <1>4, <1>5, <1>6 DEF Again, Done
<1>8. /\ IsFiniteSet(B) /\ Cardinality(B) \in Nat /\ IsFiniteSet(D) /\ Cardinality(D) \in Nat
      /\ deaths \in Int
  <2>1. deaths \in 0..MaxDeaths /\ MaxDeaths \in Nat
    BY RatingsAssumption DEF IInv, TypeOK
  <2> QED BY <1>6, <2>1, DoneFinite
<1>9. /\ Cardinality(C) = IF m \in D THEN Cardinality(D) ELSE Cardinality(D) + 1
      /\ Cardinality(A) \in Nat
      /\ Cardinality(A) <= IF m \in B THEN Cardinality(B) - 1 ELSE Cardinality(B)
  <2>1. Cardinality(C) = IF m \in D THEN Cardinality(D) ELSE Cardinality(D) + 1
    BY <1>7, <1>8, FS_AddElement
  <2>2. IsFiniteSet(B \ {m}) /\ Cardinality(B \ {m}) = IF m \in B THEN Cardinality(B) - 1 ELSE Cardinality(B)
    BY <1>8, FS_RemoveElement
  <2>3. IsFiniteSet(A) /\ Cardinality(A) <= Cardinality(B \ {m})
    BY <1>7, <2>2, FS_Subset
  <2>4. Cardinality(A) \in Nat
    BY <2>3, FS_CardinalityType
  <2> QED BY <2>1, <2>2, <2>3, <2>4
<1>10. Counted \in Int /\ Counted' = Counted + 2
  BY CommitCountsTwo
<1>11. 2 * Cardinality(D) <= Counted /\ Counted + 2 * Cardinality(B) <= 2 * (Cardinality(D) + deaths)
  BY <1>6 DEF CountInv
<1>12. CASE m \in D
  <2>1. Cardinality(C) = Cardinality(D) /\ Cardinality(A) <= Cardinality(B) - 1
    BY <1>7, <1>9, <1>12
  <2>2. /\ 2 * Cardinality(C) <= Counted + 2
        /\ Counted + 2 + 2 * Cardinality(A) <= 2 * (Cardinality(C) + deaths)
    BY <1>8, <1>9, <1>10, <1>11, <2>1
  <2> QED BY <1>1, <1>6, <1>10, <2>2 DEF CountInv
<1>13. CASE m \notin D
  <2>1. Cardinality(C) = Cardinality(D) + 1 /\ Cardinality(A) <= Cardinality(B)
    BY <1>8, <1>9, <1>13
  <2>2. /\ 2 * Cardinality(C) <= Counted + 2
        /\ Counted + 2 + 2 * Cardinality(A) <= 2 * (Cardinality(C) + deaths)
    BY <1>8, <1>9, <1>10, <1>11, <2>1
  <2> QED BY <1>1, <1>6, <1>10, <2>2 DEF CountInv
<1> QED BY <1>12, <1>13

LEMMA OthersKeepCount ==
  ASSUME ExpectedSound, IInv, Single, RoomIsOver, CountInv, [Next]_vars, \A w \in Workers : ~Commit(w)
  PROVE  CountInv'
<1>0. /\ TypeOK /\ jobs \in Seq(Matches) /\ ~Queued(Nobody)
  BY NobodyQueued DEF IInv, TypeOK
<1>1. player' = player /\ \A m \in Matches : Rated(m)' = Rated(m)
  BY OnlyCommitCounts, RatedKept DEF Rated
<1>2. ASSUME deaths' = deaths, \A m \in Done : Undone(m)' => Undone(m) PROVE CountInv'
  BY <1>1, <1>2, CountStays
<1>3. ASSUME jobs' = jobs, worker' = worker, deaths' = deaths PROVE CountInv'
  BY <1>2, <1>3 DEF Undone, Queued
<1>4. ASSUME NEW m \in Matches, AddEloJob(m) PROVE CountInv'
  <2>1. jobs' = Append(jobs, m) /\ worker' = worker /\ deaths' = deaths /\ room[m] = "reading"
    BY <1>4 DEF AddEloJob
  <2>2. \A x : Queued(x)' <=> Queued(x) \/ x = m
    BY <1>0, <2>1, JobAdded
  <2>3. m \notin Done
    BY <2>1 DEF Done, RoomIsOver
  <2>4. \A o \in Done : Undone(o)' => Undone(o)
    BY <2>1, <2>2, <2>3 DEF Undone
  <2> QED BY <1>2, <2>1, <2>4
<1>5. ASSUME NEW w \in Workers, TakeJob(w) PROVE CountInv'
  <2>1. /\ jobs # <<>> /\ jobs' = Tail(jobs) /\ deaths' = deaths
        /\ worker' = [worker EXCEPT ![w] = [job |-> Head(jobs), committed |-> FALSE]]
    BY <1>5 DEF TakeJob
  <2>2. PICK h \in Matches : h = Head(jobs)
    BY <1>0, <2>1, JobTaken
  <2>3. Queued(h) /\ \A x : Queued(x)' => Queued(x)
    BY <1>0, <2>1, <2>2, JobTaken
  <2>4. worker'[w].job = h /\ \A v \in Workers \ {w} : worker'[v] = worker[v]
    BY <1>0, <2>1, <2>2 DEF TypeOK
  <2>5. \A o \in Done : Undone(o)' => Undone(o)
    BY <2>3, <2>4 DEF Undone
  <2> QED BY <1>2, <2>1, <2>5
<1>6. ASSUME NEW w \in Workers, Complete(w) \/ JobFails(w) PROVE CountInv'
  <2>1. jobs' = jobs /\ deaths' = deaths /\ Release(w)
    BY <1>6 DEF Complete, JobFails
  <2>2. worker'[w].job = Nobody /\ \A v \in Workers \ {w} : worker'[v] = worker[v]
    BY <1>0, <2>1, Released
  <2>3. \A o \in Matches : o # Nobody
    BY RatingsAssumption
  <2>4. \A o \in Done : Undone(o)' => Undone(o)
    BY <2>1, <2>2, <2>3 DEF Undone, Queued, Done
  <2> QED BY <1>2, <2>1, <2>4
<1>7. ASSUME NEW w \in Workers, WorkerDies(w) PROVE CountInv'
  <2>1. PICK m \in Matches : m = worker[w].job
    BY <1>0, <1>7 DEF WorkerDies, TypeOK
  <2>2. jobs' = Append(jobs, m) /\ Release(w) /\ deaths' = deaths + 1
    BY <1>7, <2>1 DEF WorkerDies, Redelivered
  <2>3. \A x : Queued(x)' <=> Queued(x) \/ x = m
    BY <1>0, <2>2, JobAdded
  <2>4. worker'[w].job = Nobody /\ \A v \in Workers \ {w} : worker'[v] = worker[v]
    BY <1>0, <2>2, Released
  <2>5. \A o \in Matches : o # Nobody
    BY RatingsAssumption
  <2>6. \A o \in Done \ {m} : Undone(o)' => Undone(o)
    BY <2>3, <2>4, <2>5 DEF Undone, Done
  <2> QED BY <1>1, <2>2, <2>6, CountStays
<1> QED
  BY <1>3, <1>4, <1>5, <1>6, <1>7
     DEF Next, Persist, Work, RoomEnds, CreateMatch, ReadPlayer, AddReplayJob, GiveUp, vars

\* The games of the players are those of the rated matches, each once, and once
\* more at most for every worker that died (elo-worker.ts, redelivered jobs).
THEOREM CountedOnceAlways == ASSUME ExpectedSound PROVE Spec => []CountedOnce
<1> DEFINE Inv == IInv /\ Single /\ RoomIsOver /\ CountInv
<1>1. Init => Inv
  <2> SUFFICES ASSUME Init PROVE Inv
    OBVIOUS
  <2>1. jobs = <<>> /\ deaths = 0 /\ \A w \in Workers : worker[w].job = Nobody
    BY DEF Init
  <2>2. \A m \in Matches : row[m] = NoRow
    BY DEF Init
  <2>3. \A x : ~Queued(x)
    BY <2>1 DEF Queued
  <2>4. \A m \in Matches : ~Rated(m) /\ ~Busy(m)
    BY <2>1, <2>2, RatingsAssumption DEF Rated, Busy
  <2>5. Single
    <3>1. \A i \in 1..Len(jobs) : FALSE
      BY <2>1
    <3> QED BY <2>1, <2>3, <3>1 DEF Single
  <2>8. RoomIsOver
    BY <2>3, <2>4 DEF RoomIsOver
  <2>6. Cardinality(Done) = 0 /\ Cardinality(Again) = 0
    <3>1. Done = {} /\ Again = {}
      BY <2>4 DEF Done, Again
    <3> QED BY <3>1, FS_EmptySet
  <2>7. Counted = 0
    <3>1. PICK f : f = [p \in Players |-> player[p].games - Start[p].games]
      OBVIOUS
    <3>2. \A p \in Players : f[p] = 0
      <4> SUFFICES ASSUME NEW p \in Players PROVE f[p] = 0
        OBVIOUS
      <4>1. player[p].games = Start[p].games /\ Start[p].games \in Nat
        BY RatingsAssumption DEF Init
      <4> QED BY <3>1, <4>1
    <3>3. SumFunctionOnSet(f, Players) = 0
      BY <3>2, RatingsAssumption, SumOfNone
    <3> QED BY <3>1, <3>3 DEF Counted
  <2> QED BY <2>1, <2>5, <2>6, <2>7, <2>8, InitInv DEF CountInv
<1>2. Inv /\ [Next]_vars => Inv'
  <2> SUFFICES ASSUME Inv, [Next]_vars PROVE Inv'
    OBVIOUS
  <2>1. IInv'
    BY StepKeepsInv
  <2>2. Single' /\ RoomIsOver'
    <3>1. CASE Next
      BY <3>1, SingleKept, RoomIsOverKept
    <3>2. CASE UNCHANGED vars
      BY <3>2 DEF vars, Single, RoomIsOver, Queued, Busy, Rated
    <3> QED BY <3>1, <3>2
  <2>3. CountInv'
    BY CommitKeepsCount, OthersKeepCount
  <2> QED BY <2>1, <2>2, <2>3
<1>3. Inv => CountedOnce
  <2> SUFFICES ASSUME Inv PROVE CountedOnce
    OBVIOUS
  <2>1. 2 * Cardinality(Done) <= Counted /\ Counted + 2 * Cardinality(Again) <= 2 * (Cardinality(Done) + deaths)
    BY DEF CountInv
  <2>2. Cardinality(Done) \in Nat /\ Cardinality(Again) \in Nat
    BY DoneFinite
  <2>3. deaths \in Int /\ Counted \in Int
    <3>1. deaths \in 0..MaxDeaths /\ MaxDeaths \in Nat
      BY RatingsAssumption DEF IInv, TypeOK
    <3>2. Counted \in Int
      BY CountedIsInt DEF IInv
    <3> QED BY <3>1, <3>2
  <2>4. 2 * Cardinality(Done) <= Counted /\ Counted <= 2 * (Cardinality(Done) + deaths)
    BY <2>1, <2>2, <2>3
  <2> QED BY <2>4 DEF CountedOnce, Counted, Done
<1> QED BY <1>1, <1>2, <1>3, PTL DEF Spec

-------------------------------------------------------------------------------
(***************************************************************************)
(* Part 3: purchases, for any players, items, prices and requests.         *)
(*                                                                         *)
(* PaidOnce is not inductive: two transactions could both be about to      *)
(* commit the same row.  Exclusive says that a transaction that has        *)
(* updated its player holds that row's lock, so there is one at a time,    *)
(* and that nobody else has touched the balance since.                     *)
(***************************************************************************)
Exclusive ==
  \A r \in Requests : at[r] \in {"deducted", "created"} =>
    lock[By[r]] = r /\ after[r] = coins[By[r]] - cost[r]

Checked ==
  \A r \in Requests : at[r] \in {"checked", "deducted", "created"} => cost[r] <= seen[r]

RowIsNew == \A r \in Requests : at[r] = "created" => Row(r) \notin Owned

ShopInv == ShopTypeOK /\ Exclusive /\ Checked /\ RowIsNew /\ PaidOnce

-------------------------------------------------------------------------------
LEMMA ShopInitInv == ShopInit => ShopInv
<1> SUFFICES ASSUME ShopInit PROVE ShopInv
  OBVIOUS
<1>1. Purse \in [Buyers -> Int] /\ 0 \in Int
  BY ShopAssumption
<1>2. Owned = {} /\ unlocks \in [Owned -> Requests]
  BY DEF ShopInit, NoRows, Owned
<1>3. at = [r \in Requests |-> "new"]
  BY DEF ShopInit
<1>4. ShopTypeOK
  BY <1>1, <1>2 DEF ShopInit, ShopTypeOK, InTransaction, Ended
<1>5. PaidOnce
  BY <1>2, <1>3 DEF PaidOnce
<1> QED BY <1>3, <1>4, <1>5 DEF ShopInv, Exclusive, Checked, RowIsNew

\* Steps that leave the database alone and take request r to a place before
\* its update, or out.
LEMMA ReadKeepsInv ==
  ASSUME ShopInv, NEW r \in Requests, at[r] \notin Ended,
         NEW t \in {"found", "begun", "checked", "refused"}, at' = [at EXCEPT ![r] = t],
         UNCHANGED <<shelf, coins, unlocks, lock, after>>,
         cost' \in [Requests -> Int], seen' \in [Requests -> Int],
         \A q \in Requests \ {r} : cost'[q] = cost[q] /\ seen'[q] = seen[q],
         t = "checked" => cost'[r] <= seen'[r]
  PROVE  ShopInv'
<1> USE DEF ShopInv, InTransaction, Ended
<1>1. ShopTypeOK'
  BY DEF ShopTypeOK, Owned
<1>2. \A q \in Requests \ {r} : at'[q] = at[q]
  BY DEF ShopTypeOK
<1>3. at'[r] = t
  BY DEF ShopTypeOK
<1>4. Exclusive' /\ Checked'
  BY <1>2, <1>3 DEF Exclusive, Checked
<1>5. RowIsNew' /\ PaidOnce'
  BY <1>2, <1>3 DEF RowIsNew, PaidOnce, Owned, Row
<1> QED BY <1>1, <1>4, <1>5

LEMMA DeductKeepsInv == ASSUME ShopInv, NEW r \in Requests, Deduct(r) PROVE ShopInv'
<1> USE DEF ShopInv, InTransaction, Ended
<1>1. /\ at[r] = "checked" /\ at' = [at EXCEPT ![r] = "deducted"]
      /\ lock[By[r]] = Free /\ lock' = [lock EXCEPT ![By[r]] = r]
      /\ after' = [after EXCEPT ![r] = Balance(r)]
      /\ UNCHANGED <<shelf, coins, unlocks, cost, seen>>
  BY DEF Deduct, Goes
<1>2. By[r] \in Buyers /\ Balance(r) \in Int /\ Balance(r) = coins[By[r]] - cost[r]
  BY ShopAssumption DEF Balance, ShopTypeOK
<1>3. ShopTypeOK'
  BY <1>1, <1>2 DEF ShopTypeOK, Owned
<1>4. \A q \in Requests \ {r} : at'[q] = at[q] /\ after'[q] = after[q]
  BY <1>1 DEF ShopTypeOK
<1>5. at'[r] = "deducted" /\ after'[r] = coins[By[r]] - cost[r] /\ lock'[By[r]] = r
  BY <1>1, <1>2 DEF ShopTypeOK
<1>6. Exclusive'
  <2> SUFFICES ASSUME NEW q \in Requests, at'[q] \in {"deducted", "created"}
               PROVE  lock'[By[q]] = q /\ after'[q] = coins[By[q]] - cost[q]
    BY <1>1 DEF Exclusive
  <2>1. CASE q = r
    BY <2>1, <1>5
  <2>2. CASE q # r
    <3>1. lock[By[q]] = q /\ after[q] = coins[By[q]] - cost[q]
      BY <2>2, <1>4 DEF Exclusive
    <3>2. By[q] # By[r]
      BY <3>1, <1>1, ShopAssumption
    <3> QED BY <3>1, <3>2, <1>1, <1>4, <2>2, ShopAssumption DEF ShopTypeOK
  <2> QED BY <2>1, <2>2
<1>7. Checked'
  BY <1>1, <1>4, <1>5 DEF Checked
<1>8. RowIsNew' /\ PaidOnce'
  BY <1>1, <1>4, <1>5 DEF RowIsNew, PaidOnce, Owned, Row
<1> QED BY <1>3, <1>6, <1>7, <1>8

\* Requests that fail, releasing what only they hold: nothing was written.
LEMMA FailureKeepsInv ==
  ASSUME ShopInv, NEW R \in SUBSET Requests, \A r \in R : at[r] \notin Ended,
         at' = [r \in Requests |-> IF r \in R THEN "failed" ELSE at[r]],
         lock' \in [Buyers -> Requests \union {Free}],
         \A q \in Requests \ R : at[q] \in {"deducted", "created"} => lock'[By[q]] = q,
         UNCHANGED <<shelf, coins, unlocks, cost, seen, after>>
  PROVE  ShopInv'
<1> USE DEF ShopInv, InTransaction, Ended
<1>1. ShopTypeOK'
  BY DEF ShopTypeOK, Owned
<1>2. \A q \in Requests : at'[q] = IF q \in R THEN "failed" ELSE at[q]
  BY DEF ShopTypeOK
<1>3. Exclusive'
  BY <1>2, ShopAssumption DEF Exclusive, ShopTypeOK
<1>4. Checked' /\ RowIsNew' /\ PaidOnce'
  BY <1>2 DEF Checked, RowIsNew, PaidOnce, Owned, Row
<1> QED BY <1>1, <1>3, <1>4

LEMMA CreateKeepsInv == ASSUME ShopInv, NEW r \in Requests, Create(r) PROVE ShopInv'
<1> USE DEF ShopInv, InTransaction, Ended
<1>1. at[r] = "deducted" /\ UNCHANGED <<shelf, coins, unlocks, cost, seen, after>>
  BY DEF Create, Goes
<1>2. CASE Row(r) \in Owned
  <2>1. /\ at' = [at EXCEPT ![r] = "failed"]
        /\ lock' = [p \in Buyers |-> IF lock[p] = r THEN Free ELSE lock[p]]
    BY <1>2 DEF Create, Goes, Unlocked
  <2>2. at' = [q \in Requests |-> IF q \in {r} THEN "failed" ELSE at[q]]
    BY <2>1 DEF ShopTypeOK
  <2>3. lock' \in [Buyers -> Requests \union {Free}]
    BY <2>1 DEF ShopTypeOK
  <2>4. \A q \in Requests \ {r} : at[q] \in {"deducted", "created"} => lock'[By[q]] = q
    BY <2>1, ShopAssumption DEF Exclusive
  <2> QED BY <1>1, <2>2, <2>3, <2>4, FailureKeepsInv
<1>3. CASE Row(r) \notin Owned
  <2>1. at' = [at EXCEPT ![r] = "created"] /\ UNCHANGED lock
    BY <1>3 DEF Create, Goes
  <2>2. at'[r] = "created" /\ \A q \in Requests \ {r} : at'[q] = at[q]
    BY <2>1 DEF ShopTypeOK
  <2>3. ShopTypeOK'
    BY <1>1, <2>1 DEF ShopTypeOK, Owned
  <2>4. Exclusive' /\ Checked'
    BY <1>1, <2>1, <2>2 DEF Exclusive, Checked
  <2>5. RowIsNew' /\ PaidOnce'
    BY <1>1, <1>3, <2>2 DEF RowIsNew, PaidOnce, Owned, Row
  <2> QED BY <2>3, <2>4, <2>5
<1> QED BY <1>2, <1>3

\* The lock makes r the only one about to commit for its player, so the new row
\* takes nobody else's.
LEMMA PurchaseKeepsInv == ASSUME ShopInv, NEW r \in Requests, CommitPurchase(r) PROVE ShopInv'
<1> USE DEF ShopInv, InTransaction, Ended
<1>1. /\ at[r] = "created" /\ at' = [at EXCEPT ![r] = "bought"]
      /\ coins' = [coins EXCEPT ![By[r]] = after[r]]
      /\ unlocks' = [x \in Owned \union {Row(r)} |-> IF x \in Owned THEN unlocks[x] ELSE r]
      /\ lock' = [p \in Buyers |-> IF lock[p] = r THEN Free ELSE lock[p]]
      /\ UNCHANGED <<shelf, cost, seen, after>>
  BY DEF CommitPurchase, Goes, Unlocked
<1>2. By[r] \in Buyers /\ Row(r) \in Buyers \X Items /\ lock[By[r]] = r /\ Row(r) \notin Owned
  BY <1>1, ShopAssumption DEF Row, Exclusive, RowIsNew
<1>3. at'[r] = "bought" /\ \A q \in Requests \ {r} : at'[q] = at[q]
  BY <1>1 DEF ShopTypeOK
<1>4. /\ Owned' = Owned \union {Row(r)}
      /\ unlocks'[Row(r)] = r /\ \A x \in Owned : unlocks'[x] = unlocks[x]
  BY <1>1, <1>2 DEF Owned
<1>5. ShopTypeOK'
  <2>1. unlocks' \in [Owned' -> Requests]
    BY <1>1, <1>2, <1>4 DEF ShopTypeOK
  <2> QED BY <1>1, <1>2, <1>4, <2>1 DEF ShopTypeOK
<1>6. \A q \in Requests \ {r} : at[q] \in {"deducted", "created"} => By[q] # By[r]
  BY <1>2 DEF Exclusive
<1>7. Exclusive'
  <2> SUFFICES ASSUME NEW q \in Requests, at'[q] \in {"deducted", "created"}
               PROVE  lock'[By[q]] = q /\ after'[q] = coins'[By[q]] - cost'[q]
    BY DEF Exclusive
  <2>1. q # r /\ at[q] \in {"deducted", "created"}
    BY <1>3
  <2>2. lock[By[q]] = q /\ after[q] = coins[By[q]] - cost[q] /\ By[q] # By[r]
    BY <2>1, <1>6 DEF Exclusive
  <2> QED BY <2>1, <2>2, <1>1, ShopAssumption DEF ShopTypeOK
<1>8. Checked'
  BY <1>1, <1>3 DEF Checked
<1>9. RowIsNew'
  BY <1>3, <1>4, <1>6 DEF RowIsNew, Row
<1>10. PaidOnce'
  <2> SUFFICES ASSUME NEW q \in Requests
               PROVE  at'[q] = "bought" <=> Row(q) \in Owned' /\ unlocks'[Row(q)] = q
    BY DEF PaidOnce, Row
  <2>1. CASE q = r
    BY <2>1, <1>3, <1>4
  <2>2. CASE q # r /\ Row(q) = Row(r)
    BY <2>2, <1>2, <1>3, <1>4 DEF PaidOnce
  <2>3. CASE q # r /\ Row(q) # Row(r)
    BY <2>3, <1>3, <1>4 DEF PaidOnce
  <2> QED BY <2>1, <2>2, <2>3
<1> QED BY <1>5, <1>7, <1>8, <1>9, <1>10

LEMMA ShopStepKeepsInv == ShopInv /\ [ShopNext]_shopVars => ShopInv'
<1> SUFFICES ASSUME ShopInv, [ShopNext]_shopVars PROVE ShopInv'
  OBVIOUS
<1>1. ASSUME NEW r \in Requests, ReadItem(r) PROVE ShopInv'
  <2> DEFINE t == IF shelf[Of[r]] = Gone THEN "refused" ELSE "found"
  <2>1. shelf[Of[r]] \in Int
    <3>1. shelf[Of[r]] \in Prices \union {Gone}
      BY ShopAssumption DEF ShopInv, ShopTypeOK
    <3>2. Gone \in Int /\ \A c \in Prices : c \in Int
      BY ShopAssumption DEF Gone
    <3> QED BY <3>1, <3>2
  <2>2. /\ at[r] = "new" /\ at' = [at EXCEPT ![r] = t] /\ cost' = [cost EXCEPT ![r] = shelf[Of[r]]]
        /\ UNCHANGED <<shelf, coins, unlocks, lock, after>> /\ UNCHANGED seen
    BY <1>1 DEF ReadItem, Goes
  <2>3. /\ cost' \in [Requests -> Int] /\ seen' \in [Requests -> Int]
        /\ \A q \in Requests \ {r} : cost'[q] = cost[q] /\ seen'[q] = seen[q]
    BY <2>1, <2>2 DEF ShopInv, ShopTypeOK
  <2>4. t \in {"found", "begun", "checked", "refused"} /\ t # "checked"
    OBVIOUS
  <2> HIDE DEF t
  <2> QED BY <2>2, <2>3, <2>4, ReadKeepsInv DEF Ended
<1>2. ASSUME NEW r \in Requests, ReadUnlock(r) PROVE ShopInv'
  BY <1>2, ReadKeepsInv DEF ReadUnlock, Goes, ShopInv, ShopTypeOK, Ended
<1>3. ASSUME NEW r \in Requests, ReadBalance(r) PROVE ShopInv'
  <2> DEFINE t == IF coins[By[r]] < cost[r] THEN "refused" ELSE "checked"
  <2>1. coins[By[r]] \in Int /\ cost[r] \in Int
    BY ShopAssumption DEF ShopInv, ShopTypeOK
  <2>2. /\ at[r] = "begun" /\ at' = [at EXCEPT ![r] = t] /\ seen' = [seen EXCEPT ![r] = coins[By[r]]]
        /\ UNCHANGED <<shelf, coins, unlocks, lock, after>> /\ UNCHANGED cost
    BY <1>3 DEF ReadBalance, Goes
  <2>3. /\ cost' \in [Requests -> Int] /\ seen' \in [Requests -> Int]
        /\ \A q \in Requests \ {r} : cost'[q] = cost[q] /\ seen'[q] = seen[q]
        /\ t = "checked" => cost'[r] <= seen'[r]
    BY <2>1, <2>2 DEF ShopInv, ShopTypeOK
  <2>4. t \in {"found", "begun", "checked", "refused"}
    OBVIOUS
  <2> HIDE DEF t
  <2> QED BY <2>2, <2>3, <2>4, ReadKeepsInv DEF Ended
<1>4. ASSUME NEW r \in Requests, Fails(r) PROVE ShopInv'
  <2>1. at' = [q \in Requests |-> IF q \in {r} THEN "failed" ELSE at[q]]
    BY <1>4 DEF Fails, ShopInv, ShopTypeOK
  <2>2. lock' \in [Buyers -> Requests \union {Free}]
    BY <1>4 DEF Fails, Unlocked, ShopInv, ShopTypeOK
  <2>3. \A q \in Requests \ {r} : at[q] \in {"deducted", "created"} => lock'[By[q]] = q
    BY <1>4, ShopAssumption DEF Fails, Unlocked, ShopInv, Exclusive
  <2> QED BY <1>4, <2>1, <2>2, <2>3, FailureKeepsInv DEF Fails, InTransaction, Ended
<1>5. CASE ApiDies
  <2> DEFINE R == {q \in Requests : at[q] \notin {"new"} \union Ended}
  <2>1. at' = [q \in Requests |-> IF q \in R THEN "failed" ELSE at[q]]
    BY <1>5 DEF ApiDies
  <2>2. lock' \in [Buyers -> Requests \union {Free}]
    BY <1>5 DEF ApiDies
  <2>3. \A q \in Requests \ R : at[q] \notin {"deducted", "created"}
    BY DEF Ended
  <2> QED BY <1>5, <2>1, <2>2, <2>3, FailureKeepsInv DEF ApiDies
<1>6. ASSUME NEW i \in Items, Reprice(i) PROVE ShopInv'
  BY <1>6 DEF Reprice, ShopInv, ShopTypeOK, Exclusive, Checked, RowIsNew, PaidOnce, Owned, Row
<1>7. CASE UNCHANGED shopVars
  BY <1>7 DEF shopVars, ShopInv, ShopTypeOK, Exclusive, Checked, RowIsNew, PaidOnce, Owned, Row
<1> QED
  BY <1>1, <1>2, <1>3, <1>4, <1>5, <1>6, <1>7, DeductKeepsInv, CreateKeepsInv, PurchaseKeepsInv
     DEF ShopNext, Step

-------------------------------------------------------------------------------
LEMMA ShopAlwaysInv == ShopSpec => []ShopInv
BY ShopInitInv, ShopStepKeepsInv, PTL DEF ShopSpec

\* Every reachable state of the shop is well typed.
THEOREM ShopTypeCorrect == ShopSpec => []ShopTypeOK
<1>1. ShopInv => ShopTypeOK
  BY DEF ShopInv
<1> QED BY <1>1, ShopAlwaysInv, PTL

\* A request that was answered with success owns the row of Unlock, and no other
\* request does, however purchases of one item overlap (POST /purchase).
THEOREM PaidOnceAlways == ShopSpec => []PaidOnce
<1>1. ShopInv => PaidOnce
  BY DEF ShopInv
<1> QED BY <1>1, ShopAlwaysInv, PTL

\* A balance below zero always comes from a check that had gone stale: nobody
\* can come between the update of the row and the commit (POST /purchase).
THEOREM OverdrawnOnlyIfStaleAlways == ShopSpec => OverdrawnOnlyIfStale
<1>1. ShopInv /\ [ShopNext]_shopVars =>
        [\A r \in Requests :
           Goes(r, "created", "bought") /\ coins'[By[r]] < 0 => seen[r] # coins[By[r]]]_shopVars
  <2> SUFFICES ASSUME ShopInv, ShopNext, NEW r \in Requests,
                      Goes(r, "created", "bought"), coins'[By[r]] < 0
               PROVE  seen[r] # coins[By[r]]
    BY DEF shopVars
  <2>1. at[r] = "created" /\ at'[r] = "bought"
    BY DEF Goes, ShopInv, ShopTypeOK
  <2>2. CommitPurchase(r)
    BY <2>1 DEF ShopNext, Step, ReadItem, ReadUnlock, ReadBalance, Deduct, Create, CommitPurchase, Goes, Fails,
                ApiDies, Reprice, ShopInv, ShopTypeOK, Ended
  <2>3. coins'[By[r]] = coins[By[r]] - cost[r] /\ cost[r] <= seen[r]
    BY <2>1, <2>2, ShopAssumption DEF CommitPurchase, ShopInv, ShopTypeOK, Exclusive, Checked
  <2> QED BY <2>3, ShopAssumption DEF ShopInv, ShopTypeOK
<1> QED BY <1>1, ShopAlwaysInv, PTL DEF ShopSpec, OverdrawnOnlyIfStale

-------------------------------------------------------------------------------
(***************************************************************************)
(* The coins.                                                              *)
(***************************************************************************)
LEMMA BoughtFinite == \A p : IsFiniteSet(Bought(p))
<1>1. \A p : Bought(p) \subseteq Requests
  BY DEF Bought
<1> QED BY <1>1, ShopAssumption, FS_Subset

\* No purchase is committed, and none that was changes its price.
LEMMA CoinsStay ==
  ASSUME CoinsAddUp, coins' = coins,
         \A r \in Requests : at'[r] = "bought" <=> at[r] = "bought",
         \A r \in Requests : at[r] = "bought" => cost'[r] = cost[r]
  PROVE  CoinsAddUp'
<1> SUFFICES ASSUME NEW p \in Buyers
             PROVE  coins'[p] = Purse[p] - SumFunctionOnSet(cost', Bought(p)')
  BY DEF CoinsAddUp
<1>1. Bought(p)' = Bought(p)
  BY DEF Bought
<1>2. \A r \in Bought(p) : cost'[r] = cost[r]
  BY DEF Bought
<1>3. SumFunctionOnSet(cost', Bought(p)) = SumFunctionOnSet(cost, Bought(p))
  BY <1>2, BoughtFinite, SumsEqual
<1> QED BY <1>1, <1>3 DEF CoinsAddUp

LEMMA CoinsPaid ==
  ASSUME ShopInv, CoinsAddUp, NEW r \in Requests, CommitPurchase(r)
  PROVE  CoinsAddUp'
<1> SUFFICES ASSUME NEW p \in Buyers
             PROVE  coins'[p] = Purse[p] - SumFunctionOnSet(cost', Bought(p)')
  BY DEF CoinsAddUp
<1>1. /\ at[r] = "created" /\ at' = [at EXCEPT ![r] = "bought"]
      /\ coins' = [coins EXCEPT ![By[r]] = coins[By[r]] - cost[r]]
      /\ cost' = cost
  BY DEF CommitPurchase, Goes, ShopInv, Exclusive
<1>2. at \in [Requests -> {"new", "found"} \union InTransaction \union Ended]
      /\ coins \in [Buyers -> Int] /\ cost \in [Requests -> Int] /\ By[r] \in Buyers
  BY ShopAssumption DEF ShopInv, ShopTypeOK
<1>3. at'[r] = "bought" /\ \A q \in Requests \ {r} : at'[q] = at[q]
  BY <1>1, <1>2
<1>4. coins[p] = Purse[p] - SumFunctionOnSet(cost, Bought(p))
  BY DEF CoinsAddUp
<1>5. CASE p = By[r]
  <2>1. r \notin Bought(p) /\ Bought(p)' = Bought(p) \union {r}
    BY <1>1, <1>3, <1>5 DEF Bought
  <2>2. \A q \in Bought(p) \union {r} : cost[q] \in Int
    BY <1>2 DEF Bought
  <2>3. /\ SumFunctionOnSet(cost, Bought(p)) \in Int
        /\ SumFunctionOnSet(cost, Bought(p) \union {r}) = cost[r] + SumFunctionOnSet(cost, Bought(p))
    BY <2>1, <2>2, BoughtFinite, SumOfMore
  <2>4. coins'[p] = coins[p] - cost[r] /\ Purse[p] \in Int /\ cost[r] \in Int
    BY <1>1, <1>2, <1>5, ShopAssumption
  <2>5. SumFunctionOnSet(cost', Bought(p)') = cost[r] + SumFunctionOnSet(cost, Bought(p))
    BY <1>1, <2>1, <2>3
  <2> QED BY <1>4, <2>3, <2>4, <2>5
<1>6. CASE p # By[r]
  <2>1. Bought(p)' = Bought(p)
    BY <1>3, <1>6 DEF Bought
  <2>2. coins'[p] = coins[p]
    BY <1>1, <1>2, <1>6
  <2> QED BY <1>1, <1>4, <2>1, <2>2
<1> QED BY <1>5, <1>6

\* Every coin that is gone was paid for an item, at the price the request read,
\* however purchases overlap and fail (POST /purchase).
THEOREM CoinsAddUpAlways == ShopSpec => []CoinsAddUp
<1>1. ShopInit => CoinsAddUp
  <2> SUFFICES ASSUME ShopInit, NEW p \in Buyers
               PROVE  coins[p] = Purse[p] - SumFunctionOnSet(cost, Bought(p))
    BY DEF CoinsAddUp
  <2>1. Bought(p) = {}
    BY DEF Bought, ShopInit
  <2>2. SumFunctionOnSet(cost, Bought(p)) = 0
    BY <2>1, BoughtFinite, SumOfNone
  <2> QED BY <2>2, ShopAssumption DEF ShopInit
<1>2. ShopInv /\ CoinsAddUp /\ [ShopNext]_shopVars => CoinsAddUp'
  <2> SUFFICES ASSUME ShopInv, CoinsAddUp, [ShopNext]_shopVars PROVE CoinsAddUp'
    OBVIOUS
  <2>0. at \in [Requests -> {"new", "found"} \union InTransaction \union Ended]
        /\ cost \in [Requests -> Int]
    BY DEF ShopInv, ShopTypeOK
  <2>1. ASSUME NEW r \in Requests, ReadItem(r) \/ ReadUnlock(r) \/ ReadBalance(r) \/ Deduct(r)
                                   \/ Create(r) \/ Fails(r)
        PROVE  CoinsAddUp'
    <3>1. coins' = coins /\ \A q \in Requests : at'[q] = "bought" <=> at[q] = "bought"
      BY <2>0, <2>1
         DEF ReadItem, ReadUnlock, ReadBalance, Deduct, Create, Fails, Goes, InTransaction, Ended
    <3>2. \A q \in Requests : at[q] = "bought" => cost'[q] = cost[q]
      BY <2>0, <2>1 DEF ReadItem, ReadUnlock, ReadBalance, Deduct, Create, Fails, Goes
    <3> QED BY <3>1, <3>2, CoinsStay
  <2>2. CASE ApiDies
    BY <2>0, <2>2, CoinsStay DEF ApiDies, Ended
  <2>3. ASSUME NEW i \in Items, Reprice(i) PROVE CoinsAddUp'
    BY <2>3, CoinsStay DEF Reprice
  <2>4. CASE UNCHANGED shopVars
    BY <2>4, CoinsStay DEF shopVars
  <2> QED BY <2>1, <2>2, <2>3, <2>4, CoinsPaid DEF ShopNext, Step
<1> QED BY <1>1, <1>2, ShopAlwaysInv, PTL DEF ShopSpec
===============================================================================
