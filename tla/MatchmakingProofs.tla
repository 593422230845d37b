--------------------------- MODULE MatchmakingProofs ---------------------------
(***************************************************************************)
(* Theorems about matchmaking, for any players, ratings, regions,          *)
(* requests and bounds.                                                    *)
(*                                                                         *)
(* PairsSound follows from what a scan holds: the players of its entries   *)
(* and of those it still has to read are all different (ScanInv), and who  *)
(* has waited long enough has so ever after (WaitInv).  OneRoomPerScanner  *)
(* follows a join from its key in Redis to its room: when a scanner posts  *)
(* a room, the keys of its two players have been deleted since it read     *)
(* them, and a join whose room it has posted is neither in Redis nor in    *)
(* what that scanner holds (TicketInv).  Another scanner may hold it.      *)
(***************************************************************************)
EXTENDS Matchmaking, FiniteSetTheorems, SequenceTheorems, TLAPS

Close(a, b) ==
  a.player # b.player /\ Rating[a.player] - Rating[b.player] \in (-EloMax)..EloMax

\* By the time t, a has waited long enough for b.
Span(a, t) == EloInitial + EloExpansion * (t - a.at)
Waited(a, b, t) == Rating[a.player] - Rating[b.player] \in (-Span(a, t))..Span(a, t)

\* The players of the entries differ.
Different(es) == \A k, l \in 1..Len(es) : k # l => es[k].player # es[l].player

ScanOK(c) ==
  /\ \A i, j \in 1..Len(c.todo) : i # j => c.todo[i] # c.todo[j]
  /\ Different(c.entries)
  /\ \A i \in 1..Len(c.entries) : \A j \in 1..Len(c.todo) : c.entries[i].player # c.todo[j]
  /\ c.pc = "ready" => c.entries = <<>>
  /\ c.pc = "dropping" => c.todo # <<>>
  /\ c.pc \in {"removing", "posting"} =>
       /\ c.pair \in Entry \X Entry /\ Close(c.pair[1], c.pair[2])
       /\ \A i \in 1..Len(c.entries) :
            c.entries[i].player \notin {c.pair[1].player, c.pair[2].player}

ScanInv == \A m \in Scanners : ScanOK(scan[m])

\* The part of PairsSound that time does not touch.
PairsClose == \A n \in DOMAIN rooms : Close(rooms[n][1], rooms[n][2])

RoomsInv ==
  /\ PairsClose
  /\ \A m \in Scanners : scan[m].pc = "announcing" => scan[m].room \in 1..Len(rooms)

IInv == TypeOK /\ ScanInv /\ RoomsInv

ScanType ==
  [pc : {"ready", "reading", "dropping", "removing", "posting", "announcing"},
   k : 1..Len(REGIONS), todo : Seq(Players), entries : Seq(Entry),
   pair : (Entry \X Entry) \union {<<>>}, step : 1..4, room : Nat]

-------------------------------------------------------------------------------
(***************************************************************************)
(* The pairing.                                                            *)
(***************************************************************************)
LEMMA SortedFacts ==
  ASSUME NEW S \in SUBSET Players, NEW s \in Sorted(S)
  PROVE  /\ s \in Seq(Players) /\ DOMAIN s = 1..Len(s)
         /\ \A i, j \in 1..Len(s) : i # j => s[i] # s[j]
<1>1. Cardinality(S) \in Nat
  BY MatchmakingAssumption, FS_Subset, FS_CardinalityType
<1>2. s \in [1..Cardinality(S) -> S] /\ \A i, j \in DOMAIN s : i < j => Before(s[i], s[j])
  BY DEF Sorted
<1>3. s \in Seq(Players) /\ Len(s) = Cardinality(S) /\ DOMAIN s = 1..Len(s)
  BY <1>1, <1>2
<1>4. \A p \in Players : ~Before(p, p)
  BY MatchmakingAssumption DEF Before
<1>5. ASSUME NEW i \in 1..Len(s), NEW j \in 1..Len(s), i < j PROVE s[i] # s[j]
  BY <1>2, <1>3, <1>4, <1>5
<1>6. ASSUME NEW i \in 1..Len(s), NEW j \in 1..Len(s), i # j PROVE s[i] # s[j]
  <2>1. i < j \/ j < i
    BY <1>1, <1>3, <1>6
  <2> QED BY <1>5, <2>1
<1> QED BY <1>3, <1>6

LEMMA EntryFacts ==
  ASSUME NEW e \in Entry
  PROVE  /\ e.ticket \in Requests /\ e.player \in Players /\ e.player = By[e.ticket]
         /\ e.region \in RegionSet /\ e.at \in 0..MaxTime
BY DEF Entry

LEMMA PairFits ==
  ASSUME TypeOK, NEW es \in Seq(Entry), NEW ij \in Pairs(es),
         Different(es)
  PROVE  /\ ij[1] \in 1..Len(es) /\ ij[2] \in 1..Len(es) /\ ij[1] < ij[2]
         /\ es[ij[1]] \in Entry /\ es[ij[2]] \in Entry /\ Close(es[ij[1]], es[ij[2]])
         /\ Waited(es[ij[1]], es[ij[2]], now)
<1> DEFINE a == es[ij[1]]  b == es[ij[2]]
<1>1. /\ ij[1] \in 1..Len(es) /\ ij[2] \in 1..Len(es) /\ ij[1] < ij[2]
      /\ Distance(a, b) <= eloRange(a)
  BY DEF Pairs
<1>2. a \in Entry /\ b \in Entry /\ a.player # b.player
  BY <1>1 DEF Different
<1>3. Rating[a.player] \in Nat /\ Rating[b.player] \in Nat /\ EloMax \in Nat
  BY <1>2, EntryFacts, MatchmakingAssumption
<1>4. eloRange(a) <= EloMax /\ eloRange(a) <= Wide(a) /\ eloRange(a) \in Int /\ Wide(a) \in Int
  <2>1. /\ EloInitial \in Nat /\ EloExpansion \in Nat /\ EloMax \in Nat /\ MaxTime \in Nat
        /\ now \in Int /\ a.at \in Int
    BY <1>2, EntryFacts, MatchmakingAssumption DEF TypeOK
  <2>2. Wide(a) \in Int
    BY <2>1 DEF Wide
  <2> QED BY <2>1, <2>2 DEF eloRange
<1>5. /\ Rating[a.player] - Rating[b.player] \in (-EloMax)..EloMax
      /\ Rating[a.player] - Rating[b.player] \in (-Wide(a))..Wide(a)
  <2> DEFINE x == Rating[a.player]  y == Rating[b.player]
  <2>1. Distance(a, b) = (IF x < y THEN y - x ELSE x - y) /\ Distance(a, b) <= eloRange(a)
    BY <1>1 DEF Distance
  <2>2. x \in Nat /\ y \in Nat /\ EloMax \in Nat /\ eloRange(a) \in Int /\ eloRange(a) <= EloMax
        /\ eloRange(a) <= Wide(a) /\ Wide(a) \in Int
    BY <1>3, <1>4
  <2> HIDE DEF x, y
  <2>3. x - y \in (-EloMax)..EloMax /\ x - y \in (-Wide(a))..Wide(a)
    BY <2>1, <2>2
  <2> QED BY <2>3 DEF x, y
<1>6. Waited(a, b, now)
  BY <1>5 DEF Waited, Span, Wide
<1> QED BY <1>1, <1>2, <1>5, <1>6 DEF Close

\* What is left of the entries are others than the two, each once.
Without(es, i, j, rest) ==
  /\ rest \in Seq(Entry) /\ Different(rest)
  /\ \A k \in 1..Len(rest) : /\ rest[k].player # es[i].player /\ rest[k].player # es[j].player
                             /\ \E l \in 1..Len(es) : rest[k] = es[l]

LEMMA AfterFacts ==
  ASSUME NEW es \in Seq(Entry), NEW i \in 1..Len(es), NEW j \in 1..Len(es), i < j,
         Different(es)
  PROVE  Without(es, i, j, After(es, <<i, j>>))
<1> SUFFICES ASSUME NEW rest, rest = After(es, <<i, j>>) PROVE Without(es, i, j, rest)
  OBVIOUS
<1> DEFINE s1 == SubSeq(es, i + 1, j - 1)  s2 == SubSeq(es, j + 1, Len(es))
           Place(k) == IF k <= j - i - 1 THEN k + i ELSE k + i + 1
<1>1. Len(es) \in Nat /\ i \in Nat /\ j \in Nat /\ 1 <= i /\ i < j /\ j <= Len(es)
  OBVIOUS
<1>2. /\ s1 \in Seq(Entry) /\ Len(s1) = j - i - 1
      /\ \A k \in 1..Len(s1) : s1[k] = es[k + i]
  BY <1>1
<1>3. /\ s2 \in Seq(Entry) /\ Len(s2) = Len(es) - j
      /\ \A k \in 1..Len(s2) : s2[k] = es[k + j]
  BY <1>1
<1>4. rest = s1 \o s2
  BY DEF After
<1> HIDE DEF s1, s2
<1>5. /\ rest \in Seq(Entry) /\ Len(rest) = Len(s1) + Len(s2)
      /\ \A k \in 1..Len(s1) + Len(s2) : rest[k] = IF k <= Len(s1) THEN s1[k] ELSE s2[k - Len(s1)]
  <2>1. /\ s1 \o s2 \in Seq(Entry) /\ Len(s1 \o s2) = Len(s1) + Len(s2)
        /\ \A k \in 1..Len(s1) + Len(s2) :
             (s1 \o s2)[k] = IF k <= Len(s1) THEN s1[k] ELSE s2[k - Len(s1)]
    BY <1>2, <1>3, ConcatProperties
  <2> QED BY <1>4, <2>1, Zenon
<1>6. Len(rest) = Len(es) - i - 1 /\ Len(rest) \in Nat
  <2>1. Len(rest) = Len(s1) + Len(s2) /\ Len(s1) = j - i - 1 /\ Len(s2) = Len(es) - j
    BY <1>2, <1>3, <1>5, Zenon
  <2> QED BY <1>1, <2>1
<1>7. ASSUME NEW k \in 1..Len(rest)
      PROVE  Place(k) \in 1..Len(es) /\ rest[k] = es[Place(k)] /\ Place(k) \notin {i, j}
  <2>0. k \in Nat /\ k >= 1 /\ k <= Len(rest)
    BY <1>6
  <2>1. CASE k <= j - i - 1
    <3>1. k \in 1..Len(s1) /\ k <= Len(s1) /\ k \in 1..Len(s1) + Len(s2)
      BY <1>1, <1>2, <1>3, <2>0, <2>1
    <3>2. rest[k] = es[k + i]
      BY <1>2, <1>5, <3>1
    <3> QED BY <1>1, <2>0, <2>1, <3>2
  <2>2. CASE ~(k <= j - i - 1)
    <3>1. k - Len(s1) \in 1..Len(s2) /\ k - Len(s1) + j = k + i + 1
      BY <1>1, <1>2, <1>3, <1>6, <2>0, <2>2
    <3>2. k \in 1..Len(s1) + Len(s2) /\ ~(k <= Len(s1))
      BY <1>1, <1>2, <1>3, <1>6, <2>0, <2>2
    <3>3. rest[k] = es[k + i + 1]
      BY <1>3, <1>5, <3>1, <3>2
    <3> QED BY <1>1, <1>6, <2>0, <2>2, <3>3
  <2> QED BY <2>1, <2>2
<1>8. ASSUME NEW k \in 1..Len(rest), NEW l \in 1..Len(rest), k # l PROVE Place(k) # Place(l)
  BY <1>1, <1>6, <1>8
<1> HIDE DEF Place
<1>9. ASSUME NEW k \in 1..Len(rest), NEW l \in 1..Len(rest), k # l
      PROVE  rest[k].player # rest[l].player
  <2>1. /\ Place(k) \in 1..Len(es) /\ rest[k] = es[Place(k)]
        /\ Place(l) \in 1..Len(es) /\ rest[l] = es[Place(l)] /\ Place(k) # Place(l)
    BY <1>7, <1>8, <1>9, Zenon
  <2>2. es[Place(k)].player # es[Place(l)].player
    BY <2>1, Zenon DEF Different
  <2> QED BY <2>1, <2>2, Zenon
<1>10. ASSUME NEW k \in 1..Len(rest)
       PROVE  /\ rest[k].player # es[i].player /\ rest[k].player # es[j].player
              /\ \E l \in 1..Len(es) : rest[k] = es[l]
  <2>1. Place(k) \in 1..Len(es) /\ rest[k] = es[Place(k)] /\ Place(k) \notin {i, j}
    BY <1>7, Zenon
  <2>2. es[Place(k)].player # es[i].player /\ es[Place(k)].player # es[j].player
    BY <2>1, Zenon DEF Different
  <2> QED BY <2>1, <2>2, Zenon
<1> QED BY <1>5, <1>9, <1>10, Zenon DEF Different, Without

-------------------------------------------------------------------------------
(***************************************************************************)
(* A scan, step by step: what becomes of its record.                       *)
(***************************************************************************)
Moved(m, d) == scan' = [scan EXCEPT ![m] = d]

LEMMA RecordFacts ==
  ASSUME TypeOK, NEW m \in Scanners
  PROVE  /\ scan \in [Scanners -> ScanType] /\ scan[m] \in ScanType
         /\ scan[m].todo \in Seq(Players) /\ scan[m].entries \in Seq(Entry)
         /\ scan[m].k \in 1..Len(REGIONS) /\ At(m) \in RegionSet
         /\ scan[m].step \in 1..4 /\ scan[m].room \in Nat
         /\ scan[m].pair \in (Entry \X Entry) \union {<<>>}
         /\ zset[At(m)] \in SUBSET Players
<1>1. scan \in [Scanners -> ScanType]
  BY DEF TypeOK, ScanType
<1>2. scan[m] \in ScanType
  BY <1>1
<1>3. scan[m].k \in 1..Len(REGIONS)
  BY <1>2 DEF ScanType
<1>4. At(m) \in RegionSet
  BY <1>3 DEF At, RegionSet
<1> QED BY <1>1, <1>2, <1>3, <1>4 DEF TypeOK, ScanType

LEMMA IdleFacts ==
  ASSUME NEW k \in 1..Len(REGIONS)
  PROVE  [Idle EXCEPT !.k = k] \in ScanType /\ ScanOK([Idle EXCEPT !.k = k]) /\ Idle \in ScanType /\ ScanOK(Idle)
<1>1. Len(REGIONS) \in Nat /\ 1 \in 1..Len(REGIONS)
  BY MatchmakingAssumption
<1>2. <<>> \in Seq(Players) /\ <<>> \in Seq(Entry) /\ 1..Len(<<>>) = {}
  OBVIOUS
<1> DEFINE d == [pc |-> "ready", k |-> k, todo |-> <<>>, entries |-> <<>>, pair |-> <<>>, step |-> 1, room |-> 0]
<1>3. [Idle EXCEPT !.k = k] = d
  BY DEF Idle
<1>4. d \in ScanType /\ ScanOK(d)
  BY <1>2 DEF ScanType, ScanOK, Different
<1>5. Idle = [pc |-> "ready", k |-> 1, todo |-> <<>>, entries |-> <<>>, pair |-> <<>>, step |-> 1, room |-> 0]
  BY DEF Idle
<1>6. Idle \in ScanType /\ ScanOK(Idle)
  BY <1>1, <1>2, <1>5 DEF ScanType, ScanOK, Different
<1> QED BY <1>3, <1>4, <1>6

LEMMA ReadMembersMoves ==
  ASSUME TypeOK, ScanInv, NEW m \in Scanners, ReadMembers(m)
  PROVE  \E d \in ScanType : Moved(m, d) /\ ScanOK(d) /\ d.pc = "reading" /\ d.entries = <<>>
<1> DEFINE c == scan[m]
<1>1. PICK s \in Sorted(zset[At(m)]) : scan' = [scan EXCEPT ![m].pc = "reading", ![m].todo = s]
  BY DEF ReadMembers
<1>2. s \in Seq(Players) /\ \A i, j \in 1..Len(s) : i # j => s[i] # s[j]
  BY RecordFacts, SortedFacts
<1>3. c \in ScanType /\ c.entries = <<>>
  BY RecordFacts DEF ReadMembers, ScanInv, ScanOK
<1> DEFINE d == [c EXCEPT !.pc = "reading", !.todo = s]
<1>4. Moved(m, d)
  BY <1>1, RecordFacts DEF Moved
<1>5. d \in ScanType /\ d.pc = "reading" /\ d.entries = <<>> /\ d.todo = s
  BY <1>2, <1>3 DEF ScanType
<1> HIDE DEF d
<1>6. ScanOK(d)
  BY <1>2, <1>5 DEF ScanOK, Different
<1> QED BY <1>4, <1>5, <1>6

\* A member is taken from the list; its entry, if it has one, is added.
LEMMA MemberMoves ==
  ASSUME TypeOK, ScanInv, NEW m \in Scanners, ReadMeta(m) \/ DropMember(m)
  PROVE  \E d \in ScanType :
           /\ Moved(m, d) /\ ScanOK(d) /\ d.pc \in {"reading", "dropping"}
           /\ \/ d.entries = scan[m].entries
              \/ \E p \in Players : Queued(p) /\ d.entries = Append(scan[m].entries, meta[p].entry)
<1> DEFINE c == scan[m]  p == Head(c.todo)
<1>0. c \in ScanType /\ ScanOK(c) /\ c.todo \in Seq(Players) /\ c.entries \in Seq(Entry)
  BY RecordFacts DEF ScanInv
<1>1. c.todo # <<>>
  BY <1>0 DEF ReadMeta, DropMember, ScanOK
<1>2. /\ p \in Players /\ p = c.todo[1] /\ Tail(c.todo) \in Seq(Players)
      /\ Len(c.todo) \in Nat \ {0} /\ Len(Tail(c.todo)) = Len(c.todo) - 1
      /\ \A i \in 1..Len(Tail(c.todo)) : i + 1 \in 1..Len(c.todo) /\ Tail(c.todo)[i] = c.todo[i + 1]
  BY <1>0, <1>1
<1>3. \A i, j \in 1..Len(Tail(c.todo)) : i # j => Tail(c.todo)[i] # Tail(c.todo)[j]
  BY <1>0, <1>2 DEF ScanOK
<1>4. \A i \in 1..Len(Tail(c.todo)) : Tail(c.todo)[i] # p
  BY <1>0, <1>2 DEF ScanOK
<1>5. \A i \in 1..Len(c.entries) : c.entries[i].player # p
  BY <1>0, <1>1, <1>2 DEF ScanOK
<1>6. CASE ReadMeta(m) /\ Queued(p)
  <2> DEFINE e == meta[p].entry  d == [c EXCEPT !.todo = Tail(c.todo), !.entries = Append(c.entries, e)]
  <2>1. e \in Entry /\ e.player = p
    BY <1>2, <1>6 DEF Queued, TypeOK
  <2>2. Moved(m, d) /\ c.pc = "reading"
    BY <1>6, RecordFacts DEF ReadMeta, Moved
  <2> HIDE DEF e
  <2>3. /\ Append(c.entries, e) \in Seq(Entry) /\ Len(c.entries) \in Nat
        /\ Len(Append(c.entries, e)) = Len(c.entries) + 1
        /\ \A i \in 1..Len(c.entries) : Append(c.entries, e)[i] = c.entries[i]
        /\ Append(c.entries, e)[Len(c.entries) + 1] = e
    BY <1>0, <2>1
  <2>4. /\ d \in ScanType /\ d.pc = "reading"
        /\ d.todo = Tail(c.todo) /\ d.entries = Append(c.entries, e)
    BY <1>0, <1>2, <2>2, <2>3 DEF ScanType
  <2> HIDE DEF d
  <2>5. \A i, j \in 1..Len(d.entries) : i # j => d.entries[i].player # d.entries[j].player
    <3>1. \A i \in 1..Len(d.entries) : i \in 1..Len(c.entries) \/ i = Len(c.entries) + 1
      BY <2>3, <2>4
    <3> DEFINE o == c.entries  n == Len(o) + 1
    <3>2. /\ Different(o) /\ d.entries[n] = e /\ \A i \in 1..Len(o) : d.entries[i] = o[i]
          /\ \A i \in 1..Len(o) : o[i].player # p
      BY <1>0, <1>5, <2>3, <2>4 DEF ScanOK
    <3> HIDE DEF o, n
    <3>3. \A i \in 1..Len(d.entries) : i \in 1..Len(o) \/ i = n
      BY <3>1 DEF o, n
    <3> QED BY <2>1, <3>2, <3>3, Zenon DEF Different
  <2>6. ASSUME NEW i \in 1..Len(d.entries), NEW j \in 1..Len(d.todo) PROVE d.entries[i].player # d.todo[j]
    <3>1. i \in 1..Len(c.entries) \/ i = Len(c.entries) + 1
      BY <2>3, <2>4
    <3>2. CASE i \in 1..Len(c.entries)
      <4>1. c.entries[i].player # Tail(c.todo)[j]
        BY <1>0, <1>2, <2>4, <3>2 DEF ScanOK
      <4> QED BY <2>3, <2>4, <3>2, <4>1
    <3>3. CASE i = Len(c.entries) + 1
      <4>1. d.entries[i] = e
        BY <2>3, <2>4, <3>3
      <4> QED BY <1>4, <2>1, <2>4, <4>1
    <3> QED BY <3>1, <3>2, <3>3
  <2>7. ScanOK(d)
    BY <1>3, <2>4, <2>5, <2>6, Zenon DEF ScanOK, Different
  <2> QED BY <1>2, <1>6, <2>2, <2>4, <2>7 DEF e
<1>7. CASE ReadMeta(m) /\ ~Queued(p)
  <2> DEFINE d == [c EXCEPT !.pc = "dropping"]
  <2>1. Moved(m, d) /\ c.pc = "reading"
    BY <1>7, RecordFacts DEF ReadMeta, Moved
  <2>2. d \in ScanType /\ d.pc = "dropping" /\ d.todo = c.todo /\ d.entries = c.entries
    BY <1>0 DEF ScanType
  <2> HIDE DEF d
  <2>3. ScanOK(d)
    BY <1>0, <1>1, <2>2 DEF ScanOK
  <2> QED BY <2>1, <2>2, <2>3
<1>8. CASE DropMember(m)
  <2> DEFINE d == [c EXCEPT !.pc = "reading", !.todo = Tail(c.todo)]
  <2>1. Moved(m, d)
    BY <1>8, RecordFacts DEF DropMember, Moved
  <2>2. d \in ScanType /\ d.pc = "reading" /\ d.todo = Tail(c.todo) /\ d.entries = c.entries
    BY <1>0, <1>2 DEF ScanType
  <2> HIDE DEF d
  <2>3. \A i \in 1..Len(d.entries) : \A j \in 1..Len(d.todo) : d.entries[i].player # d.todo[j]
    BY <1>0, <1>2, <2>2 DEF ScanOK
  <2>4. ScanOK(d)
    BY <1>0, <1>3, <2>2, <2>3 DEF ScanOK
  <2> QED BY <2>1, <2>2, <2>4
<1> QED BY <1>6, <1>7, <1>8
\* A pair is taken from the entries, or the scan goes on to the next region.
LEMMA FindPairMoves ==
  ASSUME TypeOK, ScanInv, NEW m \in Scanners, FindPair(m)
  PROVE  \E d \in ScanType :
           /\ Moved(m, d) /\ ScanOK(d) /\ d.pc \in {"removing", "ready"}
           /\ \A i \in 1..Len(d.entries) : \E j \in 1..Len(scan[m].entries) : d.entries[i] = scan[m].entries[j]
           /\ d.pc = "removing" => /\ d.step = 1 /\ Waited(d.pair[1], d.pair[2], now)
                                   /\ \E i, j \in 1..Len(scan[m].entries) :
                                        d.pair = <<scan[m].entries[i], scan[m].entries[j]>>
<1> DEFINE c == scan[m]  es == c.entries
<1>0. c \in ScanType /\ ScanOK(c) /\ es \in Seq(Entry) /\ c.todo = <<>>
  BY RecordFacts DEF ScanInv, FindPair
<1>1. CASE \E ij \in Pairs(es) :
              scan' = [scan EXCEPT ![m].pc = "removing", ![m].step = 1,
                                   ![m].pair = <<es[ij[1]], es[ij[2]]>>, ![m].entries = After(es, ij)]
  <2>0. Different(es)
    BY <1>0 DEF ScanOK
  <2>1. PICK i \in 1..Len(es), j \in 1..Len(es) :
          /\ i < j /\ es[i] \in Entry /\ es[j] \in Entry /\ Close(es[i], es[j]) /\ Waited(es[i], es[j], now)
          /\ scan' = [scan EXCEPT ![m].pc = "removing", ![m].step = 1,
                                  ![m].pair = <<es[i], es[j]>>, ![m].entries = After(es, <<i, j>>)]
    <3>1. PICK ij \in Pairs(es) :
            scan' = [scan EXCEPT ![m].pc = "removing", ![m].step = 1,
                                 ![m].pair = <<es[ij[1]], es[ij[2]]>>, ![m].entries = After(es, ij)]
      BY <1>1
    <3>2. ij = <<ij[1], ij[2]>>
      BY DEF Pairs
    <3>3. /\ ij[1] \in 1..Len(es) /\ ij[2] \in 1..Len(es) /\ ij[1] < ij[2]
          /\ es[ij[1]] \in Entry /\ es[ij[2]] \in Entry /\ Close(es[ij[1]], es[ij[2]])
          /\ Waited(es[ij[1]], es[ij[2]], now)
      BY <1>0, <2>0, PairFits
    <3> QED BY <3>1, <3>2, <3>3
  <2> DEFINE a == es[i]  b == es[j]  rest == After(es, <<i, j>>)
             d == [c EXCEPT !.pc = "removing", !.step = 1, !.pair = <<a, b>>, !.entries = rest]
  <2>2. Moved(m, d)
    BY <2>1, RecordFacts DEF Moved
  <2> HIDE DEF rest
  <2>6. /\ rest \in Seq(Entry) /\ Different(rest)
        /\ \A k \in 1..Len(rest) : /\ rest[k].player # a.player /\ rest[k].player # b.player
                                   /\ \E l \in 1..Len(es) : rest[k] = es[l]
    <3>1. Without(es, i, j, rest)
      BY <1>0, <2>0, <2>1, AfterFacts DEF rest
    <3> QED BY <3>1 DEF Without
  <2>7. c.k \in 1..Len(REGIONS) /\ c.room \in Nat /\ <<a, b>> \in Entry \X Entry
    BY <2>1, RecordFacts
  <2>8. /\ d \in ScanType /\ d.pc = "removing" /\ d.step = 1 /\ d.pair = <<a, b>>
        /\ d.entries = rest /\ d.todo = <<>>
    <3>1. c \in ScanType /\ c.todo = <<>> /\ rest \in Seq(Entry) /\ <<a, b>> \in Entry \X Entry
      BY <1>0, <2>6, <2>7
    <3> DEFINE q == <<a, b>>
    <3>2. d = [c EXCEPT !.pc = "removing", !.step = 1, !.pair = q, !.entries = rest]
      OBVIOUS
    <3> HIDE DEF c, q, d
    <3>3. d.pc = "removing" /\ d.step = 1 /\ d.pair = q /\ d.entries = rest /\ d.todo = c.todo
      BY <3>1, <3>2 DEF ScanType
    <3>4. d \in ScanType
      <4>1. q \in (Entry \X Entry) \union {<<>>} /\ 1 \in 1..4
        BY <3>1 DEF q
      <4> QED BY <3>1, <3>2, <4>1 DEF ScanType
    <3> QED BY <3>1, <3>3, <3>4 DEF q
  <2> HIDE DEF d
  <2>11. ScanOK(d)
    BY <2>1, <2>6, <2>8 DEF ScanOK
  <2>12. Waited(d.pair[1], d.pair[2], now)
    <3>1. d.pair[1] = es[i] /\ d.pair[2] = es[j]
      BY <2>8
    <3> QED BY <2>1, <3>1
  <2> QED BY <2>1, <2>2, <2>6, <2>8, <2>11, <2>12
<1>2. CASE scan' = [scan EXCEPT ![m] = [Idle EXCEPT !.k = (scan[m].k % Len(REGIONS)) + 1]]
  <2> DEFINE k == (scan[m].k % Len(REGIONS)) + 1  d == [Idle EXCEPT !.k = k]
  <2>1. k \in 1..Len(REGIONS)
    BY RecordFacts, MatchmakingAssumption
  <2>2. d \in ScanType /\ ScanOK(d) /\ Moved(m, d)
    BY <1>2, <2>1, IdleFacts DEF Moved
  <2>3. d.pc = "ready" /\ d.entries = <<>>
    BY DEF Idle
  <2> HIDE DEF d
  <2>4. 1..Len(d.entries) = {}
    BY <2>3
  <2> QED BY <2>2, <2>3, <2>4
<1> QED BY <1>1, <1>2 DEF FindPair

LEMMA RemovePairMoves ==
  ASSUME TypeOK, ScanInv, NEW m \in Scanners, RemovePair(m)
  PROVE  \E d \in ScanType :
           /\ Moved(m, d) /\ ScanOK(d) /\ d.entries = scan[m].entries /\ d.pair = scan[m].pair
           /\ IF scan[m].step = 4 THEN d.pc = "posting" ELSE d.pc = "removing" /\ d.step = scan[m].step + 1
<1> DEFINE c == scan[m]  t == IF c.step = 4 THEN 1 ELSE c.step + 1
           q == IF c.step = 4 THEN "posting" ELSE c.pc
           d == [c EXCEPT !.step = t, !.pc = q]
<1>0. c \in ScanType /\ ScanOK(c) /\ c.pc = "removing" /\ t \in 1..4
  BY RecordFacts DEF ScanInv, RemovePair
<1>1. Moved(m, d)
  BY RecordFacts DEF RemovePair, Moved
<1>2. d \in ScanType /\ d.pc = q /\ d.step = t
      /\ d.entries = c.entries /\ d.todo = c.todo /\ d.pair = c.pair
  BY <1>0 DEF ScanType
<1>3. q \in {"posting", "removing"}
  BY <1>0
<1> HIDE DEF d
<1>4. ScanOK(d)
  BY <1>0, <1>2, <1>3 DEF ScanOK
<1> QED BY <1>0, <1>1, <1>2, <1>4

\* The numbers of rooms and failures are in their ranges.
Numbers ==
  published \subseteq DOMAIN rooms /\ orphans \subseteq DOMAIN rooms /\ failures \in 0..MaxFailures

LEMMA FailureCounts ==
  ASSUME failures \in 0..MaxFailures, failures' = failures \/ Failure
  PROVE  failures' \in 0..MaxFailures
BY MatchmakingAssumption DEF Failure

LEMMA PostRoomMoves ==
  ASSUME TypeOK, ScanInv, NEW m \in Scanners, NEW created \in BOOLEAN, NEW ok \in BOOLEAN,
         PostRoom(m, created, ok)
  PROVE  /\ rooms' \in Seq(Entry \X Entry \X Scanners)
         /\ Numbers'
         /\ \E d \in ScanType :
              /\ Moved(m, d) /\ ScanOK(d) /\ d.entries = scan[m].entries
              /\ d.pc \in {"announcing", "reading"}
              /\ d.pc = "announcing" => d.room \in 1..Len(rooms')
<1> DEFINE c == scan[m]  r == IF ok THEN Len(rooms') ELSE 0
           q == <<c.pair[1], c.pair[2], m>>
           d == [c EXCEPT !.pc = AfterPost(ok), !.pair = <<>>, !.room = r]
<1>0. c \in ScanType /\ ScanOK(c) /\ c.pc = "posting" /\ q \in Entry \X Entry \X Scanners
  BY RecordFacts DEF ScanInv, ScanOK, PostRoom
<1>1. rooms \in Seq(Entry \X Entry \X Scanners) /\ rooms' = (IF created THEN Append(rooms, q) ELSE rooms)
  BY DEF PostRoom, TypeOK
<1> HIDE DEF q
<1>2. /\ rooms' \in Seq(Entry \X Entry \X Scanners)
      /\ Len(rooms') \in Nat /\ DOMAIN rooms \subseteq DOMAIN rooms' /\ DOMAIN rooms' = 1..Len(rooms')
      /\ created => Len(rooms') \in 1..Len(rooms')
  BY <1>0, <1>1
<1>3. Numbers'
  <2>1. published' = published /\ orphans' \subseteq (IF created THEN orphans \union {Len(rooms')} ELSE orphans)
    BY DEF PostRoom
  <2>2. published \subseteq DOMAIN rooms /\ orphans \subseteq DOMAIN rooms /\ failures' \in 0..MaxFailures
    BY FailureCounts DEF PostRoom, TypeOK
  <2> QED BY <1>2, <2>1, <2>2 DEF Numbers
<1>4. ok => Len(rooms') \in 1..Len(rooms')
  BY <1>2 DEF PostRoom
<1>5. Moved(m, d)
  BY RecordFacts DEF PostRoom, Moved
<1>6. AfterPost(ok) \in {"announcing", "reading"} /\ (AfterPost(ok) = "announcing" => ok)
  BY DEF AfterPost
<1>7. d \in ScanType /\ d.pc = AfterPost(ok) /\ d.room = r /\ d.entries = c.entries /\ d.todo = c.todo
  <2>1. r \in Nat /\ <<>> \in (Entry \X Entry) \union {<<>>}
    BY <1>2
  <2> HIDE DEF r
  <2> QED BY <1>0, <1>6, <2>1 DEF ScanType
<1> HIDE DEF d
<1>8. ScanOK(d)
  BY <1>0, <1>6, <1>7 DEF ScanOK
<1> QED BY <1>2, <1>3, <1>4, <1>5, <1>6, <1>7, <1>8

LEMMA EndMoves ==
  ASSUME TypeOK, ScanInv, NEW m \in Scanners, Announce(m) \/ ScannerDies(m)
  PROVE  \E d \in ScanType :
           Moved(m, d) /\ ScanOK(d) /\ d.entries \in {<<>>, scan[m].entries} /\ d.pc \in {"reading", "ready"}
<1>1. CASE Announce(m)
  <2> DEFINE c == scan[m]  d == [c EXCEPT !.pc = "reading", !.room = 0]
  <2>0. c \in ScanType /\ ScanOK(c)
    BY RecordFacts DEF ScanInv
  <2>1. Moved(m, d)
    BY <1>1, RecordFacts DEF Announce, Moved
  <2>2. d \in ScanType /\ d.pc = "reading" /\ d.entries = c.entries /\ d.todo = c.todo
    BY <2>0 DEF ScanType
  <2> HIDE DEF d
  <2>3. ScanOK(d)
    BY <2>0, <2>2 DEF ScanOK
  <2> QED BY <2>1, <2>2, <2>3
<1>2. CASE ScannerDies(m)
  <2>1. Idle \in ScanType /\ ScanOK(Idle)
    BY IdleFacts, RecordFacts
  <2>2. Moved(m, Idle) /\ Idle.pc = "ready" /\ Idle.entries = <<>>
    BY <1>2 DEF ScannerDies, Moved, Idle
  <2> QED BY <2>1, <2>2
<1> QED BY <1>1, <1>2
-------------------------------------------------------------------------------
(***************************************************************************)
(* Every step keeps types, scans and rooms.                                *)
(***************************************************************************)
ReqType ==
  [pc : {"new", "admitted", "ranked", "leaving", "unranked", "done"}, entry : Entry \union {NoEntry}]

ReqInv ==
  /\ req \in [Requests -> ReqType]
  /\ \A x \in Requests :
       /\ req[x].pc \in {"admitted", "ranked", "leaving"} => req[x].entry \in Entry
       /\ req[x].pc \in {"admitted", "ranked"} => req[x].entry.ticket = x

MetaInv ==
  /\ meta \in [Players -> [entry : Entry, expires : Nat] \union {NoEntry}]
  /\ \A p \in Players : Queued(p) => meta[p].entry.player = p

LEMMA Types ==
  TypeOK <=> /\ now \in 0..MaxTime /\ zset \in [RegionSet -> SUBSET Players]
             /\ MetaInv /\ ReqInv /\ scan \in [Scanners -> ScanType]
             /\ rooms \in Seq(Entry \X Entry \X Scanners) /\ Numbers
BY DEF Numbers, TypeOK, MetaInv, ReqInv, ReqType, ScanType

LEMMA InitInv == Init => IInv
<1> SUFFICES ASSUME Init PROVE IInv
  OBVIOUS
<1>1. 0 \in 0..MaxTime /\ 1 \in 1..Len(REGIONS)
  BY MatchmakingAssumption
<1>2. scan \in [Scanners -> ScanType] /\ \A m \in Scanners : scan[m] = Idle /\ ScanOK(scan[m])
  BY <1>1, IdleFacts DEF Init
<1>3. MetaInv
  BY DEF Init, MetaInv, Queued
<1>4. ReqInv
  BY DEF Init, ReqInv, ReqType
<1>5. TypeOK
  <2>1. Numbers /\ rooms \in Seq(Entry \X Entry \X Scanners)
    BY MatchmakingAssumption DEF Init, Numbers
  <2> QED BY <1>1, <1>2, <1>3, <1>4, <2>1, Types DEF Init
<1>6. RoomsInv
  BY <1>2 DEF Init, RoomsInv, PairsClose, Idle
<1> QED BY <1>2, <1>5, <1>6 DEF IInv, ScanInv

\* A scan that moves to a sound record keeps the scans sound.
LEMMA MovedKeeps ==
  ASSUME IInv, NEW m \in Scanners, NEW d \in ScanType, Moved(m, d), ScanOK(d),
         rooms' = rooms \/ (rooms' \in Seq(Entry \X Entry \X Scanners) /\ Len(rooms') = Len(rooms) + 1),
         d.pc = "announcing" => d.room \in 1..Len(rooms')
  PROVE  /\ scan' \in [Scanners -> ScanType] /\ ScanInv'
         /\ \A n \in Scanners : scan'[n].pc = "announcing" => scan'[n].room \in 1..Len(rooms')
<1>1. scan \in [Scanners -> ScanType]
  BY Types DEF IInv
<1>2. scan'[m] = d /\ (\A n \in Scanners \ {m} : scan'[n] = scan[n]) /\ scan' \in [Scanners -> ScanType]
  BY <1>1 DEF Moved
<1>3. ScanInv'
  BY <1>2, Zenon DEF IInv, ScanInv
<1>4. \A i \in 1..Len(rooms) : i \in 1..Len(rooms')
  <2>1. Len(rooms) \in Nat
    BY DEF IInv, TypeOK
  <2> QED BY <2>1
<1>5. \A n \in Scanners : scan'[n].pc = "announcing" => scan'[n].room \in 1..Len(rooms')
  BY <1>2, <1>4, Zenon DEF IInv, RoomsInv
<1> QED BY <1>2, <1>3, <1>5

LEMMA RequestsKeep ==
  ASSUME IInv, NEW x \in Requests, LeaveRead(x) \/ Handle(x) \/ RequestDies(x) \/ \E r \in RegionSet : JoinCheck(x, r)
  PROVE  IInv'
<1>0. /\ UNCHANGED <<now, scan, rooms, published, orphans>>
      /\ MetaInv /\ ReqInv /\ zset \in [RegionSet -> SUBSET Players] /\ now \in 0..MaxTime
      /\ By[x] \in Players
  BY Types, MatchmakingAssumption
     DEF LeaveRead, Handle, RequestDies, JoinCheck, JoinRank, JoinMeta, LeaveRank, LeaveMeta, IInv
<1>10. Numbers'
  <2>1. Numbers /\ (failures' = failures \/ Failure)
    BY Types
       DEF LeaveRead, Handle, RequestDies, JoinCheck, JoinRank, JoinMeta, LeaveRank, LeaveMeta, IInv
  <2> QED BY <1>0, <2>1, FailureCounts DEF Numbers
<1>1. ASSUME ReqInv', MetaInv', zset' \in [RegionSet -> SUBSET Players]
      PROVE  IInv'
  <2>1. ScanInv' /\ RoomsInv'
    BY <1>0 DEF IInv, ScanInv, RoomsInv, PairsClose
  <2>2. scan \in [Scanners -> ScanType] /\ rooms \in Seq(Entry \X Entry \X Scanners)
    BY Types DEF IInv
  <2>3. TypeOK'
    BY <1>0, <1>1, <1>10, <2>2 DEF Numbers, TypeOK, MetaInv, ReqInv, ReqType, ScanType
  <2> QED BY <2>1, <2>3 DEF IInv
<1>2. ASSUME NEW pc \in {"new", "admitted", "ranked", "leaving", "unranked", "done"},
             NEW e \in Entry \union {NoEntry}, Step(x, pc, e),
             pc \in {"admitted", "ranked", "leaving"} => e \in Entry,
             pc \in {"admitted", "ranked"} => e.ticket = x
      PROVE  ReqInv'
  <2>1. req' = [req EXCEPT ![x] = [pc |-> pc, entry |-> e]] /\ [pc |-> pc, entry |-> e] \in ReqType
    BY <1>2 DEF Step, ReqType
  <2>2. req' \in [Requests -> ReqType]
    BY <1>0, <2>1 DEF ReqInv
  <2>3. req'[x] = [pc |-> pc, entry |-> e] /\ \A y \in Requests \ {x} : req'[y] = req[y]
    BY <1>0, <2>1 DEF ReqInv
  <2> QED BY <1>0, <1>2, <2>2, <2>3 DEF ReqInv
<1>3. CASE RequestDies(x)
  <2>1. ReqInv'
    BY <1>2, <1>3 DEF RequestDies
  <2> QED BY <1>0, <1>1, <1>3, <2>1 DEF RequestDies, MetaInv, Queued
<1>4. CASE \E r \in RegionSet : JoinCheck(x, r)
  <2>1. PICK r \in RegionSet : JoinCheck(x, r)
    BY <1>4
  <2>2. EntryOf(x, r) \in Entry /\ EntryOf(x, r).ticket = x
    BY <1>0 DEF EntryOf, Entry
  <2>3. ReqInv'
    BY <1>2, <2>1, <2>2 DEF JoinCheck
  <2> QED BY <1>0, <1>1, <2>1, <2>3 DEF JoinCheck, MetaInv, Queued
<1>5. CASE JoinRank(x)
  <2> DEFINE e == [req[x].entry EXCEPT !.at = now]
  <2>1. req[x].entry \in Entry /\ req[x].entry.ticket = x
    BY <1>0, <1>5 DEF JoinRank, ReqInv
  <2>2. e \in Entry /\ e.ticket = x /\ e.region \in RegionSet /\ e.player \in Players
    BY <1>0, <2>1 DEF Entry
  <2>3. ReqInv'
    BY <1>2, <1>5, <2>2 DEF JoinRank
  <2>4. zset' \in [RegionSet -> SUBSET Players]
    BY <1>0, <1>5, <2>2 DEF JoinRank
  <2> QED BY <1>0, <1>1, <1>5, <2>3, <2>4 DEF JoinRank, MetaInv, Queued
<1>6. CASE JoinMeta(x)
  <2>1. req[x].entry \in Entry /\ req[x].entry.player = By[x]
    BY <1>0, <1>6, EntryFacts DEF JoinMeta, ReqInv
  <2>2. Expiry \in Nat
    BY <1>0, MatchmakingAssumption DEF Expiry
  <2> DEFINE k == [entry |-> req[x].entry, expires |-> Expiry]
  <2>3. k \in [entry : Entry, expires : Nat] /\ k.entry.player = By[x]
    BY <2>1, <2>2
  <2>4. meta' = [meta EXCEPT ![By[x]] = k]
    BY <1>6 DEF JoinMeta
  <2> HIDE DEF k
  <2>5. MetaInv'
    BY <1>0, <2>3, <2>4 DEF MetaInv, Queued
  <2>6. ReqInv'
    BY <1>2, <1>6 DEF JoinMeta
  <2> QED BY <1>0, <1>1, <1>6, <2>5, <2>6 DEF JoinMeta
<1>7. CASE LeaveRead(x)
  <2>1. Queued(By[x]) => meta[By[x]].entry \in Entry
    BY <1>0 DEF MetaInv, Queued
  <2>2. ReqInv'
    BY <1>2, <1>7, <2>1 DEF LeaveRead
  <2> QED BY <1>0, <1>1, <1>7, <2>2 DEF LeaveRead, MetaInv, Queued
<1>8. CASE LeaveRank(x)
  <2>1. ReqInv'
    BY <1>2, <1>8 DEF LeaveRank
  <2>2. zset' \in [RegionSet -> SUBSET Players]
    BY <1>0, <1>8 DEF LeaveRank
  <2> QED BY <1>0, <1>1, <1>8, <2>1, <2>2 DEF LeaveRank, MetaInv, Queued
<1>9. CASE LeaveMeta(x)
  <2>1. ReqInv'
    BY <1>2, <1>9 DEF LeaveMeta
  <2>2. MetaInv'
    BY <1>0, <1>9 DEF LeaveMeta, MetaInv, Queued
  <2> QED BY <1>0, <1>1, <1>9, <2>1, <2>2 DEF LeaveMeta
<1> QED BY <1>3, <1>4, <1>5, <1>6, <1>7, <1>8, <1>9 DEF Handle
\* The room of the pair of a scan.
Room(m) == <<scan[m].pair[1], scan[m].pair[2], m>>

\* What a step of a scan leaves behind, if it leaves the requests alone.
LEMMA ScanLeaves ==
  ASSUME IInv, NEW m \in Scanners, NEW d \in ScanType, Moved(m, d), ScanOK(d),
         d.pc = "announcing" => d.room \in 1..Len(rooms'),
         \/ rooms' = rooms
         \/ rooms' = Append(rooms, Room(m)) /\ scan[m].pc = "posting",
         Numbers',
         MetaInv', zset' \in [RegionSet -> SUBSET Players], UNCHANGED <<now, req>>
  PROVE  IInv'
<1>0. /\ now \in 0..MaxTime /\ ReqInv /\ rooms \in Seq(Entry \X Entry \X Scanners)
      /\ Len(rooms) \in Nat /\ DOMAIN rooms = 1..Len(rooms)
  BY Types DEF IInv
<1>1. scan[m].pc = "posting" => scan[m].pair \in Entry \X Entry /\ Close(scan[m].pair[1], scan[m].pair[2])
  BY DEF IInv, ScanInv, ScanOK
<1>2. CASE rooms' = rooms
  <2>1. /\ scan' \in [Scanners -> ScanType] /\ ScanInv'
        /\ \A n \in Scanners : scan'[n].pc = "announcing" => scan'[n].room \in 1..Len(rooms')
    BY <1>2, MovedKeeps
  <2>2. RoomsInv'
    BY <1>2, <2>1 DEF IInv, RoomsInv, PairsClose
  <2>4. TypeOK'
    BY <1>0, <1>2, <2>1 DEF Numbers, TypeOK, MetaInv, ReqInv, ReqType, ScanType
  <2> QED BY <2>1, <2>2, <2>4 DEF IInv
<1>3. CASE rooms' = Append(rooms, Room(m)) /\ scan[m].pc = "posting"
  <2> DEFINE q == Room(m)
  <2>1. q \in Entry \X Entry \X Scanners /\ Close(q[1], q[2])
    BY <1>1, <1>3 DEF Room
  <2>2. /\ rooms' \in Seq(Entry \X Entry \X Scanners) /\ Len(rooms') = Len(rooms) + 1
        /\ DOMAIN rooms' = 1..Len(rooms) + 1
        /\ \A n \in 1..Len(rooms) : rooms'[n] = rooms[n]
        /\ rooms'[Len(rooms) + 1] = q
    BY <1>0, <1>3, <2>1
  <2>3. /\ scan' \in [Scanners -> ScanType] /\ ScanInv'
        /\ \A n \in Scanners : scan'[n].pc = "announcing" => scan'[n].room \in 1..Len(rooms')
    BY <2>2, MovedKeeps
  <2>5. \A n \in DOMAIN rooms' : n \in DOMAIN rooms \/ n = Len(rooms) + 1
    BY <1>0, <2>2
  <2> HIDE DEF q
  <2>7. \A n \in DOMAIN rooms' : Close(rooms'[n][1], rooms'[n][2])
    <3>1. \A n \in DOMAIN rooms : Close(rooms[n][1], rooms[n][2])
      BY DEF IInv, RoomsInv, PairsClose
    <3> QED BY <1>0, <2>1, <2>2, <2>5, <3>1, Zenon
  <2>8. RoomsInv'
    BY <2>3, <2>7 DEF RoomsInv, PairsClose
  <2>10. TypeOK'
    BY <1>0, <2>2, <2>3 DEF Numbers, TypeOK, MetaInv, ReqInv, ReqType, ScanType
  <2> QED BY <2>3, <2>8, <2>10 DEF IInv
<1> QED BY <1>2, <1>3

LEMMA ScansKeep ==
  ASSUME IInv, NEW m \in Scanners, Scan(m) \/ ScannerDies(m)
  PROVE  IInv'
<1>0. /\ TypeOK /\ ScanInv /\ MetaInv /\ zset \in [RegionSet -> SUBSET Players]
      /\ UNCHANGED meta => MetaInv'
      /\ Numbers /\ (UNCHANGED <<rooms, published, orphans, failures>> => Numbers')
  BY Types DEF IInv, MetaInv, Queued, Numbers
<1>1. CASE ReadMembers(m)
  <2>1. UNCHANGED <<now, zset, meta, req, rooms, published, orphans, failures>>
    BY <1>1 DEF ReadMembers
  <2>2. PICK d \in ScanType : Moved(m, d) /\ ScanOK(d) /\ d.pc = "reading"
    BY <1>0, <1>1, ReadMembersMoves
  <2> QED BY <1>0, <2>1, <2>2, ScanLeaves
<1>2. CASE ReadMeta(m) \/ DropMember(m)
  <2>1. UNCHANGED <<now, meta, req, rooms, published, orphans, failures>>
    BY <1>2 DEF ReadMeta, DropMember
  <2>2. PICK d \in ScanType : Moved(m, d) /\ ScanOK(d) /\ d.pc \in {"reading", "dropping"}
    BY <1>0, <1>2, MemberMoves
  <2>3. zset' \in [RegionSet -> SUBSET Players]
    BY <1>0, <1>2, RecordFacts DEF ReadMeta, DropMember, Dropped
  <2> QED BY <1>0, <2>1, <2>2, <2>3, ScanLeaves
<1>3. CASE FindPair(m)
  <2>1. UNCHANGED <<now, zset, meta, req, rooms, published, orphans, failures>>
    BY <1>3 DEF FindPair
  <2>2. PICK d \in ScanType : Moved(m, d) /\ ScanOK(d) /\ d.pc \in {"removing", "ready"}
    BY <1>0, <1>3, FindPairMoves
  <2> QED BY <1>0, <2>1, <2>2, ScanLeaves
<1>4. CASE RemovePair(m)
  <2>1. UNCHANGED <<now, req, rooms, published, orphans, failures>>
    BY <1>4 DEF RemovePair
  <2>2. PICK d \in ScanType : Moved(m, d) /\ ScanOK(d) /\ d.pc \in {"posting", "removing"}
    BY <1>0, <1>4, RemovePairMoves
  <2>3. PICK c : /\ c = Removals(scan[m].pair)[scan[m].step]
                 /\ IF c.op = "zrem"
                    THEN zset' = [zset EXCEPT ![c.of.region] = @ \ {c.of.player}] /\ UNCHANGED meta
                    ELSE meta' = [meta EXCEPT ![c.of.player] = NoEntry] /\ UNCHANGED zset
    BY <1>4 DEF RemovePair, MetaWithout
  <2>4. zset' \in [RegionSet -> SUBSET Players] /\ MetaInv'
    <3>1. CASE c.op = "zrem"
      BY <1>0, <2>3, <3>1
    <3>2. CASE c.op # "zrem"
      <4>1. meta' = [meta EXCEPT ![c.of.player] = NoEntry] /\ zset' = zset
        BY <2>3, <3>2
      <4> QED BY <1>0, <4>1 DEF MetaInv, Queued
    <3> QED BY <3>1, <3>2
  <2> QED BY <1>0, <2>1, <2>2, <2>4, ScanLeaves
<1>5. CASE \E created, ok \in BOOLEAN : PostRoom(m, created, ok)
  <2>1. PICK created \in BOOLEAN, ok \in BOOLEAN : PostRoom(m, created, ok)
    BY <1>5
  <2>2. /\ UNCHANGED <<now, zset, meta, req, published>> /\ scan[m].pc = "posting"
        /\ rooms' = rooms \/ rooms' = Append(rooms, Room(m))
    BY <2>1 DEF PostRoom, Room
  <2>3. /\ Numbers'
        /\ \E d \in ScanType : Moved(m, d) /\ ScanOK(d) /\ (d.pc = "announcing" => d.room \in 1..Len(rooms'))
    BY <1>0, <2>1, PostRoomMoves
  <2>4. PICK d \in ScanType : Moved(m, d) /\ ScanOK(d) /\ (d.pc = "announcing" => d.room \in 1..Len(rooms'))
    BY <2>3
  <2> QED BY <1>0, <2>2, <2>3, <2>4, ScanLeaves
<1>6. CASE Announce(m) \/ ScannerDies(m)
  <2>1. UNCHANGED <<now, zset, meta, req, rooms>>
    BY <1>6 DEF Announce, ScannerDies
  <2>2. PICK d \in ScanType : Moved(m, d) /\ ScanOK(d) /\ d.pc \in {"reading", "ready"}
    BY <1>0, <1>6, EndMoves
  <2>3. scan[m].pc = "announcing" => scan[m].room \in DOMAIN rooms
    BY Types DEF IInv, RoomsInv
  <2>4. /\ published' \subseteq published \union {scan[m].room} /\ orphans' \subseteq orphans \union {scan[m].room}
        /\ scan[m].pc # "announcing" => UNCHANGED <<published, orphans>>
        /\ failures' = failures \/ Failure
    BY <1>6 DEF Announce, ScannerDies
  <2>5. Numbers'
    BY <1>0, <2>1, <2>3, <2>4, FailureCounts DEF Numbers
  <2> QED BY <1>0, <2>1, <2>2, <2>5, ScanLeaves
<1> QED BY <1>1, <1>2, <1>3, <1>4, <1>5, <1>6 DEF Scan

LEMMA TickKeeps ==
  ASSUME IInv, Tick
  PROVE  IInv'
<1>1. /\ UNCHANGED <<zset, req, scan, rooms, published, orphans, failures>> /\ now < MaxTime /\ now' = now + 1
      /\ meta' = [p \in Players |->
                    IF Queued(p) /\ meta[p].expires <= now + 1 THEN NoEntry ELSE meta[p]]
  BY DEF Tick
<1>2. /\ MetaInv /\ ReqInv /\ zset \in [RegionSet -> SUBSET Players] /\ now \in 0..MaxTime
      /\ scan \in [Scanners -> ScanType] /\ rooms \in Seq(Entry \X Entry \X Scanners) /\ Numbers
  BY Types DEF IInv
<1>3. MetaInv'
  BY <1>1, <1>2 DEF MetaInv, Queued
<1>4. now' \in 0..MaxTime
  BY <1>1, <1>2, MatchmakingAssumption
<1>5. TypeOK'
  BY <1>1, <1>2, <1>3, <1>4 DEF Numbers, TypeOK, MetaInv, ReqInv, ReqType, ScanType
<1> QED BY <1>1, <1>5 DEF IInv, ScanInv, RoomsInv, PairsClose

LEMMA StepKeepsInv == IInv /\ [Next]_vars => IInv'
<1> SUFFICES ASSUME IInv, [Next]_vars PROVE IInv'
  OBVIOUS
<1>1. CASE UNCHANGED vars
  BY <1>1 DEF vars, IInv, TypeOK, Queued, ScanInv, RoomsInv, PairsClose
<1> QED BY <1>1, RequestsKeep, ScansKeep, TickKeeps DEF Next

LEMMA AlwaysInv == Spec => []IInv
BY InitInv, StepKeepsInv, PTL DEF Spec

\* Every reachable state of matchmaking is well typed; a room that was announced
\* was made.
THEOREM TypeCorrect == Spec => []TypeOK
<1>1. IInv => TypeOK
  BY DEF IInv
<1> QED BY <1>1, AlwaysInv, PTL

(***************************************************************************)
(* Who has waited long enough when the pair is found has so ever after.    *)
(***************************************************************************)
WaitInv ==
  /\ \A n \in DOMAIN rooms : Waited(rooms[n][1], rooms[n][2], now)
  /\ \A m \in Scanners : scan[m].pc \in {"removing", "posting"} =>
       Waited(scan[m].pair[1], scan[m].pair[2], now)

LEMMA WaitGrows ==
  ASSUME NEW a \in Entry, NEW b \in Entry, NEW t \in Nat, Waited(a, b, t)
  PROVE  Waited(a, b, t + 1)
<1>1. /\ Rating[a.player] \in Nat /\ Rating[b.player] \in Nat
      /\ a.at \in Int /\ EloInitial \in Nat /\ EloExpansion \in Nat
  <2>1. a.player \in Players /\ b.player \in Players /\ a.at \in 0..MaxTime
    BY EntryFacts
  <2>2. Rating[a.player] \in Nat /\ Rating[b.player] \in Nat
    BY <2>1, MatchmakingAssumption
  <2>3. a.at \in Int /\ EloInitial \in Nat /\ EloExpansion \in Nat
    BY <2>1, MatchmakingAssumption
  <2> QED BY <2>2, <2>3
<1>2. Span(a, t) \in Int /\ Span(a, t + 1) = Span(a, t) + EloExpansion
  BY <1>1 DEF Span
<1> QED BY <1>1, <1>2 DEF Waited

\* A step of a scan.
LEMMA ScanWaits ==
  ASSUME IInv, WaitInv, NEW m \in Scanners, NEW d \in ScanType, Moved(m, d), now' = now,
         d.pc \in {"removing", "posting"} => Waited(d.pair[1], d.pair[2], now),
         rooms' = rooms \/ (rooms' = Append(rooms, Room(m)) /\ scan[m].pc = "posting")
  PROVE  WaitInv'
<1>1. scan'[m] = d /\ \A n \in Scanners \ {m} : scan'[n] = scan[n]
  BY RecordFacts DEF IInv, Moved
<1>2. \A n \in Scanners : scan'[n].pc \in {"removing", "posting"} =>
        Waited(scan'[n].pair[1], scan'[n].pair[2], now)
  BY <1>1, Zenon DEF WaitInv
<1>3. ASSUME NEW n \in DOMAIN rooms' PROVE Waited(rooms'[n][1], rooms'[n][2], now)
  <2>1. CASE rooms' = rooms
    BY <2>1 DEF WaitInv
  <2>2. CASE rooms' = Append(rooms, Room(m)) /\ scan[m].pc = "posting"
    <3> DEFINE q == Room(m)
    <3>1. rooms \in Seq(Entry \X Entry \X Scanners) /\ q \in Entry \X Entry \X Scanners
      BY <2>2 DEF IInv, TypeOK, ScanInv, ScanOK, Room
    <3>2. q[1] = scan[m].pair[1] /\ q[2] = scan[m].pair[2]
      BY DEF Room
    <3>3. Waited(q[1], q[2], now)
      BY <2>2, <3>2 DEF WaitInv
    <3> HIDE DEF q
    <3>4. (n \in DOMAIN rooms /\ rooms'[n] = rooms[n]) \/ rooms'[n] = q
      BY <1>3, <2>2, <3>1 DEF q
    <3> QED BY <3>3, <3>4 DEF WaitInv
  <2> QED BY <2>1, <2>2
<1> QED BY <1>2, <1>3 DEF WaitInv

LEMMA ScansWait ==
  ASSUME IInv, WaitInv, NEW m \in Scanners, Scan(m) \/ ScannerDies(m)
  PROVE  WaitInv'
<1>0. TypeOK /\ ScanInv
  BY DEF IInv
<1>1. CASE ReadMembers(m)
  <2>1. PICK d \in ScanType : Moved(m, d) /\ d.pc = "reading"
    BY <1>0, <1>1, ReadMembersMoves
  <2> QED BY <1>1, <2>1, ScanWaits DEF ReadMembers
<1>2. CASE ReadMeta(m) \/ DropMember(m)
  <2>1. PICK d \in ScanType : Moved(m, d) /\ d.pc \in {"reading", "dropping"}
    BY <1>0, <1>2, MemberMoves
  <2> QED BY <1>2, <2>1, ScanWaits DEF ReadMeta, DropMember
<1>3. CASE FindPair(m)
  <2>1. PICK d \in ScanType :
          /\ Moved(m, d) /\ d.pc \in {"removing", "ready"}
          /\ d.pc = "removing" => Waited(d.pair[1], d.pair[2], now)
    BY <1>0, <1>3, FindPairMoves
  <2> QED BY <1>3, <2>1, ScanWaits DEF FindPair
<1>4. CASE RemovePair(m)
  <2>1. PICK d \in ScanType : Moved(m, d) /\ d.pair = scan[m].pair
    BY <1>0, <1>4, RemovePairMoves
  <2>2. Waited(scan[m].pair[1], scan[m].pair[2], now)
    BY <1>4 DEF RemovePair, WaitInv
  <2> QED BY <1>4, <2>1, <2>2, ScanWaits DEF RemovePair
<1>5. CASE \E created, ok \in BOOLEAN : PostRoom(m, created, ok)
  <2>1. PICK created \in BOOLEAN, ok \in BOOLEAN : PostRoom(m, created, ok)
    BY <1>5
  <2>2. PICK d \in ScanType : Moved(m, d) /\ d.pc \in {"announcing", "reading"}
    BY <1>0, <2>1, PostRoomMoves
  <2>3. now' = now /\ (rooms' = rooms \/ (rooms' = Append(rooms, Room(m)) /\ scan[m].pc = "posting"))
    BY <2>1 DEF PostRoom, Room
  <2> QED BY <2>2, <2>3, ScanWaits
<1>6. CASE Announce(m) \/ ScannerDies(m)
  <2>1. PICK d \in ScanType : Moved(m, d) /\ d.pc \in {"reading", "ready"}
    BY <1>0, <1>6, EndMoves
  <2> QED BY <1>6, <2>1, ScanWaits DEF Announce, ScannerDies
<1> QED BY <1>1, <1>2, <1>3, <1>4, <1>5, <1>6 DEF Scan

LEMMA StepKeepsWait ==
  ASSUME IInv, WaitInv, [Next]_vars
  PROVE  WaitInv'
<1>1. CASE UNCHANGED <<scan, rooms, now>>
  BY <1>1 DEF WaitInv
<1>2. CASE Tick
  <2>1. UNCHANGED <<scan, rooms>> /\ now' = now + 1 /\ now \in Nat /\ rooms \in Seq(Entry \X Entry \X Scanners)
    BY <1>2, MatchmakingAssumption DEF Tick, IInv, TypeOK
  <2>2. ASSUME NEW n \in DOMAIN rooms PROVE Waited(rooms[n][1], rooms[n][2], now + 1)
    <3>1. rooms[n] \in Entry \X Entry \X Scanners
      BY <2>1
    <3>2. rooms[n][1] \in Entry /\ rooms[n][2] \in Entry /\ Waited(rooms[n][1], rooms[n][2], now)
      BY <3>1 DEF WaitInv
    <3> QED BY <2>1, <3>2, WaitGrows
  <2>3. ASSUME NEW m \in Scanners, scan[m].pc \in {"removing", "posting"}
        PROVE  Waited(scan[m].pair[1], scan[m].pair[2], now + 1)
    <3>1. scan[m].pair \in Entry \X Entry /\ Waited(scan[m].pair[1], scan[m].pair[2], now)
      BY <2>3 DEF IInv, ScanInv, ScanOK, WaitInv
    <3> QED BY <2>1, <3>1, WaitGrows
  <2> QED BY <2>1, <2>2, <2>3 DEF WaitInv
<1>3. ASSUME NEW x \in Requests,
             LeaveRead(x) \/ Handle(x) \/ RequestDies(x) \/ \E r \in RegionSet : JoinCheck(x, r)
      PROVE  UNCHANGED <<scan, rooms, now>>
  BY <1>3 DEF LeaveRead, Handle, RequestDies, JoinCheck, JoinRank, JoinMeta, LeaveRank, LeaveMeta
<1>4. CASE UNCHANGED vars
  BY <1>1, <1>4 DEF vars
<1> QED BY <1>1, <1>2, <1>3, <1>4, ScansWait DEF Next

\* Every room brings two players together whose ratings are no further apart
\* than the widest range, and of whom the first has waited long enough, for any
\* number of players and of scans that overlap (scanRegion, eloRange).
THEOREM PairsSoundAlways == Spec => []PairsSound
<1>1. Init => WaitInv
  BY DEF Init, WaitInv, Idle
<1>2. IInv /\ WaitInv /\ [Next]_vars => WaitInv'
  BY StepKeepsWait
<1>3. IInv /\ WaitInv => PairsSound
  BY DEF IInv, RoomsInv, PairsClose, Close, WaitInv, Waited, Span, PairsSound, Apart, Wide
<1> QED BY <1>1, <1>2, <1>3, AlwaysInv, PTL DEF Spec
-------------------------------------------------------------------------------
(***************************************************************************)
(* Where the ticket of a join is, as far as one scanner is concerned.      *)
(***************************************************************************)
InMeta(x)       == Queued(By[x]) /\ meta[By[x]].entry.ticket = x
InEntries(c, x) == \E i \in 1..Len(c.entries) : c.entries[i].ticket = x
InPair(c, x)    == c.pc \in {"removing", "posting"} /\ x \in {c.pair[1].ticket, c.pair[2].ticket}
InRoom(r, x)    == x \in {r[1].ticket, r[2].ticket}
Used(m, x)      == \E n \in DOMAIN rooms : rooms[n][3] = m /\ InRoom(rooms[n], x)

\* The key of x was deleted after the scan had read it.
Removed(c, x) ==
  /\ InPair(c, x)
  /\ c.pc = "posting" \/ (x = c.pair[1].ticket /\ c.step > 2)

Somewhere(x) ==
  InMeta(x) \/ \E m \in Scanners : Used(m, x) \/ InEntries(scan[m], x) \/ InPair(scan[m], x)

TicketInv ==
  /\ \A x \in Requests : Somewhere(x) => req[x].pc = "done"
  /\ \A x \in Requests : \A m \in Scanners : Used(m, x) =>
       ~InMeta(x) /\ ~InEntries(scan[m], x) /\ ~InPair(scan[m], x)
  /\ \A x \in Requests : \A m \in Scanners : Removed(scan[m], x) => ~InMeta(x)
  /\ \A n, k \in DOMAIN rooms : n # k /\ rooms[n][3] = rooms[k][3] =>
       \A x \in Requests : ~(InRoom(rooms[n], x) /\ InRoom(rooms[k], x))

LEMMA OneRoom == ASSUME TicketInv PROVE OneRoomPerScanner
BY DEF OneRoomPerScanner, Uses, TicketInv, InRoom

\* The pair has two tickets, and none of them is among the entries any more.
LEMMA PairApart ==
  ASSUME NEW c \in ScanType, ScanOK(c), c.pc \in {"removing", "posting"}
  PROVE  /\ c.pair[1] \in Entry /\ c.pair[2] \in Entry
         /\ c.pair[1].ticket # c.pair[2].ticket
         /\ c.pair[1].player = By[c.pair[1].ticket] /\ c.pair[2].player = By[c.pair[2].ticket]
         /\ \A x \in Requests : InPair(c, x) => ~InEntries(c, x)
<1>1. /\ c.pair[1] \in Entry /\ c.pair[2] \in Entry /\ c.pair[1].player # c.pair[2].player
      /\ \A i \in 1..Len(c.entries) : c.entries[i].player \notin {c.pair[1].player, c.pair[2].player}
      /\ c.entries \in Seq(Entry)
  BY DEF ScanOK, Close, ScanType
<1>2. c.pair[1].player = By[c.pair[1].ticket] /\ c.pair[2].player = By[c.pair[2].ticket]
  BY <1>1, EntryFacts
<1>3. \A i \in 1..Len(c.entries) : c.entries[i].player = By[c.entries[i].ticket]
  BY <1>1, EntryFacts
<1>4. c.pair[1].ticket # c.pair[2].ticket
  BY <1>1, <1>2
<1>5. ASSUME NEW x \in Requests, InPair(c, x), NEW i \in 1..Len(c.entries), c.entries[i].ticket = x
      PROVE  FALSE
  <2>1. c.entries[i].player = By[x] /\ c.entries[i].player # c.pair[1].player /\ c.entries[i].player # c.pair[2].player
    BY <1>1, <1>3, <1>5
  <2>2. x = c.pair[1].ticket \/ x = c.pair[2].ticket
    BY <1>5 DEF InPair
  <2> QED BY <1>2, <2>1, <2>2
<1> QED BY <1>1, <1>2, <1>4, <1>5 DEF InEntries

LEMMA TicketsInit == Init => TicketInv
<1> SUFFICES ASSUME Init PROVE TicketInv
  OBVIOUS
<1>1. \A m \in Scanners : scan[m] = Idle
  BY DEF Init
<1>2. \A x \in Requests : ~InEntries(Idle, x) /\ ~InPair(Idle, x)
  BY DEF InEntries, InPair, Idle
<1>3. \A x \in Requests : ~InMeta(x) /\ \A m \in Scanners : ~Used(m, x)
  BY MatchmakingAssumption DEF Init, InMeta, Used, Queued
<1> QED BY <1>1, <1>2, <1>3 DEF TicketInv, Somewhere, Removed, Init

\* Steps that bring no ticket to a place where it was not, but that a scan may
\* read it in its key.
LEMMA TicketsStay ==
  ASSUME TicketInv, rooms' = rooms,
         \A x \in Requests : req[x].pc = "done" => req'[x].pc = "done",
         \A x \in Requests : InMeta(x)' => InMeta(x),
         \A m \in Scanners : \A x \in Requests :
           InEntries(scan'[m], x) \/ InPair(scan'[m], x) =>
             InEntries(scan[m], x) \/ InPair(scan[m], x) \/ InMeta(x),
         \A m \in Scanners : \A x \in Requests : Removed(scan'[m], x) => ~InMeta(x)'
  PROVE  TicketInv'
<1>1. \A x \in Requests : \A m \in Scanners : Used(m, x)' = Used(m, x)
  BY DEF Used
<1>2. \A x \in Requests : Somewhere(x)' => Somewhere(x)
  BY <1>1 DEF Somewhere
<1>3. \A x \in Requests : Somewhere(x)' => req'[x].pc = "done"
  BY <1>2 DEF TicketInv
<1>4. \A x \in Requests : \A m \in Scanners : Used(m, x)' =>
        ~InMeta(x)' /\ ~InEntries(scan'[m], x) /\ ~InPair(scan'[m], x)
  BY <1>1 DEF TicketInv
<1>5. \A n, k \in DOMAIN rooms' : n # k /\ rooms'[n][3] = rooms'[k][3] =>
        \A x \in Requests : ~(InRoom(rooms'[n], x) /\ InRoom(rooms'[k], x))
  BY DEF TicketInv
<1> QED BY <1>3, <1>4, <1>5 DEF TicketInv

\* Handlers, except the one that writes a key, and the expiry of keys.
LEMMA RequestsStay ==
  ASSUME TicketInv, UNCHANGED <<scan, rooms>>,
         \A x \in Requests : req[x].pc = "done" => req'[x].pc = "done",
         \A p \in Players : meta'[p] \in {meta[p], NoEntry}
  PROVE  TicketInv'
<1>1. \A x \in Requests : InMeta(x)' => InMeta(x)
  BY MatchmakingAssumption DEF InMeta, Queued
<1>2. \A m \in Scanners : \A x \in Requests : Removed(scan'[m], x) => ~InMeta(x)'
  BY <1>1 DEF TicketInv
<1>3. \A m \in Scanners : scan'[m] = scan[m]
  OBVIOUS
<1> QED BY <1>1, <1>2, <1>3, TicketsStay

\* A join that writes its key is nowhere yet.
LEMMA JoinMetaStays ==
  ASSUME IInv, TicketInv, NEW x \in Requests, JoinMeta(x)
  PROVE  TicketInv'
<1>1. /\ req[x].pc = "ranked" /\ req[x].entry.ticket = x /\ UNCHANGED <<scan, rooms>>
      /\ req' = [req EXCEPT ![x] = [pc |-> "done", entry |-> NoEntry]]
      /\ meta' = [meta EXCEPT ![By[x]] = [entry |-> req[x].entry, expires |-> Expiry]]
  BY DEF JoinMeta, Step, IInv, TypeOK
<1>2. ~Somewhere(x)
  BY <1>1 DEF TicketInv
<1>3. /\ meta'[By[x]].entry.ticket = x
      /\ \A p \in Players : p # By[x] => meta'[p] = meta[p]
  BY <1>1, MatchmakingAssumption DEF IInv, TypeOK
<1>4. \A y \in Requests : InMeta(y)' => InMeta(y) \/ y = x
  BY <1>3, MatchmakingAssumption DEF InMeta, Queued
<1>5. req'[x].pc = "done" /\ \A y \in Requests : y # x => req'[y] = req[y]
  BY <1>1 DEF IInv, TypeOK
<1>6. \A y \in Requests : \A m \in Scanners : Used(m, y)' = Used(m, y)
  BY <1>1 DEF Used
<1>7. \A y \in Requests : Somewhere(y)' => Somewhere(y) \/ y = x
  BY <1>1, <1>4, <1>6 DEF Somewhere
<1>8. \A y \in Requests : Somewhere(y)' => req'[y].pc = "done"
  BY <1>5, <1>7 DEF TicketInv
<1>9. \A y \in Requests : \A m \in Scanners : Used(m, y)' =>
        ~InMeta(y)' /\ ~InEntries(scan'[m], y) /\ ~InPair(scan'[m], y)
  BY <1>1, <1>2, <1>4, <1>6 DEF TicketInv, Somewhere
<1>10. \A y \in Requests : \A m \in Scanners : Removed(scan'[m], y) => ~InMeta(y)'
  BY <1>1, <1>2, <1>4 DEF TicketInv, Somewhere, Removed
<1>11. \A n, k \in DOMAIN rooms' : n # k /\ rooms'[n][3] = rooms'[k][3] =>
         \A y \in Requests : ~(InRoom(rooms'[n], y) /\ InRoom(rooms'[k], y))
  BY <1>1 DEF TicketInv
<1> QED BY <1>8, <1>9, <1>10, <1>11 DEF TicketInv

\* A step of a scan that makes no room; the other scans hold what they held.
LEMMA ScanStays ==
  ASSUME IInv, TicketInv, NEW m \in Scanners, NEW d \in ScanType, Moved(m, d),
         UNCHANGED <<req, rooms>>,
         \A p \in Players : meta'[p] \in {meta[p], NoEntry},
         \A x \in Requests : InEntries(d, x) \/ InPair(d, x) =>
           InEntries(scan[m], x) \/ InPair(scan[m], x) \/ InMeta(x),
         \A x \in Requests : Removed(d, x) => ~InMeta(x)'
  PROVE  TicketInv'
<1>1. scan'[m] = d /\ \A n \in Scanners : n # m => scan'[n] = scan[n]
  BY RecordFacts DEF IInv, Moved
<1>2. \A x \in Requests : InMeta(x)' => InMeta(x)
  BY MatchmakingAssumption DEF InMeta, Queued
<1>3. \A n \in Scanners : \A x \in Requests :
        InEntries(scan'[n], x) \/ InPair(scan'[n], x) =>
          InEntries(scan[n], x) \/ InPair(scan[n], x) \/ InMeta(x)
  BY <1>1
<1>4. \A n \in Scanners : \A x \in Requests : Removed(scan'[n], x) => ~InMeta(x)'
  BY <1>1, <1>2 DEF TicketInv
<1>5. \A x \in Requests : req[x].pc = "done" => req'[x].pc = "done"
  OBVIOUS
<1> QED BY <1>2, <1>3, <1>4, <1>5, TicketsStay

\* Reading: what is in the entries was there before or comes from a key.
LEMMA ReadingStays ==
  ASSUME IInv, TicketInv, NEW m \in Scanners,
         ReadMembers(m) \/ ReadMeta(m) \/ DropMember(m)
  PROVE  TicketInv'
<1>0. TypeOK /\ ScanInv /\ scan[m].entries \in Seq(Entry)
  BY RecordFacts DEF IInv
<1>1. UNCHANGED <<meta, req, rooms>>
  BY DEF ReadMembers, ReadMeta, DropMember
<1>2. CASE ReadMembers(m)
  <2>1. PICK d \in ScanType : Moved(m, d) /\ d.pc = "reading" /\ d.entries = <<>>
    BY <1>0, <1>2, ReadMembersMoves
  <2>2. \A x \in Requests : ~InEntries(d, x) /\ ~InPair(d, x)
    BY <2>1 DEF InEntries, InPair
  <2> QED BY <1>1, <2>1, <2>2, ScanStays DEF Removed
<1>3. CASE ReadMeta(m) \/ DropMember(m)
  <2>1. PICK d \in ScanType :
          /\ Moved(m, d) /\ d.pc \in {"reading", "dropping"}
          /\ \/ d.entries = scan[m].entries
             \/ \E p \in Players : Queued(p) /\ d.entries = Append(scan[m].entries, meta[p].entry)
    BY <1>0, <1>3, MemberMoves
  <2>2. \A x \in Requests : ~InPair(d, x)
    BY <2>1 DEF InPair
  <2>3. ASSUME NEW x \in Requests, InEntries(d, x) PROVE InEntries(scan[m], x) \/ InMeta(x)
    <3>1. CASE d.entries = scan[m].entries
      BY <2>3, <3>1 DEF InEntries
    <3>2. ASSUME NEW p \in Players, Queued(p), d.entries = Append(scan[m].entries, meta[p].entry)
          PROVE  InEntries(scan[m], x) \/ InMeta(x)
      <4> DEFINE o == scan[m].entries  e == meta[p].entry
      <4>1. e \in Entry /\ e.player = p
        BY <1>0, <3>2 DEF TypeOK, Queued
      <4>2. e.ticket = x => By[x] = p
        BY <4>1, EntryFacts
      <4>3. e.ticket = x => InMeta(x)
        BY <3>2, <4>2 DEF InMeta
      <4> HIDE DEF e
      <4>4. PICK i \in 1..Len(Append(o, e)) : Append(o, e)[i].ticket = x
        BY <2>3, <3>2 DEF InEntries, e
      <4>5. Append(o, e)[i] = e \/ (i \in 1..Len(o) /\ Append(o, e)[i] = o[i])
        BY <1>0, <4>1
      <4> QED BY <4>3, <4>4, <4>5 DEF InEntries
    <3> QED BY <2>1, <3>1, <3>2
  <2> QED BY <1>1, <2>1, <2>2, <2>3, ScanStays DEF Removed
<1> QED BY <1>2, <1>3

\* The pair is one of entries the scan holds; no key of it is deleted yet.
LEMMA FindPairStays ==
  ASSUME IInv, TicketInv, NEW m \in Scanners, FindPair(m)
  PROVE  TicketInv'
<1>0. TypeOK /\ ScanInv /\ UNCHANGED <<meta, req, rooms>>
  BY DEF IInv, FindPair
<1>1. PICK d \in ScanType :
        /\ Moved(m, d) /\ d.pc \in {"removing", "ready"}
        /\ \A i \in 1..Len(d.entries) : \E j \in 1..Len(scan[m].entries) : d.entries[i] = scan[m].entries[j]
        /\ d.pc = "removing" => /\ d.step = 1
                                /\ \E i, j \in 1..Len(scan[m].entries) :
                                     d.pair = <<scan[m].entries[i], scan[m].entries[j]>>
  BY <1>0, FindPairMoves
<1>2. \A x \in Requests : InEntries(d, x) => InEntries(scan[m], x)
  BY <1>1 DEF InEntries
<1>3. \A x \in Requests : InPair(d, x) => InEntries(scan[m], x)
  BY <1>1 DEF InPair, InEntries
<1>4. \A x \in Requests : ~Removed(d, x)
  BY <1>1 DEF Removed, InPair
<1> QED BY <1>0, <1>1, <1>2, <1>3, <1>4, ScanStays

\* Each del takes the key of one of the pair away.
LEMMA RemovePairStays ==
  ASSUME IInv, TicketInv, NEW m \in Scanners, RemovePair(m)
  PROVE  TicketInv'
<1> DEFINE c == scan[m]  a == c.pair[1]  b == c.pair[2]
<1>0. /\ TypeOK /\ ScanInv /\ UNCHANGED <<req, rooms>> /\ c \in ScanType /\ ScanOK(c)
      /\ c.pc = "removing" /\ c.step \in 1..4
  BY RecordFacts DEF IInv, ScanInv, RemovePair
<1>1. PICK d \in ScanType :
        /\ Moved(m, d) /\ d.entries = c.entries /\ d.pair = c.pair
        /\ IF c.step = 4 THEN d.pc = "posting" ELSE d.pc = "removing" /\ d.step = c.step + 1
  BY <1>0, RemovePairMoves
<1>2. /\ a \in Entry /\ b \in Entry
      /\ a.player = By[a.ticket] /\ b.player = By[b.ticket]
      /\ a.player \in Players /\ b.player \in Players
  BY <1>0, PairApart, EntryFacts
<1>3. /\ c.step \in {1, 3} => meta' = meta
      /\ c.step = 2 => meta' = [meta EXCEPT ![a.player] = NoEntry]
      /\ c.step = 4 => meta' = [meta EXCEPT ![b.player] = NoEntry]
  <2> DEFINE r == Removals(c.pair)[c.step]
  <2>1. /\ c.step \in {1, 3} => r.op = "zrem"
        /\ c.step = 2 => r.op = "del" /\ r.of = a
        /\ c.step = 4 => r.op = "del" /\ r.of = b
    BY DEF Removals
  <2>2. IF r.op = "zrem" THEN meta' = meta ELSE meta' = [meta EXCEPT ![r.of.player] = NoEntry]
    BY DEF RemovePair, MetaWithout
  <2> HIDE DEF r
  <2> QED BY <2>1, <2>2
<1>4. meta \in [Players -> [entry : Entry, expires : Nat] \union {NoEntry}]
  BY <1>0 DEF TypeOK
<1>5. \A p \in Players : meta'[p] \in {meta[p], NoEntry}
  BY <1>0, <1>2, <1>3, <1>4
<1>6. \A x \in Requests : InEntries(d, x) \/ InPair(d, x) => InEntries(c, x) \/ InPair(c, x)
  BY <1>0, <1>1 DEF InEntries, InPair
<1>7. \A x \in Requests : InMeta(x)' => InMeta(x)
  BY <1>5, MatchmakingAssumption DEF InMeta, Queued
<1>8. ASSUME NEW x \in Requests, Removed(d, x) PROVE ~InMeta(x)'
  <2>1. x = a.ticket \/ x = b.ticket
    BY <1>1, <1>8 DEF Removed, InPair
  <2>2. CASE c.step = 1
    BY <1>1, <1>8, <2>2 DEF Removed
  <2>3. CASE c.step = 2
    <3>1. x = a.ticket /\ meta'[By[x]] = NoEntry
      BY <1>1, <1>2, <1>3, <1>4, <1>8, <2>3 DEF Removed
    <3> QED BY <3>1 DEF InMeta, Queued
  <2>4. CASE c.step \in {3, 4} /\ x = a.ticket
    <3>1. Removed(c, x)
      BY <1>0, <2>4 DEF Removed, InPair
    <3> QED BY <1>7, <3>1 DEF TicketInv
  <2>5. CASE c.step = 3 /\ x # a.ticket
    BY <1>1, <1>8, <2>5 DEF Removed
  <2>6. CASE c.step = 4 /\ x # a.ticket
    <3>1. meta'[By[x]] = NoEntry
      BY <1>2, <1>3, <1>4, <2>1, <2>6
    <3> QED BY <3>1 DEF InMeta, Queued
  <2> QED BY <1>0, <2>2, <2>3, <2>4, <2>5, <2>6
<1> HIDE DEF c
<1>9. \A x \in Requests : InEntries(d, x) \/ InPair(d, x) =>
        InEntries(scan[m], x) \/ InPair(scan[m], x) \/ InMeta(x)
  BY <1>6 DEF c
<1> QED BY <1>0, <1>1, <1>5, <1>8, <1>9, ScanStays

\* The pair is in no room of this scanner yet, nor in its hands any more.
LEMMA PostRoomStays ==
  ASSUME IInv, TicketInv, NEW m \in Scanners,
         NEW created \in BOOLEAN, NEW ok \in BOOLEAN, PostRoom(m, created, ok)
  PROVE  TicketInv'
<1> DEFINE c == scan[m]
<1>0. TypeOK /\ ScanInv /\ UNCHANGED <<meta, req>> /\ c \in ScanType /\ ScanOK(c) /\ c.pc = "posting"
  BY RecordFacts DEF IInv, ScanInv, PostRoom
<1>1. PICK d \in ScanType : Moved(m, d) /\ d.entries = c.entries /\ d.pc \in {"announcing", "reading"}
  BY <1>0, PostRoomMoves
<1>2. \A x \in Requests : ~InPair(d, x) /\ (InEntries(d, x) => InEntries(c, x))
  BY <1>1 DEF InPair, InEntries
<1>3. scan'[m] = d /\ \A n \in Scanners : n # m => scan'[n] = scan[n]
  BY <1>0, <1>1, RecordFacts DEF Moved
<1>4. CASE rooms' = rooms
  <2>1. \A x \in Requests : ~Removed(d, x)
    BY <1>2 DEF Removed
  <2>2. \A p \in Players : meta'[p] \in {meta[p], NoEntry}
    BY <1>0
  <2> QED BY <1>0, <1>1, <1>2, <1>4, <2>1, <2>2, ScanStays
<1>5. CASE rooms' = Append(rooms, Room(m))
  <2> DEFINE q == Room(m)
  <2>0. q[1] = c.pair[1] /\ q[2] = c.pair[2] /\ q[3] = m /\ q \in Entry \X Entry \X Scanners
    BY <1>0 DEF ScanOK, Room
  <2>1. /\ DOMAIN rooms = 1..Len(rooms) /\ Len(rooms) \in Nat
        /\ DOMAIN rooms' = 1..Len(rooms) + 1
        /\ \A n \in DOMAIN rooms : rooms'[n] = rooms[n]
        /\ rooms'[Len(rooms) + 1] = q
    <3>1. rooms \in Seq(Entry \X Entry \X Scanners)
      BY <1>0 DEF TypeOK
    <3> HIDE DEF q
    <3>2. rooms' = Append(rooms, q)
      BY <1>5 DEF q
    <3> QED BY <2>0, <3>1, <3>2
  <2>2. \A n \in DOMAIN rooms' : n \in DOMAIN rooms \/ n = Len(rooms) + 1
    BY <2>1
  <2> HIDE DEF q
  <2>3. \A x \in Requests : InRoom(q, x) => InPair(c, x) /\ Removed(c, x)
    BY <1>0, <2>0 DEF InRoom, InPair, Removed
  <2>4. \A x \in Requests : InRoom(q, x) => ~InMeta(x) /\ ~InEntries(c, x) /\ ~Used(m, x) /\ req[x].pc = "done"
    BY <1>0, <2>3, PairApart DEF TicketInv, Somewhere
  <2> HIDE DEF c
  <2>5. \A x \in Requests : \A n \in Scanners : Used(n, x)' => Used(n, x) \/ (n = m /\ InRoom(q, x))
    BY <2>0, <2>1, <2>2 DEF Used
  <2>6. \A x \in Requests : InMeta(x)' = InMeta(x)
    BY <1>0 DEF InMeta, Queued
  <2>7. \A x \in Requests : Somewhere(x)' => Somewhere(x) \/ InRoom(q, x)
    <3>1. ASSUME NEW x \in Requests, NEW n \in Scanners, InEntries(scan'[n], x) \/ InPair(scan'[n], x)
          PROVE  InEntries(scan[n], x) \/ InPair(scan[n], x)
      BY <1>2, <1>3, <3>1 DEF c
    <3> QED BY <2>5, <2>6, <3>1 DEF Somewhere
  <2>8. \A x \in Requests : Somewhere(x)' => req'[x].pc = "done"
    BY <1>0, <2>4, <2>7 DEF TicketInv
  <2>9. \A x \in Requests : \A n \in Scanners : Used(n, x)' =>
          ~InMeta(x)' /\ ~InEntries(scan'[n], x) /\ ~InPair(scan'[n], x)
    BY <1>2, <1>3, <2>4, <2>5, <2>6 DEF TicketInv, c
  <2>10. \A n \in Scanners : \A x \in Requests : Removed(scan'[n], x) => ~InMeta(x)'
    <3>1. \A x \in Requests : ~Removed(d, x)
      BY <1>2 DEF Removed
    <3> QED BY <1>3, <2>6, <3>1 DEF TicketInv
  <2>11. ASSUME NEW n \in DOMAIN rooms', NEW k \in DOMAIN rooms', n # k, rooms'[n][3] = rooms'[k][3],
                NEW x \in Requests
         PROVE  ~(InRoom(rooms'[n], x) /\ InRoom(rooms'[k], x))
    <3>1. CASE n \in DOMAIN rooms /\ k \in DOMAIN rooms
      BY <2>1, <2>11, <3>1 DEF TicketInv
    <3>2. CASE n \in DOMAIN rooms /\ k = Len(rooms) + 1
      BY <2>0, <2>1, <2>4, <2>11, <3>2 DEF Used
    <3>3. CASE k \in DOMAIN rooms /\ n = Len(rooms) + 1
      BY <2>0, <2>1, <2>4, <2>11, <3>3 DEF Used
    <3> QED BY <2>2, <2>11, <3>1, <3>2, <3>3
  <2> QED BY <2>8, <2>9, <2>10, <2>11 DEF TicketInv
<1>6. rooms' = rooms \/ rooms' = Append(rooms, Room(m))
  BY DEF PostRoom, Room
<1> QED BY <1>4, <1>5, <1>6

LEMMA EndStays ==
  ASSUME IInv, TicketInv, NEW m \in Scanners, Announce(m) \/ ScannerDies(m)
  PROVE  TicketInv'
<1>0. TypeOK /\ ScanInv /\ UNCHANGED <<meta, req, rooms>>
  BY DEF IInv, Announce, ScannerDies
<1>1. PICK d \in ScanType :
        Moved(m, d) /\ d.entries \in {<<>>, scan[m].entries} /\ d.pc \in {"reading", "ready"}
  BY <1>0, EndMoves
<1>2. \A x \in Requests : ~InPair(d, x) /\ (InEntries(d, x) => InEntries(scan[m], x))
  BY <1>1 DEF InPair, InEntries
<1>3. \A x \in Requests : ~Removed(d, x)
  BY <1>2 DEF Removed
<1>4. \A p \in Players : meta'[p] \in {meta[p], NoEntry}
  BY <1>0
<1> QED BY <1>0, <1>1, <1>2, <1>3, <1>4, ScanStays

LEMMA StepKeepsTickets ==
  ASSUME IInv, TicketInv, [Next]_vars
  PROVE  TicketInv'
<1>0. meta \in [Players -> [entry : Entry, expires : Nat] \union {NoEntry}]
      /\ req \in [Requests -> ReqType]
  BY DEF IInv, TypeOK, ReqType
<1>1. CASE Tick \/ UNCHANGED vars
  <2>1. UNCHANGED <<scan, rooms, req>> /\ \A p \in Players : meta'[p] \in {meta[p], NoEntry}
    BY <1>1 DEF Tick, vars
  <2> QED BY <2>1, RequestsStay
<1>2. ASSUME NEW x \in Requests,
             \/ LeaveRead(x) \/ Handle(x) \/ RequestDies(x)
             \/ \E r \in RegionSet : JoinCheck(x, r)
      PROVE  TicketInv'
  <2>1. CASE JoinMeta(x)
    BY <2>1, JoinMetaStays
  <2>2. CASE ~JoinMeta(x)
    <3>1. UNCHANGED <<scan, rooms>> /\ \A p \in Players : meta'[p] \in {meta[p], NoEntry}
      BY <1>0, <1>2, <2>2, MatchmakingAssumption
         DEF LeaveRead, Handle, RequestDies, JoinCheck, JoinRank, LeaveRank, LeaveMeta
    <3>2. req[x].pc # "done" /\ \E pc, e : Step(x, pc, e)
      BY <1>2, <2>2 DEF LeaveRead, Handle, RequestDies, JoinCheck, JoinRank, LeaveRank, LeaveMeta
    <3>3. \A y \in Requests : y # x => req'[y] = req[y]
      BY <1>0, <3>2 DEF Step
    <3> QED BY <3>1, <3>2, <3>3, RequestsStay
  <2> QED BY <2>1, <2>2
<1>3. ASSUME NEW m \in Scanners, Scan(m) \/ ScannerDies(m) PROVE TicketInv'
  BY <1>3, ReadingStays, FindPairStays, RemovePairStays, PostRoomStays, EndStays DEF Scan
<1> QED BY <1>1, <1>2, <1>3 DEF Next

\* Two rooms of one join were made by scanners that ran side by side, whatever
\* joins, leaves, expiries, failures and restarts come in between, for any
\* players, regions, requests and scanners (createMatch, dequeue, the queue
\* routes).
THEOREM OneRoomPerScannerAlways == Spec => []OneRoomPerScanner
<1> DEFINE Inv == IInv /\ TicketInv
<1>1. Init => Inv
  BY InitInv, TicketsInit
<1>2. Inv /\ [Next]_vars => Inv'
  BY StepKeepsInv, StepKeepsTickets
<1>3. Inv => OneRoomPerScanner
  BY OneRoom
<1> HIDE DEF Inv
<1> QED BY <1>1, <1>2, <1>3, PTL DEF Spec
===============================================================================
