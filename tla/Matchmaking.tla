------------------------------ MODULE Matchmaking ------------------------------
(***************************************************************************)
(* Ranked matchmaking: the API's join and leave handlers                   *)
(* (api-server/routes/matchmaking.ts), the matcher's scan                  *)
(* (matchmaker/matcher.ts, queue.ts) and the Redis keys they share: one    *)
(* sorted set of players per region, and one key per player that holds its *)
(* queue entry and expires.                                                *)
(*                                                                         *)
(* Every Redis command is a step of its own: handlers and scans await them *)
(* and nothing holds the keys of a player together.  What is synchronous   *)
(* between two awaits is one step.  Time advances in ticks; ratings are    *)
(* fixed, because an entry and its score come from one read of the player. *)
(* A ticket is the request that made a queue entry: it stands for the      *)
(* fighter, the region and the time of that one join.                      *)
(***************************************************************************)
EXTENDS Integers, Sequences, FiniteSets

CONSTANTS
  Players,        \* player ids, numbers: ties in the sorted set go by id
  Rating,         \* player -> ELO
  REGIONS,        \* the order in which a scan visits the regions
  Requests,       \* HTTP requests, each made once
  By,             \* request -> the player who makes it
  Wishes,         \* request -> the regions it may name, if it is a join
  Scanners,       \* scans that may be under way at once: the timer does not wait for the last
  NoEntry,        \* an absent key
  EloInitial, EloExpansion, EloMax,   \* config.matchmaker, per tick
  TTL,            \* life of a queue entry, in ticks
  MaxTime,        \* bound: the last tick
  MaxFailures     \* bound: how often a scan, a request or a POST to the relay fails

RegionSet == {REGIONS[k] : k \in 1..Len(REGIONS)}

ASSUME MatchmakingAssumption ==
  /\ Players \subseteq Nat /\ IsFiniteSet(Players)
  /\ Rating \in [Players -> Nat]
  /\ REGIONS \in Seq(RegionSet) /\ Len(REGIONS) > 0
  /\ By \in [Requests -> Players]
  /\ Wishes \in [Requests -> SUBSET RegionSet]
  /\ {EloInitial, EloExpansion, EloMax, TTL, MaxTime, MaxFailures} \subseteq Nat

VARIABLES
  now,       \* the clock
  zset,      \* region -> the members of its sorted set
  meta,      \* player -> its queue entry with its expiry, or NoEntry
  req,       \* request -> how far its handler has come, and its entry
  scan,      \* scanner -> how far its scan has come
  rooms,     \* the rooms the relay has created: two entries and the scanner
  published, \* history: numbers of the rooms that were announced
  orphans,   \* history: rooms whose POST was not answered well, or whose scan then broke off
  failures   \* how often a scan, a request or a POST has failed

vars == <<now, zset, meta, req, scan, rooms, published, orphans, failures>>

Entry ==
  {e \in [ticket : Requests, player : Players, region : RegionSet, at : 0..MaxTime] :
     e.player = By[e.ticket]}
EntryOf(x, r) == [ticket |-> x, player |-> By[x], region |-> r, at |-> now]

Idle == [pc |-> "ready", k |-> 1, todo |-> <<>>, entries |-> <<>>, pair |-> <<>>, step |-> 1, room |-> 0]

Init ==
  /\ now  = 0
  /\ zset = [r \in RegionSet |-> {}]
  /\ meta = [p \in Players |-> NoEntry]
  /\ req  = [x \in Requests |-> [pc |-> "new", entry |-> NoEntry]]
  /\ scan = [m \in Scanners |-> Idle]
  /\ rooms = <<>>
  /\ published = {}
  /\ orphans = {}
  /\ failures = 0

(***************************************************************************)
(* POST /queue: exists, then (after the read of the player's rating) zadd  *)
(* and set, sent together and executed in this order.                      *)
(***************************************************************************)
Queued(p) == meta[p] # NoEntry
Step(x, pc, e) == req' = [req EXCEPT ![x] = [pc |-> pc, entry |-> e]]

JoinCheck(x, r) ==
  /\ req[x].pc = "new"
  /\ r \in Wishes[x]
  /\ now + TTL <= MaxTime
  /\ IF Queued(By[x]) THEN Step(x, "done", NoEntry)
     ELSE Step(x, "admitted", EntryOf(x, r))
  /\ UNCHANGED <<now, zset, meta, scan, rooms, published, orphans, failures>>

\* queuedAt is taken as the commands are sent.
JoinRank(x) ==
  LET e == [req[x].entry EXCEPT !.at = now] IN
  /\ req[x].pc = "admitted"
  /\ zset' = [zset EXCEPT ![e.region] = @ \union {e.player}]
  /\ Step(x, "ranked", e)
  /\ UNCHANGED <<now, meta, scan, rooms, published, orphans, failures>>

\* The key written without EX.
Expiry_Never == MaxTime + 1

Expiry == now + TTL

JoinMeta(x) ==
  LET p == By[x] IN
  /\ req[x].pc = "ranked"
  /\ meta' = [meta EXCEPT ![p] = [entry |-> req[x].entry, expires |-> Expiry]]
  /\ Step(x, "done", NoEntry)
  /\ UNCHANGED <<now, zset, scan, rooms, published, orphans, failures>>

(***************************************************************************)
(* DELETE /queue: get, then zrem from the entry's region and del.          *)
(***************************************************************************)
LeaveRead(x) ==
  /\ req[x].pc = "new"
  /\ IF Queued(By[x]) THEN Step(x, "leaving", meta[By[x]].entry)
     ELSE Step(x, "done", NoEntry)
  /\ UNCHANGED <<now, zset, meta, scan, rooms, published, orphans, failures>>

LeaveRank(x) ==
  /\ req[x].pc = "leaving"
  /\ zset' = [zset EXCEPT ![req[x].entry.region] = @ \ {By[x]}]
  /\ Step(x, "unranked", NoEntry)
  /\ UNCHANGED <<now, meta, scan, rooms, published, orphans, failures>>

LeaveMeta(x) ==
  /\ req[x].pc = "unranked"
  /\ meta' = [meta EXCEPT ![By[x]] = NoEntry]
  /\ Step(x, "done", NoEntry)
  /\ UNCHANGED <<now, zset, scan, rooms, published, orphans, failures>>

(***************************************************************************)
(* One scan: for each region in turn, dequeue reads the sorted set and     *)
(* then each member's key, dropping members whose key is gone; then the    *)
(* pairing walks the entries it has read.                                  *)
(***************************************************************************)
At(m) == REGIONS[scan[m].k]
Before(p, q) == Rating[p] < Rating[q] \/ (Rating[p] = Rating[q] /\ p < q)

\* The members in order: the set of the one sequence that has them so.
Sorted(S) == {s \in [1..Cardinality(S) -> S] : \A i, j \in DOMAIN s : i < j => Before(s[i], s[j])}

ReadMembers(m) ==
  /\ scan[m].pc = "ready"
  /\ \E s \in Sorted(zset[At(m)]) :
       scan' = [scan EXCEPT ![m].pc = "reading", ![m].todo = s]
  /\ UNCHANGED <<now, zset, meta, req, rooms, published, orphans, failures>>

ReadMeta(m) ==
  /\ scan[m].pc = "reading" /\ scan[m].todo # <<>>
  /\ LET p == Head(scan[m].todo) IN
     IF Queued(p)
     THEN scan' = [scan EXCEPT ![m].todo = Tail(@),
                               ![m].entries = Append(@, meta[p].entry)]
     ELSE scan' = [scan EXCEPT ![m].pc = "dropping"]
  /\ UNCHANGED <<now, zset, meta, req, rooms, published, orphans, failures>>

\* Without zrem.
Dropped_Kept(r, p) == zset[r]

Dropped(r, p) == zset[r] \ {p}

DropMember(m) ==
  /\ scan[m].pc = "dropping"
  /\ zset' = [zset EXCEPT ![At(m)] = Dropped(At(m), Head(scan[m].todo))]
  /\ scan' = [scan EXCEPT ![m].pc = "reading", ![m].todo = Tail(@)]
  /\ UNCHANGED <<now, meta, req, rooms, published, orphans, failures>>

(***************************************************************************)
(* The pairing.  Entries are in ascending order of rating; each looks for  *)
(* the first one above it within its own range, which grows with its wait. *)
(* An entry that has found nobody is not looked at again in this scan.     *)
(***************************************************************************)
Wide(e) == EloInitial + EloExpansion * (now - e.at)

\* Math.max for Math.min.
eloRange_Max(e) == IF Wide(e) < EloMax THEN EloMax ELSE Wide(e)

eloRange(e) == IF Wide(e) < EloMax THEN Wide(e) ELSE EloMax

Distance(a, b) ==
  IF Rating[a.player] < Rating[b.player] THEN Rating[b.player] - Rating[a.player]
  ELSE Rating[a.player] - Rating[b.player]

Pairs(es) ==
  {ij \in (DOMAIN es) \X (DOMAIN es) :
     ij[1] < ij[2] /\ Distance(es[ij[1]], es[ij[2]]) <= eloRange(es[ij[1]])}

First(ij, es) ==
  \A kl \in Pairs(es) : ij[1] < kl[1] \/ (ij[1] = kl[1] /\ ij[2] <= kl[2])

After(es, ij) == SubSeq(es, ij[1] + 1, ij[2] - 1) \o SubSeq(es, ij[2] + 1, Len(es))

FindPair(m) ==
  LET es == scan[m].entries IN
  /\ scan[m].pc = "reading" /\ scan[m].todo = <<>>
  /\ \/ \E ij \in Pairs(es) :
          /\ First(ij, es)
          /\ scan' = [scan EXCEPT ![m].pc = "removing", ![m].step = 1,
                                  ![m].pair = <<es[ij[1]], es[ij[2]]>>,
                                  ![m].entries = After(es, ij)]
     \/ /\ Pairs(es) = {}
        /\ scan' = [scan EXCEPT ![m] = [Idle EXCEPT !.k = (scan[m].k % Len(REGIONS)) + 1]]
  /\ UNCHANGED <<now, zset, meta, req, rooms, published, orphans, failures>>

\* The first entry is removed twice, the second stays.
Removals_First(pair) ==
  <<[op |-> "zrem", of |-> pair[1]], [op |-> "del", of |-> pair[1]],
    [op |-> "zrem", of |-> pair[1]], [op |-> "del", of |-> pair[1]]>>

\* createMatch: zrem and del of the first entry, zrem and del of the second.
Removals(pair) ==
  <<[op |-> "zrem", of |-> pair[1]], [op |-> "del", of |-> pair[1]],
    [op |-> "zrem", of |-> pair[2]], [op |-> "del", of |-> pair[2]]>>

MetaWithout(p) == [meta EXCEPT ![p] = NoEntry]

RemovePair(m) ==
  LET c == Removals(scan[m].pair)[scan[m].step] IN
  /\ scan[m].pc = "removing"
  /\ IF c.op = "zrem"
     THEN zset' = [zset EXCEPT ![c.of.region] = @ \ {c.of.player}] /\ UNCHANGED meta
     ELSE meta' = MetaWithout(c.of.player) /\ UNCHANGED zset
  /\ scan' = [scan EXCEPT ![m].step = IF @ = 4 THEN 1 ELSE @ + 1,
                          ![m].pc = IF scan[m].step = 4 THEN "posting" ELSE @]
  /\ UNCHANGED <<now, req, rooms, published, orphans, failures>>

\* One of the failures the bound allows.
Failure == failures < MaxFailures /\ failures' = failures + 1

\* The match is never published.
AfterPost_Silent(ok) == "reading"

\* A failed POST ends createMatch: the pair is out of the queue and nothing is
\* published, whether or not the relay has made the room.
AfterPost(ok) == IF ok THEN "announcing" ELSE "reading"

PostRoom(m, created, ok) ==
  /\ scan[m].pc = "posting"
  /\ ok => created
  /\ IF ok THEN UNCHANGED failures ELSE Failure
  /\ rooms' = IF created THEN Append(rooms, <<scan[m].pair[1], scan[m].pair[2], m>>) ELSE rooms
  /\ orphans' = IF created /\ ~ok THEN orphans \union {Len(rooms')} ELSE orphans
  /\ scan' = [scan EXCEPT ![m].pc = AfterPost(ok), ![m].pair = <<>>,
                          ![m].room = IF ok THEN Len(rooms') ELSE 0]
  /\ UNCHANGED <<now, zset, meta, req, published>>

\* The match:room key and the two match:found messages, which nothing else
\* in the repository reads.
Announce(m) ==
  /\ scan[m].pc = "announcing"
  /\ published' = published \union {scan[m].room}
  /\ scan' = [scan EXCEPT ![m].pc = "reading", ![m].room = 0]
  /\ UNCHANGED <<now, zset, meta, req, rooms, orphans, failures>>

(***************************************************************************)
(* Time passes and keys expire.  The bound: joins are over TTL ticks       *)
(* before the last one, so that every entry can expire.                    *)
(***************************************************************************)
JoinPending == \E x \in Requests : req[x].pc \in {"admitted", "ranked"}

Tick ==
  /\ now < MaxTime
  /\ JoinPending => now + TTL < MaxTime
  /\ now' = now + 1
  /\ meta' = [p \in Players |->
                IF Queued(p) /\ meta[p].expires <= now + 1 THEN NoEntry ELSE meta[p]]
  /\ UNCHANGED <<zset, req, scan, rooms, published, orphans, failures>>

\* The matcher dies, or Redis fails a scan; the API dies, or fails a request.
ScannerDies(m) ==
  /\ Failure
  /\ scan[m] # Idle
  /\ scan' = [scan EXCEPT ![m] = Idle]
  /\ orphans' = IF scan[m].pc = "announcing" THEN orphans \union {scan[m].room} ELSE orphans
  /\ UNCHANGED <<now, zset, meta, req, rooms, published>>

RequestDies(x) ==
  /\ Failure
  /\ req[x].pc \notin {"new", "done"}
  /\ Step(x, "done", NoEntry)
  /\ UNCHANGED <<now, zset, meta, scan, rooms, published, orphans>>

Handle(x) == JoinRank(x) \/ JoinMeta(x) \/ LeaveRank(x) \/ LeaveMeta(x)

Scan(m) ==
  \/ ReadMembers(m) \/ ReadMeta(m) \/ DropMember(m) \/ FindPair(m)
  \/ RemovePair(m) \/ Announce(m)
  \/ \E created, ok \in BOOLEAN : PostRoom(m, created, ok)

Next ==
  \/ Tick
  \/ \E x \in Requests : LeaveRead(x) \/ Handle(x) \/ RequestDies(x)
  \/ \E x \in Requests, r \in RegionSet : JoinCheck(x, r)
  \/ \E m \in Scanners : Scan(m) \/ ScannerDies(m)

(***************************************************************************)
(* A handler that has begun goes on, the interval timer starts a scan      *)
(* again and again and each scan goes on (fetch gives up by itself), and   *)
(* time passes.                                                            *)
(***************************************************************************)
Spec ==
  /\ Init /\ [][Next]_vars
  /\ WF_vars(Tick)
  /\ \A x \in Requests : WF_vars(Handle(x))
  /\ \A m \in Scanners : WF_vars(Scan(m))
-------------------------------------------------------------------------------
\* The variables keep the shapes their comments give.
TypeOK ==
  /\ now \in 0..MaxTime
  /\ zset \in [RegionSet -> SUBSET Players]
  /\ meta \in [Players -> [entry : Entry, expires : Nat] \union {NoEntry}]
  /\ \A p \in Players : Queued(p) => meta[p].entry.player = p
  /\ req \in [Requests -> [pc : {"new", "admitted", "ranked", "leaving", "unranked", "done"},
                           entry : Entry \union {NoEntry}]]
  /\ \A x \in Requests :
       /\ req[x].pc \in {"admitted", "ranked", "leaving"} => req[x].entry \in Entry
       /\ req[x].pc \in {"admitted", "ranked"} => req[x].entry.ticket = x
  /\ scan \in [Scanners -> [pc : {"ready", "reading", "dropping", "removing", "posting", "announcing"},
                            k : 1..Len(REGIONS), todo : Seq(Players), entries : Seq(Entry),
                            pair : (Entry \X Entry) \union {<<>>}, step : 1..4, room : Nat]]
  /\ rooms \in Seq(Entry \X Entry \X Scanners)
  /\ published \subseteq DOMAIN rooms /\ orphans \subseteq DOMAIN rooms
  /\ failures \in 0..MaxFailures

(***************************************************************************)
(* What the queue is for: a join leads to one match at most.  The code does *)
(* not ensure it when the timer starts a scan while the last one is still  *)
(* under way: both read the same keys, and createMatch does not look at    *)
(* what its zrem and del removed (index.ts, createMatch, remove).          *)
(***************************************************************************)
Uses(x) == {n \in DOMAIN rooms : x \in {rooms[n][1].ticket, rooms[n][2].ticket}}
OneRoomPerTicket == \A x \in Requests : Cardinality(Uses(x)) <= 1

(***************************************************************************)
(* And that is the only way: however many scans overlap, and whatever      *)
(* joins, leaves, expiries, failed POSTs and broken-off scans come between *)
(* what a scan reads and what it deletes, one that starts when the last    *)
(* has ended never matches a join that one has matched.  Two rooms of one  *)
(* join come from scans that were under way side by side (dequeue,         *)
(* createMatch, remove).                                                   *)
(***************************************************************************)
OneRoomPerScanner ==
  \A x \in Requests : \A n, k \in Uses(x) : rooms[n][3] = rooms[k][3] => n = k

\* Whom the matcher brings together are two players, their ratings are never
\* further apart than the widest range, and the first of them has waited long
\* enough for the other, although the entries were read before the clock and
\* the queue moved on (scanRegion, eloRange).
Apart(n) == Rating[rooms[n][1].player] - Rating[rooms[n][2].player]
PairsSound ==
  \A n \in DOMAIN rooms :
    /\ rooms[n][1].player # rooms[n][2].player
    /\ Apart(n) \in (-EloMax)..EloMax
    /\ Apart(n) \in (-Wide(rooms[n][1]))..Wide(rooms[n][1])

\* A member of a sorted set whose key is gone does not stay: the scans drop
\* it, or its key comes back (dequeue).
GhostsSwept ==
  \A p \in Players, r \in RegionSet :
    (p \in zset[r] /\ ~Queued(p)) ~> (p \notin zset[r] \/ Queued(p))

\* A player is never shut out as "already queued" for good, not even when a
\* race has left its key without its place in the sorted set (EX 120).
EntryEnds == \A p \in Players : Queued(p) ~> ~Queued(p)

\* Every room the relay makes is published in the end, unless its POST was
\* not answered well or its scan broke off: only those are lost to their
\* players (createMatch after the POST).
RoomsAnnounced == <>[](published \union orphans = DOMAIN rooms)
===============================================================================
