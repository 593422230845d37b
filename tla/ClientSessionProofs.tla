-------------------------- MODULE ClientSessionProofs --------------------------
(***************************************************************************)
(* Theorems about the session of the players' programs, for any number of  *)
(* programs, rooms, sockets and loadouts.                                  *)
(*                                                                         *)
(* None of the properties is inductive.  A socket is lost unless a program *)
(* is without one wherever the screens let it connect, which Shaped says   *)
(* of a program by itself, but for a socket that main opened and that came *)
(* to the lobby from the title: FirstInv has it that this is the first.    *)
(* What a program holds agrees with its seat only because what is on its   *)
(* way to it does: Linked, InboxInv and UpInv follow the slot, the verdict *)
(* and the loadout from the seat, through the messages, into the program.  *)
(***************************************************************************)
EXTENDS ClientSession, SequenceTheorems, WellFoundedInduction, TLAPS

\* Where a program of the lobby has no connection.
Idle == {"setup", "role", "creating", "enter code"}

\* A program whose connection, if it has one, is not that of a room it made or
\* joined in the lobby.
OnItsOwn(p) == p.sub \in Idle \/ p.local

\* A program by itself.
Shaped(p) ==
  /\ p.fd = NoConn <=> p.hs \in {"idle", "closed"}
  /\ ~p.running => p.fd = NoConn
  /\ p.fd # NoConn /\ OnItsOwn(p) => p.args /\ p.me = p.slot
  /\ p.fd # NoConn /\ ~OnItsOwn(p) => (p.p1 <=> p.slot = 0)
  /\ p.game = "title" /\ p.hs = "idle" => p.me = p.slot
  /\ p.local => p.sub \in {"loadout", "ready"}
  /\ p.hs = "idle" => p.opp = NotHeard
  /\ p.net \in {"ready", "fighting", "ended"} => p.fd # NoConn
  /\ p.mine # Unset \/ p.sent => p.sub \in {"loadout", "ready"}
  /\ ~p.local /\ p.mine # Unset => p.sent
  /\ p.pend = "lobby" => p.sub = "setup" /\ (p.fd = NoConn \/ p.game = "title")
  /\ p.pend = "title" => p.hs = "closed"
  /\ p.game \in {"title", "search"} => p.sub = "setup"
  /\ p.game = "search" \/ p.pend \in {"search", "title"} => p.args /\ p.game \in {"title", "search"}
  /\ ~p.args /\ p.game = "title" => p.pend = "lobby"
  /\ p.game = "lobby" /\ p.pend # "none" => p.sub = "ready"
  /\ p.pend \in {"fight", "results"} \/ p.game \in {"fight", "results"} => p.sub \in {"setup", "ready"}

\* A program that has gone on to a match with its connection: from the lobby, or
\* from the search.
Begun(p) ==
  \/ ~p.local /\ p.sub \in {"loadout", "ready"}
  \/ p.sub = "setup" /\ (p.pend \in {"fight", "results"} \/ p.game \in {"fight", "results"})

Seated(k) == \E room \in Rooms, s \in Slots : Sits(k, room, s)

Started(room) == state[room] \notin {"unborn", "waiting"}

\* l is what the user at the other end of o has chosen, if it is still there.
ChosenBy(o, l) == o # NoConn /\ \A d \in Clients : cl[d].fd = o => cl[d].mine = l /\ cl[d].sent

\* A program whose connection sits at s.
AtSeat(p, room, s) ==
  /\ p.slot = s
  /\ p.net \in {"ready", "fighting"} \/ Begun(p) => Started(room) /\ p.yours = s
  /\ Begun(p) => p.me = s
  /\ p.net = "ended" => p.winner = s /\ verdict[room] = s /\ state[room] = "closed"
  /\ p.opp # NotHeard => ChosenBy(seat[room][Opponent(s)], p.opp)
  /\ Begun(p) /\ p.sub = "setup" => p.sim = <<Unset, Unset>>
  /\ ~p.local /\ p.sub = "ready" =>
       p.sim[s + 1] = p.mine /\ ChosenBy(seat[room][Opponent(s)], p.sim[Opponent(s) + 1])

\* A program with a connection.
Linked(p) ==
  /\ p.net \in {"ready", "fighting", "ended"} \/ Begun(p) \/ p.opp # NotHeard => Seated(p.fd)
  /\ \A room \in Rooms, s \in Slots : Sits(p.fd, room, s) => AtSeat(p, room, s)

Fit(p) == p \in Program /\ Shaped(p) /\ (p.fd # NoConn => Linked(p))

ProgramInv == \A c \in Clients : Fit(cl[c])

\* An open socket is that of its program, or the first of one with arguments.
Held(k) ==
  \E c \in Clients : conn[k].by = c /\ (cl[c].fd = k \/ (cl[c].args /\ FirstOf(c, k)))

ConnInv ==
  /\ \A c \in Clients : cl[c].fd # NoConn => conn[cl[c].fd].by = c /\ conn[cl[c].fd].client = "open"
  /\ \A k \in Conns : conn[k].client = "open" => Held(k)
  /\ \A k \in Conns : conn[k].client = "new" => conn[k].relay = "new"
  /\ \A k \in Conns : conn[k].relay = "new" => up[k] = <<>> /\ inbox[k] = <<>> /\ ~Seated(k)

\* Where sockets come from: a program that has a socket on its own has its first,
\* one that has not started has none, and they are taken in order.
FirstInv ==
  /\ \A c \in Clients, k \in Conns : cl[c].fd = k /\ OnItsOwn(cl[c]) => FirstOf(c, k)
  /\ \A c \in Clients : NotStarted(cl[c]) => \A k \in Conns : conn[k].by # c
  /\ \A j, k \in Conns : j < k /\ conn[j].client = "new" => conn[k].client = "new"
  /\ \A k \in Conns : conn[k].client = "new" => conn[k].by \notin Clients

RoomInv ==
  /\ \A room \in Rooms :
      /\ state[room] = "unborn" => \A s \in Slots : seat[room][s] = NoConn
      /\ state[room] = "waiting" => \E s \in Slots : seat[room][s] = NoConn
      /\ state[room] = "active" => \A s \in Slots : seat[room][s] # NoConn
  /\ \A k \in Conns : \A q, room \in Rooms, s, t \in Slots :
       Sits(k, q, s) /\ Sits(k, room, t) => q = room /\ s = t

\* What a message of connection k says of it.
JoinSound(k, m) ==
  /\ m.type = "JOIN" /\ ~Seated(k) /\ inbox[k] = <<>>
  /\ \A c \in Clients : cl[c].fd = k => m.slot = cl[c].slot

LoadoutSound(k, m) ==
  /\ m.type = "LOADOUT" /\ Seated(k) /\ ChosenBy(k, m.loadout)
  /\ \A room \in Rooms, s \in Slots : Sits(k, room, s) => Started(room)

UpFine(k) ==
  \A n \in 1..Len(up[k]) :
    LoadoutSound(k, up[k][n]) \/ (Len(up[k]) = 1 /\ JoinSound(k, up[k][n]))

UpInv == \A k \in Conns : UpFine(k)

\* What a message to the connection that sits at s says of the room.
Proper(m, room, s) ==
  \/ m \in {Waiting, Notice}
  \/ m = Start(s) /\ Started(room)
  \/ m = End(s) /\ verdict[room] = s /\ state[room] = "closed"
  \/ m.type = "LOADOUT" /\ m.loadout \in AllPacks /\ ChosenBy(seat[room][Opponent(s)], m.loadout)

Delivers(k, m) == \E room \in Rooms, s \in Slots : Sits(k, room, s) /\ Proper(m, room, s)

InboxFine(k) == \A n \in 1..Len(inbox[k]) : Delivers(k, inbox[k][n])

InboxInv == \A k \in Conns : InboxFine(k)

IInv == TypeOK /\ ProgramInv /\ ConnInv /\ FirstInv /\ RoomInv /\ UpInv /\ InboxInv

-------------------------------------------------------------------------------
(***************************************************************************)
(* What net_client_receive dispatches, one message after the other.        *)
(***************************************************************************)
Below == {p \in Nat \X Nat : p[1] < p[2]}

\* A set of numbers has a least member.
LEMMA LeastNat ==
  ASSUME NEW T \in SUBSET Nat, T # {}
  PROVE  \E x \in T : \A y \in T : x <= y
<1>1. IsWellFoundedOn(Below, Nat)
  BY NatLessThanWellFounded DEF OpToRel, Below
<1>2. T \subseteq Nat /\ T # {}
  OBVIOUS
<1>3. \E x \in T : \A y \in T : ~(<<y, x>> \in Below)
  BY <1>1, <1>2, WFMin, Zenon
<1>4. \A x, y \in Nat : y < x => <<y, x>> \in Below
  BY DEF Below
<1>5. \A x, y \in Nat : ~(y < x) => x <= y
  OBVIOUS
<1> QED BY <1>3, <1>4, <1>5

\* The recursion of n steps from a by g has a solution in S.
Solvable(S, a, n, g) ==
  \E f \in [0..n -> S] : f[0] = a /\ \A k \in 1..n : f[k] = g[<<f[k - 1], k>>]

\* By the least length for which there would be none.
LEMMA RecursionExists ==
  ASSUME NEW S, NEW a \in S, NEW n \in Nat, NEW g \in [S \X (1..n) -> S]
  PROVE  Solvable(S, a, n, g)
<1> USE DEF Solvable
<1> DEFINE Defined(m) == Solvable(S, a, m, g)
           T == {m \in 0..n : ~Defined(m)}
<1>1. SUFFICES ASSUME T # {} PROVE FALSE
  <2>1. n \in 0..n
    OBVIOUS
  <2> QED BY <2>1
<1>2. PICK x \in T : \A y \in T : x <= y
  <2>1. T \in SUBSET Nat
    OBVIOUS
  <2> HIDE DEF T
  <2> QED BY <1>1, <2>1, LeastNat
<1>3. Defined(0)
  <2> DEFINE f == [i \in 0..0 |-> a]
  <2>1. f \in [0..0 -> S] /\ f[0] = a /\ 1..0 = {}
    OBVIOUS
  <2> HIDE DEF f
  <2> QED BY <2>1
<1>4. x \in 1..n /\ x - 1 \in 0..n /\ x - 1 \notin T
  <2>1. x \in 0..n /\ ~Defined(x)
    OBVIOUS
  <2>2. x # 0
    BY <1>3, <2>1
  <2>3. x \in 1..n /\ x - 1 \in 0..n /\ ~(x <= x - 1)
    BY <2>1, <2>2
  <2> HIDE DEF T
  <2> QED BY <1>2, <2>3
<1>5. PICK f \in [0..(x - 1) -> S] : f[0] = a /\ \A k \in 1..(x - 1) : f[k] = g[<<f[k - 1], k>>]
  BY <1>4
<1> DEFINE h == [i \in 0..x |-> IF i < x THEN f[i] ELSE g[<<f[x - 1], x>>]]
<1>6. f[x - 1] \in S /\ <<f[x - 1], x>> \in S \X (1..n)
  BY <1>4
<1>7. g[<<f[x - 1], x>>] \in S
  BY <1>6
<1>8. /\ \A i \in 0..x : i < x => i \in 0..(x - 1)
      /\ 0 \in 0..x /\ 0 < x /\ \A k \in 1..x : k \in 0..x /\ k - 1 \in 0..x /\ k - 1 < x
      /\ \A k \in 1..x : k < x => k \in 1..(x - 1)
      /\ \A k \in 1..x : ~(k < x) => k = x
  BY <1>4
<1>9. h \in [0..x -> S]
  BY <1>7, <1>8
<1>10. h[0] = a
  BY <1>5, <1>8
<1>11. ASSUME NEW k \in 1..x PROVE h[k] = g[<<h[k - 1], k>>]
  <2>1. h[k - 1] = f[k - 1]
    BY <1>8
  <2>2. CASE k < x
    BY <1>5, <1>8, <2>1, <2>2
  <2>3. CASE k = x
    <3>1. h[x] = g[<<f[x - 1], x>>]
      BY <1>4
    <3> HIDE DEF h
    <3> QED BY <2>1, <2>3, <3>1
  <2> QED BY <1>8, <2>2, <2>3
<1>12. Defined(x)
  <2> HIDE DEF h
  <2> QED BY <1>9, <1>10, <1>11
<1> QED BY <1>12

\* What no message takes a program out of, no sequence of messages does.
LEMMA DispatchedStays ==
  ASSUME NEW G, NEW r \in G, NEW ms, Len(ms) \in Nat,
         \A p \in G : \A n \in 1..Len(ms) : Dispatch(p, ms[n]) \in G
  PROVE  Dispatched(r, ms) \in G
<1> DEFINE N == Len(ms)
           Next1(f) == [n \in 0..N |-> IF n = 0 THEN r ELSE Dispatch(f[n - 1], ms[n])]
           h == CHOOSE f : f = Next1(f)
<1>1. Dispatched(r, ms) = h[N]
  BY DEF Dispatched
<1> DEFINE g == [x \in G \X (1..N) |-> Dispatch(x[1], ms[x[2]])]
<1>2. g \in [G \X (1..N) -> G]
  OBVIOUS
<1>3. \A p \in G : \A n \in 1..N : g[<<p, n>>] = Dispatch(p, ms[n])
  OBVIOUS
<1>4. N \in Nat
  OBVIOUS
<1>5. PICK f \in [0..N -> G] : f[0] = r /\ \A k \in 1..N : f[k] = g[<<f[k - 1], k>>]
  <2> HIDE DEF g, N
  <2>1. Solvable(G, r, N, g)
    BY <1>2, <1>4, RecursionExists
  <2> QED BY <2>1 DEF Solvable
<1>6. f = Next1(f)
  <2>1. \A k \in 0..N : k # 0 => k \in 1..N /\ k - 1 \in 0..N
    OBVIOUS
  <2>2. \A k \in 0..N : f[k] = IF k = 0 THEN r ELSE Dispatch(f[k - 1], ms[k])
    <3> HIDE DEF g, N
    <3> QED BY <1>3, <1>5, <2>1
  <2> HIDE DEF g, N
  <2> QED BY <1>5, <2>2
<1>7. h = Next1(h)
  BY <1>6
<1> DEFINE T == {k \in 0..N : h[k] \notin G}
<1>8. T = {}
  <2> SUFFICES ASSUME T # {} PROVE FALSE
    OBVIOUS
  <2>1. T \in SUBSET Nat
    OBVIOUS
  <2>2. PICK x \in T : \A y \in T : x <= y
    <3> HIDE DEF T
    <3> QED BY <2>1, LeastNat
  <2>3. x \in 0..N /\ h[x] \notin G
    OBVIOUS
  <2>4. h[x] = IF x = 0 THEN r ELSE Dispatch(h[x - 1], ms[x])
    <3> HIDE DEF h, T, N
    <3> QED BY <1>7, <2>3
  <2>5. x # 0
    BY <2>3, <2>4
  <2>6. x \in 1..N /\ x - 1 \in 0..N /\ ~(x <= x - 1)
    BY <2>3, <2>5
  <2>7. h[x - 1] \in G
    <3> HIDE DEF h, N
    <3> QED BY <2>2, <2>6
  <2> HIDE DEF h
  <2> QED BY <2>3, <2>4, <2>5, <2>6, <2>7
<1> HIDE DEF h
<1>9. N \in 0..N
  OBVIOUS
<1> QED BY <1>1, <1>8, <1>9
-------------------------------------------------------------------------------
(***************************************************************************)
(* The logic of the screens keeps a program fit.                           *)
(***************************************************************************)
LEMMA Constants ==
  /\ Slots = {0, 1} /\ \A s \in Slots : Opponent(s) \in Slots /\ Opponent(Opponent(s)) = s /\ Opponent(s) # s
  /\ NoConn \notin Conns /\ \A k \in Conns : k # NoConn
  /\ NotHeard \notin AllPacks /\ Unset \notin AllPacks /\ Stale # NotHeard /\ Unset # NotHeard
<1>1. \A l \in AllPacks : l \in Nat \ {Unset}
  BY SessionAssumption DEF AllPacks
<1> QED BY <1>1, SessionAssumption DEF Slots, Opponent, NoConn, Conns, NotHeard, Unset

\* The sockets before one.
LEMMA EarlierConns ==
  ASSUME NEW k \in Conns
  PROVE  /\ \A j \in 1..k - 1 : j \in Conns /\ j < k /\ j # k
         /\ \A j \in Conns : j < k => j \in 1..k - 1
BY SessionAssumption DEF Conns

Subs == {"setup", "role", "creating", "show code", "enter code", "waiting", "loadout", "ready"}
Nets == {"idle", "connecting", "waiting", "ready", "fighting", "ended", "error"}
Handshakes == {"idle", "tcp", "http", "open", "closed"}

\* Writing one field of a program.
LEMMA OneField ==
  ASSUME NEW p \in Program
  PROVE  /\ \A x \in BOOLEAN : [p EXCEPT !.running = x] \in Program /\ [p EXCEPT !.p1 = x] \in Program
         /\ \A x \in BOOLEAN : [p EXCEPT !.local = x] \in Program /\ [p EXCEPT !.sent = x] \in Program
         /\ \A x \in Screens : [p EXCEPT !.game = x] \in Program
         /\ \A x \in Screens \union {"none"} : [p EXCEPT !.pend = x] \in Program
         /\ \A x \in Subs : [p EXCEPT !.sub = x] \in Program
         /\ \A x \in AllPacks \union {Unset} : [p EXCEPT !.mine = x] \in Program
         /\ \A x \in Slots : [p EXCEPT !.me = x] \in Program /\ [p EXCEPT !.slot = x] \in Program
         /\ \A x \in Slots : [p EXCEPT !.yours = x] \in Program /\ [p EXCEPT !.winner = x] \in Program
         /\ \A x \in AnyPack \X AnyPack : [p EXCEPT !.sim = x] \in Program
         /\ \A x \in Nets : [p EXCEPT !.net = x] \in Program
         /\ \A x \in Handshakes : [p EXCEPT !.hs = x] \in Program
         /\ \A x \in Conns \union {NoConn} : [p EXCEPT !.fd = x] \in Program
         /\ \A x \in Rooms \union {NoRoom} : [p EXCEPT !.room = x] \in Program
         /\ \A x \in BOOLEAN : [p EXCEPT !.online = x] \in Program
         /\ \A x \in AnyPack : [p EXCEPT !.opp = x] \in Program
<1>1. \A x \in BOOLEAN : [p EXCEPT !.running = x] \in Program
  BY DEF Program
<1>2. \A x \in BOOLEAN : [p EXCEPT !.p1 = x] \in Program
  BY DEF Program
<1>16. \A x \in BOOLEAN : [p EXCEPT !.local = x] \in Program
  BY DEF Program
<1>17. \A x \in BOOLEAN : [p EXCEPT !.sent = x] \in Program
  BY DEF Program
<1>3. \A x \in Screens : [p EXCEPT !.game = x] \in Program
  BY DEF Program
<1>4. \A x \in Screens \union {"none"} : [p EXCEPT !.pend = x] \in Program
  BY DEF Program
<1>5. \A x \in Subs : [p EXCEPT !.sub = x] \in Program
  BY DEF Program, Subs
<1>6. \A x \in AllPacks \union {Unset} : [p EXCEPT !.mine = x] \in Program
  BY DEF Program
<1>7. \A x \in Slots : [p EXCEPT !.me = x] \in Program /\ [p EXCEPT !.slot = x] \in Program
  BY DEF Program
<1>8. \A x \in Slots : [p EXCEPT !.yours = x] \in Program /\ [p EXCEPT !.winner = x] \in Program
  BY DEF Program
<1>9. ASSUME NEW x \in AnyPack \X AnyPack PROVE [p EXCEPT !.sim = x] \in Program
  BY DEF Program
<1>10. \A x \in Nets : [p EXCEPT !.net = x] \in Program
  BY DEF Program, Nets
<1>11. \A x \in Handshakes : [p EXCEPT !.hs = x] \in Program
  BY DEF Program, Handshakes
<1>12. \A x \in Conns \union {NoConn} : [p EXCEPT !.fd = x] \in Program
  BY DEF Program
<1>13. \A x \in Rooms \union {NoRoom} : [p EXCEPT !.room = x] \in Program
  BY DEF Program
<1>14. \A x \in BOOLEAN : [p EXCEPT !.online = x] \in Program
  BY DEF Program
<1>15. \A x \in AnyPack : [p EXCEPT !.opp = x] \in Program
  BY DEF Program
<1> QED
  BY <1>1, <1>2, <1>3, <1>4, <1>5, <1>6, <1>7, <1>8, <1>9, <1>10, <1>11, <1>12, <1>13, <1>14, <1>15, <1>16, <1>17

\* What FirstInv says of p it says of q.
Carries(p, q) ==
  /\ q.args = p.args /\ (NotStarted(q) => NotStarted(p))
  /\ q.fd # NoConn /\ q.fd = p.fd /\ OnItsOwn(q) => OnItsOwn(p)

\* The same connection and the same choice.
Akin(p, q) ==
  /\ q.fd = p.fd /\ q.slot = p.slot /\ q.mine = p.mine /\ q.sent = p.sent
  /\ Carries(p, q)

Becoming(p, q) == Fit(q) /\ Akin(p, q)

LEMMA BecomingFacts ==
  /\ \A p : Fit(p) => Becoming(p, p)
  /\ \A p, q, r : Becoming(p, q) /\ Becoming(q, r) => Becoming(p, r)
BY DEF Becoming, Akin, Carries

\* net_client_ack_start and the screen of the loadouts: START came first, so the room has started.
LEMMA ToLoadoutFits == ASSUME NEW p, Fit(p) PROVE Becoming(p, ToLoadout(p))
<1>1. CASE ~BothThere(p)
  BY <1>1, BecomingFacts DEF ToLoadout
<1>2. CASE BothThere(p)
  <2> DEFINE q == [p EXCEPT !.sub = "loadout", !.me = p.yours, !.net = "fighting"]
  <2>1. p \in Program
    BY DEF Fit
  <2>2. ToLoadout(p) = q
    BY <1>2 DEF ToLoadout
  <2>8. q \in Program
    <3>1. p.yours \in Slots
      BY <2>1 DEF Program
    <3> DEFINE a == [p EXCEPT !.sub = "loadout"]
               b == [a EXCEPT !.me = p.yours]
    <3>2. q = [b EXCEPT !.net = "fighting"]
      OBVIOUS
    <3>3. a \in Program
      BY <2>1, OneField DEF Subs
    <3> HIDE DEF a
    <3>4. b \in Program
      BY <3>1, <3>3, OneField
    <3> HIDE DEF b
    <3>5. [b EXCEPT !.net = "fighting"] \in Program
      BY <3>4, OneField DEF Nets
    <3> QED BY <3>2, <3>5 DEF a, b
  <2>3. /\ q.sub = "loadout" /\ q.me = p.yours /\ q.net = "fighting"
        /\ q.running = p.running /\ q.args = p.args /\ q.game = p.game /\ q.pend = p.pend
        /\ q.p1 = p.p1 /\ q.local = p.local /\ q.mine = p.mine /\ q.sent = p.sent
        /\ q.sim = p.sim /\ q.hs = p.hs /\ q.fd = p.fd /\ q.slot = p.slot
        /\ q.opp = p.opp /\ q.yours = p.yours /\ q.winner = p.winner
    BY <2>1 DEF Program
  <2> HIDE DEF q
  <2>4. p.game = "lobby" /\ p.sub \in {"show code", "waiting"} /\ p.net = "ready"
    BY <1>2 DEF BothThere
  <2>5. Shaped(q)
    BY <2>3, <2>4 DEF Fit, Shaped, OnItsOwn, Idle
  <2>6. Linked(p) /\ ~p.local
    BY <2>4 DEF Fit, Shaped
  <2>7. Linked(q)
    BY <2>3, <2>4, <2>6 DEF Linked, AtSeat, Begun
  <2>9. Carries(p, q)
    BY <2>3, <2>4 DEF Carries, NotStarted, OnItsOwn, Idle
  <2> QED BY <2>2, <2>8, <2>3, <2>5, <2>7, <2>9 DEF Becoming, Akin, Fit
<1> QED BY <1>1, <1>2

\* simulation_init with the loadouts of both, in the order of the slots.
LEMMA ToFightFits == ASSUME NEW p, Fit(p) PROVE Becoming(p, ToFight(p))
<1>1. CASE ~BothChosen(p)
  BY <1>1, BecomingFacts DEF ToFight
<1>2. CASE BothChosen(p)
  <2> DEFINE q == [p EXCEPT !.pend = "fight", !.sub = "ready", !.sim = Loadouts(p)]
  <2>1. p \in Program
    BY DEF Fit
  <2>2. ToFight(p) = q
    BY <1>2, <2>1 DEF ToFight, Request, Program
  <2>3. Loadouts(p) \in AnyPack \X AnyPack
    BY <2>1 DEF Loadouts, OpponentsPack, Program, AnyPack
  <2>4. q \in Program
    <3> DEFINE a == [p EXCEPT !.pend = "fight"]
               b == [a EXCEPT !.sub = "ready"]
    <3>1. q = [b EXCEPT !.sim = Loadouts(p)]
      OBVIOUS
    <3>2. a \in Program
      BY <2>1, OneField DEF Screens
    <3> HIDE DEF a
    <3>3. b \in Program
      BY <3>2, OneField DEF Subs
    <3> HIDE DEF b
    <3>4. [b EXCEPT !.sim = Loadouts(p)] \in Program
      BY <2>3, <3>3, OneField
    <3> QED BY <3>1, <3>4 DEF a, b
  <2>5. /\ q.pend = "fight" /\ q.sub = "ready" /\ q.sim = Loadouts(p)
        /\ q.running = p.running /\ q.args = p.args /\ q.game = p.game
        /\ q.p1 = p.p1 /\ q.local = p.local /\ q.mine = p.mine /\ q.sent = p.sent
        /\ q.me = p.me /\ q.net = p.net /\ q.hs = p.hs /\ q.fd = p.fd /\ q.slot = p.slot
        /\ q.opp = p.opp /\ q.yours = p.yours /\ q.winner = p.winner
    BY <2>1 DEF Program
  <2> HIDE DEF q
  <2>6. p.game = "lobby" /\ p.sub = "loadout" /\ p.mine # Unset /\ OpponentsPack(p) # NotHeard
    BY <1>2 DEF BothChosen
  <2>7. Shaped(q)
    BY <2>5, <2>6 DEF Fit, Shaped, OnItsOwn, Idle
  <2>8. ASSUME p.fd # NoConn PROVE Linked(q)
    <3>0. CASE p.local
      BY <2>5, <2>6, <2>8, <3>0 DEF Fit, Linked, AtSeat, Begun
    <3>1. CASE ~p.local
     <4>1. Linked(p) /\ ~p.local /\ (p.p1 <=> p.slot = 0)
      BY <2>6, <2>8, <3>1 DEF Fit, Shaped, OnItsOwn, Idle
     <4>2. p.opp # NotHeard /\ Loadouts(p) = IF p.slot = 0 THEN <<p.mine, p.opp>> ELSE <<p.opp, p.mine>>
      BY <2>6, <4>1 DEF Loadouts, OpponentsPack
     <4>3. \A s \in Slots : p.slot = s => q.sim[s + 1] = p.mine /\ q.sim[Opponent(s) + 1] = p.opp
      BY <2>5, <4>2, Constants DEF Opponent
     <4> QED BY <2>5, <2>6, <4>1, <4>2, <4>3 DEF Linked, AtSeat, Begun
    <3> QED BY <3>0, <3>1
  <2>9. Carries(p, q)
    BY <2>5, <2>6 DEF Carries, NotStarted, OnItsOwn, Idle
  <2> QED BY <2>2, <2>4, <2>5, <2>7, <2>8, <2>9 DEF Becoming, Akin, Fit
<1> QED BY <1>1, <1>2

\* The fight of a program that was started with arguments.
LEMMA FromSearchFits == ASSUME NEW p, Fit(p) PROVE Becoming(p, FromSearch(p))
<1>1. CASE ~(p.game = "search" /\ p.net = "ready")
  BY <1>1, BecomingFacts DEF FromSearch
<1>2. CASE p.game = "search" /\ p.net = "ready"
  <2> DEFINE q == [p EXCEPT !.pend = "fight", !.sim = <<Unset, Unset>>, !.me = p.yours, !.net = "fighting"]
  <2>1. p \in Program
    BY DEF Fit
  <2>2. FromSearch(p) = q
    BY <1>2, <2>1 DEF FromSearch, Request, Program
  <2>3. <<Unset, Unset>> \in AnyPack \X AnyPack
    BY DEF AnyPack
  <2>4. q \in Program
    <3>a. p.yours \in Slots
      BY <2>1 DEF Program
    <3> DEFINE a == [p EXCEPT !.pend = "fight"]
               b == [a EXCEPT !.sim = <<Unset, Unset>>]
               c == [b EXCEPT !.me = p.yours]
    <3>1. q = [c EXCEPT !.net = "fighting"]
      OBVIOUS
    <3>2. a \in Program
      BY <2>1, OneField DEF Screens
    <3> HIDE DEF a
    <3>3. b \in Program
      BY <2>3, <3>2, OneField
    <3> HIDE DEF b
    <3>4. c \in Program
      BY <3>a, <3>3, OneField
    <3> HIDE DEF c
    <3>5. [c EXCEPT !.net = "fighting"] \in Program
      BY <3>4, OneField DEF Nets
    <3> QED BY <3>1, <3>5 DEF a, b, c
  <2>5. /\ q.pend = "fight" /\ q.sim = <<Unset, Unset>> /\ q.me = p.yours /\ q.net = "fighting"
        /\ q.running = p.running /\ q.args = p.args /\ q.game = p.game /\ q.sub = p.sub
        /\ q.p1 = p.p1 /\ q.local = p.local /\ q.mine = p.mine /\ q.sent = p.sent
        /\ q.hs = p.hs /\ q.fd = p.fd /\ q.slot = p.slot
        /\ q.opp = p.opp /\ q.yours = p.yours /\ q.winner = p.winner
    BY <2>1 DEF Program
  <2> HIDE DEF q
  <2>6. p.args /\ p.fd # NoConn /\ Linked(p) /\ p.sub = "setup"
    BY <1>2 DEF Fit, Shaped
  <2>10. p.yours = p.slot
    BY <1>2, <2>6 DEF Linked, AtSeat, Seated
  <2>7. Shaped(q)
    BY <1>2, <2>5, <2>6, <2>10 DEF Fit, Shaped, OnItsOwn, Idle
  <2>8. Linked(q)
    BY <1>2, <2>5, <2>6 DEF Linked, AtSeat, Begun
  <2>9. Carries(p, q)
    BY <1>2, <2>5 DEF Carries, NotStarted, OnItsOwn
  <2> QED BY <2>2, <2>4, <2>5, <2>7, <2>8, <2>9 DEF Becoming, Akin, Fit
<1> QED BY <1>1, <1>2

\* The end of a fight.
LEMMA ToResultsFits == ASSUME NEW p, Fit(p) PROVE Becoming(p, ToResults(p))
<1>1. CASE ~FightIsOver(p)
  BY <1>1, BecomingFacts DEF ToResults
<1>2. CASE FightIsOver(p)
  <2> DEFINE q == [p EXCEPT !.pend = "results"]
  <2>1. p \in Program
    BY DEF Fit
  <2>2. ToResults(p) = q
    BY <1>2 DEF ToResults, Request
  <2>3. q \in Program
    BY <2>1 DEF Program, Screens
  <2>4. /\ q.pend = "results" /\ q.sim = p.sim /\ q.me = p.me /\ q.net = p.net
        /\ q.running = p.running /\ q.args = p.args /\ q.game = p.game /\ q.sub = p.sub
        /\ q.p1 = p.p1 /\ q.local = p.local /\ q.mine = p.mine /\ q.sent = p.sent
        /\ q.hs = p.hs /\ q.fd = p.fd /\ q.slot = p.slot
        /\ q.opp = p.opp /\ q.yours = p.yours /\ q.winner = p.winner
    BY <2>1 DEF Program
  <2> HIDE DEF q
  <2>5. p.game = "fight"
    BY <1>2 DEF FightIsOver
  <2>6. Shaped(q)
    BY <2>4, <2>5 DEF Fit, Shaped, OnItsOwn, Idle
  <2>7. Linked(p) => Linked(q)
    BY <2>4, <2>5 DEF Linked, AtSeat, Begun
  <2>8. Carries(p, q)
    BY <2>4, <2>5 DEF Carries, NotStarted, OnItsOwn
  <2> QED BY <2>2, <2>3, <2>4, <2>6, <2>7, <2>8 DEF Becoming, Akin, Fit
<1> QED BY <1>1, <1>2

\* The requested screen.
LEMMA TickedFits == ASSUME NEW p, Fit(p) PROVE Becoming(p, Ticked(p))
<1>1. CASE p.pend = "none"
  BY <1>1, BecomingFacts DEF Ticked
<1>2. CASE p.pend # "none"
  <2> DEFINE q == [p EXCEPT !.game = p.pend, !.pend = "none"]
  <2>1. p \in Program
    BY DEF Fit
  <2>2. Ticked(p) = q
    BY <1>2 DEF Ticked
  <2>3. q \in Program
    <3>1. p.pend \in Screens
      BY <1>2, <2>1 DEF Program
    <3> QED BY <2>1, <3>1 DEF Program
  <2>4. /\ q.game = p.pend /\ q.pend = "none" /\ q.sim = p.sim /\ q.me = p.me /\ q.net = p.net
        /\ q.running = p.running /\ q.args = p.args /\ q.sub = p.sub
        /\ q.p1 = p.p1 /\ q.local = p.local /\ q.mine = p.mine /\ q.sent = p.sent
        /\ q.hs = p.hs /\ q.fd = p.fd /\ q.slot = p.slot
        /\ q.opp = p.opp /\ q.yours = p.yours /\ q.winner = p.winner
    BY <2>1 DEF Program
  <2> HIDE DEF q
  <2>5. p.pend \in Screens
    BY <1>2, <2>1 DEF Program
  <2>6. Shaped(q)
    BY <1>2, <2>4, <2>5 DEF Fit, Shaped, OnItsOwn, Idle, Screens
  <2>7. p.fd # NoConn /\ Linked(p) => Linked(q)
    BY <1>2, <2>4, <2>5 DEF Fit, Shaped, Linked, AtSeat, Begun, Screens
  <2>8. Carries(p, q)
    BY <2>4 DEF Fit, Shaped, Carries, NotStarted, OnItsOwn
  <2> QED BY <2>2, <2>3, <2>4, <2>6, <2>7, <2>8 DEF Becoming, Akin, Fit
<1> QED BY <1>1, <1>2

\* A connection that fails.
LEMMA BrokenFits == ASSUME NEW p, Fit(p) PROVE Becoming(p, Broken(p))
<1> DEFINE q == Broken(p)
<1>1. p \in Program
  BY DEF Fit
<1>2. q \in Program
  BY <1>1 DEF Program, Broken
<1>3. /\ q.net = "error" /\ q.game = p.game /\ q.pend = p.pend /\ q.sim = p.sim /\ q.me = p.me
      /\ q.running = p.running /\ q.args = p.args /\ q.sub = p.sub
      /\ q.p1 = p.p1 /\ q.local = p.local /\ q.mine = p.mine /\ q.sent = p.sent
      /\ q.hs = p.hs /\ q.fd = p.fd /\ q.slot = p.slot
      /\ q.opp = p.opp /\ q.yours = p.yours /\ q.winner = p.winner
  BY <1>1 DEF Program, Broken
<1> HIDE DEF q
<1>4. Shaped(q)
  BY <1>3 DEF Fit, Shaped, OnItsOwn
<1>5. Linked(p) => Linked(q)
  BY <1>3 DEF Linked, AtSeat, Begun
<1>7. Carries(p, q)
  BY <1>3 DEF Carries, NotStarted, OnItsOwn
<1>6. Becoming(p, q)
  BY <1>2, <1>3, <1>4, <1>5, <1>7 DEF Becoming, Akin, Fit
<1> QED BY <1>6 DEF q

\* The rest of a frame, from a program r that is fit.
LEMMA GoesFits ==
  ASSUME NEW c \in Clients, NEW r, Fit(r), Goes(c, r)
  PROVE  \E q : Becoming(r, q) /\ Becomes(c, q)
<1> DEFINE q == ToResults(FromSearch(ToFight(ToLoadout(r))))
<1>1. \A x, y, z : Becoming(x, y) /\ Becoming(y, z) => Becoming(x, z)
  BY BecomingFacts
<1>2. Becoming(r, ToLoadout(r)) /\ Fit(ToLoadout(r))
  BY ToLoadoutFits DEF Becoming
<1>3. Becoming(r, ToFight(ToLoadout(r))) /\ Fit(ToFight(ToLoadout(r)))
  BY <1>1, <1>2, ToFightFits DEF Becoming
<1>4. Becoming(r, FromSearch(ToFight(ToLoadout(r)))) /\ Fit(FromSearch(ToFight(ToLoadout(r))))
  BY <1>1, <1>3, FromSearchFits DEF Becoming
<1>5. Becoming(r, q) /\ Fit(q)
  BY <1>1, <1>4, ToResultsFits DEF Becoming
<1>6. Becoming(r, Ticked(q)) /\ Fit(Ticked(q))
  BY <1>1, <1>5, TickedFits DEF Becoming
<1>7. \A p \in {q, Ticked(q)} : Becoming(r, p) /\ Becoming(r, Broken(p))
  BY <1>1, <1>5, <1>6, BrokenFits
<1>8. \E p \in {q, Ticked(q)} : Becomes(c, p) \/ Becomes(c, Broken(p))
  BY DEF Goes
<1> QED BY <1>7, <1>8
-------------------------------------------------------------------------------
(***************************************************************************)
(* What no step takes back: seats, the start and the end of a room, and    *)
(* the choice of a user as long as its program holds the connection.       *)
(***************************************************************************)
SeatsKept ==
  /\ \A room \in Rooms, s \in Slots :
       /\ seat[room][s] # NoConn => seat'[room][s] = seat[room][s]
       /\ seat'[room][s] # seat[room][s] => ~Seated(seat'[room][s])
  /\ \A room \in Rooms :
       /\ Started(room) => Started(room)'
       /\ state[room] = "closed" => state'[room] = "closed" /\ verdict'[room] = verdict[room]

ChoicesKept ==
  \A d \in Clients : cl'[d].fd # NoConn /\ Seated(cl'[d].fd) =>
    cl[d].fd = cl'[d].fd /\ (cl[d].sent => cl'[d].sent /\ cl'[d].mine = cl[d].mine)

\* What a user has chosen stays chosen, at whatever seat its program sits.
LEMMA ChosenKept ==
  ASSUME SeatsKept, ChoicesKept, NEW room \in Rooms, NEW s \in Slots, NEW l,
         ChosenBy(seat[room][s], l)
  PROVE  ChosenBy(seat[room][s], l)'
<1>1. seat[room][s] # NoConn /\ seat'[room][s] = seat[room][s] /\ Seated(seat[room][s])
  BY DEF SeatsKept, ChosenBy, Seated, Sits
<1> QED BY <1>1 DEF ChoicesKept, ChosenBy

\* What is true of a program at a seat stays so while others move.
LEMMA AtSeatKept ==
  ASSUME SeatsKept, ChoicesKept, NEW p, NEW room \in Rooms, NEW s \in Slots, AtSeat(p, room, s)
  PROVE  AtSeat(p, room, s)'
<1>1. Opponent(s) \in Slots
  BY Constants
<1>2. \A l : ChosenBy(seat[room][Opponent(s)], l) => ChosenBy(seat[room][Opponent(s)], l)'
  BY <1>1, ChosenKept
<1>3. Started(room) => Started(room)'
  BY DEF SeatsKept
<1>4. state[room] = "closed" => state'[room] = "closed" /\ verdict'[room] = verdict[room]
  BY DEF SeatsKept
<1> QED BY <1>2, <1>3, <1>4 DEF AtSeat, Begun

\* A connection that is newly seated was not awaited by a program that has heard
\* anything.
LEMMA LinkKept ==
  ASSUME SeatsKept, ChoicesKept, NEW p, Linked(p), p.fd # NoConn,
         \A room \in Rooms, s \in Slots : seat'[room][s] # seat[room][s] /\ seat'[room][s] = p.fd => p.slot = s
  PROVE  Linked(p)'
<1>1. Seated(p.fd) => Seated(p.fd)'
  BY DEF Seated, Sits, SeatsKept
<1>2. ASSUME NEW room \in Rooms, NEW s \in Slots, seat'[room][s] = p.fd PROVE AtSeat(p, room, s)'
  <2>1. CASE seat[room][s] = p.fd
    BY <2>1, AtSeatKept DEF Linked, Sits
  <2>2. CASE seat[room][s] # p.fd
    <3>1. ~Seated(p.fd) /\ p.slot = s
      BY <1>2, <2>2 DEF SeatsKept
    <3> QED BY <3>1 DEF Linked, AtSeat, Begun
  <2> QED BY <2>1, <2>2
<1> QED BY <1>1, <1>2 DEF Linked, Sits, Begun

\* A message that is right for a seat stays right.
LEMMA DeliversKept ==
  ASSUME SeatsKept, ChoicesKept, NEW k \in Conns, NEW m, Delivers(k, m)
  PROVE  Delivers(k, m)'
<1>1. PICK room \in Rooms, s \in Slots : Sits(k, room, s) /\ Proper(m, room, s)
  BY DEF Delivers
<1>2. Sits(k, room, s)'
  BY <1>1, Constants DEF Sits, SeatsKept
<1>3. Opponent(s) \in Slots
  BY Constants
<1>4. ChosenBy(seat[room][Opponent(s)], m.loadout) => ChosenBy(seat[room][Opponent(s)], m.loadout)'
  BY <1>3, ChosenKept
<1>5. Started(room) => Started(room)'
  BY DEF SeatsKept
<1>6. state[room] = "closed" => state'[room] = "closed" /\ verdict'[room] = verdict[room]
  BY DEF SeatsKept
<1>7. Proper(m, room, s)'
  BY <1>1, <1>4, <1>5, <1>6 DEF Proper, Waiting, Notice, Start, End
<1> QED BY <1>2, <1>7 DEF Delivers

\* A loadout on its way to the relay stays one that the relay may forward.
LEMMA LoadoutKept ==
  ASSUME SeatsKept, ChoicesKept, NEW k \in Conns, NEW m, LoadoutSound(k, m)
  PROVE  LoadoutSound(k, m)'
<1>1. PICK room \in Rooms, s \in Slots : Sits(k, room, s)
  BY DEF LoadoutSound, Seated
<1>2. k # NoConn /\ Sits(k, room, s)'
  BY <1>1, Constants DEF Sits, SeatsKept
<1>3. ChosenBy(k, m.loadout)'
  <2>1. ChosenBy(seat[room][s], m.loadout)'
    BY <1>1, ChosenKept DEF LoadoutSound, Sits
  <2> QED BY <1>2, <2>1 DEF ChosenBy, Sits
<1>4. ASSUME NEW r \in Rooms, NEW t \in Slots, Sits(k, r, t)' PROVE Started(r)'
  <2>1. seat'[r][t] # seat[r][t] => ~Seated(k)
    BY <1>4 DEF Sits, SeatsKept
  <2>2. Sits(k, r, t)
    BY <1>1, <1>4, <2>1 DEF Seated, Sits
  <2> QED BY <2>2 DEF LoadoutSound, SeatsKept
<1> QED BY <1>2, <1>3, <1>4 DEF LoadoutSound, Seated

-------------------------------------------------------------------------------
(***************************************************************************)
(* A step of a program.                                                    *)
(***************************************************************************)
\* c becomes q, which holds no connection, the same, or a new one.
Moved(c, q) ==
  /\ cl' = [cl EXCEPT ![c] = q]
  /\ Fit(q)
  /\ \/ q.fd = NoConn
     \/ q.fd = cl[c].fd /\ q.slot = cl[c].slot /\ (cl[c].sent => q.sent /\ q.mine = cl[c].mine)
     \/ q.fd \in Conns /\ conn[q.fd].client = "new"
  /\ seat' = seat /\ verdict' = verdict
  /\ state' \in [Rooms -> {"unborn", "waiting", "active", "closed", "lost"}]
  /\ \A room \in Rooms : state'[room] = state[room] \/ (state[room] = "unborn" /\ state'[room] = "waiting")

\* The program goes on.
Steps(c, q) == Moved(c, q) /\ Carries(cl[c], q)

StepFacts ==
  /\ cl' \in [Clients -> Program]
  /\ SeatsKept /\ ChoicesKept /\ ProgramInv' /\ RoomInv'

\* A step of one program: the others stay fit, and the rooms in order.
LEMMA MovedFacts ==
  ASSUME IInv, NEW c \in Clients, NEW q, Moved(c, q)
  PROVE  StepFacts
<1>1. cl \in [Clients -> Program] /\ q \in Program
  BY DEF IInv, TypeOK, Moved, Fit
<1>2. cl' \in [Clients -> Program]
  BY <1>1 DEF Moved
<1>3. cl'[c] = q /\ \A d \in Clients : d # c => cl'[d] = cl[d]
  BY <1>1 DEF Moved
<1>4. SeatsKept
  BY DEF Moved, SeatsKept, Started
<1>5. q.fd \in Conns /\ conn[q.fd].client = "new" => ~Seated(q.fd)
  BY DEF IInv, ConnInv
<1>6. ChoicesKept
  BY <1>3, <1>5 DEF Moved, ChoicesKept
<1>8. RoomInv'
  <2>1. \A room \in Rooms : state[room] = "unborn" => \A s \in Slots : seat[room][s] = NoConn
    BY DEF IInv, RoomInv
  <2>2. \E s \in Slots : TRUE
    BY Constants
  <2> QED BY <2>1, <2>2 DEF IInv, RoomInv, Moved, Sits
<1>9. ASSUME NEW d \in Clients PROVE Fit(cl[d])'
  <2>1. PICK p : p = cl'[d]
    OBVIOUS
  <2>2. Fit(p)
    BY <1>3, <2>1 DEF IInv, ProgramInv, Moved
  <2>3. p.fd # NoConn => Linked(p)'
    BY <2>2, <1>4, <1>6, LinkKept DEF Fit, Moved
  <2>4. Fit(p)'
    BY <2>2, <2>3 DEF Fit
  <2> QED BY <2>1, <2>4 DEF Fit, Linked, Shaped, OnItsOwn, AtSeat, Begun, Sits, ChosenBy, Seated
<1> QED BY <1>2, <1>4, <1>6, <1>8, <1>9 DEF StepFacts, ProgramInv

LEMMA StepsFacts ==
  ASSUME IInv, NEW c \in Clients, NEW q, Steps(c, q)
  PROVE  StepFacts
BY MovedFacts DEF Steps

LEMMA StepsCarry ==
  ASSUME IInv, NEW c \in Clients, NEW q, Steps(c, q)
  PROVE  \A d \in Clients : Carries(cl[d], cl'[d])
<1>1. cl \in [Clients -> Program]
  BY DEF IInv, TypeOK
<1>2. cl'[c] = q /\ \A d \in Clients : d # c => cl'[d] = cl[d]
  BY <1>1 DEF Steps, Moved
<1> QED BY <1>2 DEF Steps, Moved, Carries
-------------------------------------------------------------------------------
(***************************************************************************)
(* Messages and connections that a step of a program leaves alone.         *)
(***************************************************************************)
LEMMA UpFineKept ==
  ASSUME SeatsKept, ChoicesKept, NEW k \in Conns, UpFine(k), up'[k] = up[k],
         ~Seated(k) /\ up[k] # <<>> =>
           /\ ~Seated(k)' /\ (inbox[k] = <<>> => inbox'[k] = <<>>)
           /\ \A d \in Clients : cl'[d].fd = k => cl[d].fd = k /\ cl'[d].slot = cl[d].slot
  PROVE  UpFine(k)'
<1> SUFFICES ASSUME NEW n \in 1..Len(up[k])
             PROVE  LoadoutSound(k, up[k][n])' \/ (Len(up[k])' = 1 /\ JoinSound(k, up[k][n])')
  BY DEF UpFine
<1>1. PICK m : m = up[k][n]
  OBVIOUS
<1>2. CASE LoadoutSound(k, m)
  <2>1. LoadoutSound(k, m)'
    BY <1>2, LoadoutKept
  <2> QED BY <1>1, <2>1 DEF LoadoutSound, ChosenBy
<1>3. CASE Len(up[k]) = 1 /\ JoinSound(k, m)
  <2>1. up[k] # <<>>
    BY <1>3
  <2>2. JoinSound(k, m)'
    BY <1>3, <2>1 DEF JoinSound
  <2> QED BY <1>1, <1>3, <2>2 DEF JoinSound
<1> QED BY <1>1, <1>2, <1>3 DEF UpFine

\* An inbox to which nothing is added.
LEMMA InboxFineKept ==
  ASSUME SeatsKept, ChoicesKept, NEW k \in Conns, InboxFine(k),
         \A n \in 1..Len(inbox'[k]) : \E j \in 1..Len(inbox[k]) : inbox'[k][n] = inbox[k][j]
  PROVE  InboxFine(k)'
<1> SUFFICES ASSUME NEW n \in 1..Len(inbox'[k]) PROVE Delivers(k, inbox[k][n])'
  BY DEF InboxFine
<1>1. PICK m : m = inbox'[k][n] /\ Delivers(k, m)
  BY DEF InboxFine
<1>2. Delivers(k, m)'
  BY <1>1, DeliversKept
<1> QED BY <1>1, <1>2 DEF Delivers, Proper, Sits, ChosenBy

\* No socket is taken.
LEMMA FirstKept ==
  ASSUME FirstInv,
         \A d \in Clients : cl'[d].fd \in {NoConn, cl[d].fd} /\ Carries(cl[d], cl'[d]),
         \A k \in Conns : conn'[k].by = conn[k].by /\ (conn'[k].client = "new" <=> conn[k].client = "new"),
         \A d \in Clients : cl[d].fd # NoConn => cl[d].fd \in Conns
  PROVE  FirstInv' /\ \A d \in Clients, k \in Conns : FirstOf(d, k)' <=> FirstOf(d, k)
<1>1. ASSUME NEW k \in Conns, NEW j \in 1..k - 1 PROVE j \in Conns
  BY <1>1, EarlierConns
<1>2. \A d \in Clients, k \in Conns : FirstOf(d, k)' <=> FirstOf(d, k)
  BY <1>1 DEF FirstOf
<1>3. ASSUME NEW d \in Clients, NEW k \in Conns, cl'[d].fd = k, OnItsOwn(cl'[d]) PROVE FirstOf(d, k)'
  <2>1. cl[d].fd = k /\ k # NoConn
    BY <1>3, Constants
  <2>2. OnItsOwn(cl[d])
    BY <1>3, <2>1 DEF Carries
  <2> QED BY <1>2, <2>1, <2>2 DEF FirstInv
<1>4. \A d \in Clients : NotStarted(cl'[d]) => \A k \in Conns : conn'[k].by # d
  BY DEF FirstInv, Carries
<1>5. /\ \A j, k \in Conns : j < k /\ conn'[j].client = "new" => conn'[k].client = "new"
      /\ \A k \in Conns : conn'[k].client = "new" => conn'[k].by \notin Clients
  BY DEF FirstInv
<1>6. FirstInv'
  BY <1>3, <1>4, <1>5 DEF FirstInv, NotStarted, OnItsOwn, FirstOf
<1> QED BY <1>2, <1>6

\* Nothing is opened or closed.
LEMMA SameConnections ==
  ASSUME IInv,
         \A d \in Clients : cl'[d].fd = cl[d].fd /\ Carries(cl[d], cl'[d]),
         \A k \in Conns : /\ conn'[k].by = conn[k].by /\ conn'[k].client = conn[k].client
                          /\ conn[k].client = "new" => conn'[k].relay = conn[k].relay
                          /\ conn'[k].relay = "new" =>
                               conn[k].relay = "new" /\ up'[k] = <<>> /\ inbox'[k] = <<>> /\ ~Seated(k)'
  PROVE  ConnInv' /\ FirstInv'
<1>1. \A d \in Clients : cl[d].fd # NoConn => cl[d].fd \in Conns
  BY DEF IInv, ProgramInv, Fit, Program
<1>2. FirstInv' /\ \A d \in Clients, k \in Conns : FirstOf(d, k)' <=> FirstOf(d, k)
  BY <1>1, FirstKept DEF IInv
<1>3. \A k \in Conns : conn'[k].client = "open" => Held(k)'
  BY <1>2 DEF IInv, ConnInv, Held, Carries
<1> QED BY <1>1, <1>2, <1>3 DEF IInv, ConnInv

\* A step of a program that sends nothing and opens or closes nothing.
LEMMA QuietSteps ==
  ASSUME IInv, NEW c \in Clients, NEW q, Steps(c, q), q.fd = cl[c].fd, q.slot = cl[c].slot,
         UNCHANGED <<conn, up, inbox>>
  PROVE  IInv'
<1>1. StepFacts
  BY StepsFacts
<1>2. cl \in [Clients -> Program] /\ cl'[c] = q /\ \A d \in Clients : d # c => cl'[d] = cl[d]
  BY DEF IInv, TypeOK, Steps, Moved
<1>3. \A d \in Clients : cl'[d].fd = cl[d].fd /\ cl'[d].slot = cl[d].slot
  BY <1>2
<1>4. \A k \in Conns : Seated(k)' <=> Seated(k)
  BY DEF Steps, Moved, Seated, Sits
<1>5. TypeOK'
  BY <1>1 DEF IInv, TypeOK, StepFacts, Steps, Moved
<1>9. \A d \in Clients : Carries(cl[d], cl'[d])
  BY StepsCarry
<1>6. ConnInv' /\ FirstInv'
  BY <1>3, <1>4, <1>9, SameConnections DEF IInv, ConnInv
<1>7. \A k \in Conns : UpFine(k)'
  BY <1>1, <1>3, <1>4, UpFineKept DEF IInv, UpInv, StepFacts
<1>8. \A k \in Conns : InboxFine(k)'
  BY <1>1, InboxFineKept DEF IInv, InboxInv, StepFacts
<1> QED BY <1>1, <1>5, <1>6, <1>7, <1>8 DEF IInv, StepFacts, UpInv, InboxInv

\* A step that closes the connection, if there is one.
LEMMA ClosingSteps ==
  ASSUME IInv, NEW c \in Clients, NEW q, Steps(c, q), q.fd = NoConn, Closes(c), UNCHANGED up
  PROVE  IInv'
<1>1. StepFacts
  BY StepsFacts
<1>2. cl \in [Clients -> Program] /\ cl'[c] = q /\ \A d \in Clients : d # c => cl'[d] = cl[d]
  BY DEF IInv, TypeOK, Steps, Moved
<1>3. \A k \in Conns : Seated(k)' <=> Seated(k)
  BY DEF Steps, Moved, Seated, Sits
<1>4. /\ conn' = [k \in Conns |-> IF k = cl[c].fd THEN [conn[k] EXCEPT !.client = "closed"] ELSE conn[k]]
      /\ inbox' = [k \in Conns |-> IF k = cl[c].fd THEN <<>> ELSE inbox[k]]
  BY DEF Closes
<1>5. /\ conn \in [Conns -> [by : Clients \union {"nobody"}, client : {"new", "open", "closed"},
                             relay : {"new", "open", "closed"}]]
      /\ inbox \in [Conns -> Seq(Message)]
  BY DEF IInv, TypeOK
<1>6. \A k \in Conns : /\ conn'[k].by = conn[k].by /\ conn'[k].relay = conn[k].relay
                       /\ conn'[k].client = IF k = cl[c].fd THEN "closed" ELSE conn[k].client
                       /\ conn'[k] \in [by : Clients \union {"nobody"}, client : {"new", "open", "closed"},
                                        relay : {"new", "open", "closed"}]
  BY <1>4, <1>5
<1>7. TypeOK'
  <2>1. conn' \in [Conns -> [by : Clients \union {"nobody"}, client : {"new", "open", "closed"},
                             relay : {"new", "open", "closed"}]]
    BY <1>4, <1>6
  <2>2. inbox' \in [Conns -> Seq(Message)]
    BY <1>4, <1>5
  <2> QED BY <1>1, <2>1, <2>2 DEF IInv, TypeOK, StepFacts, Steps, Moved
<1>8. \A k \in Conns : inbox'[k] = inbox[k] \/ inbox'[k] = <<>>
  BY <1>4
<1>13. FirstInv' /\ (\A d \in Clients, k \in Conns : FirstOf(d, k)' <=> FirstOf(d, k))
       /\ \A d \in Clients : Carries(cl[d], cl'[d])
  <2>1. \A d \in Clients : Carries(cl[d], cl'[d])
    BY StepsCarry
  <2>2. \A d \in Clients : cl[d].fd # NoConn => cl[d].fd \in Conns /\ conn[cl[d].fd].client = "open"
    BY DEF IInv, ConnInv, ProgramInv, Fit, Program
  <2>3. \A k \in Conns : conn'[k].client = "new" <=> conn[k].client = "new"
    BY <1>6, <2>2, Constants
  <2>4. FirstInv
    BY DEF IInv
  <2> QED BY <1>2, <1>6, <2>1, <2>2, <2>3, <2>4, FirstKept
<1>9. ConnInv'
  <2>1. \A d \in Clients : cl'[d].fd # NoConn => d # c /\ cl'[d].fd = cl[d].fd /\ cl[d].fd \in Conns /\ cl[d].fd # cl[c].fd
    <3>1. \A d \in Clients : cl[d].fd # NoConn => cl[d].fd \in Conns /\ conn[cl[d].fd].by = d
      BY DEF IInv, ConnInv, ProgramInv, Fit, Program
    <3> QED BY <1>2, <3>1
  <2>2. \A d \in Clients : cl'[d].fd # NoConn => conn'[cl'[d].fd].by = d /\ conn'[cl'[d].fd].client = "open"
    BY <1>6, <2>1 DEF IInv, ConnInv
  <2>3. ASSUME NEW k \in Conns, conn'[k].client = "open" PROVE Held(k)'
    <3>1. Held(k) /\ k # cl[c].fd
      BY <1>6, <2>3 DEF IInv, ConnInv
    <3>2. PICK w \in Clients : conn[k].by = w /\ (cl[w].fd = k \/ (cl[w].args /\ FirstOf(w, k)))
      BY <3>1 DEF Held
    <3>3. conn'[k].by = w /\ (cl'[w].fd = k \/ (cl'[w].args /\ FirstOf(w, k)'))
      BY <1>2, <1>6, <1>13, <3>1, <3>2 DEF Carries
    <3> QED BY <3>3 DEF Held, FirstOf
  <2>4. \A k \in Conns : conn'[k].client = "new" => conn'[k].relay = "new"
    BY <1>6 DEF IInv, ConnInv
  <2>5. \A k \in Conns : conn'[k].relay = "new" => up'[k] = <<>> /\ inbox'[k] = <<>> /\ ~Seated(k)'
    BY <1>3, <1>6, <1>8 DEF IInv, ConnInv
  <2> QED BY <2>2, <2>3, <2>4, <2>5 DEF ConnInv
<1>10. \A d \in Clients, k \in Conns : cl'[d].fd = k => cl[d].fd = k /\ cl'[d].slot = cl[d].slot
  BY <1>2, Constants
<1>11. \A k \in Conns : UpFine(k)'
  BY <1>1, <1>3, <1>8, <1>10, UpFineKept DEF IInv, UpInv, StepFacts
<1>12. \A k \in Conns : InboxFine(k)'
  <2>1. \A k \in Conns : \A n \in 1..Len(inbox'[k]) : \E j \in 1..Len(inbox[k]) : inbox'[k][n] = inbox[k][j]
    BY <1>8
  <2> QED BY <1>1, <2>1, InboxFineKept DEF IInv, InboxInv, StepFacts
<1> QED BY <1>1, <1>7, <1>9, <1>11, <1>12, <1>13 DEF IInv, StepFacts, UpInv, InboxInv

\* A step that takes socket k, when there was none or only the one of main.
LEMMA OpeningSteps ==
  ASSUME IInv, NEW c \in Clients, NEW k \in Conns \union {NoConn}, Socket(c, k),
         NEW q, Steps(c, q), cl[c].fd = NoConn \/ OnItsOwn(cl[c]), q.fd = k, UNCHANGED <<up, inbox>>,
         ~NotStarted(q), q.fd # NoConn /\ OnItsOwn(q) => NotStarted(cl[c])
  PROVE  IInv'
<1>1. StepFacts
  BY StepsFacts
<1>2. cl \in [Clients -> Program] /\ cl'[c] = q /\ \A d \in Clients : d # c => cl'[d] = cl[d]
  BY DEF IInv, TypeOK, Steps, Moved
<1>3. \A j \in Conns : Seated(j)' <=> Seated(j)
  BY DEF Steps, Moved, Seated, Sits
<1>4. /\ \A d \in Clients : cl[d].fd # NoConn => /\ cl[d].fd \in Conns /\ conn[cl[d].fd].by = d
                                                /\ conn[cl[d].fd].client = "open"
      /\ \A j \in Conns : conn[j].client = "open" => Held(j)
      /\ \A j \in Conns : conn[j].client = "new" => conn[j].relay = "new"
      /\ \A j \in Conns : conn[j].relay = "new" => up[j] = <<>> /\ inbox[j] = <<>> /\ ~Seated(j)
  BY DEF IInv, ConnInv, ProgramInv, Fit, Program
<1>5. conn \in [Conns -> [by : Clients \union {"nobody"}, client : {"new", "open", "closed"},
                          relay : {"new", "open", "closed"}]]
  BY DEF IInv, TypeOK
<1>6. /\ \A j \in Conns : j # k => conn'[j] = conn[j]
      /\ k \in Conns => /\ conn[k].client = "new"
                        /\ conn'[k] = [by |-> c, client |-> "open", relay |-> "new"]
      /\ conn' \in [Conns -> [by : Clients \union {"nobody"}, client : {"new", "open", "closed"},
                              relay : {"new", "open", "closed"}]]
  <2>1. CASE k = NoConn
    BY <2>1, <1>5, Constants DEF Socket
  <2>2. CASE k \in Conns
    <3>1. conn[k].client = "new" /\ conn' = [conn EXCEPT ![k] = [by |-> c, client |-> "open", relay |-> "new"]]
      BY <2>2, Constants DEF Socket
    <3> QED BY <1>5, <2>2, <3>1
  <2> QED BY <2>1, <2>2
<1>7. TypeOK'
  BY <1>1, <1>6 DEF IInv, TypeOK, StepFacts, Steps, Moved
<1>8. \A d \in Clients : cl[d].fd # NoConn => cl[d].fd # k
  BY <1>4, <1>6
<1>13. \A d \in Clients, j \in Conns : conn[j].client # "new" /\ FirstOf(d, j) => FirstOf(d, j)'
  <2> SUFFICES ASSUME NEW d \in Clients, NEW j \in Conns, conn[j].client # "new", FirstOf(d, j)
               PROVE  FirstOf(d, j)'
    OBVIOUS
  <2>1. conn'[j].by = d
    BY <1>6 DEF FirstOf
  <2>2. ASSUME NEW i \in 1..j - 1 PROVE conn'[i].by # d
    <3>1. i \in Conns /\ i < j /\ conn[i].by # d
      BY <2>2, EarlierConns DEF FirstOf
    <3>2. conn[i].client # "new"
      BY <3>1 DEF IInv, FirstInv
    <3> QED BY <1>6, <3>1, <3>2
  <2> QED BY <2>1, <2>2 DEF FirstOf
<1>14. FirstInv'
  <2>1. FirstInv
    BY DEF IInv
  <2>2. ASSUME NEW d \in Clients, NEW j \in Conns, cl'[d].fd = j, OnItsOwn(cl'[d]) PROVE FirstOf(d, j)'
    <3>1. CASE d # c
      <4>1. cl[d].fd = j /\ OnItsOwn(cl[d]) /\ j # NoConn
        BY <1>2, <2>2, <3>1, Constants
      <4>2. FirstOf(d, j) /\ conn[j].client # "new"
        BY <1>4, <2>1, <4>1 DEF FirstInv
      <4> QED BY <1>13, <4>2
    <3>2. CASE d = c
      <4>1. k \in Conns /\ NotStarted(cl[c]) /\ j = k
        BY <1>2, <2>2, <3>2, Constants
      <4>2. \A i \in Conns : conn[i].by # c
        BY <2>1, <4>1 DEF FirstInv
      <4>3. \A i \in 1..k - 1 : i \in Conns /\ i # k
        BY <4>1, EarlierConns
      <4>4. conn'[k].by = c
        BY <1>6, <4>1
      <4>5. \A i \in 1..k - 1 : conn'[i].by # c
        BY <1>6, <4>2, <4>3
      <4> QED BY <3>2, <4>1, <4>4, <4>5 DEF FirstOf
    <3> QED BY <3>1, <3>2
  <2>3. ASSUME NEW d \in Clients, NotStarted(cl'[d]), NEW j \in Conns PROVE conn'[j].by # d
    <3>1. d # c /\ NotStarted(cl[d])
      BY <1>2, <2>3
    <3> QED BY <1>6, <2>1, <3>1 DEF FirstInv
  <2>4. ASSUME NEW i \in Conns, NEW j \in Conns, i < j, conn'[i].client = "new" PROVE conn'[j].client = "new"
    <3>1. i # k /\ conn[i].client = "new" /\ conn[j].client = "new"
      BY <1>6, <2>1, <2>4 DEF FirstInv
    <3>2. j # k
      <4>1. j = k => i \in 1..k - 1
        BY <2>4, EarlierConns
      <4> QED BY <3>1, <4>1, Constants DEF Socket
    <3> QED BY <1>6, <3>1, <3>2
  <2>5. \A j \in Conns : conn'[j].client = "new" => conn'[j].by \notin Clients
    BY <1>6, <2>1 DEF FirstInv
  <2> QED BY <2>2, <2>3, <2>4, <2>5 DEF FirstInv, NotStarted, OnItsOwn, FirstOf
<1>9. ConnInv'
  <2>1. \A d \in Clients : cl'[d].fd # NoConn => conn'[cl'[d].fd].by = d /\ conn'[cl'[d].fd].client = "open"
    BY <1>2, <1>4, <1>6, <1>8
  <2>2. ASSUME NEW j \in Conns, conn'[j].client = "open" PROVE Held(j)'
    <3>1. CASE j = k
      BY <1>2, <1>6, <3>1 DEF Held
    <3>2. CASE j # k
      <4>1. PICK w \in Clients : conn[j].by = w /\ (cl[w].fd = j \/ (cl[w].args /\ FirstOf(w, j)))
        BY <1>4, <1>6, <2>2, <3>2 DEF Held
      <4>2. conn'[j].by = w /\ conn[j].client # "new" /\ j # NoConn
        BY <1>6, <2>2, <3>2, <4>1, Constants
      <4>3. CASE w = c
        <5>1. cl[c].args /\ FirstOf(c, j)
          <6>1. Shaped(cl[c])
            BY DEF IInv, ProgramInv, Fit
          <6> QED BY <4>1, <4>2, <4>3, <6>1 DEF Shaped, IInv, FirstInv
        <5>2. cl'[c].args /\ FirstOf(c, j)'
          BY <1>2, <1>13, <4>2, <5>1 DEF Steps, Carries
        <5> QED BY <4>2, <4>3, <5>2 DEF Held, FirstOf
      <4>4. CASE w # c
        <5>1. cl'[w] = cl[w] /\ (FirstOf(w, j) => FirstOf(w, j)')
          BY <1>2, <1>13, <4>2, <4>4
        <5> QED BY <4>1, <4>2, <5>1 DEF Held, FirstOf
      <4> QED BY <4>3, <4>4
    <3> QED BY <3>1, <3>2
  <2>3. \A j \in Conns : conn'[j].client = "new" => conn'[j].relay = "new"
    BY <1>4, <1>6
  <2>4. \A j \in Conns : conn'[j].relay = "new" => up'[j] = <<>> /\ inbox'[j] = <<>> /\ ~Seated(j)'
    BY <1>3, <1>4, <1>6
  <2> QED BY <2>1, <2>2, <2>3, <2>4 DEF ConnInv
<1>10. \A d \in Clients, j \in Conns :
         up[j] # <<>> /\ cl'[d].fd = j => cl[d].fd = j /\ cl'[d].slot = cl[d].slot
  BY <1>2, <1>4, <1>6
<1>11. \A j \in Conns : UpFine(j)'
  BY <1>1, <1>3, <1>10, UpFineKept DEF IInv, UpInv, StepFacts
<1>12. \A j \in Conns : InboxFine(j)'
  BY <1>1, InboxFineKept DEF IInv, InboxInv, StepFacts
<1> QED BY <1>1, <1>7, <1>9, <1>11, <1>12, <1>14 DEF IInv, StepFacts, UpInv, InboxInv
-------------------------------------------------------------------------------
(***************************************************************************)
(* Programs without a connection.                                          *)
(***************************************************************************)
LEMMA NewProgramFits ==
  /\ NewProgram \in Program /\ NewProgram.running = TRUE /\ NewProgram.args = FALSE
  /\ Fit([NewProgram EXCEPT !.running = FALSE])
<1>1. /\ 0 \in Slots /\ Unset \in AnyPack /\ NotHeard \in AnyPack /\ "title" \in Screens /\ "lobby" \in Screens
      /\ <<Unset, Unset>> \in AnyPack \X AnyPack
  BY DEF Slots, AnyPack, Screens
<1>2. NewProgram \in Program
  BY <1>1 DEF NewProgram, Program
<1> DEFINE q == [NewProgram EXCEPT !.running = FALSE]
<1>3. q \in Program
  BY <1>2, OneField
<1>4. /\ q.running = FALSE /\ q.args = FALSE /\ q.game = "title" /\ q.pend = "lobby" /\ q.sub = "setup"
      /\ q.local = FALSE /\ q.mine = Unset /\ q.net = "idle" /\ q.hs = "idle" /\ q.fd = NoConn
      /\ q.opp = NotHeard /\ q.sent = FALSE /\ q.me = 0 /\ q.slot = 0
  BY DEF NewProgram
<1> HIDE DEF q
<1>5. Shaped(q)
  BY <1>4 DEF Shaped, OnItsOwn, Idle
<1>6. Fit(q)
  BY <1>3, <1>4, <1>5 DEF Fit
<1> QED BY <1>2, <1>6 DEF NewProgram, q

\* net_client_disconnect, field by field.
LEMMA DisconnectedFacts ==
  ASSUME NEW p \in Program
  PROVE  LET q == Disconnected(p) IN
         /\ q \in Program /\ q.fd = NoConn /\ q.hs = "closed" /\ q.net = "idle"
         /\ q.running = p.running /\ q.args = p.args /\ q.game = p.game /\ q.pend = p.pend /\ q.sub = p.sub
         /\ q.local = p.local /\ q.mine = p.mine /\ q.sent = p.sent /\ q.opp = p.opp
<1> DEFINE a == [p EXCEPT !.fd = NoConn]
           b == [a EXCEPT !.hs = "closed"]
<1>1. Disconnected(p) = [b EXCEPT !.net = "idle"]
  BY DEF Disconnected
<1>2. a \in Program
  BY OneField
<1> HIDE DEF a
<1>3. b \in Program
  BY <1>2, OneField DEF Handshakes
<1> HIDE DEF b
<1>4. [b EXCEPT !.net = "idle"] \in Program
  BY <1>3, OneField DEF Nets
<1>5. Disconnected(p) \in Program
  BY <1>1, <1>4 DEF a, b
<1> DEFINE q == Disconnected(p)
<1>6. /\ q.fd = NoConn /\ q.hs = "closed" /\ q.net = "idle"
      /\ q.running = p.running /\ q.args = p.args /\ q.game = p.game /\ q.pend = p.pend /\ q.sub = p.sub
      /\ q.local = p.local /\ q.mine = p.mine /\ q.sent = p.sent /\ q.opp = p.opp
  BY DEF Disconnected, Program
<1> QED BY <1>5, <1>6

-------------------------------------------------------------------------------
(***************************************************************************)
(* Events of the user.                                                     *)
(***************************************************************************)
LEMMA ClientFacts ==
  ASSUME IInv, NEW c \in Clients
  PROVE  /\ cl[c] \in Program /\ Shaped(cl[c]) /\ (cl[c].fd # NoConn => Linked(cl[c]))
         /\ cl[c].fd # NoConn => /\ cl[c].fd \in Conns /\ conn[cl[c].fd].by = c
                                 /\ conn[cl[c].fd].client = "open"
BY DEF IInv, ProgramInv, Fit, ConnInv, Program

\* A step of a program after which it holds no connection.
LEMMA AloneSteps ==
  ASSUME IInv, NEW c \in Clients, NEW q \in Program, Shaped(q), q.fd = NoConn, Becomes(c, q),
         q.args = cl[c].args, NotStarted(q) => NotStarted(cl[c]), UNCHANGED relayVars
  PROVE  Steps(c, q)
<1>1. state \in [Rooms -> {"unborn", "waiting", "active", "closed", "lost"}]
  BY DEF IInv, TypeOK
<1> QED BY <1>1 DEF Steps, Moved, Carries, Becomes, Fit, relayVars

\* A step of a program that leaves its connection alone and hears nothing.
LEMMA StaysSteps ==
  ASSUME IInv, NEW c \in Clients, NEW q \in Program, Shaped(q), Becomes(c, q), Akin(cl[c], q),
         q.fd # NoConn => Linked(q), UNCHANGED relayVars
  PROVE  Steps(c, q)
<1>1. state \in [Rooms -> {"unborn", "waiting", "active", "closed", "lost"}]
  BY DEF IInv, TypeOK
<1> QED BY <1>1 DEF Steps, Moved, Akin, Becomes, Fit, relayVars

\* From one screen to another: the connection, if there is one, is that of main.
LEMMA MovesKeeps ==
  ASSUME IInv, NEW c \in Clients, NEW from \in Idle, NEW to \in Idle, Moves(c, from, to)
  PROVE  IInv'
<1> DEFINE p == cl[c]  q == [p EXCEPT !.sub = to]
<1>1. p \in Program /\ Shaped(p) /\ (p.fd # NoConn => Linked(p))
  BY ClientFacts
<1>2. p.running /\ p.game = "lobby" /\ p.sub = from /\ Becomes(c, q) /\ UNCHANGED <<conn, up, inbox, relayVars>>
  BY DEF Moves, In
<1>3. q \in Program
  BY <1>1, OneField DEF Subs, Idle
<1>4. /\ q.sub = to /\ q.running = p.running /\ q.args = p.args /\ q.game = p.game /\ q.pend = p.pend
      /\ q.p1 = p.p1 /\ q.local = p.local /\ q.mine = p.mine /\ q.sent = p.sent /\ q.net = p.net
      /\ q.hs = p.hs /\ q.fd = p.fd /\ q.slot = p.slot /\ q.opp = p.opp /\ q.me = p.me /\ q.sim = p.sim
      /\ q.yours = p.yours /\ q.winner = p.winner
  BY <1>1 DEF Program
<1> HIDE DEF q
<1>5. Shaped(q) /\ Akin(p, q)
  BY <1>1, <1>2, <1>4 DEF Shaped, OnItsOwn, Idle, Akin, Carries, NotStarted
<1>6. p.pend = "none"
  BY <1>1, <1>2 DEF Shaped, Idle
<1>7. q.fd # NoConn => Linked(q)
  <2>1. ~Begun(p) /\ ~Begun(q) /\ p.sub \notin {"loadout", "ready"} /\ q.sub \notin {"loadout", "ready"}
    BY <1>2, <1>4, <1>6 DEF Begun, Idle
  <2> QED BY <1>1, <1>4, <2>1 DEF Linked, AtSeat
<1>8. Steps(c, q)
  BY <1>2, <1>3, <1>5, <1>7, StaysSteps
<1> QED BY <1>2, <1>4, <1>8, QuietSteps

\* The buttons and Escape of the lobby.
LEMMA NavigateKeeps == ASSUME IInv, NEW c \in Clients, Navigate(c) PROVE IInv'
<1>1. "setup" \in Idle /\ "role" \in Idle /\ "creating" \in Idle /\ "enter code" \in Idle
  BY DEF Idle
<1> QED BY <1>1, MovesKeeps DEF Navigate

\* Play without a relay.
LEMMA LocalPlayKeeps == ASSUME IInv, NEW c \in Clients, LocalPlay(c) PROVE IInv'
<1> DEFINE p == cl[c]  a == [p EXCEPT !.sub = "loadout"]  q == [p EXCEPT !.sub = "loadout", !.local = TRUE]
<1>1. p \in Program /\ Shaped(p) /\ (p.fd # NoConn => Linked(p))
  BY ClientFacts
<1>2. p.running /\ p.game = "lobby" /\ p.sub = "role" /\ Becomes(c, q) /\ UNCHANGED <<conn, up, inbox, relayVars>>
  BY DEF LocalPlay, In
<1>3. q \in Program
  <2>1. a \in Program
    BY <1>1, OneField DEF Subs
  <2>2. q = [a EXCEPT !.local = TRUE]
    OBVIOUS
  <2> HIDE DEF a, q
  <2> QED BY <2>1, <2>2, OneField
<1>4. /\ q.sub = "loadout" /\ q.local = TRUE /\ q.running = p.running /\ q.args = p.args /\ q.game = p.game
      /\ q.pend = p.pend /\ q.p1 = p.p1 /\ q.mine = p.mine /\ q.sent = p.sent /\ q.net = p.net
      /\ q.hs = p.hs /\ q.fd = p.fd /\ q.slot = p.slot /\ q.opp = p.opp /\ q.me = p.me /\ q.sim = p.sim
      /\ q.yours = p.yours /\ q.winner = p.winner
  BY <1>1 DEF Program
<1> HIDE DEF q
<1>5. Shaped(q) /\ Akin(p, q)
  BY <1>1, <1>2, <1>4 DEF Shaped, OnItsOwn, Idle, Akin, Carries, NotStarted
<1>6. p.pend = "none"
  BY <1>1, <1>2 DEF Shaped
<1>7. q.fd # NoConn => Linked(q)
  BY <1>1, <1>2, <1>4, <1>6 DEF Linked, AtSeat, Begun
<1>8. Steps(c, q)
  BY <1>2, <1>3, <1>5, <1>7, StaysSteps
<1> QED BY <1>2, <1>4, <1>8, QuietSteps

\* From the title to the lobby.
LEMMA LeaveTitleKeeps == ASSUME IInv, NEW c \in Clients, LeaveTitle(c) PROVE IInv'
<1> DEFINE p == cl[c]  q == [p EXCEPT !.pend = "lobby"]
<1>1. p \in Program /\ Shaped(p) /\ (p.fd # NoConn => Linked(p))
  BY ClientFacts
<1>2. p.running /\ p.game = "title" /\ Becomes(c, q) /\ UNCHANGED <<conn, up, inbox, relayVars>>
  BY DEF LeaveTitle, Request
<1>3. q \in Program
  BY <1>1, OneField DEF Screens
<1>4. /\ q.sub = p.sub /\ q.local = p.local /\ q.running = p.running /\ q.args = p.args /\ q.game = p.game
      /\ q.pend = "lobby" /\ q.p1 = p.p1 /\ q.mine = p.mine /\ q.sent = p.sent /\ q.net = p.net
      /\ q.hs = p.hs /\ q.fd = p.fd /\ q.slot = p.slot /\ q.opp = p.opp /\ q.me = p.me /\ q.sim = p.sim
      /\ q.yours = p.yours /\ q.winner = p.winner
  BY <1>1 DEF Program
<1> HIDE DEF q
<1>5. Shaped(q) /\ Akin(p, q)
  BY <1>1, <1>2, <1>4 DEF Shaped, OnItsOwn, Akin, Carries, NotStarted
<1>6. p.sub = "setup"
  BY <1>1, <1>2 DEF Shaped
<1>7. q.fd # NoConn => Linked(q)
  BY <1>1, <1>2, <1>4, <1>6 DEF Linked, AtSeat, Begun
<1>8. Steps(c, q)
  BY <1>2, <1>3, <1>5, <1>7, StaysSteps
<1> QED BY <1>2, <1>4, <1>8, QuietSteps

\* Escape from a room.
LEMMA LeaveKeeps == ASSUME IInv, NEW c \in Clients, Leave(c) PROVE IInv'
<1> DEFINE p == cl[c]  a == Disconnected(p)  q == [a EXCEPT !.sub = "role"]
<1>1. p \in Program /\ Shaped(p)
  BY ClientFacts
<1>2. /\ p.running /\ p.game = "lobby" /\ p.sub \in {"show code", "waiting"} /\ Becomes(c, q)
      /\ Closes(c) /\ UNCHANGED <<up, relayVars>>
  BY DEF Leave, In
<1>3. /\ a \in Program /\ a.fd = NoConn /\ a.hs = "closed" /\ a.net = "idle"
      /\ a.running = p.running /\ a.args = p.args /\ a.game = p.game /\ a.pend = p.pend
      /\ a.local = p.local /\ a.mine = p.mine /\ a.sent = p.sent /\ a.opp = p.opp
  BY <1>1, DisconnectedFacts
<1> HIDE DEF a
<1>4. q \in Program
  BY <1>3, OneField DEF Subs
<1>5. /\ q.sub = "role" /\ q.local = p.local /\ q.running = p.running /\ q.args = p.args /\ q.game = p.game
      /\ q.pend = p.pend /\ q.mine = p.mine /\ q.sent = p.sent /\ q.net = "idle"
      /\ q.hs = "closed" /\ q.fd = NoConn /\ q.opp = p.opp
  BY <1>3 DEF Program
<1> HIDE DEF q
<1>6. Shaped(q)
  BY <1>1, <1>2, <1>5 DEF Shaped, OnItsOwn, Idle
<1>8. ~NotStarted(q)
  BY <1>2, <1>5 DEF NotStarted
<1>7. Steps(c, q)
  BY <1>8, <1>2, <1>4, <1>5, <1>6, AloneSteps
<1> QED BY <1>2, <1>5, <1>7, ClosingSteps

\* Escape from a search.
LEMMA StopSearchKeeps == ASSUME IInv, NEW c \in Clients, StopSearch(c) PROVE IInv'
<1> DEFINE p == cl[c]  a == Disconnected(p)  q == [a EXCEPT !.pend = "title"]
<1>1. p \in Program /\ Shaped(p)
  BY ClientFacts
<1>2. /\ p.running /\ p.game = "search" /\ Becomes(c, q) /\ Closes(c) /\ UNCHANGED <<up, relayVars>>
  BY DEF StopSearch, Request
<1>3. /\ a \in Program /\ a.fd = NoConn /\ a.hs = "closed" /\ a.net = "idle" /\ a.sub = p.sub
      /\ a.running = p.running /\ a.args = p.args /\ a.game = p.game
      /\ a.local = p.local /\ a.mine = p.mine /\ a.sent = p.sent /\ a.opp = p.opp
  BY <1>1, DisconnectedFacts
<1> HIDE DEF a
<1>4. q \in Program
  BY <1>3, OneField DEF Screens
<1>5. /\ q.sub = p.sub /\ q.local = p.local /\ q.running = p.running /\ q.args = p.args /\ q.game = p.game
      /\ q.pend = "title" /\ q.mine = p.mine /\ q.sent = p.sent /\ q.net = "idle"
      /\ q.hs = "closed" /\ q.fd = NoConn /\ q.opp = p.opp
  BY <1>3 DEF Program
<1> HIDE DEF q
<1>6. Shaped(q)
  BY <1>1, <1>2, <1>5 DEF Shaped, OnItsOwn, Idle
<1>8. ~NotStarted(q)
  BY <1>5 DEF NotStarted
<1>7. Steps(c, q)
  BY <1>8, <1>2, <1>4, <1>5, <1>6, AloneSteps
<1> QED BY <1>2, <1>5, <1>7, ClosingSteps

\* From the results to the lobby: net_client_disconnect, then lobby_init.
LEMMA ContinueKeeps == ASSUME IInv, NEW c \in Clients, Continue(c) PROVE IInv'
<1> DEFINE p == cl[c]
           a == Disconnected(p)
           b1 == [a EXCEPT !.sub = "setup"]
           b2 == [b1 EXCEPT !.p1 = FALSE]
           b3 == [b2 EXCEPT !.local = FALSE]
           b4 == [b3 EXCEPT !.mine = Unset]
           b5 == [b4 EXCEPT !.sent = FALSE]
           q == [b5 EXCEPT !.pend = "lobby"]
<1>1. p \in Program /\ Shaped(p)
  BY ClientFacts
<1>2. p.running /\ p.game = "results" /\ Becomes(c, q) /\ Closes(c) /\ UNCHANGED <<up, relayVars>>
  <2>1. LobbyInit(a) = b5
    BY DEF LobbyInit
  <2> QED BY <2>1 DEF Continue, Request
<1>3. /\ a \in Program /\ a.fd = NoConn /\ a.hs = "closed" /\ a.net = "idle"
      /\ a.running = p.running /\ a.args = p.args /\ a.game = p.game
  BY <1>1, DisconnectedFacts
<1>4. q \in Program
  <2> HIDE DEF a
  <2>1. b1 \in Program
    BY <1>3, OneField DEF Subs
  <2> HIDE DEF b1
  <2>2. b2 \in Program
    BY <2>1, OneField
  <2> HIDE DEF b2
  <2>3. b3 \in Program
    BY <2>2, OneField
  <2> HIDE DEF b3
  <2>4. b4 \in Program
    BY <2>3, OneField
  <2> HIDE DEF b4
  <2>5. b5 \in Program
    BY <2>4, OneField
  <2> HIDE DEF b5
  <2> QED BY <2>5, OneField DEF Screens
<1> HIDE DEF a
<1>5. /\ q.sub = "setup" /\ q.local = FALSE /\ q.running = p.running /\ q.args = p.args /\ q.game = p.game
      /\ q.pend = "lobby" /\ q.mine = Unset /\ q.sent = FALSE /\ q.net = "idle"
      /\ q.hs = "closed" /\ q.fd = NoConn
  BY <1>3 DEF Program
<1> HIDE DEF q
<1>6. Shaped(q)
  BY <1>1, <1>2, <1>5 DEF Shaped, OnItsOwn, Idle
<1>8. ~NotStarted(q)
  BY <1>5 DEF NotStarted
<1>7. Steps(c, q)
  BY <1>8, <1>2, <1>4, <1>5, <1>6, AloneSteps
<1> QED BY <1>2, <1>5, <1>7, ClosingSteps

\* The window is closed.
LEMMA QuitKeeps == ASSUME IInv, NEW c \in Clients, Quit(c) PROVE IInv'
<1> DEFINE r == [NewProgram EXCEPT !.running = FALSE]
<1>1. /\ Becomes(c, r) /\ UNCHANGED <<up, relayVars>>
      /\ conn' = [k \in Conns |-> IF conn[k].by = c THEN [conn[k] EXCEPT !.client = "closed"] ELSE conn[k]]
      /\ inbox' = [k \in Conns |-> IF conn[k].by = c THEN <<>> ELSE inbox[k]]
  BY DEF Quit
<1>2. Fit(r) /\ r.running = FALSE /\ r.fd = NoConn
  BY NewProgramFits DEF NewProgram
<1>3. PICK q : q = r
  OBVIOUS
<1> HIDE DEF r
<1>4. Moved(c, q)
  BY <1>1, <1>2, <1>3 DEF Moved, Becomes, relayVars, IInv, TypeOK
<1>5. StepFacts
  BY <1>4, MovedFacts
<1>6. cl \in [Clients -> Program] /\ cl'[c] = q /\ \A d \in Clients : d # c => cl'[d] = cl[d]
  BY <1>4 DEF IInv, TypeOK, Moved
<1>7. \A k \in Conns : Seated(k)' <=> Seated(k)
  BY <1>4 DEF Moved, Seated, Sits
<1>8. /\ conn \in [Conns -> [by : Clients \union {"nobody"}, client : {"new", "open", "closed"},
                             relay : {"new", "open", "closed"}]]
      /\ inbox \in [Conns -> Seq(Message)]
  BY DEF IInv, TypeOK
<1>9. \A k \in Conns : /\ conn'[k].by = conn[k].by /\ conn'[k].relay = conn[k].relay
                       /\ conn'[k].client = IF conn[k].by = c THEN "closed" ELSE conn[k].client
                       /\ conn'[k] \in [by : Clients \union {"nobody"}, client : {"new", "open", "closed"},
                                        relay : {"new", "open", "closed"}]
  BY <1>1, <1>8
<1>10. TypeOK'
  <2>1. conn' \in [Conns -> [by : Clients \union {"nobody"}, client : {"new", "open", "closed"},
                             relay : {"new", "open", "closed"}]]
    BY <1>1, <1>9
  <2>2. inbox' \in [Conns -> Seq(Message)]
    BY <1>1, <1>8
  <2> QED BY <1>1, <1>5, <2>1, <2>2 DEF IInv, TypeOK, StepFacts, relayVars
<1>11. \A k \in Conns : inbox'[k] = inbox[k] \/ inbox'[k] = <<>>
  BY <1>1
<1>12. \A d \in Clients : cl'[d].fd # NoConn => d # c /\ cl'[d] = cl[d] /\ cl[d].fd \in Conns
  <2>1. \A d \in Clients : cl[d].fd # NoConn => cl[d].fd \in Conns
    BY DEF IInv, ProgramInv, Fit, Program
  <2> QED BY <1>2, <1>3, <1>6, <2>1
<1>13. \A d \in Clients, k \in Conns : FirstOf(d, k)' <=> FirstOf(d, k)
  <2>1. \A k \in Conns : \A j \in 1..k - 1 : j \in Conns
    BY EarlierConns
  <2> QED BY <1>9, <2>1 DEF FirstOf
<1>14. FirstInv'
  <2>1. FirstInv
    BY DEF IInv
  <2>2. ASSUME NEW d \in Clients, NEW k \in Conns, cl'[d].fd = k, OnItsOwn(cl'[d]) PROVE FirstOf(d, k)'
    <3>1. cl'[d] = cl[d]
      BY <1>12, <2>2, Constants
    <3> QED BY <1>13, <2>1, <2>2, <3>1 DEF FirstInv
  <2>3. \A d \in Clients : NotStarted(cl'[d]) => d # c
    BY <1>2, <1>3, <1>6 DEF NotStarted
  <2>4. \A d \in Clients : NotStarted(cl'[d]) => \A k \in Conns : conn'[k].by # d
    BY <1>6, <1>9, <2>1, <2>3 DEF FirstInv
  <2>5. \A k \in Conns : conn'[k].client = "new" <=> conn[k].client = "new"
    BY <1>9, <2>1 DEF FirstInv
  <2>6. /\ \A j, k \in Conns : j < k /\ conn'[j].client = "new" => conn'[k].client = "new"
        /\ \A k \in Conns : conn'[k].client = "new" => conn'[k].by \notin Clients
    BY <1>9, <2>1, <2>5 DEF FirstInv
  <2> QED BY <2>2, <2>4, <2>6 DEF FirstInv, NotStarted, OnItsOwn, FirstOf
<1>15. ConnInv'
  <2>1. \A d \in Clients : cl'[d].fd # NoConn => conn'[cl'[d].fd].by = d /\ conn'[cl'[d].fd].client = "open"
    BY <1>9, <1>12 DEF IInv, ConnInv
  <2>2. ASSUME NEW k \in Conns, conn'[k].client = "open" PROVE Held(k)'
    <3>1. Held(k) /\ conn[k].by # c
      BY <1>9, <2>2 DEF IInv, ConnInv
    <3>2. PICK w \in Clients : conn[k].by = w /\ (cl[w].fd = k \/ (cl[w].args /\ FirstOf(w, k)))
      BY <3>1 DEF Held
    <3>3. conn'[k].by = w /\ (cl'[w].fd = k \/ (cl'[w].args /\ FirstOf(w, k)'))
      BY <1>6, <1>9, <1>13, <3>1, <3>2
    <3> QED BY <3>3 DEF Held, FirstOf
  <2>3. \A k \in Conns : conn'[k].client = "new" => conn'[k].relay = "new"
    BY <1>9 DEF IInv, ConnInv
  <2>4. \A k \in Conns : conn'[k].relay = "new" => up'[k] = <<>> /\ inbox'[k] = <<>> /\ ~Seated(k)'
    BY <1>1, <1>7, <1>9, <1>11 DEF IInv, ConnInv
  <2> QED BY <2>1, <2>2, <2>3, <2>4 DEF ConnInv
<1>16. \A d \in Clients, k \in Conns : cl'[d].fd = k => cl[d].fd = k /\ cl'[d].slot = cl[d].slot
  BY <1>12, Constants
<1>17. \A k \in Conns : UpFine(k)'
  BY <1>1, <1>5, <1>7, <1>11, <1>16, UpFineKept DEF IInv, UpInv, StepFacts
<1>18. \A k \in Conns : InboxFine(k)'
  <2>1. \A k \in Conns : \A n \in 1..Len(inbox'[k]) : \E j \in 1..Len(inbox[k]) : inbox'[k][n] = inbox[k][j]
    BY <1>11
  <2> QED BY <1>5, <2>1, InboxFineKept DEF IInv, InboxInv, StepFacts
<1> QED BY <1>5, <1>10, <1>14, <1>15, <1>17, <1>18 DEF IInv, StepFacts, UpInv, InboxInv
-------------------------------------------------------------------------------
(***************************************************************************)
(* Connecting.                                                             *)
(***************************************************************************)
LEMMA ConfiguredFacts ==
  ASSUME NEW p \in Program, NEW room \in Rooms \union {NoRoom}, NEW s \in Slots
  PROVE  LET q == Configured(p, room, s) IN
         /\ q \in Program /\ q.fd = NoConn /\ q.hs = "idle" /\ q.net = "idle" /\ q.opp = NotHeard
         /\ q.slot = s /\ q.room = room
         /\ q.running = p.running /\ q.args = p.args /\ q.game = p.game /\ q.pend = p.pend /\ q.sub = p.sub
         /\ q.me = p.me /\ q.p1 = p.p1 /\ q.local = p.local /\ q.mine = p.mine /\ q.sent = p.sent
<1> DEFINE a1 == [p EXCEPT !.room = room]
           a2 == [a1 EXCEPT !.slot = s]
           a3 == [a2 EXCEPT !.online = TRUE]
           a4 == [a3 EXCEPT !.fd = NoConn]
           a5 == [a4 EXCEPT !.hs = "idle"]
           a6 == [a5 EXCEPT !.net = "idle"]
           a7 == [a6 EXCEPT !.opp = NotHeard]
           a8 == [a7 EXCEPT !.yours = 0]
           a9 == [a8 EXCEPT !.winner = 0]
           q == Configured(p, room, s)
<1>0. 0 \in Slots /\ NotHeard \in AnyPack
  BY DEF Slots, AnyPack
<1>1. q = a9
  BY DEF Configured
<1>2. a3 \in Program
  <2>1. a1 \in Program
    BY OneField
  <2> HIDE DEF a1
  <2>2. a2 \in Program
    BY <2>1, OneField
  <2> HIDE DEF a2
  <2> QED BY <2>2, OneField
<1>3. a6 \in Program
  <2> HIDE DEF a3
  <2>1. a4 \in Program
    BY <1>2, OneField
  <2> HIDE DEF a4
  <2>2. a5 \in Program
    BY <2>1, OneField DEF Handshakes
  <2> HIDE DEF a5
  <2> QED BY <2>2, OneField DEF Nets
<1>4. a9 \in Program
  <2> HIDE DEF a6
  <2>1. a7 \in Program
    BY <1>0, <1>3, OneField
  <2> HIDE DEF a7
  <2>2. a8 \in Program
    BY <1>0, <2>1, OneField
  <2> HIDE DEF a8
  <2> QED BY <1>0, <2>2, OneField
<1>5. /\ q.fd = NoConn /\ q.hs = "idle" /\ q.net = "idle" /\ q.opp = NotHeard
      /\ q.slot = s /\ q.room = room
      /\ q.running = p.running /\ q.args = p.args /\ q.game = p.game /\ q.pend = p.pend /\ q.sub = p.sub
      /\ q.me = p.me /\ q.p1 = p.p1 /\ q.local = p.local /\ q.mine = p.mine /\ q.sent = p.sent
  BY DEF Configured, Program
<1> HIDE DEF a9, q
<1>6. q \in Program
  BY <1>1, <1>4
<1> QED BY <1>5, <1>6 DEF q

JustConnected(p, k, q) ==
  /\ q \in Program /\ q.fd = k
  /\ k = NoConn => q.hs = "idle" /\ q.net = "error"
  /\ k # NoConn => q.hs \in {"tcp", "http"} /\ q.net = "connecting"
  /\ q.opp = p.opp /\ q.slot = p.slot /\ q.room = p.room
  /\ q.running = p.running /\ q.args = p.args /\ q.game = p.game /\ q.pend = p.pend /\ q.sub = p.sub
  /\ q.me = p.me /\ q.p1 = p.p1 /\ q.local = p.local /\ q.mine = p.mine /\ q.sent = p.sent

\* net_client_connect, field by field.
LEMMA ConnectedFacts ==
  ASSUME NEW p \in Program, p.fd = NoConn, p.hs = "idle",
         NEW k \in Conns \union {NoConn}, NEW q \in Connected(p, k)
  PROVE  JustConnected(p, k, q)
<1>1. CASE k = NoConn
  <2>1. q = [p EXCEPT !.net = "error"]
    BY <1>1 DEF Connected
  <2>2. q \in Program
    BY <2>1, OneField DEF Nets
  <2>3. /\ q.fd = p.fd /\ q.hs = p.hs /\ q.net = "error"
        /\ q.opp = p.opp /\ q.slot = p.slot /\ q.room = p.room
        /\ q.running = p.running /\ q.args = p.args /\ q.game = p.game /\ q.pend = p.pend /\ q.sub = p.sub
        /\ q.me = p.me /\ q.p1 = p.p1 /\ q.local = p.local /\ q.mine = p.mine /\ q.sent = p.sent
    BY <2>1 DEF Program
  <2> QED BY <1>1, <2>2, <2>3 DEF JustConnected
<1>2. CASE k # NoConn
  <2>1. PICK h \in {"tcp", "http"} : q = [p EXCEPT !.fd = k, !.hs = h, !.net = "connecting"]
    BY <1>2 DEF Connected
  <2>2. q \in Program
    <3> DEFINE a == [p EXCEPT !.fd = k]
               b == [a EXCEPT !.hs = h]
    <3>1. q = [b EXCEPT !.net = "connecting"]
      BY <2>1
    <3>2. a \in Program
      BY OneField
    <3> HIDE DEF a
    <3>3. b \in Program
      BY <3>2, OneField DEF Handshakes
    <3> HIDE DEF b
    <3> QED BY <3>1, <3>3, OneField DEF Nets
  <2>3. /\ q.fd = k /\ q.hs = h /\ q.net = "connecting"
        /\ q.opp = p.opp /\ q.slot = p.slot /\ q.room = p.room
        /\ q.running = p.running /\ q.args = p.args /\ q.game = p.game /\ q.pend = p.pend /\ q.sub = p.sub
        /\ q.me = p.me /\ q.p1 = p.p1 /\ q.local = p.local /\ q.mine = p.mine /\ q.sent = p.sent
    BY <2>1 DEF Program
  <2> QED BY <1>2, <2>2, <2>3 DEF JustConnected
<1> QED BY <1>1, <1>2

\* A program that has just connected has heard nothing.
LEMMA ConnectingFits ==
  ASSUME IInv, NEW c \in Clients, NEW k \in Conns \union {NoConn}, Socket(c, k),
         NEW q \in Program, Shaped(q), q.fd = k, q.opp = NotHeard,
         k # NoConn => q.net = "connecting" /\ ~Begun(q)
  PROVE  Fit(q) /\ (k # NoConn => k \in Conns /\ conn[k].client = "new")
<1>1. k # NoConn => k \in Conns /\ conn[k].client = "new" /\ ~Seated(k)
  BY DEF Socket, IInv, ConnInv
<1> QED BY <1>1 DEF Fit, Linked, Seated

\* A program with arguments connects.
LEMMA StartsKeeps == ASSUME IInv, NEW c \in Clients, Starts(c) PROVE IInv'
<1> DEFINE p == cl[c]
<1>1. p \in Program /\ Shaped(p)
  BY ClientFacts
<1>2. /\ p.running /\ p.game = "title" /\ p.pend = "none" /\ p.hs = "idle" /\ UNCHANGED <<up, inbox, relayVars>>
      /\ NotStarted(p)
  BY DEF Starts, NotStarted
<1>3. PICK k \in Conns \union {NoConn} :
        Socket(c, k) /\ \E r \in Connected(p, k) : Becomes(c, Request(r, "search"))
  BY DEF Starts
<1>4. PICK r \in Connected(p, k) : Becomes(c, Request(r, "search"))
  BY <1>3
<1>5. /\ p.fd = NoConn /\ p.args /\ p.opp = NotHeard /\ p.me = p.slot /\ p.sub = "setup"
      /\ p.mine = Unset /\ ~p.sent /\ ~p.local
  BY <1>1, <1>2 DEF Shaped
<1>6. /\ r \in Program /\ r.fd = k
      /\ k = NoConn => r.hs = "idle" /\ r.net = "error"
      /\ k # NoConn => r.hs \in {"tcp", "http"} /\ r.net = "connecting"
      /\ r.opp = p.opp /\ r.slot = p.slot
      /\ r.running = p.running /\ r.args = p.args /\ r.game = p.game /\ r.sub = p.sub
      /\ r.me = p.me /\ r.p1 = p.p1 /\ r.local = p.local /\ r.mine = p.mine /\ r.sent = p.sent
  <2>1. r \in Connected(p, k)
    BY <1>4
  <2>2. p.hs = "idle"
    BY <1>2
  <2> HIDE DEF p
  <2>3. JustConnected(p, k, r)
    BY <1>1, <1>5, <2>1, <2>2, ConnectedFacts
  <2> QED BY <2>3 DEF JustConnected
<1> DEFINE q == [r EXCEPT !.pend = "search"]
<1>7. q \in Program
  BY <1>6, OneField DEF Screens
<1>8. /\ q.fd = r.fd /\ q.hs = r.hs /\ q.net = r.net /\ q.pend = "search" /\ q.opp = r.opp /\ q.slot = r.slot
      /\ q.running = r.running /\ q.args = r.args /\ q.game = r.game /\ q.sub = r.sub
      /\ q.me = r.me /\ q.p1 = r.p1 /\ q.local = r.local /\ q.mine = r.mine /\ q.sent = r.sent
  BY <1>6 DEF Program
<1>9. Becomes(c, q)
  BY <1>4 DEF Request
<1> HIDE DEF q
<1>10. Shaped(q) /\ ~Begun(q) /\ ~NotStarted(q)
  BY <1>2, <1>5, <1>6, <1>8 DEF Shaped, OnItsOwn, Begun, Idle, NotStarted
<1>11. Fit(q) /\ (k # NoConn => k \in Conns /\ conn[k].client = "new")
  BY <1>3, <1>5, <1>6, <1>7, <1>8, <1>10, ConnectingFits
<1>12. Steps(c, q)
  BY <1>2, <1>5, <1>6, <1>8, <1>9, <1>10, <1>11 DEF Steps, Moved, Carries, Becomes, relayVars, IInv, TypeOK
<1> QED BY <1>2, <1>3, <1>5, <1>6, <1>8, <1>10, <1>12, OpeningSteps

\* lobby_join_room: the screen it is reached from has no connection but that of main.
LEMMA JoinRoomKeeps == ASSUME IInv, NEW c \in Clients, JoinRoom(c) PROVE IInv'
<1> DEFINE p == cl[c]
<1>1. p \in Program /\ Shaped(p)
  BY ClientFacts
<1>2. p.running /\ p.game = "lobby" /\ p.sub = "enter code" /\ UNCHANGED <<up, inbox, relayVars>>
  BY DEF JoinRoom, In
<1>3. PICK room \in Codes, k \in Conns \union {NoConn} :
        /\ Socket(c, k)
        /\ \E r \in Connected(Configured(p, room, 1), k) :
             Becomes(c, [r EXCEPT !.p1 = FALSE, !.sub = "waiting"])
  BY DEF JoinRoom
<1>0. OnItsOwn(p) /\ ~p.local /\ p.pend = "none" /\ p.mine = Unset /\ ~p.sent
  BY <1>1, <1>2 DEF Shaped, OnItsOwn, Idle
<1> DEFINE x == Configured(p, room, 1)
<1>4. PICK r \in Connected(x, k) : Becomes(c, [r EXCEPT !.p1 = FALSE, !.sub = "waiting"])
  BY <1>3
<1>5. /\ x \in Program /\ x.fd = NoConn /\ x.hs = "idle" /\ x.opp = NotHeard /\ x.slot = 1
      /\ x.running = p.running /\ x.args = p.args /\ x.game = p.game /\ x.pend = p.pend
      /\ x.local = p.local /\ x.mine = p.mine /\ x.sent = p.sent
  <2>1. room \in Rooms \union {NoRoom} /\ 1 \in Slots
    BY DEF Codes, Slots
  <2> QED BY <1>1, <2>1, ConfiguredFacts
<1> HIDE DEF x
<1>6. /\ r \in Program /\ r.fd = k
      /\ k = NoConn => r.hs = "idle" /\ r.net = "error"
      /\ k # NoConn => r.hs \in {"tcp", "http"} /\ r.net = "connecting"
      /\ r.opp = NotHeard /\ r.slot = 1
      /\ r.running = p.running /\ r.args = p.args /\ r.game = p.game /\ r.pend = p.pend
      /\ r.local = p.local /\ r.mine = p.mine /\ r.sent = p.sent
  <2>1. JustConnected(x, k, r)
    BY <1>5, ConnectedFacts
  <2> QED BY <1>5, <2>1 DEF JustConnected
<1> DEFINE a == [r EXCEPT !.p1 = FALSE]
           q == [r EXCEPT !.p1 = FALSE, !.sub = "waiting"]
<1>7. q \in Program
  <2>1. q = [a EXCEPT !.sub = "waiting"]
    OBVIOUS
  <2>2. a \in Program
    BY <1>6, OneField
  <2> HIDE DEF a
  <2> QED BY <2>1, <2>2, OneField DEF Subs
<1>8. /\ q.fd = r.fd /\ q.hs = r.hs /\ q.net = r.net /\ q.pend = r.pend /\ q.opp = r.opp /\ q.slot = r.slot
      /\ q.running = r.running /\ q.args = r.args /\ q.game = r.game /\ q.sub = "waiting"
      /\ q.p1 = FALSE /\ q.local = r.local /\ q.mine = r.mine /\ q.sent = r.sent
  BY <1>6 DEF Program
<1>9. Becomes(c, q)
  BY <1>4
<1> HIDE DEF q
<1>10. Shaped(q) /\ ~Begun(q) /\ ~NotStarted(q) /\ ~OnItsOwn(q)
  <2>2. /\ q.game = "lobby" /\ q.sub = "waiting" /\ q.pend = "none" /\ ~q.local /\ q.running
        /\ q.slot = 1 /\ q.p1 = FALSE /\ q.opp = NotHeard /\ q.fd = k /\ q.mine = Unset /\ ~q.sent
    BY <1>0, <1>2, <1>6, <1>8
  <2>3. /\ k = NoConn => q.hs = "idle" /\ q.net = "error"
        /\ k # NoConn => q.hs \in {"tcp", "http"} /\ q.net = "connecting"
    BY <1>6, <1>8
  <2>4. Shaped(q)
    BY <2>2, <2>3 DEF Shaped, OnItsOwn, Idle
  <2> QED BY <2>2, <2>4 DEF Begun, NotStarted, OnItsOwn, Idle
<1>11. Fit(q) /\ (k # NoConn => k \in Conns /\ conn[k].client = "new")
  BY <1>3, <1>6, <1>7, <1>8, <1>10, ConnectingFits
<1>12. Steps(c, q)
  <2>1. state \in [Rooms -> {"unborn", "waiting", "active", "closed", "lost"}]
    BY DEF IInv, TypeOK
  <2>2. Carries(p, q)
    BY <1>5, <1>6, <1>8, <1>10 DEF Carries
  <2>3. q.fd = NoConn \/ (q.fd \in Conns /\ conn[q.fd].client = "new")
    BY <1>6, <1>8, <1>11
  <2> QED BY <1>2, <1>9, <1>11, <2>1, <2>2, <2>3 DEF Steps, Moved, Becomes, relayVars
<1> QED BY <1>0, <1>2, <1>3, <1>6, <1>8, <1>10, <1>12, OpeningSteps

\* The rest of a frame, from a program that holds what c holds.
LEMMA FrameSteps ==
  ASSUME IInv, NEW c \in Clients, NEW r, Fit(r), Akin(cl[c], r), Goes(c, r), UNCHANGED relayVars
  PROVE  \E q : Steps(c, q) /\ q.fd = cl[c].fd /\ q.slot = cl[c].slot
<1>1. PICK q : Becoming(r, q) /\ Becomes(c, q)
  BY GoesFits
<1>2. Fit(q) /\ Akin(cl[c], q)
  BY <1>1 DEF Becoming, Akin, Carries
<1>3. Steps(c, q)
  BY <1>1, <1>2 DEF Steps, Moved, Becomes, Akin, relayVars, IInv, TypeOK
<1> QED BY <1>2, <1>3 DEF Akin

\* lobby_create_room: the screen it is reached from has no connection but that of main.
LEMMA CreateRoomKeeps == ASSUME IInv, NEW c \in Clients, CreateRoom(c) PROVE IInv'
<1> DEFINE p == cl[c]
<1>1. p \in Program /\ Shaped(p) /\ (p.fd # NoConn => Linked(p))
  BY ClientFacts
<1>2. p.running /\ p.game = "lobby" /\ p.sub = "creating" /\ UNCHANGED <<up, inbox, seat, verdict>>
  BY DEF CreateRoom, Creating
<1>3. OnItsOwn(p) /\ ~p.local /\ p.pend = "none" /\ p.mine = Unset /\ ~p.sent
  BY <1>1, <1>2 DEF Shaped, OnItsOwn, Idle
<1>4. ASSUME NEW room \in Rooms, NEW k \in Conns \union {NoConn}, state[room] = "unborn",
             state' = [state EXCEPT ![room] = "waiting"], Socket(c, k),
             NEW r \in Connected(Configured(p, room, 0), k),
             Goes(c, [r EXCEPT !.p1 = TRUE, !.sub = "show code"])
      PROVE  IInv'
  <2> DEFINE x == Configured(p, room, 0)
  <2>1. /\ x \in Program /\ x.fd = NoConn /\ x.hs = "idle" /\ x.opp = NotHeard /\ x.slot = 0
        /\ x.running = p.running /\ x.args = p.args /\ x.game = p.game /\ x.pend = p.pend
        /\ x.local = p.local /\ x.mine = p.mine /\ x.sent = p.sent
    <3>1. 0 \in Slots
      BY DEF Slots
    <3> QED BY <1>1, <3>1, ConfiguredFacts
  <2>2. r \in Connected(x, k)
    BY <1>4
  <2> HIDE DEF x
  <2>3. /\ r \in Program /\ r.fd = k
        /\ k = NoConn => r.hs = "idle" /\ r.net = "error"
        /\ k # NoConn => r.hs \in {"tcp", "http"} /\ r.net = "connecting"
        /\ r.opp = NotHeard /\ r.slot = 0
        /\ r.running = p.running /\ r.args = p.args /\ r.game = p.game /\ r.pend = p.pend
        /\ r.local = p.local /\ r.mine = p.mine /\ r.sent = p.sent
    <3>1. JustConnected(x, k, r)
      BY <2>1, <2>2, ConnectedFacts
    <3> QED BY <2>1, <3>1 DEF JustConnected
  <2> DEFINE a == [r EXCEPT !.p1 = TRUE]
             q == [r EXCEPT !.p1 = TRUE, !.sub = "show code"]
  <2>4. q \in Program
    <3>1. q = [a EXCEPT !.sub = "show code"]
      OBVIOUS
    <3>2. a \in Program
      BY <2>3, OneField
    <3> HIDE DEF a
    <3> QED BY <3>1, <3>2, OneField DEF Subs
  <2>5. /\ q.fd = r.fd /\ q.hs = r.hs /\ q.net = r.net /\ q.pend = r.pend /\ q.opp = r.opp /\ q.slot = r.slot
        /\ q.running = r.running /\ q.args = r.args /\ q.game = r.game /\ q.sub = "show code"
        /\ q.p1 = TRUE /\ q.local = r.local /\ q.mine = r.mine /\ q.sent = r.sent
    BY <2>3 DEF Program
  <2>6. Goes(c, q)
    BY <1>4
  <2> HIDE DEF q
  <2>7. Shaped(q) /\ ~Begun(q) /\ ~NotStarted(q) /\ ~OnItsOwn(q)
    BY <1>2, <1>3, <2>3, <2>5 DEF Shaped, OnItsOwn, Begun, Idle, NotStarted
  <2>8. Fit(q) /\ (k # NoConn => k \in Conns /\ conn[k].client = "new")
    BY <1>4, <2>3, <2>4, <2>5, <2>7, ConnectingFits
  <2>9. PICK z : Becoming(q, z) /\ Becomes(c, z)
    BY <2>6, <2>8, GoesFits
  <2>10. /\ Fit(z) /\ z.fd = k /\ z.args = p.args /\ ~NotStarted(z)
         /\ z.fd # NoConn => ~OnItsOwn(z)
    BY <2>3, <2>5, <2>7, <2>9 DEF Becoming, Akin, Carries
  <2>11. /\ state' \in [Rooms -> {"unborn", "waiting", "active", "closed", "lost"}]
         /\ \A j \in Rooms : state'[j] = state[j] \/ (state[j] = "unborn" /\ state'[j] = "waiting")
    <3>1. state \in [Rooms -> {"unborn", "waiting", "active", "closed", "lost"}]
      BY DEF IInv, TypeOK
    <3> QED BY <1>4, <3>1
  <2>12. Steps(c, z)
    BY <1>2, <2>8, <2>9, <2>10, <2>11 DEF Steps, Moved, Carries, Becomes
  <2> QED BY <1>2, <1>3, <1>4, <2>10, <2>12, OpeningSteps
<1>5. ASSUME Goes(c, [p EXCEPT !.sub = "role"]), UNCHANGED <<state, conn>> PROVE IInv'
  <2> DEFINE q == [p EXCEPT !.sub = "role"]
  <2>1. q \in Program
    BY <1>1, OneField DEF Subs
  <2>2. /\ q.fd = p.fd /\ q.hs = p.hs /\ q.net = p.net /\ q.pend = p.pend /\ q.opp = p.opp /\ q.slot = p.slot
        /\ q.me = p.me /\ q.sim = p.sim /\ q.yours = p.yours /\ q.winner = p.winner
        /\ q.running = p.running /\ q.args = p.args /\ q.game = p.game /\ q.sub = "role"
        /\ q.p1 = p.p1 /\ q.local = p.local /\ q.mine = p.mine /\ q.sent = p.sent
    BY <1>1 DEF Program
  <2>3. Goes(c, q)
    BY <1>5
  <2> HIDE DEF q
  <2>4. Shaped(q) /\ Akin(p, q)
    BY <1>1, <1>2, <1>3, <2>2 DEF Shaped, OnItsOwn, Idle, Akin, Carries, NotStarted
  <2>8. q.fd # NoConn => Linked(q)
    BY <1>1, <1>2, <1>3, <2>2 DEF Linked, AtSeat, Begun
  <2>5. Fit(q) /\ Akin(p, q)
    BY <2>1, <2>4, <2>8 DEF Fit
  <2>6. UNCHANGED relayVars
    BY <1>2, <1>5 DEF relayVars
  <2>7. PICK z : Steps(c, z) /\ z.fd = cl[c].fd /\ z.slot = cl[c].slot
    BY <2>3, <2>5, <2>6, FrameSteps
  <2> QED BY <1>2, <1>5, <2>7, QuietSteps
<1> QED BY <1>4, <1>5 DEF CreateRoom
-------------------------------------------------------------------------------
(***************************************************************************)
(* Steps that send or receive.                                             *)
(***************************************************************************)
ConnectionType ==
  [by : Clients \union {"nobody"}, client : {"new", "open", "closed"}, relay : {"new", "open", "closed"}]

\* A step after which the messages are known to be sound.
LEMMA SteadySteps ==
  ASSUME IInv, NEW c \in Clients, NEW q, Steps(c, q), q.fd = cl[c].fd,
         conn' \in [Conns -> ConnectionType],
         up' \in [Conns -> Seq(Message)], inbox' \in [Conns -> Seq(Message)],
         \A k \in Conns : /\ conn'[k].by = conn[k].by /\ conn'[k].client = conn[k].client
                          /\ conn[k].client = "new" => conn'[k].relay = conn[k].relay
                          /\ conn'[k].relay = "new" =>
                               conn[k].relay = "new" /\ up'[k] = up[k] /\ inbox'[k] = inbox[k],
         \A k \in Conns : UpFine(k)' /\ InboxFine(k)'
  PROVE  IInv'
<1>1. StepFacts
  BY StepsFacts
<1>2. cl \in [Clients -> Program] /\ cl'[c] = q /\ \A d \in Clients : d # c => cl'[d] = cl[d]
  BY DEF IInv, TypeOK, Steps, Moved
<1>3. \A d \in Clients : cl'[d].fd = cl[d].fd
  BY <1>2
<1>4. \A k \in Conns : Seated(k)' <=> Seated(k)
  BY DEF Steps, Moved, Seated, Sits
<1>5. TypeOK'
  BY <1>1 DEF IInv, TypeOK, StepFacts, Steps, Moved, ConnectionType
<1>6. \A k \in Conns : conn'[k].relay = "new" =>
        conn[k].relay = "new" /\ up'[k] = <<>> /\ inbox'[k] = <<>> /\ ~Seated(k)'
  BY <1>4 DEF IInv, ConnInv
<1>7. ConnInv' /\ FirstInv'
  <2>1. \A d \in Clients : Carries(cl[d], cl'[d])
    BY StepsCarry
  <2> QED BY <1>3, <1>6, <2>1, SameConnections
<1> QED BY <1>1, <1>5, <1>7 DEF IInv, StepFacts, UpInv, InboxInv

\* net_client_send_loadout: the room has started, for START led to this screen.
LEMMA PickLoadoutKeeps == ASSUME IInv, NEW c \in Clients, NEW l \in Packs[c], PickLoadout(c, l) PROVE IInv'
<1> DEFINE p == cl[c]  a == [p EXCEPT !.mine = l]  r == [p EXCEPT !.mine = l, !.sent = ~p.local]
           m == [type |-> "LOADOUT", loadout |-> l]  k == p.fd
<1>1. p \in Program /\ Shaped(p) /\ (k # NoConn => Linked(p) /\ k \in Conns /\ conn[k].by = c /\ conn[k].client = "open")
  BY ClientFacts
<1>2. p.running /\ p.game = "lobby" /\ p.sub = "loadout" /\ ~p.sent /\ UNCHANGED <<conn, inbox, relayVars>>
  BY DEF PickLoadout, In
<1>3. l \in AllPacks
  BY DEF AllPacks
<1>4. r \in Program
  <2>1. r = [a EXCEPT !.sent = ~p.local]
    OBVIOUS
  <2>2. a \in Program
    BY <1>1, <1>3, OneField
  <2>3. (~p.local) \in BOOLEAN
    BY Zenon
  <2> HIDE DEF a
  <2> QED BY <2>1, <2>2, <2>3, OneField
<1>5. /\ r.mine = l /\ r.sent = ~p.local /\ r.running = p.running /\ r.args = p.args /\ r.game = p.game
      /\ r.pend = p.pend /\ r.sub = p.sub /\ r.p1 = p.p1 /\ r.local = p.local /\ r.me = p.me /\ r.sim = p.sim
      /\ r.net = p.net /\ r.hs = p.hs /\ r.fd = p.fd /\ r.slot = p.slot /\ r.opp = p.opp /\ r.yours = p.yours
      /\ r.winner = p.winner
  BY <1>1 DEF Program
<1>6. \/ Becomes(c, r) /\ UNCHANGED up
      \/ Becomes(c, Broken(r)) /\ UNCHANGED up
      \/ ~p.local /\ k # NoConn /\ Becomes(c, r) /\ up' = [up EXCEPT ![k] = Append(@, m)]
  BY DEF PickLoadout, Sends
<1> HIDE DEF r
<1>8. Shaped(r)
  BY <1>1, <1>2, <1>5 DEF Shaped, OnItsOwn, Idle
<1>9. k # NoConn => Linked(r)
  BY <1>1, <1>2, <1>5 DEF Linked, AtSeat, Begun
<1>7. Carries(p, r)
  BY <1>2, <1>5 DEF Carries, NotStarted, OnItsOwn
<1>10. Fit(r) /\ Fit(Broken(r)) /\ Akin(r, Broken(r))
  BY <1>4, <1>5, <1>8, <1>9, BrokenFits DEF Becoming, Fit
<1>11. ASSUME NEW q \in {r, Broken(r)}, Becomes(c, q) PROVE Steps(c, q) /\ q.fd = p.fd /\ q.slot = p.slot
  <2>1. Fit(q) /\ q.fd = p.fd /\ q.slot = p.slot /\ Carries(p, q)
    BY <1>5, <1>7, <1>10, <1>11 DEF Akin, Carries
  <2> QED BY <1>2, <1>11, <2>1 DEF Steps, Moved, Becomes, relayVars, IInv, TypeOK
<1>12. CASE (Becomes(c, r) \/ Becomes(c, Broken(r))) /\ UNCHANGED up
  BY <1>2, <1>11, <1>12, QuietSteps
<1>13. CASE ~p.local /\ k # NoConn /\ Becomes(c, r) /\ up' = [up EXCEPT ![k] = Append(@, m)]
  <2>0. PICK o : o = k
    OBVIOUS
  <2>1. Steps(c, r) /\ r.fd = o
    BY <1>11, <1>13, <2>0
  <2>2. StepFacts
    BY <2>1, StepsFacts
  <2>3. /\ up \in [Conns -> Seq(Message)] /\ inbox \in [Conns -> Seq(Message)]
        /\ conn \in [Conns -> ConnectionType] /\ cl \in [Clients -> Program]
    BY DEF IInv, TypeOK, ConnectionType
  <2>4. o \in Conns /\ conn[o].by = c /\ Linked(p) /\ m \in Message
    BY <1>1, <1>3, <1>13, <2>0 DEF Message
  <2>5. up' \in [Conns -> Seq(Message)] /\ \A j \in Conns : j # o => up'[j] = up[j]
    BY <1>13, <2>0, <2>3, <2>4
  <2>6. Len(up'[o]) = Len(up[o]) + 1 /\ up'[o][Len(up[o]) + 1] = m /\ Len(up[o]) \in Nat
        /\ \A n \in 1..Len(up[o]) : up'[o][n] = up[o][n]
    BY <1>13, <2>0, <2>3, <2>4
  <2>7. Seated(o) /\ \A room \in Rooms, s \in Slots : Sits(o, room, s) => Started(room)
    BY <1>2, <1>13, <2>0, <2>4 DEF Linked, AtSeat, Begun
  <2>8. cl'[c] = r /\ \A d \in Clients : d # c => cl'[d] = cl[d]
    BY <2>1, <2>3 DEF Steps, Moved
  <2>9. \A d \in Clients : cl[d].fd = o => d = c
    BY <2>4, Constants DEF IInv, ConnInv
  <2>10. \A j \in Conns : Seated(j)' <=> Seated(j)
    BY <2>1 DEF Steps, Moved, Seated, Sits
  <2>11. ASSUME NEW n \in 1..Len(up'[o]) PROVE LoadoutSound(o, up[o][n])'
    <3>1. CASE n \in 1..Len(up[o])
      <4>1. PICK x : x = up[o][n]
        OBVIOUS
      <4>2. LoadoutSound(o, x)
        BY <2>7, <3>1, <4>1, <2>4 DEF IInv, UpInv, UpFine, JoinSound
      <4>3. LoadoutSound(o, x)'
        BY <2>2, <2>4, <4>2, LoadoutKept DEF StepFacts
      <4> QED BY <2>6, <3>1, <4>1, <4>3 DEF LoadoutSound, ChosenBy
    <3>2. CASE n = Len(up[o]) + 1
      <4>1. PICK x : x = m
        OBVIOUS
      <4>2. ChosenBy(o, l)'
        <5>1. r.mine = l /\ r.sent
          BY <1>5, <1>13
        <5>2. \A d \in Clients : cl'[d].fd = o => d = c
          BY <2>8, <2>9
        <5> QED BY <2>4, <2>8, <5>1, <5>2, Constants DEF ChosenBy
      <4>3. \A room \in Rooms, s \in Slots : Sits(o, room, s)' => Started(room)'
        BY <2>1, <2>2, <2>7 DEF Steps, Moved, Sits, StepFacts, SeatsKept
      <4>4. LoadoutSound(o, x)'
        BY <2>4, <2>7, <2>10, <4>1, <4>2, <4>3 DEF LoadoutSound, ChosenBy
      <4> QED BY <2>6, <3>2, <4>1, <4>4 DEF LoadoutSound, ChosenBy
    <3> QED BY <2>6, <3>1, <3>2
  <2>12. ASSUME NEW j \in Conns PROVE UpFine(j)'
    <3>1. CASE j = o
      BY <2>11, <3>1 DEF UpFine
    <3>2. CASE j # o
      <4>1. up'[j] = up[j] /\ inbox'[j] = inbox[j]
        BY <1>2, <2>5, <3>2
      <4>2. \A d \in Clients : cl'[d].fd = j => cl[d].fd = j /\ cl'[d].slot = cl[d].slot
        BY <1>5, <2>0, <2>8
      <4> QED BY <2>2, <2>10, <4>1, <4>2, UpFineKept DEF IInv, UpInv, StepFacts
    <3> QED BY <3>1, <3>2
  <2>13. ASSUME NEW j \in Conns PROVE InboxFine(j)'
    <3>1. inbox'[j] = inbox[j]
      BY <1>2
    <3> QED BY <2>2, <3>1, InboxFineKept DEF IInv, InboxInv, StepFacts
  <2>14. \A j \in Conns : conn[j].relay = "new" => up'[j] = up[j]
    BY <2>4, <2>5, <2>7 DEF IInv, ConnInv
  <2>15. r.fd = cl[c].fd /\ UNCHANGED <<conn, inbox>>
    BY <1>2, <1>5
  <2> QED BY <2>1, <2>3, <2>5, <2>12, <2>13, <2>14, <2>15, SteadySteps
<1> QED BY <1>6, <1>12, <1>13

-------------------------------------------------------------------------------
(***************************************************************************)
(* Frames.                                                                 *)
(***************************************************************************)
LEMMA DispatchFits ==
  ASSUME IInv, NEW p, Fit(p), p.fd \in Conns, NEW m, Delivers(p.fd, m)
  PROVE  Becoming(p, Dispatch(p, m))
<1>1. PICK room \in Rooms, s \in Slots : Sits(p.fd, room, s) /\ Proper(m, room, s)
  BY DEF Delivers
<1>2. p \in Program /\ Shaped(p) /\ Linked(p) /\ p.fd # NoConn /\ Seated(p.fd)
  BY <1>1, Constants DEF Fit, Seated
<1>3. \A r \in Rooms, t \in Slots : Sits(p.fd, r, t) => r = room /\ t = s
  BY <1>1 DEF IInv, RoomInv
<1>4. p.hs # "idle"
  BY <1>2 DEF Shaped, OnItsOwn
<1>5. CASE m = Waiting
  <2> DEFINE q == [p EXCEPT !.net = "waiting"]
  <2>1. Dispatch(p, m) = q
    BY <1>5 DEF Dispatch, Waiting
  <2>2. q \in Program
    BY <1>2, OneField DEF Nets
  <2>3. /\ q.net = "waiting" /\ q.game = p.game /\ q.pend = p.pend /\ q.sim = p.sim /\ q.me = p.me
        /\ q.running = p.running /\ q.args = p.args /\ q.sub = p.sub
        /\ q.p1 = p.p1 /\ q.local = p.local /\ q.mine = p.mine /\ q.sent = p.sent
        /\ q.hs = p.hs /\ q.fd = p.fd /\ q.slot = p.slot
        /\ q.opp = p.opp /\ q.yours = p.yours /\ q.winner = p.winner
    BY <1>2 DEF Program
  <2> HIDE DEF q
  <2>4. Shaped(q)
    BY <1>2, <2>3 DEF Shaped, OnItsOwn
  <2>5. Linked(q)
    BY <1>2, <2>3 DEF Linked, AtSeat, Begun
  <2>6. Carries(p, q)
    BY <2>3 DEF Carries, NotStarted, OnItsOwn
  <2> QED BY <2>1, <2>2, <2>3, <2>4, <2>5, <2>6 DEF Becoming, Akin, Fit
<1>6. CASE m = Notice
  BY <1>6, BecomingFacts DEF Dispatch, Notice
<1>7. CASE m = Start(s) /\ Started(room)
  <2> DEFINE a == [p EXCEPT !.net = "ready"]  q == [p EXCEPT !.net = "ready", !.yours = s]
  <2>1. Dispatch(p, m) = q
    BY <1>7 DEF Dispatch, Start
  <2>2. q \in Program
    <3>1. a \in Program
      BY <1>2, OneField DEF Nets
    <3>2. q = [a EXCEPT !.yours = s]
      OBVIOUS
    <3> HIDE DEF a
    <3> QED BY <3>1, <3>2, OneField
  <2>3. /\ q.net = "ready" /\ q.game = p.game /\ q.pend = p.pend /\ q.sim = p.sim /\ q.me = p.me
        /\ q.running = p.running /\ q.args = p.args /\ q.sub = p.sub
        /\ q.p1 = p.p1 /\ q.local = p.local /\ q.mine = p.mine /\ q.sent = p.sent
        /\ q.hs = p.hs /\ q.fd = p.fd /\ q.slot = p.slot
        /\ q.opp = p.opp /\ q.yours = s /\ q.winner = p.winner
    BY <1>2 DEF Program
  <2> HIDE DEF q
  <2>4. Shaped(q)
    BY <1>2, <2>3 DEF Shaped, OnItsOwn
  <2>5. Linked(q)
    BY <1>2, <1>3, <1>7, <2>3 DEF Linked, AtSeat, Begun
  <2>6. Carries(p, q)
    BY <2>3 DEF Carries, NotStarted, OnItsOwn
  <2> QED BY <2>1, <2>2, <2>3, <2>4, <2>5, <2>6 DEF Becoming, Akin, Fit
<1>8. CASE m = End(s) /\ verdict[room] = s /\ state[room] = "closed"
  <2> DEFINE a == [p EXCEPT !.net = "ended"]  q == [p EXCEPT !.net = "ended", !.winner = s]
  <2>1. Dispatch(p, m) = q
    BY <1>8 DEF Dispatch, End
  <2>2. q \in Program
    <3>1. a \in Program
      BY <1>2, OneField DEF Nets
    <3>2. q = [a EXCEPT !.winner = s]
      OBVIOUS
    <3> HIDE DEF a
    <3> QED BY <3>1, <3>2, OneField
  <2>3. /\ q.net = "ended" /\ q.game = p.game /\ q.pend = p.pend /\ q.sim = p.sim /\ q.me = p.me
        /\ q.running = p.running /\ q.args = p.args /\ q.sub = p.sub
        /\ q.p1 = p.p1 /\ q.local = p.local /\ q.mine = p.mine /\ q.sent = p.sent
        /\ q.hs = p.hs /\ q.fd = p.fd /\ q.slot = p.slot
        /\ q.opp = p.opp /\ q.yours = p.yours /\ q.winner = s
    BY <1>2 DEF Program
  <2> HIDE DEF q
  <2>4. Shaped(q)
    BY <1>2, <2>3 DEF Shaped, OnItsOwn
  <2>5. Linked(q)
    BY <1>2, <1>3, <1>8, <2>3 DEF Linked, AtSeat, Begun
  <2>6. Carries(p, q)
    BY <2>3 DEF Carries, NotStarted, OnItsOwn
  <2> QED BY <2>1, <2>2, <2>3, <2>4, <2>5, <2>6 DEF Becoming, Akin, Fit
<1>9. CASE m.type = "LOADOUT" /\ m.loadout \in AllPacks /\ ChosenBy(seat[room][Opponent(s)], m.loadout)
  <2> DEFINE l == m.loadout  q == [p EXCEPT !.opp = l]
  <2>1. Dispatch(p, m) = q
    BY <1>9 DEF Dispatch
  <2>2. q \in Program
    <3>1. l \in AnyPack
      BY <1>9 DEF AnyPack
    <3> HIDE DEF l
    <3> QED BY <1>2, <3>1, OneField
  <2>3. /\ q.net = p.net /\ q.game = p.game /\ q.pend = p.pend /\ q.sim = p.sim /\ q.me = p.me
        /\ q.running = p.running /\ q.args = p.args /\ q.sub = p.sub
        /\ q.p1 = p.p1 /\ q.local = p.local /\ q.mine = p.mine /\ q.sent = p.sent
        /\ q.hs = p.hs /\ q.fd = p.fd /\ q.slot = p.slot
        /\ q.opp = l /\ q.yours = p.yours /\ q.winner = p.winner
    BY <1>2 DEF Program
  <2> HIDE DEF q
  <2>4. Shaped(q)
    BY <1>2, <1>4, <2>3 DEF Shaped, OnItsOwn
  <2>5. Linked(q)
    BY <1>2, <1>3, <1>9, <2>3 DEF Linked, AtSeat, Begun
  <2>6. Carries(p, q)
    BY <2>3 DEF Carries, NotStarted, OnItsOwn
  <2> QED BY <2>1, <2>2, <2>3, <2>4, <2>5, <2>6 DEF Becoming, Akin, Fit
<1> QED BY <1>1, <1>5, <1>6, <1>7, <1>8, <1>9 DEF Proper
\* Step 1 of net_client_receive.
LEMMA TcpDoneKeeps ==
  ASSUME IInv, NEW c \in Clients, cl[c].fd # NoConn, TcpDone(c), UNCHANGED relayVars PROVE IInv'
<1> DEFINE p == cl[c]
<1>1. p \in Program /\ Shaped(p) /\ Linked(p) /\ p.fd \in Conns /\ conn[p.fd].client = "open"
  BY ClientFacts
<1>2. p.hs = "tcp" /\ UNCHANGED <<up, inbox>>
  BY DEF TcpDone
<1>3. CASE Goes(c, [p EXCEPT !.hs = "http"]) /\ UNCHANGED conn
  <2> DEFINE r == [p EXCEPT !.hs = "http"]
  <2>1. r \in Program
    BY <1>1, OneField DEF Handshakes
  <2>2. /\ r.net = p.net /\ r.game = p.game /\ r.pend = p.pend /\ r.sim = p.sim /\ r.me = p.me
        /\ r.running = p.running /\ r.args = p.args /\ r.sub = p.sub
        /\ r.p1 = p.p1 /\ r.local = p.local /\ r.mine = p.mine /\ r.sent = p.sent
        /\ r.hs = "http" /\ r.fd = p.fd /\ r.slot = p.slot
        /\ r.opp = p.opp /\ r.yours = p.yours /\ r.winner = p.winner
    BY <1>1 DEF Program
  <2>3. Goes(c, r)
    BY <1>3
  <2> HIDE DEF r
  <2>4. Shaped(r)
    BY <1>1, <1>2, <2>2 DEF Shaped, OnItsOwn
  <2>5. Linked(r)
    BY <1>1, <2>2 DEF Linked, AtSeat, Begun
  <2>6. Fit(r) /\ Akin(p, r)
    BY <2>1, <2>2, <2>4, <2>5 DEF Fit, Akin, Carries, NotStarted, OnItsOwn
  <2>7. PICK q : Steps(c, q) /\ q.fd = cl[c].fd /\ q.slot = cl[c].slot
    BY <2>3, <2>6, FrameSteps
  <2> QED BY <1>2, <1>3, <2>7, QuietSteps
<1>4. CASE Goes(c, Broken(p)) /\ conn' = [conn EXCEPT ![p.fd].relay = "closed"]
  <2>1. Fit(Broken(p)) /\ Akin(p, Broken(p))
    BY BrokenFits DEF Becoming, IInv, ProgramInv
  <2>2. PICK q : Steps(c, q) /\ q.fd = cl[c].fd /\ q.slot = cl[c].slot
    BY <1>4, <2>1, FrameSteps
  <2>3. StepFacts
    BY <2>2, StepsFacts
  <2>4. conn \in [Conns -> ConnectionType] /\ cl \in [Clients -> Program]
        /\ up' \in [Conns -> Seq(Message)] /\ inbox' \in [Conns -> Seq(Message)]
    BY <1>2 DEF IInv, TypeOK, ConnectionType
  <2>5. /\ conn' \in [Conns -> ConnectionType]
        /\ \A k \in Conns : /\ conn'[k].by = conn[k].by /\ conn'[k].client = conn[k].client
                            /\ conn'[k].relay = IF k = p.fd THEN "closed" ELSE conn[k].relay
    <3>1. "closed" \in {"new", "open", "closed"}
      OBVIOUS
    <3>2. [conn[p.fd] EXCEPT !.relay = "closed"] \in ConnectionType
      BY <1>1, <2>4, <3>1 DEF ConnectionType
    <3>3. \A k \in Conns : conn'[k] = IF k = p.fd THEN [conn[p.fd] EXCEPT !.relay = "closed"] ELSE conn[k]
      BY <1>1, <1>4, <2>4
    <3>4. DOMAIN conn' = Conns /\ conn' = [k \in Conns |-> conn'[k]]
      BY <1>4, <2>4
    <3>5. \A k \in Conns : conn'[k] \in ConnectionType
      BY <2>4, <3>2, <3>3
    <3> DEFINE n == [conn[p.fd] EXCEPT !.relay = "closed"]
    <3>a. n.by = conn[p.fd].by /\ n.client = conn[p.fd].client /\ n.relay = "closed"
      BY <1>1, <2>4 DEF ConnectionType
    <3>b. \A k \in Conns : conn'[k] = IF k = p.fd THEN n ELSE conn[k]
      BY <3>3
    <3> HIDE DEF n
    <3>6. \A k \in Conns : /\ conn'[k].by = conn[k].by /\ conn'[k].client = conn[k].client
                           /\ conn'[k].relay = IF k = p.fd THEN "closed" ELSE conn[k].relay
      BY <3>a, <3>b
    <3> QED BY <3>4, <3>5, <3>6
  <2>6. \A d \in Clients : cl'[d].fd = cl[d].fd /\ cl'[d].slot = cl[d].slot
    BY <2>2, <2>4 DEF Steps, Moved
  <2>7. \A k \in Conns : Seated(k)' <=> Seated(k)
    BY <2>2 DEF Steps, Moved, Seated, Sits
  <2>8. ASSUME NEW k \in Conns PROVE UpFine(k)' /\ InboxFine(k)'
    <3>1. up'[k] = up[k] /\ inbox'[k] = inbox[k] /\ UpFine(k) /\ InboxFine(k)
      BY <1>2 DEF IInv, UpInv, InboxInv
    <3>2. UpFine(k)'
      BY <2>3, <2>6, <2>7, <3>1, UpFineKept DEF StepFacts
    <3>3. InboxFine(k)'
      BY <2>3, <3>1, InboxFineKept DEF StepFacts
    <3> QED BY <3>2, <3>3
  <2>9. \A k \in Conns :
          /\ conn'[k].by = conn[k].by /\ conn'[k].client = conn[k].client
          /\ conn[k].client = "new" => conn'[k].relay = conn[k].relay
          /\ conn'[k].relay = "new" => conn[k].relay = "new" /\ up'[k] = up[k] /\ inbox'[k] = inbox[k]
    BY <1>1, <1>2, <2>5
  <2> QED BY <2>2, <2>4, <2>5, <2>8, <2>9, SteadySteps
<1> QED BY <1>3, <1>4 DEF TcpDone

\* Step 3 of net_client_receive: the CLIENT_JOIN that follows it is the first message.
LEMMA UpgradedKeeps ==
  ASSUME IInv, NEW c \in Clients, cl[c].fd # NoConn, Upgraded(c), UNCHANGED relayVars PROVE IInv'
<1> DEFINE p == cl[c]
           r == [p EXCEPT !.hs = "open", !.net = "waiting"]
           m == [type |-> "JOIN", room |-> p.room, slot |-> p.slot]
<1>1. p \in Program /\ Shaped(p) /\ Linked(p) /\ p.fd \in Conns /\ conn[p.fd].client = "open" /\ conn[p.fd].by = c
  BY ClientFacts
<1>2. /\ p.hs = "http" /\ conn[p.fd].relay = "new" /\ Goes(c, r) /\ UNCHANGED inbox
      /\ conn' = [conn EXCEPT ![p.fd].relay = "open"]
      /\ up' = [up EXCEPT ![p.fd] = Append(@, m)]
  BY DEF Upgraded
<1>3. up[p.fd] = <<>> /\ inbox[p.fd] = <<>> /\ ~Seated(p.fd)
  BY <1>1, <1>2 DEF IInv, ConnInv
<1>4. r \in Program
  <2> DEFINE a == [p EXCEPT !.hs = "open"]
  <2>1. a \in Program
    BY <1>1, OneField DEF Handshakes
  <2>2. r = [a EXCEPT !.net = "waiting"]
    OBVIOUS
  <2> HIDE DEF a, r
  <2> QED BY <2>1, <2>2, OneField DEF Nets
<1>5. /\ r.net = "waiting" /\ r.game = p.game /\ r.pend = p.pend /\ r.sim = p.sim /\ r.me = p.me
      /\ r.running = p.running /\ r.args = p.args /\ r.sub = p.sub
      /\ r.p1 = p.p1 /\ r.local = p.local /\ r.mine = p.mine /\ r.sent = p.sent
      /\ r.hs = "open" /\ r.fd = p.fd /\ r.slot = p.slot
      /\ r.opp = p.opp /\ r.yours = p.yours /\ r.winner = p.winner
  BY <1>1 DEF Program
<1> HIDE DEF r
<1>6. Shaped(r)
  BY <1>1, <1>2, <1>5 DEF Shaped, OnItsOwn
<1>7. Linked(r)
  BY <1>1, <1>5 DEF Linked, AtSeat, Begun
<1>8. Fit(r) /\ Akin(p, r)
  BY <1>4, <1>5, <1>6, <1>7 DEF Fit, Akin, Carries, NotStarted, OnItsOwn
<1>9. PICK q : Steps(c, q) /\ q.fd = cl[c].fd /\ q.slot = cl[c].slot
  BY <1>2, <1>8, FrameSteps
<1>10. StepFacts
  BY <1>9, StepsFacts
<1>11. /\ conn \in [Conns -> ConnectionType] /\ cl \in [Clients -> Program]
       /\ up \in [Conns -> Seq(Message)] /\ inbox \in [Conns -> Seq(Message)]
  BY DEF IInv, TypeOK, ConnectionType
<1>12. PICK o : o = p.fd
  OBVIOUS
<1>13. m \in Message /\ m.type = "JOIN" /\ m.slot = p.slot
  <2>1. p.room \in Rooms \union {NoRoom} /\ p.slot \in Slots
    BY <1>1 DEF Program
  <2>2. m \in {[type |-> "JOIN", room |-> h, slot |-> s] : h \in Rooms \union {NoRoom}, s \in Slots}
    BY <2>1
  <2> QED BY <2>2 DEF Message
<1>14. PICK x : x = m
  OBVIOUS
<1>15. /\ conn' \in [Conns -> ConnectionType]
       /\ \A k \in Conns : /\ conn'[k].by = conn[k].by /\ conn'[k].client = conn[k].client
                           /\ conn'[k].relay = IF k = o THEN "open" ELSE conn[k].relay
  <3>1. "open" \in {"new", "open", "closed"} /\ o \in Conns
    BY <1>1, <1>12
  <3>2. [conn[o] EXCEPT !.relay = "open"] \in ConnectionType
    BY <1>11, <3>1 DEF ConnectionType
  <3>3. \A k \in Conns : conn'[k] = IF k = o THEN [conn[o] EXCEPT !.relay = "open"] ELSE conn[k]
    BY <1>2, <1>11, <1>12, <3>1
  <3>4. DOMAIN conn' = Conns /\ conn' = [k \in Conns |-> conn'[k]]
    BY <1>2, <1>11
  <3>5. \A k \in Conns : conn'[k] \in ConnectionType
    BY <1>11, <3>2, <3>3
  <3> DEFINE n == [conn[o] EXCEPT !.relay = "open"]
  <3>a. n.by = conn[o].by /\ n.client = conn[o].client /\ n.relay = "open"
    BY <1>11, <3>1 DEF ConnectionType
  <3>b. \A k \in Conns : conn'[k] = IF k = o THEN n ELSE conn[k]
    BY <3>3
  <3> HIDE DEF n
  <3>6. \A k \in Conns : /\ conn'[k].by = conn[k].by /\ conn'[k].client = conn[k].client
                         /\ conn'[k].relay = IF k = o THEN "open" ELSE conn[k].relay
    BY <3>a, <3>b
  <3> QED BY <3>4, <3>5, <3>6
<1>16. up' \in [Conns -> Seq(Message)] /\ up'[o] = <<x>> /\ \A k \in Conns : k # o => up'[k] = up[k]
  <2> HIDE DEF m
  <2>1. Append(<<>>, x) = <<x>> /\ <<x>> \in Seq(Message)
    BY <1>13, <1>14
  <2>2. up' = [up EXCEPT ![o] = <<x>>] /\ o \in Conns
    BY <1>1, <1>2, <1>3, <1>11, <1>12, <1>14, <2>1
  <2> QED BY <1>11, <2>1, <2>2
<1>17. cl'[c] = q /\ \A d \in Clients : d # c => cl'[d] = cl[d]
  BY <1>9, <1>11 DEF Steps, Moved
<1>18. \A d \in Clients : cl'[d].fd = cl[d].fd /\ cl'[d].slot = cl[d].slot
  BY <1>9, <1>17
<1>19. \A k \in Conns : Seated(k)' <=> Seated(k)
  BY <1>9 DEF Steps, Moved, Seated, Sits
<1>20. ASSUME NEW k \in Conns PROVE UpFine(k)'
  <2>1. CASE k # o
    <3>1. up'[k] = up[k] /\ inbox'[k] = inbox[k] /\ UpFine(k)
      BY <1>2, <1>16, <2>1 DEF IInv, UpInv
    <3> QED BY <1>10, <1>18, <1>19, <3>1, UpFineKept DEF StepFacts
  <2>2. CASE k = o
    <3>1. Len(up'[k]) = 1 /\ \A n \in 1..1 : up'[k][n] = x
      <4>1. Len(<<x>>) = 1 /\ <<x>>[1] = x /\ \A n \in 1..1 : n = 1
        OBVIOUS
      <4>2. up'[k] = <<x>>
        BY <1>16, <2>2
      <4> HIDE DEF m
      <4> QED BY <4>1, <4>2
    <3>2. \A d \in Clients : cl[d].fd = o => d = c
      BY <1>1, <1>12, Constants DEF IInv, ConnInv
    <3>3. ~Seated(k)' /\ inbox'[k] = <<>>
      BY <1>2, <1>3, <1>12, <1>19, <2>2
    <3>4. \A d \in Clients : cl'[d].fd = k => x.slot = cl'[d].slot
      <4>1. x.slot = p.slot
        BY <1>13, <1>14
      <4> QED BY <1>18, <2>2, <3>2, <4>1
    <3>5. x.type = "JOIN"
      BY <1>13, <1>14
    <3>6. JoinSound(k, x)'
      BY <3>3, <3>4, <3>5 DEF JoinSound
    <3> QED BY <3>1, <3>6 DEF UpFine, JoinSound
  <2> QED BY <2>1, <2>2
<1>21. ASSUME NEW k \in Conns PROVE InboxFine(k)'
  <2>1. inbox'[k] = inbox[k]
    BY <1>2
  <2> QED BY <1>10, <2>1, InboxFineKept DEF IInv, InboxInv, StepFacts
<1>22. \A k \in Conns :
         /\ conn'[k].by = conn[k].by /\ conn'[k].client = conn[k].client
         /\ conn[k].client = "new" => conn'[k].relay = conn[k].relay
         /\ conn'[k].relay = "new" => conn[k].relay = "new" /\ up'[k] = up[k] /\ inbox'[k] = inbox[k]
  BY <1>1, <1>2, <1>12, <1>15, <1>16
<1>23. inbox' \in [Conns -> Seq(Message)]
  BY <1>2, <1>11
<1> QED BY <1>9, <1>15, <1>16, <1>20, <1>21, <1>22, <1>23, SteadySteps

\* Step 4 of net_client_receive, for any number of messages.
LEMMA DrainKeeps ==
  ASSUME IInv, NEW c \in Clients, cl[c].fd # NoConn, Drain(c), UNCHANGED relayVars PROVE IInv'
<1> DEFINE p == cl[c]
<1>1. p \in Program /\ Fit(p) /\ p.fd \in Conns /\ conn[p.fd].client = "open"
  BY ClientFacts DEF IInv, ProgramInv
<1>2. PICK o : o = p.fd
  OBVIOUS
<1>3. /\ conn \in [Conns -> ConnectionType] /\ cl \in [Clients -> Program]
      /\ up \in [Conns -> Seq(Message)] /\ inbox \in [Conns -> Seq(Message)] /\ o \in Conns
  BY <1>1, <1>2 DEF IInv, TypeOK, ConnectionType
<1>4. PICK n \in 1..Len(inbox[o]) :
        /\ Goes(c, Dispatched(p, SubSeq(inbox[o], 1, n)))
        /\ inbox' = [inbox EXCEPT ![o] = SubSeq(@, n + 1, Len(@))]
  BY <1>2 DEF Drain
<1>5. UNCHANGED <<conn, up>>
  BY DEF Drain
<1> DEFINE ms == SubSeq(inbox[o], 1, n)
           G == {q \in Program : Becoming(p, q)}
<1>6. inbox[o] \in Seq(Message) /\ Len(inbox[o]) \in Nat
  BY <1>3
<1>7. Len(ms) = n /\ n \in Nat /\ \A j \in 1..n : j \in 1..Len(inbox[o]) /\ ms[j] = inbox[o][j]
  BY <1>6
<1>8. p \in G
  BY <1>1, BecomingFacts
<1>9. ASSUME NEW q \in G, NEW j \in 1..Len(ms) PROVE Dispatch(q, ms[j]) \in G
  <2>1. Fit(q) /\ q.fd = o /\ Becoming(p, q)
    BY <1>2 DEF Becoming, Akin
  <2>2. Delivers(o, ms[j])
    BY <1>3, <1>7 DEF IInv, InboxInv, InboxFine
  <2> HIDE DEF ms
  <2>3. Becoming(q, Dispatch(q, ms[j]))
    BY <1>3, <2>1, <2>2, DispatchFits
  <2>4. Becoming(p, Dispatch(q, ms[j])) /\ Dispatch(q, ms[j]) \in Program
    BY <2>1, <2>3, BecomingFacts DEF Becoming, Fit
  <2> QED BY <2>4
<1>10. Dispatched(p, ms) \in G
  <2> HIDE DEF ms, G
  <2> QED BY <1>7, <1>8, <1>9, DispatchedStays
<1>11. PICK q : Steps(c, q) /\ q.fd = cl[c].fd /\ q.slot = cl[c].slot
  BY <1>4, <1>10, FrameSteps DEF Becoming
<1>12. StepFacts
  BY <1>11, StepsFacts
<1>13. /\ inbox' \in [Conns -> Seq(Message)] /\ inbox[o] # <<>>
       /\ \A k \in Conns : k # o => inbox'[k] = inbox[k]
       /\ \A i \in 1..Len(inbox'[o]) : \E j \in 1..Len(inbox[o]) : inbox'[o][i] = inbox[o][j]
  <2> DEFINE t == SubSeq(inbox[o], n + 1, Len(inbox[o]))
  <2>1. t \in Seq(Message) /\ Len(t) = Len(inbox[o]) - n /\ \A i \in 1..Len(t) : t[i] = inbox[o][n + i]
    BY <1>6, <1>7
  <2>2. \A i \in 1..Len(t) : n + i \in 1..Len(inbox[o])
    BY <1>6, <1>7, <2>1
  <2>3. inbox' = [inbox EXCEPT ![o] = t]
    BY <1>3, <1>4
  <2>4. inbox[o] # <<>>
    BY <1>4
  <2> HIDE DEF t
  <2> QED BY <1>3, <2>1, <2>2, <2>3, <2>4
<1>14. \A d \in Clients : cl'[d].fd = cl[d].fd /\ cl'[d].slot = cl[d].slot
  BY <1>3, <1>11 DEF Steps, Moved
<1>15. \A k \in Conns : Seated(k)' <=> Seated(k)
  BY <1>11 DEF Steps, Moved, Seated, Sits
<1>16. ASSUME NEW k \in Conns PROVE UpFine(k)'
  <2>1. up'[k] = up[k] /\ UpFine(k) /\ (inbox[k] = <<>> => inbox'[k] = <<>>)
    BY <1>5, <1>13 DEF IInv, UpInv
  <2> QED BY <1>12, <1>14, <1>15, <2>1, UpFineKept DEF StepFacts
<1>17. ASSUME NEW k \in Conns PROVE InboxFine(k)'
  <2>1. \A i \in 1..Len(inbox'[k]) : \E j \in 1..Len(inbox[k]) : inbox'[k][i] = inbox[k][j]
    BY <1>13
  <2> QED BY <1>12, <2>1, InboxFineKept DEF IInv, InboxInv, StepFacts
<1>18. \A k \in Conns : conn'[k].relay = "new" => inbox'[k] = inbox[k] /\ up'[k] = up[k]
  BY <1>5, <1>13 DEF IInv, ConnInv
<1> QED BY <1>3, <1>5, <1>11, <1>13, <1>16, <1>17, <1>18, SteadySteps

\* The rest of a frame, whatever there is to read.
LEMMA FrameKeeps == ASSUME IInv, NEW c \in Clients, Frame(c) PROVE IInv'
<1>1. Fit(cl[c]) /\ UNCHANGED relayVars
  BY DEF IInv, ProgramInv, Frame
<1>2. ASSUME NEW r \in {cl[c], Broken(cl[c])}, Goes(c, r), UNCHANGED <<conn, up, inbox>> PROVE IInv'
  <2>1. Fit(r) /\ Akin(cl[c], r)
    BY <1>1, BrokenFits, BecomingFacts DEF Becoming
  <2>2. PICK q : Steps(c, q) /\ q.fd = cl[c].fd /\ q.slot = cl[c].slot
    BY <1>1, <1>2, <2>1, FrameSteps
  <2> QED BY <1>2, <2>2, QuietSteps
<1>3. CASE NothingToRead(c)
  BY <1>2, <1>3 DEF NothingToRead
<1>4. CASE EndOfStream(c)
  BY <1>2, <1>4 DEF EndOfStream
<1> QED BY <1>1, <1>3, <1>4, TcpDoneKeeps, UpgradedKeeps, DrainKeeps DEF Frame
-------------------------------------------------------------------------------
(***************************************************************************)
(* Steps of the relay and of the network.                                  *)
(***************************************************************************)
RoomsTyped ==
  /\ seat \in [Rooms -> [Slots -> Conns \union {NoConn}]]
  /\ state \in [Rooms -> {"unborn", "waiting", "active", "closed", "lost"}]
  /\ verdict \in [Rooms -> Slots \union {Undecided}]

\* A step that leaves the programs alone, after which rooms and messages are sound.
LEMMA RelaySteps ==
  ASSUME IInv, UNCHANGED cl, SeatsKept, RoomInv', RoomsTyped',
         conn' \in [Conns -> ConnectionType],
         up' \in [Conns -> Seq(Message)], inbox' \in [Conns -> Seq(Message)],
         \A k \in Conns : /\ conn'[k].by = conn[k].by /\ conn'[k].client = conn[k].client
                          /\ conn[k].client = "new" => conn'[k].relay = conn[k].relay
                          /\ conn'[k].relay = "new" =>
                               /\ conn[k].relay = "new" /\ up'[k] = up[k] /\ inbox'[k] = inbox[k]
                               /\ Seated(k)' => Seated(k),
         \A room \in Rooms, s \in Slots, d \in Clients :
           seat'[room][s] # seat[room][s] /\ cl[d].fd = seat'[room][s] => cl[d].slot = s,
         \A k \in Conns : UpFine(k)' /\ InboxFine(k)'
  PROVE  IInv'
<1>1. ChoicesKept
  BY DEF ChoicesKept
<1>2. TypeOK'
  BY DEF IInv, TypeOK, RoomsTyped, ConnectionType
<1>3. \A k \in Conns : conn'[k].relay = "new" =>
        conn[k].relay = "new" /\ up'[k] = <<>> /\ inbox'[k] = <<>> /\ ~Seated(k)'
  BY DEF IInv, ConnInv
<1>4. ConnInv' /\ FirstInv'
  <2>1. \A d \in Clients : Carries(cl[d], cl'[d])
    BY DEF Carries
  <2> QED BY <1>3, <2>1, SameConnections
<1>5. ASSUME NEW d \in Clients PROVE Fit(cl[d])'
  <2>1. PICK p : p = cl[d]
    OBVIOUS
  <2>2. Fit(p)
    BY <2>1 DEF IInv, ProgramInv
  <2>3. p.fd # NoConn => Linked(p)'
    BY <1>1, <2>1, <2>2, LinkKept DEF Fit
  <2>4. Fit(p)'
    BY <2>2, <2>3 DEF Fit
  <2> QED BY <2>1, <2>4 DEF Fit, Linked, Shaped, OnItsOwn, AtSeat, Begun, Sits, ChosenBy, Seated
<1> QED BY <1>2, <1>4, <1>5 DEF IInv, ProgramInv, UpInv, InboxInv

\* An inbox to which sound messages are added.
LEMMA InboxGrows ==
  ASSUME SeatsKept, ChoicesKept, NEW k \in Conns, InboxFine(k), inbox[k] \in Seq(Message),
         NEW ms \in Seq(Message), inbox'[k] = inbox[k] \/ inbox'[k] = inbox[k] \o ms,
         \A i \in 1..Len(ms) : Delivers(k, ms[i])'
  PROVE  InboxFine(k)'
<1> SUFFICES ASSUME NEW n \in 1..Len(inbox'[k]) PROVE Delivers(k, inbox[k][n])'
  BY DEF InboxFine
<1>1. PICK m : m = inbox'[k][n]
  OBVIOUS
<1>2. \/ n \in 1..Len(inbox[k]) /\ m = inbox[k][n]
      \/ \E i \in 1..Len(ms) : m = ms[i]
  <2>1. CASE inbox'[k] = inbox[k]
    BY <1>1, <2>1
  <2>2. CASE inbox'[k] = inbox[k] \o ms
    <3>1. /\ Len(inbox'[k]) = Len(inbox[k]) + Len(ms) /\ Len(inbox[k]) \in Nat /\ Len(ms) \in Nat
          /\ n <= Len(inbox[k]) => inbox'[k][n] = inbox[k][n]
          /\ n > Len(inbox[k]) => inbox'[k][n] = ms[n - Len(inbox[k])]
      BY <2>2
    <3>2. CASE n <= Len(inbox[k])
      BY <1>1, <3>1, <3>2
    <3>3. CASE n > Len(inbox[k])
      <4>1. n - Len(inbox[k]) \in 1..Len(ms)
        BY <3>1, <3>3
      <4> QED BY <1>1, <3>1, <3>3, <4>1
    <3> QED BY <3>1, <3>2, <3>3
  <2> QED BY <2>1, <2>2
<1>3. Delivers(k, m)'
  <2>1. CASE n \in 1..Len(inbox[k]) /\ m = inbox[k][n]
    <3>1. Delivers(k, m)
      BY <2>1 DEF InboxFine
    <3> QED BY <3>1, DeliversKept
  <2>2. ASSUME NEW i \in 1..Len(ms), m = ms[i] PROVE Delivers(k, m)'
    BY <2>2
  <2> QED BY <1>2, <2>1, <2>2
<1> QED BY <1>1, <1>3 DEF Delivers, Proper, Sits, ChosenBy

\* What the relay sends keeps the shape of the inboxes.
LEMMA ToldFacts ==
  ASSUME NEW msgs, Told(msgs), inbox \in [Conns -> Seq(Message)],
         \A j \in DOMAIN msgs : msgs[j] \in Seq(Message)
  PROVE  /\ inbox' \in [Conns -> Seq(Message)]
         /\ \A k \in Conns : \/ inbox'[k] = inbox[k]
                             \/ k \in DOMAIN msgs /\ Reaches(k) /\ inbox'[k] = inbox[k] \o msgs[k]
<1>1. \A k \in Conns : inbox'[k] = IF k \in DOMAIN msgs /\ Reaches(k) THEN inbox[k] \o msgs[k] ELSE inbox[k]
  BY DEF Told
<1>2. ASSUME NEW k \in Conns PROVE inbox'[k] \in Seq(Message)
  <2>1. CASE k \in DOMAIN msgs /\ Reaches(k)
    <3>1. PICK u \in Seq(Message), v \in Seq(Message) : u = inbox[k] /\ v = msgs[k]
      BY <2>1
    <3>2. u \o v \in Seq(Message)
      OBVIOUS
    <3>3. inbox'[k] = inbox[k] \o msgs[k]
      BY <1>1, <2>1
    <3> QED BY <3>1, <3>2, <3>3
  <2>2. CASE ~(k \in DOMAIN msgs /\ Reaches(k))
    <3>1. inbox'[k] = inbox[k]
      BY <1>1, <2>2
    <3> QED BY <3>1
  <2> QED BY <2>1, <2>2
<1>3. inbox' = [k \in Conns |-> inbox'[k]]
  BY DEF Told
<1>4. inbox' \in [Conns -> Seq(Message)]
  BY <1>2, <1>3
<1> QED BY <1>1, <1>4

\* The invariant, in the parts that the steps of the relay need.
LEMMA WorldFacts ==
  ASSUME IInv
  PROVE  /\ conn \in [Conns -> ConnectionType] /\ cl \in [Clients -> Program]
         /\ up \in [Conns -> Seq(Message)] /\ inbox \in [Conns -> Seq(Message)]
         /\ RoomsTyped /\ RoomInv /\ ConnInv
         /\ \A k \in Conns : UpFine(k) /\ InboxFine(k)
BY DEF IInv, TypeOK, ConnectionType, RoomsTyped, UpInv, InboxInv

\* The relay's end of a connection is closed.
LEMMA ClosedFacts ==
  ASSUME conn \in [Conns -> ConnectionType], NEW k \in Conns,
         conn' = [conn EXCEPT ![k].relay = "closed"]
  PROVE  /\ conn' \in [Conns -> ConnectionType]
         /\ \A j \in Conns : /\ conn'[j].by = conn[j].by /\ conn'[j].client = conn[j].client
                             /\ conn'[j].relay = IF j = k THEN "closed" ELSE conn[j].relay
<1> DEFINE n == [conn[k] EXCEPT !.relay = "closed"]
<1>1. "closed" \in {"new", "open", "closed"}
  OBVIOUS
<1>2. n \in ConnectionType
  BY <1>1 DEF ConnectionType
<1>3. n.by = conn[k].by /\ n.client = conn[k].client /\ n.relay = "closed"
  BY DEF ConnectionType
<1>4. conn' = [conn EXCEPT ![k] = n]
  OBVIOUS
<1> HIDE DEF n
<1> QED BY <1>2, <1>3, <1>4

\* The relay takes the first message of a connection.
LEMMA TailFacts ==
  ASSUME up \in [Conns -> Seq(Message)], NEW k \in Conns, NEW type, Takes(k, type)
  PROVE  /\ up' \in [Conns -> Seq(Message)] /\ \A j \in Conns : j # k => up'[j] = up[j]
         /\ Head(up[k]) = up[k][1] /\ Head(up[k]) \in Message /\ Head(up[k]).type = type
         /\ Len(up[k]) \in Nat /\ Len(up[k]) >= 1 /\ Len(up'[k]) = Len(up[k]) - 1
         /\ \A n \in 1..Len(up'[k]) : n + 1 \in 1..Len(up[k]) /\ up'[k][n] = up[k][n + 1]
         /\ conn[k].relay = "open"
<1>1. up[k] \in Seq(Message) /\ up[k] # <<>> /\ Head(up[k]).type = type /\ conn[k].relay = "open"
      /\ up' = [up EXCEPT ![k] = Tail(up[k])]
  BY DEF Takes
<1>2. PICK u \in Seq(Message) : u = up[k]
  BY <1>1
<1>3. /\ Head(u) = u[1] /\ Head(u) \in Message /\ Len(u) \in Nat /\ Len(u) >= 1
      /\ Tail(u) \in Seq(Message) /\ Len(Tail(u)) = Len(u) - 1
      /\ \A n \in 1..Len(Tail(u)) : Tail(u)[n] = u[n + 1]
  BY <1>1, <1>2
<1>4. \A n \in 1..Len(Tail(u)) : n + 1 \in 1..Len(u)
  BY <1>3
<1>5. up'[k] = Tail(u)
  BY <1>1, <1>2
<1>6. up' \in [Conns -> Seq(Message)] /\ \A j \in Conns : j # k => up'[j] = up[j]
  BY <1>1, <1>2, <1>3
<1> QED BY <1>1, <1>2, <1>3, <1>4, <1>5, <1>6

\* The relay dies.
LEMMA RelayDiesKeeps == ASSUME IInv, RelayDies PROVE IInv'
<1>1. /\ conn' = [k \in Conns |-> IF conn[k].relay = "open" THEN [conn[k] EXCEPT !.relay = "closed"] ELSE conn[k]]
      /\ state' = [r \in Rooms |-> IF state[r] \in {"waiting", "active"} THEN "lost" ELSE state[r]]
      /\ UNCHANGED <<cl, up, inbox, seat, verdict>>
  BY DEF RelayDies
<1>2. \A r \in Rooms : state'[r] = IF state[r] \in {"waiting", "active"} THEN "lost" ELSE state[r]
  BY <1>1
<1>3. SeatsKept /\ ChoicesKept
  BY <1>1, <1>2 DEF SeatsKept, Started, ChoicesKept
<1>4. RoomsTyped'
  <2>1. state' \in [Rooms -> {"unborn", "waiting", "active", "closed", "lost"}]
    BY <1>1, WorldFacts DEF RoomsTyped
  <2> QED BY <1>1, <2>1, WorldFacts DEF RoomsTyped
<1>5. RoomInv'
  BY <1>1, <1>2, WorldFacts DEF RoomInv, Sits
<1>6. /\ conn' \in [Conns -> ConnectionType]
      /\ \A k \in Conns : /\ conn'[k].by = conn[k].by /\ conn'[k].client = conn[k].client
                          /\ conn'[k].relay = IF conn[k].relay = "open" THEN "closed" ELSE conn[k].relay
  <2>1. ASSUME NEW k \in Conns
        PROVE  /\ conn'[k] \in ConnectionType /\ conn'[k].by = conn[k].by /\ conn'[k].client = conn[k].client
               /\ conn'[k].relay = IF conn[k].relay = "open" THEN "closed" ELSE conn[k].relay
    <3>1. conn[k] \in ConnectionType
      BY WorldFacts
    <3>2. conn'[k] = IF conn[k].relay = "open" THEN [conn[k] EXCEPT !.relay = "closed"] ELSE conn[k]
      BY <1>1
    <3>3. CASE conn[k].relay = "open"
      BY <3>1, <3>2, <3>3 DEF ConnectionType
    <3>4. CASE conn[k].relay # "open"
      BY <3>1, <3>2, <3>4 DEF ConnectionType
    <3> QED BY <3>3, <3>4
  <2>2. conn' = [k \in Conns |-> conn'[k]]
    BY <1>1
  <2>3. conn' \in [Conns -> ConnectionType]
    BY <2>1, <2>2
  <2> QED BY <2>1, <2>3
<1>7. \A k \in Conns : Seated(k)' <=> Seated(k)
  BY <1>1 DEF Seated, Sits
<1>8. ASSUME NEW k \in Conns PROVE UpFine(k)' /\ InboxFine(k)'
  <2>1. up'[k] = up[k] /\ inbox'[k] = inbox[k] /\ UpFine(k) /\ InboxFine(k)
    BY <1>1, WorldFacts
  <2>2. UpFine(k)'
    BY <1>1, <1>3, <1>7, <2>1, UpFineKept
  <2>3. InboxFine(k)'
    BY <1>3, <2>1, InboxFineKept
  <2> QED BY <2>2, <2>3
<1>9. \A k \in Conns :
         /\ conn'[k].by = conn[k].by /\ conn'[k].client = conn[k].client
         /\ conn[k].client = "new" => conn'[k].relay = conn[k].relay
         /\ conn'[k].relay = "new" =>
              conn[k].relay = "new" /\ up'[k] = up[k] /\ inbox'[k] = inbox[k] /\ (Seated(k)' => Seated(k))
  BY <1>1, <1>6, <1>7, WorldFacts DEF ConnInv
<1>10. up' \in [Conns -> Seq(Message)] /\ inbox' \in [Conns -> Seq(Message)]
  BY <1>1, WorldFacts
<1>11. UNCHANGED <<cl, seat>>
  BY <1>1
<1> QED BY <1>3, <1>4, <1>5, <1>6, <1>8, <1>9, <1>10, <1>11, RelaySteps
\* A connection has gone: its room is over, and the other side hears so.
LEMMA EndsKeeps ==
  ASSUME IInv, NEW k \in Conns, EndsRoomOf(k), UNCHANGED <<cl, up, seat>>,
         conn[k].client # "new", conn' = [conn EXCEPT ![k].relay = "closed"]
  PROVE  IInv'
<1>1. /\ conn' \in [Conns -> ConnectionType]
      /\ \A j \in Conns : /\ conn'[j].by = conn[j].by /\ conn'[j].client = conn[j].client
                          /\ conn'[j].relay = IF j = k THEN "closed" ELSE conn[j].relay
  BY WorldFacts, ClosedFacts
<1>2. \A j \in Conns : Seated(j)' <=> Seated(j)
  BY DEF Seated, Sits
<1>3. ChoicesKept
  BY DEF ChoicesKept
<1> DEFINE Rest ==
      /\ SeatsKept /\ RoomInv' /\ RoomsTyped' /\ inbox' \in [Conns -> Seq(Message)]
      /\ \A j \in Conns : InboxFine(j)' /\ (inbox'[j] # inbox[j] => Seated(j) /\ conn[j].relay # "new")
<1>4. ASSUME UNCHANGED <<state, verdict, inbox>> PROVE Rest
  <2>1. SeatsKept
    BY <1>4 DEF SeatsKept, Started
  <2>2. RoomInv' /\ RoomsTyped' /\ inbox' \in [Conns -> Seq(Message)]
    BY <1>4, WorldFacts DEF RoomInv, RoomsTyped, Sits
  <2>3. \A j \in Conns : InboxFine(j)'
    BY <1>3, <1>4, <2>1, WorldFacts, InboxFineKept
  <2>4. inbox' = inbox
    BY <1>4
  <2> QED BY <2>1, <2>2, <2>3, <2>4
<1>5. ASSUME NEW q \in Rooms, NEW t \in Slots, Sits(k, q, t), state[q] \in {"waiting", "active"},
             NEW room \in Rooms, NEW s \in Slots, Sits(k, room, s),
             state' = [state EXCEPT ![room] = "closed"],
             verdict' = [verdict EXCEPT ![room] = Opponent(s)],
             Told([j \in {seat[room][Opponent(s)]} |-> <<Notice, End(Opponent(s))>>])
      PROVE  Rest
  <2>1. room = q /\ Opponent(s) \in Slots
    BY <1>5, WorldFacts, Constants DEF RoomInv
  <2>2. /\ state'[room] = "closed" /\ verdict'[room] = Opponent(s)
        /\ \A r \in Rooms : r # room => state'[r] = state[r] /\ verdict'[r] = verdict[r]
    BY <1>5, WorldFacts DEF RoomsTyped
  <2>3. SeatsKept
    BY <1>5, <2>1, <2>2 DEF SeatsKept, Started
  <2>4. RoomInv'
    <3>1. \A r \in Rooms : state'[r] = state[r] \/ state'[r] = "closed"
      BY <2>2
    <3>2. seat' = seat
      OBVIOUS
    <3>3. RoomInv
      BY WorldFacts
    <3>4. \A r \in Rooms :
            /\ state'[r] = "unborn" => \A x \in Slots : seat'[r][x] = NoConn
            /\ state'[r] = "waiting" => \E x \in Slots : seat'[r][x] = NoConn
            /\ state'[r] = "active" => \A x \in Slots : seat'[r][x] # NoConn
      BY <3>1, <3>2, <3>3 DEF RoomInv
    <3> QED BY <3>2, <3>3, <3>4 DEF RoomInv, Sits
  <2>5. RoomsTyped'
    <3>1. state' \in [Rooms -> {"unborn", "waiting", "active", "closed", "lost"}]
      BY <1>5, WorldFacts DEF RoomsTyped
    <3>2. verdict' \in [Rooms -> Slots \union {Undecided}]
      BY <1>5, <2>1, WorldFacts DEF RoomsTyped
    <3> QED BY <3>1, <3>2, WorldFacts DEF RoomsTyped
  <2>6. PICK ms : ms = <<Notice, End(Opponent(s))>>
    OBVIOUS
  <2>7. ms \in Seq(Message) /\ Len(ms) = 2 /\ ms[1] = Notice /\ ms[2] = End(Opponent(s))
    <3>1. Notice \in Message /\ End(Opponent(s)) \in Message
      BY <2>1 DEF Message
    <3> QED BY <2>6, <3>1
  <2>8. PICK o : o = seat[room][Opponent(s)]
    OBVIOUS
  <2>9. /\ inbox' \in [Conns -> Seq(Message)]
        /\ \A j \in Conns : inbox'[j] = inbox[j] \/ (j = o /\ Reaches(j) /\ inbox'[j] = inbox[j] \o ms)
    <3> DEFINE told == [j \in {o} |-> ms]
    <3>1. Told(told)
      BY <1>5, <2>6, <2>8
    <3>2. DOMAIN told = {o} /\ \A j \in {o} : told[j] = ms
      OBVIOUS
    <3> HIDE DEF told
    <3>3. inbox \in [Conns -> Seq(Message)]
      BY WorldFacts
    <3>4. /\ inbox' \in [Conns -> Seq(Message)]
          /\ \A j \in Conns : \/ inbox'[j] = inbox[j]
                              \/ j \in DOMAIN told /\ Reaches(j) /\ inbox'[j] = inbox[j] \o told[j]
      BY <2>7, <3>1, <3>2, <3>3, ToldFacts
    <3> QED BY <3>2, <3>4
  <2>10. ASSUME NEW j \in Conns, j = o PROVE Seated(j) /\ Delivers(j, Notice)' /\ Delivers(j, End(Opponent(s)))'
    <3>1. Sits(j, room, Opponent(s)) /\ Sits(j, room, Opponent(s))'
      BY <2>8, <2>10 DEF Sits
    <3>2. Proper(Notice, room, Opponent(s))'
      BY DEF Proper, Notice, Waiting
    <3>3. Proper(End(Opponent(s)), room, Opponent(s))'
      BY <2>2 DEF Proper, End
    <3> QED BY <2>1, <3>1, <3>2, <3>3 DEF Seated, Delivers
  <2>11. ASSUME NEW j \in Conns PROVE InboxFine(j)'
    <3>1. CASE inbox'[j] = inbox[j]
      BY <1>3, <2>3, <3>1, WorldFacts, InboxFineKept
    <3>2. CASE j = o /\ inbox'[j] = inbox[j] \o ms
      <4>1. ASSUME NEW i \in 1..Len(ms) PROVE Delivers(j, ms[i])'
        <5>1. i = 1 \/ i = 2
          BY <2>7
        <5>2. PICK x : x = ms[i]
          OBVIOUS
        <5>3. x = Notice \/ x = End(Opponent(s))
          BY <2>7, <5>1, <5>2
        <5>4. Delivers(j, x)'
          BY <2>10, <3>2, <5>3
        <5> QED BY <5>2, <5>4
      <4>2. inbox[j] \in Seq(Message) /\ InboxFine(j)
        BY WorldFacts
      <4> QED BY <1>3, <2>3, <2>7, <3>2, <4>1, <4>2, InboxGrows
    <3> QED BY <2>9, <3>1, <3>2
  <2>12. \A j \in Conns : inbox'[j] # inbox[j] => Seated(j) /\ conn[j].relay # "new"
    BY <2>9, <2>10 DEF Reaches
  <2> QED BY <2>3, <2>4, <2>5, <2>9, <2>11, <2>12
<1> HIDE DEF Rest
<1>6. Rest
  BY <1>4, <1>5 DEF EndsRoomOf
<1>7. /\ SeatsKept /\ RoomInv' /\ RoomsTyped' /\ inbox' \in [Conns -> Seq(Message)]
      /\ \A j \in Conns : InboxFine(j)' /\ (inbox'[j] # inbox[j] => Seated(j) /\ conn[j].relay # "new")
  BY <1>6 DEF Rest
<1>8. ASSUME NEW j \in Conns PROVE UpFine(j)'
  <2>1. up'[j] = up[j] /\ UpFine(j)
    BY WorldFacts
  <2> QED BY <1>2, <1>3, <1>7, <2>1, UpFineKept
<1>9. \A j \in Conns :
         /\ conn'[j].by = conn[j].by /\ conn'[j].client = conn[j].client
         /\ conn[j].client = "new" => conn'[j].relay = conn[j].relay
         /\ conn'[j].relay = "new" =>
              conn[j].relay = "new" /\ up'[j] = up[j] /\ inbox'[j] = inbox[j] /\ (Seated(j)' => Seated(j))
  BY <1>1, <1>2, <1>7
<1>10. up' \in [Conns -> Seq(Message)] /\ UNCHANGED cl
  BY WorldFacts
<1> QED BY <1>1, <1>7, <1>8, <1>9, <1>10, RelaySteps

\* The client has closed its end.
LEMMA RelayHearsCloseKeeps == ASSUME IInv, NEW k \in Conns, RelayHearsClose(k) PROVE IInv'
BY EndsKeeps DEF RelayHearsClose

\* The network fails.
LEMMA LinkBreaksKeeps == ASSUME IInv, NEW k \in Conns, LinkBreaks(k) PROVE IInv'
BY EndsKeeps DEF LinkBreaks

\* CLIENT_LOADOUT: the only receiver is the opponent of the connection's seat.
LEMMA RelayForwardsKeeps == ASSUME IInv, NEW k \in Conns, RelayForwards(k) PROVE IInv'
<1> DEFINE D == {o \in Conns : \E r \in Rooms, s \in Slots :
                    Sits(k, r, s) /\ Sits(o, r, Opponent(s)) /\ state[r] = "active"}
<1>1. Takes(k, "LOADOUT") /\ UNCHANGED <<cl, conn, seat, state, verdict>>
      /\ Told([j \in D |-> <<Head(up[k])>>])
  BY DEF RelayForwards, relayVars
<1>2. /\ up' \in [Conns -> Seq(Message)] /\ \A j \in Conns : j # k => up'[j] = up[j]
      /\ Head(up[k]) = up[k][1] /\ Head(up[k]) \in Message /\ Head(up[k]).type = "LOADOUT"
      /\ Len(up[k]) \in Nat /\ Len(up[k]) >= 1 /\ Len(up'[k]) = Len(up[k]) - 1
      /\ \A n \in 1..Len(up'[k]) : n + 1 \in 1..Len(up[k]) /\ up'[k][n] = up[k][n + 1]
      /\ conn[k].relay = "open"
  BY <1>1, WorldFacts, TailFacts
<1>3. PICK h : h = Head(up[k])
  OBVIOUS
<1>4. SeatsKept /\ ChoicesKept /\ RoomInv' /\ RoomsTyped'
  BY <1>1, WorldFacts DEF SeatsKept, ChoicesKept, Started, RoomInv, RoomsTyped, Sits
<1>5. LoadoutSound(k, h) /\ h.loadout \in AllPacks
  <2>1. 1 \in 1..Len(up[k]) /\ UpFine(k)
    BY <1>2, WorldFacts
  <2>2. LoadoutSound(k, h)
    BY <1>2, <1>3, <2>1 DEF UpFine, JoinSound
  <2>3. h \in {[type |-> "LOADOUT", loadout |-> l] : l \in AllPacks}
    BY <1>2, <1>3 DEF Message, Waiting, Notice, Start, End
  <2> QED BY <2>2, <2>3
<1>6. PICK ms : ms = <<h>>
  OBVIOUS
<1>7. ms \in Seq(Message) /\ Len(ms) = 1 /\ ms[1] = h
  BY <1>2, <1>3, <1>6
<1>8. PICK dd : dd = D
  OBVIOUS
<1>9. /\ inbox' \in [Conns -> Seq(Message)]
      /\ \A j \in Conns : inbox'[j] = inbox[j] \/ (j \in dd /\ Reaches(j) /\ inbox'[j] = inbox[j] \o ms)
  <2> DEFINE told == [j \in dd |-> ms]
  <2>1. Told(told)
    BY <1>1, <1>3, <1>6, <1>8
  <2>2. DOMAIN told = dd /\ \A j \in dd : told[j] = ms
    OBVIOUS
  <2> HIDE DEF told, D
  <2>3. inbox \in [Conns -> Seq(Message)]
    BY WorldFacts
  <2>4. /\ inbox' \in [Conns -> Seq(Message)]
        /\ \A j \in Conns : \/ inbox'[j] = inbox[j]
                            \/ j \in DOMAIN told /\ Reaches(j) /\ inbox'[j] = inbox[j] \o told[j]
    BY <1>7, <2>1, <2>2, <2>3, ToldFacts
  <2> QED BY <2>2, <2>4
<1>10. ASSUME NEW j \in Conns, j \in dd PROVE Seated(j) /\ Delivers(j, h)'
  <2>1. PICK r \in Rooms, s \in Slots : Sits(k, r, s) /\ Sits(j, r, Opponent(s)) /\ state[r] = "active"
    BY <1>8, <1>10
  <2>2. Opponent(s) \in Slots /\ Opponent(Opponent(s)) = s
    BY Constants
  <2>3. Proper(h, r, Opponent(s))
    BY <1>5, <2>1, <2>2 DEF Proper, LoadoutSound, Sits
  <2>4. Delivers(j, h) /\ Seated(j)
    BY <2>1, <2>2, <2>3 DEF Delivers, Seated
  <2> QED BY <1>4, <2>4, DeliversKept
<1>11. ASSUME NEW j \in Conns PROVE InboxFine(j)'
  <2>1. CASE inbox'[j] = inbox[j]
    BY <1>4, <2>1, WorldFacts, InboxFineKept
  <2>2. CASE j \in dd /\ inbox'[j] = inbox[j] \o ms
    <3>1. \A i \in 1..Len(ms) : Delivers(j, ms[i])'
      BY <1>7, <1>10, <2>2
    <3>2. inbox[j] \in Seq(Message) /\ InboxFine(j)
      BY WorldFacts
    <3> QED BY <1>4, <1>7, <2>2, <3>1, <3>2, InboxGrows
  <2> QED BY <1>9, <2>1, <2>2
<1>12. \A j \in Conns : Seated(j)' <=> Seated(j)
  BY <1>1 DEF Seated, Sits
<1>13. ASSUME NEW j \in Conns PROVE UpFine(j)'
  <2>1. CASE j # k
    <3>1. up'[j] = up[j] /\ UpFine(j) /\ (~Seated(j) => inbox'[j] = inbox[j])
      BY <1>2, <1>9, <1>10, <2>1, WorldFacts
    <3> QED BY <1>1, <1>4, <1>12, <3>1, UpFineKept
  <2>2. CASE j = k
    <3>1. SUFFICES ASSUME NEW n \in 1..Len(up'[k]) PROVE LoadoutSound(k, up[k][n])'
      BY <2>2 DEF UpFine
    <3>2. PICK x : x = up'[k][n]
      OBVIOUS
    <3>3. n + 1 \in 1..Len(up[k]) /\ x = up[k][n + 1] /\ Len(up[k]) # 1
      BY <1>2, <3>2
    <3>4. UpFine(k)
      BY WorldFacts
    <3>5. LoadoutSound(k, x)
      BY <3>3, <3>4 DEF UpFine
    <3>6. LoadoutSound(k, x)'
      BY <1>4, <3>5, LoadoutKept
    <3> QED BY <3>2, <3>6 DEF LoadoutSound, ChosenBy
  <2> QED BY <2>1, <2>2
<1>14. \A j \in Conns :
         /\ conn'[j].by = conn[j].by /\ conn'[j].client = conn[j].client
         /\ conn[j].client = "new" => conn'[j].relay = conn[j].relay
         /\ conn'[j].relay = "new" =>
              conn[j].relay = "new" /\ up'[j] = up[j] /\ inbox'[j] = inbox[j] /\ (Seated(j)' => Seated(j))
  BY <1>1, <1>2, <1>9, <1>12 DEF Reaches
<1>15. UNCHANGED <<cl, seat, conn>> /\ conn' \in [Conns -> ConnectionType]
  BY <1>1, WorldFacts
<1> QED BY <1>2, <1>4, <1>9, <1>11, <1>13, <1>14, <1>15, RelaySteps
\* CLIENT_JOIN: the connection takes the seat it asks for, or is closed.
LEMMA RelayJoinsKeeps == ASSUME IInv, NEW k \in Conns, RelayJoins(k) PROVE IInv'
<1>1. Takes(k, "JOIN") /\ UNCHANGED <<cl, verdict>>
  BY DEF RelayJoins
<1>2. /\ up' \in [Conns -> Seq(Message)] /\ \A j \in Conns : j # k => up'[j] = up[j]
      /\ Head(up[k]) = up[k][1] /\ Head(up[k]) \in Message /\ Head(up[k]).type = "JOIN"
      /\ Len(up[k]) \in Nat /\ Len(up[k]) >= 1 /\ Len(up'[k]) = Len(up[k]) - 1
      /\ \A n \in 1..Len(up'[k]) : n + 1 \in 1..Len(up[k]) /\ up'[k][n] = up[k][n + 1]
      /\ conn[k].relay = "open"
  BY <1>1, WorldFacts, TailFacts
<1>3. PICK m : m = Head(up[k])
  OBVIOUS
<1>4. JoinSound(k, m) /\ Len(up[k]) = 1
  <2>1. 1 \in 1..Len(up[k]) /\ UpFine(k)
    BY <1>2, WorldFacts
  <2> QED BY <1>2, <1>3, <2>1 DEF UpFine, LoadoutSound
<1>5. m.slot \in Slots /\ m.room \in Rooms \union {NoRoom}
  <2>1. m \in {[type |-> "JOIN", room |-> r, slot |-> s] : r \in Rooms \union {NoRoom}, s \in Slots}
    BY <1>2, <1>3 DEF Message, Waiting, Notice, Start, End
  <2> QED BY <2>1
<1>6. ~Seated(k) /\ \A d \in Clients : cl[d].fd = k => m.slot = cl[d].slot
  BY <1>4 DEF JoinSound
<1>7. UpFine(k)'
  BY <1>2, <1>4 DEF UpFine
<1>8. ChoicesKept
  BY <1>1 DEF ChoicesKept
<1> DEFINE room == m.room  s == m.slot
<1>9. CASE /\ conn' = [conn EXCEPT ![k].relay = "closed"]
           /\ UNCHANGED <<seat, state, inbox>>
  <2>1. SeatsKept /\ RoomInv' /\ RoomsTyped'
    BY <1>1, <1>9, WorldFacts DEF SeatsKept, Started, RoomInv, RoomsTyped, Sits
  <2>2. /\ conn' \in [Conns -> ConnectionType]
        /\ \A j \in Conns : /\ conn'[j].by = conn[j].by /\ conn'[j].client = conn[j].client
                            /\ conn'[j].relay = IF j = k THEN "closed" ELSE conn[j].relay
    BY <1>9, WorldFacts, ClosedFacts
  <2>3. \A j \in Conns : Seated(j)' <=> Seated(j)
    BY <1>9 DEF Seated, Sits
  <2>4. ASSUME NEW j \in Conns PROVE UpFine(j)' /\ InboxFine(j)'
    <3>1. inbox'[j] = inbox[j] /\ UpFine(j) /\ InboxFine(j)
      BY <1>9, WorldFacts
    <3>2. UpFine(j)'
      <4>1. CASE j = k
        BY <1>7, <4>1
      <4>2. CASE j # k
        BY <1>1, <1>2, <1>8, <2>1, <2>3, <3>1, <4>2, UpFineKept
      <4> QED BY <4>1, <4>2
    <3>3. InboxFine(j)'
      BY <1>8, <2>1, <3>1, InboxFineKept
    <3> QED BY <3>2, <3>3
  <2>5. \A j \in Conns :
           /\ conn'[j].by = conn[j].by /\ conn'[j].client = conn[j].client
           /\ conn[j].client = "new" => conn'[j].relay = conn[j].relay
           /\ conn'[j].relay = "new" =>
                conn[j].relay = "new" /\ up'[j] = up[j] /\ inbox'[j] = inbox[j] /\ (Seated(j)' => Seated(j))
    BY <1>2, <1>9, <2>2, <2>3, WorldFacts DEF ConnInv
  <2>6. UNCHANGED <<cl, seat>> /\ inbox' \in [Conns -> Seq(Message)]
    BY <1>1, <1>9, WorldFacts
  <2> QED BY <1>2, <2>1, <2>2, <2>4, <2>5, <2>6, RelaySteps
<1>10. ASSUME room # NoRoom, state[room] \in {"waiting", "active"}, seat[room][s] = NoConn,
              seat' = [seat EXCEPT ![room][s] = k], UNCHANGED conn,
              \/ /\ seat[room][Opponent(s)] = NoConn
                 /\ Told([j \in {k} |-> <<Waiting>>]) /\ UNCHANGED state
              \/ /\ seat[room][Opponent(s)] # NoConn
                 /\ state' = [state EXCEPT ![room] = "active"]
                 /\ Told([j \in {k, seat[room][Opponent(s)]} |->
                           IF j = k THEN <<Waiting, Start(s)>> ELSE <<Start(Opponent(s))>>])
       PROVE  IInv'
  <2>1. room \in Rooms /\ s \in Slots /\ Opponent(s) \in Slots /\ Opponent(Opponent(s)) = s /\ Opponent(s) # s
    BY <1>5, <1>10, Constants
  <2>2. PICK o : o = seat[room][Opponent(s)]
    OBVIOUS
  <2>3. /\ seat' \in [Rooms -> [Slots -> Conns \union {NoConn}]] /\ seat'[room][s] = k
        /\ \A r \in Rooms, t \in Slots : r # room \/ t # s => seat'[r][t] = seat[r][t]
        /\ o \in Conns \union {NoConn}
    <3>1. seat \in [Rooms -> [Slots -> Conns \union {NoConn}]]
      BY WorldFacts DEF RoomsTyped
    <3> QED BY <1>10, <2>1, <2>2, <3>1
  <2>4. state[room] = "waiting"
    BY <1>10, <2>1, WorldFacts DEF RoomInv
  <2>5. /\ \A r \in Rooms : r # room => state'[r] = state[r]
        /\ state'[room] = IF o = NoConn THEN "waiting" ELSE "active"
        /\ state' \in [Rooms -> {"unborn", "waiting", "active", "closed", "lost"}]
    <3>1. state \in [Rooms -> {"unborn", "waiting", "active", "closed", "lost"}]
      BY WorldFacts DEF RoomsTyped
    <3> QED BY <1>10, <2>1, <2>2, <2>4, <3>1
  <2>6. SeatsKept
    <3>1. \A r \in Rooms : /\ Started(r) => Started(r)'
                           /\ state[r] = "closed" => state'[r] = "closed" /\ verdict'[r] = verdict[r]
      BY <1>1, <2>4, <2>5 DEF Started
    <3>2. ASSUME NEW r \in Rooms, NEW t \in Slots
          PROVE  /\ seat[r][t] # NoConn => seat'[r][t] = seat[r][t]
                 /\ seat'[r][t] # seat[r][t] => ~Seated(seat'[r][t])
      <4>1. CASE r # room \/ t # s
        <5>1. seat'[r][t] = seat[r][t]
          BY <2>3, <4>1
        <5> QED BY <5>1
      <4>2. CASE r = room /\ t = s
        <5>1. seat[r][t] = NoConn /\ seat'[r][t] = k
          BY <1>10, <2>3, <4>2
        <5> QED BY <1>6, <5>1
      <4> QED BY <4>1, <4>2
    <3> QED BY <3>1, <3>2 DEF SeatsKept
  <2>7. RoomsTyped'
    BY <1>1, <2>3, <2>5, WorldFacts DEF RoomsTyped
  <2>8. RoomInv'
    <3>0. RoomInv
      BY WorldFacts
    <3>1. ASSUME NEW r \in Rooms
          PROVE  /\ state'[r] = "unborn" => \A x \in Slots : seat'[r][x] = NoConn
                 /\ state'[r] = "waiting" => \E x \in Slots : seat'[r][x] = NoConn
                 /\ state'[r] = "active" => \A x \in Slots : seat'[r][x] # NoConn
      <4>1. CASE r # room
        <5>1. state'[r] = state[r] /\ \A x \in Slots : seat'[r][x] = seat[r][x]
          BY <2>3, <2>5, <4>1
        <5>2. /\ state[r] = "unborn" => \A x \in Slots : seat[r][x] = NoConn
              /\ state[r] = "waiting" => \E x \in Slots : seat[r][x] = NoConn
              /\ state[r] = "active" => \A x \in Slots : seat[r][x] # NoConn
          BY <3>0 DEF RoomInv
        <5> HIDE DEF room, s
        <5> QED BY <5>1, <5>2
      <4>2. CASE r = room
        <5>1. seat'[room][Opponent(s)] = o /\ \A x \in Slots : x = s \/ x = Opponent(s)
          BY <2>1, <2>2, <2>3, Constants
        <5>2. k # NoConn
          BY Constants
        <5>3. CASE o = NoConn
          BY <2>1, <2>5, <4>2, <5>1, <5>3
        <5>4. CASE o # NoConn
          BY <2>3, <2>5, <4>2, <5>1, <5>2, <5>4
        <5> QED BY <5>3, <5>4
      <4> QED BY <4>1, <4>2
    <3>2. ASSUME NEW j \in Conns, NEW q \in Rooms, NEW r \in Rooms, NEW t \in Slots, NEW u \in Slots,
                 seat'[q][t] = j, seat'[r][u] = j
          PROVE  q = r /\ t = u
      <4>1. CASE j = k
        <5>1. \A x \in Rooms, y \in Slots : seat[x][y] # k
          BY <1>6 DEF Seated, Sits
        <5> QED BY <2>3, <3>2, <4>1, <5>1
      <4>2. CASE j # k
        <5>1. seat[q][t] = j /\ seat[r][u] = j
          BY <2>3, <3>2, <4>2
        <5> QED BY <3>0, <5>1 DEF RoomInv, Sits
      <4> QED BY <4>1, <4>2
    <3> QED BY <3>1, <3>2 DEF RoomInv, Sits
  <2>9. Sits(k, room, s)' /\ (o # NoConn => Sits(o, room, Opponent(s))' /\ Seated(o) /\ o # k /\ o \in Conns)
    <3>1. seat'[room][Opponent(s)] = o
      BY <2>1, <2>2, <2>3
    <3>2. o # NoConn => Seated(o) /\ o \in Conns
      BY <2>1, <2>2, <2>3 DEF Seated, Sits
    <3> QED BY <1>6, <2>3, <3>1, <3>2 DEF Sits
  <2>10. Delivers(k, Waiting)' /\ (o # NoConn => Delivers(k, Start(s))' /\ Delivers(o, Start(Opponent(s)))')
    <3>1. o # NoConn => Started(room)'
      BY <2>5 DEF Started
    <3>2. Proper(Waiting, room, s)' /\ (o # NoConn => Proper(Start(s), room, s)' /\ Proper(Start(Opponent(s)), room, Opponent(s))')
      BY <3>1 DEF Proper, Waiting, Start
    <3> QED BY <2>1, <2>9, <3>2 DEF Delivers
  <2>11. PICK toK, toO : /\ toK = IF o = NoConn THEN <<Waiting>> ELSE <<Waiting, Start(s)>>
                         /\ toO = <<Start(Opponent(s))>>
    OBVIOUS
  <2>12. toK \in Seq(Message) /\ toO \in Seq(Message)
    <3>1. Waiting \in Message /\ Start(s) \in Message /\ Start(Opponent(s)) \in Message
      BY <2>1 DEF Message
    <3> QED BY <2>11, <3>1
  <2>13. /\ \A i \in 1..Len(toK) : Delivers(k, toK[i])'
         /\ o # NoConn => \A i \in 1..Len(toO) : Delivers(o, toO[i])'
    <3>1. ASSUME NEW i \in 1..Len(toK) PROVE Delivers(k, toK[i])'
      <4>1. PICK x : x = toK[i]
        OBVIOUS
      <4>2. x = Waiting \/ (o # NoConn /\ x = Start(s))
        <5>1. CASE o = NoConn
          BY <2>11, <4>1, <5>1
        <5>2. CASE o # NoConn
          <6>1. i = 1 \/ i = 2
            BY <2>11, <5>2
          <6> QED BY <2>11, <4>1, <5>2, <6>1
        <5> QED BY <5>1, <5>2
      <4>3. Delivers(k, x)'
        BY <2>10, <4>2
      <4> QED BY <4>1, <4>3
    <3>2. ASSUME o # NoConn, NEW i \in 1..Len(toO) PROVE Delivers(o, toO[i])'
      <4>1. toO[i] = Start(Opponent(s))
        BY <2>11
      <4>2. PICK x : x = toO[i]
        OBVIOUS
      <4>3. Delivers(o, x)'
        BY <2>10, <3>2, <4>1, <4>2
      <4> QED BY <4>2, <4>3
    <3> QED BY <3>1, <3>2
  <2>14. /\ inbox' \in [Conns -> Seq(Message)]
         /\ \A j \in Conns : \/ inbox'[j] = inbox[j]
                             \/ j = k /\ Reaches(j) /\ inbox'[j] = inbox[j] \o toK
                             \/ j = o /\ o # NoConn /\ Reaches(j) /\ inbox'[j] = inbox[j] \o toO
    <3> DEFINE told == IF o = NoConn THEN [j \in {k} |-> toK] ELSE [j \in {k, o} |-> IF j = k THEN toK ELSE toO]
    <3>1. Told(told)
      <4>1. CASE o = NoConn
        <5>1. toK = <<Waiting>> /\ told = [j \in {k} |-> toK]
          BY <2>11, <4>1
        <5>2. Told([j \in {k} |-> <<Waiting>>])
          BY <1>10, <2>2, <4>1
        <5> HIDE DEF told
        <5> QED BY <5>1, <5>2
      <4>2. CASE o # NoConn
        <5>1. toK = <<Waiting, Start(s)>> /\ toO = <<Start(Opponent(s))>>
              /\ told = [j \in {k, o} |-> IF j = k THEN toK ELSE toO]
          BY <2>11, <4>2
        <5>2. Told([j \in {k, o} |-> IF j = k THEN <<Waiting, Start(s)>> ELSE <<Start(Opponent(s))>>])
          BY <1>10, <2>2, <4>2
        <5> HIDE DEF told
        <5> QED BY <5>1, <5>2
      <4> QED BY <4>1, <4>2
    <3>2. /\ DOMAIN told \subseteq {k, o} /\ (o = NoConn => DOMAIN told = {k})
          /\ \A j \in DOMAIN told : told[j] = IF j = k THEN toK ELSE toO
      BY <2>9
    <3> HIDE DEF told
    <3>3. inbox \in [Conns -> Seq(Message)]
      BY WorldFacts
    <3>4. \A j \in DOMAIN told : told[j] \in Seq(Message)
      BY <2>12, <3>2
    <3>5. /\ inbox' \in [Conns -> Seq(Message)]
          /\ \A j \in Conns : \/ inbox'[j] = inbox[j]
                              \/ j \in DOMAIN told /\ Reaches(j) /\ inbox'[j] = inbox[j] \o told[j]
      BY <3>1, <3>3, <3>4, ToldFacts
    <3>6. ASSUME NEW j \in Conns
          PROVE  \/ inbox'[j] = inbox[j]
                 \/ j = k /\ Reaches(j) /\ inbox'[j] = inbox[j] \o toK
                 \/ j = o /\ o # NoConn /\ Reaches(j) /\ inbox'[j] = inbox[j] \o toO
      <4>1. j # NoConn
        BY Constants
      <4> QED BY <3>2, <3>5, <4>1
    <3> QED BY <3>5, <3>6
  <2>15. ASSUME NEW j \in Conns PROVE InboxFine(j)'
    <3>1. inbox[j] \in Seq(Message) /\ InboxFine(j)
      BY WorldFacts
    <3>2. CASE inbox'[j] = inbox[j]
      BY <1>8, <2>6, <3>1, <3>2, InboxFineKept
    <3>3. CASE j = k /\ inbox'[j] = inbox[j] \o toK
      BY <1>8, <2>6, <2>12, <2>13, <3>1, <3>3, InboxGrows
    <3>4. CASE j = o /\ o # NoConn /\ inbox'[j] = inbox[j] \o toO
      BY <1>8, <2>6, <2>12, <2>13, <3>1, <3>4, InboxGrows
    <3> QED BY <2>14, <3>2, <3>3, <3>4
  <2>16. \A j \in Conns : j # k => (Seated(j)' <=> Seated(j))
    <3>1. ASSUME NEW j \in Conns, j # k PROVE Seated(j)' => Seated(j)
      BY <2>3, <3>1 DEF Seated, Sits
    <3>2. ASSUME NEW j \in Conns PROVE Seated(j) => Seated(j)'
      BY <2>6, Constants DEF Seated, Sits, SeatsKept
    <3> QED BY <3>1, <3>2
  <2>17. ASSUME NEW j \in Conns PROVE UpFine(j)'
    <3>1. CASE j = k
      BY <1>7, <3>1
    <3>2. CASE j # k
      <4>1. up'[j] = up[j] /\ UpFine(j) /\ (~Seated(j) => inbox'[j] = inbox[j])
        BY <1>2, <2>9, <2>14, <3>2, WorldFacts
      <4> QED BY <1>1, <1>8, <2>6, <2>16, <3>2, <4>1, UpFineKept
    <3> QED BY <3>1, <3>2
  <2>18. \A j \in Conns :
           /\ conn'[j].by = conn[j].by /\ conn'[j].client = conn[j].client
           /\ conn[j].client = "new" => conn'[j].relay = conn[j].relay
           /\ conn'[j].relay = "new" =>
                /\ conn[j].relay = "new" /\ up'[j] = up[j] /\ inbox'[j] = inbox[j]
                /\ Seated(j)' => Seated(j)
    <3>1. conn' = conn
      BY <1>10
    <3>2. ASSUME NEW j \in Conns, conn[j].relay = "new" PROVE j # k /\ inbox'[j] = inbox[j]
      BY <1>2, <2>14, <3>2 DEF Reaches
    <3> QED BY <1>2, <2>16, <3>1, <3>2
  <2>19. \A r \in Rooms, t \in Slots, d \in Clients :
           seat'[r][t] # seat[r][t] /\ cl[d].fd = seat'[r][t] => cl[d].slot = t
    BY <1>6, <2>3
  <2>20. UNCHANGED cl /\ conn' \in [Conns -> ConnectionType]
    BY <1>1, <1>10, WorldFacts
  <2> HIDE DEF room, s
  <2> QED BY <1>2, <2>6, <2>7, <2>8, <2>14, <2>15, <2>17, <2>18, <2>19, <2>20, RelaySteps
<1> QED BY <1>3, <1>9, <1>10 DEF RelayJoins
-------------------------------------------------------------------------------
(***************************************************************************)
(* The invariant holds initially, and every step keeps it.                 *)
(***************************************************************************)
LEMMA WithArgumentsFits ==
  ASSUME NEW room \in Rooms, NEW s \in Slots
  PROVE  Fit(WithArguments(room, s)) /\ WithArguments(room, s).fd = NoConn
<1> DEFINE x == Configured(NewProgram, room, s)
           b == [x EXCEPT !.args = TRUE]
           d == [b EXCEPT !.pend = "none"]
           q == WithArguments(room, s)
<1>1. /\ x \in Program /\ x.fd = NoConn /\ x.hs = "idle" /\ x.net = "idle" /\ x.opp = NotHeard /\ x.slot = s
      /\ x.running = TRUE /\ x.game = "title" /\ x.sub = "setup" /\ x.local = FALSE /\ x.mine = Unset /\ x.sent = FALSE
  <2>1. /\ NewProgram.running = TRUE /\ NewProgram.game = "title" /\ NewProgram.sub = "setup"
        /\ NewProgram.local = FALSE /\ NewProgram.mine = Unset /\ NewProgram.sent = FALSE
    BY DEF NewProgram
  <2> HIDE DEF x
  <2>2. NewProgram \in Program
    BY NewProgramFits
  <2> QED BY <2>1, <2>2, ConfiguredFacts DEF x
<1>2. q = [d EXCEPT !.me = s]
  BY DEF WithArguments
<1> HIDE DEF x
<1>3. b \in Program
  <2>1. x \in Program /\ TRUE \in BOOLEAN
    BY <1>1
  <2> QED BY <2>1 DEF Program
<1>4. /\ b.args = TRUE /\ b.fd = NoConn /\ b.hs = "idle" /\ b.net = "idle" /\ b.opp = NotHeard /\ b.slot = s
      /\ b.running = TRUE /\ b.game = "title" /\ b.sub = "setup" /\ b.local = FALSE /\ b.mine = Unset /\ b.sent = FALSE
  BY <1>1 DEF Program
<1> HIDE DEF b
<1>5. d \in Program
  BY <1>3, OneField
<1>6. q \in Program
  <2> HIDE DEF d, q
  <2> QED BY <1>2, <1>5, OneField
<1>7. /\ q.args = TRUE /\ q.fd = NoConn /\ q.hs = "idle" /\ q.net = "idle" /\ q.opp = NotHeard /\ q.pend = "none"
      /\ q.slot = s /\ q.me = s
      /\ q.running = TRUE /\ q.game = "title" /\ q.sub = "setup" /\ q.local = FALSE /\ q.mine = Unset /\ q.sent = FALSE
  <2> HIDE DEF q
  <2> QED BY <1>2, <1>3, <1>4 DEF Program
<1> HIDE DEF q
<1>8. Shaped(q)
  BY <1>7 DEF Shaped, OnItsOwn
<1>9. Fit(q)
  BY <1>6, <1>7, <1>8 DEF Fit
<1> QED BY <1>7, <1>9 DEF q

\* A program that has played before.
LEMMA PlayedFits ==
  ASSUME NEW s \in Slots, NEW l \in AnyPack
  PROVE  Fit(Played(s, l)) /\ Played(s, l).fd = NoConn
<1> DEFINE q == Played(s, l)
           a1 == [NewProgram EXCEPT !.game = "results"]
           a2 == [a1 EXCEPT !.online = TRUE]
           a3 == [a2 EXCEPT !.hs = "closed"]
           a4 == [a3 EXCEPT !.me = s]
           a5 == [a4 EXCEPT !.yours = s]
           a6 == [a5 EXCEPT !.winner = s]
           a7 == [a6 EXCEPT !.opp = l]
           a8 == [a7 EXCEPT !.sim = <<l, l>>]
<1>0. <<l, l>> \in AnyPack \X AnyPack
  OBVIOUS
<1>1. q = a8
  BY DEF Played
<1>2. a3 \in Program
  <2>1. a1 \in Program
    BY NewProgramFits, OneField DEF Screens
  <2> HIDE DEF a1
  <2>2. a2 \in Program
    BY <2>1, OneField
  <2> HIDE DEF a2
  <2> QED BY <2>2, OneField DEF Handshakes
<1>3. a6 \in Program
  <2> HIDE DEF a3
  <2>1. a4 \in Program
    BY <1>2, OneField
  <2> HIDE DEF a4
  <2>2. a5 \in Program
    BY <2>1, OneField
  <2> HIDE DEF a5
  <2> QED BY <2>2, OneField
<1>4. a8 \in Program
  <2> HIDE DEF a6
  <2>1. a7 \in Program
    BY <1>3, OneField
  <2> HIDE DEF a7
  <2> QED BY <1>0, <2>1, OneField
<1>5. /\ q.args = FALSE /\ q.fd = NoConn /\ q.hs = "closed" /\ q.net = "idle" /\ q.pend = "lobby"
      /\ q.running = TRUE /\ q.game = "results" /\ q.sub = "setup" /\ q.local = FALSE /\ q.mine = Unset /\ q.sent = FALSE
  BY DEF Played, NewProgram
<1> HIDE DEF q, a8
<1>6. Shaped(q)
  BY <1>5 DEF Shaped, OnItsOwn
<1>7. Fit(q)
  BY <1>1, <1>4, <1>5, <1>6 DEF Fit
<1> QED BY <1>5, <1>7 DEF q

\* A program that has not.
LEMMA FreshFits == Fit(NewProgram) /\ NewProgram.fd = NoConn
<1>1. /\ NewProgram.running = TRUE /\ NewProgram.args = FALSE /\ NewProgram.game = "title"
      /\ NewProgram.pend = "lobby" /\ NewProgram.sub = "setup" /\ NewProgram.local = FALSE
      /\ NewProgram.mine = Unset /\ NewProgram.net = "idle" /\ NewProgram.hs = "idle"
      /\ NewProgram.fd = NoConn /\ NewProgram.opp = NotHeard /\ NewProgram.sent = FALSE
      /\ NewProgram.me = 0 /\ NewProgram.slot = 0
  BY DEF NewProgram
<1>2. Shaped(NewProgram)
  BY <1>1 DEF Shaped, OnItsOwn, Idle
<1> QED BY <1>1, <1>2, NewProgramFits DEF Fit

\* The three kinds of initial state.
LEMMA InitInv == Init => IInv
<1> SUFFICES ASSUME Init PROVE IInv
  OBVIOUS
<1>1. /\ conn = [k \in Conns |-> NewConn] /\ up = [k \in Conns |-> <<>>] /\ inbox = [k \in Conns |-> <<>>]
      /\ seat = [r \in Rooms |-> [s \in Slots |-> NoConn]] /\ verdict = [r \in Rooms |-> Undecided]
  BY DEF Init
<1>2. \A c \in Clients : Fit(cl[c]) /\ cl[c].fd = NoConn
  <2>1. CASE cl = [c \in Clients |-> NewProgram]
    BY <2>1, FreshFits
  <2>2. CASE cl = [c \in Clients |-> Played(Before[c], Stale)]
    <3>1. Stale \in AnyPack /\ \A c \in Clients : Before[c] \in Slots
      BY SessionAssumption DEF AnyPack
    <3>2. \A c \in Clients : cl[c] = Played(Before[c], Stale)
      BY <2>2
    <3>3. ASSUME NEW c \in Clients PROVE Fit(cl[c]) /\ cl[c].fd = NoConn
      <4>1. PICK s \in Slots : s = Before[c]
        BY <3>1
      <4>2. Fit(Played(s, Stale)) /\ Played(s, Stale).fd = NoConn
        BY <3>1, PlayedFits
      <4> QED BY <3>2, <4>1, <4>2
    <3> QED BY <3>3
  <2>3. ASSUME NEW room \in Rooms, cl = [c \in Clients |-> WithArguments(room, Before[c])]
        PROVE  \A c \in Clients : Fit(cl[c]) /\ cl[c].fd = NoConn
    <3>1. \A c \in Clients : Before[c] \in Slots
      BY SessionAssumption
    <3>2. \A c \in Clients : cl[c] = WithArguments(room, Before[c])
      BY <2>3
    <3> QED BY <3>1, <3>2, WithArgumentsFits
  <2> QED BY <2>1, <2>2, <2>3 DEF Init
<1>3. ProgramInv /\ \A c \in Clients : cl[c].fd = NoConn
  BY <1>2 DEF ProgramInv
<1>4. state \in [Rooms -> {"unborn", "waiting"}]
  BY DEF Init
<1>5. cl \in [Clients -> Program]
  <2>1. cl = [c \in Clients |-> cl[c]]
    BY DEF Init
  <2> QED BY <1>3, <2>1 DEF ProgramInv, Fit
<1>6. TypeOK
  <2>1. conn \in [Conns -> ConnectionType]
    BY <1>1 DEF NewConn, ConnectionType
  <2>2. up \in [Conns -> Seq(Message)] /\ inbox \in [Conns -> Seq(Message)]
    BY <1>1
  <2>3. RoomsTyped
    BY <1>1, <1>4 DEF RoomsTyped
  <2> QED BY <1>5, <2>1, <2>2, <2>3 DEF TypeOK, RoomsTyped, ConnectionType
<1>7. \A k \in Conns : ~Seated(k) /\ up[k] = <<>> /\ inbox[k] = <<>> /\ conn[k].client = "new" /\ conn[k].relay = "new"
       /\ conn[k].by = "nobody"
  BY <1>1, Constants DEF Seated, Sits, NewConn
<1>8. ConnInv
  BY <1>3, <1>7 DEF ConnInv
<1>11. FirstInv
  BY <1>3, <1>7, Constants, SessionAssumption DEF FirstInv
<1>9. RoomInv
  <2>1. \A r \in Rooms, s \in Slots : seat[r][s] = NoConn
    BY <1>1
  <2>2. \E s \in Slots : TRUE
    BY Constants
  <2> QED BY <1>4, <2>1, <2>2, Constants DEF RoomInv, Sits
<1>10. UpInv /\ InboxInv
  BY <1>7 DEF UpInv, UpFine, InboxInv, InboxFine
<1> QED BY <1>3, <1>6, <1>8, <1>9, <1>10, <1>11 DEF IInv

\* One step for every action.
LEMMA StepKeepsInv == IInv /\ [Next]_vars => IInv'
<1> SUFFICES ASSUME IInv, [Next]_vars PROVE IInv'
  OBVIOUS
<1>1. CASE UNCHANGED vars
  BY <1>1 DEF vars, IInv, TypeOK, ProgramInv, ConnInv, Held, FirstInv, FirstOf, RoomInv, UpInv, InboxInv, UpFine, InboxFine,
              LoadoutSound, JoinSound, Delivers, Proper, Fit, Linked, AtSeat, Started, Seated, Sits, ChosenBy
<1>2. ASSUME NEW c \in Clients, User(c) PROVE IInv'
  BY <1>2, NavigateKeeps, LocalPlayKeeps, JoinRoomKeeps, LeaveKeeps, StopSearchKeeps, LeaveTitleKeeps,
     ContinueKeeps, QuitKeeps, PickLoadoutKeeps DEF User
<1>3. ASSUME NEW c \in Clients, Starts(c) \/ User(c) \/ Frame(c) \/ CreateRoom(c) PROVE IInv'
  BY <1>2, <1>3, StartsKeeps, FrameKeeps, CreateRoomKeeps
<1>4. ASSUME NEW k \in Conns, RelayWorks(k) \/ LinkBreaks(k) PROVE IInv'
  BY <1>4, RelayJoinsKeeps, RelayForwardsKeeps, RelayHearsCloseKeeps, LinkBreaksKeeps DEF RelayWorks
<1> QED BY <1>1, <1>3, <1>4, RelayDiesKeeps DEF Next

\* The inductive invariant.
LEMMA AlwaysInv == Spec => []IInv
<1>1. Init => IInv
  BY InitInv
<1>2. IInv /\ [Next]_vars => IInv'
  BY StepKeepsInv
<1> QED BY <1>1, <1>2, PTL DEF Spec

-------------------------------------------------------------------------------
(***************************************************************************)
(* Every variable of the programs, of their connections and of the rooms   *)
(* keeps its shape, whatever the users press and whatever fails            *)
(* (fury-clash-client/src/main.c, network/net_client.c).                   *)
(***************************************************************************)
THEOREM TypeCorrect == Spec => []TypeOK
<1>1. IInv => TypeOK
  BY DEF IInv
<1> QED BY <1>1, AlwaysInv, PTL

(***************************************************************************)
(* A program holds every socket it opened and has not closed, but for one  *)
(* that main opened before the loop: net_client_configure, which resets    *)
(* the struct without a close, is reached with no other connection.        *)
(***************************************************************************)
THEOREM NoSocketLostAlways == Spec => []NoSocketLost
<1>1. IInv => NoSocketLost
  BY DEF IInv, ConnInv, Held, NoSocketLost
<1> QED BY <1>1, AlwaysInv, PTL

(***************************************************************************)
(* No CLIENT_LOADOUT is on its way to the relay while its sender's room    *)
(* still waits for an opponent, when handleMessage would drop it: the      *)
(* screen of the loadouts is shown only after START.                       *)
(***************************************************************************)
THEOREM NoLoadoutTooEarlyAlways == Spec => []NoLoadoutTooEarly
<1>1. ASSUME IInv, NEW r \in Rooms, NEW s \in Slots, NEW k \in Conns, Sits(k, r, s),
             NEW n \in 1..Len(up[k]), up[k][n].type = "LOADOUT"
      PROVE  state[r] # "waiting"
  <2>1. LoadoutSound(k, up[k][n])
    BY <1>1 DEF IInv, UpInv, UpFine, JoinSound
  <2> QED BY <1>1, <2>1 DEF LoadoutSound, Started
<1>2. IInv => NoLoadoutTooEarly
  BY <1>1 DEF NoLoadoutTooEarly
<1> QED BY <1>2, AlwaysInv, PTL

\* A program that fights against somebody agrees with its seat.
LEMMA FighterFacts ==
  ASSUME IInv, NEW c \in Clients, NEW r \in Rooms, NEW s \in Slots,
         cl[c].fd # NoConn, Sits(cl[c].fd, r, s)
  PROVE  /\ AtSeat(cl[c], r, s) /\ cl[c].sim \in AnyPack \X AnyPack
         /\ cl[c].game \in {"fight", "results"} => cl[c].me = s
         /\ cl[c].game = "fight" /\ ~cl[c].local => Begun(cl[c]) /\ cl[c].sub \in {"setup", "ready"}
         /\ cl[c].sub = "setup" => cl[c].mine = Unset /\ ~cl[c].sent
<1>1. cl[c] \in Program /\ Shaped(cl[c]) /\ Linked(cl[c])
  BY ClientFacts
<1>2. AtSeat(cl[c], r, s) /\ cl[c].sim \in AnyPack \X AnyPack
  BY <1>1 DEF Linked, Program
<1>3. /\ cl[c].game = "fight" /\ ~cl[c].local => Begun(cl[c]) /\ cl[c].sub \in {"setup", "ready"}
      /\ cl[c].sub = "setup" => cl[c].mine = Unset /\ ~cl[c].sent
  BY <1>1 DEF Shaped, Begun
<1>4. cl[c].game \in {"fight", "results"} => cl[c].me = s
  <2>1. CASE cl[c].local
    BY <1>1, <1>2, <2>1 DEF Shaped, OnItsOwn, AtSeat
  <2>2. CASE ~cl[c].local
    BY <1>1, <1>2, <2>2 DEF Shaped, Begun, AtSeat
  <2> QED BY <2>1, <2>2
<1> QED BY <1>2, <1>3, <1>4

(***************************************************************************)
(* A program that was told of an END shows the winner that the relay       *)
(* decided on, to the player in the slot that won: the results screen of   *)
(* main.c agrees with SERVER_END.                                          *)
(***************************************************************************)
THEOREM TrueResultAlways == Spec => []TrueResult
<1>1. IInv => TrueResult
  BY FighterFacts DEF TrueResult, AtSeat
<1> QED BY <1>1, AlwaysInv, PTL

(***************************************************************************)
(* Two programs in the same room that fight simulate the same fight: each  *)
(* is the fighter of its own seat and both began simulation_init with the  *)
(* same two loadouts, whoever made the room and in whatever order the      *)
(* loadouts came.                                                          *)
(***************************************************************************)
THEOREM SameFightAlways == Spec => []SameFight
<1>1. ASSUME IInv, NEW c \in Clients, NEW r \in Rooms, NEW s \in Slots, Fights(c, r, s)
      PROVE  /\ cl[c].me = s /\ cl[c].sim[s + 1] = cl[c].mine /\ cl[c].sub \in {"setup", "ready"}
             /\ cl[c].sub = "setup" => cl[c].sim = <<Unset, Unset>> /\ ~cl[c].sent
             /\ cl[c].sub = "ready" => ChosenBy(seat[r][Opponent(s)], cl[c].sim[Opponent(s) + 1])
             /\ cl[c].sim = <<cl[c].sim[1], cl[c].sim[2]>>
             /\ cl[c].fd # NoConn /\ seat[r][s] = cl[c].fd
  <2>1. cl[c].game = "fight" /\ cl[c].fd # NoConn /\ Sits(cl[c].fd, r, s) /\ ~cl[c].local
    BY <1>1 DEF Fights
  <2>2. /\ AtSeat(cl[c], r, s) /\ cl[c].sim \in AnyPack \X AnyPack
        /\ cl[c].sub = "setup" => cl[c].mine = Unset /\ ~cl[c].sent
        /\ cl[c].sub \in {"setup", "ready"} /\ Begun(cl[c])
    BY <1>1, <2>1, FighterFacts
  <2>3. cl[c].sub = "setup" => cl[c].sim = <<Unset, Unset>> /\ cl[c].sim[s + 1] = cl[c].mine
    <3>1. s + 1 = 1 \/ s + 1 = 2
      BY Constants
    <3> QED BY <2>2, <3>1 DEF AtSeat
  <2>4. cl[c].sim = <<cl[c].sim[1], cl[c].sim[2]>>
    BY <2>2
  <2> QED BY <2>1, <2>2, <2>3, <2>4 DEF AtSeat, Sits
<1>2. ASSUME IInv, NEW c \in Clients, NEW d \in Clients, NEW r \in Rooms, NEW s \in Slots, NEW t \in Slots,
             Fights(c, r, s), Fights(d, r, t), c # d
      PROVE  s # t /\ cl[c].sim = cl[d].sim
  <2>1. seat[r][s] = cl[c].fd /\ seat[r][t] = cl[d].fd /\ cl[c].fd # NoConn /\ cl[d].fd # NoConn
    BY <1>1, <1>2
  <2>2. s # t
    BY <1>2, <2>1 DEF IInv, ConnInv
  <2>3. t = Opponent(s) /\ s = Opponent(t)
    BY <2>2, Constants DEF Opponent
  <2>4. /\ cl[c].sub = "ready" => ChosenBy(cl[d].fd, cl[c].sim[t + 1])
        /\ cl[d].sub = "ready" => ChosenBy(cl[c].fd, cl[d].sim[s + 1])
    BY <1>1, <1>2, <2>1, <2>3
  <2>5. CASE cl[c].sub = "setup" \/ cl[d].sub = "setup"
    <3>1. cl[c].sub = "setup" /\ cl[d].sub = "setup"
      BY <1>1, <1>2, <2>4, <2>5 DEF ChosenBy
    <3>2. cl[c].sim = <<Unset, Unset>> /\ cl[d].sim = <<Unset, Unset>>
      BY <1>1, <1>2, <3>1
    <3> QED BY <2>2, <3>2
  <2>6. CASE cl[c].sub # "setup" /\ cl[d].sub # "setup"
    <3>0. cl[c].sub = "ready" /\ cl[d].sub = "ready"
      BY <1>1, <1>2, <2>6
    <3>1. cl[c].sim[t + 1] = cl[d].sim[t + 1]
      <4>1. ChosenBy(cl[d].fd, cl[c].sim[t + 1]) /\ cl[d].sim[t + 1] = cl[d].mine
        BY <1>1, <1>2, <2>4, <3>0
      <4> QED BY <4>1 DEF ChosenBy
    <3>2. cl[d].sim[s + 1] = cl[c].sim[s + 1]
      <4>1. ChosenBy(cl[c].fd, cl[d].sim[s + 1]) /\ cl[c].sim[s + 1] = cl[c].mine
        BY <1>1, <1>2, <2>4, <3>0
      <4> QED BY <4>1 DEF ChosenBy
    <3>3. (s + 1 = 1 /\ t + 1 = 2) \/ (s + 1 = 2 /\ t + 1 = 1)
      BY <2>2, Constants
    <3>4. cl[c].sim[1] = cl[d].sim[1] /\ cl[c].sim[2] = cl[d].sim[2]
      BY <3>1, <3>2, <3>3
    <3>5. cl[c].sim = <<cl[c].sim[1], cl[c].sim[2]>> /\ cl[d].sim = <<cl[d].sim[1], cl[d].sim[2]>>
      BY <1>1, <1>2
    <3> QED BY <2>2, <3>4, <3>5
  <2> QED BY <2>2, <2>5, <2>6
<1>3. IInv => SameFight
  BY <1>1, <1>2 DEF SameFight
<1> QED BY <1>3, AlwaysInv, PTL
===============================================================================
