# Fury Clash in TLA+

Fury Clash is an online fighting game: a C client (`fury-clash-client`) that
simulates the fight on each device with rollback, and a TypeScript server
(`fury-clash-server`) of an HTTP API, a matchmaker, a WebSocket relay and
workers, around Redis and Postgres. This directory holds TLA+ modules that
model the parts where steps of several actors interleave or fail, the
TLC configurations that check them, and proofs for TLAPS.

Every definition is read from the source; `PROJECT.json` (`map`) gives the
lines each one stands for.

## The system

| part | state it keeps | operations | works with |
|---|---|---|---|
| Relay room (`relay-server/relay-room.ts`, `input-log.ts`, `protocol.ts`) | state, two slots with a batch number each, input log, ping timer | attach, message, close, end, ping | its two WebSockets; `onEnd` calls the room manager |
| Room manager and process (`room-manager.ts`, `index.ts`, `disconnect-handler.ts`) | map of rooms, a set of their ids in Redis that nothing reads | `POST /rooms`, first message of a connection, end of a room, SIGTERM | matchmaker, clients, Postgres, job queues |
| Matchmaking (`routes/matchmaking.ts`, `matchmaker/*`) | per region a sorted set, per player an expiring key | join, leave, scan, create match | API and matcher share Redis; matcher posts to the relay |
| Ratings (`handleRoomEnd`, `matchmaker/elo.ts`, `workers/elo-worker.ts`) | player and match rows, a queue of jobs | persist the match, queue, compute and write | relay process, worker, Postgres |
| Client session (`main.c`, `core/state_machine.c`, `network/net_client.c`) | screen and pending screen, lobby, socket, what the relay has said | events, receive, screen logic, ticks | user, relay |
| Rollback engine (`network/rollback.c`, loop of `main.c`, `core/gameloop.c`) | ring of snapshots and inputs, divergence frame, frame counter | confirm, predict, save, rewind | simulation, inputs of the opponent |
| Gameplay simulation (`simulation.c`, `fighter.c`, `hitbox.c`, `physics.c`, `round.c`) | two fighters (place, speed, state, box, health), the round and its clock | one tick with the buttons of both | called by loop and rollback |
| The wire (`network/http_client.c`, frames of `network/net_client.c`) | descriptors, handshake, receive buffer, what was sent | `POST /rooms`, upgrade, receive, send, disconnect | relay, kernel, lobby |
| Input devices (`input/*.c`) | bits of the keyboard, the gamepad in use, the joystick | three event handlers, one combination per tick | SDL, main loop |
| Shop (`routes/shop.ts`) | items, balances, unlocks | `POST /purchase` | Postgres |
| Rendering, audio, platform | device state | draw, play | main loop |
| Accounts, profiles, leaderboard, replays, analytics | database rows | one request or job each | Postgres |

What is hard in it, and what makes each part correct:

- *Relay.* A socket that is no longer OPEN whose `close` event has not come;
  two sockets closing in either order, before or during the match; a second
  first message; the process dying. Correct: what one side sends the other
  hears, in order and without gaps; each side hears WAITING, START, traffic,
  the notice and the result in that order; exactly one verdict, against a
  player who has gone; who stays hears it; the log has every input; the map leads to
  live rooms, under whatever ids they were posted, and timers run while matches do.
- *Matchmaking.* Every Redis command is awaited, so a join, a leave, an expiry
  and a scan come between any two commands of each other. `setInterval` starts a scan
  while the last one may still be under way, and any of them can break off. Correct: one
  join, one match at most (false, see below), and at least never two from scans that do not
  overlap; only players whose ratings may meet after they have waited as long as they have;
  nothing stays behind in the sorted sets; nobody is shut out as "already queued" for good;
  every room is published, but for those a failure took.
- *Ratings.* Ends of rooms and jobs interleave, calls fail, jobs are delivered
  again. Correct: the winner gains, games, wins and losses add up, each match
  counts once (but for redelivery), a rating moves by what the match was worth
  unless another match of the player was rated between read and write.
- *Client session.* The user, the relay, the opponent and the screens move
  independently, and what one session leaves behind is there in the next.
  Correct: no socket is lost (but one, see below), both programs fight the same fight, no loadout
  is sent where it would be dropped, a fight ends when its room or connection does,
  and the result shown is the relay's verdict.
- *Wire.* TCP cuts the stream anywhere, the kernel takes a part of a frame, a
  whole frame can be left in the buffer when nothing more comes, every call can
  fail. Correct: frames are dispatched once, in order and without waiting for more;
  what goes up is whole frames; a request that succeeded has made a room and
  leaves no descriptor behind.
- *Input devices.* Events lag behind the devices, two keys share a bit, fingers
  take the joystick over from one another, gamepads come and go. Correct: no
  button without somebody holding it; the gamepad in use is there; only what a
  user really holds can make the relay refuse an input.
- *Shop.* Purchases of one player interleave, fail and are sent again. Correct:
  every coin gone is paid for something owned, once; a balance falls below zero
  only if the check was overtaken.
- *Rollback.* Inputs are confirmed before, at or long after their frame, the
  ring wraps and is not cleared between matches. Correct: the right frame to
  rewind to, a ring that holds the present, and a state made of the inputs pressed.
- *Gameplay.* A tick works on two fighters one after the other, and what a punch,
  a landing, a wall or a hit leaves behind meets the next one. Correct: nobody
  crosses over, a box is on only in the window of its punch, health, knock-out
  and the end of the round belong to one tick, and the round goes to the right player.

## Modules

| module | models | state and actions |
|---|---|---|
| `InputLog` | `input-log.ts` | operators on log values: `RecordInput`, `Upsert` |
| `RelayRoom` | `relay-room.ts` | `Attach`, `HandleInput`, `HandleLoadout`, `SendPing`, `HandleClose` on `state`, `slots`, `seq`, `log`, `pingTimer` and the sockets `ws` with all that was sent on them (`out`) |
| `RelayServer` | `room-manager.ts`, `index.ts`, EXTENDS `RelayRoom` | `CreateRoom`, `Connect`, `Join`, the refusals, `CloseEvent`, `Crash`, `InputOverflow`: the specification of the relay |
| `Duel` | what the relay promises of a match | abstract: `Begin`, `Leave`, `Say`, `Decide`, `Blackout` |
| `RelayRefinement` | refinement of `Duel` by `RelayServer` | `ImplementsDuel` |
| `Matchmaking` | the queue handlers and the scan | one action per Redis command, for any number of scans side by side; time and expiry; scans, requests and POSTs that fail (`MaxFailures`) |
| `Ratings` | from `handleRoomEnd` to the transaction | one action per awaited call; `JobFails`, `WorkerDies`, redelivery |
| `ClientSession` | two programs, with the lobby or started with arguments, and the relay as they see it | an action per event of the user; `Frame` is the rest of an iteration of the main loop; `CreateRoom` the iteration that blocks in `POST /rooms`; the relay's handlers reduced |
| `Rollback` | two engines with their game loops | `FightTick`, `IdleTick`, `Deliver`, `BeginFight`, `LeaveFight`, `BothReady` |
| `Fight` | the gameplay simulation | `Tick`: all of `simulation_tick` for any buttons, on `fighters` and `round`; an operator per function (`Moved`, `Attacking`, `Hits`, `Struck`, `PushedApart`, `RoundTicked`) |
| `Wire` | the bytes between a program and the relay | a step per `send`, `recv` and turn of the loops: `PostStarts` to `PostEnds`, `TcpDone`, `Recv`, `Parse`, `Says`, `Leaves`; the relay and the network |
| `InputDevices` | `input/*.c` | devices that act at any time and fill SDL's queue; `HandleEvent` empties it; `Local` is the input of a tick |
| `Shop` | `POST /purchase` | one action per database call; failing calls, a dying API, changing prices |
| `RelayServerProofs`, `RollbackProofs`, `FightProofs`, `MatchmakingProofs`, `DatabaseProofs` (of `Ratings` and `Shop`), `ClientSessionProofs`, `InputDevicesProofs`, `WireProofs` | theorems and proofs | |
| `MC*` | instances for TLC | values of constants |

How they fit: `RelayServer` composes rooms, map and sockets. `ClientSession`
and `Rollback` take from the relay what `RelayServer` establishes
(`FaithfulRelay`: order kept, no loss while open; `ProtocolOrder`; `VerdictSound`)
instead of repeating it. `Rollback` keeps of the simulation only that it is a
function of its inputs; `Fight` is that function. `Ratings` starts where `HandleRoomEnd` of
`RelayServer` stops, `RelayServer.CreateRoom` where `PostRoom` of `Matchmaking`
does. `Wire` lies under `ClientSession`: it shows that a connection may be taken
as a queue of whole messages (`InOrder`, `Delivered`) and a successful request as
a room that exists (`PostSound`). `InputDevices` makes the buttons that `Rollback` and
`Fight` take for any.

Granularity. In Node a handler runs to its next `await`, so that is a step: all
of a relay handler, one command of a queue handler or of `handleRoomEnd`. In
the client an event handler is a step and the rest of a frame is another,
because the user's events of a frame come before the socket is read. Messages
are values; JSON and validation appear as what they accept (an input with two
opposite directions is rejected), and framing is a module of its own. Batches have
one input each, as `flush` runs after every push. History variables (`accepted`, `out`; `published`, `orphans` and the `ticket` of an entry;
`pressed`, `missed`, `touched`; `passed`) are marked as such in
the modules and guard nothing but the bounds.

## Runs

| run | question | bounds, and why they suffice |
|---|---|---|
| `relay` | `FaithfulRelay`, `ProtocolOrder`, `VerdictSound`, `LogComplete`, `RegistrySound`, `OneSeat`, `StayerHearsResult`, and `ImplementsDuel` | two rooms that share their id, three connections of two players (one comes back, or tries twice), one input of the one side and three of the other with two batches before the number overflows, legal and illegal inputs, a loadout, pings (`MaxTraffic` 3), crashes. `Bound` gives one room with two connections all of that traffic, and a second room or a third connection a little of it: a second batch can be lost, doubled or overtaken; a seat is raced for, reused or replaced in the map. Frames of the two sides start one apart, so that the log is built out of order |
| `mm_live` | `OneRoomPerScanner`, `PairsSound`, `GhostsSwept`, `EntryEnds`, `RoomsAnnounced` | two scans that overlap, two players who fit after a tick of waiting, two requests of one player, which may overlap, and one of the other (each a join or a leave), one failure of a scan, a request or a POST at any place, a time to live of 2 and 3 ticks: entries expire within the run, also while a join is still writing. `Bound`: the other player's request is over before, as handlers of different players touch different keys. One region; the proofs cover several |
| `mm_tickets` | refutes `OneRoomPerTicket` | two scans, two joins, nothing fails |
| `rb_engine` | `ExactWhileNeutral`, `DivergeEarliest` | ring of 2, frames up to 3, two matches: the ring wraps within a match and is dirty in the second; the proofs cover other sizes |
| `rb_rewind` | refutes `OwnInputsKept` | ring of 4, one match: no wrap is needed |
| `ratings_jobs` | `WinnerGains`, `GamesAddUp`, `CountedOnce`, `RatingMovesByDelta` | three matches among three players and a guest without a row, one worker as deployed, one death, any call failing; a player about to be established and one near the floor, so both K factors and the clamp occur; two matches share a player: its second match is read before, while or after the first is rated |
| `client_screens` | `NoSocketLost`, `SameFight`, `TrueResult`, `NoLoadoutTooEarly`, `FightEnds` | two programs: fresh, or after an earlier session in the other slot with another loadout, or started with arguments for a room that was made before; one room, two sockets; failing requests and links, a dying relay. `Bound`: local play only while no room exists; of two programs with arguments one comes to the lobby, while the other has not connected, which is enough for it to lose its first socket and join a room with the second |
| `fight` | `SidesKept`, `BoxInWindow`, `KoEndsRound`, `WinnerNotBehind` | a stage a little wider than a body, so that both walls and the push matter from the start; a jump of 7 ticks, in which both punches can start, hit and be cut off by the landing; a fire and a frost pack; a round of 8 ticks, in which a knock-out and a time-out both occur; the simulation goes on after it. The proofs cover every size |
| `fight_mirror` | refutes `BoxAhead` | the same instance |
| `devices` | `NoGhostButtons`, `PadServed`, `OnlyOpposedRefused` | three keys of which two share a bit, two gamepads with one button, each of which may fail to open, two fingers and two places in the joystick's zone, two events in the queue, no layout (as the program is) or one of 1280 x 720. The proofs cover every size |
| `wire` | `InOrder`, `UpInStep`, `PostSound`, `Delivered` | frames of two and three bytes, a receive buffer of four and room for three in the kernel: frames arrive cut anywhere, two in one read, a buffer is full, a send is taken in parts or broken off; three frames down, two up, two attempts to make a room |
| `shop` | `CoinsAddUp`, `PaidOnce`, `OverdrawnOnlyIfStale` | one player with 3 coins who asks for one item twice and for another, prices of 2 and 3 that change, any call failing, a dying API: its coins pay for either, not for both |

That makes 12 runs. `mm_tickets`, `rb_rewind` and `fight_mirror` are expected to fail: see below. The expectation `Expected` of the Elo formula is a table in thousandths in the
instances (TLC has no reals); K factors, rounding (halves up, as `Math.round`) and the floor are the
code's. `InputOverflow` never needs 65536 inputs because `SeqLimit` is a constant.
`CHECK_DEADLOCK FALSE` stands where the system may stop: all rooms closed and
no connection left, all requests answered, all matches rated, all frames played,
both windows closed, the connection gone.

### Fairness

- Relay: the WebSocket library emits `close` for every peer that is gone
  (`WF(CloseEvent)`). Clients owe nothing.
- Matchmaking: handlers that have begun go on, `setInterval` keeps starting
  scans and each of them goes on, `fetch` has a time limit, and time passes. A failed POST ends the
  making of that match, any other failure the handler or the scan; the next scan starts as before.
- Wire: every frame of the main loop calls `net_client_receive` (`WF(Receives)`).
  Nothing is assumed of `http_post`: it has no time limit and waits for ever for a
  relay that is silent.
- Client: the main loop goes round, and ticks come due, as
  `gameloop_should_tick` follows the clock (`WF(Frame)`: a frame that changes
  nothing is not a step); the relay takes what has arrived. Users owe nothing.
- Ratings, Rollback, Fight, InputDevices, Shop: none; all their properties are safety.

## Proofs

`RelayServerProofs` (assumptions `RoomAssumption`, `ServerAssumption`):

- `TypeCorrect`: one lemma per handler of a room, one step per action.
- `SeatsCorrect` (`OneSeat`): `OneSeat` is not inductive: a connection that
  still owes its first message could already sit, as far as it says. `SeatInv`
  adds that who sits is not awaited and not new, that unborn rooms are
  empty and that the map leads to live rooms only.
- `RegistryCorrect` (`RegistrySound`) for any ids, fresh or not: `FindInv`, a live room is found under
  its id unless another room of that id was made. `KeepsFindable` covers the actions that
  neither make nor end a room; a room that ends takes out the entry of its id, whichever
  room that leads to.
- `VerdictCorrect` (`VerdictSound`): the interesting step is a close event that
  ends a room; `OtherRoomSilent` shows by `OneSeat` that it says nothing to
  the winners of other rooms.
- `ClosedRoomsStay` (`ClosedForGood`), from the type invariant.
- `LogCorrect` (`LogComplete`): what a room writes into its log must not lose what it wrote before.
  `RecordKeeps` says so of `RecordInput` for any log, provided that the same side does not send a
  frame twice; that is `ClockInv`, the frames a side sends increase. `SlotInv`: a slot
  is empty only before the match, so what a room accepts has a receiver.
- `RelayIsFaithful` (`FaithfulRelay`): the batches of an outbox are found by their rank, the number of
  batches up to them. `Ranked`, every rank up to the last is taken, is an invariant of outboxes:
  they only grow, by a batch of the next rank (`FurtherBatch`) or by something else
  (`OtherMessage`). `FaithInv` then says that the batches of a side are as many as `seq`, each with its number
  and its input.
- `HeardInOrder` (`ProtocolOrder`): `Heard` places every message of an outbox, the first, the
  second, the last two and the traffic between; an action adds traffic, the start or the end, and a
  room that has ended adds nothing.
- `RelayImplementsDuel` (`ImplementsDuel`) from all of these: what `RelayRefinement` reads from outboxes as
  heard is what `seq` and `accepted` say (`HeardAgrees`), so every action can be matched with a
  step of `Duel` on these (`BeginRefines` to `RestartRefines`) or with none (`StutterRefines`).

`RollbackProofs` (assumption `RollbackAssumption`):

- `TypeCorrect`, with the conjunct that a peer that is ready has a match left.
- `EarliestCorrect` (`DivergeEarliest`), inductive with the types.
- `ExactCorrect` (`ExactWhileNeutral`): `QuietInv`, while no button of the
  opponent was confirmed the ring predicts neutral everywhere, so nothing ever
  diverges, whatever lies in the ring from an earlier match.

`FightProofs` (assumptions `FightAssumption`, `SpeedAssumption`: four steps are shorter
than a body, and the fighters start a body apart; `ReachAssumption`: half a hurtbox
and the offset of a box are no longer than a body less four steps. With the numbers of the
code, 60 px, 200 px/s at 60 ticks, 30 px and at most 10 px, both hold):

- `SidesKeptAlways` (`SidesKept`) is not inductive: fighters who have not crossed may
  be close enough to cross in this tick. `Apart` says that after a tick a body less
  two steps is between them: two ticks take two steps more at most, and the push gives
  back at least half of what is missing even if a wall takes the other half
  (`PushedFacts`). That needs every speed bounded (`Slow`), knockback included.
- `PlayerTwoNeverHits` (`PlayerTwoHarmless`), with `Apart`: before the hits a body
  less four steps lies between the fighters, more than the box of a fighter
  who faces left sticks out (`BehindBack`).
- `BoxInWindowAlways` (`BoxInWindow`): with `Stunned`, who is stunned was hit; the landing is
  looked at between the move and the buttons (`Settled`).
- `TypeCorrect`, `KoEndsRoundAlways`, `WinnerNotBehindAlways`: `Running`, the timer is
  above 0 while the round goes on.

`MatchmakingProofs` (assumption `MatchmakingAssumption`: finitely many players):

- `TypeCorrect`, and `PairsSoundAlways` (`PairsSound`) for any number of scans that
  overlap, with `WaitInv`: who has waited long enough has so ever after. What a scan holds matters: `ScanInv`, the players of its entries, of the
  members it has still to read and of the pair it works on are all different. `AfterFacts`
  shows that taking two entries out of the sequence keeps that.
- `OneRoomPerScannerAlways` (`OneRoomPerScanner`) for any number of scanners, with every failure:
  `TicketInv` follows a join as one scanner sees it. Before its key is written it is nowhere; its
  key, the scan's entries and the scan's pair may hold it; when the scan posts the room, the key
  that it read is gone, even if it was rewritten or expired in between (`Removed`); and a join whose
  room this scanner has made is nowhere else in it. Another scanner may hold it all
  the while: that is the run `mm_tickets`.

`DatabaseProofs` (assumptions `RatingsAssumption`, `ShopAssumption`: finitely many players, matches and
requests; the theorems about matches also assume `ExpectedSound`, which is what is used of the curve of
`elo.ts`: between 0 and 1, and not for the lower rating):

- `WinnerGainsAlways` (`WinnerGains`) follows the winner and the two ratings from the end
  of the room through row and job to the transaction: `RowInv`, `JobInv`, and `RatedInv`, by which
  a job that is delivered twice writes the same. `RoundedFacts` and `DeltaFacts` are about the arithmetic: what
  the winner is worth does not round to nothing.
- `RatingMovesByDeltaAlways` (`RatingMovesByDelta`): `Current`, what was read of a player's row for a job
  is its present rating as long as the player has as many games as were read with it
  (`UpToDate`): every transaction adds one to the games and none takes one back.
- `GamesAddUpAlways` (`GamesAddUp`) and `CountedOnceAlways` (`CountedOnce`) are about sums over the players. `Single`, a
  match has one job at most, and `RoomIsOver`, its room has ended, so that no
  second job can be made; `CountInv`, every rated match is counted for two, and every
  job of a rated match that is still to be done again is owed to a death. A commit adds one game to
  each of two players and so two to the sum (`CommitCountsTwo`).
- `CoinsAddUpAlways` (`CoinsAddUp`): an answered purchase adds its price to the sum of a player's purchases and
  takes it from the balance (`CoinsPaid`).
- Sums are folds over sets, whose value takes an induction in general. `SumsAgree` and `SumsExist` do
  without: if there are subsets for which a statement fails, one of them is least (`LeastSubset`, by the
  library's theorem about strict subsets), and it fails for none. `SumOfMore` and `SumChanges` are
  what the proofs cite.
- `TypeCorrect`, with the floor, and `ShopTypeCorrect`.
- `PaidOnceAlways` (`PaidOnce`) and `OverdrawnOnlyIfStaleAlways` (`OverdrawnOnlyIfStale`) rest on
  `Exclusive` (whose transaction has updated a balance holds its row, and nobody has changed the
  balance since), `Checked` and `RowIsNew`.

`ClientSessionProofs` (assumption `SessionAssumption`, the kinds of the constants), for any number of programs,
rooms, sockets and loadouts:

- `NoSocketLostAlways` (`NoSocketLost`): `Shaped` says of a program by itself on which screens and
  in which states of the connection there is no socket, `ConnInv` that each socket open at the
  client is held by the program that opened it, or is the first of one with arguments. `FirstInv` has
  it that the socket such a program brings to the lobby is its first, as sockets are taken in
  order and a program that has not started has none; so a second one is never lost.
- `TrueResultAlways` (`TrueResult`) and `SameFightAlways` (`SameFight`): `AtSeat` says what a program has heard
  and chosen, given its seat: its slot, what START said, the winner, the two loadouts of the
  fight. It is inductive only with what is on the way: `InboxInv`, every message to a connection is
  `Proper` for its seat, and `UpInv`, a CLIENT_JOIN is alone and for the slot of its sender, a
  CLIENT_LOADOUT is the sender's choice. `SeatsKept` and `ChoicesKept` are what no step takes back, so
  `AtSeatKept`, `DeliversKept` and `LoadoutKept` carry the rest over every step of somebody else.
- `NoLoadoutTooEarlyAlways` (`NoLoadoutTooEarly`) is a part of `UpInv`.
- `Drain` handles any number of messages at once. `DispatchedStays`: a set that no message takes a program
  out of is not left by a sequence of messages. Its recursion is followed by a least counterexample
  (`LeastNat`, from the theorem that the order of the naturals is well founded), not by induction.
- `TypeCorrect`.

`InputDevicesProofs` (assumption `InputAssumption`): `NoGhostButtonsAlways`, `PadServedAlways`,
`OnlyOpposedRefusedAlways`. The properties speak of an empty queue; the invariant
(`KeyInv`, `PadInv`, `TouchInv`) says at every moment what the events still queued will make of
the program's state: the last event of a key's bit, a gamepad or a finger agrees with the device.

`WireProofs` (assumption `WireAssumption`: every frame the relay sends fits the receive buffer):

- `PostSoundAlways` (`PostSound`): `PostInv`, the descriptor is open exactly while a request is
  under way; `StatusFacts`, a status of success is read only of a whole response.
- `InOrderAlways` (`InOrder`) for frames of any size and pieces of any length. `Stream`: the bytes in the
  buffer and on their way are, together, the frames sent and not yet dispatched, each whole.
  `Room`: outside the loop the buffer is never full, so it is never emptied, because a full buffer
  begins with a whole frame. `StreamDrops` takes the next frame off a stream, `StreamAdds` adds one.
- `UpInStepAlways` (`UpInStep`): `SaidInv`, what the kernel took is what was said, unless a send was broken
  off, also of a frame in two parts (`PieceWhole`); `Handshake`, what was said so far follows from the state
  of the connection; `Once`, the relay answers the upgrade once. `WholeGrows`, from a least counterexample, is
  what `FlattenSeq` makes of one more frame.

In these modules but the last, which proves what it needs of the types on the way, the type
invariant is proved, and no run spends time on it.

A theorem states every safety and action property of the passing runs, and `ImplementsDuel`.
Only model-checked: the liveness properties (`StayerHearsResult`, `GhostsSwept`, `EntryEnds`,
`RoomsAnnounced`, `FightEnds`, `Delivered`), since TLAPS does not prove liveness under fairness here.

## Where code and text disagree

Shown by a run:

- `rb_rewind`: a rewind applies neutral inputs in place of the local player's,
  twice for the first frame, in player 1's place, from an entry that may never have been saved.
  The architecture text (109-111) has the frame correct afterwards.
- `mm_tickets`: the matcher's interval (`matchmaker/index.ts:15`) starts a scan while the last one
  may still be under way. Both read the same keys, `createMatch` does not look at what its
  deletions removed, and one join leads to two rooms. What does hold is `OneRoomPerScanner`.
- `fight_mirror`: `fighter_data.c:27` says a box is forward of the body and "flipped by facing in
  hitbox.c"; `hitbox.c:22` moves its corner and does not mirror it, so facing left
  it begins just before the body and runs behind it. `PlayerTwoNeverHits` proves what follows: no
  punch of player 2 ever lands.

Met while reading, without a run of its own:

- `relay-room.ts:129` counts batches without wrapping, `protocol.ts:93` writes the number in two
  bytes and throws at 65536; nothing catches it and the process ends with all its rooms
  (`InputOverflow` of `RelayServer`).
- A program started with arguments connects before its first frame and is on the title until that
  frame's tick. Return or space in that frame (`main.c:803`) replaces the search by the lobby with the
  socket open, and a room made or joined there forgets it without a close (`net_client.c:428`): the
  exception `NoSocketLost` states. If it has joined by then, the relay keeps its seat
  until the program ends.
- A job of the rating worker (`elo-worker.ts:27`) writes the rating that was computed from a read made
  when the room ended, and undoes a match that was rated in between: the exception
  `RatingMovesByDelta` states.
- "Atomic deduct coins + create unlock" (`shop.ts:36`): two purchases of different items can both pass
  the check of the balance, and it ends below zero (`OverdrawnOnlyIfStale`).
- `constants.ts:19` calls opposite directions impossible on a real controller; two keys, or two devices,
  make them. The relay drops such an input without a word (`relay-room.ts:97`), its sender has played it.
- `input_touch_layout_update` is never called: the joystick's zone is a point at the
  corner. `SDL_EVENT_FINGER_CANCELED` is handled nowhere: the joystick of a cancelled touch stays where it was.
- A second gamepad that was announced while the first was in use is not taken when the first is pulled out,
  and one that could not be opened when it was announced is not tried again.
- With `wss://` or without a scheme the lobby makes a room (`http_client.c` accepts it) and
  `parse_ws_url` then refuses the address (`main.c:122`).
- A room whose players never come is never removed and keeps its place under
  `maxRooms` (`room-manager.ts:57`). Pongs are ignored (`relay-room.ts:169`).
- START and END that come in one read leave a program in `LS_LOADOUT` or `GS_MATCH_SEARCH` with
  a state the screen does not look at.
- `ws_parse_frame` never returns the -1 its caller looks for.
- A fighter that is hit never leaves `FS_HIT` (`fighter.c:147`): it falls and slides but
  takes no more input, for the rest of the match. The architecture text leads
  from HIT by way of KNOCKDOWN and WAKEUP to IDLE.
- `hitbox.c:37` clears the box "so the hit only fires once per active window";
  `fighter.c:66-70` switches it on again at the next frame of the window.
- Knockback is always to the left (`fighter.c:144`), which is towards player 1.
- `round_start_next` has no caller: one round is played, so with two to win
  `match_over` is never set. A tie when the time is up goes to player 2.
- A fight that ends by a broken connection shows a winner the relay never
  named: `winner_slot` is the zero of `net_client_configure` (`main.c:639`,
  `net_client.h:23`).
- `disconnect-handler.ts:17-20` and the architecture text (13.2) promise a grace period
  and a reconnect; `start` is never called and a dropped player loses at once. No property
  asserts either: `StayerHearsResult` only has the one who stays told in the end.
- A player who leaves a room the opponent never entered makes `handleRoomEnd`
  persist a match; a draw (`types.ts`, winnerSlot -1) never occurs.
- A second room with the id of a live one replaces it in the map, and its end takes the entry of
  the first away (`SharesId` in `RegistrySound`).
- The set of room ids in Redis is written without waiting and without looking at failures
  (`room-manager.ts:66`, `:102`), and keeps the ids of rooms that were gone at a restart.
- The input log can hold two entries for one frame.
- A leave between the read and the removal of a scan is not noticed; two joins of one player may both
  be admitted; a key can stay without a place in the sorted set until it expires; players of a
  room whose POST was answered late, or whose scan broke off before the publish, are
  in neither queue nor match (`orphans`).
- `match:found` is published and nothing subscribes, although the architecture text (344) has both
  clients notified over WS: `RoomsAnnounced` is about the publish and no more. `match:room` and the
  rage-quit list have one side only.
- A prediction is not stored, so a frame predicted from its neighbour can be
  compared with an old remote input; frame counters of the two programs are not aligned.
- In `LS_LOADOUT` the lobby looks neither at NET_ENDED nor at NET_ERROR and
  Escape does nothing: if the opponent leaves there the program stays there.
- In local play `g_local_slot` keeps the value of the last session, and a local
  fight never leaves the fight screen.
- `ws_send` drops the rest of a frame of which it could send only a part (`net_client.c:212`), and what
  follows is out of step (`UpInStep` speaks of connections where that has not happened).

## Not modelled

- The set of room ids in Redis: nothing reads it.
- JSON and the contents of payloads; a frame longer than the receive buffer, which the relay never sends.
- A commit of a purchase whose answer is lost: the row is there and the client does not know.
- Of the gameplay: crouching, blocking and the moves on the ground, which no input reaches;
  lengths between two units of an instance; drawing. A rewind inside a `Fight` (`Rollback` has it).
- Rendering, audio, platform glue: output without state that anything reads.
- Accounts, profiles, leaderboard: one statement per request, guarded by unique indexes. Replays: the worker
  writes one row per job and the route reads it; analytics logs.
- `combo.c`, `special_moves.c`, `super.c`, `input_buffer.c`, `serializer.c`,
  `memory.c`, `timer.c`, `net_stats.c`: nothing calls them.
- `src/main.c`: an unrelated demo.

## Plan

Done, in this order: the relay (`RelayRoom`, `RelayServer`, `Duel`), matchmaking, rollback,
ratings, the client session, the gameplay; the start with arguments, the wire, the input devices
and the shop; theorems about all of them.

Left: several rooms in one life of a program, in the run of `ClientSession` (its proofs have any number).
