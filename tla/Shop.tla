--------------------------------- MODULE Shop ---------------------------------
(***************************************************************************)
(* POST /api/shop/purchase (api-server/routes/shop.ts): requests of the    *)
(* same and of other players, interleaved one database call at a time.     *)
(* Each call may fail, and the API process may die with all of them; a     *)
(* user whose request got no answer sends it again.                        *)
(*                                                                         *)
(* The database is external: PostgreSQL at its default isolation.  A call  *)
(* sees what is committed; an update locks the row until the transaction   *)
(* ends and computes a decrement from the row it has locked; the unique    *)
(* index of Unlock refuses a second row.  Items are put on the shelf,      *)
(* priced and taken down by nothing in this repository; nor are coins      *)
(* granted.  No name is shared with module Ratings, whose theorems stand   *)
(* in the same module as those of the shop.                                *)
(***************************************************************************)
EXTENDS Integers, FiniteSets, Functions

CONSTANTS
  Buyers, Items,
  Requests,     \* purchase requests
  By, Of,       \* request -> the player and the item it is for
  Prices,       \* what an item may cost
  Purse,        \* player -> the coins it starts with
  CallsFail     \* TRUE: calls fail, the process dies

Gone == -1      \* price of an item that is not there, or not active
Free == "free"  \* of a row that is not locked

ASSUME ShopAssumption ==
  /\ By \in [Requests -> Buyers] /\ Of \in [Requests -> Items] /\ Free \notin Requests
  /\ IsFiniteSet(Requests)
  /\ Prices \subseteq Nat /\ Purse \in [Buyers -> Nat] /\ CallsFail \in BOOLEAN

VARIABLES
  shelf,    \* item -> its price, or Gone
  coins,    \* player -> its balance, as committed
  unlocks,  \* rows of Unlock, as committed: <<player, item>> -> the request
  lock,     \* player -> the request that has its row locked
  at,       \* request -> how far it has come
  cost,     \* request -> item.coinCost as read
  seen,     \* request -> p.coins as read
  after     \* request -> the balance its transaction leaves

shopVars == <<shelf, coins, unlocks, lock, at, cost, seen, after>>

InTransaction == {"begun", "checked", "deducted", "created"}
Ended == {"bought", "refused", "failed"}

Row(r) == <<By[r], Of[r]>>
Owned == DOMAIN unlocks
NoRows == [x \in {} |-> Free]

ShopInit ==
  /\ shelf \in [Items -> Prices \union {Gone}]
  /\ coins = Purse /\ unlocks = NoRows
  /\ lock = [p \in Buyers |-> Free]
  /\ at = [r \in Requests |-> "new"]
  /\ cost = [r \in Requests |-> 0] /\ seen = cost /\ after = cost
-------------------------------------------------------------------------------
Goes(r, from, to) == at[r] = from /\ at' = [at EXCEPT ![r] = to]

\* shopItem.findUnique
ReadItem(r) ==
  /\ Goes(r, "new", IF shelf[Of[r]] = Gone THEN "refused" ELSE "found")
  /\ cost' = [cost EXCEPT ![r] = shelf[Of[r]]]
  /\ UNCHANGED <<shelf, coins, unlocks, lock, seen, after>>

\* unlock.findUnique
ReadUnlock(r) ==
  /\ Goes(r, "found", IF Row(r) \in Owned THEN "refused" ELSE "begun")
  /\ UNCHANGED <<shelf, coins, unlocks, lock, cost, seen, after>>

\* Nobody compares the balance with the cost.
ReadBalance_Unchecked(r) ==
  /\ Goes(r, "begun", "checked")
  /\ seen' = [seen EXCEPT ![r] = coins[By[r]]]
  /\ UNCHANGED <<shelf, coins, unlocks, lock, cost, after>>

\* tx.player.findUniqueOrThrow, which locks nothing.
ReadBalance(r) ==
  /\ Goes(r, "begun", IF coins[By[r]] < cost[r] THEN "refused" ELSE "checked")
  /\ seen' = [seen EXCEPT ![r] = coins[By[r]]]
  /\ UNCHANGED <<shelf, coins, unlocks, lock, cost, after>>

\* The balance that was read, less the cost, is written.
Balance_FromRead(r) == seen[r] - cost[r]

\* { decrement: item.coinCost }
Balance(r) == coins[By[r]] - cost[r]

\* tx.player.update waits for the row.
Deduct(r) ==
  /\ Goes(r, "checked", "deducted")
  /\ lock[By[r]] = Free /\ lock' = [lock EXCEPT ![By[r]] = r]
  /\ after' = [after EXCEPT ![r] = Balance(r)]
  /\ UNCHANGED <<shelf, coins, unlocks, cost, seen>>

Unlocked(r) == lock' = [p \in Buyers |-> IF lock[p] = r THEN Free ELSE lock[p]]

\* An upsert: a row that is there does no harm.
Create_Upsert(r) ==
  /\ Goes(r, "deducted", "created")
  /\ UNCHANGED <<shelf, coins, unlocks, lock, cost, seen, after>>

\* tx.unlock.create: a second row is an error, and the transaction rolls back.
Create(r) ==
  /\ Goes(r, "deducted", IF Row(r) \in Owned THEN "failed" ELSE "created")
  /\ IF Row(r) \in Owned THEN Unlocked(r) ELSE UNCHANGED lock
  /\ UNCHANGED <<shelf, coins, unlocks, cost, seen, after>>

CommitPurchase(r) ==
  /\ Goes(r, "created", "bought")
  /\ coins' = [coins EXCEPT ![By[r]] = after[r]]
  /\ unlocks' = [x \in Owned \union {Row(r)} |-> IF x \in Owned THEN unlocks[x] ELSE r]
  /\ Unlocked(r)
  /\ UNCHANGED <<shelf, cost, seen, after>>

Step(r) ==
  ReadItem(r) \/ ReadUnlock(r) \/ ReadBalance(r) \/ Deduct(r) \/ Create(r) \/ CommitPurchase(r)

\* A call fails, or the transaction takes too long: nothing of it stays.
Fails(r) ==
  /\ CallsFail /\ at[r] \in {"new", "found"} \union InTransaction
  /\ at' = [at EXCEPT ![r] = "failed"] /\ Unlocked(r)
  /\ UNCHANGED <<shelf, coins, unlocks, cost, seen, after>>

\* The API process dies, and with its connections every open transaction.
ApiDies ==
  /\ CallsFail /\ \E r \in Requests : at[r] \notin {"new"} \union Ended
  /\ at' = [r \in Requests |-> IF at[r] \in {"new"} \union Ended THEN at[r] ELSE "failed"]
  /\ lock' = [p \in Buyers |-> Free]
  /\ UNCHANGED <<shelf, coins, unlocks, cost, seen, after>>

\* Whoever looks after the shop sets a price or takes an item down.
Reprice(i) ==
  /\ \E c \in Prices \union {Gone} : c # shelf[i] /\ shelf' = [shelf EXCEPT ![i] = c]
  /\ UNCHANGED <<coins, unlocks, lock, at, cost, seen, after>>

ShopNext ==
  \/ \E r \in Requests : Step(r) \/ Fails(r)
  \/ ApiDies \/ \E i \in Items : Reprice(i)

ShopSpec == ShopInit /\ [][ShopNext]_shopVars
-------------------------------------------------------------------------------
\* The variables keep the shapes their comments give; a balance may be negative.
ShopTypeOK ==
  /\ shelf \in [Items -> Prices \union {Gone}] /\ coins \in [Buyers -> Int]
  /\ Owned \subseteq Buyers \X Items /\ unlocks \in [Owned -> Requests]
  /\ lock \in [Buyers -> Requests \union {Free}]
  /\ at \in [Requests -> {"new", "found"} \union InTransaction \union Ended]
  /\ cost \in [Requests -> Int] /\ seen \in [Requests -> Int] /\ after \in [Requests -> Int]

Bought(p) == {r \in Requests : By[r] = p /\ at[r] = "bought"}

(***************************************************************************)
(* Every coin that is gone is paid for an item that is owned, at the price *)
(* the request read, and only once, whatever overlaps, fails or is sent    *)
(* again ("Atomic deduct coins + create unlock", shop.ts:36).              *)
(***************************************************************************)
CoinsAddUp ==
  \A p \in Buyers :
    coins[p] = Purse[p] - SumFunctionOnSet(cost, Bought(p))

\* Two requests for one item, a double click or a retry, are paid once, and the
\* row of Unlock is of the one that paid.
PaidOnce ==
  \A r \in Requests : at[r] = "bought" <=> (Row(r) \in Owned /\ unlocks[Row(r)] = r)

(***************************************************************************)
(* A balance falls below zero only if it has changed since it was checked: *)
(* the check locks nothing, so two purchases can both pass it.             *)
(***************************************************************************)
OverdrawnOnlyIfStale ==
  [][\A r \in Requests :
       Goes(r, "created", "bought") /\ coins'[By[r]] < 0 => seen[r] # coins[By[r]]]_shopVars
===============================================================================
