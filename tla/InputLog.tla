------------------------------- MODULE InputLog -------------------------------
(***************************************************************************)
(* The per-match input log of the relay (relay-server/input-log.ts), as an *)
(* algebra of values: EmptyLog and the effect of one recordP1/recordP2.    *)
(* A log is the array of frame entries and, per slot, the latest input of  *)
(* that slot.  The sentinel -1 that the code passes for "the other side    *)
(* said nothing" is the slot argument here.                                *)
(***************************************************************************)
EXTENDS Naturals, Sequences

Slots == {0, 1}
Opponent(s) == 1 - s

\* The input bitfield is the set of buttons held; the neutral input is {}.
Neutral == {}

EmptyLog == [entries |-> <<>>, latest |-> [s \in Slots |-> Neutral]]

\* upsert looks at the last entry only: it never searches for frame f.
MergesWithLast(entries, f) ==
  /\ entries # <<>>
  /\ entries[Len(entries)].frame = f

\* A merge that overwrites the silent side as well.
Merged_BothSides(entry, s, i) ==
  [entry EXCEPT !.input = [t \in Slots |-> IF t = s THEN i ELSE Neutral]]

\* Merging writes the recording side and keeps what the other side said.
Merged(entry, s, i) == [entry EXCEPT !.input[s] = i]

\* A new entry repeats the last known input of the silent side.
NewEntry(latest, f) == [frame |-> f, input |-> latest]

\* recordP1 (s = 0) and recordP2 (s = 1) of input i for frame f.
Record(log, s, f, i) ==
  LET latest == [log.latest EXCEPT ![s] = i]
      n      == Len(log.entries)
  IN [latest  |-> latest,
      entries |-> IF MergesWithLast(log.entries, f)
                  THEN [log.entries EXCEPT ![n] = Merged(@, s, i)]
                  ELSE Append(log.entries, NewEntry(latest, f))]
===============================================================================
