----------------------------- MODULE InputDevices -----------------------------
(***************************************************************************)
(* What the user does with keyboard, gamepads and touch screen, and the    *)
(* 16 bits the program makes of it: fury-clash-client/src/input/.  The     *)
(* devices act at any time and put events in SDL's queue; the main loop    *)
(* handles them one by one and, at a tick, ORs what the three handlers     *)
(* hold.  SDL is external: a queue in the order things happened.           *)
(*                                                                         *)
(* A bit is the name of its button.  Positions are hundredths of the       *)
(* screen, and pixels are whole numbers.  A gamepad has a new id each time *)
(* it is plugged in.  Nothing in the program calls                         *)
(* input_touch_layout_update, so its layout is <<0, 0>>; Layouts lets the  *)
(* same module be read with the call input.h speaks of.                    *)
(***************************************************************************)
EXTENDS Integers, Sequences

CONSTANTS
  Keys, KeyBit,     \* keys, and the button each stands for
  Pads, PadBits,    \* ids of gamepads, and the buttons they have
  Fingers, Points,  \* fingers, and the places they touch
  Layouts,          \* sizes <<w, h>> the touch layout may be computed for
  MaxQueue          \* bound: events not handled yet

NoPad == 0
Nowhere == <<-1, -1>>
Directions == {"up", "down", "left", "right"}

ASSUME InputAssumption ==
  /\ KeyBit \in [Keys -> STRING] /\ PadBits \subseteq STRING /\ NoPad \notin Pads
  /\ Points \subseteq (0..100) \X (0..100) /\ Layouts \subseteq Nat \X Nat
  /\ MaxQueue \in Nat

VARIABLES
  held,     \* keys that are down
  plugged,  \* gamepad -> "new", "in" or "out"
  pressed,  \* gamepad -> its buttons that are down
  at,       \* finger -> where it touches
  lost,     \* fingers whose touch the system has cancelled
  queue,    \* events not handled yet, the oldest first
  kb,       \* g_state of the keyboard
  pad,      \* g_pad
  passed,   \* history: gamepads that were announced and not taken into use
  joy,      \* the joystick: active, finger, anchor
  stick,    \* g_state of the touch screen
  layout    \* size the touch layout was computed for

devices == <<held, plugged, pressed, at, lost>>
program == <<kb, pad, passed, joy, stick, layout>>
vars == <<devices, queue, program>>

Connected == {p \in Pads : plugged[p] = "in"}
-------------------------------------------------------------------------------
(* The devices. *)

Event(e) == Len(queue) < MaxQueue /\ queue' = Append(queue, e)

\* A key goes down, or repeats.
KeyDown(k) ==
  /\ Event([type |-> "key down", key |-> k]) /\ held' = held \union {k}
  /\ UNCHANGED <<plugged, pressed, at, lost, program>>

KeyUp(k) ==
  /\ k \in held /\ Event([type |-> "key up", key |-> k]) /\ held' = held \ {k}
  /\ UNCHANGED <<plugged, pressed, at, lost, program>>

PlugIn(p) ==
  /\ plugged[p] = "new" /\ Event([type |-> "added", which |-> p])
  /\ plugged' = [plugged EXCEPT ![p] = "in"]
  /\ UNCHANGED <<held, pressed, at, lost, program>>

PullOut(p) ==
  /\ plugged[p] = "in" /\ Event([type |-> "removed", which |-> p])
  /\ plugged' = [plugged EXCEPT ![p] = "out"] /\ pressed' = [pressed EXCEPT ![p] = {}]
  /\ UNCHANGED <<held, at, lost, program>>

\* Buttons of gamepads are read when wanted, not as events.
PadPress(p, bits) ==
  /\ plugged[p] = "in" /\ pressed' = [pressed EXCEPT ![p] = bits]
  /\ UNCHANGED <<held, plugged, at, lost, queue, program>>

FingerDown(f, x) ==
  /\ at[f] = Nowhere /\ Event([type |-> "finger down", finger |-> f, to |-> x])
  /\ at' = [at EXCEPT ![f] = x]
  /\ UNCHANGED <<held, plugged, pressed, lost, program>>

FingerMove(f, x) ==
  /\ at[f] \notin {x, Nowhere} /\ Event([type |-> "finger motion", finger |-> f, to |-> x])
  /\ at' = [at EXCEPT ![f] = x]
  /\ UNCHANGED <<held, plugged, pressed, lost, program>>

FingerUp(f) ==
  /\ at[f] # Nowhere /\ Event([type |-> "finger up", finger |-> f])
  /\ at' = [at EXCEPT ![f] = Nowhere]
  /\ UNCHANGED <<held, plugged, pressed, lost, program>>

\* The system takes the touch away: an event of another type, which no handler
\* knows.
TouchCancelled(f) ==
  /\ at[f] # Nowhere /\ Event([type |-> "finger canceled", finger |-> f])
  /\ at' = [at EXCEPT ![f] = Nowhere] /\ lost' = lost \union {f}
  /\ UNCHANGED <<held, plugged, pressed, program>>

-------------------------------------------------------------------------------
(* input_keyboard.c *)

\* Releasing flips the bit.
SetBit_Flips(k, down) ==
  IF ~down /\ KeyBit[k] \in kb THEN kb \ {KeyBit[k]} ELSE kb \union {KeyBit[k]}

\* set_bit: keys that share a bit share its release.
SetBit(k, down) == IF down THEN kb \union {KeyBit[k]} ELSE kb \ {KeyBit[k]}

KeyboardEvent(e) ==
  kb' = CASE e.type = "key down" -> SetBit(e.key, TRUE)
          [] e.type = "key up"   -> SetBit(e.key, FALSE)
          [] OTHER -> kb

(* input_gamepad.c *)

\* What SDL_OpenGamepad may return: it finds nobody behind an old announcement,
\* and it can fail for a gamepad that is there.
Open(p) == {NoPad} \union (IF plugged[p] = "in" THEN {p} ELSE {})

PassedOver(e) == passed' = IF e.type = "added" /\ pad' # e.which THEN passed \union {e.which} ELSE passed

\* The gamepad in use is closed whoever was pulled out.
GamepadEvent_AnyRemoved(e) ==
  /\ pad' \in IF e.type = "added" /\ pad = NoPad THEN Open(e.which)
             ELSE IF e.type = "removed" THEN {NoPad} ELSE {pad}
  /\ PassedOver(e)

GamepadEvent(e) ==
  /\ pad' \in IF e.type = "added" /\ pad = NoPad THEN Open(e.which)
             ELSE IF e.type = "removed" /\ pad = e.which THEN {NoPad}
             ELSE {pad}
  /\ PassedOver(e)

\* input_gamepad_read
PadRead == IF pad = NoPad THEN {} ELSE pressed[pad]

(* input_touch.c *)

Pixels(x) == <<(x[1] * layout[1]) \div 100, (x[2] * layout[2]) \div 100>>

\* input_touch_layout: the joystick has the left 40% below a 16:9 view, which
\* takes no more than 65% of the height.
InJoystickZone(q) ==
  LET w == layout[1]  h == layout[2] IN
  /\ 0 <= q[1] /\ 10 * q[1] <= 4 * w
  /\ (16 * q[2] >= 9 * w \/ 100 * q[2] >= 65 * h) /\ q[2] <= h

\* process_joystick: a direction counts if it is more than half of the way.
Pushed(q) ==
  LET dx == q[1] - joy.anchor[1]  dy == q[2] - joy.anchor[2] IN
  IF dx * dx + dy * dy <= 100 THEN {}
  ELSE {d \in Directions :
          CASE d = "up"    -> dy < 0 /\ 3 * dy * dy > dx * dx
            [] d = "down"  -> dy > 0 /\ 3 * dy * dy > dx * dx
            [] d = "left"  -> dx < 0 /\ 3 * dx * dx > dy * dy
            [] d = "right" -> dx > 0 /\ 3 * dx * dx > dy * dy}

Tracks(e) == joy.active /\ joy.finger = e.finger

TouchEvent(e) ==
  CASE e.type = "finger down" /\ ~joy.active /\ InJoystickZone(Pixels(e.to)) ->
         joy' = [active |-> TRUE, finger |-> e.finger, anchor |-> Pixels(e.to)] /\ UNCHANGED stick
    [] e.type = "finger motion" /\ Tracks(e) -> stick' = Pushed(Pixels(e.to)) /\ UNCHANGED joy
    [] e.type = "finger up" /\ Tracks(e) -> joy' = [joy EXCEPT !.active = FALSE] /\ stick' = {}
    [] OTHER -> UNCHANGED <<joy, stick>>

\* input_handle_event
HandleEvent ==
  /\ queue # <<>> /\ queue' = Tail(queue)
  /\ KeyboardEvent(Head(queue)) /\ GamepadEvent(Head(queue)) /\ TouchEvent(Head(queue))
  /\ UNCHANGED <<devices, layout>>

\* input_tick, input_get_local: the input of a frame that starts now.
Local == kb \union PadRead \union stick

\* protocol.ts, isValidInput: one direction is enough to be refused.
IsValidInput_AnyDirection(bits) ==
  \A mask \in {{"up", "down"}, {"left", "right"}} : mask \intersect bits = {}

\* protocol.ts, isValidInput: the relay drops what fails.
IsValidInput(bits) == \A mask \in {{"up", "down"}, {"left", "right"}} : ~ mask \subseteq bits
-------------------------------------------------------------------------------
\* input_init: the first gamepad SDL knows of, all of which it announces as well.
Init ==
  /\ held = {} /\ at = [f \in Fingers |-> Nowhere] /\ lost = {}
  /\ pressed = [p \in Pads |-> {}]
  /\ \E ids \in {s \in UNION {[1..n -> Pads] : n \in 0..2} : \A i, j \in DOMAIN s : s[i] = s[j] => i = j} :
       /\ plugged = [p \in Pads |-> IF \E i \in DOMAIN ids : ids[i] = p THEN "in" ELSE "new"]
       /\ pad \in IF ids = <<>> THEN {NoPad} ELSE {NoPad, ids[1]}
       /\ queue = [i \in DOMAIN ids |-> [type |-> "added", which |-> ids[i]]]
  /\ kb = {} /\ passed = {} /\ stick = {}
  /\ joy = [active |-> FALSE, finger |-> 0, anchor |-> <<0, 0>>]
  /\ layout \in Layouts

Device ==
  \/ \E k \in Keys : KeyDown(k) \/ KeyUp(k)
  \/ \E p \in Pads : PlugIn(p) \/ PullOut(p) \/ \E bits \in SUBSET PadBits : PadPress(p, bits)
  \/ \E f \in Fingers :
       \/ FingerUp(f) \/ TouchCancelled(f)
       \/ \E x \in Points : FingerDown(f, x) \/ FingerMove(f, x)

Next == Device \/ HandleEvent

Spec == Init /\ [][Next]_vars
-------------------------------------------------------------------------------
Events ==
  [type : {"key down", "key up"}, key : Keys]
    \union [type : {"added", "removed"}, which : Pads]
    \union [type : {"finger down", "finger motion"}, finger : Fingers, to : Points]
    \union [type : {"finger up", "finger canceled"}, finger : Fingers]

\* The variables keep the shapes their comments give; who moves the joystick
\* has touched the screen.
TypeOK ==
  /\ held \subseteq Keys /\ plugged \in [Pads -> {"new", "in", "out"}]
  /\ pressed \in [Pads -> SUBSET PadBits]
  /\ at \in [Fingers -> Points \union {Nowhere}] /\ lost \subseteq Fingers
  /\ queue \in Seq(Events)
  /\ kb \subseteq STRING /\ pad \in Pads \union {NoPad} /\ passed \subseteq Pads
  /\ joy \in [active : BOOLEAN, finger : Fingers \union {0}, anchor : Int \X Int]
  /\ joy.active => joy.finger \in Fingers
  /\ stick \subseteq Directions /\ layout \in Layouts

KeysHeld == {KeyBit[k] : k \in held}
PadsHeld == UNION {pressed[p] : p \in Connected}
\* Where the finger on the joystick points; of one that was cancelled once,
\* whatever the stick says: no handler hears of it.
Touching == IF ~joy.active THEN {}
            ELSE IF joy.finger \in lost THEN stick
            ELSE IF at[joy.finger] = Nowhere THEN {}
            ELSE Pushed(Pixels(at[joy.finger]))

(***************************************************************************)
(* No button is pressed that nobody holds: when the events are handled,    *)
(* every bit of keyboard and touch screen has a key or a finger behind it. *)
(* Two keys share a bit, keys repeat, and fingers take over the joystick   *)
(* from one another.                                                       *)
(***************************************************************************)
NoGhostButtons ==
  queue = <<>> => kb \subseteq KeysHeld /\ stick \subseteq Touching

(***************************************************************************)
(* When the events are handled, the gamepad in use is one that is there;   *)
(* there is none in use only if every one that is there was announced      *)
(* while another was in use, or could not be opened when it was: the code  *)
(* never goes back to those.                                               *)
(***************************************************************************)
PadServed ==
  queue = <<>> => pad \in Connected \/ (pad = NoPad /\ Connected \subseteq passed)

(***************************************************************************)
(* The relay refuses an input of this program only if its user holds two   *)
(* opposite directions at once, on whatever devices.  A refused input is   *)
(* played here and not by the opponent, so this is where fights part.      *)
(***************************************************************************)
Opposed(bits) == {"up", "down"} \subseteq bits \/ {"left", "right"} \subseteq bits

OnlyOpposedRefused ==
  queue = <<>> /\ ~IsValidInput(Local) => Opposed(KeysHeld \union PadsHeld \union Touching)
===============================================================================
