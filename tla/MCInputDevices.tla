---------------------------- MODULE MCInputDevices ----------------------------
(* Three keys, two of which share a bit, two gamepads, two fingers. *)
EXTENDS InputDevices, TLC

const_Keys == {"Up", "W", "S"}
const_KeyBit == [k \in const_Keys |-> IF k = "S" THEN "down" ELSE "up"]
\* Both in the joystick's zone, one above the other.
const_Points == {<<10, 80>>, <<10, 70>>}
\* As the program is, and with the layout of its own window.
const_Layouts == {<<0, 0>>, <<1280, 720>>}
Symmetry == Permutations(Pads) \union Permutations(Fingers)
===============================================================================
