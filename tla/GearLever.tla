----------------------------- MODULE GearLever ------------------------------
(***************************************************************************)
(* What the dashboard's controls promise the driver: a gear lever with     *)
(* four reverse gears, park and four forward gears that moves one notch at *)
(* a time, and a wheel with three positions.  Stopping parks the lever and *)
(* leaves the wheel where it is.                                           *)
(***************************************************************************)
EXTENDS Integers

VARIABLES lever, wheel

vars == <<lever, wheel>>

Init == lever = 0 /\ wheel = 0

Up    == lever < 4 /\ lever' = lever + 1 /\ UNCHANGED wheel
Down  == lever > -4 /\ lever' = lever - 1 /\ UNCHANGED wheel
Left  == wheel > -1 /\ wheel' = wheel - 1 /\ UNCHANGED lever
Right == wheel < 1 /\ wheel' = wheel + 1 /\ UNCHANGED lever
Park  == lever' = 0 /\ UNCHANGED wheel
Leave == lever' = 0 /\ wheel' = 0

Next == Up \/ Down \/ Left \/ Right \/ Park \/ Leave

Spec == Init /\ [][Next]_vars
=============================================================================
