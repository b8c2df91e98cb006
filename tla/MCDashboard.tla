---------------------------- MODULE MCDashboard -----------------------------
(* Two keys are enough for the key filter (one to act, one to interfere);  *)
(* the buttons reach all five commands.                                    *)
EXTENDS Dashboard

MCKeys == {"ArrowUp", "Space"}
MCSliderSpeeds == {0, 60}
=============================================================================
