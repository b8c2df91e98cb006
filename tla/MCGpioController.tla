-------------------------- MODULE MCGpioController --------------------------
EXTENDS GpioController

Reply(m, s, d) ==
  [reply |-> TRUE, body |-> [movement |-> m, speed |-> s, direction |-> d]]
NoReply ==
  [reply |-> FALSE, body |-> [movement |-> "", speed |-> Absent, direction |-> ""]]

\* stops, straights and turns, with a null speed, a missing field, a fraction,
\* and a numeral ("500e-2") that json-c reads as 500
AnswersSerial ==
  {NoReply, Reply("none", Null, ""),
   Reply("forward", Number(100), "none"), Reply("forward", Number(101), "left"),
   Reply("backward", Number(100), "left"),
   Reply("forward", Numeral(10, 500), "none")}
AnswersOverlap ==
  {NoReply, Reply("forward", Number(100), "none")}
=============================================================================
