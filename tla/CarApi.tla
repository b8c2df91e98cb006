------------------------------- MODULE CarApi -------------------------------
(***************************************************************************)
(* The data that crosses the HTTP API of the car: the words of a movement  *)
(* command and the JSON value of its "speed" field, shared by the browser, *)
(* the Node server and the C controller.                                   *)
(*                                                                         *)
(* A speed is a record [kind, num, read]: what JavaScript compares and     *)
(* what json-c reads are two different numbers.  num is in HALF percent    *)
(* (num = 2 * percent), enough to tell an integer from a fraction.         *)
(*   "number"   a JSON number num; read is not used                        *)
(*   "numeral"  another value that JavaScript compares as the number num:  *)
(*              a string, true, a list of one.  json-c reads the decimal   *)
(*              digits that a string begins with, 1 in true, 0 in a list:  *)
(*              5 and 500 for "500e-2", 16 and 0 for "0x10"                *)
(*   "text"     any other truthy value, like "500 rpm", of which read is 500 *)
(*   "null"     null and the other falsy values that are not numbers       *)
(***************************************************************************)
EXTENDS Integers

Movements == {"none", "forward", "backward"}
Directions == {"none", "left", "right"}

Speed(kind, half, n) == [kind |-> kind, num |-> half, read |-> n]
Number(half)     == Speed("number", half, 0)
Numeral(half, n) == Speed("numeral", half, n)
Text(n)          == Speed("text", 0, n)
Null             == Speed("null", 0, 0)
Absent           == Speed("absent", 0, 0)      \* undefined
Undeclared       == Speed("undeclared", 0, 0)  \* a global never assigned

SpeedValues ==
  [kind : {"number", "numeral", "text", "null", "absent"}, num : Int, read : Int]

\* JavaScript truthiness of a speed: a string "0" is true
Truthy(speed) == \/ speed.kind \in {"numeral", "text"}
                 \/ speed.kind = "number" /\ speed.num # 0

\* What JavaScript compares as a number
Numeric(speed) == speed.kind \in {"number", "numeral"}

\* json-c: the fraction of a number is cut off (towards zero: a negative number
\* is never stored, see CarBackend); null and a missing value are 0
json_object_get_int(speed) ==
  CASE speed.kind = "number"              -> speed.num \div 2
    [] speed.kind \in {"numeral", "text"} -> speed.read
    [] OTHER                              -> 0
=============================================================================
