---------------------------- MODULE MCCarBackend ----------------------------
(* Request speeds at and around every boundary the handlers test, and      *)
(* strings that JavaScript and json-c read differently.                    *)
EXTENDS CarBackend

MCSpeeds == {Absent, Null, Text(0), Text(500), Numeral(0, 0), Numeral(-1, 0), Numeral(201, 100),
             Numeral(10, 500), Numeral(32, 0), Numeral(2, 1), Number(-1), Number(0), Number(1), Number(101), Number(200), Number(201), Number(202)}
=============================================================================
