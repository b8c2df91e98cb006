----------------------------- MODULE CarBackend -----------------------------
(***************************************************************************)
(* The car endpoints of the Node server (endpoint_car/car_controller.js).  *)
(*                                                                         *)
(* The handlers share three variables that car_controller.js assigns but   *)
(* never declares: car.js declares locals of the same names, which the     *)
(* controller cannot see.  They are therefore globals that do not exist    *)
(* until the first assignment, and reading one before throws a             *)
(* ReferenceError that the handler's catch turns into a 400.  Node runs    *)
(* one handler at a time, so a handler is one action.                      *)
(***************************************************************************)
EXTENDS CarApi

CONSTANT Speeds            \* the speed values clients put in a request body

ASSUME SpeedsAssumption == Speeds \subseteq SpeedValues

VARIABLES
  car_movement,            \* a movement, or "undeclared"
  car_speed,               \* a speed, or Undeclared
  car_direction,           \* a direction, or "undeclared"
  reply                    \* the last answer: HTTP status and its error text

car  == <<car_movement, car_speed, car_direction>>
vars == <<car_movement, car_speed, car_direction, reply>>

-----------------------------------------------------------------------------
Ok          == [code |-> 200, error |-> "none"]
Error(text) == [code |-> 400, error |-> text]

ValidationErrors == {"InvalidMovement", "InvalidDirection", "InvalidSpeed"}
Errors == ValidationErrors \cup {"none", "UpdateFailed", "FailedToGetCarMovement"}

\* Request words: a valid one, "" for a missing (or falsy) field, "other"
MovementWords  == Movements \cup {"", "other"}
DirectionWords == Directions \cup {"", "other"}

\* Mutant: the upper bound off by one
SpeedRejectedAbove101(speed) ==
  Truthy(speed) /\ Numeric(speed) /\ (speed.num < 0 \/ speed.num > 202)

\* `speed && (speed < 0 || speed > 100)`: comparisons with what JavaScript
\* does not read as a number are false, so text passes
SpeedRejected(speed) ==
  /\ Truthy(speed)
  /\ Numeric(speed)
  /\ speed.num < 0 \/ speed.num > 200

\* `speed || n`
OrDefault(speed, n) == IF Truthy(speed) THEN speed ELSE Number(2 * n)

\* All three globals exist: a handler that reads them does not throw
Readable(m, s, d) == m # "undeclared" /\ s # Undeclared /\ d # "undeclared"
Declared == Readable(car_movement, car_speed, car_direction)

Init == /\ car_movement = "undeclared"
        /\ car_speed = Undeclared
        /\ car_direction = "undeclared"
        /\ reply = Ok

-----------------------------------------------------------------------------
\* POST /car/connect: answers, and changes nothing
request_connect == reply' = Ok /\ UNCHANGED car

\* Mutant: the movement is not validated
UpdateErrorAnyMovement(movement, speed, direction) ==
  CASE direction \notin Directions \cup {""} -> "InvalidDirection"
    [] SpeedRejected(speed)                  -> "InvalidSpeed"
    [] OTHER                                 -> "none"

\* The 400 that a request body earns before anything is assigned
UpdateError(movement, speed, direction) ==
  CASE movement \notin Movements \cup {""}   -> "InvalidMovement"
    [] direction \notin Directions \cup {""} -> "InvalidDirection"
    [] SpeedRejected(speed)                  -> "InvalidSpeed"
    [] OTHER                                 -> "none"

\* Mutant: a speed of 0 is taken for a missing one
UpdateAcceptedIfTruthy(movement, speed, direction) ==
  /\ car_movement'  = IF movement # "" THEN movement ELSE car_movement
  /\ car_speed'     = IF Truthy(speed) THEN speed ELSE car_speed
  /\ car_direction' = IF direction # "" THEN direction ELSE car_direction
  /\ reply' = IF Readable(car_movement', car_speed', car_direction')
              THEN Ok ELSE Error("UpdateFailed")

\* The assignments come first; the answer then reads all three globals, and
\* its ReferenceError does not take the assignments back
UpdateAccepted(movement, speed, direction) ==
  /\ car_movement'  = IF movement # "" THEN movement ELSE car_movement
  /\ car_speed'     = IF speed # Absent THEN speed ELSE car_speed
  /\ car_direction' = IF direction # "" THEN direction ELSE car_direction
  /\ reply' = IF Readable(car_movement', car_speed', car_direction')
              THEN Ok ELSE Error("UpdateFailed")

\* POST /car/update_movement
update_car_movement(movement, speed, direction) ==
  LET error == UpdateError(movement, speed, direction)
  IN  \/ error # "none" /\ reply' = Error(error) /\ UNCHANGED car
      \/ error = "none" /\ UpdateAccepted(movement, speed, direction)

\* Mutant: the movement is assigned before the speed is validated
MoveAssignsFirst(movement, speed) ==
  /\ car_movement' = movement
  /\ car_speed' = IF SpeedRejected(speed) THEN car_speed ELSE OrDefault(speed, 50)
  /\ reply' = IF SpeedRejected(speed) THEN Error("InvalidSpeed") ELSE Ok
  /\ UNCHANGED car_direction

\* POST /car/move_forward and /car/move_backwards: the direction is kept
Move(movement, speed) ==
  \/ SpeedRejected(speed) /\ reply' = Error("InvalidSpeed") /\ UNCHANGED car
  \/ /\ ~SpeedRejected(speed)
     /\ car_movement' = movement
     /\ car_speed' = OrDefault(speed, 50)
     /\ reply' = Ok
     /\ UNCHANGED car_direction

request_move_forward(speed)  == Move("forward", speed)
requestmove_backwards(speed) == Move("backward", speed)

\* POST /car/move_left and /car/move_right: the movement is kept
Turn(direction, speed) ==
  \/ SpeedRejected(speed) /\ reply' = Error("InvalidSpeed") /\ UNCHANGED car
  \/ /\ ~SpeedRejected(speed)
     /\ car_direction' = direction
     /\ car_speed' = OrDefault(speed, 30)
     /\ reply' = Ok
     /\ UNCHANGED car_movement

request_move_left(speed)  == Turn("left", speed)
request_move_right(speed) == Turn("right", speed)

\* POST /car/brake
request_brake ==
  /\ car_movement' = "none"
  /\ car_speed' = Number(0)
  /\ car_direction' = "none"
  /\ reply' = Ok

\* GET /car/movement, the request the car polls with
request_car_movement ==
  /\ reply' = IF Declared THEN Ok ELSE Error("FailedToGetCarMovement")
  /\ UNCHANGED car

\* The server process ends and is started again: nothing is persisted
Restart == /\ car_movement' = "undeclared"
           /\ car_speed' = Undeclared
           /\ car_direction' = "undeclared"
           /\ reply' = Ok

Next ==
  \/ request_connect
  \/ request_brake
  \/ request_car_movement
  \/ Restart
  \/ \E s \in Speeds :
       \/ request_move_forward(s)
       \/ requestmove_backwards(s)
       \/ request_move_left(s)
       \/ request_move_right(s)
       \/ \E m \in MovementWords, d \in DirectionWords : update_car_movement(m, s, d)

Spec == Init /\ [][Next]_vars
-----------------------------------------------------------------------------
TypeOK ==
  /\ car_movement \in Movements \cup {"undeclared"}
  /\ car_speed \in SpeedValues \cup {Undeclared}
  /\ car_direction \in Directions \cup {"undeclared"}
  /\ reply \in [code : {200, 400}, error : Errors]

\* "Speed must be between 0 and 100.": whatever sequence of requests is
\* accepted, the speed that the car decodes from GET /car/movement is a legal
\* duty cycle.  It is not: the validations test what JavaScript reads in a
\* value, and json-c reads 500 in "500 rpm" and in "500e-2".
ServedSpeedIsLegalDuty == json_object_get_int(car_speed) \in 0..100

\* As long as the server holds a JSON number, the car decodes a legal duty
\* cycle from it, over the defaults, the falsy 0 that skips the range test and
\* the fraction that json-c cuts off.  gpio_lib refuses a duty outside 0..100
\* pin by pin: one slip, and a motor keeps its old duty.
ServedNumberIsLegalDuty == car_speed.kind = "number" => ServedSpeedIsLegalDuty

\* A request refused by a validation leaves the command as it was: the car
\* is never handed the accepted half of a refused request.
RefusedChangesNothing == [][reply'.error \in ValidationErrors => UNCHANGED car]_vars
=============================================================================
