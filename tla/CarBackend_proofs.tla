------------------------- MODULE CarBackend_proofs --------------------------
(***************************************************************************)
(* Proofs about the car endpoints, for every set of speed values that      *)
(* clients may send.                                                       *)
(***************************************************************************)
EXTENDS CarBackend, TLAPS

\* A stored number has passed a validation, or is one of the defaults
LegalNumber(speed) == Numeric(speed) => speed.num \in 0..200

IInv == TypeOK /\ LegalNumber(car_speed)

Replies == [code : {200, 400}, error : Errors]

-----------------------------------------------------------------------------
\* The two ways of answering are typed.
LEMMA ReplyFact == Ok \in Replies /\ \A e \in Errors : Error(e) \in Replies
BY DEF Ok, Error, Replies, Errors

\* The names of the errors.
LEMMA ErrorNames ==
  /\ "UpdateFailed" \in Errors /\ "FailedToGetCarMovement" \in Errors
  /\ "InvalidMovement" \in Errors /\ "InvalidDirection" \in Errors /\ "InvalidSpeed" \in Errors
BY DEF Errors, ValidationErrors

\* What the validation lets through: a number that is not rejected is in
\* 0..200 half percent.  The range test sits behind `speed &&`, so the case
\* of 0, which skips it, is the one to look at.
LEMMA AcceptedFact ==
  ASSUME NEW s \in SpeedValues, ~SpeedRejected(s)
  PROVE  LegalNumber(s)
<1>1. s.num \in Int
  BY DEF SpeedValues
<1>. QED
  BY <1>1 DEF SpeedRejected, Truthy, Numeric, LegalNumber

\* `speed || n`, for an accepted speed and a legal default.
LEMMA OrDefaultFact ==
  ASSUME NEW s \in SpeedValues, ~SpeedRejected(s), NEW n \in 0..100
  PROVE  OrDefault(s, n) \in SpeedValues /\ LegalNumber(OrDefault(s, n))
<1>1. CASE Truthy(s)
  BY <1>1, AcceptedFact DEF OrDefault
<1>2. CASE ~Truthy(s)
  <2>1. OrDefault(s, n) = [kind |-> "number", num |-> 2 * n, read |-> 0] /\ 2 * n \in 0..200
    BY <1>2 DEF OrDefault, Number, Speed
  <2>. QED
    BY <2>1 DEF SpeedValues, LegalNumber, Numeric
<1>. QED
  BY <1>1, <1>2

\* A legal JSON number becomes a legal duty cycle in the C program.
LEMMA DutyFact ==
  ASSUME NEW s \in SpeedValues \cup {Undeclared}, LegalNumber(s), s.kind = "number"
  PROVE  json_object_get_int(s) \in 0..100
<1>1. s.num \in 0..200
  BY DEF LegalNumber, Numeric
<1>. QED
  BY <1>1 DEF json_object_get_int

-----------------------------------------------------------------------------
\* A server that has just started satisfies the invariant.
LEMMA InitInv == Init => IInv
BY ReplyFact DEF Init, IInv, TypeOK, LegalNumber, Numeric, Undeclared, Speed, Replies

\* Any request, and a restart, keeps the invariant, and a refusal by a
\* validation leaves the command as it was.
LEMMA StepInv ==
  IInv /\ [Next]_vars => IInv' /\ (reply'.error \in ValidationErrors => UNCHANGED car)
<1>. SUFFICES ASSUME IInv, [Next]_vars
              PROVE  IInv' /\ (reply'.error \in ValidationErrors => UNCHANGED car)
  OBVIOUS
<1>. DEFINE Kept == reply'.error \in ValidationErrors => UNCHANGED car
<1>1. /\ car_movement \in Movements \cup {"undeclared"}
      /\ car_speed \in SpeedValues \cup {Undeclared} /\ LegalNumber(car_speed)
      /\ car_direction \in Directions \cup {"undeclared"}
      /\ reply \in Replies
  BY DEF IInv, TypeOK, Replies
<1>2. ASSUME UNCHANGED car, reply' \in Replies PROVE IInv' /\ Kept
  BY <1>1, <1>2 DEF IInv, TypeOK, Replies, car
<1>3. ASSUME car_movement' \in Movements \cup {"undeclared"},
             car_speed' \in SpeedValues \cup {Undeclared}, LegalNumber(car_speed'),
             car_direction' \in Directions \cup {"undeclared"},
             reply' \in {Ok, Error("UpdateFailed")}
      PROVE  IInv' /\ Kept
  <2>1. reply' \in Replies /\ reply'.error \notin ValidationErrors
    BY <1>3, ReplyFact, ErrorNames DEF Ok, Error, ValidationErrors
  <2>. QED
    BY <1>3, <2>1 DEF IInv, TypeOK, Replies
<1>4. ASSUME request_connect PROVE IInv' /\ Kept
  BY <1>2, <1>4, ReplyFact DEF request_connect
<1>5. ASSUME request_brake PROVE IInv' /\ Kept
  <2>1. car_speed' \in SpeedValues /\ LegalNumber(car_speed')
    BY <1>5 DEF request_brake, Number, Speed, SpeedValues, LegalNumber, Numeric
  <2>. QED
    BY <1>3, <1>5, <2>1 DEF request_brake, Movements, Directions
<1>6. ASSUME request_car_movement PROVE IInv' /\ Kept
  BY <1>2, <1>6, ReplyFact, ErrorNames DEF request_car_movement
<1>7. ASSUME Restart PROVE IInv' /\ Kept
  <2>1. LegalNumber(car_speed')
    BY <1>7 DEF Restart, Undeclared, Speed, LegalNumber, Numeric
  <2>. QED
    BY <1>3, <1>7, <2>1 DEF Restart
<1>8. ASSUME NEW s \in Speeds, NEW m \in {"forward", "backward"}, Move(m, s) PROVE IInv' /\ Kept
  <2>1. CASE SpeedRejected(s)
    BY <1>2, <1>8, <2>1, ReplyFact, ErrorNames DEF Move
  <2>2. CASE ~SpeedRejected(s)
    <3>1. s \in SpeedValues /\ 50 \in 0..100
      BY SpeedsAssumption
    <3>2. car_speed' \in SpeedValues /\ LegalNumber(car_speed')
      BY <1>8, <2>2, <3>1, OrDefaultFact DEF Move
    <3>. QED
      BY <1>1, <1>3, <1>8, <2>2, <3>2 DEF Move, Movements
  <2>. QED
    BY <2>1, <2>2
<1>9. ASSUME NEW s \in Speeds, NEW d \in {"left", "right"}, Turn(d, s) PROVE IInv' /\ Kept
  <2>1. CASE SpeedRejected(s)
    BY <1>2, <1>9, <2>1, ReplyFact, ErrorNames DEF Turn
  <2>2. CASE ~SpeedRejected(s)
    <3>1. s \in SpeedValues /\ 30 \in 0..100
      BY SpeedsAssumption
    <3>2. car_speed' \in SpeedValues /\ LegalNumber(car_speed')
      BY <1>9, <2>2, <3>1, OrDefaultFact DEF Turn
    <3>. QED
      BY <1>1, <1>3, <1>9, <2>2, <3>2 DEF Turn, Directions
  <2>. QED
    BY <2>1, <2>2
<1>10. ASSUME NEW s \in Speeds, NEW m \in MovementWords, NEW d \in DirectionWords,
              update_car_movement(m, s, d)
       PROVE  IInv' /\ Kept
  <2>1. CASE UpdateError(m, s, d) # "none"
    <3>1. UpdateError(m, s, d) \in Errors
      BY ErrorNames, <2>1 DEF UpdateError
    <3>. QED
      BY <1>2, <1>10, <2>1, <3>1, ReplyFact DEF update_car_movement
  <2>2. CASE UpdateError(m, s, d) = "none"
    <3>1. m \in Movements \cup {""} /\ d \in Directions \cup {""} /\ ~SpeedRejected(s)
      BY <2>2 DEF UpdateError
    <3>2. UpdateAccepted(m, s, d)
      BY <1>10, <2>2 DEF update_car_movement
    <3>3. car_speed' \in SpeedValues \cup {Undeclared} /\ LegalNumber(car_speed')
      BY <1>1, <3>1, <3>2, AcceptedFact, SpeedsAssumption DEF UpdateAccepted
    <3>4. /\ car_movement' \in Movements \cup {"undeclared"}
          /\ car_direction' \in Directions \cup {"undeclared"}
      BY <1>1, <3>1, <3>2 DEF UpdateAccepted
    <3>5. reply' \in {Ok, Error("UpdateFailed")}
      BY <3>2 DEF UpdateAccepted
    <3>. QED
      BY <1>3, <3>3, <3>4, <3>5
  <2>. QED
    BY <2>1, <2>2
<1>11. ASSUME UNCHANGED vars PROVE IInv' /\ Kept
  BY <1>1, <1>2, <1>11 DEF vars, car
<1>. QED
  BY <1>4, <1>5, <1>6, <1>7, <1>8, <1>9, <1>10, <1>11 DEF Next, request_move_forward,
     requestmove_backwards, request_move_left, request_move_right

-----------------------------------------------------------------------------
(* The theorems *)

\* IInv is an invariant of the server.
LEMMA Inductive == Spec => []IInv
BY InitInv, StepInv, PTL DEF Spec

\* The three globals hold a word of the API or do not exist yet, whatever
\* bodies arrive in whatever order.
THEOREM TypeCorrect == Spec => []TypeOK
BY Inductive, PTL DEF IInv

\* No sequence of requests makes GET /car/movement serve a JSON number that
\* the C program decodes to an illegal duty cycle.
THEOREM ServedNumberLegal == Spec => []ServedNumberIsLegalDuty
<1>1. IInv => ServedNumberIsLegalDuty
  BY DutyFact DEF IInv, TypeOK, ServedNumberIsLegalDuty, ServedSpeedIsLegalDuty
<1>. QED
  BY <1>1, Inductive, PTL

\* A refused request is refused whole: no handler assigns before it validates.
THEOREM RefusedKeeps == Spec => RefusedChangesNothing
<1>1. IInv /\ [Next]_vars => [reply'.error \in ValidationErrors => UNCHANGED car]_vars
  BY StepInv DEF vars, car
<1>. QED
  BY <1>1, Inductive, PTL DEF Spec, RefusedChangesNothing
=============================================================================
