-------------------------- MODULE Dashboard_proofs --------------------------
(***************************************************************************)
(* Proofs about the dashboard, for every set of keys, every set of slider  *)
(* positions and every bound on the POSTs in flight.                       *)
(***************************************************************************)
EXTENDS Dashboard, TLAPS

UI == [gear : Gears, currentMovement : FrontMovements, currentDirection : FrontDirections,
       speedValue : 0..100, vehicleStatus : Statuses]

MovementOf(gear) == CASE gear \in {"R4", "R3", "R2", "R1"} -> "Atras"
                      [] gear = "P"                        -> "Detenido"
                      [] OTHER                             -> "Adelante"

\* A state of the page whose gear and movement agree
Coherent(u) == u \in UI /\ u.currentMovement = MovementOf(u.gear)

-----------------------------------------------------------------------------
(* What updateVehicleStatus preserves, case by case *)

\* The number of each gear.
LEMMA GearTable ==
  /\ GearNumber("R4") = -4 /\ GearNumber("R3") = -3 /\ GearNumber("R2") = -2
  /\ GearNumber("R1") = -1 /\ GearNumber("P") = 0 /\ GearNumber("1") = 1
  /\ GearNumber("2") = 2 /\ GearNumber("3") = 3 /\ GearNumber("4") = 4
BY DEF GearNumber

\* The number of each position of the wheel.
LEMMA WheelTable ==
  WheelNumber("Izquierda") = -1 /\ WheelNumber("SinDireccion") = 0 /\ WheelNumber("Derecha") = 1
BY DEF WheelNumber

\* The movement of each gear.
LEMMA MovementTable ==
  /\ \A g \in {"R4", "R3", "R2", "R1"} : MovementOf(g) = "Atras"
  /\ MovementOf("P") = "Detenido"
  /\ \A g \in {"1", "2", "3", "4"} : MovementOf(g) = "Adelante"
BY DEF MovementOf

\* A shift sets the three fields of the lever and leaves the other two.
LEMMA ShiftFact ==
  ASSUME NEW u \in UI, NEW g \in Gears, NEW s \in 0..100
  PROVE  /\ Coherent(Shift(u, g, MovementOf(g), s))
         /\ Shift(u, g, MovementOf(g), s).gear = g
         /\ Shift(u, g, MovementOf(g), s).currentDirection = u.currentDirection
<1>1. MovementOf(g) \in FrontMovements
  BY DEF MovementOf, FrontMovements
<1>. QED
  BY <1>1 DEF UI, Shift, Coherent

\* One gear up, or the top gear again: the switch of 'Adelante'.
LEMMA ShiftUpFact ==
  ASSUME NEW u \in UI
  PROVE  /\ Coherent(ShiftUp(u))
         /\ ShiftUp(u).currentDirection = u.currentDirection
         /\ \/ GearNumber(u.gear) = 4 /\ GearNumber(ShiftUp(u).gear) = 4
            \/ GearNumber(u.gear) < 4 /\ GearNumber(ShiftUp(u).gear) = GearNumber(u.gear) + 1
<1>1. CASE u.gear = "R4"
  <2>1. "R3" \in Gears /\ 75 \in 0..100
    BY DEF Gears
  <2>2. ShiftUp(u) = Shift(u, "R3", MovementOf("R3"), 75)
    BY <1>1, MovementTable DEF ShiftUp
  <2>3. Coherent(ShiftUp(u)) /\ ShiftUp(u).gear = "R3" /\ ShiftUp(u).currentDirection = u.currentDirection
    BY <2>1, <2>2, ShiftFact
  <2>. QED
    BY <1>1, <2>3, GearTable
<1>2. CASE u.gear = "R3"
  <2>1. "R2" \in Gears /\ 50 \in 0..100
    BY DEF Gears
  <2>2. ShiftUp(u) = Shift(u, "R2", MovementOf("R2"), 50)
    BY <1>2, MovementTable DEF ShiftUp
  <2>3. Coherent(ShiftUp(u)) /\ ShiftUp(u).gear = "R2" /\ ShiftUp(u).currentDirection = u.currentDirection
    BY <2>1, <2>2, ShiftFact
  <2>. QED
    BY <1>2, <2>3, GearTable
<1>3. CASE u.gear = "R2"
  <2>1. "R1" \in Gears /\ 25 \in 0..100
    BY DEF Gears
  <2>2. ShiftUp(u) = Shift(u, "R1", MovementOf("R1"), 25)
    BY <1>3, MovementTable DEF ShiftUp
  <2>3. Coherent(ShiftUp(u)) /\ ShiftUp(u).gear = "R1" /\ ShiftUp(u).currentDirection = u.currentDirection
    BY <2>1, <2>2, ShiftFact
  <2>. QED
    BY <1>3, <2>3, GearTable
<1>4. CASE u.gear = "R1"
  <2>1. "P" \in Gears /\ 0 \in 0..100
    BY DEF Gears
  <2>2. ShiftUp(u) = Shift(u, "P", MovementOf("P"), 0)
    BY <1>4, MovementTable DEF ShiftUp
  <2>3. Coherent(ShiftUp(u)) /\ ShiftUp(u).gear = "P" /\ ShiftUp(u).currentDirection = u.currentDirection
    BY <2>1, <2>2, ShiftFact
  <2>. QED
    BY <1>4, <2>3, GearTable
<1>5. CASE u.gear = "P"
  <2>1. "1" \in Gears /\ 25 \in 0..100
    BY DEF Gears
  <2>2. ShiftUp(u) = Shift(u, "1", MovementOf("1"), 25)
    BY <1>5, MovementTable DEF ShiftUp
  <2>3. Coherent(ShiftUp(u)) /\ ShiftUp(u).gear = "1" /\ ShiftUp(u).currentDirection = u.currentDirection
    BY <2>1, <2>2, ShiftFact
  <2>. QED
    BY <1>5, <2>3, GearTable
<1>6. CASE u.gear = "1"
  <2>1. "2" \in Gears /\ 50 \in 0..100
    BY DEF Gears
  <2>2. ShiftUp(u) = Shift(u, "2", MovementOf("2"), 50)
    BY <1>6, MovementTable DEF ShiftUp
  <2>3. Coherent(ShiftUp(u)) /\ ShiftUp(u).gear = "2" /\ ShiftUp(u).currentDirection = u.currentDirection
    BY <2>1, <2>2, ShiftFact
  <2>. QED
    BY <1>6, <2>3, GearTable
<1>7. CASE u.gear = "2"
  <2>1. "3" \in Gears /\ 75 \in 0..100
    BY DEF Gears
  <2>2. ShiftUp(u) = Shift(u, "3", MovementOf("3"), 75)
    BY <1>7, MovementTable DEF ShiftUp
  <2>3. Coherent(ShiftUp(u)) /\ ShiftUp(u).gear = "3" /\ ShiftUp(u).currentDirection = u.currentDirection
    BY <2>1, <2>2, ShiftFact
  <2>. QED
    BY <1>7, <2>3, GearTable
<1>8. CASE u.gear = "3"
  <2>1. "4" \in Gears /\ 100 \in 0..100
    BY DEF Gears
  <2>2. ShiftUp(u) = Shift(u, "4", MovementOf("4"), 100)
    BY <1>8, MovementTable DEF ShiftUp
  <2>3. Coherent(ShiftUp(u)) /\ ShiftUp(u).gear = "4" /\ ShiftUp(u).currentDirection = u.currentDirection
    BY <2>1, <2>2, ShiftFact
  <2>. QED
    BY <1>8, <2>3, GearTable
<1>9. CASE u.gear = "4"
  <2>1. "4" \in Gears /\ 100 \in 0..100
    BY DEF Gears
  <2>2. ShiftUp(u) = Shift(u, "4", MovementOf("4"), 100)
    BY <1>9, MovementTable DEF ShiftUp
  <2>3. Coherent(ShiftUp(u)) /\ ShiftUp(u).gear = "4" /\ ShiftUp(u).currentDirection = u.currentDirection
    BY <2>1, <2>2, ShiftFact
  <2>. QED
    BY <1>9, <2>3, GearTable
<1>. QED
  BY <1>1, <1>2, <1>3, <1>4, <1>5, <1>6, <1>7, <1>8, <1>9 DEF UI, Gears

\* One gear down, or the lowest gear again: the switch of 'Atras'.
LEMMA ShiftDownFact ==
  ASSUME NEW u \in UI
  PROVE  /\ Coherent(ShiftDown(u))
         /\ ShiftDown(u).currentDirection = u.currentDirection
         /\ \/ GearNumber(u.gear) = -4 /\ GearNumber(ShiftDown(u).gear) = -4
            \/ GearNumber(u.gear) > -4 /\ GearNumber(ShiftDown(u).gear) = GearNumber(u.gear) - 1
<1>1. CASE u.gear = "4"
  <2>1. "3" \in Gears /\ 75 \in 0..100
    BY DEF Gears
  <2>2. ShiftDown(u) = Shift(u, "3", MovementOf("3"), 75)
    BY <1>1, MovementTable DEF ShiftDown, FromFirstToPark
  <2>3. Coherent(ShiftDown(u)) /\ ShiftDown(u).gear = "3" /\ ShiftDown(u).currentDirection = u.currentDirection
    BY <2>1, <2>2, ShiftFact
  <2>. QED
    BY <1>1, <2>3, GearTable
<1>2. CASE u.gear = "3"
  <2>1. "2" \in Gears /\ 50 \in 0..100
    BY DEF Gears
  <2>2. ShiftDown(u) = Shift(u, "2", MovementOf("2"), 50)
    BY <1>2, MovementTable DEF ShiftDown, FromFirstToPark
  <2>3. Coherent(ShiftDown(u)) /\ ShiftDown(u).gear = "2" /\ ShiftDown(u).currentDirection = u.currentDirection
    BY <2>1, <2>2, ShiftFact
  <2>. QED
    BY <1>2, <2>3, GearTable
<1>3. CASE u.gear = "2"
  <2>1. "1" \in Gears /\ 25 \in 0..100
    BY DEF Gears
  <2>2. ShiftDown(u) = Shift(u, "1", MovementOf("1"), 25)
    BY <1>3, MovementTable DEF ShiftDown, FromFirstToPark
  <2>3. Coherent(ShiftDown(u)) /\ ShiftDown(u).gear = "1" /\ ShiftDown(u).currentDirection = u.currentDirection
    BY <2>1, <2>2, ShiftFact
  <2>. QED
    BY <1>3, <2>3, GearTable
<1>4. CASE u.gear = "1"
  <2>1. "P" \in Gears /\ 0 \in 0..100
    BY DEF Gears
  <2>2. ShiftDown(u) = Shift(u, "P", MovementOf("P"), 0)
    BY <1>4, MovementTable DEF ShiftDown, FromFirstToPark
  <2>3. Coherent(ShiftDown(u)) /\ ShiftDown(u).gear = "P" /\ ShiftDown(u).currentDirection = u.currentDirection
    BY <2>1, <2>2, ShiftFact
  <2>. QED
    BY <1>4, <2>3, GearTable
<1>5. CASE u.gear = "P"
  <2>1. "R1" \in Gears /\ 25 \in 0..100
    BY DEF Gears
  <2>2. ShiftDown(u) = Shift(u, "R1", MovementOf("R1"), 25)
    BY <1>5, MovementTable DEF ShiftDown, FromFirstToPark
  <2>3. Coherent(ShiftDown(u)) /\ ShiftDown(u).gear = "R1" /\ ShiftDown(u).currentDirection = u.currentDirection
    BY <2>1, <2>2, ShiftFact
  <2>. QED
    BY <1>5, <2>3, GearTable
<1>6. CASE u.gear = "R1"
  <2>1. "R2" \in Gears /\ 50 \in 0..100
    BY DEF Gears
  <2>2. ShiftDown(u) = Shift(u, "R2", MovementOf("R2"), 50)
    BY <1>6, MovementTable DEF ShiftDown, FromFirstToPark
  <2>3. Coherent(ShiftDown(u)) /\ ShiftDown(u).gear = "R2" /\ ShiftDown(u).currentDirection = u.currentDirection
    BY <2>1, <2>2, ShiftFact
  <2>. QED
    BY <1>6, <2>3, GearTable
<1>7. CASE u.gear = "R2"
  <2>1. "R3" \in Gears /\ 75 \in 0..100
    BY DEF Gears
  <2>2. ShiftDown(u) = Shift(u, "R3", MovementOf("R3"), 75)
    BY <1>7, MovementTable DEF ShiftDown, FromFirstToPark
  <2>3. Coherent(ShiftDown(u)) /\ ShiftDown(u).gear = "R3" /\ ShiftDown(u).currentDirection = u.currentDirection
    BY <2>1, <2>2, ShiftFact
  <2>. QED
    BY <1>7, <2>3, GearTable
<1>8. CASE u.gear = "R3"
  <2>1. "R4" \in Gears /\ 100 \in 0..100
    BY DEF Gears
  <2>2. ShiftDown(u) = Shift(u, "R4", MovementOf("R4"), 100)
    BY <1>8, MovementTable DEF ShiftDown, FromFirstToPark
  <2>3. Coherent(ShiftDown(u)) /\ ShiftDown(u).gear = "R4" /\ ShiftDown(u).currentDirection = u.currentDirection
    BY <2>1, <2>2, ShiftFact
  <2>. QED
    BY <1>8, <2>3, GearTable
<1>9. CASE u.gear = "R4"
  <2>1. "R4" \in Gears /\ 100 \in 0..100
    BY DEF Gears
  <2>2. ShiftDown(u) = Shift(u, "R4", MovementOf("R4"), 100)
    BY <1>9, MovementTable DEF ShiftDown, FromFirstToPark
  <2>3. Coherent(ShiftDown(u)) /\ ShiftDown(u).gear = "R4" /\ ShiftDown(u).currentDirection = u.currentDirection
    BY <2>1, <2>2, ShiftFact
  <2>. QED
    BY <1>9, <2>3, GearTable
<1>. QED
  BY <1>1, <1>2, <1>3, <1>4, <1>5, <1>6, <1>7, <1>8, <1>9 DEF UI, Gears

\* The two turning buttons: the wheel moves one notch towards the button, and
\* the gear and the movement stay.
LEMMA SteerFact ==
  ASSUME NEW u, Coherent(u), NEW d \in {"Izquierda", "Derecha"}
  PROVE  /\ Coherent(Steer(u, d))
         /\ Steer(u, d).gear = u.gear
         /\ Steer(u, d).speedValue = u.speedValue
         /\ \/ Steer(u, d).currentDirection = u.currentDirection
            \/ /\ d = "Izquierda" /\ WheelNumber(u.currentDirection) > -1
               /\ WheelNumber(Steer(u, d).currentDirection) = WheelNumber(u.currentDirection) - 1
            \/ /\ d = "Derecha" /\ WheelNumber(u.currentDirection) < 1
               /\ WheelNumber(Steer(u, d).currentDirection) = WheelNumber(u.currentDirection) + 1
<1>1. /\ u.currentDirection \in FrontDirections
      /\ d \in FrontDirections /\ "SinDireccion" \in FrontDirections
  BY DEF Coherent, UI, FrontDirections
<1>2. ASSUME NEW e \in FrontDirections
      PROVE  /\ Coherent([u EXCEPT !.currentDirection = e])
             /\ [u EXCEPT !.currentDirection = e].gear = u.gear
             /\ [u EXCEPT !.currentDirection = e].speedValue = u.speedValue
             /\ [u EXCEPT !.currentDirection = e].currentDirection = e
  BY DEF Coherent, UI
<1>3. CASE u.currentDirection \in {d, "SinDireccion"}
  <2>1. Steer(u, d) = [u EXCEPT !.currentDirection = d]
    BY <1>3 DEF Steer
  <2>2. /\ Coherent(Steer(u, d)) /\ Steer(u, d).gear = u.gear
        /\ Steer(u, d).speedValue = u.speedValue /\ Steer(u, d).currentDirection = d
    BY <1>1, <1>2, <2>1
  <2>. QED
    BY <1>3, <2>2, WheelTable
<1>4. CASE u.currentDirection \notin {d, "SinDireccion"}
  <2>1. Steer(u, d) = [u EXCEPT !.currentDirection = "SinDireccion"]
    BY <1>4 DEF Steer
  <2>2. /\ Coherent(Steer(u, d)) /\ Steer(u, d).gear = u.gear
        /\ Steer(u, d).speedValue = u.speedValue
        /\ Steer(u, d).currentDirection = "SinDireccion"
    BY <1>1, <1>2, <2>1
  <2>. QED
    BY <1>1, <1>4, <2>2, WheelTable DEF FrontDirections
<1>. QED
  BY <1>3, <1>4

\* The stop button: park, direction untouched.
LEMMA ParkFact ==
  ASSUME NEW u \in UI
  PROVE  /\ Coherent(Shift(u, "P", "Detenido", 0))
         /\ Shift(u, "P", "Detenido", 0).currentDirection = u.currentDirection
         /\ Shift(u, "P", "Detenido", 0).gear = "P"
<1>1. "P" \in Gears /\ 0 \in 0..100
  BY DEF Gears
<1>. QED
  BY <1>1, ShiftFact, MovementTable

\* Setting the status line disturbs nothing else.
LEMMA StatusFact ==
  ASSUME NEW u, Coherent(u), NEW s \in Statuses
  PROVE  LET v == [u EXCEPT !.vehicleStatus = s]
         IN  Coherent(v) /\ v.gear = u.gear /\ v.currentDirection = u.currentDirection
BY DEF Coherent, UI

-----------------------------------------------------------------------------
(* The five commands *)

\* What updateVehicleStatus comes to for each of the five commands.
LEMMA UpdateFact ==
  ASSUME NEW u
  PROVE  /\ updateVehicleStatus(u, "Adelante", u.currentDirection, "Moviendo", "MovementFunction")
              = [ShiftUp(u) EXCEPT !.vehicleStatus = "Moviendo"]
         /\ updateVehicleStatus(u, "Atras", u.currentDirection, "Moviendo", "MovementFunction")
              = [ShiftDown(u) EXCEPT !.vehicleStatus = "Moviendo"]
         /\ updateVehicleStatus(u, u.currentMovement, "Izquierda", "Girando", "DirectionFunction")
              = [Steer(u, "Izquierda") EXCEPT !.vehicleStatus = "Girando"]
         /\ updateVehicleStatus(u, u.currentMovement, "Derecha", "Girando", "DirectionFunction")
              = [Steer(u, "Derecha") EXCEPT !.vehicleStatus = "Girando"]
         /\ updateVehicleStatus(u, "Detenido", "SinDireccion", "Detenido", "MovementFunction")
              = [Shift(u, "P", "Detenido", 0) EXCEPT !.vehicleStatus = "Detenido"]
         /\ updateVehicleStatus(u, "Detenido", "SinDireccion", "Detenido", "DirectionFunction")
              = [u EXCEPT !.vehicleStatus = "Detenido"]
BY DEF updateVehicleStatus

PostType == [movement : {"none", "forward", "backward", ""}, speed : 0..100,
             direction : {"none", "left", "right", ""}]

\* A step that has posted: the page is coherent, what it shows is what it
\* posted, and the lever has made a legal move
Commanded ==
  /\ Coherent(ui')
  /\ last_post' \in PostType
  /\ last_post'.movement = mapMovementToBackend(ui'.currentMovement)
  /\ last_post'.direction = mapDirectionToBackend(ui'.currentDirection)
  /\ unanswered' \in 0..MaxInFlight
  /\ UNCHANGED carStatus

\* Posting a coherent state shows what was posted.
LEMMA PostFact ==
  ASSUME TypeOK, NEW u, Coherent(u), NEW s \in 0..100, Post(u, s)
  PROVE  Commanded
<1>1. ui' = u
  BY DEF Post
<1>2. unanswered' \in 0..MaxInFlight
  <2>1. unanswered \in 0..MaxInFlight /\ MaxInFlight \in Nat
    BY InFlightAssumption DEF TypeOK
  <2>2. unanswered < MaxInFlight /\ unanswered' = unanswered + 1
    BY DEF Post
  <2>. QED
    BY <2>1, <2>2
<1>3. /\ mapMovementToBackend(u.currentMovement) \in {"none", "forward", "backward", ""}
      /\ mapDirectionToBackend(u.currentDirection) \in {"none", "left", "right", ""}
  BY DEF mapMovementToBackend, mapDirectionToBackend
<1>4. last_post' = Command(mapMovementToBackend(u.currentMovement), s,
                           mapDirectionToBackend(u.currentDirection))
  BY DEF Post
<1>5. /\ last_post' \in PostType
      /\ last_post'.movement = mapMovementToBackend(u.currentMovement)
      /\ last_post'.direction = mapDirectionToBackend(u.currentDirection)
  BY <1>3, <1>4 DEF Command, PostType
<1>6. UNCHANGED carStatus
  BY DEF Post
<1>. QED
  BY <1>1, <1>2, <1>5, <1>6 DEF Commanded

\* The lever of GearLever makes one of its moves, or none.
LeverStep == [Lever!Next]_(Lever!vars)

\* Every command posts what it shows and moves the lever by at most a notch,
\* except to park.
LEMMA CommandFact ==
  ASSUME TypeOK, GearMatchesMovement, NEW key, CommandOf(key)
  PROVE  Commanded /\ LeverStep
<1>1. ui \in UI /\ Coherent(ui)
  BY DEF TypeOK, UI, GearMatchesMovement, Coherent, MovementOf
<1>2. ASSUME NEW u, Coherent(u) PROVE u.speedValue \in 0..100
  BY <1>2 DEF Coherent, UI
<1>3. /\ "Moviendo" \in Statuses /\ "Girando" \in Statuses /\ "Detenido" \in Statuses
  BY DEF Statuses
<1>4. ASSUME moveForward PROVE Commanded /\ LeverStep
  <2>. DEFINE u == [ShiftUp(ui) EXCEPT !.vehicleStatus = "Moviendo"]
  <2>1. Post(u, u.speedValue)
    BY <1>4, UpdateFact DEF moveForward
  <2>2. Coherent(u) /\ u.gear = ShiftUp(ui).gear /\ u.currentDirection = ShiftUp(ui).currentDirection
    BY <1>1, <1>3, ShiftUpFact, StatusFact
  <2>3. Commanded /\ ui' = u
    BY <1>2, <2>1, <2>2, PostFact DEF Post
  <2>4. LeverStep
    BY <1>1, <2>2, <2>3, ShiftUpFact DEF LeverStep, Lever!Next, Lever!Up, Lever!vars
  <2>. QED
    BY <2>3, <2>4
<1>5. ASSUME moveBackward PROVE Commanded /\ LeverStep
  <2>. DEFINE u == [ShiftDown(ui) EXCEPT !.vehicleStatus = "Moviendo"]
  <2>1. Post(u, u.speedValue)
    BY <1>5, UpdateFact DEF moveBackward
  <2>2. Coherent(u) /\ u.gear = ShiftDown(ui).gear /\ u.currentDirection = ShiftDown(ui).currentDirection
    BY <1>1, <1>3, ShiftDownFact, StatusFact
  <2>3. Commanded /\ ui' = u
    BY <1>2, <2>1, <2>2, PostFact DEF Post
  <2>4. LeverStep
    BY <1>1, <2>2, <2>3, ShiftDownFact DEF LeverStep, Lever!Next, Lever!Down, Lever!vars
  <2>. QED
    BY <2>3, <2>4
<1>6. ASSUME moveLeft PROVE Commanded /\ LeverStep
  <2>. DEFINE u == [Steer(ui, "Izquierda") EXCEPT !.vehicleStatus = "Girando"]
  <2>1. Post(u, u.speedValue)
    BY <1>6, UpdateFact DEF moveLeft
  <2>2. Coherent(u) /\ u.gear = Steer(ui, "Izquierda").gear /\ u.currentDirection = Steer(ui, "Izquierda").currentDirection
    BY <1>1, <1>3, SteerFact, StatusFact
  <2>3. Commanded /\ ui' = u
    BY <1>2, <2>1, <2>2, PostFact DEF Post
  <2>4. LeverStep
    BY <1>1, <2>2, <2>3, SteerFact DEF LeverStep, Lever!Next, Lever!Left, Lever!vars
  <2>. QED
    BY <2>3, <2>4
<1>7. ASSUME moveRight PROVE Commanded /\ LeverStep
  <2>. DEFINE u == [Steer(ui, "Derecha") EXCEPT !.vehicleStatus = "Girando"]
  <2>1. Post(u, u.speedValue)
    BY <1>7, UpdateFact DEF moveRight
  <2>2. Coherent(u) /\ u.gear = Steer(ui, "Derecha").gear /\ u.currentDirection = Steer(ui, "Derecha").currentDirection
    BY <1>1, <1>3, SteerFact, StatusFact
  <2>3. Commanded /\ ui' = u
    BY <1>2, <2>1, <2>2, PostFact DEF Post
  <2>4. LeverStep
    BY <1>1, <2>2, <2>3, SteerFact DEF LeverStep, Lever!Next, Lever!Right, Lever!vars
  <2>. QED
    BY <2>3, <2>4
<1>8. ASSUME stopCar PROVE Commanded /\ LeverStep
  <2>. DEFINE v == [Shift(ui, "P", "Detenido", 0) EXCEPT !.vehicleStatus = "Detenido"]
  <2>. DEFINE u == [v EXCEPT !.vehicleStatus = "Detenido"]
  <2>1. Post(u, 0)
    BY <1>8, UpdateFact DEF stopCar
  <2>2. Coherent(v) /\ v.gear = "P" /\ v.currentDirection = ui.currentDirection
    BY <1>1, <1>3, ParkFact, StatusFact
  <2>3. Coherent(u) /\ u.gear = "P" /\ u.currentDirection = ui.currentDirection
    BY <1>3, <2>2, StatusFact
  <2>4. Commanded /\ ui' = u
    <3>1. 0 \in 0..100
      OBVIOUS
    <3>. QED
      BY <2>1, <2>3, <3>1, PostFact DEF Post
  <2>5. LeverStep
    BY <2>3, <2>4, GearTable DEF LeverStep, Lever!Next, Lever!Park, Lever!vars
  <2>. QED
    BY <2>4, <2>5
<1>. QED
  BY <1>4, <1>5, <1>6, <1>7, <1>8 DEF CommandOf

-----------------------------------------------------------------------------
(* The inductive invariant *)

\* A key that has acted since it went down is in the set that filters its
\* repeats.
ActiveKeysFilter == \A key \in Keys : acts[key] = 1 => key \in activeKeys

IInv == TypeOK /\ GearMatchesMovement /\ ShownIsPosted /\ HeldKeyActsOnce /\ ActiveKeysFilter

\* The part of IInv about the page, as against its keys
PageInv == /\ Coherent(ui)
           /\ last_post \in PostType
           /\ ShownIsPosted
           /\ unanswered \in 0..MaxInFlight
           /\ carStatus \in [isConnected : BOOLEAN, vehicleStatus : {"Detenido", "ErrorDeConexion"}]

KeysInv == /\ activeKeys \subseteq ALLOWED_KEYS
           /\ held \subseteq ALLOWED_KEYS
           /\ focused \in BOOLEAN
           /\ acts \in [Keys -> Nat]
           /\ HeldKeyActsOnce
           /\ ActiveKeysFilter

\* The two parts are the invariant.
LEMMA IInvParts == IInv <=> PageInv /\ KeysInv
BY DEF IInv, PageInv, KeysInv, TypeOK, PostType, UI, Coherent, MovementOf, GearMatchesMovement

\* The page starts parked, with nothing posted and no key active.
LEMMA InitInv == Init => IInv
<1>. SUFFICES ASSUME Init PROVE PageInv /\ KeysInv
  BY IInvParts
<1>1. Coherent(ui)
  BY DEF Init, Coherent, UI, Gears, FrontMovements, FrontDirections, Statuses, MovementOf
<1>2. last_post \in PostType /\ ShownIsPosted
  <2>1. last_post = NoPost /\ 0 \in 0..100
    BY DEF Init
  <2>. QED
    BY <2>1 DEF NoPost, Command, PostType, ShownIsPosted
<1>3. PageInv
  BY <1>1, <1>2, InFlightAssumption DEF Init, PageInv
<1>4. KeysInv
  BY DEF Init, KeysInv, HeldKeyActsOnce, ActiveKeysFilter
<1>. QED
  BY <1>3, <1>4

\* A command keeps the part of the invariant about the page.
LEMMA CommandInv ==
  ASSUME IInv, NEW key, CommandOf(key)
  PROVE  PageInv' /\ LeverStep
<1>1. Commanded /\ LeverStep
  BY CommandFact DEF IInv
<1>2. PageInv
  BY IInvParts
<1>. QED
  BY <1>1, <1>2 DEF Commanded, PageInv, ShownIsPosted

\* Handling a key that goes down or repeats: it acts only when it is not yet
\* active, and is active afterwards.
LEMMA KeyDownInv ==
  ASSUME IInv, NEW key \in ALLOWED_KEYS, onKeyDown(key)
  PROVE  /\ PageInv' /\ LeverStep
         /\ activeKeys' \subseteq ALLOWED_KEYS
         /\ acts' \in [Keys -> Nat]
         /\ HeldKeyActsOnce'
         /\ ActiveKeysFilter'
<1>1. PageInv /\ KeysInv
  BY IInvParts
<1>2. CASE key \in activeKeys /\ Ignored
  BY <1>1, <1>2 DEF Ignored, PageInv, KeysInv, HeldKeyActsOnce, ActiveKeysFilter, ShownIsPosted,
     LeverStep, Lever!vars
<1>3. CASE /\ key \notin activeKeys
           /\ activeKeys' = activeKeys \cup {key}
           /\ acts' = [acts EXCEPT ![key] = @ + 1]
           /\ CommandOf(key)
  <2>1. PageInv' /\ LeverStep
    BY <1>3, CommandInv
  <2>2. key \in Keys /\ acts[key] = 0
    BY <1>1, <1>3, KeysAssumption DEF KeysInv, HeldKeyActsOnce, ActiveKeysFilter
  <2>3. acts' \in [Keys -> Nat] /\ \A k \in Keys : acts'[k] = IF k = key THEN 1 ELSE acts[k]
    BY <1>1, <1>3, <2>2 DEF KeysInv
  <2>4. HeldKeyActsOnce' /\ ActiveKeysFilter'
    BY <1>1, <1>3, <2>3 DEF KeysInv, HeldKeyActsOnce, ActiveKeysFilter
  <2>5. activeKeys' \subseteq ALLOWED_KEYS
    BY <1>1, <1>3 DEF KeysInv
  <2>. QED
    BY <2>1, <2>3, <2>4, <2>5
<1>. QED
  BY <1>2, <1>3 DEF onKeyDown

\* Every event keeps the invariant and is a step of the lever, or none.
LEMMA StepInv == IInv /\ [Next]_vars => IInv' /\ LeverStep
<1>. SUFFICES ASSUME IInv, [Next]_vars PROVE PageInv' /\ KeysInv' /\ LeverStep
  BY IInvParts, PTL
<1>1. PageInv /\ KeysInv
  BY IInvParts
<1>. USE DEF LeverStep, Lever!vars
<1>2. ASSUME NEW key \in ALLOWED_KEYS, KeyPress(key) PROVE PageInv' /\ KeysInv' /\ LeverStep
  <2>1. held' \subseteq ALLOWED_KEYS /\ focused' \in BOOLEAN
    BY <1>1, <1>2 DEF KeyPress, KeysInv
  <2>2. CASE onKeyDown(key)
    BY <2>1, <2>2, KeyDownInv DEF KeysInv
  <2>3. CASE Ignored
    BY <1>1, <2>1, <2>3 DEF Ignored, PageInv, KeysInv, HeldKeyActsOnce, ActiveKeysFilter,
       ShownIsPosted
  <2>. QED
    BY <1>2, <2>2, <2>3 DEF KeyPress
<1>3. ASSUME NEW key \in ALLOWED_KEYS, KeyRepeat(key) PROVE PageInv' /\ KeysInv' /\ LeverStep
  <2>1. held' \subseteq ALLOWED_KEYS /\ focused' \in BOOLEAN /\ onKeyDown(key)
    BY <1>1, <1>3 DEF KeyRepeat, env, KeysInv
  <2>. QED
    BY <2>1, KeyDownInv DEF KeysInv
<1>4. ASSUME NEW key \in ALLOWED_KEYS, KeyRelease(key) PROVE PageInv' /\ KeysInv' /\ LeverStep
  <2>1. acts' = [acts EXCEPT ![key] = 0] /\ (activeKeys' = activeKeys \ {key} \/ UNCHANGED activeKeys)
    BY <1>4 DEF KeyRelease, onKeyUp
  <2>2. HeldKeyActsOnce' /\ ActiveKeysFilter' /\ acts' \in [Keys -> Nat]
        /\ activeKeys' \subseteq ALLOWED_KEYS
    <3>1. /\ acts' \in [Keys -> Nat]
          /\ \A k \in Keys : acts'[k] = IF k = key THEN 0 ELSE acts[k]
      BY <1>1, <2>1 DEF KeysInv
    <3>2. \A k \in Keys \ {key} : k \in activeKeys => k \in activeKeys'
      BY <2>1
    <3>. QED
      BY <1>1, <2>1, <3>1, <3>2 DEF KeysInv, HeldKeyActsOnce, ActiveKeysFilter
  <2>3. PageInv' /\ LeverStep
    BY <1>1, <1>4 DEF KeyRelease, PageInv, ShownIsPosted
  <2>4. held' \subseteq ALLOWED_KEYS /\ focused' \in BOOLEAN
    BY <1>1, <1>4 DEF KeyRelease, KeysInv
  <2>. QED
    BY <2>2, <2>3, <2>4 DEF KeysInv
<1>5. ASSUME NEW button \in Keys, Click(button) PROVE PageInv' /\ KeysInv' /\ LeverStep
  <2>1. PageInv' /\ LeverStep
    BY <1>5, CommandInv DEF Click
  <2>2. KeysInv'
    BY <1>1, <1>5 DEF Click, KeysInv, HeldKeyActsOnce, ActiveKeysFilter
  <2>. QED
    BY <2>1, <2>2
<1>6. ASSUME NEW speed \in SliderSpeeds, Slide(speed) PROVE PageInv' /\ KeysInv' /\ LeverStep
  <2>1. speed \in 0..100
    BY SliderAssumption
  <2>2. /\ Coherent(ui') /\ ui'.gear = ui.gear
        /\ ui'.currentMovement = ui.currentMovement /\ ui'.currentDirection = ui.currentDirection
    BY <1>1, <1>6, <2>1 DEF Slide, PageInv, Coherent, UI
  <2>3. PageInv' /\ LeverStep
    BY <1>1, <1>6, <2>2 DEF Slide, PageInv, ShownIsPosted
  <2>4. KeysInv'
    BY <1>1, <1>6 DEF Slide, KeysInv, HeldKeyActsOnce, ActiveKeysFilter
  <2>. QED
    BY <2>3, <2>4
<1>7. ASSUME NEW status \in {200, 400, 500, 0}, Answer(status)
      PROVE  PageInv' /\ KeysInv' /\ LeverStep
  <2>1. unanswered' \in 0..MaxInFlight
    BY <1>1, <1>7, InFlightAssumption DEF Answer, PageInv
  <2>2. carStatus' \in [isConnected : BOOLEAN, vehicleStatus : {"Detenido", "ErrorDeConexion"}]
    BY <1>1, <1>7 DEF Answer, PageInv
  <2>3. PageInv' /\ LeverStep
    BY <1>1, <1>7, <2>1, <2>2 DEF Answer, PageInv, ShownIsPosted
  <2>4. KeysInv'
    BY <1>1, <1>7 DEF Answer, KeysInv, HeldKeyActsOnce, ActiveKeysFilter
  <2>. QED
    BY <2>3, <2>4
<1>8. ASSUME FocusChange PROVE PageInv' /\ KeysInv' /\ LeverStep
  BY <1>1, <1>8 DEF FocusChange, Ignored, PageInv, KeysInv, HeldKeyActsOnce, ActiveKeysFilter,
     ShownIsPosted
<1>9. ASSUME Logout PROVE PageInv' /\ KeysInv' /\ LeverStep
  <2>1. Coherent(ui') /\ ui'.gear = "P" /\ ui'.currentDirection = "SinDireccion"
    BY <1>9 DEF Logout, Coherent, UI, Gears, FrontMovements, FrontDirections, Statuses, MovementOf
  <2>2. last_post' = NoPost /\ 0 \in 0..100
    BY <1>9 DEF Logout
  <2>3. last_post' \in PostType /\ ShownIsPosted'
    BY <2>2 DEF NoPost, Command, PostType, ShownIsPosted
  <2>4. PageInv'
    BY <1>1, <1>9, <2>1, <2>3 DEF Logout, PageInv
  <2>5. LeverStep
    BY <2>1, GearTable, WheelTable DEF Lever!Next, Lever!Leave
  <2>6. KeysInv'
    BY <1>1, <1>9 DEF Logout, KeysInv, HeldKeyActsOnce, ActiveKeysFilter
  <2>. QED
    BY <2>4, <2>5, <2>6
<1>10. ASSUME UNCHANGED vars PROVE PageInv' /\ KeysInv' /\ LeverStep
  BY <1>1, <1>10 DEF vars, PageInv, KeysInv, HeldKeyActsOnce, ActiveKeysFilter, ShownIsPosted
<1>. QED
  BY <1>2, <1>3, <1>4, <1>5, <1>6, <1>7, <1>8, <1>9, <1>10 DEF Next

-----------------------------------------------------------------------------
(* The theorems *)

\* IInv is an invariant of the page.
LEMMA Inductive == Spec => []IInv
BY InitInv, StepInv, PTL DEF Spec

\* The page keeps its types: every state of the two switches of
\* updateVehicleStatus is one of the nine gears with a legal speed.
THEOREM TypeCorrect == Spec => []TypeOK
BY Inductive, PTL DEF IInv

\* The gear and the movement, two fields that updateVehicleStatus writes in
\* 18 separate cases, never disagree.
THEOREM GearMatches == Spec => []GearMatchesMovement
BY Inductive, PTL DEF IInv

\* The five commands post the state the driver sees, never the one before it.
THEOREM ShownPosted == Spec => []ShownIsPosted
BY Inductive, PTL DEF IInv

\* onKeyDown and onKeyUp let a key act once for each press, whatever the
\* repeats, the other keys and the focus do.
THEOREM KeyActsOnce == Spec => []HeldKeyActsOnce
BY Inductive, PTL DEF IInv

\* The page implements the lever and the wheel of GearLever.
THEOREM ImplementsLever == Spec => ImplementsGearLever
<1>1. Init => Lever!Init
  BY GearTable, WheelTable DEF Init, Lever!Init
<1>2. IInv /\ [Next]_vars => [Lever!Next]_(Lever!vars)
  BY StepInv DEF LeverStep
<1>. QED
  BY <1>1, <1>2, Inductive, PTL DEF Spec, ImplementsGearLever, Lever!Spec
=============================================================================
