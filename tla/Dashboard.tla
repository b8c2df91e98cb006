----------------------------- MODULE Dashboard ------------------------------
(***************************************************************************)
(* The driving controls of the browser page (dashboard/dashboard.ts) and   *)
(* the call they make on MovementService (services/movement.service.ts).   *)
(*                                                                         *)
(* JavaScript runs one event handler to its end, so a handler is one       *)
(* action.  Icons, logging and the key indicator text are left out.        *)
(* The keyboard and the focus of the window are the environment: `held`    *)
(* holds the keys that are physically down, while the page only sees the   *)
(* events that reach it while it has the focus.                            *)
(***************************************************************************)
EXTENDS Integers, FiniteSets

CONSTANTS
  ALLOWED_KEYS,        \* the keys the page reacts to
  SliderSpeeds,        \* positions the user drags the speed slider to
  MaxInFlight          \* bound: POSTs without an answer

Keys == {"ArrowUp", "ArrowDown", "ArrowLeft", "ArrowRight", "Space"}

ASSUME KeysAssumption     == ALLOWED_KEYS \subseteq Keys
ASSUME SliderAssumption   == SliderSpeeds \subseteq 0..100
ASSUME InFlightAssumption == MaxInFlight \in Nat \ {0}

VARIABLES
  ui,                  \* gear, currentMovement, currentDirection, speedValue, vehicleStatus
  activeKeys,          \* the Set that filters key repeats
  held, focused,       \* the keyboard and the window's focus
  acts,                \* history: times a key has acted since it went down
  last_post,           \* the last command this page has posted
  unanswered,          \* POSTs whose Observable has not emitted yet
  carStatus            \* MovementService.carStatusSubject

vars == <<ui, activeKeys, held, focused, acts, last_post, unanswered, carStatus>>
env  == <<held, focused>>

Gears == {"R4", "R3", "R2", "R1", "P", "1", "2", "3", "4"}
FrontMovements  == {"Adelante", "Atras", "Detenido"}
FrontDirections == {"Izquierda", "SinDireccion", "Derecha"}
Statuses == {"Detenido", "Moviendo", "Girando", "Error"}

\* Mutant: the movement is sent as it is shown
mapMovementUntranslated(movement) == movement

\* Helper functions to map frontend values to backend values
mapMovementToBackend(movement) ==
  CASE movement = "Adelante" -> "forward"
    [] movement = "Atras"    -> "backward"
    [] OTHER                 -> "none"

mapDirectionToBackend(direction) ==
  CASE direction = "Izquierda" -> "left"
    [] direction = "Derecha"   -> "right"
    [] OTHER                   -> "none"

Command(m, s, d) == [movement |-> m, speed |-> s, direction |-> d]
NoPost == Command("", 0, "")

-----------------------------------------------------------------------------
(* updateVehicleStatus *)
Shift(u, g, m, s) ==
  [u EXCEPT !.gear = g, !.currentMovement = m, !.speedValue = s]

\* The switch of 'Adelante': one gear up
ShiftUp(u) ==
  CASE u.gear = "R4" -> Shift(u, "R3", "Atras", 75)
    [] u.gear = "R3" -> Shift(u, "R2", "Atras", 50)
    [] u.gear = "R2" -> Shift(u, "R1", "Atras", 25)
    [] u.gear = "R1" -> Shift(u, "P", "Detenido", 0)
    [] u.gear = "P"  -> Shift(u, "1", "Adelante", 25)
    [] u.gear = "1"  -> Shift(u, "2", "Adelante", 50)
    [] u.gear = "2"  -> Shift(u, "3", "Adelante", 75)
    [] u.gear = "3"  -> Shift(u, "4", "Adelante", 100)
    [] u.gear = "4"  -> Shift(u, "4", "Adelante", 100)

\* Mutant: reverse is engaged without passing through park
FromFirstToReverse(u) == Shift(u, "R1", "Atras", 25)

\* Mutant: park keeps the movement of first gear
FromFirstKeepsMovement(u) == Shift(u, "P", "Adelante", 0)

\* case '1' of the switch of 'Atras'
FromFirstToPark(u) == Shift(u, "P", "Detenido", 0)

\* The switch of 'Atras': one gear down
ShiftDown(u) ==
  CASE u.gear = "4"  -> Shift(u, "3", "Adelante", 75)
    [] u.gear = "3"  -> Shift(u, "2", "Adelante", 50)
    [] u.gear = "2"  -> Shift(u, "1", "Adelante", 25)
    [] u.gear = "1"  -> FromFirstToPark(u)
    [] u.gear = "P"  -> Shift(u, "R1", "Atras", 25)
    [] u.gear = "R1" -> Shift(u, "R2", "Atras", 50)
    [] u.gear = "R2" -> Shift(u, "R3", "Atras", 75)
    [] u.gear = "R3" -> Shift(u, "R4", "Atras", 100)
    [] u.gear = "R4" -> Shift(u, "R4", "Atras", 100)

\* A turn against the current direction straightens the wheel first
Steer(u, direction) ==
  [u EXCEPT !.currentDirection =
     IF u.currentDirection \in {direction, "SinDireccion"} THEN direction
     ELSE "SinDireccion"]

\* A direction acts only on behalf of the direction buttons, a movement only
\* on behalf of the movement buttons; any other word only sets the status
updateVehicleStatus(u, movement, direction, status, requestedBy) ==
  LET steered == IF requestedBy = "DirectionFunction" /\ direction \in {"Izquierda", "Derecha"}
                 THEN Steer(u, direction) ELSE u
      shifted == IF requestedBy # "MovementFunction" THEN steered
                 ELSE CASE movement = "Adelante" -> ShiftUp(steered)
                        [] movement = "Atras"    -> ShiftDown(steered)
                        [] movement = "Detenido" -> Shift(steered, "P", "Detenido", 0)
                        [] OTHER                 -> steered
  IN  [shifted EXCEPT !.vehicleStatus = status]

-----------------------------------------------------------------------------
(* The five commands *)

\* Mutant: the command is built from the state before the update
PostOfOldState(u, speed) ==
  /\ unanswered < MaxInFlight
  /\ ui' = u
  /\ last_post' = Command(mapMovementToBackend(ui.currentMovement), speed,
                          mapDirectionToBackend(ui.currentDirection))
  /\ unanswered' = unanswered + 1
  /\ UNCHANGED carStatus

\* movementService.updateCarMovement(...): one POST for each command
Post(u, speed) ==
  /\ unanswered < MaxInFlight
  /\ ui' = u
  /\ last_post' = Command(mapMovementToBackend(u.currentMovement), speed,
                          mapDirectionToBackend(u.currentDirection))
  /\ unanswered' = unanswered + 1
  /\ UNCHANGED carStatus

moveForward ==
  LET u == updateVehicleStatus(ui, "Adelante", ui.currentDirection, "Moviendo", "MovementFunction")
  IN  Post(u, u.speedValue)

moveBackward ==
  LET u == updateVehicleStatus(ui, "Atras", ui.currentDirection, "Moviendo", "MovementFunction")
  IN  Post(u, u.speedValue)

moveLeft ==
  LET u == updateVehicleStatus(ui, ui.currentMovement, "Izquierda", "Girando", "DirectionFunction")
  IN  Post(u, u.speedValue)

moveRight ==
  LET u == updateVehicleStatus(ui, ui.currentMovement, "Derecha", "Girando", "DirectionFunction")
  IN  Post(u, u.speedValue)

\* 'SinDireccion' has no branch in updateVehicleStatus: the direction stays
stopCar ==
  LET u1 == updateVehicleStatus(ui, "Detenido", "SinDireccion", "Detenido", "MovementFunction")
      u2 == updateVehicleStatus(u1, "Detenido", "SinDireccion", "Detenido", "DirectionFunction")
  IN  Post(u2, 0)

CommandOf(key) ==
  \/ key = "ArrowUp"    /\ moveForward
  \/ key = "ArrowDown"  /\ moveBackward
  \/ key = "ArrowLeft"  /\ moveLeft
  \/ key = "ArrowRight" /\ moveRight
  \/ key = "Space"      /\ stopCar

-----------------------------------------------------------------------------
(* Events *)
Init ==
  /\ ui = [gear |-> "P", currentMovement |-> "Detenido", currentDirection |-> "SinDireccion",
           speedValue |-> 0, vehicleStatus |-> "Detenido"]
  /\ activeKeys = {}
  /\ held = {}
  /\ focused = TRUE
  /\ acts = [k \in Keys |-> 0]
  /\ last_post = NoPost
  /\ unanswered = 0
  /\ carStatus = [isConnected |-> FALSE, vehicleStatus |-> "Detenido"]

Ignored == UNCHANGED <<ui, activeKeys, acts, last_post, unanswered, carStatus>>

\* The handler of window:keydown, for a key that goes down or repeats
onKeyDown(key) ==
  \/ key \in activeKeys /\ Ignored
  \/ /\ key \notin activeKeys
     /\ activeKeys' = activeKeys \cup {key}
     /\ acts' = [acts EXCEPT ![key] = @ + 1]
     /\ CommandOf(key)

\* Mutant: any released key clears the whole set
onKeyUpClears(key) == activeKeys' = {}

\* The handler of window:keyup
onKeyUp(key) == activeKeys' = activeKeys \ {key}

KeyPress(key) ==
  /\ key \notin held
  /\ held' = held \cup {key}
  /\ IF focused THEN onKeyDown(key) ELSE Ignored
  /\ UNCHANGED focused

KeyRepeat(key) ==
  /\ key \in held
  /\ focused
  /\ onKeyDown(key)
  /\ UNCHANGED env

\* A key released while another window has the focus is not reported here
KeyRelease(key) ==
  /\ key \in held
  /\ held' = held \ {key}
  /\ acts' = [acts EXCEPT ![key] = 0]
  /\ IF focused THEN onKeyUp(key) ELSE UNCHANGED activeKeys
  /\ UNCHANGED <<focused, ui, last_post, unanswered, carStatus>>

FocusChange == focused' = ~focused /\ Ignored /\ UNCHANGED held

\* The D-pad buttons call the same five functions
Click(button) == CommandOf(button) /\ UNCHANGED <<activeKeys, acts, held, focused>>

\* [(ngModel)]="speedValue"; onSpeedChange only logs
Slide(speed) ==
  /\ ui' = [ui EXCEPT !.speedValue = speed]
  /\ UNCHANGED <<activeKeys, acts, last_post, unanswered, carStatus, held, focused>>

\* The answer of a POST.  The status the service waits for is 'updated' and
\* the server says 'Updated.', so a success changes nothing; handleError
\* turns a failure into an emitted value, so the page's error callback is
\* never called and only the service's own status changes
Answer(status) ==
  /\ unanswered > 0
  /\ unanswered' = unanswered - 1
  /\ carStatus' = IF status \in {0, 500}
                  THEN [isConnected |-> FALSE, vehicleStatus |-> "ErrorDeConexion"]
                  ELSE carStatus
  /\ UNCHANGED <<ui, activeKeys, acts, last_post, held, focused>>

\* logout and ngOnDestroy; the page comes back as a new component.  The car
\* keeps the last command
Logout ==
  /\ ui' = [gear |-> "P", currentMovement |-> "Detenido", currentDirection |-> "SinDireccion",
            speedValue |-> 0, vehicleStatus |-> "Detenido"]
  /\ activeKeys' = {}
  /\ acts' = [k \in Keys |-> 0]
  /\ last_post' = NoPost
  /\ UNCHANGED <<unanswered, carStatus, held, focused>>

Next ==
  \/ \E key \in ALLOWED_KEYS : KeyPress(key) \/ KeyRepeat(key) \/ KeyRelease(key)
  \/ \E button \in Keys : Click(button)
  \/ \E speed \in SliderSpeeds : Slide(speed)
  \/ \E status \in {200, 400, 500, 0} : Answer(status)
  \/ FocusChange
  \/ Logout

Spec == Init /\ [][Next]_vars
-----------------------------------------------------------------------------
TypeOK ==
  /\ ui \in [gear : Gears, currentMovement : FrontMovements, currentDirection : FrontDirections,
             speedValue : 0..100, vehicleStatus : Statuses]
  /\ activeKeys \subseteq ALLOWED_KEYS
  /\ held \subseteq ALLOWED_KEYS
  /\ focused \in BOOLEAN
  /\ acts \in [Keys -> Nat]
  /\ last_post \in [movement : {"none", "forward", "backward", ""}, speed : 0..100,
                    direction : {"none", "left", "right", ""}]
  /\ unanswered \in 0..MaxInFlight
  /\ carStatus \in [isConnected : BOOLEAN, vehicleStatus : {"Detenido", "ErrorDeConexion"}]

\* The gear shown and the movement shown never disagree, through any mix of
\* keys, buttons, slider and logout: the 18 cases of the two switches and the
\* stop button keep two separate fields in step.
GearMatchesMovement ==
  ui.currentMovement = CASE ui.gear \in {"R4", "R3", "R2", "R1"} -> "Atras"
                         [] ui.gear = "P"                        -> "Detenido"
                         [] OTHER                                -> "Adelante"

\* The page never shows a movement or a direction other than the one it has
\* posted last: the five commands post the state after the update.
ShownIsPosted ==
  last_post # NoPost =>
    /\ last_post.movement = mapMovementToBackend(ui.currentMovement)
    /\ last_post.direction = mapDirectionToBackend(ui.currentDirection)

\* A key acts at most once while it is held down, however often the keyboard
\* repeats it and whatever happens to the other keys or to the focus: one
\* press is one gear.
HeldKeyActsOnce == \A key \in Keys : acts[key] <= 1

\* ngOnInit announces "Barra Espaciadora: Detener": a press of the space bar
\* that the page receives posts a stop.
SpaceStops ==
  [][focused /\ "Space" \in held' \ held => unanswered' = unanswered + 1 /\ last_post'.speed = 0]_vars

\* Whatever the driver does, the page behaves as the lever of GearLever.
GearNumber(g) ==
  CASE g = "R4" -> -4 [] g = "R3" -> -3 [] g = "R2" -> -2 [] g = "R1" -> -1
    [] g = "P" -> 0 [] g = "1" -> 1 [] g = "2" -> 2 [] g = "3" -> 3 [] OTHER -> 4
WheelNumber(d) ==
  CASE d = "Izquierda" -> -1 [] d = "Derecha" -> 1 [] OTHER -> 0

Lever == INSTANCE GearLever WITH lever <- GearNumber(ui.gear),
                                 wheel <- WheelNumber(ui.currentDirection)

\* The dashboard implements GearLever: no event, in no state, moves the lever
\* by more than one notch except to park, or the wheel by more than one.
ImplementsGearLever == Lever!Spec
=============================================================================
