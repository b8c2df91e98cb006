-------------------------- MODULE CarSystem_proofs --------------------------
(***************************************************************************)
(* Proofs about the whole control path, for any buttons, bounds, faults    *)
(* and PWM threads that serve alarms: TypeOK, CarRunsWholeCommands,        *)
(* WheelsFollowOneCommand, and that the system is made of its components   *)
(* (RunsItsComponents).                                                    *)
(*                                                                         *)
(* A command is followed on its way: the record the page posts, the three  *)
(* globals of the server that together are one posted command or nothing,  *)
(* what the car's poll makes of them, and the field-wise copy at the end.  *)
(* What holds of a component in every environment is not proved again: a   *)
(* step of the system is a step of each component or leaves it alone, and  *)
(* the inductive invariants of the components carry over.                  *)
(***************************************************************************)
EXTENDS CarSystem, FiniteSetTheorems, TLAPS

\* What the car's poll may meet here
CarAnswers == [reply : BOOLEAN,
               body : [movement : Movements \cup {""}, direction : Directions \cup {""},
                       speed : {Number(2 * s) : s \in 0..100} \cup {Absent}]]

\* The components once more, with what is proved of them
PageP   == INSTANCE Dashboard_proofs WITH ALLOWED_KEYS <- {}, SliderSpeeds <- {}
ServerP == INSTANCE CarBackend_proofs WITH Speeds <- {Number(2 * s) : s \in 0..100}
CarP    == INSTANCE GpioController_proofs WITH
             Signals <- {}, api <- Served, Answers <- CarAnswers

-----------------------------------------------------------------------------
(* Both instances of a component are the same module *)

\* The page's commands.
LEMMA SameCommands == \A button : Page!Click(button) <=> PageP!Click(button)
<1>1. \A u, m, d, s, by :
        Page!updateVehicleStatus(u, m, d, s, by) = PageP!updateVehicleStatus(u, m, d, s, by)
  BY DEF Page!updateVehicleStatus, PageP!updateVehicleStatus, Page!Steer, PageP!Steer, Page!ShiftUp, PageP!ShiftUp,
    Page!ShiftDown, PageP!ShiftDown, Page!Shift, PageP!Shift, Page!FromFirstToPark, PageP!FromFirstToPark
<1>2. \A u, s : Page!Post(u, s) <=> PageP!Post(u, s)
  BY DEF Page!Post, PageP!Post, Page!Command, PageP!Command, Page!mapMovementToBackend, PageP!mapMovementToBackend,
    Page!mapDirectionToBackend, PageP!mapDirectionToBackend
<1>. QED
  BY <1>1, <1>2
  DEF Page!Click, PageP!Click, Page!CommandOf, PageP!CommandOf, Page!moveForward, PageP!moveForward,
    Page!moveBackward, PageP!moveBackward, Page!moveLeft, PageP!moveLeft, Page!moveRight, PageP!moveRight,
    Page!stopCar, PageP!stopCar

\* The page.
LEMMA SamePage ==
  /\ Page!Init <=> PageP!Init
  /\ Page!Next <=> PageP!Next
  /\ Page!vars = PageP!vars
  /\ Page!TypeOK <=> PageP!TypeOK
  /\ Page!Keys = PageP!Keys
<1>1. Page!Keys = PageP!Keys /\ Page!NoPost = PageP!NoPost
  BY DEF Page!Keys, PageP!Keys, Page!NoPost, PageP!NoPost, Page!Command, PageP!Command
<1>2. \A status : Page!Answer(status) <=> PageP!Answer(status)
  BY DEF Page!Answer, PageP!Answer
<1>3. (Page!Logout <=> PageP!Logout) /\ (Page!FocusChange <=> PageP!FocusChange)
  BY <1>1 DEF Page!Logout, PageP!Logout, Page!FocusChange, PageP!FocusChange, Page!Ignored, PageP!Ignored
<1>4. Page!Next <=> PageP!Next
  BY <1>1, <1>2, <1>3, SameCommands DEF Page!Next, PageP!Next
<1>5. Page!Init <=> PageP!Init
  BY <1>1 DEF Page!Init, PageP!Init
<1>6. Page!TypeOK <=> PageP!TypeOK
  BY <1>1 DEF Page!TypeOK, PageP!TypeOK, Page!Gears, PageP!Gears, Page!FrontMovements, PageP!FrontMovements,
    Page!FrontDirections, PageP!FrontDirections, Page!Statuses, PageP!Statuses
<1>. QED
  BY <1>1, <1>4, <1>5, <1>6 DEF Page!vars, PageP!vars

\* The server.
LEMMA SameServer ==
  /\ Server!Init <=> ServerP!Init
  /\ Server!Next <=> ServerP!Next
  /\ Server!vars = ServerP!vars
  /\ Server!TypeOK <=> ServerP!TypeOK
<1>. USE DEF Server!Movements, ServerP!Movements, Server!Directions, ServerP!Directions, Server!Ok, ServerP!Ok,
    Server!Error, ServerP!Error, Server!Absent, ServerP!Absent, Server!Undeclared, ServerP!Undeclared,
    Server!Speed, ServerP!Speed
<1>1. \A m, s, d : Server!update_car_movement(m, s, d) <=> ServerP!update_car_movement(m, s, d)
  BY DEF Server!update_car_movement, ServerP!update_car_movement, Server!UpdateError, ServerP!UpdateError, Server!UpdateAccepted, ServerP!UpdateAccepted,
    Server!SpeedRejected, ServerP!SpeedRejected, Server!Truthy, ServerP!Truthy, Server!Numeric, ServerP!Numeric,
    Server!Readable, ServerP!Readable, Server!car, ServerP!car
<1>2. /\ \A m, s : Server!Move(m, s) <=> ServerP!Move(m, s)
      /\ \A d, s : Server!Turn(d, s) <=> ServerP!Turn(d, s)
  BY DEF Server!Move, ServerP!Move, Server!Turn, ServerP!Turn, Server!SpeedRejected, ServerP!SpeedRejected,
    Server!OrDefault, ServerP!OrDefault, Server!Truthy, ServerP!Truthy, Server!Numeric, ServerP!Numeric,
    Server!Number, ServerP!Number, Server!car, ServerP!car
<1>3. /\ Server!request_connect <=> ServerP!request_connect
      /\ Server!request_brake <=> ServerP!request_brake
      /\ Server!request_car_movement <=> ServerP!request_car_movement
      /\ Server!Restart <=> ServerP!Restart
  BY DEF Server!request_connect, ServerP!request_connect, Server!request_brake, ServerP!request_brake, Server!request_car_movement, ServerP!request_car_movement,
    Server!Restart, ServerP!Restart, Server!Declared, ServerP!Declared, Server!Readable, ServerP!Readable,
    Server!Number, ServerP!Number, Server!car, ServerP!car
<1>4. Server!Next <=> ServerP!Next
  BY <1>1, <1>2, <1>3
  DEF Server!Next, ServerP!Next, Server!request_move_forward, ServerP!request_move_forward, Server!requestmove_backwards, ServerP!requestmove_backwards,
    Server!request_move_left, ServerP!request_move_left, Server!request_move_right, ServerP!request_move_right, Server!MovementWords, ServerP!MovementWords,
    Server!DirectionWords, ServerP!DirectionWords
<1>5. Server!TypeOK <=> ServerP!TypeOK
  BY DEF Server!TypeOK, ServerP!TypeOK, Server!SpeedValues, ServerP!SpeedValues, Server!Errors, ServerP!Errors,
    Server!ValidationErrors, ServerP!ValidationErrors
<1>. QED
  BY <1>4, <1>5 DEF Server!Init, ServerP!Init, Server!vars, ServerP!vars

\* The car's pins and words.
LEMMA SameNames ==
  /\ Car!LED_FORWARD_LEFT = CarP!LED_FORWARD_LEFT
  /\ Car!LED_FORWARD_RIGHT = CarP!LED_FORWARD_RIGHT
  /\ Car!LED_BACKWARD_LEFT = CarP!LED_BACKWARD_LEFT
  /\ Car!LED_BACKWARD_RIGHT = CarP!LED_BACKWARD_RIGHT
  /\ Car!PWM_MOTOR_LEFT_1 = CarP!PWM_MOTOR_LEFT_1
  /\ Car!PWM_MOTOR_LEFT_2 = CarP!PWM_MOTOR_LEFT_2
  /\ Car!PWM_MOTOR_RIGHT_1 = CarP!PWM_MOTOR_RIGHT_1
  /\ Car!PWM_MOTOR_RIGHT_2 = CarP!PWM_MOTOR_RIGHT_2
  /\ Car!PWM_SERVO = CarP!PWM_SERVO
  /\ Car!Leds = CarP!Leds /\ Car!Motors = CarP!Motors /\ Car!Mutexes = CarP!Mutexes
  /\ Car!PinOf = CarP!PinOf
  /\ Car!Handlers = CarP!Handlers /\ Car!Contexts = CarP!Contexts
  /\ Car!Fields = CarP!Fields /\ Car!StopCommand = CarP!StopCommand
  /\ Car!CarCommand = CarP!CarCommand
BY DEF Car!LED_FORWARD_LEFT, CarP!LED_FORWARD_LEFT, Car!LED_FORWARD_RIGHT, CarP!LED_FORWARD_RIGHT, Car!LED_BACKWARD_LEFT, CarP!LED_BACKWARD_LEFT,
    Car!LED_BACKWARD_RIGHT, CarP!LED_BACKWARD_RIGHT, Car!PWM_MOTOR_LEFT_1, CarP!PWM_MOTOR_LEFT_1, Car!PWM_MOTOR_LEFT_2, CarP!PWM_MOTOR_LEFT_2,
    Car!PWM_MOTOR_RIGHT_1, CarP!PWM_MOTOR_RIGHT_1, Car!PWM_MOTOR_RIGHT_2, CarP!PWM_MOTOR_RIGHT_2, Car!PWM_SERVO, CarP!PWM_SERVO,
    Car!Leds, CarP!Leds, Car!Motors, CarP!Motors, Car!Mutexes, CarP!Mutexes, Car!PinOf, CarP!PinOf,
    Car!Handlers, CarP!Handlers, Car!Contexts, CarP!Contexts, Car!Fields, CarP!Fields,
    Car!StopCommand, CarP!StopCommand, Car!CarCommand, CarP!CarCommand, Car!Movements, CarP!Movements,
    Car!Directions, CarP!Directions

\* The calls of a command, and what a call does.
LEMMA SameCalls ==
  /\ \A cmd : Car!execute_car_command(cmd) = CarP!execute_car_command(cmd)
  /\ Car!cleanup = CarP!cleanup
  /\ \A call : Car!Perform(call) <=> CarP!Perform(call)
  /\ \A call : Car!MutexOf(call) = CarP!MutexOf(call)
<1>1. /\ \A op, pin, val : Car!Call(op, pin, val) = CarP!Call(op, pin, val)
      /\ Car!stop_all = CarP!stop_all
      /\ \A d : Car!set_steering_direction(d) = CarP!set_steering_direction(d)
  BY SameNames
  DEF Car!stop_all, CarP!stop_all, Car!set_steering_direction, CarP!set_steering_direction, Car!SteeringAngle, CarP!SteeringAngle,
    Car!Servo, CarP!Servo, Car!Unblink, CarP!Unblink, Car!Led, CarP!Led,
    Car!Duty, CarP!Duty, Car!Call, CarP!Call
<1>2. \A cmd : Car!MovementCalls(cmd) = CarP!MovementCalls(cmd)
  BY <1>1, SameNames
  DEF Car!MovementCalls, CarP!MovementCalls, Car!Drive, CarP!Drive, Car!Blink, CarP!Blink,
    Car!Led, CarP!Led, Car!Duty, CarP!Duty
<1>3. \A call : Car!Perform(call) <=> CarP!Perform(call)
  BY SameNames
  DEF Car!Perform, CarP!Perform, Car!Lags, CarP!Lags, Car!motors, CarP!motors, Car!softPwmUpdateDuty, CarP!softPwmUpdateDuty, Car!digitalWrite, CarP!digitalWrite,
    Car!blinkStart, CarP!blinkStart, Car!blinkStop, CarP!blinkStop, Car!servoWriteLimited, CarP!servoWriteLimited,
    Car!servoStop, CarP!servoStop, Car!BlinkPin, CarP!BlinkPin
<1>4. \A call : Car!MutexOf(call) = CarP!MutexOf(call)
  BY DEF Car!MutexOf, CarP!MutexOf, Car!BlinkPin, CarP!BlinkPin
<1>. QED
  BY <1>1, <1>2, <1>3, <1>4, SameNames
  DEF Car!execute_car_command, CarP!execute_car_command, Car!cleanup, CarP!cleanup

\* The calls as steps.
LEMMA SameDoCall == \A c : Car!DoCall(c) <=> CarP!DoCall(c)
<1>1. \A c : Car!Script(c) = CarP!Script(c)
  BY SameCalls DEF Car!Script, CarP!Script
<1>. QED
  BY <1>1, SameCalls, SameNames
  DEF Car!DoCall, CarP!DoCall, Car!Runs, CarP!Runs, Car!Alive, CarP!Alive

\* The callback, and the PWM loops.
LEMMA SameHandler ==
  /\ \A h : Car!Alarm(h) <=> CarP!Alarm(h)
  /\ \A h : Car!HandlerStep(h) <=> CarP!HandlerStep(h)
  /\ \A p : Car!PwmLoop(p) <=> CarP!PwmLoop(p)
<1>. USE SameNames
  DEF Car!Alive, CarP!Alive, Car!hardware, CarP!hardware, Car!motors, CarP!motors
<1>1. \A h : Car!Alarm(h) <=> CarP!Alarm(h)
  BY DEF Car!Alarm, CarP!Alarm, Car!Levels, CarP!Levels
<1>7. \A p : Car!PwmLoop(p) <=> CarP!PwmLoop(p)
  BY DEF Car!PwmLoop, CarP!PwmLoop
<1>2. \A h : Car!Return(h) <=> CarP!Return(h)
  BY DEF Car!Return, CarP!Return
<1>3. \A h : Car!fetch_car_command(h) <=> CarP!fetch_car_command(h)
  <2>1. \A body : Car!parse_car_command(body) = CarP!parse_car_command(body)
    BY DEF Car!parse_car_command, CarP!parse_car_command, Car!json_object_get_int, CarP!json_object_get_int
  <2>. QED
    BY <2>1 DEF Car!fetch_car_command, CarP!fetch_car_command, Car!FailedFetch, CarP!FailedFetch
<1>4. \A h : Car!Compare(h) <=> CarP!Compare(h)
  BY <1>2 DEF Car!Compare, CarP!Compare, Car!Changed, CarP!Changed
<1>5. \A h : Car!EndExecute(h) <=> CarP!EndExecute(h)
  <2>1. \A h : Car!Script(h) = CarP!Script(h)
    BY SameCalls DEF Car!Script, CarP!Script
  <2>. QED
    BY <2>1 DEF Car!EndExecute, CarP!EndExecute
<1>6. \A h, f : Car!SaveField(h, f) <=> CarP!SaveField(h, f)
  BY <1>2 DEF Car!SaveField, CarP!SaveField
<1>. QED
  BY <1>1, <1>3, <1>4, <1>5, <1>6, <1>7, SameDoCall DEF Car!HandlerStep, CarP!HandlerStep

\* The car.
LEMMA SameCar ==
  /\ Car!Init <=> CarP!Init
  /\ Car!Next <=> CarP!Next
  /\ Car!vars = CarP!vars
  /\ Car!TypeOK <=> CarP!TypeOK
<1>. USE SameNames
  DEF Car!Alive, CarP!Alive, Car!Runs, CarP!Runs, Car!hardware, CarP!hardware, Car!motors, CarP!motors
<1>1. Car!ProcessEnds <=> CarP!ProcessEnds
  BY DEF Car!Levels, CarP!Levels, Car!Output, CarP!Output, Car!NotCaught, CarP!NotCaught, Car!ProcessEnds, CarP!ProcessEnds, Car!FirstCall, CarP!FirstCall, Car!NoCommand, CarP!NoCommand,
    Car!AllSaved, CarP!AllSaved, Car!Unlocked, CarP!Unlocked, Car!NoBlink, CarP!NoBlink
<1>2. Car!Restart <=> CarP!Restart
  BY DEF Car!Restart, CarP!Restart, Car!AtLoop, CarP!AtLoop, Car!init_gpio_pins, CarP!init_gpio_pins,
    Car!MotorsOff, CarP!MotorsOff, Car!LedsLow, CarP!LedsLow, Car!NoBlink, CarP!NoBlink
<1>3. Car!Environment <=> CarP!Environment
  <2>1. /\ \A l : Car!BlinkEnds(l) <=> CarP!BlinkEnds(l)
        /\ \A a : Car!SetApi(a) <=> CarP!SetApi(a)
        /\ Car!signal_handler <=> CarP!signal_handler
    BY DEF Car!BlinkEnds, CarP!BlinkEnds, Car!SetApi, CarP!SetApi, Car!signal_handler, CarP!signal_handler
  <2>. QED
    BY <1>1, <1>2, <2>1 DEF Car!Environment, CarP!Environment, Car!Killed, CarP!Killed, CarAnswers
<1>4. Car!MainStep <=> CarP!MainStep
  <2>1. (Car!LeaveLoop <=> CarP!LeaveLoop) /\ (Car!Acquire <=> CarP!Acquire)
    BY SameCalls DEF Car!LeaveLoop, CarP!LeaveLoop, Car!Acquire, CarP!Acquire
  <2>2. Car!Exit <=> CarP!Exit
    BY <1>1, SameCalls DEF Car!Exit, CarP!Exit
  <2>. QED
    BY <2>1, <2>2, SameDoCall DEF Car!MainStep, CarP!MainStep
<1>5. Car!Next <=> CarP!Next
  BY <1>3, <1>4, SameHandler DEF Car!Next, CarP!Next
<1>6. Car!TypeOK <=> CarP!TypeOK
  BY DEF Car!TypeOK, CarP!TypeOK, CarAnswers
<1>7. Car!Init <=> CarP!Init
  BY DEF Car!Init, CarP!Init, Car!AtLoop, CarP!AtLoop, Car!FirstCall, CarP!FirstCall,
    Car!NoCommand, CarP!NoCommand, Car!AllSaved, CarP!AllSaved, Car!Unlocked, CarP!Unlocked,
    Car!MotorsOff, CarP!MotorsOff, Car!LedsLow, CarP!LedsLow, Car!NoBlink, CarP!NoBlink,
    Car!NotCaught, CarP!NotCaught, CarAnswers
<1>. QED
  BY <1>5, <1>6, <1>7 DEF Car!vars, CarP!vars

-----------------------------------------------------------------------------
(* The invariant *)

\* What the page can post
Posted == [movement : Movements, speed : 0..100, direction : Directions]

\* What is on its way has been posted
PostsOK == issued \subseteq Posted /\ net \subseteq [n : 1..posts, cmd : issued]

\* The page waits for as many answers as there are POSTs on their way
NetOK ==
  /\ IsFiniteSet(net) /\ Cardinality(net) = unanswered
  /\ posts \in 0..MaxPosts /\ handled \in 0..posts
  /\ link \in BOOLEAN

\* The server holds one posted command, or lacks a global
ServerOK ==
  \/ car_movement = "undeclared"
  \/ \E c \in issued : /\ car_movement = c.movement
                       /\ car_speed = Number(2 * c.speed)
                       /\ car_direction = c.direction

Whole == issued \cup {Car!StopCommand}

Places == {"idle", "fetch", "compare", "execute", "save", "loop"}

CarTyped ==
  /\ pc \in [Car!Contexts -> Places]
  /\ new_command \in [Car!Handlers -> Whole]
  /\ unsaved \in [Car!Handlers -> SUBSET Car!Fields]
  /\ last_command \in Car!CarCommand

\* While callbacks do not overlap last_command is whole too, but for the copy:
\* there it has of new_command what is copied.  After an overlap it is whole
\* again with the first copy that no other callback disturbs.
Copied ==
  /\ order = "kept" /\ pc["alrm"] # "save" => last_command \in Whole
  /\ order # "lost" /\ pc["alrm"] = "save" =>
       \A f \in Car!Fields \ unsaved["alrm"] : last_command[f] = new_command["alrm"][f]

CarOK == CarTyped /\ Copied

\* Each component's own invariant
PageInv   == PageP!IInv
ServerInv == ServerP!IInv
CarInv    == CarP!PinsOK /\ CarP!ControlOK /\ CarP!FollowInv /\ CarP!DarkInv

WholeInv == PostsOK /\ NetOK /\ ServerOK /\ CarOK
IInv == WholeInv /\ PageInv /\ ServerInv /\ CarInv

-----------------------------------------------------------------------------
(* The page *)

\* A button posts a command of the server's words.
LEMMA ClickFact ==
  ASSUME PageInv, NEW button, Page!Click(button)
  PROVE  last_post' \in Posted
<1>1. PageP!CommandOf(button)
  BY SameCommands DEF PageP!Click
<1>2. PageP!Commanded
  BY <1>1, BoundsAssumption, PageP!CommandFact DEF PageInv, PageP!IInv
<1>3. /\ last_post' \in PageP!PostType
      /\ last_post'.movement \in Movements /\ last_post'.direction \in Directions
  BY <1>2 DEF PageP!Commanded, PageP!mapMovementToBackend, PageP!mapDirectionToBackend,
              Movements, Directions
<1>. QED
  BY <1>3 DEF PageP!PostType, Posted

-----------------------------------------------------------------------------
(* The server and the poll *)

\* A posted command passes the validation and replaces all three globals.
LEMMA UpdateWhole ==
  ASSUME NEW c \in Posted,
         Server!update_car_movement(c.movement, Number(2 * c.speed), c.direction)
  PROVE  car_movement' = c.movement /\ car_speed' = Number(2 * c.speed) /\ car_direction' = c.direction
<1>1. /\ c.movement \in Server!Movements /\ c.direction \in Server!Directions
      /\ c.movement # "" /\ c.direction # ""
  BY DEF Posted, Movements, Directions, Server!Movements, Server!Directions
<1>2. Number(2 * c.speed) # Server!Absent /\ Number(2 * c.speed).num = 2 * c.speed
  BY DEF Number, Speed, Server!Absent, Server!Speed
<1>3. ~Server!SpeedRejected(Number(2 * c.speed))
  <2>1. c.speed \in Int /\ 0 <= c.speed /\ c.speed <= 100
    BY DEF Posted
  <2>. QED
    BY <1>2, <2>1 DEF Server!SpeedRejected
<1>4. Server!UpdateError(c.movement, Number(2 * c.speed), c.direction) = "none"
  BY <1>1, <1>3 DEF Server!UpdateError
<1>. QED
  BY <1>1, <1>2, <1>4 DEF Server!update_car_movement, Server!UpdateAccepted

\* What a poll that is answered brings is a posted command.
LEMMA PollWhole ==
  ASSUME PostsOK, ServerOK, Served.reply
  PROVE  Car!parse_car_command(Served.body) \in issued
<1>1. link /\ Server!Declared
  BY DEF Served
<1>2. car_movement # "undeclared"
  BY <1>1 DEF Server!Declared, Server!Readable
<1>3. PICK c \in issued : /\ car_movement = c.movement
                          /\ car_speed = Number(2 * c.speed)
                          /\ car_direction = c.direction
  BY <1>2 DEF ServerOK
<1>4. c \in Posted
  BY DEF PostsOK
<1>5. Served.body = [movement |-> c.movement, speed |-> Number(2 * c.speed), direction |-> c.direction]
  BY <1>1, <1>3 DEF Served
<1>6. c.movement # "" /\ c.direction # ""
  BY <1>4 DEF Posted, Movements, Directions
<1>7. Car!json_object_get_int(Number(2 * c.speed)) = c.speed
  <2>1. c.speed \in Int /\ (2 * c.speed) \div 2 = c.speed
    BY <1>4 DEF Posted
  <2>. QED
    BY <2>1 DEF Car!json_object_get_int, Number, Speed
<1>8. Car!parse_car_command(Served.body)
        = [movement |-> c.movement, speed |-> c.speed, direction |-> c.direction]
  <2>1. /\ Served.body.movement = c.movement /\ Served.body.direction = c.direction
        /\ Served.body.speed = Number(2 * c.speed)
    BY <1>5
  <2>. QED
    BY <1>6, <1>7, <2>1, Zenon DEF Car!parse_car_command
<1>9. c = [movement |-> c.movement, speed |-> c.speed, direction |-> c.direction]
  BY <1>4 DEF Posted
<1>. QED
  BY <1>8, <1>9

-----------------------------------------------------------------------------
(* The car *)

\* Posted commands and the stop are commands of the car.
LEMMA WholeFact == PostsOK => Whole \subseteq Car!CarCommand
<1>1. Posted \subseteq Car!CarCommand
  BY DEF Posted, Car!CarCommand, Movements, Directions, Car!Movements, Car!Directions
<1>2. Car!StopCommand \in Car!CarCommand
  BY DEF Car!StopCommand, Car!CarCommand
<1>. QED
  BY <1>1, <1>2 DEF PostsOK, Whole

\* The answers that the car's polls meet here, and the threads, are as
\* GpioController assumes them.
LEMMA CarAnswersLegal ==
  /\ CarAnswers \subseteq
       [reply : BOOLEAN,
        body  : [movement : CarP!Movements \cup {""}, direction : CarP!Directions \cup {""},
                 speed : CarP!SpeedValues]]
  /\ PwmThreads \subseteq {"left1", "left2", "right1", "right2"}
<1>1. /\ CarP!Movements = Movements /\ CarP!Directions = Directions
      /\ {Number(2 * s) : s \in 0..100} \cup {Absent} \subseteq CarP!SpeedValues
  BY DEF Movements, Directions, CarP!Movements, CarP!Directions,
         Number, Absent, Speed, CarP!SpeedValues
<1>. QED
  BY <1>1, ThreadsAssumption DEF CarAnswers

\* main() and the handlers.
LEMMA CarContexts ==
  /\ "alrm" \in Car!Handlers /\ Car!Handlers \subseteq Car!Contexts
  /\ "main" \in Car!Contexts /\ "main" \notin Car!Handlers
BY ThreadsAssumption DEF Car!Handlers, Car!Contexts

\* No step changes what the contexts, the fields and the commands are.
LEMMA CarConstants ==
  UNCHANGED <<Car!Contexts, Car!Handlers, Car!Fields, Car!CarCommand, Car!StopCommand>>
BY DEF Car!Contexts, Car!Handlers, Car!Fields, Car!CarCommand, Car!StopCommand

\* A step of the others keeps CarOK: commands are only ever added to issued.
LEMMA CarKept ==
  ASSUME CarOK, issued \subseteq issued',
         UNCHANGED <<pc, new_command, unsaved, last_command, order>>
  PROVE  CarOK'
<1>1. Whole \subseteq Whole'
  BY CarConstants DEF Whole
<1>2. CarTyped'
  BY <1>1, CarConstants DEF CarOK, CarTyped
<1>3. Copied'
  BY <1>1, CarConstants DEF CarOK, Copied
<1>. QED
  BY <1>2, <1>3 DEF CarOK

\* Every step of a callback leaves whole commands in the local variables.
LEMMA HandlerTyped ==
  ASSUME PostsOK, ServerOK, CarTyped, UNCHANGED issued,
         NEW h \in Car!Handlers, Car!Alarm(h) \/ Car!HandlerStep(h)
  PROVE  CarTyped'
<1>1. Whole' = Whole /\ h \in Car!Contexts
  BY CarConstants, CarContexts DEF Whole
<1>2. ASSUME NEW p \in Places, pc' = [pc EXCEPT ![h] = p] PROVE pc' \in [Car!Contexts -> Places]
  BY <1>2 DEF CarTyped
<1>3. ASSUME NEW c \in Whole, new_command' = [new_command EXCEPT ![h] = c]
      PROVE  new_command' \in [Car!Handlers -> Whole]
  BY <1>3 DEF CarTyped
<1>4. {"idle", "fetch", "compare", "execute", "save"} \subseteq Places /\ Car!StopCommand \in Whole
  BY DEF Places, Whole
<1>5. CASE Car!Alarm(h)
  <2>1. pc' = [pc EXCEPT ![h] = "fetch"] /\ UNCHANGED <<new_command, unsaved, last_command>>
    BY <1>5 DEF Car!Alarm
  <2>. QED
    BY <1>1, <1>2, <1>4, <2>1, CarConstants DEF CarTyped
<1>6. CASE Car!fetch_car_command(h)
  <2>1. /\ UNCHANGED <<unsaved, last_command>>
        /\ \E p \in {"compare", "execute"} : pc' = [pc EXCEPT ![h] = p]
    BY <1>6 DEF Car!fetch_car_command, Car!FailedFetch
  <2>2. \E c \in Whole : new_command' = [new_command EXCEPT ![h] = c]
    <3>1. CASE Served.reply
      BY <1>6, <3>1, PollWhole DEF Car!fetch_car_command, Whole
    <3>2. CASE ~Served.reply
      BY <1>4, <1>6, <3>2 DEF Car!fetch_car_command, Car!FailedFetch
    <3>. QED
      BY <3>1, <3>2
  <2>. QED
    BY <1>1, <1>2, <1>3, <1>4, <2>1, <2>2, CarConstants DEF CarTyped
<1>7. CASE Car!Compare(h)
  <2>1. /\ UNCHANGED <<unsaved, last_command>>
        /\ \E p \in {"idle", "execute"} : pc' = [pc EXCEPT ![h] = p]
        /\ \/ new_command' = new_command
           \/ new_command' = [new_command EXCEPT ![h] = Car!StopCommand]
    BY <1>7 DEF Car!Compare, Car!Return
  <2>. QED
    BY <1>1, <1>2, <1>3, <1>4, <2>1, CarConstants DEF CarTyped
<1>8. CASE Car!DoCall(h)
  <2>1. UNCHANGED <<pc, new_command, unsaved, last_command>>
    BY <1>8 DEF Car!DoCall
  <2>. QED
    BY <1>1, <2>1, CarConstants DEF CarTyped
<1>9. CASE Car!EndExecute(h)
  <2>1. /\ pc' = [pc EXCEPT ![h] = "save"] /\ UNCHANGED <<new_command, last_command>>
        /\ unsaved' = [unsaved EXCEPT ![h] = Car!Fields]
    BY <1>9 DEF Car!EndExecute
  <2>2. unsaved' \in [Car!Handlers -> SUBSET Car!Fields]
    BY <2>1 DEF CarTyped
  <2>. QED
    BY <1>1, <1>2, <1>4, <2>1, <2>2, CarConstants DEF CarTyped
<1>10. ASSUME NEW f \in Car!Fields, Car!SaveField(h, f) PROVE CarTyped'
  <2>1. /\ last_command' = [last_command EXCEPT ![f] = new_command[h][f]]
        /\ unsaved' = [unsaved EXCEPT ![h] = @ \ {f}]
        /\ pc' = pc \/ pc' = [pc EXCEPT ![h] = "idle"]
        /\ \/ new_command' = new_command
           \/ new_command' = [new_command EXCEPT ![h] = Car!StopCommand]
    BY <1>10 DEF Car!SaveField, Car!Return
  <2>2. last_command' \in Car!CarCommand
    <3>1. new_command[h] \in Car!CarCommand /\ last_command \in Car!CarCommand
      BY WholeFact DEF CarTyped
    <3>. QED
      BY <2>1, <3>1 DEF Car!CarCommand, Car!Fields
  <2>3. unsaved' \in [Car!Handlers -> SUBSET Car!Fields]
    BY <2>1 DEF CarTyped
  <2>. QED
    BY <1>1, <1>2, <1>3, <1>4, <2>1, <2>2, <2>3, CarConstants DEF CarTyped
<1>. QED
  BY <1>5, <1>6, <1>7, <1>8, <1>9, <1>10 DEF Car!HandlerStep

\* A field is copied; with the last one last_command is the command executed.
LEMMA SaveWhole ==
  ASSUME PostsOK, CarOK, UNCHANGED issued, order # "lost",
         NEW f \in Car!Fields, Car!SaveField("alrm", f)
  PROVE  Copied'
<1>. DEFINE cmd == new_command["alrm"]
<1>1. cmd \in Whole /\ cmd \in Car!CarCommand /\ last_command \in Car!CarCommand
  BY WholeFact, CarContexts DEF CarOK, CarTyped
<1>2. /\ pc["alrm"] = "save" /\ f \in unsaved["alrm"]
      /\ last_command' = [last_command EXCEPT ![f] = cmd[f]]
      /\ unsaved' = [unsaved EXCEPT !["alrm"] = @ \ {f}]
  BY DEF Car!SaveField
<1>3. last_command' \in Car!CarCommand
  BY <1>1, <1>2 DEF Car!CarCommand, Car!Fields
<1>4. \A g \in Car!Fields \ (unsaved["alrm"] \ {f}) : last_command'[g] = cmd[g]
  <2>1. last_command'[f] = cmd[f] /\ \A g \in Car!Fields \ {f} : last_command'[g] = last_command[g]
    BY <1>1, <1>2 DEF Car!CarCommand, Car!Fields
  <2>. QED
    BY <1>2, <2>1 DEF CarOK, Copied
<1>5. unsaved'["alrm"] = unsaved["alrm"] \ {f}
  BY <1>2, CarContexts DEF CarOK, CarTyped
<1>6. Whole' = Whole
  BY CarConstants DEF Whole
<1>8. CASE unsaved["alrm"] = {f}
  <2>1. last_command' = cmd
    <3>1. \A g \in Car!Fields : last_command'[g] = cmd[g]
      BY <1>4, <1>8
    <3>. QED
      BY <1>1, <1>3, <3>1 DEF Car!CarCommand, Car!Fields
  <2>2. pc' = [pc EXCEPT !["alrm"] = "idle"]
    BY <1>8 DEF Car!SaveField, Car!Return
  <2>3. pc'["alrm"] = "idle"
    BY <2>2, CarContexts DEF CarOK, CarTyped
  <2>. QED
    BY <1>1, <1>6, <2>1, <2>3 DEF Copied
<1>9. CASE unsaved["alrm"] # {f}
  <2>1. pc' = pc /\ new_command' = new_command
    BY <1>9 DEF Car!SaveField
  <2>. QED
    BY <1>2, <1>4, <1>5, <2>1, CarConstants DEF Copied
<1>. QED
  BY <1>8, <1>9

\* The other steps of a callback that runs alone.
LEMMA AloneWhole ==
  ASSUME PostsOK, CarOK, UNCHANGED issued, order # "lost", Car!HandlerStep("alrm")
  PROVE  Copied'
<1>1. Whole' = Whole /\ "alrm" \in Car!Contexts
  BY CarConstants, CarContexts DEF Whole
<1>2. ASSUME pc["alrm"] # "save", UNCHANGED <<last_command, order>>,
             NEW p \in {"idle", "compare", "execute"}, pc' = [pc EXCEPT !["alrm"] = p]
      PROVE  Copied'
  <2>1. pc'["alrm"] # "save"
    BY <1>1, <1>2 DEF CarOK, CarTyped
  <2>. QED
    BY <1>1, <1>2, <2>1 DEF CarOK, Copied
<1>3. CASE Car!fetch_car_command("alrm")
  BY <1>2, <1>3 DEF Car!fetch_car_command, Car!FailedFetch
<1>4. CASE Car!Compare("alrm")
  BY <1>2, <1>4 DEF Car!Compare, Car!Return
<1>5. CASE Car!DoCall("alrm")
  <2>1. UNCHANGED <<pc, new_command, unsaved, last_command, order>>
    BY <1>5 DEF Car!DoCall
  <2>. QED
    BY <2>1, CarKept DEF CarOK
<1>6. CASE Car!EndExecute("alrm")
  <2>1. /\ pc' = [pc EXCEPT !["alrm"] = "save"] /\ unsaved' = [unsaved EXCEPT !["alrm"] = Car!Fields]
    BY <1>6 DEF Car!EndExecute
  <2>2. pc'["alrm"] = "save" /\ unsaved'["alrm"] = Car!Fields
    BY <1>1, <2>1, CarContexts DEF CarOK, CarTyped
  <2>. QED
    BY <2>2, CarConstants DEF Copied
<1>7. CASE \E f \in Car!Fields : Car!SaveField("alrm", f)
  BY <1>7, SaveWhole
<1>. QED
  BY <1>3, <1>4, <1>5, <1>6, <1>7 DEF Car!HandlerStep

\* The steps of the car.  What overlapping callbacks do to last_command is not
\* claimed: CarInv says that only the one on the main thread works otherwise.
LEMMA CarWhole ==
  ASSUME PostsOK, ServerOK, CarOK, CarInv, UNCHANGED issued,
         NEW h \in Car!Handlers, Car!Alarm(h) \/ Car!HandlerStep(h)
  PROVE  CarOK'
<1>1. CarTyped'
  BY HandlerTyped DEF CarOK
<1>2. CASE Car!Alarm(h)
  <2>1. order' # "lost" => h = "alrm"
    <3>1. CarP!ControlOK /\ h \in CarP!Handlers /\ CarP!Alarm(h)
      BY <1>2, SameNames, SameHandler DEF CarInv
    <3>. QED
      BY <3>1, CarAnswersLegal, CarP!AlarmPlaces DEF CarAnswers
  <2>2. /\ pc' = [pc EXCEPT ![h] = "fetch"] /\ pc[h] = "idle" /\ last_command' = last_command
        /\ order' \in {"lost", "restoring", order}
    BY <1>2 DEF Car!Alarm
  <2>3. CASE order' = "lost"
    BY <1>1, <2>3 DEF CarOK, Copied
  <2>4. CASE order' # "lost"
    <3>1. pc["alrm"] = "idle" /\ pc'["alrm"] = "fetch"
      BY <2>1, <2>2, <2>4, CarContexts DEF CarOK, CarTyped
    <3>2. Whole' = Whole
      BY CarConstants DEF Whole
    <3>. QED
      BY <1>1, <2>2, <3>1, <3>2 DEF CarOK, Copied
  <2>. QED
    BY <2>3, <2>4
<1>3. CASE Car!HandlerStep(h)
  <2>1. pc[h] # "idle" /\ (order = "lost" <=> order' = "lost")
    <3>1. CarP!ControlOK /\ h \in CarP!Handlers /\ CarP!HandlerStep(h)
      BY <1>3, SameNames, SameHandler DEF CarInv
    <3>. QED
      BY <3>1, CarAnswersLegal, CarP!HandlerPlaces DEF CarAnswers
  <2>2. order # "lost" => h = "alrm"
    <3>1. order # "lost" => \A p \in PwmThreads : pc[p] = "idle"
      BY DEF CarInv, CarP!FollowInv
    <3>. QED
      BY <2>1, <3>1 DEF Car!Handlers
  <2>3. CASE order = "lost"
    BY <1>1, <2>1, <2>3 DEF CarOK, Copied
  <2>4. CASE order # "lost"
    <3>1. Car!HandlerStep("alrm")
      BY <1>3, <2>2, <2>4
    <3>. QED
      BY <1>1, <2>4, <3>1, AloneWhole DEF CarOK
  <2>. QED
    BY <2>3, <2>4
<1>. QED
  BY <1>2, <1>3

-----------------------------------------------------------------------------
(* A step of the system is a step of each component, or leaves it alone *)

\* The server: what is posted is a request that CarBackend knows.
LEMMA ServerRuns ==
  ASSUME PostsOK, [Next]_vars
  PROVE  [Server!Next]_(Server!vars)
<1>1. ASSUME NEW request \in net, Handle(request) PROVE Server!Next
  <2>1. request.cmd \in Posted
    BY DEF PostsOK
  <2>2. /\ request.cmd.movement \in Server!MovementWords
        /\ request.cmd.direction \in Server!DirectionWords
        /\ Number(2 * request.cmd.speed) \in {Number(2 * s) : s \in 0..100}
    BY <2>1 DEF Posted, Movements, Directions, Server!Movements, Server!Directions,
                Server!MovementWords, Server!DirectionWords
  <2>. QED
    BY <1>1, <2>2 DEF Handle, Server!Next
<1>2. ASSUME ServerRestart PROVE Server!Next
  BY <1>2 DEF ServerRestart, Server!Next
<1>3. ASSUME UNCHANGED serverVars PROVE UNCHANGED Server!vars
  BY <1>3 DEF serverVars, Server!vars
<1>. QED
  BY <1>1, <1>2, <1>3
  DEF Next, vars, Drive, Relogin, Lose, LinkChange, CarStep, CarAlarm, Callback, PwmLoop, Alone, BlinkEnds

\* The speeds that the page posts are speeds of the server.
LEMMA ServerSpeeds == {Number(2 * s) : s \in 0..100} \subseteq ServerP!SpeedValues
BY DEF Number, Speed, ServerP!SpeedValues

\* So the server keeps its own invariant.
LEMMA ServerKept == PostsOK /\ ServerInv /\ [Next]_vars => ServerInv'
<1>. SUFFICES ASSUME PostsOK, ServerInv, [Next]_vars PROVE ServerInv'
  OBVIOUS
<1>1. [ServerP!Next]_(ServerP!vars)
  BY ServerRuns, SameServer DEF Server!vars, ServerP!vars
<1>. QED
  BY <1>1, ServerSpeeds, ServerP!StepInv DEF ServerInv

\* What the server answers with is a status that the page knows.
LEMMA PageRuns ==
  ASSUME ServerInv', [Next]_vars
  PROVE  [Page!Next]_(Page!vars)
<1>1. ASSUME NEW button, Drive(button) PROVE Page!Next
  <2>1. Page!Click(button) /\ button \in Page!Keys
    BY <1>1 DEF Drive, Page!Click, Page!CommandOf, Page!Keys
  <2>. QED
    BY <2>1 DEF Page!Next
<1>2. ASSUME NEW request, Handle(request) PROVE Page!Next
  <2>1. reply'.code \in {200, 400, 500, 0}
    BY DEF ServerInv, ServerP!IInv, ServerP!TypeOK
  <2>. QED
    BY <1>2, <2>1 DEF Handle, Page!Next
<1>3. ASSUME NEW request, Lose(request) PROVE Page!Next
  BY <1>3 DEF Lose, Page!Next
<1>4. ASSUME Relogin PROVE Page!Next
  BY <1>4 DEF Relogin, Page!Next
<1>5. ASSUME UNCHANGED pageVars PROVE UNCHANGED Page!vars
  BY <1>5 DEF pageVars, Page!vars
<1>. QED
  BY <1>1, <1>2, <1>3, <1>4, <1>5
  DEF Next, vars, ServerRestart, LinkChange, CarStep, CarAlarm, Callback, PwmLoop, Alone, BlinkEnds

\* So the page keeps its own invariant.
LEMMA PageKept == PageInv /\ ServerInv' /\ [Next]_vars => PageInv'
<1>. SUFFICES ASSUME PageInv, ServerInv', [Next]_vars PROVE PageInv'
  OBVIOUS
<1>1. [PageP!Next]_(PageP!vars)
  BY PageRuns, SamePage DEF Page!vars, PageP!vars
<1>. QED
  BY <1>1, BoundsAssumption, PageP!StepInv DEF PageInv

\* What a poll meets is an answer that the car knows, and legal.
LEMMA ServedFact == PostsOK /\ ServerOK => Served \in CarAnswers
<1>. SUFFICES ASSUME PostsOK, ServerOK PROVE Served \in CarAnswers
  OBVIOUS
<1>1. CASE link /\ Server!Declared
  <2>1. PICK c \in issued : /\ car_movement = c.movement
                            /\ car_speed = Number(2 * c.speed)
                            /\ car_direction = c.direction
    BY <1>1 DEF ServerOK, Server!Declared, Server!Readable
  <2>2. c.movement \in Movements /\ c.speed \in 0..100 /\ c.direction \in Directions
    BY DEF PostsOK, Posted
  <2>. QED
    BY <1>1, <2>1, <2>2 DEF Served, CarAnswers
<1>2. CASE ~(link /\ Server!Declared)
  BY <1>2 DEF Served, CarAnswers
<1>. QED
  BY <1>1, <1>2

\* The car: what the others do is to it at most a change of the answer.
LEMMA CarRuns ==
  ASSUME CarOK, Served' \in CarAnswers, [Next]_vars
  PROVE  [Car!Next]_(Car!vars)
<1>1. ASSUME CarStep PROVE Car!Next
  BY <1>1 DEF CarStep, CarAlarm, Callback, PwmLoop, Car!Next
<1>2. ASSUME NEW l \in Car!Leds, BlinkEnds(l) PROVE Car!Next
  BY <1>2 DEF BlinkEnds, Car!Environment, Car!Next
<1>3. ASSUME UNCHANGED carVars PROVE [Car!Next]_(Car!vars)
  <2>1. CASE Served' = Served
    BY <1>3, <2>1 DEF carVars, Car!vars, Car!hardware, Car!motors
  <2>2. CASE Served' # Served
    <3>1. Car!Alive
      BY CarContexts DEF CarOK, CarTyped, Places, Car!Alive
    <3>2. Car!SetApi(Served')
      BY <1>3, <2>2, <3>1 DEF carVars, Car!SetApi, Car!hardware, Car!motors
    <3>. QED
      BY <3>2 DEF CarAnswers, Car!Environment, Car!Next
  <2>. QED
    BY <2>1, <2>2
<1>. QED
  BY <1>1, <1>2, <1>3
  DEF Next, vars, Drive, Relogin, Handle, Lose, ServerRestart, LinkChange

\* So the car keeps its own invariants.
LEMMA CarInvKept ==
  ASSUME CarOK, CarInv, Served' \in CarAnswers, [Next]_vars
  PROVE  CarInv'
<1>1. [CarP!Next]_(CarP!vars)
  BY CarRuns, SameCar
  DEF Car!vars, CarP!vars, Car!hardware, CarP!hardware, Car!motors, CarP!motors
<1>2. CarP!PinsOK' /\ CarP!ControlOK'
  BY <1>1, CarAnswersLegal, CarP!TypeStep DEF CarInv, CarAnswers
<1>3. CarP!FollowInv'
  BY <1>1, <1>2, CarAnswersLegal, CarP!FollowStep DEF CarInv, CarAnswers
<1>4. CarP!DarkInv'
  BY <1>1, <1>2, CarAnswersLegal, CarP!DarkStep DEF CarInv, CarAnswers
<1>. QED
  BY <1>2, <1>3, <1>4 DEF CarInv

-----------------------------------------------------------------------------
(* All together *)

\* The components start as their own specifications say.
LEMMA ComponentsInit == Init => Page!Init /\ Server!Init /\ Car!Init
<1>. SUFFICES ASSUME Init PROVE Page!Init /\ Server!Init /\ Car!Init
  OBVIOUS
<1>1. Served \in CarAnswers
  BY DEF Init, Server!Init, Served, Server!Declared, Server!Readable, CarAnswers
<1>. QED
  BY <1>1 DEF Init, Car!Init, CarAnswers

\* The invariant holds at the start.
LEMMA WholeInit == Init => IInv
<1>. SUFFICES ASSUME Init PROVE IInv
  OBVIOUS
<1>1. PageInv
  BY ComponentsInit, SamePage, BoundsAssumption, PageP!InitInv DEF PageInv
<1>2. ServerInv
  BY ComponentsInit, SameServer, ServerSpeeds, ServerP!InitInv DEF ServerInv
<1>3. CarInv
  BY ComponentsInit, SameCar, CarAnswersLegal, CarP!TypeInit, CarP!FollowInit, CarP!DarkInit
  DEF CarInv, CarAnswers
<1>4. PostsOK /\ ServerOK
  BY DEF Init, Server!Init, PostsOK, ServerOK
<1>5. NetOK
  BY BoundsAssumption, FS_EmptySet DEF Init, Page!Init, NetOK
<1>6. CarOK
  <2>1. pc \in [Car!Contexts -> Places] /\ pc["alrm"] = "idle"
    BY CarContexts DEF Init, Car!AtLoop, Places
  <2>2. new_command \in [Car!Handlers -> Whole] /\ unsaved \in [Car!Handlers -> SUBSET Car!Fields]
    BY DEF Init, Car!NoCommand, Car!AllSaved, Whole
  <2>3. last_command \in Whole /\ last_command \in Car!CarCommand
    BY DEF Init, Whole, Car!StopCommand, Car!CarCommand
  <2>. QED
    BY <2>1, <2>2, <2>3 DEF CarOK, CarTyped, Copied
<1>. QED
  BY <1>1, <1>2, <1>3, <1>4, <1>5, <1>6 DEF IInv, WholeInv

\* A POST more, as the page counts one answer more to come.
LEMMA NetDrive ==
  ASSUME PostsOK, NetOK, PageInv, PageInv', NEW button, Drive(button)
  PROVE  PostsOK' /\ NetOK'
<1>. DEFINE request == [n |-> posts + 1, cmd |-> last_post']
<1>1. /\ issued' = issued \cup {last_post'} /\ net' = net \cup {request}
      /\ posts' = posts + 1 /\ posts < MaxPosts /\ UNCHANGED <<handled, link>>
  BY DEF Drive
<1>2. unanswered' = unanswered + 1
  BY DEF Drive, Page!Click, Page!CommandOf, Page!moveForward, Page!moveBackward, Page!moveLeft,
         Page!moveRight, Page!stopCar, Page!Post
<1>3. posts \in Nat /\ posts \in 0..MaxPosts /\ MaxPosts \in Nat /\ handled \in 0..posts
  BY BoundsAssumption DEF NetOK
<1>4. PostsOK'
  <2>1. last_post' \in Posted
    BY ClickFact DEF Drive
  <2>2. issued' \subseteq Posted'
    BY <1>1, <2>1 DEF PostsOK, Posted, Movements, Directions
  <2>3. \A r \in net : r \in [n : 1..posts', cmd : issued']
    BY <1>1, <1>3 DEF PostsOK
  <2>4. request \in [n : 1..posts', cmd : issued']
    BY <1>1, <1>3
  <2>. QED
    BY <1>1, <2>2, <2>3, <2>4 DEF PostsOK
<1>5. request \notin net
  <2>1. \A r \in net : r.n \in 1..posts
    BY DEF PostsOK
  <2>. QED
    BY <1>3, <2>1
<1>6. IsFiniteSet(net') /\ Cardinality(net') = unanswered'
  BY <1>1, <1>2, <1>5, FS_AddElement DEF NetOK
<1>7. posts' \in 0..MaxPosts /\ handled' \in 0..posts' /\ link' \in BOOLEAN
  BY <1>1, <1>3 DEF NetOK
<1>. QED
  BY <1>4, <1>6, <1>7 DEF NetOK

\* A POST less, whether it is handled or lost: the page has its answer.
LEMMA NetAnswer ==
  ASSUME PostsOK, NetOK, NEW request \in net, Handle(request) \/ Lose(request)
  PROVE  PostsOK' /\ NetOK'
<1>1. /\ net' = net \ {request} /\ UNCHANGED <<issued, posts, link>>
      /\ unanswered' = unanswered - 1 /\ handled' \in {handled, request.n}
  BY DEF Handle, Lose, Page!Answer
<1>2. request.n \in 1..posts /\ posts \in 0..MaxPosts /\ MaxPosts \in Nat
  BY BoundsAssumption DEF PostsOK, NetOK
<1>3. PostsOK'
  BY <1>1 DEF PostsOK, Posted, Movements, Directions
<1>4. IsFiniteSet(net') /\ Cardinality(net') = unanswered'
  BY <1>1, FS_RemoveElement DEF NetOK
<1>. QED
  BY <1>1, <1>2, <1>3, <1>4 DEF NetOK

\* The other steps leave what is on its way alone.
LEMMA NetKept ==
  ASSUME PostsOK, NetOK, UNCHANGED <<unanswered, net, posts, issued>>,
         handled' \in {handled, 0}, link' \in {link, ~link}
  PROVE  PostsOK' /\ NetOK'
<1>1. posts \in Nat /\ handled' \in 0..posts
  BY BoundsAssumption DEF NetOK
<1>2. PostsOK'
  BY DEF PostsOK, Posted, Movements, Directions
<1>. QED
  BY <1>1, <1>2 DEF NetOK

\* Every step keeps what is said of the whole.
LEMMA WholeKept ==
  ASSUME WholeInv, PageInv, PageInv', CarInv, [Next]_vars
  PROVE  WholeInv'
<1>. USE DEF WholeInv
<1>1. ASSUME NEW button \in Buttons, Drive(button) PROVE WholeInv'
  <2>1. PostsOK' /\ NetOK'
    BY <1>1, NetDrive
  <2>2. /\ issued \subseteq issued' /\ UNCHANGED <<car_movement, car_speed, car_direction>>
        /\ UNCHANGED <<pc, new_command, unsaved, last_command, order>>
    BY <1>1 DEF Drive, serverVars, carVars
  <2>3. ServerOK' /\ CarOK'
    BY <2>2, CarKept DEF ServerOK, Number, Speed
  <2>. QED
    BY <2>1, <2>3
<1>2. ASSUME NEW request \in net, Handle(request) PROVE WholeInv'
  <2>1. request.cmd \in issued /\ request.cmd \in Posted
    BY DEF PostsOK
  <2>2. issued' = issued /\ UNCHANGED <<pc, new_command, unsaved, last_command, order>>
    BY <1>2 DEF Handle, carVars
  <2>3. ServerOK'
    BY <1>2, <2>1, <2>2, UpdateWhole DEF Handle, ServerOK, Number, Speed
  <2>. QED
    BY <1>2, <2>2, <2>3, NetAnswer, CarKept
<1>3. ASSUME NEW request \in net, Lose(request) PROVE WholeInv'
  <2>1. /\ issued' = issued /\ UNCHANGED <<car_movement, car_speed, car_direction>>
        /\ UNCHANGED <<pc, new_command, unsaved, last_command, order>>
    BY <1>3 DEF Lose, serverVars, carVars
  <2>. QED
    BY <1>3, <2>1, NetAnswer, CarKept DEF ServerOK, Number, Speed
<1>4. ASSUME UNCHANGED <<unanswered, net, posts, issued>>,
             handled' \in {handled, 0}, link' \in {link, ~link},
             UNCHANGED <<car_movement, car_speed, car_direction>> \/ car_movement' = "undeclared",
             UNCHANGED <<pc, new_command, unsaved, last_command, order>>
      PROVE  WholeInv'
  BY <1>4, NetKept, CarKept DEF ServerOK, Number, Speed
<1>5. ASSUME Relogin PROVE WholeInv'
  BY <1>4, <1>5 DEF Relogin, Page!Logout, serverVars, carVars, netVars
<1>6. ASSUME ServerRestart \/ LinkChange PROVE WholeInv'
  BY <1>4, <1>6 DEF ServerRestart, LinkChange, Server!Restart, pageVars, serverVars, carVars
<1>7. ASSUME CarStep PROVE WholeInv'
  <2>1. /\ UNCHANGED <<unanswered, issued, net, posts, handled, link>>
        /\ UNCHANGED <<car_movement, car_speed, car_direction>>
    BY <1>7 DEF CarStep, CarAlarm, Callback, PwmLoop, Alone, pageVars, serverVars, netVars
  <2>2. CarOK'
    <3>1. CASE \E h \in Car!Handlers : Car!Alarm(h) \/ Car!HandlerStep(h)
      BY <2>1, <3>1, CarWhole
    <3>2. ASSUME NEW p \in PwmThreads, PwmLoop(p) PROVE CarOK'
      <4>1. UNCHANGED <<pc, new_command, unsaved, last_command, order>>
        BY <3>2 DEF PwmLoop, Car!PwmLoop
      <4>. QED
        BY <2>1, <4>1, CarKept
    <3>. QED
      BY <1>7, <3>1, <3>2 DEF CarStep, CarAlarm, Callback
  <2>3. ServerOK'
    BY <2>1 DEF ServerOK, Number, Speed
  <2>. QED
    BY <2>1, <2>2, <2>3, NetKept
<1>8. ASSUME NEW l, BlinkEnds(l) PROVE WholeInv'
  BY <1>4, <1>8 DEF BlinkEnds, Car!BlinkEnds, Alone, pageVars, serverVars, netVars
<1>9. ASSUME UNCHANGED vars PROVE WholeInv'
  BY <1>4, <1>9 DEF vars, pageVars, serverVars, carVars, netVars
<1>. QED
  BY <1>1, <1>2, <1>3, <1>5, <1>6, <1>7, <1>8, <1>9 DEF Next

\* Every step keeps the invariant, and is a step of each component or none.
LEMMA WholeStep ==
  IInv /\ [Next]_vars =>
    IInv' /\ [Page!Next]_(Page!vars) /\ [Server!Next]_(Server!vars) /\ [Car!Next]_(Car!vars)
<1>. SUFFICES ASSUME IInv, [Next]_vars
              PROVE  /\ IInv' /\ [Page!Next]_(Page!vars) /\ [Server!Next]_(Server!vars)
                     /\ [Car!Next]_(Car!vars)
  OBVIOUS
<1>1. PostsOK /\ CarOK /\ PageInv /\ ServerInv /\ CarInv /\ WholeInv
  BY DEF IInv, WholeInv
<1>2. ServerInv' /\ [Server!Next]_(Server!vars)
  BY <1>1, ServerKept, ServerRuns
<1>3. PageInv' /\ [Page!Next]_(Page!vars)
  BY <1>1, <1>2, PageKept, PageRuns
<1>4. WholeInv'
  BY <1>1, <1>3, WholeKept DEF IInv
<1>5. Served' \in CarAnswers
  <2>1. CarAnswers' = CarAnswers
    BY DEF CarAnswers, Movements, Directions, Number, Absent, Speed
  <2>2. (PostsOK /\ ServerOK => Served \in CarAnswers)'
    BY ServedFact, PTL
  <2>. QED
    BY <1>4, <2>1, <2>2 DEF WholeInv
<1>6. CarInv' /\ [Car!Next]_(Car!vars)
  BY <1>1, <1>5, CarInvKept, CarRuns
<1>. QED
  BY <1>2, <1>3, <1>4, <1>6 DEF IInv

-----------------------------------------------------------------------------
(* What the invariant gives *)

\* The components are typed, and the network is by NetOK.
LEMMA TypeImplied == IInv => TypeOK
<1>. SUFFICES ASSUME IInv PROVE TypeOK
  OBVIOUS
<1>1. Page!TypeOK /\ Server!TypeOK
  BY SamePage, SameServer DEF IInv, PageInv, PageP!IInv, ServerInv, ServerP!IInv
<1>2. Car!TypeOK
  BY SameCar, CarAnswersLegal, CarP!TypeParts DEF IInv, CarInv, CarAnswers
<1>3. net \subseteq [n : 1..MaxPosts, cmd : issued]
  <2>1. 1..posts \subseteq 1..MaxPosts
    BY BoundsAssumption DEF IInv, WholeInv, NetOK
  <2>. QED
    BY <2>1 DEF IInv, WholeInv, PostsOK
<1>. QED
  BY <1>1, <1>2, <1>3 DEF IInv, WholeInv, NetOK, TypeOK

\* The car's promises are the same in both instances.
LEMMA SamePromises ==
  /\ Car!Quiescent <=> CarP!Quiescent
  /\ \A c : Car!MotorsFollow(c) <=> CarP!MotorsFollow(c)
  /\ \A d : Car!SteeringAngle(d) = CarP!SteeringAngle(d)
<1>1. \A m : Car!Output(m) = CarP!Output(m)
  BY SameNames DEF Car!Output, CarP!Output
<1>2. \A pins, c : Car!Turns(pins, c) <=> CarP!Turns(pins, c)
  BY SameNames
  DEF Car!Turns, CarP!Turns, Car!Bridge, CarP!Bridge, Car!LeftSpeed, CarP!LeftSpeed,
      Car!RightSpeed, CarP!RightSpeed, Car!Sign, CarP!Sign
<1>3. \A c : Car!LegalDuty(c) <=> CarP!LegalDuty(c)
  BY DEF Car!LegalDuty, CarP!LegalDuty, Car!Sign, CarP!Sign
<1>. QED
  BY <1>1, <1>2, <1>3, SameNames
  DEF Car!Quiescent, CarP!Quiescent, Car!MotorsFollow, CarP!MotorsFollow,
      Car!SteeringAngle, CarP!SteeringAngle

\* When the car is quiescent its outputs follow last_command, which is whole.
LEMMA WheelsImplied == IInv => WheelsFollowOneCommand
<1>. SUFFICES ASSUME IInv, order = "kept", Car!Quiescent
              PROVE  \E c \in issued \cup {Car!StopCommand} :
                       Car!MotorsFollow(c) /\ servo = Car!SteeringAngle(c.direction)
  BY DEF WheelsFollowOneCommand
<1>1. last_command \in issued \cup {Car!StopCommand}
  BY CarContexts DEF Car!Quiescent, IInv, WholeInv, CarOK, Copied, Whole
<1>2. CarP!OutputsFollowLastCommand
  BY CarAnswersLegal, CarP!FollowImplies DEF IInv, CarInv, CarAnswers
<1>3. Car!MotorsFollow(last_command) /\ servo = Car!SteeringAngle(last_command.direction)
  BY <1>2, SamePromises DEF CarP!OutputsFollowLastCommand
<1>. QED
  BY <1>1, <1>3

\* Every variable of the whole system keeps its type, and the page waits for
\* exactly as many answers as there are POSTs on their way.
THEOREM TypeCorrect == Spec => []TypeOK
BY WholeInit, WholeStep, TypeImplied, PTL DEF Spec

\* Every callback only ever executes a stop or a command that was posted as a
\* whole: for any buttons, bounds and PWM threads, through overtaking and lost
\* POSTs, answers that never come, a link that breaks, restarts of the server
\* and new logins.  So is what the car believes to have executed, unless the
\* copies of overlapping callbacks mixed and none alone was made since.
THEOREM WholeCommands == Spec => []CarRunsWholeCommands
<1>1. IInv => CarRunsWholeCommands
  BY DEF IInv, WholeInv, CarOK, CarTyped, Copied, CarRunsWholeCommands, Whole
<1>. QED
  BY <1>1, WholeInit, WholeStep, PTL DEF Spec

\* Between callbacks the motors and the steering are those of one posted
\* command, or of the stop, on whatever way it came to the car, unless callbacks
\* have overlapped, on whichever PWM threads, and none that ran alone has
\* executed and saved since.
THEOREM WheelsFollow == Spec => []WheelsFollowOneCommand
BY WholeInit, WholeStep, WheelsImplied, PTL DEF Spec

\* The system implements the specification of each of its components, so what
\* their own modules promise of every environment holds here too.
THEOREM Components == Spec => RunsItsComponents
BY ComponentsInit, WholeInit, WholeStep, PTL
DEF Spec, RunsItsComponents, Page!Spec, Server!Spec
=============================================================================
