--------------------------- MODULE GpioController ---------------------------
(***************************************************************************)
(* The car's control program (gpio_controller.c) with the parts of         *)
(* gpio_lib.c it drives.                                                   *)
(*                                                                         *)
(* All the work is done inside the SIGALRM handler, timer_callback, which  *)
(* a 250 ms interval timer raises.  SIGALRM is blocked only in the thread  *)
(* that runs the handler; a callback may last seconds (wget, the joins of  *)
(* blinkStart and blinkStop), and the four soft-PWM threads started by     *)
(* init_gpio_pins do not block the signal.  So while one callback runs the *)
(* next alarm starts another one on another thread.  PwmThreads are the    *)
(* PWM threads that may serve an alarm; with PwmThreads = {} a callback    *)
(* ends before the next alarm.  A PWM thread that serves one does not      *)
(* drive its pin meanwhile: the pin stays at the level it was caught at.   *)
(*                                                                         *)
(* A context is something that executes calls: "main" is main() itself,    *)
(* "alrm" the handler on top of the main thread, and p \in PwmThreads the  *)
(* handler on top of p.  Every call of gpio_lib is a step of its own.      *)
(***************************************************************************)
EXTENDS CarApi, Sequences

CONSTANTS
  PwmThreads,          \* named after the pin they drive (PinOf)
  Answers,             \* what a poll of GET /api/car/movement may meet
  Signals              \* which of SIGTERM and SIGKILL the process may get

\* A field that the JSON text does not have is "" or Absent; a poll that gets
\* no 2xx answer (server down, 400, timeout of 2 s) has reply = FALSE.  A speed
\* may decode to any number: the server lets numerals pass that json-c reads
\* as others than JavaScript does.
ASSUME AnswersAssumption ==
  Answers \subseteq
    [reply : BOOLEAN,
     body  : [movement : Movements \cup {""}, direction : Directions \cup {""},
              speed : SpeedValues]]
ASSUME ThreadsAssumption == PwmThreads \subseteq {"left1", "left2", "right1", "right2"}

VARIABLES
  api,                 \* environment: the answer a poll gets now
  running,             \* cleared by SIGINT and SIGTERM
  pc, at,              \* per context: where it is, and its next call
  new_command,         \* per handler: its local variable
  unsaved,             \* per handler: fields of last_command still to copy
  last_command,
  mutex,               \* owner of blink_mutex and soft_pwm_mutex
  duty,                \* duty cycle written for the motor pins
  cycle,               \* duty cycle of the period their PWM loops are in
  caught,              \* per PWM thread in a handler: the level its pin is at
  servo,               \* angle of the steering servo, 0 when its PWM is off
  level, blinking,     \* LED pins: steady level; a blink thread is active
  order                \* history: "lost" when callbacks overlapped, "kept" again
                       \* once one callback alone has executed and saved

motors   == <<duty, cycle>>
hardware == <<motors, caught, servo, level, blinking>>
vars == <<api, running, pc, at, new_command, unsaved, last_command, mutex,
          hardware, order>>

Handlers == {"alrm"} \cup PwmThreads
Contexts == {"main"} \cup Handlers
Mutexes  == {"blink_mutex", "soft_pwm_mutex"}
Fields   == {"movement", "speed", "direction"}

(* GPIO pins *)
LED_FORWARD_RIGHT  == 17
LED_FORWARD_LEFT   == 27
LED_BACKWARD_LEFT  == 6
LED_BACKWARD_RIGHT == 5
PWM_MOTOR_LEFT_1   == 22
PWM_MOTOR_LEFT_2   == 23
PWM_MOTOR_RIGHT_1  == 26
PWM_MOTOR_RIGHT_2  == 16
PWM_SERVO          == 12

Leds   == {LED_FORWARD_RIGHT, LED_FORWARD_LEFT, LED_BACKWARD_LEFT, LED_BACKWARD_RIGHT}
Motors == {PWM_MOTOR_LEFT_1, PWM_MOTOR_LEFT_2, PWM_MOTOR_RIGHT_1, PWM_MOTOR_RIGHT_2}

\* The pin that a PWM thread drives
PinOf == [left1  |-> PWM_MOTOR_LEFT_1,  left2  |-> PWM_MOTOR_LEFT_2,
          right1 |-> PWM_MOTOR_RIGHT_1, right2 |-> PWM_MOTOR_RIGHT_2]

CarCommand == [movement : Movements \cup {"stop"}, speed : Int,
               direction : Directions \cup {"center"}]
StopCommand == [movement |-> "stop", speed |-> 0, direction |-> "center"]

\* Mutant: a missing direction is not replaced
ParseKeepsMissingDirection(body) ==
  [movement  |-> IF body.movement = "" THEN "stop" ELSE body.movement,
   speed     |-> json_object_get_int(body.speed),
   direction |-> body.direction]

parse_car_command(body) ==
  [movement  |-> IF body.movement = "" THEN "stop" ELSE body.movement,
   speed     |-> json_object_get_int(body.speed),
   direction |-> IF body.direction = "" THEN "center" ELSE body.direction]

-----------------------------------------------------------------------------
(* The library calls that a command makes, in order *)
Call(op, pin, val) == [op |-> op, pin |-> pin, val |-> val]
Duty(pin, val)  == Call("softPwmUpdateDuty", pin, val)
Led(pin, val)   == Call("digitalWrite", pin, val)
Blink(pin)      == Call("blinkStart", pin, 0)
Unblink(pin)    == Call("blinkStop", pin, 0)
Servo(angle)    == Call("servoWriteLimited", PWM_SERVO, angle)

SteeringAngle(direction) ==
  CASE direction = "left" -> 65 [] direction = "right" -> 115 [] OTHER -> 90

set_steering_direction(direction) == Servo(SteeringAngle(direction))

\* Mutant: the first back LED is left blinking
stop_all_ForgetsBlink ==
  << Unblink(LED_FORWARD_LEFT), Unblink(LED_FORWARD_RIGHT), Unblink(LED_BACKWARD_RIGHT),
     Led(LED_FORWARD_LEFT, 0), Led(LED_FORWARD_RIGHT, 0),
     Led(LED_BACKWARD_LEFT, 0), Led(LED_BACKWARD_RIGHT, 0),
     Duty(PWM_MOTOR_LEFT_1, 0), Duty(PWM_MOTOR_LEFT_2, 0),
     Duty(PWM_MOTOR_RIGHT_1, 0), Duty(PWM_MOTOR_RIGHT_2, 0) >>

stop_all ==
  << Unblink(LED_FORWARD_LEFT), Unblink(LED_FORWARD_RIGHT),
     Unblink(LED_BACKWARD_LEFT), Unblink(LED_BACKWARD_RIGHT),
     Led(LED_FORWARD_LEFT, 0), Led(LED_FORWARD_RIGHT, 0),
     Led(LED_BACKWARD_LEFT, 0), Led(LED_BACKWARD_RIGHT, 0),
     Duty(PWM_MOTOR_LEFT_1, 0), Duty(PWM_MOTOR_LEFT_2, 0),
     Duty(PWM_MOTOR_RIGHT_1, 0), Duty(PWM_MOTOR_RIGHT_2, 0) >>

\* Mutant: the inputs that are not driven are not set to 0
DriveUsedInputs(left1, left2, right1, right2) ==
  SelectSeq(<< Duty(PWM_MOTOR_LEFT_1, left1), Duty(PWM_MOTOR_LEFT_2, left2),
               Duty(PWM_MOTOR_RIGHT_1, right1), Duty(PWM_MOTOR_RIGHT_2, right2) >>,
            LAMBDA call : call.val > 0)

\* The four motor updates, always in this order
Drive(left1, left2, right1, right2) ==
  << Duty(PWM_MOTOR_LEFT_1, left1), Duty(PWM_MOTOR_LEFT_2, left2),
     Duty(PWM_MOTOR_RIGHT_1, right1), Duty(PWM_MOTOR_RIGHT_2, right2) >>

\* The branches of execute_car_command on movement and direction (the
\* branches for the movements "left" and "right" cannot be reached: the
\* server only stores the three Movements)
MovementCalls(cmd) ==
  LET s == cmd.speed
  IN  CASE cmd.movement = "forward" /\ cmd.direction = "left" ->
             <<Blink(LED_FORWARD_LEFT), Blink(LED_BACKWARD_LEFT)>> \o Drive(0, s, s, 0)
        [] cmd.movement = "forward" /\ cmd.direction = "right" ->
             <<Blink(LED_FORWARD_RIGHT), Blink(LED_BACKWARD_RIGHT)>> \o Drive(s, 0, 0, s)
        [] cmd.movement = "forward" /\ cmd.direction \notin {"left", "right"} ->
             <<Led(LED_FORWARD_LEFT, 1), Led(LED_FORWARD_RIGHT, 1)>> \o Drive(s, 0, s, 0)
        [] cmd.movement = "backward" /\ cmd.direction = "left" ->
             <<Blink(LED_BACKWARD_LEFT), Blink(LED_FORWARD_LEFT)>> \o Drive(s, 0, 0, s)
        [] cmd.movement = "backward" /\ cmd.direction = "right" ->
             <<Blink(LED_BACKWARD_RIGHT), Blink(LED_FORWARD_RIGHT)>> \o Drive(0, s, s, 0)
        [] cmd.movement = "backward" /\ cmd.direction \notin {"left", "right"} ->
             <<Led(LED_BACKWARD_LEFT, 1), Led(LED_BACKWARD_RIGHT, 1)>> \o Drive(0, s, 0, s)
        [] OTHER -> stop_all

\* execute_car_command: the servo first, then LEDs, then motors
execute_car_command(cmd) == <<set_steering_direction(cmd.direction)>> \o MovementCalls(cmd)

\* main() after its loop: stop_all, the servo to the centre, servoStop
cleanup ==
  stop_all \o <<set_steering_direction("center"), Call("servoStop", PWM_SERVO, 0)>>

Script(c) == IF c = "main" THEN cleanup ELSE execute_car_command(new_command[c])

-----------------------------------------------------------------------------
(* gpio_lib.c *)

\* blinkStart and blinkStop refuse pins above 21, which is LED_FORWARD_LEFT
BlinkPin(pin) == pin \in 0..21

\* The mutex a call holds while it works
MutexOf(call) ==
  CASE call.op \in {"blinkStart", "blinkStop"} /\ BlinkPin(call.pin) -> "blink_mutex"
    [] call.op = "softPwmUpdateDuty" /\ call.val \in 0..100 -> "soft_pwm_mutex"
    [] OTHER -> "none"

\* The loop of the pin's thread may be inside a handler
Lags(pin) == \E p \in PwmThreads : PinOf[p] = pin

\* The loop takes the new duty cycle with its next period, 2 ms later at most
\* unless its thread serves alarms (see PwmLoop)
softPwmUpdateDuty(pin, val) ==
  /\ duty' = IF val \in 0..100 THEN [duty EXCEPT ![pin] = val] ELSE duty
  /\ cycle' = IF val \in 0..100 /\ ~Lags(pin) THEN [cycle EXCEPT ![pin] = val] ELSE cycle
  /\ UNCHANGED <<servo, level, blinking>>

\* The levels at which a pin driven with a duty cycle can be caught
Levels(d) == IF d \in {0, 100} THEN {d} ELSE {0, 100}

\* What a motor pin puts out: a duty cycle, 0 or 100 for a steady level
Output(pin) ==
  LET catching == {p \in PwmThreads : PinOf[p] = pin /\ pc[p] # "idle"}
  IN  IF catching = {} THEN cycle[pin] ELSE caught[CHOOSE p \in catching : TRUE]

\* A pin that blinks is overwritten by its thread (see BlinkEnds)
digitalWrite(pin, val) ==
  /\ level' = [level EXCEPT ![pin] = val]
  /\ UNCHANGED <<motors, servo, blinking>>

\* An older blink thread is joined first, and leaves the pin low
blinkStart(pin) ==
  /\ blinking' = IF BlinkPin(pin) THEN [blinking EXCEPT ![pin] = TRUE] ELSE blinking
  /\ level' = IF BlinkPin(pin) /\ blinking[pin] THEN [level EXCEPT ![pin] = 0] ELSE level
  /\ UNCHANGED <<motors, servo>>

blinkStop(pin) ==
  /\ blinking' = IF BlinkPin(pin) THEN [blinking EXCEPT ![pin] = FALSE] ELSE blinking
  /\ level' = IF BlinkPin(pin) /\ blinking[pin] THEN [level EXCEPT ![pin] = 0] ELSE level
  /\ UNCHANGED <<motors, servo>>

servoWriteLimited(angle) ==
  /\ servo' = IF angle \in 65..115 THEN angle ELSE servo
  /\ UNCHANGED <<motors, level, blinking>>

\* The servo to 90 degrees, half a second later its PWM off
servoStop == servo' = 0 /\ UNCHANGED <<motors, level, blinking>>

Perform(call) ==
  \/ call.op = "softPwmUpdateDuty" /\ softPwmUpdateDuty(call.pin, call.val)
  \/ call.op = "digitalWrite"      /\ digitalWrite(call.pin, call.val)
  \/ call.op = "blinkStart"        /\ blinkStart(call.pin)
  \/ call.op = "blinkStop"         /\ blinkStop(call.pin)
  \/ call.op = "servoWriteLimited" /\ servoWriteLimited(call.val)
  \/ call.op = "servoStop"         /\ servoStop

-----------------------------------------------------------------------------
\* main() up to its loop: signal handlers, init_gpio_pins, setup_timer
AtLoop    == [c \in Contexts |-> IF c = "main" THEN "loop" ELSE "idle"]
FirstCall == [c \in Contexts |-> 1]
NoCommand == [h \in Handlers |-> StopCommand]
AllSaved  == [h \in Handlers |-> {}]
Unlocked  == [m \in Mutexes |-> "free"]
MotorsOff == [m \in Motors |-> 0]
NotCaught == [p \in PwmThreads |-> 0]
LedsLow   == [l \in Leds |-> 0]
NoBlink   == [l \in Leds |-> FALSE]

Init ==
  /\ api \in Answers
  /\ running = TRUE
  /\ pc = AtLoop
  /\ at = FirstCall
  /\ new_command = NoCommand
  /\ unsaved = AllSaved
  /\ last_command = StopCommand
  /\ mutex = Unlocked
  /\ duty = MotorsOff
  /\ cycle = MotorsOff
  /\ caught = NotCaught
  /\ servo = 90
  /\ level = LedsLow
  /\ blinking = NoBlink
  /\ order = "kept"

Alive == pc["main"] # "exited"

\* main() runs only while no handler interrupts its thread
Runs(c) == Alive /\ (c = "main" => pc["alrm"] = "idle")

(* Environment: the server's answer, SIGINT and SIGTERM *)
SetApi(a) ==
  /\ Alive
  /\ a # api
  /\ api' = a
  /\ UNCHANGED <<running, pc, at, new_command, unsaved, last_command, mutex, hardware, order>>

signal_handler ==
  /\ Alive
  /\ "SIGTERM" \in Signals
  /\ running
  /\ running' = FALSE
  /\ UNCHANGED <<api, pc, at, new_command, unsaved, last_command, mutex, hardware, order>>

\* The blink thread of a LED comes to its end and leaves the pin low
BlinkEnds(l) ==
  /\ Alive
  /\ blinking[l]
  /\ blinking' = [blinking EXCEPT ![l] = FALSE]
  /\ level' = [level EXCEPT ![l] = 0]
  /\ UNCHANGED <<api, running, pc, at, new_command, unsaved, last_command, mutex,
                 motors, caught, servo, order>>

(* timer_callback *)

\* The interval timer raises SIGALRM, at any moment of a callback for all the
\* program knows; Linux gives it to the main thread unless that one blocks it
Alarm(h) ==
  /\ Alive
  /\ pc[h] = "idle"
  /\ h # "alrm" => pc["alrm"] # "idle"
  /\ pc' = [pc EXCEPT ![h] = "fetch"]
  /\ IF h = "alrm" THEN UNCHANGED caught
     ELSE \E l \in Levels(cycle[PinOf[h]]) : caught' = [caught EXCEPT ![h] = l]
  /\ order' = CASE \E g \in Handlers : pc[g] # "idle" -> "lost"
                [] order = "lost" /\ (\A g \in Handlers : pc[g] = "idle") -> "restoring"
                [] OTHER -> order
  /\ UNCHANGED <<api, running, at, new_command, unsaved, last_command, mutex,
                 motors, servo, level, blinking>>

\* The loop of soft_pwm_thread reads the duty cycle for its next period.  An
\* alarm that waits for a thread is served before the loop goes on.
PwmLoop(p) ==
  /\ Alive
  /\ pc[p] = "idle"
  /\ cycle[PinOf[p]] # duty[PinOf[p]]
  /\ cycle' = [cycle EXCEPT ![PinOf[p]] = duty[PinOf[p]]]
  /\ UNCHANGED <<api, running, pc, at, new_command, unsaved, last_command, mutex,
                 duty, caught, servo, level, blinking, order>>

\* Mutant: the safety stop is skipped when the car is believed stopped
FailedFetchIfMoving(h) ==
  /\ new_command' = [new_command EXCEPT ![h] = StopCommand]
  /\ pc' = [pc EXCEPT ![h] = "compare"]
  /\ UNCHANGED at

\* Mutant: a failed poll leaves the car as it is
FailedFetchIgnored(h) == pc' = [pc EXCEPT ![h] = "idle"] /\ UNCHANGED <<new_command, at>>

\* The poll failed: the stop is executed whatever last_command says
FailedFetch(h) ==
  /\ new_command' = [new_command EXCEPT ![h] = StopCommand]
  /\ pc' = [pc EXCEPT ![h] = "execute"]
  /\ at' = [at EXCEPT ![h] = 1]

fetch_car_command(h) ==
  /\ Alive
  /\ pc[h] = "fetch"
  /\ \/ /\ api.reply
        /\ new_command' = [new_command EXCEPT ![h] = parse_car_command(api.body)]
        /\ pc' = [pc EXCEPT ![h] = "compare"]
        /\ UNCHANGED at
     \/ ~api.reply /\ FailedFetch(h)
  /\ UNCHANGED <<api, running, unsaved, last_command, mutex, hardware, order>>

\* Mutant: only movement and direction are compared
ChangedIgnoresSpeed(cmd) ==
  last_command.movement # cmd.movement \/ last_command.direction # cmd.direction

\* Only execute if command changed
Changed(cmd) ==
  \/ last_command.movement # cmd.movement
  \/ last_command.speed # cmd.speed
  \/ last_command.direction # cmd.direction

\* The callback returns, its local variable is gone, and a PWM thread is back
\* in the period it was caught in
Return(h) ==
  /\ pc' = [pc EXCEPT ![h] = "idle"]
  /\ new_command' = [new_command EXCEPT ![h] = StopCommand]
  /\ caught' = [p \in PwmThreads |-> IF p = h THEN 0 ELSE caught[p]]

Compare(h) ==
  /\ Alive
  /\ pc[h] = "compare"
  /\ \/ Changed(new_command[h]) /\ pc' = [pc EXCEPT ![h] = "execute"] /\ at' = [at EXCEPT ![h] = 1]
        /\ UNCHANGED <<new_command, caught>>
     \/ ~Changed(new_command[h]) /\ Return(h) /\ UNCHANGED at
  /\ UNCHANGED <<api, running, unsaved, last_command, mutex, motors, servo, level, blinking, order>>

(* The calls, one at a time.  A handler holds a mutex only inside one call,
   and the signal is blocked in its thread: nothing can be seen of a call of
   its before the unlock, so the call is one step that needs the mutex free.
   main() can be interrupted between the lock and the unlock. *)
Acquire ==
  /\ Runs("main")
  /\ pc["main"] = "execute"
  /\ at["main"] \in DOMAIN cleanup
  /\ LET m == MutexOf(cleanup[at["main"]])
     IN  /\ m \in Mutexes
         /\ mutex[m] = "free"
         /\ mutex' = [mutex EXCEPT ![m] = "main"]
  /\ UNCHANGED <<api, running, pc, at, new_command, unsaved, last_command, hardware, order>>

DoCall(c) ==
  /\ Runs(c)
  /\ pc[c] = "execute"
  /\ LET script == Script(c)
         call   == script[at[c]]
     IN  /\ at[c] \in DOMAIN script
         /\ MutexOf(call) \in Mutexes =>
              mutex[MutexOf(call)] = IF c = "main" THEN "main" ELSE "free"
         /\ Perform(call)
         /\ mutex' = [m \in Mutexes |-> IF m = MutexOf(call) THEN "free" ELSE mutex[m]]
  /\ at' = [at EXCEPT ![c] = @ + 1]
  /\ UNCHANGED <<api, running, pc, new_command, unsaved, last_command, caught, order>>

EndExecute(h) ==
  /\ Alive
  /\ pc[h] = "execute"
  /\ at[h] > Len(Script(h))
  /\ pc' = [pc EXCEPT ![h] = "save"]
  /\ at' = [at EXCEPT ![h] = 1]
  /\ unsaved' = [unsaved EXCEPT ![h] = Fields]
  /\ UNCHANGED <<api, running, new_command, last_command, mutex, hardware, order>>

\* last_command = new_command: a copy of 36 bytes that other threads can see
\* half done, in any order of its fields
SaveField(h, f) ==
  /\ Alive
  /\ pc[h] = "save"
  /\ f \in unsaved[h]
  /\ last_command' = [last_command EXCEPT ![f] = new_command[h][f]]
  /\ unsaved' = [unsaved EXCEPT ![h] = @ \ {f}]
  /\ IF unsaved[h] = {f}
     THEN Return(h) /\ order' = IF order = "restoring" THEN "kept" ELSE order
     ELSE UNCHANGED <<pc, new_command, caught, order>>
  /\ UNCHANGED <<api, running, at, mutex, motors, servo, level, blinking>>

(* main() *)
LeaveLoop ==
  /\ Runs("main")
  /\ pc["main"] = "loop"
  /\ ~running
  /\ pc' = [pc EXCEPT !["main"] = "execute"]
  /\ at' = [at EXCEPT !["main"] = 1]
  /\ UNCHANGED <<api, running, new_command, unsaved, last_command, mutex, hardware, order>>

\* When the process ends its threads and its memory end with it, and a pin
\* keeps the level it has: a PWM pin is caught high or low, as its duty cycle
\* allows, and so is a blinking LED
ProcessEnds ==
  /\ running' = FALSE
  /\ pc' = [c \in Contexts |-> IF c = "main" THEN "exited" ELSE "idle"]
  /\ at' = FirstCall
  /\ new_command' = NoCommand
  /\ unsaved' = AllSaved
  /\ last_command' = StopCommand
  /\ mutex' = Unlocked
  /\ duty' \in {d \in [Motors -> {0, 100}] : \A m \in Motors : d[m] \in Levels(Output(m))}
  /\ cycle' = duty'
  /\ caught' = NotCaught
  /\ level' \in {v \in [Leds -> {0, 1}] : \A l \in Leds : ~blinking[l] => v[l] = level[l]}
  /\ blinking' = NoBlink
  /\ order' = "kept"
  /\ UNCHANGED <<api, servo>>

\* return 0; the timer was never stopped
Exit ==
  /\ Runs("main")
  /\ pc["main"] = "execute"
  /\ at["main"] > Len(cleanup)
  /\ ProcessEnds

\* A crash, or the SIGKILL of systemd's TimeoutStopSec
Killed == Alive /\ "SIGKILL" \in Signals /\ ProcessEnds

\* Mutant: the motor pins are left as the previous process left them
InitPinsKeepsMotors ==
  servo' = 90 /\ level' = LedsLow /\ blinking' = NoBlink /\ UNCHANGED motors

init_gpio_pins ==
  /\ duty' = MotorsOff
  /\ cycle' = MotorsOff
  /\ servo' = 90
  /\ level' = LedsLow
  /\ blinking' = NoBlink

\* systemd starts the program again: Restart=always
Restart ==
  /\ ~Alive
  /\ running' = TRUE
  /\ pc' = AtLoop
  /\ init_gpio_pins
  /\ UNCHANGED <<api, at, new_command, unsaved, last_command, mutex, caught, order>>

HandlerStep(h) ==
  \/ fetch_car_command(h)
  \/ Compare(h)
  \/ DoCall(h)
  \/ EndExecute(h)
  \/ \E f \in Fields : SaveField(h, f)

MainStep == LeaveLoop \/ Acquire \/ DoCall("main") \/ Exit

Environment ==
  \/ \E a \in Answers : SetApi(a)
  \/ signal_handler
  \/ \E l \in Leds : BlinkEnds(l)
  \/ Killed
  \/ Restart

Next ==
  \/ Environment
  \/ \E h \in Handlers : Alarm(h) \/ HandlerStep(h)
  \/ \E p \in PwmThreads : PwmLoop(p)
  \/ MainStep

\* The interval timer never stops and the kernel delivers its signal to a
\* thread that does not block it; a runnable thread runs.  A PWM loop goes on
\* unless alarms keep its thread: polls that time out take 2 s, alarms come
\* every 250 ms, and one that waits is served as soon as a handler returns.
Fairness ==
  /\ WF_vars(\E h \in Handlers : Alarm(h))
  /\ \A h \in Handlers : WF_vars(HandlerStep(h))
  /\ \A p \in PwmThreads : WF_vars(PwmLoop(p))
  /\ WF_vars(MainStep)

Spec == Init /\ [][Next]_vars /\ Fairness
-----------------------------------------------------------------------------
TypeOK ==
  /\ api \in Answers
  /\ running \in BOOLEAN
  /\ pc \in [Contexts -> {"idle", "fetch", "compare", "execute", "save", "loop", "exited"}]
  /\ at \in [Contexts -> Nat \ {0}]
  /\ new_command \in [Handlers -> CarCommand]
  /\ unsaved \in [Handlers -> SUBSET Fields]
  /\ last_command \in CarCommand
  /\ mutex \in [Mutexes -> Contexts \cup {"free"}]
  /\ duty \in [Motors -> 0..100]
  /\ cycle \in [Motors -> 0..100]
  /\ caught \in [PwmThreads -> {0, 100}]
  /\ servo \in {0, 65, 90, 115}
  /\ level \in [Leds -> 0..1]
  /\ blinking \in [Leds -> BOOLEAN]
  /\ order \in {"kept", "lost", "restoring"}

\* The signed speed each side of the car should turn at: a turn reverses the
\* inner side
Sign(cmd)       == CASE cmd.movement = "forward" -> 1 [] cmd.movement = "backward" -> -1 [] OTHER -> 0
LeftSpeed(cmd)  == Sign(cmd) * cmd.speed * (IF cmd.direction = "left" THEN -1 ELSE 1)
RightSpeed(cmd) == Sign(cmd) * cmd.speed * (IF cmd.direction = "right" THEN -1 ELSE 1)

\* The two inputs of an H-bridge turn its side at this speed
Bridge(pins, forward, backward, speed) ==
  /\ pins[forward]  = IF speed > 0 THEN speed ELSE 0
  /\ pins[backward] = IF speed < 0 THEN -speed ELSE 0

Turns(pins, cmd) ==
  /\ Bridge(pins, PWM_MOTOR_LEFT_1, PWM_MOTOR_LEFT_2, LeftSpeed(cmd))
  /\ Bridge(pins, PWM_MOTOR_RIGHT_1, PWM_MOTOR_RIGHT_2, RightSpeed(cmd))

\* softPwmUpdateDuty refuses other speeds, and the pins keep what they had
LegalDuty(cmd) == Sign(cmd) # 0 => cmd.speed \in 0..100

MotorsFollow(cmd) == LegalDuty(cmd) => Turns([m \in Motors |-> Output(m)], cmd)

Stopped   == \A m \in Motors : Output(m) = 0
Dark      == \A l \in Leds : level[l] = 0 /\ ~blinking[l]

\* No callback is under way, and the PWM loops have come round
Quiescent ==
  /\ pc["main"] = "loop"
  /\ \A h \in Handlers : pc[h] = "idle"
  /\ cycle = duty

\* When no callback is under way, the motors and the servo are exactly what
\* the command in last_command asks for, unless callbacks have overlapped and
\* none has executed and saved alone since.  The callback relies on it: a poll
\* that returns the same command again executes nothing.
OutputsFollowLastCommand ==
  order = "kept" /\ Quiescent =>
    MotorsFollow(last_command) /\ servo = SteeringAngle(last_command.direction)

\* A car at rest shows no light and leaves no blink thread behind, whatever
\* turns and straights it came from (execute_car_command clears nothing on
\* its way from one movement to the next), and whatever an overlap of
\* callbacks left of the lights before the last one that ran alone.
RestIsDark ==
  order = "kept" /\ Quiescent /\ last_command.movement \in {"none", "stop"} => Dark

Follows(a) ==
  LET cmd == IF a.reply THEN parse_car_command(a.body) ELSE StopCommand
  IN  MotorsFollow(cmd) /\ servo = SteeringAngle(cmd.direction)

\* If the server holds one answer for good, the car ends up doing what it says.
FollowsServer == \A a \in Answers : <>[](api = a /\ running) => <>[]Follows(a)

\* It does so when some callback has executed and saved alone and no two
\* overlap any more, whatever those did that overlapped before.
FollowsServerInOrder == <>[](order = "kept") => FollowsServer

\* The duties that are written follow the server even when callbacks overlap.
\* Not true of the code: the pins keep the writes of one callback, last_command
\* those of another, and later polls find nothing changed (GpioOverlapFollows.cfg).
WritesFollowServer ==
  \A a \in Answers :
    <>[](api = a /\ running) =>
      <>[](LET cmd == IF a.reply THEN parse_car_command(a.body) ELSE StopCommand
           IN  LegalDuty(cmd) => Turns(duty, cmd))

\* "If HTTP request fails, stop the car for safety": if every poll fails from
\* some time on, the motors stop and stay stopped.  Not true of the code: alarms
\* may keep a PWM thread in handlers for ever, its pin at the level they found.
FailsafeStops == <>[](~api.reply /\ running) => <>[]Stopped

\* They do so, even when several callbacks overlap and an older one still
\* executes a move, as long as the PWM loops are not kept from going on.
FailsafeStopsIfLoopsRun == []<>(cycle = duty) => FailsafeStops

\* "Signal handler for clean shutdown": after SIGTERM the program ends.
ShutdownEnds == ~running ~> ~Alive
=============================================================================
