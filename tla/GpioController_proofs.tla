----------------------- MODULE GpioController_proofs ------------------------
(***************************************************************************)
(* Proofs about the car's control program, for every set of answers, of    *)
(* signals and of PWM threads that may serve the timer: its types, its     *)
(* outputs and its lights.                                                 *)
(***************************************************************************)
EXTENDS GpioController, TLAPS

-----------------------------------------------------------------------------
(* The calls that commands make *)

\* The calls that gpio_lib accepts, but for the duty cycles outside 0..100
LegalCalls ==
       [op : {"softPwmUpdateDuty"}, pin : Motors, val : Int]
  \cup [op : {"digitalWrite"}, pin : Leds, val : 0..1]
  \cup [op : {"blinkStart", "blinkStop"}, pin : Leds, val : {0}]
  \cup [op : {"servoWriteLimited"}, pin : {PWM_SERVO}, val : {65, 90, 115}]
  \cup [op : {"servoStop"}, pin : {PWM_SERVO}, val : {0}]

\* Each way to build a call builds a legal one.
LEMMA CallFact ==
  /\ \A pin \in Motors, val \in Int : Duty(pin, val) \in LegalCalls
  /\ \A pin \in Leds, val \in 0..1 : Led(pin, val) \in LegalCalls
  /\ \A pin \in Leds : Blink(pin) \in LegalCalls /\ Unblink(pin) \in LegalCalls
  /\ \A angle \in {65, 90, 115} : Servo(angle) \in LegalCalls
  /\ Call("servoStop", PWM_SERVO, 0) \in LegalCalls
<1>1. \A pin \in Motors, val \in Int : Duty(pin, val) \in LegalCalls
  BY DEF Duty, Call, LegalCalls
<1>2. \A pin \in Leds, val \in 0..1 : Led(pin, val) \in LegalCalls
  BY DEF Led, Call, LegalCalls
<1>3. \A pin \in Leds : Blink(pin) \in LegalCalls /\ Unblink(pin) \in LegalCalls
  BY DEF Blink, Unblink, Call, LegalCalls
<1>4. \A angle \in {65, 90, 115} : Servo(angle) \in LegalCalls
  BY DEF Servo, Call, LegalCalls
<1>5. Call("servoStop", PWM_SERVO, 0) \in LegalCalls
  BY DEF Call, LegalCalls
<1>. QED
  BY <1>1, <1>2, <1>3, <1>4, <1>5

\* The pins of the motors and of the LEDs.
LEMMA PinFact ==
  /\ PWM_MOTOR_LEFT_1 \in Motors /\ PWM_MOTOR_LEFT_2 \in Motors
  /\ PWM_MOTOR_RIGHT_1 \in Motors /\ PWM_MOTOR_RIGHT_2 \in Motors
  /\ LED_FORWARD_RIGHT \in Leds /\ LED_FORWARD_LEFT \in Leds
  /\ LED_BACKWARD_LEFT \in Leds /\ LED_BACKWARD_RIGHT \in Leds
BY DEF Motors, Leds

\* The four motor updates.
LEMMA DriveFact ==
  ASSUME NEW l1 \in Int, NEW l2 \in Int, NEW r1 \in Int, NEW r2 \in Int
  PROVE  Drive(l1, l2, r1, r2) \in Seq(LegalCalls)
BY CallFact, PinFact DEF Drive

\* Stopping is made of legal calls.
LEMMA StopFact == stop_all \in Seq(LegalCalls)
<1>1. 0 \in Int /\ 0 \in 0..1
  OBVIOUS
<1>. QED
  BY <1>1, CallFact, PinFact DEF stop_all

\* Steering is a legal call.
LEMMA SteeringFact == \A d : set_steering_direction(d) \in LegalCalls
BY CallFact DEF set_steering_direction, SteeringAngle

\* Every command is executed by legal calls only: gpio_lib refuses none, but for
\* its speed.
LEMMA ScriptFact ==
  ASSUME NEW cmd \in CarCommand
  PROVE  execute_car_command(cmd) \in Seq(LegalCalls)
<1>1. cmd.speed \in Int /\ 0 \in Int /\ 0 \in 0..1 /\ 1 \in 0..1
  BY DEF CarCommand
<1>2. MovementCalls(cmd) \in Seq(LegalCalls)
  <2>1. \A p \in Leds, q \in Leds : /\ <<Blink(p), Blink(q)>> \in Seq(LegalCalls)
                                    /\ <<Led(p, 1), Led(q, 1)>> \in Seq(LegalCalls)
    BY <1>1, CallFact
  <2>2. \A p \in Seq(LegalCalls), q \in Seq(LegalCalls) : p \o q \in Seq(LegalCalls)
    OBVIOUS
  <2>. QED
    BY <1>1, <2>1, <2>2, DriveFact, StopFact, PinFact DEF MovementCalls
<1>3. <<set_steering_direction(cmd.direction)>> \in Seq(LegalCalls)
  BY SteeringFact
<1>. QED
  BY <1>2, <1>3 DEF execute_car_command

\* So is the shutdown.
LEMMA CleanupFact == cleanup \in Seq(LegalCalls)
<1>1. <<set_steering_direction("center"), Call("servoStop", PWM_SERVO, 0)>> \in Seq(LegalCalls)
  BY SteeringFact, CallFact
<1>. QED
  BY <1>1, StopFact DEF cleanup

-----------------------------------------------------------------------------
(* Type correctness, in two parts: the pins, and the rest *)

\* Where a context can be
Places == {"idle", "fetch", "compare", "execute", "save", "loop", "exited"}

PinsOK == /\ duty \in [Motors -> 0..100]
          /\ cycle \in [Motors -> 0..100]
          /\ servo \in {0, 65, 90, 115}
          /\ level \in [Leds -> 0..1]
          /\ blinking \in [Leds -> BOOLEAN]

ControlOK ==
  /\ api \in Answers
  /\ running \in BOOLEAN
  /\ pc \in [Contexts -> Places]
  /\ at \in [Contexts -> Nat \ {0}]
  /\ new_command \in [Handlers -> CarCommand]
  /\ unsaved \in [Handlers -> SUBSET Fields]
  /\ last_command \in CarCommand
  /\ mutex \in [Mutexes -> Contexts \cup {"free"}]
  /\ caught \in [PwmThreads -> {0, 100}]
  /\ order \in {"kept", "lost", "restoring"}

\* The two parts are TypeOK.
LEMMA TypeParts == TypeOK <=> PinsOK /\ ControlOK
BY DEF TypeOK, PinsOK, ControlOK, Places

\* The command executed when a poll fails, and at the start, is a command.
LEMMA StopCommandFact == StopCommand \in CarCommand
BY DEF StopCommand, CarCommand

\* What parse_car_command makes of an answer is a command: a missing field
\* has its default.
LEMMA ParseFact ==
  ASSUME NEW a \in Answers
  PROVE  parse_car_command(a.body) \in CarCommand
<1>1. /\ a.body.movement \in Movements \cup {""} /\ a.body.direction \in Directions \cup {""}
      /\ a.body.speed \in SpeedValues
  BY AnswersAssumption
<1>2. json_object_get_int(a.body.speed) \in Int
  <2>1. a.body.speed.num \in Int /\ a.body.speed.read \in Int
    BY <1>1 DEF SpeedValues
  <2>2. a.body.speed.num \div 2 \in Int
    BY <2>1
  <2>. QED
    BY <2>1, <2>2 DEF json_object_get_int
<1>. QED
  BY <1>1, <1>2 DEF parse_car_command, CarCommand

\* A PWM thread drives a motor pin, and is caught high or low.
LEMMA ThreadFact ==
  ASSUME NEW p \in PwmThreads
  PROVE  /\ PinOf[p] \in Motors
         /\ \A d : Levels(d) \subseteq {0, 100}
         /\ p # "alrm" /\ p # "main"
BY ThreadsAssumption DEF PinOf, Motors, Levels

\* A step of a PWM loop keeps the pins legal.
LEMMA LoopFact ==
  ASSUME PinsOK, NEW p \in PwmThreads, PwmLoop(p)
  PROVE  PinsOK'
BY ThreadFact DEF PwmLoop, PinsOK

\* A callback that returns, and an alarm, keep caught typed.
LEMMA CaughtFact ==
  ASSUME ControlOK, NEW h \in Handlers, Return(h) \/ Alarm(h)
  PROVE  caught' \in [PwmThreads -> {0, 100}]
<1>1. caught \in [PwmThreads -> {0, 100}] /\ 0 \in {0, 100}
  BY DEF ControlOK
<1>2. CASE Return(h)
  <2>1. caught' = [p \in PwmThreads |-> IF p = h THEN 0 ELSE caught[p]]
    BY <1>2 DEF Return
  <2>. QED
    BY <1>1, <2>1
<1>3. CASE Alarm(h)
  <2>1. CASE h = "alrm"
    BY <1>1, <1>3, <2>1 DEF Alarm
  <2>2. CASE h # "alrm"
    <3>1. h \in PwmThreads
      BY <2>2 DEF Handlers
    <3>2. PICK l \in Levels(cycle[PinOf[h]]) : caught' = [caught EXCEPT ![h] = l]
      BY <1>3, <2>2 DEF Alarm
    <3>3. l \in {0, 100}
      BY <3>1, <3>2, ThreadFact
    <3>. QED
      BY <1>1, <3>2, <3>3
  <2>. QED
    BY <2>1, <2>2
<1>. QED
  BY <1>2, <1>3

\* A legal call keeps the pins legal.
LEMMA PerformFact ==
  ASSUME PinsOK, NEW call \in LegalCalls, Perform(call)
  PROVE  PinsOK'
<1>1. CASE call.op = "softPwmUpdateDuty" /\ softPwmUpdateDuty(call.pin, call.val)
  <2>1. duty' = duty \/ (call.val \in 0..100 /\ duty' = [duty EXCEPT ![call.pin] = call.val])
    BY <1>1, Zenon DEF softPwmUpdateDuty
  <2>2. cycle' = cycle \/ (call.val \in 0..100 /\ cycle' = [cycle EXCEPT ![call.pin] = call.val])
    BY <1>1, Zenon DEF softPwmUpdateDuty
  <2>3. UNCHANGED <<servo, level, blinking>>
    BY <1>1 DEF softPwmUpdateDuty
  <2>. QED
    BY <2>1, <2>2, <2>3 DEF PinsOK
<1>2. CASE call.op = "digitalWrite" /\ digitalWrite(call.pin, call.val)
  <2>1. call.val \in 0..1
    BY <1>2 DEF LegalCalls
  <2>. QED
    BY <1>2, <2>1 DEF PinsOK, digitalWrite, motors
<1>3. CASE call.op = "blinkStart" /\ blinkStart(call.pin)
  <2>1. blinking' = blinking \/ blinking' = [blinking EXCEPT ![call.pin] = TRUE]
    BY <1>3, Zenon DEF blinkStart
  <2>2. level' = level \/ level' = [level EXCEPT ![call.pin] = 0]
    BY <1>3, Zenon DEF blinkStart
  <2>3. blinking' \in [Leds -> BOOLEAN]
    <3>1. blinking \in [Leds -> BOOLEAN] /\ TRUE \in BOOLEAN
      BY DEF PinsOK
    <3>2. [blinking EXCEPT ![call.pin] = TRUE] \in [Leds -> BOOLEAN]
      BY <3>1
    <3>. QED
      BY <2>1, <3>1, <3>2, Zenon
  <2>4. level' \in [Leds -> 0..1]
    BY <2>2 DEF PinsOK
  <2>. QED
    BY <1>3, <2>3, <2>4 DEF PinsOK, blinkStart, motors
<1>4. CASE call.op = "blinkStop" /\ blinkStop(call.pin)
  <2>1. blinking' = blinking \/ blinking' = [blinking EXCEPT ![call.pin] = FALSE]
    BY <1>4, Zenon DEF blinkStop
  <2>2. level' = level \/ level' = [level EXCEPT ![call.pin] = 0]
    BY <1>4, Zenon DEF blinkStop
  <2>3. blinking' \in [Leds -> BOOLEAN]
    <3>1. blinking \in [Leds -> BOOLEAN] /\ FALSE \in BOOLEAN
      BY DEF PinsOK
    <3>2. [blinking EXCEPT ![call.pin] = FALSE] \in [Leds -> BOOLEAN]
      BY <3>1
    <3>. QED
      BY <2>1, <3>1, <3>2, Zenon
  <2>4. level' \in [Leds -> 0..1]
    BY <2>2 DEF PinsOK
  <2>. QED
    BY <1>4, <2>3, <2>4 DEF PinsOK, blinkStop, motors
<1>5. CASE call.op = "servoWriteLimited" /\ servoWriteLimited(call.val)
  <2>1. call.val \in {65, 90, 115}
    BY <1>5 DEF LegalCalls
  <2>. QED
    BY <1>5, <2>1 DEF PinsOK, servoWriteLimited, motors
<1>6. CASE call.op = "servoStop" /\ servoStop
  BY <1>6 DEF PinsOK, servoStop, motors
<1>. QED
  BY <1>1, <1>2, <1>3, <1>4, <1>5, <1>6 DEF Perform

\* The program starts typed, and so it does after a restart.
LEMMA FreshFact ==
  /\ AtLoop \in [Contexts -> Places]
  /\ FirstCall \in [Contexts -> Nat \ {0}]
  /\ NoCommand \in [Handlers -> CarCommand]
  /\ AllSaved \in [Handlers -> SUBSET Fields]
  /\ Unlocked \in [Mutexes -> Contexts \cup {"free"}]
  /\ MotorsOff \in [Motors -> 0..100]
  /\ LedsLow \in [Leds -> 0..1]
  /\ NoBlink \in [Leds -> BOOLEAN]
  /\ NotCaught \in [PwmThreads -> {0, 100}]
BY StopCommandFact DEF Places, AtLoop, FirstCall, NoCommand, AllSaved, Unlocked, MotorsOff, LedsLow, NoBlink, NotCaught

\* The initial state is typed.
LEMMA TypeInit == Init => PinsOK /\ ControlOK
BY FreshFact, StopCommandFact DEF Init, PinsOK, ControlOK

\* A call of any context keeps the types: its script is made of legal calls.
LEMMA TypeDoCall ==
  ASSUME PinsOK, ControlOK, NEW c \in Contexts, DoCall(c)
  PROVE  PinsOK' /\ ControlOK'
<1>1. Script(c) \in Seq(LegalCalls)
  BY ScriptFact, CleanupFact DEF Script, ControlOK, Contexts
<1>2. Script(c)[at[c]] \in LegalCalls
  BY <1>1 DEF DoCall
<1>3. PinsOK'
  BY <1>2, PerformFact DEF DoCall
<1>4. mutex' \in [Mutexes -> Contexts \cup {"free"}]
  BY DEF DoCall, ControlOK
<1>5. at' \in [Contexts -> Nat \ {0}]
  BY DEF DoCall, ControlOK
<1>. QED
  BY <1>3, <1>4, <1>5 DEF DoCall, ControlOK

\* Every step keeps the types.
LEMMA TypeStep == PinsOK /\ ControlOK /\ [Next]_vars => PinsOK' /\ ControlOK'
<1>. SUFFICES ASSUME PinsOK, ControlOK, [Next]_vars PROVE PinsOK' /\ ControlOK'
  OBVIOUS
<1>. DEFINE Typed == PinsOK' /\ ControlOK'
<1>1. "main" \in Contexts /\ "alrm" \in Handlers /\ Handlers \subseteq Contexts
  BY DEF Contexts, Handlers
<1>2. ASSUME NEW a \in Answers, SetApi(a) PROVE Typed
  BY <1>2 DEF SetApi, hardware, motors, PinsOK, ControlOK
<1>3. ASSUME signal_handler PROVE Typed
  BY <1>3 DEF signal_handler, hardware, motors, PinsOK, ControlOK
<1>4. ASSUME NEW l \in Leds, BlinkEnds(l) PROVE Typed
  <2>1. blinking' \in [Leds -> BOOLEAN] /\ level' \in [Leds -> 0..1]
    BY <1>4 DEF BlinkEnds, PinsOK
  <2>. QED
    BY <1>4, <2>1 DEF BlinkEnds, motors, PinsOK, ControlOK
<1>5. ASSUME ProcessEnds PROVE Typed
  <2>1. PinsOK'
    <3>1. duty' \in [Motors -> {0, 100}] /\ cycle' = duty' /\ level' \in [Leds -> {0, 1}]
      BY <1>5 DEF ProcessEnds
    <3>. QED
      BY <1>5, <3>1, FreshFact DEF ProcessEnds, PinsOK
  <2>2. pc' \in [Contexts -> Places]
    BY <1>5 DEF ProcessEnds, Places
  <2>. QED
    BY <1>5, <2>1, <2>2, FreshFact, StopCommandFact DEF ProcessEnds, ControlOK
<1>6. ASSUME Restart PROVE Typed
  BY <1>6, FreshFact DEF Restart, init_gpio_pins, PinsOK, ControlOK
<1>7. ASSUME NEW h \in Handlers, Alarm(h) PROVE Typed
  <2>1. pc' \in [Contexts -> Places]
    BY <1>1, <1>7 DEF Alarm, ControlOK, Places
  <2>2. order' \in {"kept", "lost", "restoring"}
    BY <1>7 DEF Alarm, ControlOK
  <2>3. caught' \in [PwmThreads -> {0, 100}]
    BY <1>7, CaughtFact
  <2>4. PinsOK'
    BY <1>7 DEF Alarm, motors, PinsOK
  <2>. QED
    BY <1>7, <2>1, <2>2, <2>3, <2>4 DEF Alarm, ControlOK
<1>8. ASSUME NEW h \in Handlers, fetch_car_command(h) PROVE Typed
  <2>1. new_command' \in [Handlers -> CarCommand]
    <3>1. parse_car_command(api.body) \in CarCommand
      BY ParseFact DEF ControlOK
    <3>. QED
      BY <1>8, <3>1, StopCommandFact DEF fetch_car_command, FailedFetch, ControlOK
  <2>2. at' \in [Contexts -> Nat \ {0}]
    BY <1>8 DEF fetch_car_command, FailedFetch, ControlOK
  <2>3. pc' \in [Contexts -> Places]
    BY <1>8 DEF fetch_car_command, FailedFetch, ControlOK, Places
  <2>. QED
    BY <1>8, <2>1, <2>2, <2>3 DEF fetch_car_command, hardware, motors, PinsOK, ControlOK
<1>9. ASSUME NEW h \in Handlers, Compare(h) PROVE Typed
  <2>1. new_command' \in [Handlers -> CarCommand]
    BY <1>9, StopCommandFact DEF Compare, Return, ControlOK
  <2>2. at' \in [Contexts -> Nat \ {0}]
    BY <1>9 DEF Compare, ControlOK
  <2>3. pc' \in [Contexts -> Places]
    BY <1>9 DEF Compare, Return, ControlOK, Places
  <2>4. caught' \in [PwmThreads -> {0, 100}]
    BY <1>9, CaughtFact DEF Compare, ControlOK
  <2>. QED
    BY <1>9, <2>1, <2>2, <2>3, <2>4 DEF Compare, motors, PinsOK, ControlOK
<1>10. ASSUME NEW h \in Handlers, EndExecute(h) PROVE Typed
  <2>1. pc' \in [Contexts -> Places]
    BY <1>10 DEF EndExecute, ControlOK, Places
  <2>3. at' \in [Contexts -> Nat \ {0}]
    <3>1. at' = [at EXCEPT ![h] = 1] /\ at \in [Contexts -> Nat \ {0}] /\ 1 \in Nat \ {0}
      BY <1>10 DEF EndExecute, ControlOK
    <3>. QED
      BY <3>1
  <2>2. unsaved' \in [Handlers -> SUBSET Fields]
    BY <1>10 DEF EndExecute, ControlOK
  <2>. QED
    BY <1>10, <2>1, <2>2, <2>3 DEF EndExecute, hardware, motors, PinsOK, ControlOK
<1>11. ASSUME NEW h \in Handlers, NEW f \in Fields, SaveField(h, f) PROVE Typed
  <2>1. last_command' \in CarCommand
    <3>1. last_command \in CarCommand /\ new_command[h] \in CarCommand
      BY DEF ControlOK
    <3>2. last_command' = [last_command EXCEPT ![f] = new_command[h][f]]
      BY <1>11 DEF SaveField
    <3>. QED
      BY <3>1, <3>2 DEF CarCommand, Fields
  <2>2. new_command' \in [Handlers -> CarCommand]
    BY <1>11, StopCommandFact DEF SaveField, Return, ControlOK
  <2>3. pc' \in [Contexts -> Places]
    BY <1>11 DEF SaveField, Return, ControlOK, Places
  <2>4. unsaved' \in [Handlers -> SUBSET Fields]
    BY <1>11 DEF SaveField, ControlOK
  <2>5. caught' \in [PwmThreads -> {0, 100}]
    BY <1>11, CaughtFact DEF SaveField, ControlOK
  <2>6. order' \in {"kept", "lost", "restoring"}
    BY <1>11 DEF SaveField, ControlOK
  <2>. QED
    BY <1>11, <2>1, <2>2, <2>3, <2>4, <2>5, <2>6 DEF SaveField, motors, PinsOK, ControlOK
<1>12. ASSUME LeaveLoop PROVE Typed
  <2>1. pc' \in [Contexts -> Places]
    BY <1>12 DEF LeaveLoop, ControlOK, Places
  <2>3. at' \in [Contexts -> Nat \ {0}]
    <3>1. at' = [at EXCEPT !["main"] = 1] /\ at \in [Contexts -> Nat \ {0}] /\ 1 \in Nat \ {0}
      BY <1>12 DEF LeaveLoop, ControlOK
    <3>. QED
      BY <3>1
  <2>. QED
    BY <1>12, <2>1, <2>3 DEF LeaveLoop, hardware, motors, PinsOK, ControlOK
<1>13. ASSUME Acquire PROVE Typed
  <2>1. mutex' \in [Mutexes -> Contexts \cup {"free"}]
    BY <1>1, <1>13 DEF Acquire, ControlOK
  <2>. QED
    BY <1>13, <2>1 DEF Acquire, hardware, motors, PinsOK, ControlOK
<1>14. ASSUME NEW c \in Contexts, DoCall(c) PROVE Typed
  BY <1>14, TypeDoCall
<1>15. ASSUME Exit \/ Killed PROVE Typed
  BY <1>5, <1>15 DEF Exit, Killed
<1>16. ASSUME UNCHANGED vars PROVE Typed
  BY <1>16 DEF vars, hardware, motors, PinsOK, ControlOK
<1>21. ASSUME NEW p \in PwmThreads, PwmLoop(p) PROVE Typed
  BY <1>21, LoopFact DEF PwmLoop, ControlOK
<1>. HIDE DEF Typed
<1>17. ASSUME Environment PROVE Typed
  BY <1>2, <1>3, <1>4, <1>6, <1>15, <1>17 DEF Environment
<1>18. ASSUME NEW h \in Handlers, HandlerStep(h) PROVE Typed
  BY <1>1, <1>8, <1>9, <1>10, <1>11, <1>14, <1>18 DEF HandlerStep
<1>19. ASSUME MainStep PROVE Typed
  BY <1>1, <1>12, <1>13, <1>14, <1>15, <1>19 DEF MainStep
<1>20. Typed
  BY <1>7, <1>16, <1>17, <1>18, <1>19, <1>21 DEF Next
<1>. QED
  BY <1>20 DEF Typed

\* Whatever the answers, the threads and the signals, every variable of the
\* car's program keeps its type: no duty cycle outside 0..100, no servo angle
\* outside the three that the steering uses.
THEOREM TypeCorrect == Spec => []TypeOK
BY TypeInit, TypeStep, TypeParts, PTL DEF Spec

-----------------------------------------------------------------------------
(***************************************************************************)
(* The motors and the servo follow last_command, unless callbacks have     *)
(* overlapped and none has executed and saved alone since.                 *)
(*                                                                         *)
(* While callbacks do not overlap only the handler on the main thread      *)
(* works.  The invariant says what the command it has not finished has     *)
(* done so far: the effects of the calls before the next one are all still *)
(* in place, because no call of a command undoes the effect of an earlier  *)
(* one.  That holds in the first callback alone after an overlap too, of   *)
(* which nothing else is known before it has saved its command.  In        *)
(* the same way a car that comes to rest is dark: RestIsDark, at the end.  *)
(***************************************************************************)

\* The duties written and the angle are those of a command
Outputs(cmd) == /\ LegalDuty(cmd) => Turns(duty, cmd)
                /\ servo = SteeringAngle(cmd.direction)

\* What a call is for, seen at the motors and at the servo
Effective(call) == /\ call.op = "softPwmUpdateDuty" /\ call.val \in 0..100 =>
                        duty[call.pin] = call.val
                   /\ call.op = "servoWriteLimited" => servo = call.val

\* The calls before the n-th one have done their work
Applied(cmd, n) ==
  \A i \in DOMAIN execute_car_command(cmd) : i < n => Effective(execute_car_command(cmd)[i])

\* The command that the handler works on has been carried out so far
Working ==
  \/ pc["alrm"] \in {"idle", "fetch", "compare"} /\ (order = "kept" => Outputs(last_command))
  \/ pc["alrm"] = "execute" /\ Applied(new_command["alrm"], at["alrm"])
  \/ /\ pc["alrm"] = "save"
     /\ Outputs(new_command["alrm"])
     /\ \A f \in Fields \ unsaved["alrm"] : last_command[f] = new_command["alrm"][f]

FollowInv ==
  /\ pc["main"] \in {"loop", "execute", "exited"}
  /\ order # "lost" => \A p \in PwmThreads : pc[p] = "idle"
  /\ pc["main"] = "loop" /\ order # "lost" => Working
  /\ pc["main"] = "exited" => last_command = StopCommand /\ order = "kept"

-----------------------------------------------------------------------------
(* The shape of a command: the servo, LEDs, and last the four motor pins *)

\* Calls 2 to k + 1 of e move neither motors nor servo
Shape(e, angle, a, b, c, d, k) ==
  /\ Len(e) = k + 5
  /\ e[1] = Servo(angle)
  /\ \A i \in 2..(k + 1) : e[i].op \notin {"softPwmUpdateDuty", "servoWriteLimited", "servoStop"}
  /\ e[k + 2] = Duty(PWM_MOTOR_LEFT_1, a)
  /\ e[k + 3] = Duty(PWM_MOTOR_LEFT_2, b)
  /\ e[k + 4] = Duty(PWM_MOTOR_RIGHT_1, c)
  /\ e[k + 5] = Duty(PWM_MOTOR_RIGHT_2, d)

\* A call that only concerns a LED
LedCalls == {call \in LegalCalls : call.op \notin {"softPwmUpdateDuty", "servoWriteLimited", "servoStop"}}

LEMMA LedCallFact ==
  /\ \A pin \in Leds : Blink(pin) \in LedCalls /\ Unblink(pin) \in LedCalls
  /\ \A pin \in Leds, val \in 0..1 : Led(pin, val) \in LedCalls
<1>1. \A pin \in Leds : Blink(pin).op = "blinkStart" /\ Unblink(pin).op = "blinkStop"
  BY DEF Blink, Unblink, Call
<1>2. \A pin \in Leds, val \in 0..1 : Led(pin, val).op = "digitalWrite"
  BY DEF Led, Call
<1>. QED
  BY <1>1, <1>2, CallFact DEF LedCalls

\* The branches that move the car have two LED calls.
LEMMA MoveShape ==
  ASSUME NEW angle \in {65, 90, 115}, NEW x \in LedCalls, NEW y \in LedCalls,
         NEW a \in Int, NEW b \in Int, NEW c \in Int, NEW d \in Int
  PROVE  Shape(<<Servo(angle)>> \o (<<x, y>> \o Drive(a, b, c, d)), angle, a, b, c, d, 2)
<1>. DEFINE s == Servo(angle)
            q1 == Duty(PWM_MOTOR_LEFT_1, a)
            q2 == Duty(PWM_MOTOR_LEFT_2, b)
            q3 == Duty(PWM_MOTOR_RIGHT_1, c)
            q4 == Duty(PWM_MOTOR_RIGHT_2, d)
            e == <<s>> \o (<<x, y>> \o <<q1, q2, q3, q4>>)
<1>1. /\ s \in LegalCalls /\ x \in LegalCalls /\ y \in LegalCalls
      /\ q1 \in LegalCalls /\ q2 \in LegalCalls /\ q3 \in LegalCalls /\ q4 \in LegalCalls
  BY CallFact, PinFact DEF LedCalls
<1>. HIDE DEF s, q1, q2, q3, q4
<1>2. /\ Len(e) = 7
      /\ e[1] = s /\ e[2] = x /\ e[3] = y
      /\ e[4] = q1 /\ e[5] = q2 /\ e[6] = q3 /\ e[7] = q4
  BY <1>1
<1>. HIDE DEF e
<1>3. \A i \in 2..(2 + 1) : e[i].op \notin {"softPwmUpdateDuty", "servoWriteLimited", "servoStop"}
  <2>1. /\ x.op \notin {"softPwmUpdateDuty", "servoWriteLimited", "servoStop"}
        /\ y.op \notin {"softPwmUpdateDuty", "servoWriteLimited", "servoStop"}
    BY DEF LedCalls
  <2>2. \A i \in 2..(2 + 1) : i = 2 \/ i = 3
    OBVIOUS
  <2>. QED
    BY <1>2, <2>1, <2>2
<1>4. e = <<Servo(angle)>> \o (<<x, y>> \o Drive(a, b, c, d))
  BY DEF e, s, q1, q2, q3, q4, Drive
<1>5. /\ Len(e) = 2 + 5 /\ e[2 + 2] = q1 /\ e[2 + 3] = q2 /\ e[2 + 4] = q3 /\ e[2 + 5] = q4
  BY <1>2
<1>6. Shape(e, angle, a, b, c, d, 2)
  BY <1>2, <1>3, <1>5, Zenon DEF Shape, s, q1, q2, q3, q4
<1>. QED
  BY <1>4, <1>6

\* The branch that stops it has eight.
LEMMA StopShape ==
  ASSUME NEW angle \in {65, 90, 115}
  PROVE  Shape(<<Servo(angle)>> \o stop_all, angle, 0, 0, 0, 0, 8)
<1>. DEFINE s == Servo(angle)
            e == <<s>> \o stop_all
<1>1. s \in LegalCalls /\ stop_all \in Seq(LegalCalls) /\ 0 \in 0..1
  BY CallFact, StopFact
<1>2. /\ Len(stop_all) = 12
      /\ \A k \in 1..8 : stop_all[k] \in LedCalls
  <2>. DEFINE p == stop_all
  <2>1. Len(p) = 12
    BY DEF stop_all
  <2>2. /\ p[1] \in LedCalls /\ p[2] \in LedCalls /\ p[3] \in LedCalls /\ p[4] \in LedCalls
        /\ p[5] \in LedCalls /\ p[6] \in LedCalls /\ p[7] \in LedCalls /\ p[8] \in LedCalls
    BY <1>1, LedCallFact, PinFact DEF stop_all
  <2>. HIDE DEF p
  <2>3. \A k \in 1..8 : k = 1 \/ k = 2 \/ k = 3 \/ k = 4 \/ k = 5 \/ k = 6 \/ k = 7 \/ k = 8
    OBVIOUS
  <2>4. \A k \in 1..8 : p[k] \in LedCalls
    BY <2>2, <2>3
  <2>. QED
    BY <2>1, <2>4 DEF p
<1>3. /\ stop_all[9] = Duty(PWM_MOTOR_LEFT_1, 0) /\ stop_all[10] = Duty(PWM_MOTOR_LEFT_2, 0)
      /\ stop_all[11] = Duty(PWM_MOTOR_RIGHT_1, 0) /\ stop_all[12] = Duty(PWM_MOTOR_RIGHT_2, 0)
  BY DEF stop_all
<1>. HIDE DEF s
<1>4. /\ Len(e) = 13 /\ e[1] = s
      /\ \A i \in 2..13 : e[i] = stop_all[i - 1]
  <2>1. \A q \in Seq(LegalCalls) : /\ Len(<<s>> \o q) = 1 + Len(q)
                                   /\ (<<s>> \o q)[1] = s
                                   /\ \A i \in 2..(Len(q) + 1) : (<<s>> \o q)[i] = q[i - 1]
    <3>. SUFFICES ASSUME NEW q \in Seq(LegalCalls)
                  PROVE  /\ Len(<<s>> \o q) = 1 + Len(q)
                         /\ (<<s>> \o q)[1] = s
                         /\ \A i \in 2..(Len(q) + 1) : (<<s>> \o q)[i] = q[i - 1]
      OBVIOUS
    <3>1. <<s>> \in Seq(LegalCalls) /\ Len(<<s>>) = 1 /\ <<s>>[1] = s
      BY <1>1
    <3>. QED
      BY <3>1
  <2>2. Len(stop_all) = 12 /\ Len(stop_all) + 1 = 13 /\ 1 + Len(stop_all) = 13
    BY <1>2
  <2>. QED
    BY <1>1, <2>1, <2>2
<1>. HIDE DEF e
<1>5. \A i \in 2..(8 + 1) : e[i].op \notin {"softPwmUpdateDuty", "servoWriteLimited", "servoStop"}
  <2>. SUFFICES ASSUME NEW i \in 2..(8 + 1)
                PROVE  e[i].op \notin {"softPwmUpdateDuty", "servoWriteLimited", "servoStop"}
    OBVIOUS
  <2>1. e[i] = stop_all[i - 1] /\ i - 1 \in 1..8
    BY <1>4
  <2>2. stop_all[i - 1] \in LedCalls
    BY <1>2, <2>1
  <2>. QED
    BY <2>1, <2>2 DEF LedCalls
<1>6. /\ Len(e) = 8 + 5 /\ e[8 + 2] = stop_all[9] /\ e[8 + 3] = stop_all[10]
      /\ e[8 + 4] = stop_all[11] /\ e[8 + 5] = stop_all[12]
  BY <1>4
<1>7. Shape(e, angle, 0, 0, 0, 0, 8)
  BY <1>3, <1>4, <1>5, <1>6, Zenon DEF Shape, s
<1>. QED
  BY <1>7 DEF e, s

\* Duties that make the motors follow a command, if its speed is a legal one
Drives(a, b, c, d, cmd) ==
  LegalDuty(cmd) =>
    /\ a \in 0..100 /\ b \in 0..100 /\ c \in 0..100 /\ d \in 0..100
    /\ /\ duty[PWM_MOTOR_LEFT_1] = a /\ duty[PWM_MOTOR_LEFT_2] = b
       /\ duty[PWM_MOTOR_RIGHT_1] = c /\ duty[PWM_MOTOR_RIGHT_2] = d
       => Turns(duty, cmd)

\* Every command has that shape, and duties that make the motors follow it.
LEMMA CommandShape ==
  ASSUME NEW cmd \in CarCommand
  PROVE  \E a \in Int, b \in Int, c \in Int, d \in Int, k \in {2, 8} :
           /\ Shape(execute_car_command(cmd), SteeringAngle(cmd.direction), a, b, c, d, k)
           /\ Drives(a, b, c, d, cmd)
<1>. DEFINE s == cmd.speed
            angle == SteeringAngle(cmd.direction)
            e == execute_car_command(cmd)
<1>1. s \in Int /\ 0 \in Int /\ 0 \in 0..100 /\ 0 \in 0..1 /\ 1 \in 0..1
  BY DEF CarCommand
<1>12. LegalDuty(cmd) /\ cmd.movement \in {"forward", "backward"} => s \in 0..100 /\ s >= 0
  BY DEF LegalDuty, Sign
<1>2. angle \in {65, 90, 115}
  BY DEF SteeringAngle
<1>3. e = <<Servo(angle)>> \o MovementCalls(cmd)
  BY DEF execute_car_command, set_steering_direction
<1>4. \A x \in LedCalls, y \in LedCalls, a \in Int, b \in Int, c \in Int, d \in Int :
        MovementCalls(cmd) = <<x, y>> \o Drive(a, b, c, d) => Shape(e, angle, a, b, c, d, 2)
  <2>. HIDE DEF e, angle
  <2>. QED
    BY <1>2, <1>3, MoveShape
<1>. HIDE DEF e, angle
<1>5. CASE cmd.movement = "forward" /\ cmd.direction = "left"
  <2>1. MovementCalls(cmd) = <<Blink(LED_FORWARD_LEFT), Blink(LED_BACKWARD_LEFT)>> \o Drive(0, s, s, 0)
    BY <1>5 DEF MovementCalls
  <2>2. Drives(0, s, s, 0, cmd)
    BY <1>1, <1>5, <1>12 DEF Drives, Turns, Bridge, LeftSpeed, RightSpeed, Sign
  <2>3. Shape(e, angle, 0, s, s, 0, 2)
    BY <1>1, <1>4, <2>1, LedCallFact, PinFact
  <2>. QED
    BY <1>1, <2>2, <2>3 DEF e, angle
<1>6. CASE cmd.movement = "forward" /\ cmd.direction = "right"
  <2>1. MovementCalls(cmd) = <<Blink(LED_FORWARD_RIGHT), Blink(LED_BACKWARD_RIGHT)>> \o Drive(s, 0, 0, s)
    BY <1>6 DEF MovementCalls
  <2>2. Drives(s, 0, 0, s, cmd)
    BY <1>1, <1>6, <1>12 DEF Drives, Turns, Bridge, LeftSpeed, RightSpeed, Sign
  <2>3. Shape(e, angle, s, 0, 0, s, 2)
    BY <1>1, <1>4, <2>1, LedCallFact, PinFact
  <2>. QED
    BY <1>1, <2>2, <2>3 DEF e, angle
<1>7. CASE cmd.movement = "forward" /\ cmd.direction \notin {"left", "right"}
  <2>1. MovementCalls(cmd) = <<Led(LED_FORWARD_LEFT, 1), Led(LED_FORWARD_RIGHT, 1)>> \o Drive(s, 0, s, 0)
    BY <1>7 DEF MovementCalls
  <2>2. Drives(s, 0, s, 0, cmd)
    BY <1>1, <1>7, <1>12 DEF Drives, Turns, Bridge, LeftSpeed, RightSpeed, Sign
  <2>3. Shape(e, angle, s, 0, s, 0, 2)
    BY <1>1, <1>4, <2>1, LedCallFact, PinFact
  <2>. QED
    BY <1>1, <2>2, <2>3 DEF e, angle
<1>8. CASE cmd.movement = "backward" /\ cmd.direction = "left"
  <2>1. MovementCalls(cmd) = <<Blink(LED_BACKWARD_LEFT), Blink(LED_FORWARD_LEFT)>> \o Drive(s, 0, 0, s)
    BY <1>8 DEF MovementCalls
  <2>2. Drives(s, 0, 0, s, cmd)
    BY <1>1, <1>8, <1>12 DEF Drives, Turns, Bridge, LeftSpeed, RightSpeed, Sign
  <2>3. Shape(e, angle, s, 0, 0, s, 2)
    BY <1>1, <1>4, <2>1, LedCallFact, PinFact
  <2>. QED
    BY <1>1, <2>2, <2>3 DEF e, angle
<1>9. CASE cmd.movement = "backward" /\ cmd.direction = "right"
  <2>1. MovementCalls(cmd) = <<Blink(LED_BACKWARD_RIGHT), Blink(LED_FORWARD_RIGHT)>> \o Drive(0, s, s, 0)
    BY <1>9 DEF MovementCalls
  <2>2. Drives(0, s, s, 0, cmd)
    BY <1>1, <1>9, <1>12 DEF Drives, Turns, Bridge, LeftSpeed, RightSpeed, Sign
  <2>3. Shape(e, angle, 0, s, s, 0, 2)
    BY <1>1, <1>4, <2>1, LedCallFact, PinFact
  <2>. QED
    BY <1>1, <2>2, <2>3 DEF e, angle
<1>10. CASE cmd.movement = "backward" /\ cmd.direction \notin {"left", "right"}
  <2>1. MovementCalls(cmd) = <<Led(LED_BACKWARD_LEFT, 1), Led(LED_BACKWARD_RIGHT, 1)>> \o Drive(0, s, 0, s)
    BY <1>10 DEF MovementCalls
  <2>2. Drives(0, s, 0, s, cmd)
    BY <1>1, <1>10, <1>12 DEF Drives, Turns, Bridge, LeftSpeed, RightSpeed, Sign
  <2>3. Shape(e, angle, 0, s, 0, s, 2)
    BY <1>1, <1>4, <2>1, LedCallFact, PinFact
  <2>. QED
    BY <1>1, <2>2, <2>3 DEF e, angle
<1>11. CASE cmd.movement \notin {"forward", "backward"}
  <2>1. MovementCalls(cmd) = stop_all
    BY <1>11 DEF MovementCalls
  <2>2. Drives(0, 0, 0, 0, cmd)
    <3>1. Sign(cmd) = 0 /\ 0 * s = 0 /\ 0 * (-1) = 0 /\ 0 * 1 = 0
      BY <1>1, <1>11 DEF Sign
    <3>2. LeftSpeed(cmd) = 0 /\ RightSpeed(cmd) = 0
      BY <3>1 DEF LeftSpeed, RightSpeed
    <3>. QED
      BY <1>1, <3>2 DEF Drives, Turns, Bridge
  <2>3. Shape(e, angle, 0, 0, 0, 0, 8)
    BY <1>2, <1>3, <2>1, StopShape
  <2>. QED
    BY <1>1, <2>2, <2>3 DEF e, angle
<1>. QED
  BY <1>5, <1>6, <1>7, <1>8, <1>9, <1>10, <1>11

-----------------------------------------------------------------------------
(* A call of a command has its effect, and undoes none of an earlier one *)

\* What a legal call does is its effect.
LEMMA EffectFact ==
  ASSUME PinsOK, NEW call \in LegalCalls, Perform(call)
  PROVE  Effective(call)'
<1>1. CASE call.op = "softPwmUpdateDuty"
  <2>1. call.pin \in Motors
    BY <1>1 DEF LegalCalls
  <2>2. softPwmUpdateDuty(call.pin, call.val)
    BY <1>1 DEF Perform
  <2>. QED
    BY <1>1, <2>1, <2>2 DEF softPwmUpdateDuty, PinsOK, Effective
<1>2. CASE call.op = "servoWriteLimited"
  <2>1. call.val \in 65..115
    BY <1>2 DEF LegalCalls
  <2>2. servoWriteLimited(call.val)
    BY <1>2 DEF Perform
  <2>. QED
    BY <1>2, <2>1, <2>2 DEF servoWriteLimited, Effective
<1>3. CASE call.op \notin {"softPwmUpdateDuty", "servoWriteLimited"}
  BY <1>3 DEF Effective
<1>. QED
  BY <1>1, <1>2, <1>3

\* Two calls that do not drive the same motor pin or both the servo do not
\* touch each other's effects.
Apart(early, late) ==
  /\ ~(/\ early.op = "softPwmUpdateDuty" /\ late.op = "softPwmUpdateDuty"
       /\ early.pin = late.pin)
  /\ late.op \notin {"servoWriteLimited", "servoStop"}

LEMMA KeepFact ==
  ASSUME PinsOK, NEW early \in LegalCalls, NEW late \in LegalCalls,
         Apart(early, late), Effective(early), Perform(late)
  PROVE  Effective(early)'
<1>1. servo' = servo
  BY DEF Perform, Apart, softPwmUpdateDuty, digitalWrite, blinkStart, blinkStop
<1>2. early.op = "softPwmUpdateDuty" => duty'[early.pin] = duty[early.pin]
  <2>. SUFFICES ASSUME early.op = "softPwmUpdateDuty" PROVE duty'[early.pin] = duty[early.pin]
    OBVIOUS
  <2>1. CASE late.op = "softPwmUpdateDuty"
    <3>1. early.pin # late.pin /\ early.pin \in Motors
      BY <2>1 DEF Apart, LegalCalls
    <3>2. softPwmUpdateDuty(late.pin, late.val)
      BY <2>1 DEF Perform
    <3>. QED
      BY <3>1, <3>2 DEF softPwmUpdateDuty, PinsOK
  <2>2. CASE late.op # "softPwmUpdateDuty"
    BY <2>2 DEF Perform, digitalWrite, blinkStart, blinkStop, servoWriteLimited, servoStop, motors
  <2>. QED
    BY <2>1, <2>2
<1>. QED
  BY <1>1, <1>2 DEF Effective

\* The calls of one command are apart from each other.
LEMMA ApartFact ==
  ASSUME NEW cmd \in CarCommand, NEW i \in Nat \ {0}, NEW n \in DOMAIN execute_car_command(cmd), i < n
  PROVE  Apart(execute_car_command(cmd)[i], execute_car_command(cmd)[n])
<1>. DEFINE e == execute_car_command(cmd)
<1>. SUFFICES Apart(e[i], e[n])
  OBVIOUS
<1>1. PICK a \in Int, b \in Int, c \in Int, d \in Int, k \in {2, 8} :
        /\ Shape(e, SteeringAngle(cmd.direction), a, b, c, d, k)
        /\ Drives(a, b, c, d, cmd)
  BY CommandShape
<1>2. e \in Seq(LegalCalls)
  BY ScriptFact
<1>3. n \in 2..(k + 5) /\ i \in 1..(k + 4)
  BY <1>1, <1>2 DEF Shape
<1>. HIDE DEF e
<1>4. CASE n \in 2..(k + 1)
  BY <1>1, <1>4 DEF Shape, Apart
<1>5. CASE n \in (k + 2)..(k + 5)
  <2>1. e[n].op = "softPwmUpdateDuty"
    <3>1. n = k + 2 \/ n = k + 3 \/ n = k + 4 \/ n = k + 5
      BY <1>5
    <3>. QED
      BY <1>1, <3>1 DEF Shape, Duty, Call
  <2>2. CASE i = 1
    BY <1>1, <2>1, <2>2 DEF Shape, Servo, Call, Apart
  <2>3. CASE i \in 2..(k + 1)
    BY <1>1, <2>1, <2>3 DEF Shape, Apart
  <2>4. CASE i \in (k + 2)..(k + 4)
    <3>1. e[i].pin # e[n].pin
      <4>1. /\ e[k + 2].pin = 22 /\ e[k + 3].pin = 23 /\ e[k + 4].pin = 26 /\ e[k + 5].pin = 16
        BY <1>1 DEF Shape, Duty, Call, PWM_MOTOR_LEFT_1, PWM_MOTOR_LEFT_2, PWM_MOTOR_RIGHT_1, PWM_MOTOR_RIGHT_2
      <4>2. \/ i = k + 2 /\ n \in {k + 3, k + 4, k + 5}
            \/ i = k + 3 /\ n \in {k + 4, k + 5}
            \/ i = k + 4 /\ n = k + 5
        BY <1>5, <2>4
      <4>. QED
        BY <4>1, <4>2
    <3>. QED
      BY <2>1, <3>1 DEF Apart
  <2>. QED
    BY <1>3, <2>2, <2>3, <2>4
<1>. QED
  BY <1>3, <1>4, <1>5

\* So a call of a command keeps what its calls have done, and adds to it.
LEMMA AppliedStep ==
  ASSUME PinsOK, NEW cmd \in CarCommand, NEW n \in DOMAIN execute_car_command(cmd),
         Applied(cmd, n), Perform(execute_car_command(cmd)[n])
  PROVE  Applied(cmd, n + 1)'
<1>. DEFINE e == execute_car_command(cmd)
<1>1. e \in Seq(LegalCalls)
  BY ScriptFact
<1>2. n \in Nat \ {0} /\ DOMAIN e = 1..Len(e)
  BY <1>1
<1>3. ASSUME NEW i \in DOMAIN e, i < n + 1 PROVE Effective(e[i])'
  <2>1. i \in Nat \ {0} /\ e[i] \in LegalCalls /\ e[n] \in LegalCalls
    BY <1>1, <1>2
  <2>2. CASE i < n
    <3>1. Apart(e[i], e[n])
      BY <2>1, <2>2, ApartFact
    <3>2. Effective(e[i])
      BY <2>2 DEF Applied
    <3>. QED
      BY <2>1, <3>1, <3>2, KeepFact
  <2>3. CASE i = n
    BY <2>1, <2>3, EffectFact
  <2>. QED
    BY <1>2, <1>3, <2>1, <2>2, <2>3
<1>. QED
  BY <1>3 DEF Applied

\* When all calls are done, the motors and the servo follow the command.
LEMMA AppliedAll ==
  ASSUME NEW cmd \in CarCommand, NEW n \in Nat, n > Len(execute_car_command(cmd)), Applied(cmd, n)
  PROVE  Outputs(cmd)
<1>. DEFINE e == execute_car_command(cmd)
<1>1. PICK a \in Int, b \in Int, c \in Int, d \in Int, k \in {2, 8} :
        /\ Shape(e, SteeringAngle(cmd.direction), a, b, c, d, k)
        /\ Drives(a, b, c, d, cmd)
  BY CommandShape
<1>2. e \in Seq(LegalCalls) /\ Len(e) = k + 5
  BY <1>1, ScriptFact DEF Shape
<1>3. \A i \in 1..(k + 5) : Effective(e[i])
  BY <1>2 DEF Applied
<1>. HIDE DEF e
<1>4. servo = SteeringAngle(cmd.direction)
  <2>1. Effective(e[1]) /\ e[1] = Servo(SteeringAngle(cmd.direction))
    BY <1>1, <1>3 DEF Shape
  <2>. QED
    BY <2>1 DEF Effective, Servo, Call
<1>5. \A pin, val : Effective(Duty(pin, val)) /\ val \in 0..100 => duty[pin] = val
  BY DEF Effective, Duty, Call
<1>6. /\ Effective(Duty(PWM_MOTOR_LEFT_1, a)) /\ Effective(Duty(PWM_MOTOR_LEFT_2, b))
      /\ Effective(Duty(PWM_MOTOR_RIGHT_1, c)) /\ Effective(Duty(PWM_MOTOR_RIGHT_2, d))
  BY <1>1, <1>3 DEF Shape
<1>7. LegalDuty(cmd) => Turns(duty, cmd)
  BY <1>1, <1>5, <1>6 DEF Drives
<1>. QED
  BY <1>4, <1>7 DEF Outputs

-----------------------------------------------------------------------------
(* The invariant *)

\* The start, and a restart, leave the motors off and the servo straight.
LEMMA FreshOutputs ==
  ASSUME duty = MotorsOff, servo = 90, last_command = StopCommand
  PROVE  Outputs(last_command)
<1>1. LeftSpeed(StopCommand) = 0 /\ RightSpeed(StopCommand) = 0
  BY DEF LeftSpeed, RightSpeed, Sign, StopCommand
<1>2. SteeringAngle(StopCommand.direction) = 90
  BY DEF SteeringAngle, StopCommand
<1>3. Turns(duty, StopCommand)
  BY <1>1, PinFact DEF Turns, Bridge, MotorsOff
<1>. QED
  BY <1>2, <1>3 DEF Outputs

LEMMA FollowInit == Init => FollowInv
<1>. SUFFICES ASSUME Init PROVE FollowInv
  OBVIOUS
<1>1. "main" \in Contexts /\ "alrm" \in Contexts
  BY DEF Contexts, Handlers
<1>2. /\ pc["main"] = "loop" /\ pc["alrm"] = "idle"
      /\ \A p \in PwmThreads : pc[p] = "idle"
  BY <1>1, ThreadFact DEF Init, AtLoop, Contexts, Handlers
<1>3. Outputs(last_command) /\ order = "kept"
  BY FreshOutputs DEF Init
<1>. QED
  BY <1>2, <1>3 DEF FollowInv, Working

\* A step that leaves the handler, the commands and the pins of the motors
\* and the servo alone keeps what the handler has done.
LEMMA WorkingKept ==
  ASSUME Working, UNCHANGED <<at, new_command, unsaved, last_command, duty, servo, order>>,
         pc'["alrm"] = pc["alrm"]
  PROVE  Working'
BY DEF Working, Outputs, Applied, Effective, Turns, Bridge

\* A call of the handler.
LEMMA FollowDoCall ==
  ASSUME PinsOK, ControlOK, Working, DoCall("alrm")
  PROVE  Working'
<1>1. "alrm" \in Handlers /\ "alrm" \in Contexts
  BY DEF Contexts, Handlers
<1>2. PICK cmd \in CarCommand : cmd = new_command["alrm"]
  BY <1>1 DEF ControlOK
<1>3. PICK n \in Nat : n = at["alrm"]
  BY <1>1 DEF ControlOK
<1>4. /\ pc["alrm"] = "execute" /\ pc' = pc /\ new_command' = new_command
      /\ at'["alrm"] = n + 1
  BY <1>1, <1>3 DEF DoCall, ControlOK
<1>5. Applied(cmd, n)
  BY <1>2, <1>3, <1>4 DEF Working
<1>6. n \in DOMAIN execute_car_command(cmd) /\ Perform(execute_car_command(cmd)[n])
  BY <1>2, <1>3 DEF DoCall, Script
<1>7. Applied(cmd, n + 1)'
  BY <1>5, <1>6, AppliedStep
<1>8. cmd = new_command'["alrm"] /\ n + 1 = at'["alrm"]
  BY <1>2, <1>4
<1>9. Applied(new_command["alrm"], at["alrm"])'
  BY <1>7, <1>8 DEF Applied
<1>. QED
  BY <1>4, <1>9 DEF Working

\* The end of a command.
LEMMA FollowEndExecute ==
  ASSUME ControlOK, Working, EndExecute("alrm")
  PROVE  Working'
<1>1. "alrm" \in Handlers /\ "alrm" \in Contexts
  BY DEF Contexts, Handlers
<1>2. PICK cmd \in CarCommand : cmd = new_command["alrm"]
  BY <1>1 DEF ControlOK
<1>3. PICK n \in Nat : n = at["alrm"]
  BY <1>1 DEF ControlOK
<1>4. Outputs(cmd)
  <2>1. Applied(cmd, n)
    BY <1>2, <1>3 DEF Working, EndExecute
  <2>2. n > Len(execute_car_command(cmd))
    BY <1>2, <1>3 DEF EndExecute, Script
  <2>. QED
    BY <2>1, <2>2, AppliedAll
<1>5. /\ pc'["alrm"] = "save" /\ new_command' = new_command /\ unsaved'["alrm"] = Fields
      /\ UNCHANGED <<duty, servo>>
  BY <1>1 DEF EndExecute, hardware, motors, ControlOK
<1>6. Outputs(new_command["alrm"])'
  BY <1>2, <1>4, <1>5 DEF Outputs, LegalDuty, Turns, Bridge, LeftSpeed, RightSpeed, Sign
<1>. QED
  BY <1>5, <1>6 DEF Working

\* Two commands with the same fields are the same.
LEMMA SameCommand ==
  ASSUME NEW c1 \in CarCommand, NEW c2 \in CarCommand, \A f \in Fields : c1[f] = c2[f]
  PROVE  c1 = c2
BY DEF CarCommand, Fields

\* A field is copied; with the last one last_command is the command executed.
LEMMA FollowSaveField ==
  ASSUME ControlOK, ControlOK', Working, NEW f \in Fields, SaveField("alrm", f)
  PROVE  Working'
<1>1. "alrm" \in Handlers /\ "alrm" \in Contexts
  BY DEF Contexts, Handlers
<1>2. PICK cmd \in CarCommand : cmd = new_command["alrm"]
  BY <1>1 DEF ControlOK
<1>3. Outputs(cmd) /\ \A g \in Fields \ unsaved["alrm"] : last_command[g] = cmd[g]
  BY <1>2 DEF Working, SaveField
<1>4. Outputs(cmd)'
  BY <1>3 DEF SaveField, motors, Outputs, Turns, Bridge
<1>5. \A g \in Fields \ (unsaved["alrm"] \ {f}) : last_command'[g] = cmd[g]
  <2>1. last_command' = [last_command EXCEPT ![f] = cmd[f]] /\ last_command \in CarCommand
    BY <1>2 DEF SaveField, ControlOK
  <2>2. last_command'[f] = cmd[f] /\ \A g \in Fields \ {f} : last_command'[g] = last_command[g]
    BY <2>1 DEF CarCommand, Fields
  <2>. QED
    BY <1>3, <2>2
<1>6. CASE unsaved["alrm"] = {f}
  <2>1. last_command' = cmd
    BY <1>5, <1>6, SameCommand DEF ControlOK
  <2>2. pc'["alrm"] = "idle"
    BY <1>1, <1>6 DEF SaveField, Return, ControlOK
  <2>3. Outputs(last_command)'
    BY <1>4, <2>1 DEF Outputs, LegalDuty, Turns, Bridge, LeftSpeed, RightSpeed, Sign
  <2>. QED
    BY <2>2, <2>3 DEF Working
<1>7. CASE unsaved["alrm"] # {f}
  <2>1. pc' = pc /\ new_command' = new_command /\ unsaved'["alrm"] = unsaved["alrm"] \ {f}
    BY <1>1, <1>7 DEF SaveField, ControlOK
  <2>2. pc["alrm"] = "save"
    BY DEF SaveField
  <2>3. Outputs(new_command["alrm"])'
    BY <1>2, <1>4, <2>1 DEF Outputs, LegalDuty, Turns, Bridge, LeftSpeed, RightSpeed, Sign
  <2>. QED
    BY <1>2, <1>5, <2>1, <2>2, <2>3 DEF Working
<1>. QED
  BY <1>6, <1>7

\* The alarm on the main thread.  After an overlap nothing is known of the
\* outputs, and nothing is claimed before a command has been saved.
LEMMA FollowAlarm ==
  ASSUME ControlOK, order # "lost" => Working, Alarm("alrm"), order' # "lost"
  PROVE  Working'
<1>1. "alrm" \in Handlers /\ "alrm" \in Contexts
  BY DEF Contexts, Handlers
<1>2. pc["alrm"] = "idle" /\ pc'["alrm"] = "fetch"
  BY <1>1 DEF Alarm, ControlOK
<1>3. UNCHANGED <<last_command, duty, servo>> /\ (order' = "kept" => order = "kept")
  <2>1. order' = order \/ order' = "restoring"
    BY DEF Alarm
  <2>. QED
    BY <2>1 DEF Alarm, motors
<1>4. (order = "kept" => Outputs(last_command))'
  BY <1>2, <1>3 DEF Working, Outputs, LegalDuty, Turns, Bridge, LeftSpeed, RightSpeed, Sign
<1>. QED
  BY <1>2, <1>4 DEF Working

\* The steps of the handler, while main() is in its loop.
LEMMA FollowHandler ==
  ASSUME PinsOK, ControlOK, ControlOK', Working, HandlerStep("alrm")
  PROVE  Working'
<1>1. "alrm" \in Handlers /\ "alrm" \in Contexts
  BY DEF Contexts, Handlers
<1>3. CASE fetch_car_command("alrm")
  <2>1. UNCHANGED <<last_command, duty, servo, order>> /\ (order = "kept" => Outputs(last_command))
    BY <1>3 DEF fetch_car_command, hardware, motors, Working
  <2>2. (order = "kept" => Outputs(last_command))'
    BY <2>1 DEF Outputs, LegalDuty, Turns, Bridge, LeftSpeed, RightSpeed, Sign
  <2>3. CASE api.reply
    <3>1. pc'["alrm"] = "compare"
      BY <1>1, <1>3, <2>3 DEF fetch_car_command, ControlOK
    <3>. QED
      BY <2>2, <3>1 DEF Working
  <2>4. CASE ~api.reply
    <3>1. pc'["alrm"] = "execute" /\ at'["alrm"] = 1
      BY <1>1, <1>3, <2>4 DEF fetch_car_command, FailedFetch, ControlOK
    <3>2. Applied(new_command["alrm"], at["alrm"])'
      <4>1. new_command'["alrm"] \in CarCommand
        BY <1>1 DEF ControlOK
      <4>2. PICK cmd \in CarCommand : cmd = new_command'["alrm"]
        BY <4>1
      <4>3. \A i \in DOMAIN execute_car_command(cmd) : ~(i < 1)
        <5>1. execute_car_command(cmd) \in Seq(LegalCalls)
          BY ScriptFact
        <5>. QED
          BY <5>1
      <4>. QED
        BY <3>1, <4>2, <4>3 DEF Applied
    <3>. QED
      BY <3>1, <3>2 DEF Working
  <2>. QED
    BY <2>3, <2>4
<1>4. CASE Compare("alrm")
  <2>1. UNCHANGED <<last_command, duty, servo, order>> /\ (order = "kept" => Outputs(last_command))
    BY <1>4 DEF Compare, motors, Working
  <2>2. (order = "kept" => Outputs(last_command))'
    BY <2>1 DEF Outputs, LegalDuty, Turns, Bridge, LeftSpeed, RightSpeed, Sign
  <2>3. CASE Changed(new_command["alrm"])
    <3>1. pc'["alrm"] = "execute" /\ at'["alrm"] = 1
      BY <1>1, <1>4, <2>3 DEF Compare, ControlOK
    <3>2. Applied(new_command["alrm"], at["alrm"])'
      <4>1. new_command'["alrm"] \in CarCommand
        BY <1>1 DEF ControlOK
      <4>2. PICK cmd \in CarCommand : cmd = new_command'["alrm"]
        BY <4>1
      <4>3. \A i \in DOMAIN execute_car_command(cmd) : ~(i < 1)
        <5>1. execute_car_command(cmd) \in Seq(LegalCalls)
          BY ScriptFact
        <5>. QED
          BY <5>1
      <4>. QED
        BY <3>1, <4>2, <4>3 DEF Applied
    <3>. QED
      BY <3>1, <3>2 DEF Working
  <2>4. CASE ~Changed(new_command["alrm"])
    <3>1. pc'["alrm"] = "idle"
      BY <1>1, <1>4, <2>4 DEF Compare, Return, ControlOK
    <3>. QED
      BY <2>2, <3>1 DEF Working
  <2>. QED
    BY <2>3, <2>4
<1>5. CASE DoCall("alrm")
  BY <1>5, FollowDoCall
<1>6. CASE EndExecute("alrm")
  BY <1>6, FollowEndExecute
<1>7. CASE \E f \in Fields : SaveField("alrm", f)
  BY <1>7, FollowSaveField
<1>. QED
  BY <1>3, <1>4, <1>5, <1>6, <1>7 DEF HandlerStep

\* Where a step of a handler leaves the contexts, and the order.
LEMMA HandlerPlaces ==
  ASSUME ControlOK, NEW h \in Handlers, HandlerStep(h)
  PROVE  /\ pc[h] \in {"fetch", "compare", "execute", "save"}
         /\ \A c \in Contexts : c # h => pc'[c] = pc[c]
         /\ order = "lost" <=> order' = "lost"
         /\ pc["main"] # "exited"
<1>1. h \in Contexts /\ pc \in [Contexts -> Places]
  BY DEF Contexts, ControlOK
<1>2. CASE fetch_car_command(h)
  BY <1>1, <1>2 DEF fetch_car_command, FailedFetch, Alive
<1>3. CASE Compare(h)
  BY <1>1, <1>3 DEF Compare, Return, Alive
<1>4. CASE DoCall(h)
  BY <1>1, <1>4 DEF DoCall, Runs, Alive
<1>5. CASE EndExecute(h)
  BY <1>1, <1>5 DEF EndExecute, Alive
<1>6. ASSUME NEW f \in Fields, SaveField(h, f)
      PROVE  /\ pc[h] \in {"fetch", "compare", "execute", "save"}
             /\ \A c \in Contexts : c # h => pc'[c] = pc[c]
             /\ order = "lost" <=> order' = "lost"
             /\ pc["main"] # "exited"
  <2>1. order' = order \/ (order = "restoring" /\ order' = "kept")
    BY <1>6 DEF SaveField
  <2>2. pc' = pc \/ pc' = [pc EXCEPT ![h] = "idle"]
    BY <1>6 DEF SaveField, Return
  <2>. QED
    BY <1>1, <1>6, <2>1, <2>2 DEF SaveField, Alive
<1>. QED
  BY <1>2, <1>3, <1>4, <1>5, <1>6 DEF HandlerStep

\* An alarm that a PWM thread serves is an overlap; so is one on the main thread
\* while another callback is under way.
LEMMA AlarmPlaces ==
  ASSUME ControlOK, NEW h \in Handlers, Alarm(h)
  PROVE  /\ \A c \in Contexts : c # h => pc'[c] = pc[c]
         /\ order' # "lost" => h = "alrm" /\ \A g \in Handlers : pc[g] = "idle"
         /\ pc["main"] # "exited"
<1>1. h \in Contexts /\ pc \in [Contexts -> Places] /\ "alrm" \in Handlers
  BY DEF Contexts, Handlers, ControlOK
<1>2. (\E g \in Handlers : pc[g] # "idle") => order' = "lost"
  BY DEF Alarm
<1>3. h # "alrm" => pc["alrm"] # "idle"
  BY DEF Alarm
<1>. QED
  BY <1>1, <1>2, <1>3 DEF Alarm, Alive

\* Every step keeps FollowInv.
LEMMA FollowStep ==
  ASSUME PinsOK, ControlOK, PinsOK', ControlOK', FollowInv, [Next]_vars
  PROVE  FollowInv'
<1>1. /\ "main" \in Contexts /\ "alrm" \in Contexts /\ "alrm" \in Handlers /\ "main" # "alrm"
      /\ PwmThreads \subseteq Handlers /\ Handlers \subseteq Contexts
      /\ Handlers = PwmThreads \cup {"alrm"}
      /\ \A p \in PwmThreads : p # "main" /\ p # "alrm"
  BY ThreadFact DEF Contexts, Handlers
<1>15. ASSUME pc' = pc, UNCHANGED <<at, new_command, unsaved, last_command, duty, servo, order>>
       PROVE  FollowInv'
  <2>1. Working => Working'
    BY <1>15, WorkingKept
  <2>. QED
    BY <1>15, <2>1 DEF FollowInv
<1>2. ASSUME NEW a \in Answers, SetApi(a) PROVE FollowInv'
  BY <1>2, <1>15 DEF SetApi, hardware, motors
<1>3. ASSUME signal_handler PROVE FollowInv'
  BY <1>3, <1>15 DEF signal_handler, hardware, motors
<1>4. ASSUME NEW l \in Leds, BlinkEnds(l) PROVE FollowInv'
  BY <1>4, <1>15 DEF BlinkEnds, motors
<1>16. ASSUME NEW p \in PwmThreads, PwmLoop(p) PROVE FollowInv'
  BY <1>16, <1>15 DEF PwmLoop
<1>5. ASSUME ProcessEnds PROVE FollowInv'
  BY <1>1, <1>5 DEF ProcessEnds, FollowInv
<1>6. ASSUME Restart PROVE FollowInv'
  <2>1. /\ pc'["main"] = "loop" /\ pc'["alrm"] = "idle" /\ last_command' = StopCommand
        /\ \A p \in PwmThreads : pc'[p] = "idle"
    BY <1>1, <1>6 DEF Restart, AtLoop, FollowInv, Alive, ControlOK
  <2>2. Outputs(last_command)'
    <3>1. duty' = MotorsOff /\ servo' = 90
      BY <1>6 DEF Restart, init_gpio_pins
    <3>2. (duty = MotorsOff /\ servo = 90 /\ last_command = StopCommand => Outputs(last_command))'
      BY FreshOutputs, PTL
    <3>. QED
      BY <2>1, <3>1, <3>2
  <2>. QED
    BY <2>1, <2>2 DEF FollowInv, Working
<1>7. ASSUME NEW h \in Handlers, HandlerStep(h) PROVE FollowInv'
  <2>1. /\ pc[h] # "idle" /\ (order = "lost" <=> order' = "lost") /\ pc["main"] # "exited"
        /\ \A c \in Contexts : c # h => pc'[c] = pc[c]
    BY <1>7, HandlerPlaces
  <2>2. order # "lost" => h = "alrm"
    BY <1>1, <2>1 DEF FollowInv
  <2>3. order # "lost" /\ pc["main"] = "loop" => Working'
    BY <1>7, <2>2, FollowHandler DEF FollowInv
  <2>4. order # "lost" => \A p \in PwmThreads : pc'[p] = "idle"
    BY <1>1, <2>1, <2>2 DEF FollowInv
  <2>5. pc'["main"] = pc["main"]
    BY <1>1, <2>1
  <2>. QED
    BY <2>1, <2>3, <2>4, <2>5 DEF FollowInv
<1>17. ASSUME NEW h \in Handlers, Alarm(h) PROVE FollowInv'
  <2>1. /\ order' # "lost" => h = "alrm" /\ \A g \in Handlers : pc[g] = "idle"
        /\ \A c \in Contexts : c # h => pc'[c] = pc[c]
        /\ pc["main"] # "exited"
    BY <1>17, AlarmPlaces
  <2>2. order' # "lost" => \A p \in PwmThreads : pc'[p] = "idle"
    BY <1>1, <2>1
  <2>3. pc'["main"] = pc["main"]
    BY <1>1, <2>1
  <2>4. order' # "lost" /\ pc["main"] = "loop" => Working'
    BY <1>17, <2>1, FollowAlarm DEF FollowInv
  <2>. QED
    BY <2>1, <2>2, <2>3, <2>4 DEF FollowInv
<1>8. ASSUME LeaveLoop PROVE FollowInv'
  <2>1. /\ pc'["main"] = "execute" /\ order' = order
        /\ \A p \in PwmThreads : pc'[p] = pc[p]
    BY <1>1, <1>8 DEF LeaveLoop, ControlOK
  <2>. QED
    BY <2>1 DEF FollowInv
<1>9. ASSUME Acquire \/ DoCall("main") PROVE FollowInv'
  <2>1. pc' = pc /\ pc["main"] = "execute" /\ order' = order
    BY <1>9 DEF Acquire, DoCall
  <2>. QED
    BY <2>1 DEF FollowInv
<1>10. ASSUME Exit \/ Killed PROVE FollowInv'
  BY <1>5, <1>10 DEF Exit, Killed
<1>11. ASSUME UNCHANGED vars PROVE FollowInv'
  BY <1>11, <1>15 DEF vars, hardware, motors
<1>12. CASE Environment
  BY <1>2, <1>3, <1>4, <1>6, <1>10, <1>12 DEF Environment
<1>13. CASE \E h \in Handlers : Alarm(h) \/ HandlerStep(h)
  BY <1>7, <1>13, <1>17
<1>14. CASE MainStep
  BY <1>8, <1>9, <1>10, <1>14 DEF MainStep
<1>. QED
  BY <1>11, <1>12, <1>13, <1>14, <1>16 DEF Next

\* FollowInv implies the property: with no callback under way and the loops come
\* round, the pins put out the duties that were written.
LEMMA FollowImplies ==
  ASSUME FollowInv
  PROVE  OutputsFollowLastCommand
<1>. SUFFICES ASSUME order = "kept", Quiescent
              PROVE  MotorsFollow(last_command) /\ servo = SteeringAngle(last_command.direction)
  BY DEF OutputsFollowLastCommand
<1>1. "alrm" \in Handlers /\ PwmThreads \subseteq Handlers
  BY DEF Handlers
<1>2. Outputs(last_command)
  BY <1>1 DEF FollowInv, Working, Quiescent
<1>3. \A m \in Motors : Output(m) = duty[m]
  <2>. SUFFICES ASSUME NEW m \in Motors PROVE Output(m) = duty[m]
    OBVIOUS
  <2>1. {p \in PwmThreads : PinOf[p] = m /\ pc[p] # "idle"} = {}
    BY <1>1 DEF Quiescent
  <2>. QED
    BY <2>1 DEF Output, Quiescent
<1>4. Turns(duty, last_command) => Turns([m \in Motors |-> Output(m)], last_command)
  BY <1>3, PinFact DEF Turns, Bridge
<1>. QED
  BY <1>2, <1>4 DEF Outputs, MotorsFollow

\* The motors and the servo are what last_command asks for whenever no callback
\* is under way, unless callbacks have overlapped and none has executed and saved
\* alone since: whatever the server answers, whenever polls fail, whichever PWM
\* threads serve alarms, and across shutdowns, kills and restarts.
THEOREM OutputsFollow == Spec => []OutputsFollowLastCommand
<1>. DEFINE IInv == PinsOK /\ ControlOK /\ FollowInv
<1>1. Init => IInv
  BY TypeInit, FollowInit
<1>2. IInv /\ [Next]_vars => IInv'
  BY TypeStep, FollowStep
<1>3. IInv => OutputsFollowLastCommand
  BY FollowImplies
<1>. HIDE DEF IInv
<1>. QED
  BY <1>1, <1>2, <1>3, PTL DEF Spec

-----------------------------------------------------------------------------
(* The lights: RestIsDark.  A command that leaves the car at rest ends in    *)
(* stop_all, whose LED calls are all quiet: none starts to blink or sets a   *)
(* level to 1.                                                               *)

Resting(cmd) == cmd.movement \notin {"forward", "backward"}

QuietCalls == {call \in LegalCalls : /\ call.op # "blinkStart"
                                     /\ call.op = "digitalWrite" => call.val = 0}

\* What a quiet call is for, seen at the LEDs
Darkens(call) == /\ call.op = "blinkStop" => ~blinking[call.pin]
                 /\ call.op = "digitalWrite" => level[call.pin] = 0

\* The calls of stop_all that come before call n of the command
Darkened(n) == \A i \in DOMAIN stop_all : i + 1 < n => Darkens(stop_all[i])

\* The front left LED, whose pin blinkStart and blinkStop refuse
NeverBlinks == ~blinking[LED_FORWARD_LEFT]

Darkening ==
  \/ pc["alrm"] \in {"idle", "fetch", "compare"} /\ (order = "kept" /\ Resting(last_command) => Dark)
  \/ pc["alrm"] = "execute" /\ (Resting(new_command["alrm"]) => Darkened(at["alrm"]))
  \/ pc["alrm"] = "save" /\ (Resting(new_command["alrm"]) => Dark)

DarkInv == NeverBlinks /\ (pc["main"] = "loop" /\ order # "lost" => Darkening)

\* stop_all is twelve quiet calls.
LEMMA StopQuiet ==
  /\ Len(stop_all) = 12
  /\ \A i \in 1..12 : stop_all[i] \in QuietCalls
<1>. DEFINE p == stop_all
<1>1. /\ \A pin \in Leds : Unblink(pin) \in QuietCalls /\ Led(pin, 0) \in QuietCalls
      /\ \A pin \in Motors : Duty(pin, 0) \in QuietCalls
  <2>1. 0 \in 0..1 /\ 0 \in Int
    OBVIOUS
  <2>2. \A pin : Unblink(pin).op = "blinkStop" /\ Led(pin, 0).op = "digitalWrite"
                 /\ Led(pin, 0).val = 0 /\ Duty(pin, 0).op = "softPwmUpdateDuty"
    BY DEF Unblink, Led, Duty, Call
  <2>. QED
    BY <2>1, <2>2, CallFact DEF QuietCalls
<1>2. Len(p) = 12
  BY DEF stop_all
<1>3. /\ p[1] \in QuietCalls /\ p[2] \in QuietCalls /\ p[3] \in QuietCalls /\ p[4] \in QuietCalls
      /\ p[5] \in QuietCalls /\ p[6] \in QuietCalls /\ p[7] \in QuietCalls /\ p[8] \in QuietCalls
      /\ p[9] \in QuietCalls /\ p[10] \in QuietCalls /\ p[11] \in QuietCalls /\ p[12] \in QuietCalls
  BY <1>1, PinFact DEF stop_all
<1>. HIDE DEF p
<1>4. \A k \in 1..12 : \/ k = 1 \/ k = 2 \/ k = 3 \/ k = 4 \/ k = 5 \/ k = 6
                       \/ k = 7 \/ k = 8 \/ k = 9 \/ k = 10 \/ k = 11 \/ k = 12
  OBVIOUS
<1>5. \A k \in 1..12 : p[k] \in QuietCalls
  BY <1>3, <1>4
<1>. QED
  BY <1>2, <1>5 DEF p

\* The calls of a command that leaves the car at rest.
LEMMA RestingCalls ==
  ASSUME NEW cmd \in CarCommand, Resting(cmd)
  PROVE  /\ Len(execute_car_command(cmd)) = 13
         /\ execute_car_command(cmd)[1] \in QuietCalls
         /\ \A i \in 2..13 : execute_car_command(cmd)[i] = stop_all[i - 1]
<1>. DEFINE s == set_steering_direction(cmd.direction)
<1>1. MovementCalls(cmd) = stop_all
  BY DEF MovementCalls, Resting
<1>2. s \in LegalCalls /\ s.op = "servoWriteLimited"
  BY SteeringFact DEF set_steering_direction, Servo, Call
<1>3. s \in QuietCalls
  BY <1>2 DEF QuietCalls
<1>. HIDE DEF s
<1>4. \A q \in Seq(LegalCalls) : /\ Len(<<s>> \o q) = 1 + Len(q)
                                 /\ (<<s>> \o q)[1] = s
                                 /\ \A i \in 2..(Len(q) + 1) : (<<s>> \o q)[i] = q[i - 1]
  <2>. SUFFICES ASSUME NEW q \in Seq(LegalCalls)
                PROVE  /\ Len(<<s>> \o q) = 1 + Len(q)
                       /\ (<<s>> \o q)[1] = s
                       /\ \A i \in 2..(Len(q) + 1) : (<<s>> \o q)[i] = q[i - 1]
    OBVIOUS
  <2>1. <<s>> \in Seq(LegalCalls) /\ Len(<<s>>) = 1 /\ <<s>>[1] = s
    BY <1>2
  <2>. QED
    BY <2>1
<1>5. execute_car_command(cmd) = <<s>> \o stop_all
  BY <1>1 DEF execute_car_command, s
<1>6. Len(stop_all) = 12 /\ Len(stop_all) + 1 = 13 /\ 1 + Len(stop_all) = 13
  BY StopQuiet
<1>. QED
  BY <1>3, <1>4, <1>5, <1>6, StopFact

-----------------------------------------------------------------------------
(* What a call does to the LEDs *)

\* A blink thread started or ended for one LED says nothing of the others.
LEMMA BlinkExcept ==
  ASSUME NEW f \in [Leds -> BOOLEAN], NEW p \in Leds, NEW b \in BOOLEAN, NEW l \in Leds
  PROVE  /\ [f EXCEPT ![p] = b][p] = b
         /\ l # p => [f EXCEPT ![p] = b][l] = f[l]
OBVIOUS

\* Any legal call but those of one LED leaves that LED alone.
LEMMA OtherLed ==
  ASSUME PinsOK, NEW call \in LegalCalls, Perform(call), NEW l \in Leds,
         call.op \in {"digitalWrite", "blinkStart", "blinkStop"} => call.pin # l
  PROVE  level'[l] = level[l] /\ blinking'[l] = blinking[l]
<1>1. CASE call.op = "digitalWrite" /\ digitalWrite(call.pin, call.val)
  <2>1. level' = [level EXCEPT ![call.pin] = call.val] /\ blinking' = blinking
    BY <1>1 DEF digitalWrite
  <2>. QED
    BY <1>1, <2>1 DEF PinsOK
<1>2. CASE call.op = "blinkStart" /\ blinkStart(call.pin)
  <2>1. /\ level' = level \/ level' = [level EXCEPT ![call.pin] = 0]
        /\ blinking' = blinking \/ blinking' = [blinking EXCEPT ![call.pin] = TRUE]
    BY <1>2, Zenon DEF blinkStart
  <2>2. call.pin # l /\ call.pin \in Leds
    BY <1>2 DEF LegalCalls
  <2>3. level'[l] = level[l]
    BY <2>1, <2>2 DEF PinsOK
  <2>4. blinking'[l] = blinking[l]
    <3>1. blinking \in [Leds -> BOOLEAN] /\ TRUE \in BOOLEAN
      BY DEF PinsOK
    <3>2. [blinking EXCEPT ![call.pin] = TRUE][l] = blinking[l]
      BY <2>2, <3>1, BlinkExcept, Zenon
    <3>. QED
      BY <2>1, <3>2, Zenon
  <2>. QED
    BY <2>3, <2>4
<1>3. CASE call.op = "blinkStop" /\ blinkStop(call.pin)
  <2>1. /\ level' = level \/ level' = [level EXCEPT ![call.pin] = 0]
        /\ blinking' = blinking \/ blinking' = [blinking EXCEPT ![call.pin] = FALSE]
    BY <1>3, Zenon DEF blinkStop
  <2>2. call.pin # l /\ call.pin \in Leds
    BY <1>3 DEF LegalCalls
  <2>3. level'[l] = level[l]
    BY <2>1, <2>2 DEF PinsOK
  <2>4. blinking'[l] = blinking[l]
    <3>1. blinking \in [Leds -> BOOLEAN] /\ FALSE \in BOOLEAN
      BY DEF PinsOK
    <3>2. [blinking EXCEPT ![call.pin] = FALSE][l] = blinking[l]
      BY <2>2, <3>1, BlinkExcept, Zenon
    <3>. QED
      BY <2>1, <3>2, Zenon
  <2>. QED
    BY <2>3, <2>4
<1>4. CASE call.op \notin {"digitalWrite", "blinkStart", "blinkStop"}
  BY <1>4 DEF Perform, softPwmUpdateDuty, servoWriteLimited, servoStop
<1>. QED
  BY <1>1, <1>2, <1>3, <1>4, Zenon DEF Perform

\* A pin that the library blinks.
LEMMA BlinkPins ==
  /\ ~BlinkPin(LED_FORWARD_LEFT)
  /\ \A l \in Leds : l # LED_FORWARD_LEFT => BlinkPin(l)
BY DEF BlinkPin, Leds, LED_FORWARD_LEFT, LED_FORWARD_RIGHT, LED_BACKWARD_LEFT, LED_BACKWARD_RIGHT

\* What a quiet call makes of its own LED: dark stays dark, and its effect is there.
LEMMA QuietLed ==
  ASSUME PinsOK, NeverBlinks, NEW call \in QuietCalls, Perform(call), NEW l \in Leds,
         call.op \in {"digitalWrite", "blinkStop"}, call.pin = l
  PROVE  /\ level[l] = 0 => level'[l] = 0
         /\ ~blinking[l] => ~blinking'[l]
         /\ Darkens(call)'
<1>1. CASE call.op = "digitalWrite"
  <2>1. digitalWrite(l, 0)
    BY <1>1, Zenon DEF Perform, QuietCalls
  <2>2. level' = [level EXCEPT ![l] = 0] /\ blinking' = blinking
    BY <2>1 DEF digitalWrite
  <2>3. level'[l] = 0
    BY <2>2 DEF PinsOK
  <2>. QED
    BY <1>1, <2>2, <2>3, Zenon DEF Darkens
<1>2. CASE call.op = "blinkStop"
  <2>1. blinkStop(l)
    BY <1>2, Zenon DEF Perform
  <2>2. level' = level \/ level' = [level EXCEPT ![l] = 0]
    BY <2>1, Zenon DEF blinkStop
  <2>3. level[l] = 0 => level'[l] = 0
    BY <2>2 DEF PinsOK
  <2>4. ~blinking'[l]
    <3>1. CASE l = LED_FORWARD_LEFT
      <4>1. ~BlinkPin(l) /\ ~blinking[l]
        BY <3>1, BlinkPins DEF NeverBlinks
      <4>2. blinking' = blinking
        BY <2>1, <4>1, Zenon DEF blinkStop
      <4>. QED
        BY <4>1, <4>2, Zenon
    <3>2. CASE l # LED_FORWARD_LEFT
      <4>1. blinking' = [blinking EXCEPT ![l] = FALSE]
        BY <2>1, <3>2, BlinkPins, Zenon DEF blinkStop
      <4>. QED
        BY <4>1, Zenon DEF PinsOK
    <3>. QED
      BY <3>1, <3>2
  <2>. QED
    BY <1>2, <2>3, <2>4, Zenon DEF Darkens
<1>. QED
  BY <1>1, <1>2

\* So a quiet call has its effect, and keeps that of every other one.
LEMMA QuietEffect ==
  ASSUME PinsOK, NeverBlinks, NEW call \in QuietCalls, Perform(call)
  PROVE  /\ Darkens(call)'
         /\ \A early \in QuietCalls : Darkens(early) => Darkens(early)'
<1>1. call \in LegalCalls /\ call.op # "blinkStart"
  BY DEF QuietCalls
<1>2. call.op \in {"digitalWrite", "blinkStop"} => call.pin \in Leds
  BY <1>1 DEF LegalCalls
<1>3. Darkens(call)'
  BY <1>2, QuietLed, Zenon DEF Darkens
<1>4. \A l \in Leds : /\ level[l] = 0 => level'[l] = 0
                      /\ ~blinking[l] => ~blinking'[l]
  <2>. SUFFICES ASSUME NEW l \in Leds
                PROVE  /\ level[l] = 0 => level'[l] = 0
                       /\ ~blinking[l] => ~blinking'[l]
    OBVIOUS
  <2>1. CASE call.op \in {"digitalWrite", "blinkStop"} /\ call.pin = l
    BY <2>1, QuietLed, Zenon
  <2>2. CASE ~(call.op \in {"digitalWrite", "blinkStop"} /\ call.pin = l)
    <3>1. call.op \in {"digitalWrite", "blinkStart", "blinkStop"} => call.pin # l
      BY <1>1, <2>2
    <3>2. level'[l] = level[l] /\ blinking'[l] = blinking[l]
      BY <1>1, <3>1, OtherLed
    <3>. QED
      BY <3>2, Zenon
  <2>. QED
    BY <2>1, <2>2
<1>5. ASSUME NEW early \in QuietCalls, Darkens(early) PROVE Darkens(early)'
  <2>1. early.op \in {"digitalWrite", "blinkStop"} => early.pin \in Leds
    BY DEF QuietCalls, LegalCalls
  <2>. QED
    BY <1>4, <1>5, <2>1, Zenon DEF Darkens
<1>. QED
  BY <1>3, <1>5

\* No legal call makes the front left LED blink.
LEMMA NeverBlinksKept ==
  ASSUME PinsOK, NeverBlinks, NEW call \in LegalCalls, Perform(call)
  PROVE  NeverBlinks'
<1>1. LED_FORWARD_LEFT \in Leds
  BY PinFact
<1>2. CASE call.op \in {"blinkStart", "blinkStop"} /\ call.pin = LED_FORWARD_LEFT
  <2>1. blinking' = blinking
    BY <1>2, BlinkPins, Zenon DEF Perform, blinkStart, blinkStop, digitalWrite, softPwmUpdateDuty, servoWriteLimited, servoStop
  <2>. QED
    BY <2>1, Zenon DEF NeverBlinks
<1>3. CASE call.op = "digitalWrite"
  BY <1>3 DEF Perform, digitalWrite, NeverBlinks
<1>4. CASE ~(call.op \in {"blinkStart", "blinkStop"} /\ call.pin = LED_FORWARD_LEFT) /\ call.op # "digitalWrite"
  <2>1. blinking'[LED_FORWARD_LEFT] = blinking[LED_FORWARD_LEFT]
    BY <1>1, <1>4, OtherLed
  <2>. QED
    BY <2>1, Zenon DEF NeverBlinks
<1>. QED
  BY <1>2, <1>3, <1>4

\* When all calls of stop_all are done, the LEDs are dark.
LEMMA DarkenedAll ==
  ASSUME PinsOK, NEW n \in Nat, n > 13, Darkened(n)
  PROVE  Dark
<1>1. \A i \in 1..8 : Darkens(stop_all[i])
  <2>1. DOMAIN stop_all = 1..12
    BY StopQuiet, StopFact
  <2>2. \A i \in 1..8 : i \in 1..12 /\ i + 1 < n
    OBVIOUS
  <2>. QED
    BY <2>1, <2>2 DEF Darkened
<1>2. /\ stop_all[1] = Unblink(LED_FORWARD_LEFT) /\ stop_all[2] = Unblink(LED_FORWARD_RIGHT)
      /\ stop_all[3] = Unblink(LED_BACKWARD_LEFT) /\ stop_all[4] = Unblink(LED_BACKWARD_RIGHT)
      /\ stop_all[5] = Led(LED_FORWARD_LEFT, 0) /\ stop_all[6] = Led(LED_FORWARD_RIGHT, 0)
      /\ stop_all[7] = Led(LED_BACKWARD_LEFT, 0) /\ stop_all[8] = Led(LED_BACKWARD_RIGHT, 0)
  BY DEF stop_all
<1>3. \A l : /\ Darkens(Unblink(l)) => ~blinking[l]
             /\ Darkens(Led(l, 0)) => level[l] = 0
  <2>1. \A l : /\ Unblink(l).op = "blinkStop" /\ Unblink(l).pin = l
               /\ Led(l, 0).op = "digitalWrite" /\ Led(l, 0).pin = l
    BY DEF Unblink, Led, Call
  <2>. QED
    BY <2>1, Zenon DEF Darkens
<1>4. /\ 1 \in 1..8 /\ 2 \in 1..8 /\ 3 \in 1..8 /\ 4 \in 1..8
      /\ 5 \in 1..8 /\ 6 \in 1..8 /\ 7 \in 1..8 /\ 8 \in 1..8
  OBVIOUS
<1>5. \A l \in Leds : \/ l = LED_FORWARD_LEFT \/ l = LED_FORWARD_RIGHT
                      \/ l = LED_BACKWARD_LEFT \/ l = LED_BACKWARD_RIGHT
  BY DEF Leds
<1>6. /\ Darkens(Unblink(LED_FORWARD_LEFT)) /\ Darkens(Unblink(LED_FORWARD_RIGHT))
      /\ Darkens(Unblink(LED_BACKWARD_LEFT)) /\ Darkens(Unblink(LED_BACKWARD_RIGHT))
      /\ Darkens(Led(LED_FORWARD_LEFT, 0)) /\ Darkens(Led(LED_FORWARD_RIGHT, 0))
      /\ Darkens(Led(LED_BACKWARD_LEFT, 0)) /\ Darkens(Led(LED_BACKWARD_RIGHT, 0))
  BY <1>1, <1>2, <1>4, Zenon
<1>7. \A l \in Leds : Darkens(Unblink(l)) /\ Darkens(Led(l, 0))
  BY <1>5, <1>6, Zenon
<1>. QED
  BY <1>3, <1>7, Zenon DEF Dark

-----------------------------------------------------------------------------
(* The invariant *)

\* A step that leaves the handler, the commands and the LEDs alone.
LEMMA DarkeningKept ==
  ASSUME Darkening, UNCHANGED <<at, new_command, last_command, level, blinking, order>>,
         pc'["alrm"] = pc["alrm"]
  PROVE  Darkening'
BY Zenon DEF Darkening, Resting, Darkened, Darkens, Dark

\* The end of a blink thread darkens its LED.
LEMMA DarkBlinkEnds ==
  ASSUME PinsOK, Darkening, NEW l \in Leds, BlinkEnds(l)
  PROVE  Darkening'
<1>1. blinking' = [blinking EXCEPT ![l] = FALSE] /\ level' = [level EXCEPT ![l] = 0]
  BY DEF BlinkEnds
<1>2. \A k \in Leds : /\ ~blinking[k] => ~blinking'[k]
                      /\ level[k] = 0 => level'[k] = 0
  <2>1. \A k \in Leds : ~blinking[k] => ~blinking'[k]
    <3>1. blinking \in [Leds -> BOOLEAN] /\ FALSE \in BOOLEAN
      BY DEF PinsOK
    <3>2. \A k \in Leds : ~blinking[k] => ~[blinking EXCEPT ![l] = FALSE][k]
      BY <3>1, BlinkExcept, Zenon
    <3>. QED
      BY <1>1, <3>2, Zenon
  <2>2. \A k \in Leds : level[k] = 0 => level'[k] = 0
    BY <1>1 DEF PinsOK
  <2>. QED
    BY <2>1, <2>2
<1>3. Dark => Dark'
  BY <1>2, Zenon DEF Dark
<1>4. Darkened(at["alrm"]) => Darkened(at["alrm"])'
  <2>1. \A i \in DOMAIN stop_all : stop_all[i] \in QuietCalls
    BY StopQuiet, StopFact
  <2>2. \A call \in QuietCalls : call.op \in {"digitalWrite", "blinkStop"} => call.pin \in Leds
    BY DEF QuietCalls, LegalCalls
  <2>3. \A call \in QuietCalls : Darkens(call) => Darkens(call)'
    BY <1>2, <2>2, Zenon DEF Darkens
  <2>. QED
    BY <2>1, <2>3, Zenon DEF Darkened, BlinkEnds
<1>5. /\ pc' = pc /\ at' = at /\ new_command' = new_command /\ last_command' = last_command
      /\ order' = order
  BY DEF BlinkEnds
<1>. QED
  BY <1>3, <1>4, <1>5, Zenon DEF Darkening, Resting

\* A call of the handler.
LEMMA DarkDoCall ==
  ASSUME PinsOK, ControlOK, NeverBlinks, Darkening, DoCall("alrm")
  PROVE  Darkening'
<1>1. "alrm" \in Handlers /\ "alrm" \in Contexts
  BY DEF Contexts, Handlers
<1>2. PICK cmd \in CarCommand : cmd = new_command["alrm"]
  BY <1>1 DEF ControlOK
<1>3. PICK n \in Nat \ {0} : n = at["alrm"]
  BY <1>1 DEF ControlOK
<1>4. /\ pc["alrm"] = "execute" /\ pc' = pc /\ new_command' = new_command
      /\ at'["alrm"] = n + 1
  BY <1>1, <1>3 DEF DoCall, ControlOK
<1>5. n \in DOMAIN execute_car_command(cmd) /\ Perform(execute_car_command(cmd)[n])
  BY <1>2, <1>3 DEF DoCall, Script
<1>6. ASSUME Resting(cmd) PROVE Darkened(n + 1)'
  <2>. DEFINE call == execute_car_command(cmd)[n]
  <2>1. Darkened(n)
    BY <1>2, <1>3, <1>4, <1>6 DEF Darkening
  <2>2. n \in 1..13
    <3>1. Len(execute_car_command(cmd)) = 13 /\ execute_car_command(cmd) \in Seq(LegalCalls)
      BY <1>6, RestingCalls, ScriptFact
    <3>. QED
      BY <1>5, <3>1
  <2>3. call \in QuietCalls /\ (n >= 2 => call = stop_all[n - 1])
    <3>1. CASE n = 1
      BY <1>6, <3>1, RestingCalls
    <3>2. CASE n \in 2..13
      BY <1>6, <3>2, RestingCalls, StopQuiet
    <3>. QED
      BY <2>2, <3>1, <3>2
  <2>4. Darkens(call)' /\ \A early \in QuietCalls : Darkens(early) => Darkens(early)'
    BY <1>5, <2>3, QuietEffect
  <2>. HIDE DEF call
  <2>5. ASSUME NEW i \in DOMAIN stop_all, i + 1 < n + 1 PROVE Darkens(stop_all[i])'
    <3>1. i \in 1..12 /\ stop_all[i] \in QuietCalls
      BY StopQuiet, StopFact
    <3>2. CASE i + 1 < n
      <4>1. Darkens(stop_all[i])
        BY <2>1, <3>2 DEF Darkened
      <4>. QED
        BY <2>4, <3>1, <4>1
    <3>3. CASE ~(i + 1 < n)
      <4>1. i = n - 1 /\ n >= 2
        BY <2>2, <2>5, <3>1, <3>3
      <4>2. stop_all[i] = call
        BY <2>3, <4>1
      <4>. QED
        BY <2>4, <4>2 DEF Darkens
    <3>. QED
      BY <3>2, <3>3
  <2>. QED
    BY <2>5 DEF Darkened
<1>7. Resting(new_command'["alrm"]) => Darkened(at["alrm"])'
  <2>1. cmd = new_command'["alrm"] /\ n + 1 = at'["alrm"]
    BY <1>2, <1>4
  <2>. QED
    BY <1>6, <2>1 DEF Darkened
<1>. QED
  BY <1>4, <1>7 DEF Darkening, Resting

\* The end of a command.
LEMMA DarkEndExecute ==
  ASSUME PinsOK, ControlOK, Darkening, EndExecute("alrm")
  PROVE  Darkening'
<1>1. "alrm" \in Handlers /\ "alrm" \in Contexts
  BY DEF Contexts, Handlers
<1>2. PICK cmd \in CarCommand : cmd = new_command["alrm"]
  BY <1>1 DEF ControlOK
<1>3. PICK n \in Nat : n = at["alrm"]
  BY <1>1 DEF ControlOK
<1>4. ASSUME Resting(cmd) PROVE Dark
  <2>1. Darkened(n)
    BY <1>2, <1>3, <1>4 DEF Darkening, EndExecute
  <2>2. n > 13
    BY <1>2, <1>3, <1>4, RestingCalls DEF EndExecute, Script
  <2>. QED
    BY <2>1, <2>2, DarkenedAll
<1>5. /\ pc'["alrm"] = "save" /\ new_command' = new_command
      /\ level' = level /\ blinking' = blinking
  BY <1>1 DEF EndExecute, hardware, ControlOK
<1>6. Resting(new_command'["alrm"]) => Dark'
  BY <1>2, <1>4, <1>5 DEF Dark
<1>. QED
  BY <1>5, <1>6 DEF Darkening, Resting

\* The last field saved makes last_command the command that was executed, of
\* which Working knows the fields saved before.
LEMMA DarkSaveField ==
  ASSUME ControlOK, ControlOK', Working, Darkening, NEW f \in Fields, SaveField("alrm", f)
  PROVE  Darkening'
<1>1. "alrm" \in Handlers /\ "alrm" \in Contexts
  BY DEF Contexts, Handlers
<1>2. PICK cmd \in CarCommand : cmd = new_command["alrm"]
  BY <1>1 DEF ControlOK
<1>3. pc["alrm"] = "save" /\ level' = level /\ blinking' = blinking
  BY DEF SaveField
<1>4. Resting(cmd) => Dark'
  <2>1. Resting(cmd) => Dark
    BY <1>2, <1>3 DEF Darkening
  <2>. QED
    BY <1>3, <2>1 DEF Dark
<1>5. CASE unsaved["alrm"] = {f}
  <2>1. \A g \in Fields \ {f} : last_command[g] = cmd[g]
    BY <1>2, <1>3, <1>5 DEF Working
  <2>2. last_command' = [last_command EXCEPT ![f] = cmd[f]] /\ last_command \in CarCommand
    BY <1>2 DEF SaveField, ControlOK
  <2>3. \A g \in Fields : last_command'[g] = cmd[g]
    BY <2>1, <2>2 DEF CarCommand, Fields
  <2>4. last_command' = cmd
    BY <2>3, SameCommand DEF ControlOK
  <2>5. pc'["alrm"] = "idle"
    BY <1>1, <1>5 DEF SaveField, Return, ControlOK
  <2>. QED
    BY <1>4, <2>4, <2>5 DEF Darkening, Resting
<1>6. CASE unsaved["alrm"] # {f}
  <2>1. pc' = pc /\ new_command' = new_command
    BY <1>1, <1>6 DEF SaveField, ControlOK
  <2>. QED
    BY <1>2, <1>3, <1>4, <2>1 DEF Darkening, Resting
<1>. QED
  BY <1>5, <1>6

\* The alarm on the main thread.
LEMMA DarkAlarm ==
  ASSUME ControlOK, order # "lost" => Darkening, Alarm("alrm"), order' # "lost"
  PROVE  Darkening'
<1>1. "alrm" \in Handlers /\ "alrm" \in Contexts
  BY DEF Contexts, Handlers
<1>2. pc["alrm"] = "idle" /\ pc'["alrm"] = "fetch"
  BY <1>1 DEF Alarm, ControlOK
<1>3. UNCHANGED <<last_command, level, blinking>> /\ (order' = "kept" => order = "kept")
  <2>1. order' = order \/ order' = "restoring"
    BY DEF Alarm
  <2>. QED
    BY <2>1 DEF Alarm
<1>4. (order = "kept" /\ Resting(last_command) => Dark)'
  BY <1>2, <1>3 DEF Darkening, Resting, Dark
<1>. QED
  BY <1>2, <1>4 DEF Darkening

\* The steps of the handler, while main() is in its loop.
LEMMA DarkHandler ==
  ASSUME PinsOK, ControlOK, ControlOK', NeverBlinks, Working, Darkening, HandlerStep("alrm")
  PROVE  Darkening'
<1>1. "alrm" \in Handlers /\ "alrm" \in Contexts
  BY DEF Contexts, Handlers
<1>2. \A n : n = 1 => Darkened(n)'
  <2>1. DOMAIN stop_all = 1..12
    BY StopQuiet, StopFact
  <2>2. \A i \in 1..12 : ~(i + 1 < 1)
    OBVIOUS
  <2>. QED
    BY <2>1, <2>2 DEF Darkened
<1>3. CASE fetch_car_command("alrm") \/ Compare("alrm")
  <2>1. /\ pc["alrm"] \in {"idle", "fetch", "compare"} /\ order' = order
        /\ last_command' = last_command /\ level' = level /\ blinking' = blinking
    BY <1>3 DEF fetch_car_command, Compare, hardware
  <2>2. order' = "kept" /\ Resting(last_command') => Dark'
    BY <2>1 DEF Darkening, Dark
  <2>3. \/ pc'["alrm"] \in {"idle", "fetch", "compare"}
        \/ pc'["alrm"] = "execute" /\ at'["alrm"] = 1
    BY <1>1, <1>3 DEF fetch_car_command, FailedFetch, Compare, Return, ControlOK
  <2>4. CASE pc'["alrm"] \in {"idle", "fetch", "compare"}
    BY <2>2, <2>4 DEF Darkening, Resting
  <2>5. CASE pc'["alrm"] = "execute" /\ at'["alrm"] = 1
    <3>1. Darkened(at["alrm"])'
      BY <1>2, <2>5 DEF Darkened
    <3>. QED
      BY <2>5, <3>1 DEF Darkening
  <2>. QED
    BY <2>3, <2>4, <2>5
<1>4. CASE DoCall("alrm")
  BY <1>4, DarkDoCall
<1>5. CASE EndExecute("alrm")
  BY <1>5, DarkEndExecute
<1>6. CASE \E f \in Fields : SaveField("alrm", f)
  BY <1>6, DarkSaveField
<1>. QED
  BY <1>3, <1>4, <1>5, <1>6 DEF HandlerStep

\* A call of any context leaves the front left LED without a blink thread.
LEMMA NeverBlinksCall ==
  ASSUME PinsOK, ControlOK, NeverBlinks, NEW c \in Contexts, DoCall(c)
  PROVE  NeverBlinks'
<1>1. Script(c) \in Seq(LegalCalls)
  BY ScriptFact, CleanupFact DEF Script, ControlOK, Contexts
<1>2. Script(c)[at[c]] \in LegalCalls /\ Perform(Script(c)[at[c]])
  BY <1>1 DEF DoCall
<1>. QED
  BY <1>2, NeverBlinksKept

\* The program starts dark.
LEMMA DarkInit == Init => DarkInv
<1>. SUFFICES ASSUME Init PROVE DarkInv
  OBVIOUS
<1>1. "alrm" \in Contexts /\ "alrm" # "main"
  BY DEF Contexts, Handlers
<1>2. pc["alrm"] = "idle"
  BY <1>1 DEF Init, AtLoop
<1>3. level = LedsLow /\ blinking = NoBlink
  BY DEF Init
<1>4. Dark
  BY <1>3 DEF Dark, LedsLow, NoBlink
<1>. QED
  BY <1>2, <1>4, PinFact DEF DarkInv, NeverBlinks, Darkening, Dark

\* Every step keeps DarkInv.
LEMMA DarkStep ==
  ASSUME PinsOK, ControlOK, PinsOK', ControlOK', FollowInv, DarkInv, [Next]_vars
  PROVE  DarkInv'
<1>1. /\ "main" \in Contexts /\ "alrm" \in Contexts /\ "alrm" \in Handlers /\ "main" # "alrm"
      /\ Handlers \subseteq Contexts /\ Handlers = PwmThreads \cup {"alrm"}
      /\ \A p \in PwmThreads : p # "main" /\ p # "alrm"
  BY ThreadFact DEF Contexts, Handlers
<1>2. ASSUME UNCHANGED <<pc, at, new_command, last_command, level, blinking, order>> PROVE DarkInv'
  <2>1. NeverBlinks' /\ pc' = pc /\ order' = order
    BY <1>2 DEF DarkInv, NeverBlinks
  <2>2. Darkening => Darkening'
    BY <1>2, DarkeningKept
  <2>. QED
    BY <2>1, <2>2 DEF DarkInv
<1>3. ASSUME NEW l \in Leds, BlinkEnds(l) PROVE DarkInv'
  <2>1. pc' = pc /\ order' = order
    BY <1>3 DEF BlinkEnds
  <2>2. NeverBlinks'
    <3>1. blinking' = [blinking EXCEPT ![l] = FALSE]
      BY <1>3 DEF BlinkEnds
    <3>2. blinking \in [Leds -> BOOLEAN] /\ FALSE \in BOOLEAN
      BY DEF PinsOK
    <3>3. \A k \in Leds : ~blinking[k] => ~[blinking EXCEPT ![l] = FALSE][k]
      BY <3>2, BlinkExcept, Zenon
    <3>. QED
      BY <3>1, <3>3, PinFact, Zenon DEF DarkInv, NeverBlinks
  <2>. QED
    BY <1>3, <2>1, <2>2, DarkBlinkEnds DEF DarkInv
<1>4. ASSUME ProcessEnds PROVE DarkInv'
  <2>1. pc'["main"] = "exited" /\ blinking' = NoBlink
    BY <1>1, <1>4 DEF ProcessEnds
  <2>. QED
    BY <2>1, PinFact DEF DarkInv, NeverBlinks, NoBlink
<1>5. ASSUME Restart PROVE DarkInv'
  <2>1. pc'["alrm"] = "idle" /\ level' = LedsLow /\ blinking' = NoBlink
    BY <1>1, <1>5 DEF Restart, AtLoop, init_gpio_pins
  <2>2. Dark'
    BY <2>1 DEF Dark, LedsLow, NoBlink
  <2>. QED
    BY <2>1, <2>2, PinFact DEF DarkInv, NeverBlinks, Darkening, Dark
<1>6. ASSUME NEW h \in Handlers, HandlerStep(h) PROVE DarkInv'
  <2>1. /\ pc[h] # "idle" /\ (order = "lost" <=> order' = "lost")
        /\ \A c \in Contexts : c # h => pc'[c] = pc[c]
    BY <1>6, HandlerPlaces
  <2>2. order # "lost" => h = "alrm"
    BY <1>1, <2>1 DEF FollowInv
  <2>3. order # "lost" /\ pc["main"] = "loop" => Darkening'
    BY <1>6, <2>2, DarkHandler DEF FollowInv, DarkInv
  <2>4. NeverBlinks'
    <3>1. CASE DoCall(h)
      BY <1>1, <3>1, NeverBlinksCall DEF DarkInv
    <3>2. CASE ~DoCall(h)
      BY <1>6, <3>2 DEF HandlerStep, fetch_car_command, Compare, EndExecute, SaveField,
                        hardware, DarkInv, NeverBlinks
    <3>. QED
      BY <3>1, <3>2
  <2>5. pc'["main"] = pc["main"]
    BY <1>1, <2>1
  <2>. QED
    BY <2>1, <2>3, <2>4, <2>5 DEF DarkInv
<1>15. ASSUME NEW h \in Handlers, Alarm(h) PROVE DarkInv'
  <2>1. /\ order' # "lost" => h = "alrm"
        /\ \A c \in Contexts : c # h => pc'[c] = pc[c]
    BY <1>15, AlarmPlaces
  <2>2. pc'["main"] = pc["main"]
    BY <1>1, <2>1
  <2>3. order' # "lost" /\ pc["main"] = "loop" => Darkening'
    BY <1>15, <2>1, DarkAlarm DEF DarkInv
  <2>4. NeverBlinks'
    BY <1>15 DEF Alarm, DarkInv, NeverBlinks
  <2>. QED
    BY <2>2, <2>3, <2>4 DEF DarkInv
<1>16. ASSUME NEW p \in PwmThreads, PwmLoop(p) PROVE DarkInv'
  BY <1>2, <1>16 DEF PwmLoop
<1>7. ASSUME LeaveLoop PROVE DarkInv'
  <2>1. pc'["main"] = "execute" /\ blinking' = blinking
    BY <1>1, <1>7 DEF LeaveLoop, hardware, ControlOK
  <2>. QED
    BY <2>1 DEF DarkInv, NeverBlinks
<1>8. ASSUME Acquire PROVE DarkInv'
  BY <1>2, <1>8 DEF Acquire, hardware
<1>9. ASSUME DoCall("main") PROVE DarkInv'
  <2>1. pc' = pc /\ pc["main"] = "execute"
    BY <1>9 DEF DoCall
  <2>2. NeverBlinks'
    BY <1>1, <1>9, NeverBlinksCall DEF DarkInv
  <2>. QED
    BY <2>1, <2>2 DEF DarkInv
<1>10. ASSUME Exit \/ Killed PROVE DarkInv'
  BY <1>4, <1>10 DEF Exit, Killed
<1>11. ASSUME UNCHANGED vars PROVE DarkInv'
  BY <1>2, <1>11 DEF vars, hardware
<1>12. CASE Environment
  <2>1. ASSUME NEW a \in Answers, SetApi(a) PROVE DarkInv'
    BY <1>2, <2>1 DEF SetApi, hardware
  <2>2. ASSUME signal_handler PROVE DarkInv'
    BY <1>2, <2>2 DEF signal_handler, hardware
  <2>. QED
    BY <1>3, <1>5, <1>10, <1>12, <2>1, <2>2 DEF Environment
<1>13. CASE \E h \in Handlers : Alarm(h) \/ HandlerStep(h)
  BY <1>6, <1>13, <1>15
<1>14. CASE MainStep
  BY <1>7, <1>8, <1>9, <1>10, <1>14 DEF MainStep
<1>. QED
  BY <1>11, <1>12, <1>13, <1>14, <1>16 DEF Next

\* A car at rest between two callbacks shows no light and has no blink thread
\* left, whatever it did before, unless callbacks have overlapped and none has
\* executed and saved alone since.
THEOREM RestDark == Spec => []RestIsDark
<1>. DEFINE IInv == PinsOK /\ ControlOK /\ FollowInv /\ DarkInv
<1>1. Init => IInv
  BY TypeInit, FollowInit, DarkInit
<1>2. IInv /\ [Next]_vars => IInv'
  BY TypeStep, FollowStep, DarkStep
<1>3. IInv => RestIsDark
  <2>1. "alrm" \in Handlers
    BY DEF Handlers
  <2>. QED
    BY <2>1 DEF DarkInv, Darkening, RestIsDark, Quiescent, Resting
<1>. HIDE DEF IInv
<1>. QED
  BY <1>1, <1>2, <1>3, PTL DEF Spec
=============================================================================
