------------------------------ MODULE CarSystem -----------------------------
(***************************************************************************)
(* One driver's page, the network, the server and the car.                 *)
(*                                                                         *)
(* The page (Dashboard) sends every command as a POST of its own and does  *)
(* not wait for the answer of the one before; the browser runs the POSTs   *)
(* in parallel, so they may overtake one another.  The server (CarBackend) *)
(* keeps the last command it handled.  The car (GpioController) polls it.  *)
(* An answer only reaches MovementService's status, so it is delivered in  *)
(* the step that handles the request.  Here the keys act as the buttons do *)
(* (the key filter is Dashboard's own).                                    *)
(***************************************************************************)
EXTENDS CarApi, FiniteSets

CONSTANTS
  PwmThreads,          \* PWM threads of the car that may serve its timer
  Buttons,             \* the buttons the driver uses
  MaxPosts,            \* bound: POSTs of a behaviour
  MaxInFlight,         \* bound: POSTs in flight
  Faults               \* of "overtake", "loss", "link" and "restart"

ASSUME ThreadsAssumption == PwmThreads \subseteq {"left1", "left2", "right1", "right2"}
ASSUME BoundsAssumption == MaxPosts \in Nat /\ MaxInFlight \in Nat \ {0}
ASSUME FaultsAssumption == Faults \subseteq {"overtake", "loss", "link", "restart"}

VARIABLES
  ui, activeKeys, held, focused, acts, last_post, unanswered, carStatus,  \* the page
  car_movement, car_speed, car_direction, reply,                          \* the server
  running, pc, at, new_command, unsaved, last_command, mutex,             \* the car
  duty, cycle, caught, servo, level, blinking, order,
  net,                 \* POSTs on their way, numbered in the order of sending
  posts,               \* number of the newest POST
  handled,             \* number of the POST that the server handled last
  issued,              \* history: the commands posted
  link                 \* the car reaches the server

pageVars   == <<ui, activeKeys, held, focused, acts, last_post, unanswered, carStatus>>
serverVars == <<car_movement, car_speed, car_direction, reply>>
carVars    == <<running, pc, at, new_command, unsaved, last_command, mutex,
                duty, cycle, caught, servo, level, blinking, order>>
netVars    == <<net, posts, handled, issued, link>>
vars       == <<pageVars, serverVars, carVars, netVars>>

Page == INSTANCE Dashboard WITH ALLOWED_KEYS <- {}, SliderSpeeds <- {}

Server == INSTANCE CarBackend WITH Speeds <- {Number(2 * s) : s \in 0..100}

\* What a poll of GET /api/car/movement meets now
Served ==
  IF link /\ Server!Declared
  THEN [reply |-> TRUE, body |-> [movement |-> car_movement, speed |-> car_speed,
                                  direction |-> car_direction]]
  ELSE [reply |-> FALSE, body |-> [movement |-> "", speed |-> Absent, direction |-> ""]]

Car == INSTANCE GpioController WITH
         Signals <- {}, api <- Served,
         Answers <- [reply : BOOLEAN,
                     body : [movement : Movements \cup {""}, direction : Directions \cup {""},
                             speed : {Number(2 * s) : s \in 0..100} \cup {Absent}]]

Init ==
  /\ Page!Init
  /\ Server!Init
  /\ net = {}
  /\ posts = 0
  /\ handled = 0
  /\ issued = {}
  /\ link = TRUE
  /\ running = TRUE
  /\ pc = Car!AtLoop
  /\ at = Car!FirstCall
  /\ new_command = Car!NoCommand
  /\ unsaved = Car!AllSaved
  /\ last_command = Car!StopCommand
  /\ mutex = Car!Unlocked
  /\ duty = Car!MotorsOff
  /\ cycle = Car!MotorsOff
  /\ caught = Car!NotCaught
  /\ order = "kept"
  /\ servo = 90
  /\ level = Car!LedsLow
  /\ blinking = Car!NoBlink

-----------------------------------------------------------------------------
\* The driver presses a button: one more POST is on its way
Drive(button) ==
  /\ posts < MaxPosts
  /\ Page!Click(button)
  /\ posts' = posts + 1
  /\ net' = net \cup {[n |-> posts + 1, cmd |-> last_post']}
  /\ issued' = issued \cup {last_post'}
  /\ UNCHANGED <<serverVars, carVars, handled, link>>

\* The driver logs out and in again
Relogin ==
  /\ Page!Logout
  /\ UNCHANGED <<serverVars, carVars, netVars>>

\* The server handles a POST and answers it; the answer may be lost
Handle(request) ==
  /\ "overtake" \in Faults \/ \A r \in net : request.n <= r.n
  /\ Server!update_car_movement(request.cmd.movement, Number(2 * request.cmd.speed),
                                request.cmd.direction)
  /\ \/ Page!Answer(reply'.code)
     \/ "loss" \in Faults /\ Page!Answer(0)
  /\ net' = net \ {request}
  /\ handled' = request.n
  /\ UNCHANGED <<carVars, posts, issued, link>>

\* A POST does not reach the server: the browser reports status 0
Lose(request) ==
  /\ "loss" \in Faults
  /\ Page!Answer(0)
  /\ net' = net \ {request}
  /\ UNCHANGED <<serverVars, carVars, posts, handled, issued, link>>

\* The server process is started again and has forgotten the command
ServerRestart ==
  /\ "restart" \in Faults
  /\ car_movement # "undeclared"
  /\ Server!Restart
  /\ handled' = 0
  /\ UNCHANGED <<pageVars, carVars, net, posts, issued, link>>

LinkChange ==
  /\ "link" \in Faults
  /\ link' = ~link
  /\ UNCHANGED <<pageVars, serverVars, carVars, net, posts, handled, issued>>

\* The car goes on by itself
Alone == UNCHANGED <<pageVars, serverVars, netVars>>

CarAlarm    == Alone /\ \E h \in Car!Handlers : Car!Alarm(h)
Callback(h) == Alone /\ Car!HandlerStep(h)
PwmLoop(p)  == Alone /\ Car!PwmLoop(p)

CarStep == CarAlarm \/ (\E h \in Car!Handlers : Callback(h)) \/ (\E p \in PwmThreads : PwmLoop(p))

BlinkEnds(l) == Alone /\ Car!BlinkEnds(l)

Next ==
  \/ \E button \in Buttons : Drive(button)
  \/ Relogin
  \/ \E request \in net : Handle(request) \/ Lose(request)
  \/ ServerRestart
  \/ LinkChange
  \/ CarStep
  \/ \E l \in Car!Leds : BlinkEnds(l)

\* A POST is handled or lost in the end, and the car's timer, callbacks and PWM
\* loops go on as GpioController says
Spec ==
  /\ Init
  /\ [][Next]_vars
  /\ WF_vars(\E request \in net : Handle(request) \/ Lose(request))
  /\ WF_vars(CarAlarm)
  /\ \A h \in Car!Handlers : WF_vars(Callback(h))
  /\ \A p \in PwmThreads : WF_vars(PwmLoop(p))
-----------------------------------------------------------------------------
TypeOK ==
  /\ Page!TypeOK
  /\ Server!TypeOK
  /\ Car!TypeOK
  /\ net \subseteq [n : 1..MaxPosts, cmd : issued]
  /\ Cardinality(net) = unanswered
  /\ handled \in 0..posts
  /\ link \in BOOLEAN

\* The car only ever executes a stop or a command that was posted as a whole:
\* no overtaking, loss, restart or logout makes it blend the movement of one
\* command with the speed or the direction of another, although three
\* separate globals, a text and three compared fields lie in between.  What it
\* believes to have executed is whole too, once a callback that ran alone has
\* saved it (overlapping ones may save the fields of two commands).
CarRunsWholeCommands ==
  /\ \A h \in Car!Handlers : new_command[h] \in issued \cup {Car!StopCommand}
  /\ order = "kept" /\ pc["alrm"] # "save" => last_command \in issued \cup {Car!StopCommand}

\* Between two callbacks the motors and the steering do what one command of
\* the page asks for, posted as a whole, or the stop: with every command they
\* are set anew, and nothing of an older one, posted before or overtaken on
\* the way, is left in any of the five pins.  Overlapping callbacks do leave a
\* mix, until one that runs alone has executed and saved.
WheelsFollowOneCommand ==
  order = "kept" /\ Car!Quiescent =>
    \E c \in issued \cup {Car!StopCommand} :
      Car!MotorsFollow(c) /\ servo = Car!SteeringAngle(c.direction)

\* The whole is made of its parts: what the page, the server and the car do
\* here are steps that Dashboard, CarBackend and GpioController allow when
\* the others are their environment.
RunsItsComponents ==
  /\ Page!Spec
  /\ Server!Spec
  /\ Car!Init /\ [][Car!Next]_(Car!vars)

\* If the newest POST is the one that the server handled last, and stays so,
\* and the link holds, the car ends up driving as the page told it last, when
\* its callbacks do not overlap any more.
CarObeysPage ==
  <>[](order = "kept" /\ handled = posts /\ link /\ last_post # Page!NoPost) =>
    <>[]Car!MotorsFollow(last_post)

\* If the car loses the server for good, it stops, whatever it was doing and
\* whatever is still posted, when its callbacks do not overlap any more.
CarStopsWithoutServer == <>[](order = "kept" /\ ~link) => <>[]Car!Stopped
=============================================================================
