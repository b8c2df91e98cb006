# EmbeddedCar: a TLA+ verification project

EmbeddedCar is a small car driven from a web page. A driver's browser posts
commands to a Node.js server; a C program on the car's Raspberry Pi polls the
server four times a second and sets motors, steering servo and LEDs. A camera
sends video the other way. The car's image is built with Yocto, and its BitBake
is vendored in the repository. This directory holds TLA+ modules of the control
path, of both ends of the video path, and of the two parts of BitBake with the
hardest concurrency; the TLC configurations that check them; and proofs checked
by TLAPS.

Paths below are relative to the repository. `frontend/` stands for
`WebInterface/Frontend/Controller_Interface/src/app/`, `backend/` for
`WebInterface/Backend/src/`, `gpiolib/` for
`Embedded/meta-embeddedcar/recipes-gpio/gpiolib/files/`, `video/` for
`Embedded/meta-embeddedcar/recipes-video/gstreamer-video-streaming/files/`,
`bb/` for `Embedded/bitbake/lib/bb/`, `prserv/` for `Embedded/bitbake/lib/prserv/`.

Contents: [1 Inventory](#1-inventory) · [2 Modules](#2-modules-and-the-code) ·
[3 Runs](#3-runs) · [4 Proofs](#4-proofs) · [5 What is not covered](#5-what-is-not-covered) ·
[6 Plan](#6-plan)

## 1 Inventory

```
 driver --keys, buttons--> dashboard.ts --POST--> server.js/car_controller.js
                              |  ^                        ^
                              |  | <img> stream           | GET /api/car/movement, every 250 ms
                              v  |                        |
                           camera.js ---proxy--->  car: gpio_controller.c -> gpio_lib.c -> pins
                                                        gstreamer_controller.cpp -> gst-launch
```

| Component | State it keeps | Operations | Talks to |
|---|---|---|---|
| Dashboard, driving part (`frontend/dashboard/dashboard.ts`) | gear, movement, direction and speed shown; `activeKeys` | five commands (keys and D-pad), key filter, slider, logout | POSTs `/car/update_movement` through MovementService; does not wait for answers |
| MovementService (`frontend/services/movement.service.ts`) | a status subject | `updateCarMovement` (the other methods have no caller) | the server |
| Car endpoints (`backend/endpoint_car/`) | three undeclared globals `car_movement`, `car_speed`, `car_direction` | connect, four moves, brake, update, poll | page and car |
| GPIO controller (`gpiolib/gpio_controller.c`) | `running`, `last_command` | `timer_callback` in a SIGALRM handler: poll, compare, execute, save; SIGTERM; clean-up | polls the server with `wget`; calls gpio_lib |
| GPIO library (`gpiolib/lib/gpio_lib.c`) | duty per pin, blink threads, two mutexes | `softPwmUpdateDuty`, `digitalWrite`, `blinkStart`, `blinkStop`, servo | one thread per soft-PWM pin, one per blinking LED |
| Dashboard, video part (`frontend/dashboard/dashboard.ts`, `.html`) | `streamActive`, status text, one image per video tab, image callbacks, two timers | start, stop, refresh, screenshot | the camera proxies |
| Stream registry (`backend/endpoint_camera/streaming_controller.js`) | devices, statistics | register, heartbeat, proxy, clean-up every 30 s | — |
| Frame store (`backend/endpoint_camera/camera_controller.js`) | latest frame, statistics | upload, read | — |
| Camera proxies (`backend/endpoint_camera/camera.js`) | one response and one upstream socket per request | GStreamer TCP, MJPEG, HLS | the car's video server |
| Security endpoint, AuthService, login | a JSON file; a token in localStorage | log in, log out, guard | — |
| GStreamer controller (`video/gstreamer_controller.cpp`) | a PID file; nothing else outlives an invocation | start, stop, restart, status | forks `gst-launch-1.0`; run by systemd and by hand |
| Service script (`video/gstreamer-video-streaming`) | the same PID file protocol | the same | — |
| systemd units (`.../systemd-services/files/`) | — | `Restart=always`, SIGKILL after a timeout | both car programs |
| BitBake PR service (`prserv/`, `bb/asyncrpc/`) | a table of package revisions in SQLite, one open transaction | get-pr, import-one, SIGTERM, stop, start; a client with retries | builds ask it for the PR of each package |
| BitBake run queue (`bb/runqueue.py`) | two queues of tasks, what is covered, held off, running | one pass of `execute()`, the workers' answers, finish | worker processes, shared state |

What is hard here, and which property of the component it endangers
(`PROJECT.json` lists every hazard at its line):

* **Callbacks on several threads.** All of the car's work happens inside a
  SIGALRM handler that may last seconds (`wget --timeout=2`, joins of blink
  threads) while the timer fires every 250 ms. SIGALRM is blocked only in the
  thread that runs the handler; the soft-PWM threads do not block it. So
  handlers overlap, interleave their pin updates and race on `last_command`;
  and a PWM thread inside a handler leaves its pin as it is, HIGH perhaps.
* **Acting on a difference.** The car executes a command only if it differs
  from `last_command`. The outputs must therefore *be* those of `last_command`
  whenever no callback is under way, over timeouts, crashes and restarts.
* **Locks in signal handlers.** `blinkStart`/`blinkStop` lock a non-recursive
  mutex, also from a handler that interrupted `main()` inside the same call.
* **Independent POSTs.** Commands may overtake one another or be lost; the
  server can restart and forget; the link between car and server can break.
* **Two copies of the truth in the page.** Gear and movement are separate
  fields, updated in 18 cases; `activeKeys` copies the keyboard but misses the
  key-ups that go to another window.
* **Callbacks that outlive their page.** Image callbacks and timers keep the
  image they were made for, while Angular replaces the image with each tab and the
  component with each login. A timeout declares failure while the request goes on.
* **A process known by a number in a file.** Each invocation of the GStreamer
  controller is a new process: between its check, `fork` and the file another one
  may run, the process may die, and its PID may go to a stranger.
* **Answered is not committed.** The PR service answers from an open transaction;
  clients retry what may have been carried out, and a stop lets requests through
  between its two halves.
* **Two queues on one graph.** Setscene tasks make other tasks needless while those
  become buildable; workers answer in any order, and hard dependencies,
  duplicates and hold-offs wait for one another.
* **Raw JavaScript values.** The server range-checks a value of any type, and
  the car reads it back with json-c, which may read another number (`"500e-2"` is 5
  for JavaScript and 500 for json-c), and refuses bad duties pin by pin.

## 2 Modules and the code

| Module | Stands for | Kind |
|---|---|---|
| `CarApi` | the JSON values of the car API and how json-c reads them | operators |
| `CarBackend` | `car_controller.js`, `car.js` | state machine |
| `GearLever` | what the controls promise the driver | abstract specification |
| `Dashboard` | the driving part of `dashboard.ts`, `updateCarMovement` | state machine, refines `GearLever` |
| `GpioController` | `gpio_controller.c`, the calls of `gpio_lib.c`, `gpio-controller.service` | state machine |
| `CarSystem` | page, network, server and car together (three INSTANCEs) | composition |
| `VideoView` | the video part of `dashboard.ts` and the template's image and buttons | state machine |
| `GstreamerController` | `gstreamer_controller.cpp`, `gstreamer-controller.service` | state machine |
| `PRServ` | `prserv/serv.py`, `prserv/db.py`, the client over `bb/asyncrpc/client.py` | state machine |
| `BuildOrder` | what a build promises of each task and setscene variant | abstract specification |
| `RunQueue` | `RunQueueExecute` of `bb/runqueue.py` | state machine, refines `BuildOrder` |
| `MC*` | values of the constants for TLC | model checking |
| `CarBackend_proofs`, `Dashboard_proofs`, `GpioController_proofs`, `CarSystem_proofs`, `VideoView_proofs`, `GstreamerController_proofs`, `PRServ_proofs`, `RunQueue_proofs` | theorems | proofs |

`PROJECT.json` maps each definition to its lines. The choices that matter:

**CarApi, CarBackend.** A JavaScript value is a record of its kind, twice the number
that JavaScript compares (so fractions exist), and the number that json-c reads of a
string: the two differ (`"500e-2"`: 5 and 500; `"0x10"`: 16 and 0), and
`json_object_get_int` returns the second. The server's range test sees the first, so it
protects the car from numbers (`ServedNumberIsLegalDuty`) and not from strings
(`ServedSpeedIsLegalDuty`, section 3). The globals start
*undeclared*: reading one raises a ReferenceError, which the handler's `catch`
turns into a 400 after the assignments before it were made. A `move_forward` on
a fresh server thus answers 200 while the poll keeps answering 400. `Restart` is
the end of the process: nothing is persisted.

**Dashboard.** One action per browser event. A key pressed while the window has
no focus is held by the driver but unknown to the page; so is its release.
`acts` counts how often a key has acted since it went down (history).
`Post` is the body that `update_movement` gets; the answer changes only the
service's own status, because `handleError` maps a failure to an ordinary
value: the component's `error:` callback never runs
(cf. `SERVICES_GUIDE.md:192`). Moving the slider only changes the value that the *next*
command sends, so the car keeps its speed until then (cf. `README.md:171-172`).

**GpioController.** A *context* executes code: `main`, the handler on top of
`main` (`alrm`), or the handler on a soft-PWM thread. `execute_car_command` is
the sequence of library calls the branch makes, and every call is one step, so
that two handlers interleave between any two calls. Inside a handler nothing can
interrupt a call, so lock-work-unlock is one step that needs the mutex free; in
`main` the lock is a step of its own (`Acquire`), because SIGALRM can arrive
before the unlock. `last_command = new_command` is copied field by field in any
order. `Killed` leaves each PWM pin at a level its duty allows. `BlinkEnds`
covers a blink thread that finishes: it leaves its pin low, whatever was written
in the meantime. A PWM pin has a written duty (`duty`), the duty of the period its
loop is in (`cycle`), and, while its thread is inside a handler, the level at which the
alarm caught it (`caught`); `Output` is what the pin puts out. The loop takes a new duty with its
next period (`PwmLoop`), at once for all purposes when its thread serves no alarms. `order` is
history: "lost" when a second callback started beside one that was under way, and "kept" again
when one has executed and saved alone. Polled speeds are any numbers: duties outside
0..100 are refused pin by pin. `blinkStart` refuses pins above 21, so LED_FORWARD_LEFT (27)
never blinks although `gpio_controller.c:236` asks for it. Blink threads are
created inside the handler and inherit the blocked SIGALRM, so only `main` and
the PWM threads serve it. The movements `"left"` and `"right"` have branches in
the C code that no server answer reaches; they are left out.

**CarSystem.** `Server!update_car_movement` is called with the very record the
page posted; `Served` turns the server's globals into what the car's poll meets.
The POST's answer is delivered in the step that handles it (nothing else reads
it). Keys act as buttons: the key filter is the subject of `dashboard`. `PwmThreads` is a
constant here too. The run takes none, and its properties speak of the time when callbacks have not
overlapped (`order`); the theorems are about any of them.

**VideoView.** `image[d]` is the image that component `d` has set up; a change of
tab or a logout takes it out of the page, but its request, its callbacks and the timers of
its component go on. `updateStatus` writes into whatever status text is in the
page then. The start and stop buttons are rendered while `streamActive` is false,
so a component starts at most once and `stopStream` only ever resets a status.
The template has no `mjpeg-stream`: that branch of `onerror` does nothing.
`refreshStream` waits for the 10 s timeout of its own component, since its first
tick comes after 30 s. Load and error are the browser's choice.

**GstreamerController.** An invocation (`"systemd"`, `"operator"`) goes through
the code system call by system call; `fn` and `restarting` say where
`isStreaming` returns to. A process is `free`, `starting` (before it has camera
and port), `streaming`, `told` (has got SIGTERM, and may ignore it) or `other`: a
stranger with that PID. The wait of `stopStreaming` always lasts its 5 s, because
`waitpid` does not report another process's child. A file is truncated when it is
opened and written later; one that has been unlinked in between takes what is
written with it (`opened`). `sh -c` is taken to replace itself by `gst-launch`.
The file may also fail to open (`CannotOpenPidFile`): the stream then runs and no file names it. Two
invocations may run at once (`Overlap`). `mixed` and `unfiled` are history: the
invocations that have met another one, and the PIDs forked by those, or by one that could not open the file.

**PRServ.** The event loop dispatches a message without being interrupted, so a
request is one step; what interleaves is around it. `db` is what the server's own
connection sees, `disk` what is committed. `dispatch_message` means to commit after
each message, but its `return` inside the `try` leaves before the `else`: in the
model, as in the code, an answer commits nothing. SIGTERM commits (`Terminate`),
`stop` commits what came in after it, and a message no handler takes commits too. What is not
committed is lost in two ways: by a kill (`Crash`), and, while the server lives, by a request
with a null field, whose insertion breaks `NOT NULL` and rolls the whole transaction
back (`db.py:183`; in the model the checksum is the null field: any of the three does the same). With
`synchronous = off` and the journal in memory a kill inside a commit, or a power failure, may damage the file
(`FileDamaged`): each row is then the old one, the new one or gone. A client's
request that was not carried out when its connection
broke may still be (`stray`), beside its retry. A server started read-only makes
up `max+1` and records nothing. A killed or stopped server may be started read-only or not, or
stay away. Servers only ever open the table without history (`serv.py:131`), so that is the mode
modelled. `known`, `floor`, `given`, `imported`, `safe` (what a commit found on record), `lost` and
`damaged` are history.

**RunQueue.** A build is a record: tasks, graph, hashes, stamps and settings. The
setscene queue is one record (`sq`), and the code's helpers that change several of its
fields in a row are operators from one such record to the next, composed as the code calls
them. A step is one pass of `execute()`, from where the workers' answers have been
read to its `return`: it stops at one setscene task (`ScenePart`), or settles the
setscene queue, or starts or settles at most one task (`TaskPart`). Answers come between
passes, or at the head of one that goes on (`inpass`). The code's recursions and loops
over the graph (what a setscene task covers, what fails with another one, what is done
with) are least closed sets. A `for` loop over an unordered Python set that may pass over several tasks
before it stops at one is any subset passed over (`Passing`). Whether shared state
has a task's hash is the environment's choice, made at the start and again for each
deferred duplicate. A task is a number, its place in the order of the names.

`BuildOrder` says nothing of passes, buildable sets, hold-offs or threads. In it a task is waiting, running,
built, skipped or failed, its setscene variant open, restoring, there, needless or refused, and a
step moves one task, or one variant and those that fail with it, forward. `TaskLife` and
`VariantLife` read that off the queue's sets.

## 3 Runs

| Run | Shows | Bounds |
|---|---|---|
| `car_backend` | numbers served are legal duties; untouched state after refusals, over every request | speeds at, around and between the boundaries 0 and 100, fractions, `null`, `true`, strings that JavaScript and json-c read alike or differently |
| `dashboard` | gear/movement, shown/posted and key filter invariants; refinement of `GearLever` | keys ArrowUp and Space (all five buttons), slider {0, 60}, 2 unanswered POSTs |
| `gpio_serial` | outputs follow `last_command`, dark at rest, a constant answer is followed | no overlap; 6 answers, one of them decoding to 500; SIGTERM and SIGKILL |
| `gpio_overlap` | with overlapping callbacks: outputs follow `last_command` and the server again once a callback has run alone; the safety stop wins if the PWM loops run | one PWM thread, 2 answers, SIGKILL |
| `gpio_overlap_follows` | *violation* of `WritesFollowServer` with overlap | one PWM thread, 2 answers, no signals |
| `car_system` | whole commands, wheels that follow one command, obedience, safety stop, end to end | 4 buttons, 2 POSTs, 2 in flight, all faults; callbacks do not overlap |
| `video_view` | a picture is on display as its last request ended | 3 logins one after another |
| `gstreamer` | the PID file names the stream that an undisturbed invocation has filed; the stream comes back | 3 PIDs, two invocations at once |
| `prserv` | PRs do not go back, are not shared and stay on record until uncommitted rows are thrown away; what a commit found on record stays; calls end | 2 clients, 1 package, 2 checksums and null, 1 import, 3 calls, 1 retry each, 1 trouble |
| `prserv_crash` | *violation* of `NeverDecremented` when the server is killed | as above |
| `runqueue` | inputs exist before a task runs; threads and duplicates; refinement of `BuildOrder`: nothing is carried out or restored twice or out of turn; every build ends with all that can be built | 40 builds of 4 to 6 tasks, 2 threads |
| `runqueue_duplicates` | *violation* of `DuplicatesApart` | one build, four duplicates, one of them with a setscene stamp |

Why the bounds are enough. Every branch of the code compares a value with a
boundary; the sets hold values on both sides. In the page the keys are treated alike by the filter, so
two keys show their interference; all five commands still act, by button. Two
overlapping handlers (`alrm` and one PWM thread) suffice for every race found,
since the shared state is one record and the pins; four PWM threads only add more of
the same, and the safety theorems hold for all four. Six answers give every pair (straight, turn, stop, failed poll, missing
direction, change of speed only), and behaviours go through them in any order, so changes between
any two branches happen. Two POSTs are what overtaking needs; the page's own
bound `MaxInFlight` only limits how many are unanswered. Three logins put two destroyed
components beside a live one. Three PIDs hold a stream, a process that could not
open the camera and a stranger at once; with all of them taken, `fork` fails.
Two clients and two checksums are what sharing or lowering a PR takes; one retry puts
a request and its late copy beside each other, and one trouble (a broken
connection, a stop or a crash) is enough for each of the orders the hazards name: every
further one starts from a state of the same kind, which is what the proof says for
any number. Requests with a null field are calls, not troubles: every one of the three may be one. The 40 builds hold each feature of the code at least once, in the smallest graph where
it matters, most of them with and without `-k`: a chain of library, program and image; the same with
stamps of an earlier build, tasks that do nothing and each setting; a recipe whose
compilation serves two setscene tasks; a shared library with hard dependencies; a hard
dependency that the graph does not show; three tasks of one hash; no setscene task; a limited name. Two threads are what running side by side takes.

**Fairness.** `GpioController`: the interval timer is never stopped and the
kernel delivers its signal to a thread that does not block it
(`WF(Alarm)`); a runnable thread runs (`WF` of each handler's and of `main`'s
steps, and of each PWM loop). The last is *weak* on purpose: a loop that is kept from going on by alarm
after alarm need never do so, and polls that take 2 s with alarms every 250 ms do just that.
`FailsafeStopsIfLoopsRun` has as its premise that the loops come round again and again. A fetch always ends: `wget` has a timeout. `CarSystem`: in addition,
a POST in flight is handled or lost in the end (the browser gives up).
`GstreamerController`: systemd starts the unit again (`Restart=always`,
`StartLimitIntervalSec=0`), a runnable invocation runs, and a started `gst-launch`
opens the camera or gives up; nothing makes it fail or keeps it from failing.
`PRServ`: the event loop goes on (`WF(Stop)`: a signalled server stops), and a call under
way is answered, refused, retried or given up (`WF(Progress(c))`: TCP delivers or reports
an error, and the client's own timeout is 30 s); nobody has to start the server again. `RunQueue`:
the server keeps calling `execute()` while there is something to do, and a worker
that runs a task answers in the end; which of the two comes first is open (one `WF(Progress)`).
Nothing is assumed about the driver, faults, signals or the server's answers.
`CarBackend`, `Dashboard` and `VideoView` have safety properties only and no fairness.

**Deadlock** is checked in every run: none of these systems may stop.

**The three violations** are disagreements between the code and its own texts;
`PROJECT.json` "findings" quotes the lines.

1. *Overlap* (`gpio_controller.c:320`). A move and a stop interleave, and the saves
   of `last_command` come in the other order: every later poll finds "unchanged", and the duties
   written to the motor pins never follow the server.
2. *Crash of the PR service* (`prserv/serv.py:47`). The commit after each message is never reached.
   A server that is killed forgets PRs it has answered, and the next one gives a lower PR to the
   same package although `prserv/db.py:26` rules that out.
3. *Duplicates* (`runqueue.py:2093`). Of the setscene tasks with one hash the queue lets one go and
   defers the others after it. The one let go may be complete already, by a setscene stamp: then
   nothing holds the others back and they run side by side, which `runqueue.py:2084` calls prone
   to races.

**Configurations outside the runs.** Ten more cfgs sit beside the runs, each with one
property that TLC refutes; they are kept to reproduce what the code does.

* `DashboardSpace.cfg`, `SpaceStops` (`dashboard.ts:412`; module `MCDashboard`): a press of the space
  bar is swallowed when the key-up of an earlier press went to another window: nothing clears
  `activeKeys` on blur.
* `CarBackendStrings.cfg`, `ServedSpeedIsLegalDuty` (`car_controller.js:55`; `MCCarBackend`): a string such as
  `"500e-2"` passes the range test as 5, is served, and is 500 for json-c; `gpio_lib` then refuses it pin by pin
  (`gpio_lib.c:400`), and the pins that a turn leaves to the speed keep what they had. The pages send numbers.
* `GpioFailsafe.cfg`, `FailsafeStops` (`gpio_lib.c:283`; `MCGpioController`): "if HTTP request fails, stop the car
  for safety" (`gpio_controller.c:324`). The stop writes duty 0, but a PWM thread that was caught with its pin HIGH goes from one handler
  straight to the next as long as polls take longer than the alarm's period, and the pin stays HIGH.
* `GpioShutdown.cfg`, `ShutdownEnds` (`gpio_controller.c:388`; `MCGpioController`): after
  SIGTERM, `main()` can be interrupted inside `blinkStop`, holding `blink_mutex`; the
  handler on the same thread then waits for it for ever.
* `GstreamerOverlap.cfg`, `StopFindsStream` (`gstreamer_controller.cpp:61`; `MCGstreamerController`): when the file cannot be
  opened, or two overlapping starts find no stream and both fork and the file names the one that cannot open
  the camera, no `stop` finds the stream.
* `PRServRollback.cfg`, `NeverDecremented` (`prserv/db.py:183`; `MCPRServ`): the same promise as in `prserv_crash`, broken without any
  kill: a request with a null field rolls back PRs that were answered before it.
* `VideoStuck.cfg`, `VideoOrControls` (`dashboard.ts:553`; `VideoView`): after one failed load the tab has
  no picture, no request and no buttons: the MJPEG image that would go on does not exist.
* `RunQueueTwins.cfg`, `DuplicatesApart` (`runqueue.py:2761`; `MCRunQueue`): a deferred duplicate that fails
  with its hard dependency no longer waits for the task it was deferred after; both are executed side by side.
* `RunQueueForced.cfg`, `DuplicatesApart` (`runqueue.py:2418`; `MCRunQueue`): when nothing else is left, the queue lets
  a deferred duplicate go although its hash is still being worked on, and nothing holds it back later.
* `RunQueueHidden.cfg`, `HardDepsRestored` (`runqueue.py:2208`; `MCRunQueue`): a setscene task that looks needless is skipped
  although another one needs it, because only tasks between them, and no hard dependencies, make `sq_revdeps`;
  the other is then restored without it. `useradd.bbclass:205` makes such dependencies.

Noticed without a run of its own: `README.md:131` promises retries of failed
requests, and no code of the frontend repeats a POST. In `runqueue.py`:
the loop at lines 2231-2234 means to wait for running covered tasks, but its
`continue` continues itself; `CoveredTasksWait` holds all the same, by the hold-off, and is
proved; the run does not list it, since the turns of `BuildOrder` imply it. A task of a limited name that fails with `-k` keeps its name's place for ever (lines 255-265;
`AllThatCanBe` excludes that case). Under BB_SETSCENE_ENFORCE an unexpected task fails
without having been started (line 2342): `stats.active` goes below the truth, and with `-k` the
build never ends, so enforcing builds are run without `-k`; an enforced setscene failure ends a build as
"complete". A `--setscene-only` build without setscene tasks ends as "failed". The circles that
`calculate_task_weights` looks for are circles of tasks: a circle of hard dependencies among setscene
tasks passes, and such a build ends with "never ran" errors. `Sound` excludes these last two. In the PR service a read-only server cannot share the file with a
read-write one, whose exclusive transaction is open from its start.

## 4 Proofs

All theorems hold for every value of the constants that meets the named
assumptions of the modules; TLC evaluates those assumptions in the runs.

| Theorem | Property | Run |
|---|---|---|
| `CarBackend_proofs!TypeCorrect`, `ServedNumberLegal`, `RefusedKeeps` | `TypeOK`, `ServedNumberIsLegalDuty`, `RefusedChangesNothing` | `car_backend` |
| `Dashboard_proofs!TypeCorrect`, `GearMatches`, `ShownPosted`, `KeyActsOnce` | `TypeOK`, `GearMatchesMovement`, `ShownIsPosted`, `HeldKeyActsOnce` | `dashboard` |
| `Dashboard_proofs!ImplementsLever` | `ImplementsGearLever` | `dashboard` |
| `GpioController_proofs!TypeCorrect` | `TypeOK` | `gpio_serial` |
| `GpioController_proofs!OutputsFollow` | `OutputsFollowLastCommand` | `gpio_serial`, `gpio_overlap` |
| `GpioController_proofs!RestDark` | `RestIsDark` | `gpio_serial` |
| `CarSystem_proofs!TypeCorrect`, `WholeCommands`, `WheelsFollow` | `TypeOK`, `CarRunsWholeCommands`, `WheelsFollowOneCommand` | `car_system` |
| `CarSystem_proofs!Components` | `RunsItsComponents`: the system runs each component as its own module says | (one POST, by hand) |
| `VideoView_proofs!TypeCorrect`, `PictureFollows` | `TypeOK`, `PictureFollowsRequest` | `video_view` |
| `GstreamerController_proofs!TypeCorrect` | `TypeOK` | `gstreamer` |
| `GstreamerController_proofs!FileNamesStream` | `PidFileNamesStream` | `gstreamer` |
| `PRServ_proofs!TypeCorrect`, `AnswersNeverGoBack`, `OneChecksumHasPR` | `TypeOK`, `AnswersDoNotGoBack`, `OneChecksumPerPR` | `prserv` |
| `PRServ_proofs!GivenStaysOnRecord`, `CommittedStaysOnRecord` | `GivenIsKept`, `CommittedIsKept` | `prserv` |
| `RunQueue_proofs!TypeCorrect`, `OutputsBeforeUse`, `HardDepsCovered` | `TypeOK`, `OutputsThere`, `HardDepsThere` | `runqueue` |
| `RunQueue_proofs!ThreadsCounted`, `NeverBoth` | `ActiveCounts`, `CoveredOrNot` | `runqueue` |
| `RunQueue_proofs!HeldOff` | `CoveredTasksWait` | (implied by `ImplementsBuildOrder`) |
| `RunQueue_proofs!ImplementsOrder` | `ImplementsBuildOrder` | `runqueue` |
| `RunQueue_proofs!BuildsEndWell` | `AllThatCanBe`, if `Sound` | `runqueue` |

*CarBackend.* `ServedNumberIsLegalDuty` is inductive beside the type invariant.
The lemmas say of each assignment what `json_object_get_int` gives for a number
that passed the test. The set of request speeds is arbitrary.

*Dashboard.* `IInv` adds `ActiveKeysFilter` to the checked invariants: a key
that has acted since it went down is in `activeKeys`. `HeldKeyActsOnce` alone is
not inductive — a state with `acts[k] = 1` and `k` outside `activeKeys` would act
again on a repeat — and this is exactly what the page's filter guarantees. The
refinement maps the gear to a number and the direction to the wheel, and takes
each event to a lever step or a stutter under `GearMatchesMovement`, without
which the switch statements could take a branch that is not a notch.

*GpioController.* Type correctness says no answer, overlap, signal or restart
drives a duty outside 0..100 or the servo elsewhere than to the three angles.
It holds with any set of PWM threads.

*Outputs and lights.* `OutputsFollowLastCommand` speaks of moments between callbacks, so
its invariant must speak of the middle of one. `Working` says: when the handler
is about to make call `i` of its command, each earlier call's effect is in place
(`Applied`). The lemmas `ApartFact` and `KeepFact` say why that lasts — no later call of the
same command writes the same pin — and `AppliedAll` why all effects together are
the command's motors and servo. At the save, the copied and the uncopied fields
of `last_command` make up `new_command` with the outputs already in place. The clean-up of
`main()` and a restart leave the motors at 0 and the servo at 90, which is
`last_command = stop` again. None of this assumes that callbacks do not overlap. When they do,
`order` is "lost" and nothing is claimed: the pins may hold a mix then, as `gpio_overlap_follows` shows. The next callback that
starts alone finds every PWM thread out of its handler (that is in `FollowInv`), and from its first call
on `Applied` builds up again, whatever the pins held; a callback that only finds "unchanged" restores nothing, and
does not make the order "kept".
`RestIsDark` goes the same way (`DarkInv`): a command that leaves the car at rest ends in
`stop_all`, whose calls are all *quiet* — none starts a blink thread or sets a level —
so each keeps what the ones before it darkened. The front left LED needs a fact of its own: `blinkStop`
refuses its pin, and it is dark only because `blinkStart` refuses it too (`NeverBlinks`).

*CarSystem.* Each of the three components is instanced twice: its module in the model, its proof module in the
proof. A step of the system is a step of each component, or leaves it alone (`ServerRuns`, `PageRuns`,
`CarRuns`), so every invariant of a component holds in the system without being proved again. What has to be
shown is that the inputs are among those that the component's theorems speak of: what the server serves is an
answer the car's module allows (`CarAnswersLegal`), and what the page posts a request of the server's
(`ServerSpeeds`). `Components` says it of the system as a whole: hidden behind the others, each
component behaves as its own specification. It costs TLC too much with two POSTs and has been checked with one.
A command is then followed on its way. `PostsOK`: what is in flight has been posted, and
every post is made of the server's words. `ServerOK`: the three globals are one posted command,
or the movement is undeclared. A posted command passes the validations and replaces all
three (`UpdateWhole`), and a poll that is answered decodes to it exactly (`PollWhole`: no default is
taken, and `json_object_get_int` of twice its speed in half percent is the speed). `CarOK` says what
the car has copied so far, so that after the last field `last_command` is whole again. None
of this counts on the order of messages, hence any faults, nor on the car's callbacks running one at
a time: what each of them executes is whole, and `last_command` is whole once one that ran alone has saved
it. `WheelsFollowOneCommand` joins this with `OutputsFollowLastCommand` of the car: motors and servo are those of one posted
command, unless callbacks have overlapped and none has run alone since. `TypeOK` needs to
know that the numbers of the commands in flight are distinct, which makes them as many as are unanswered.

*VideoView.* `PictureFollowsRequest` is inductive beside the type invariant. The
cases that matter are the timeout, which hides a picture whose request goes on,
and the refresh, which makes a request of a picture that stays on display.

*GstreamerController.* `PidFileNamesStream` speaks of moments between invocations,
so `FileInv` says what holds of a `gst-launch` that was forked by an undisturbed invocation (outside
`unfiled`) while others run. Either its own invocation, the only one, is still to write the file (`BeingFiled`), or
the file names it and every invocation that runs has read, or will read, just that PID (`Sees`): `isStreaming` then finds it
alive, so no invocation comes to a fork, to an unlink or to the file before a SIGKILL has ended it. That is why
later invocations may overlap as they like. A `gst-launch` that ends and a stranger that comes or
goes only make fewer processes ours.

*PRServ.* What carries all of it is that a row of the table only grows, but for a rollback or a kill, and that a
package's rows have a largest one (kept step by step, so no finiteness is needed). `PRInv` has three parts.
`TableInv`: types, the file is never above the table, and a table that differs from it is `dirty`, so
that a commit commits everything (`SyncedIsAll`). `SafeInv`: what a commit found on record is in the *file*, at that value or a higher
one; it holds over rollbacks and kills, which only take the table back to the file, until a crash damages that, and
gives `CommittedStaysOnRecord`. As long as no uncommitted row has been thrown away, what clients
know and hold is covered by the table (`KnownInv`), and so is every PR handed out (`GivenInv`). A stray request is only one
more request, and a retry a second one,
which is why neither can do harm. `NeverDecremented`, which drops the condition, is what `prserv_crash` and
`PRServRollback.cfg` refute.

*RunQueue.* The theorems hold for every finite graph and all settings. The
recursive walks of the code are least closed sets in the model, so a fact about one
is proved by showing a closed set, and no induction over the graph is needed. The key lemma,
`NeededIsBrought`, is about `update_holdofftasks`: when a task is chosen that will really run, each
of its dependencies is complete, and one that is complete without having been run is a setscene task that is
covered: any other one would be needed by something not covered, and so not
covered itself. `RQInv` gives what the lemma needs of the state: `Apart` (covered, not
covered and live setscene tasks are disjoint), `HardKept` (those a live or covered one needs stay
covered, since a failure takes all that needs it along), `Brought` (covered means
restored or found done), `Settled` (done tasks are covered, not covered or
below such), `Known` and `Waiting` (what earlier passes have written down still holds, because
decisions are final) and `Carried` (what is complete was run, or was covered). `ActiveCounts` needs
`BB_SETSCENE_ENFORCE` off, for the reason in section 3.

`AllThatCanBe` is about the last step, so `EndInv` says on the way there that nothing gets lost: a setscene task that is
neither covered nor given up is in `Moving` (live, deferred, or waiting for something that is not settled), the
buildable sets are up to date (`UpToDate`), every running task is executing, complete or failed (`Accounted`),
and each state of the queue has its reason (`Stage`, `Ending`). If a build ended too early, the set
of what is left would have an element that waits for none of the others (`AcyclicBottom`, by minimality over
the finite graph), and that one could have been started. Acyclic task graphs are what `calculate_task_weights`
demands; `Sound` asks the same of hard dependencies, and is explained in section 3.

`ImplementsBuildOrder` takes every step of the queue to one step of `BuildOrder`, or to none. Most of the
order's guards are there by `RQInv`: a chosen task's variants are decided (`Waiting`), its dependencies
brought (`NeededIsBrought`), a restored variant's needs covered (`HardKept`). `OnceInv` adds what keeps the lives
apart: what runs is not complete, what failed is neither, what was run is complete, what was restored is
covered. A task that failed without having been started stays eligible, and
fails again in every pass, which must not look like a second life: `Refused` says that the reasons for its
failure last, so that such a pass changes nothing of the order. That failing variants take along exactly those
that need them comes from the least closed set (`FailingWith`): it is closed, and without any of its other
elements that needs none of it, it would be closed too.

Only model-checked: all liveness properties (`FollowsServer`, `FollowsServerInOrder`, `FailsafeStopsIfLoopsRun`,
`CarObeysPage`, `CarStopsWithoutServer`, `StreamComesBack`, `CallEnds`, `BuildEnds`; fairness and ENABLED
are beyond TLAPS), and `DuplicatesApart`, which does not hold of every build: it is checked for duplicates without stamps and
hard dependencies, and refuted for others (`runqueue_duplicates`, `RunQueueTwins.cfg`, `RunQueueForced.cfg`). Every other safety property of
the passing runs is proved, and so are both refinements; `AllThatCanBe` under the hypothesis named in the
table. Induction over
data and RECURSIVE operators are out of the prover's reach too; the modules have none.

## 5 What is not covered

* The loops of `soft_pwm_thread` and `blink_thread` in detail: a duty cycle, the level at which an alarm
  catches the pin, and a "blinking" flag stand for them. That `blinkStart` refuses
  the front left LED (`gpio_lib.c:125`, pin 27) is in the model; no text of the
  repository promises that this LED blinks.
* Time: 250 ms, 2 s and 10 s are orders of events, not durations.
* `gpio_lib.c`'s sysfs writes, `softPwmStop` and blocking variants;
  `set_motor_frequency`, which nothing calls; `MovementService`'s unused methods.
* What lies between the two ends of the video path (`camera.js`), the camera's registry
  and frame store (with its statistics, `camera_controller.js:143`) and the login (section 6). The
  screenshot of the video view; the connection test in it (`dashboard.ts:539`);
  an invocation of the GStreamer controller that is killed half-way; the
  shell script beside it, which repeats its protocol. Middleware and static files (no state
  of their own).
* Of the PR service: export and the test queries, which change nothing; the daemon's PID file and
  lock; the chunking of messages; the websocket variant; the mode with history, which no server
  starts. SQLite is a committed and an uncommitted table.
* Of the run queue: `RunQueueData.prepare`, which makes the graph; hash equivalence
  (`process_possible_migrations`), which would need the hash server and rehashing; shared stamps,
  priorities, the disk monitor; the death of a worker process. The files a task
  writes are its stamp.
* The rest of BitBake and poky: about 150,000 lines of Python in 595 files. Parser, data store, fetchers, server
  process, hash server, toaster, tests, scripts and bundled libraries (`ply`,
  `pyinotify`, `bs4`) are third-party code that runs when the image is built, most of it sequential text
  processing or calls of other programs. The two parts modelled are those in which independent actors
  meet; the share of the Python they map is small for that reason.

## 6 Plan

Modules in order, with what each is for. The first eight are done.

1. `CarApi`, `CarBackend` — the command store, with proofs. *Done.*
2. `GearLever`, `Dashboard` — the page and the refinement, with proofs. *Done.*
3. `GpioController` — the car's program; proofs of its types, outputs and lights. *Done.*
4. `CarSystem` — the composition, with its end-to-end proof. *Done.*
5. `VideoView` — image callbacks and timers that outlive their page, with proofs. *Done.*
6. `GstreamerController` — controller, unit and PID file, with proofs. *Done; left: an
   invocation killed between `fork` and the file, the service script.*
7. `PRServ` — the PR service, its transaction and its clients, with proofs. *Done.*
8. `BuildOrder`, `RunQueue` — tasks and setscene tasks, the refinement, with proofs. *Done; left: hash equivalence, the
   death of a worker.*
9. `StreamProxy` — `camera.js`: response and socket events. At most one head per
   response; no upstream socket outlives its viewer; a socket error after the first
   bytes leaves the response open.
10. `VideoPath` — `VideoView`, `StreamProxy` and `GstreamerController` composed as
    `CarSystem` composes the control path: when does a driver see video again?
11. `StreamRegistry`, `FrameStore` — heartbeats and the clean-up; `activeStreams`
    against the devices. A clock modulo its timeouts; a device stays at most
    90 s after it was last seen (worth a proof).
12. `SoftPwm` — the PWM and blink threads in detail, refining the duty, level and output that
    `GpioController` uses.
13. `Login` — token, guard and security endpoint.
14. Proofs: the safety properties of 9 to 11.
