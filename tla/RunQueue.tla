------------------------------ MODULE RunQueue ------------------------------
(***************************************************************************)
(* BitBake's run queue: RunQueueExecute of lib/bb/runqueue.py, which runs  *)
(* the tasks of a build on worker processes.                               *)
(*                                                                         *)
(* A task that has a setscene variant may be restored from shared state    *)
(* instead of being run, and then covers the tasks it alone needed.  Both  *)
(* queues advance together: execute() is called again and again, reads the *)
(* answers the workers have sent, starts or settles at most one setscene   *)
(* task, starts or settles at most one task, and returns.  An answer can   *)
(* come between any two passes, or at the head of one, which then goes on. *)
(*                                                                         *)
(* A task is a number: what sorting by its name gives.  Hash equivalence   *)
(* (process_possible_migrations) is not modelled.                          *)
(***************************************************************************)
EXTENDS Integers, FiniteSets

CONSTANT Builds        \* the builds looked at, each a record as in Build below

\* Starting with what nobody depends on, one comes to everything
\* (calculate_task_weights; a build with a circle ends before it begins)
Acyclic(T, dep) == \A S \in (SUBSET T) \ {{}} : \E t \in S : \A u \in S : t \notin dep[u]

(* tasks, setscene, targets; depends (per task); harddeps (per setscene task *)
(* the setscene tasks its variant needs); fn (the recipe), hash (of a task's *)
(* inputs) and name; noexec; stamps and sstamps (stamp files of tasks and of *)
(* setscene variants found at the start); limited (the names with            *)
(* number_threads = 1); ignored (BB_SETSCENE_ENFORCE_IGNORE_TASKS); and the   *)
(* settings: threads, halt, force, setsceneonly, skipsetscene, enforce.      *)
(* depvalid: the setscene tasks that BB_SETSCENE_DEPVALID may find needless.  *)
Build(b) ==
  /\ b.tasks \subseteq Nat /\ IsFiniteSet(b.tasks) /\ b.tasks # {}
  /\ b.setscene \subseteq b.tasks /\ b.targets \subseteq b.tasks
  /\ b.depends \in [b.tasks -> SUBSET b.tasks] /\ Acyclic(b.tasks, b.depends)
  /\ b.harddeps \in [b.setscene -> SUBSET b.setscene]
  /\ b.threads \in Nat \ {0}
  /\ {b.halt, b.force, b.setsceneonly, b.skipsetscene, b.enforce} \subseteq BOOLEAN
  /\ b.depvalid \subseteq b.setscene
  /\ \A t \in b.tasks, d \in b.tasks :      \* the stamps are those of an earlier build
       t \in b.stamps /\ d \in b.depends[t] /\ b.fn[d] = b.fn[t] => d \in b.stamps \cup b.sstamps

ASSUME BuildsAssumption == \A b \in Builds : Build(b)

VARIABLES
  rqdata,              \* the build, an element of Builds
  sqdata,              \* what build_scenequeue_data makes of it
  state,               \* "running", "cleanup", "complete" or "failed"
  inpass,              \* a pass has read an answer and goes on to choose a task
  sq,                  \* the setscene queue: a record, see SQType
  runq_buildable, runq_running, runq_complete, runq_tasksrun,
  tasks_covered, tasks_notcovered, holdoff_tasks, sqdone,
  active,              \* stats.active
  executing,           \* the tasks in build_stamps: a worker runs them
  failed_tids,
  newstamps,           \* tasks whose stamp file is of this build
  restored,            \* setscene tasks a worker has restored in this build
  stopped              \* history: the user has stopped the build

runq == <<runq_buildable, runq_running, runq_complete, runq_tasksrun>>
cover == <<tasks_covered, tasks_notcovered, holdoff_tasks, sqdone>>
work == <<active, executing, failed_tids, newstamps>>
vars == <<rqdata, sqdata, state, inpass, sq, runq, cover, work, restored, stopped>>

-----------------------------------------------------------------------------
(* What the build's graph means for the setscene queue *)

\* The least set of tasks that has S and with a task those that next gives for it
Closure(T, S, next(_)) ==
  LET closed == {X \in SUBSET T : S \subseteq X /\ \A u \in X : next(u) \subseteq X}
  IN  {t \in T : \A X \in closed : t \in X}

\* Mutant: the walk goes on behind other setscene tasks
covered_tasks_through(b, s) ==
  LET below(t) == b.depends[t] IN Closure(b.tasks, below(s), below)

\* Non-setscene tasks that s needs through non-setscene tasks only
covered_tasks(b, s) ==
  LET below(t) == b.depends[t] \ b.setscene
  IN  Closure(b.tasks, below(s), below)

\* Setscene tasks that need r with only such tasks between
revdeps_squash(b, r) ==
  {s \in b.setscene : \E t \in covered_tasks(b, s) \cup {s} : r \in b.depends[t]}

Endpoints(b) == {t \in b.tasks : \A u \in b.tasks : t \notin b.depends[u]}

\* Mutant: targets that somebody else needs may be skipped
unskippable_ends(b) ==
  LET down(t) == IF t \in b.setscene THEN {} ELSE b.depends[t]
  IN  Closure(b.tasks, Endpoints(b) \cap b.setscene, down)

\* What the build asks for, down to the first setscene task on every way
unskippable(b) ==
  LET down(t) == IF t \in b.setscene THEN {} ELSE b.depends[t]
  IN  Closure(b.tasks, Endpoints(b) \cup (b.targets \ b.setscene), down)

\* The first setscene task of a hash goes ahead, the others wait for it
deferred_by_hash(b) ==
  LET first(s) == CHOOSE r \in b.setscene : /\ b.hash[r] = b.hash[s]
                                            /\ \A x \in b.setscene : b.hash[x] = b.hash[s] => r <= x
  IN  [s \in {s \in b.setscene : first(s) # s} |-> first(s)]

build_scenequeue_data(b) ==
  [covered_tasks |-> [s \in b.setscene |-> covered_tasks(b, s)],
   revdeps       |-> [s \in b.setscene |-> revdeps_squash(b, s)],
   unskippable   |-> unskippable(b),
   deferred      |-> deferred_by_hash(b)]

Tasks == rqdata.tasks
Setscene == rqdata.setscene
depends(t) == rqdata.depends[t]
revdeps(t) == {u \in Tasks : t \in depends(u)}

-----------------------------------------------------------------------------
(* The setscene queue: operators that take its record and give the next one *)

Decided(q) == q.covered \cup q.notcovered

\* Non-setscene tasks are done with when everything that needs them is
DoneClosure(done) ==
  LET settled(d, X) == revdeps(d) # {} /\ revdeps(d) \subseteq X
      closed == {X \in SUBSET Tasks :
                   done \subseteq X /\ \A d \in (Tasks \ Setscene) \ X : ~settled(d, X)}
  IN  {t \in Tasks : \A X \in closed : t \in X}

\* scenequeue_updatecounters, once the tasks of S are covered or not covered
scenequeue_updatecounters(q, S) ==
  [q EXCEPT
    !.buildable = @ \cup {r \in Setscene : /\ sqdata.revdeps[r] \cap S # {}
                                           /\ sqdata.revdeps[r] \subseteq Decided(q)},
    !.done = DoneClosure(@ \cup S),
    !.harddeferred = {s \in @ : ~(rqdata.harddeps[s] \subseteq Decided(q))},
    !.need_update = TRUE]

\* sq_task_skip, sq_task_complete
sq_task_skip(q, t) ==
  scenequeue_updatecounters(
    [q EXCEPT !.running = @ \cup {t}, !.buildable = @ \cup {t}, !.covered = @ \cup {t}], {t})

\* Setscene variants that need no restoring: found done, or nothing to do
Present(t) == t \in rqdata.noexec \/ t \in rqdata.sstamps \/ t \in rqdata.stamps

\* Mutant: what needs the failed one is left as it is
OnlyItself(q, t) == {t}

\* The setscene tasks that fail with t: those with a hard dependency upon it
FailingWith(q, t) ==
  LET needing(u) == {s \in Setscene : u \in rqdata.harddeps[s] /\ s \notin Decided(q) /\ ~Present(s)}
  IN  Closure(Tasks, {t}, needing)

\* sq_task_failoutright, sq_task_fail
sq_task_failoutright(q, t) ==
  LET F == FailingWith(q, t) IN
    scenequeue_updatecounters(
      [q EXCEPT !.running = @ \cup F, !.buildable = @ \cup F, !.notcovered = @ \cup F], F)

\* update_scenequeue_data for one task, whose hash is valid (available) or not
update_scenequeue_data(q, t, valid) ==
  LET p == [q EXCEPT !.outrightfail = @ \ {t}] IN
    IF Present(t) THEN sq_task_skip(p, t)
    ELSE IF ~valid /\ t \notin Decided(q) /\ t \notin DOMAIN q.deferred
         THEN [p EXCEPT !.outrightfail = @ \cup {t}]
         ELSE p

Without(f, t) == [x \in DOMAIN f \ {t} |-> f[x]]

\* Mutant: those that waited for t go on together
AllDeferred(q, t, valid) ==
  [q EXCEPT !.deferred = [x \in {x \in DOMAIN @ : @[x] # t} |-> @[x]]]

\* task_completeoutright lets one task that waited for t go on, and the others
\* wait for that one
NextDeferred(q, t, valid) ==
  LET W == {x \in DOMAIN q.deferred : q.deferred[x] = t}
      found == CHOOSE x \in W : \A y \in W : x <= y
      rest == [x \in DOMAIN q.deferred \ {found} |->
                 IF q.deferred[x] = t THEN found ELSE q.deferred[x]]
  IN  IF W = {} THEN q ELSE update_scenequeue_data([q EXCEPT !.deferred = rest], found, valid)

-----------------------------------------------------------------------------
(* RunQueueExecute.__init__, and the start of _execute_runqueue *)

\* The setscene queue before any stamp is looked at
EmptyScene ==
  [buildable |-> {s \in Setscene : sqdata.revdeps[s] = {}},
   running |-> {}, live |-> {}, covered |-> {}, notcovered |-> {},
   done |-> sqdata.unskippable \ Setscene, deferred |-> sqdata.deferred,
   needed_harddeps |-> {}, harddeferred |-> {}, outrightfail |-> {}, need_update |-> TRUE]

\* Those that are found done are skipped, those not available will fail outright
InitialScene(valid) ==
  LET P == {s \in Setscene : Present(s)} IN
    scenequeue_updatecounters(
      [EmptyScene EXCEPT
         !.running = P, !.covered = P, !.buildable = @ \cup P,
         !.outrightfail = Setscene \ (P \cup valid \cup DOMAIN sqdata.deferred)], P)

Init ==
  /\ rqdata \in Builds
  /\ sqdata = build_scenequeue_data(rqdata)
  /\ state = "running" /\ inpass = FALSE
  /\ \E valid \in SUBSET Setscene : sq = InitialScene(valid)
  /\ runq_buildable = {t \in sqdata.unskippable \ Setscene : depends(t) = {}}
  /\ runq_running = {} /\ runq_complete = {} /\ runq_tasksrun = {}
  /\ tasks_covered = {} /\ holdoff_tasks = {}
  /\ sqdone = (Setscene = {})
  /\ tasks_notcovered = IF Setscene = {} THEN Tasks ELSE {}
  /\ active = 0 /\ executing = {} /\ failed_tids = {}
  /\ newstamps = {} /\ restored = {} /\ stopped = FALSE

-----------------------------------------------------------------------------
(* The queue of tasks *)

Live == sq.live
\* Mutant: one too many
can_start_one_more == active + Cardinality(Live) <= rqdata.threads

can_start_task == active + Cardinality(Live) < rqdata.threads

\* check_stamp_task: the stamp is there, and not older than those of the same recipe
StampCurrent(t) ==
  /\ t \in rqdata.stamps
  /\ \A d \in depends(t) : rqdata.fn[d] = rqdata.fn[t] =>
       d \notin newstamps /\ d \in rqdata.stamps \cup rqdata.sstamps \cup restored

\* Tasks that are buildable once those of done are complete
Ready(S, done) == {u \in S : depends(u) \subseteq done}

\* update_holdofftasks: what is covered and what is not, as far as it is known
NotCovered ==
  (sq.notcovered \cup (rqdata.targets \ Setscene)
     \cup (UNION {sqdata.covered_tasks[s] : s \in sq.notcovered})
     \cup (sqdata.unskippable \ Setscene)) \cap sq.done

\* Mutant: what one setscene task covers is covered, whoever else needs it
CoveredByOne == sq.covered \cup (UNION {sqdata.covered_tasks[s] : s \in sq.covered})

Covered ==
  ((sq.covered \cup (UNION {sqdata.covered_tasks[s] : s \in sq.covered})) \ NotCovered) \cap sq.done

Undecided == Setscene \ Decided(sq)

\* Undecided setscene tasks hold off what they would cover
Holdoff ==
  Undecided \cup ((UNION {sqdata.covered_tasks[s] : s \in Undecided}) \ runq_complete)

\* What the pass goes on with, updated when an answer or a decision called for it
Cov  == IF sq.need_update THEN Covered ELSE tasks_covered
NCov == IF sq.need_update THEN NotCovered ELSE tasks_notcovered
Hold == IF sq.need_update THEN Holdoff ELSE holdoff_tasks
Buildable == runq_buildable \cup IF sq.need_update THEN Ready(Cov \cup NCov, runq_complete) ELSE {}

-----------------------------------------------------------------------------
(* Answers of the workers: runqueue_process_waitpid *)

\* An answer is read between two passes, or at the head of one that then goes on
Reading ==
  /\ state \in {"running", "cleanup"}
  /\ inpass' = inpass \/ (inpass' = TRUE /\ state = "running")

Restored(t) ==
  /\ Reading /\ t \in Live
  /\ sq' = sq_task_skip([sq EXCEPT !.live = @ \ {t}], t)
  /\ restored' = restored \cup {t}
  /\ UNCHANGED <<rqdata, sqdata, state, runq, cover, work, stopped>>

\* sq_task_fail, with sq_check_taskfail
NotRestored(t) ==
  /\ Reading /\ t \in Live
  /\ sq' = sq_task_failoutright([sq EXCEPT !.live = @ \ {t}], t)
  /\ state' = IF rqdata.enforce /\ t \notin rqdata.ignored THEN "cleanup" ELSE state
  /\ UNCHANGED <<rqdata, sqdata, runq, cover, work, restored, stopped>>

\* task_completeoutright: what waited only for t becomes buildable
task_completeoutright(t) ==
  /\ runq_complete' = runq_complete \cup {t}
  /\ runq_buildable' = Buildable \cup {t} \cup Ready(revdeps(t), runq_complete \cup {t})

\* The stamp of a task that was carried out, unless it was a dry run
Stamped(t) == newstamps' = IF rqdata.enforce THEN newstamps ELSE newstamps \cup {t}

task_complete(t) ==
  /\ Reading /\ t \in executing
  /\ executing' = executing \ {t}
  /\ active' = active - 1
  /\ runq_complete' = runq_complete \cup {t}
  /\ runq_buildable' = runq_buildable \cup Ready(revdeps(t), runq_complete \cup {t})
  /\ \E valid \in BOOLEAN : sq' = NextDeferred(sq, t, valid)
  /\ runq_tasksrun' = runq_tasksrun \cup {t}
  /\ Stamped(t)
  /\ UNCHANGED <<rqdata, sqdata, state, runq_running, cover, failed_tids, restored, stopped>>

\* Whether a failure ends the build
Halted == IF rqdata.halt THEN "cleanup" ELSE state

\* Mutant: the worker's place is not given back
FailedStillActive(t) ==
  /\ Reading /\ t \in executing
  /\ executing' = executing \ {t}
  /\ failed_tids' = failed_tids \cup {t}
  /\ state' = Halted
  /\ UNCHANGED <<rqdata, sqdata, active, sq, runq, cover, newstamps, restored, stopped>>

task_fail(t) ==
  /\ Reading /\ t \in executing
  /\ executing' = executing \ {t}
  /\ active' = active - 1
  /\ failed_tids' = failed_tids \cup {t}
  /\ state' = Halted
  /\ UNCHANGED <<rqdata, sqdata, sq, runq, cover, newstamps, restored, stopped>>

-----------------------------------------------------------------------------
(* A pass of execute() after the answers have been read: the setscene part *)

Choosing == (state = "running" \/ inpass) /\ inpass' = FALSE

SceneTurn == ~sqdone /\ can_start_task

\* Mutant: a setscene task that failed may be started again
CandidatesAgain ==
  {t \in sq.buildable \ (sq.live \cup sq.covered \cup sq.harddeferred \cup executing) :
     t \in DOMAIN sq.deferred => sq.deferred[t] \in runq_complete}

Candidates ==
  {t \in sq.buildable \ (sq.running \cup sq.harddeferred \cup executing) :
     t \in DOMAIN sq.deferred => sq.deferred[t] \in runq_complete}

\* Nothing that will be run needs t
NotNeeded(t) ==
  /\ t \notin sqdata.unskippable \cup sq.needed_harddeps \cup rqdata.targets
  /\ sqdata.revdeps[t] # {} /\ sqdata.revdeps[t] \subseteq sq.covered
  /\ t \in rqdata.depvalid

WaitsForHard(t) == ~NotNeeded(t) /\ ~(rqdata.harddeps[t] \subseteq Decided(sq))

\* The loop goes past those that wait for hard dependencies already asked for
PassedOver ==
  IF SceneTurn
  THEN {t \in Candidates : WaitsForHard(t) /\ rqdata.harddeps[t] \subseteq sq.needed_harddeps}
  ELSE {}

\* The records the loop may have made of sq before it stops
Passing == {[sq EXCEPT !.harddeferred = @ \cup D] : D \in SUBSET PassedOver}

Stops(t) == Choosing /\ SceneTurn /\ t \in Candidates \ PassedOver

OnlyScene == UNCHANGED <<rqdata, sqdata, state, runq, cover, work, restored, stopped>>

SkipNotNeeded(t) ==
  /\ Stops(t) /\ NotNeeded(t)
  /\ \E q \in Passing : sq' = sq_task_skip([q EXCEPT !.deferred = Without(@, t)], t)
  /\ OnlyScene

AskForHard(t) ==
  /\ Stops(t) /\ WaitsForHard(t)
  /\ \E q \in Passing :
       sq' = [q EXCEPT !.buildable = @ \cup rqdata.harddeps[t],
                       !.needed_harddeps = @ \cup rqdata.harddeps[t],
                       !.harddeferred = @ \cup {t}]
  /\ OnlyScene

Chosen(t) == Stops(t) /\ ~NotNeeded(t) /\ ~WaitsForHard(t)

\* Not there, not wanted, or no longer deferred and still not there
FailNow(t) ==
  /\ Chosen(t)
  /\ \/ t \in sq.outrightfail \cup DOMAIN sq.deferred
     \/ rqdata.force /\ t \in rqdata.targets
     \/ rqdata.skipsetscene
  /\ \E q \in Passing : sq' = sq_task_failoutright([q EXCEPT !.deferred = Without(@, t)], t)
  /\ OnlyScene

\* With the last free thread taken the same pass goes on to update the hold-off;
\* nothing reads that before the next pass, which does it here.
StartScene(t) ==
  /\ Chosen(t)
  /\ t \notin sq.outrightfail /\ ~(rqdata.force /\ t \in rqdata.targets) /\ ~rqdata.skipsetscene
  /\ \E q \in Passing :
       sq' = [q EXCEPT !.deferred = Without(@, t), !.running = @ \cup {t}, !.live = @ \cup {t}]
  /\ OnlyScene

-----------------------------------------------------------------------------
(* The rest of the pass: the tasks *)

\* update_holdofftasks
Updated ==
  /\ tasks_covered' = Cov /\ tasks_notcovered' = NCov /\ holdoff_tasks' = Hold

SceneSettled == Live = {} /\ ~sqdone /\ DOMAIN sq.deferred = {} /\ Hold = {}

\* summarise_scenequeue_errors
SceneErrors ==
  \/ DOMAIN sq.deferred # {} \/ Hold # {}
  \/ ~(Setscene \subseteq Decided(sq) \cap sq.buildable \cap sq.running)
  \/ ~(Tasks \subseteq (Cov \cup NCov) \cap sq.done)
  \/ \E t \in Tasks : depends(t) = {} /\ t \notin Buildable

\* No setscene task to stop at
TaskTurn ==
  /\ Choosing
  /\ SceneTurn => Candidates \subseteq PassedOver
  /\ Updated

Sq == [sq EXCEPT !.harddeferred = @ \cup PassedOver, !.need_update = FALSE]

SceneEnds ==
  /\ TaskTurn /\ SceneSettled
  /\ SceneErrors \/ rqdata.setsceneonly
  /\ state' = IF SceneErrors THEN "failed" ELSE "complete"
  /\ sq' = Sq /\ runq_buildable' = Buildable
  /\ UNCHANGED <<rqdata, sqdata, runq_running, runq_complete, runq_tasksrun, sqdone, work, restored, stopped>>

\* The pass reaches the scheduler
Scheduling ==
  /\ TaskTurn
  /\ SceneSettled => ~SceneErrors /\ ~rqdata.setsceneonly
  /\ sqdone' = (sqdone \/ SceneSettled)
  /\ UNCHANGED <<rqdata, sqdata, restored, stopped>>

\* The task of a limited name is not chosen while another of that name has
\* started and is not complete
NameFree(t) ==
  \A r \in runq_running \ runq_complete :
    ~(rqdata.name[r] = rqdata.name[t] /\ rqdata.name[t] \in rqdata.limited)

\* next_buildable_task, whatever the priorities
Eligible ==
  IF rqdata.setsceneonly \/ ~can_start_task THEN {}
  ELSE {t \in ((Buildable \ runq_running) \ Hold) \cap (Cov \cup NCov) : NameFree(t)}

\* check_setscene_ignore_tasks
Unexpected(t) ==
  /\ rqdata.enforce /\ t \notin rqdata.ignored
  /\ t \notin Cov \cup rqdata.noexec /\ ~StampCurrent(t)

FailUnexpected(t) ==
  /\ Unexpected(t)
  /\ active' = active - 1
  /\ failed_tids' = failed_tids \cup {t}
  /\ state' = Halted
  /\ sq' = Sq /\ runq_buildable' = Buildable
  /\ UNCHANGED <<runq_running, runq_complete, runq_tasksrun, executing, newstamps>>

\* Complete without a worker: covered, existing or nothing to run
CompleteNow(t) ==
  /\ runq_running' = runq_running \cup {t}
  /\ task_completeoutright(t)
  /\ \E valid \in BOOLEAN : sq' = NextDeferred(Sq, t, valid)
  /\ UNCHANGED <<state, active, executing, failed_tids>>

\* task_skip
SkipTask(t) ==
  /\ ~Unexpected(t)
  /\ t \in Cov \/ StampCurrent(t)
  /\ CompleteNow(t)
  /\ runq_tasksrun' = IF t \in Cov THEN runq_tasksrun ELSE runq_tasksrun \cup {t}
  /\ UNCHANGED newstamps

RunNoexec(t) ==
  /\ t \in rqdata.noexec \ Cov /\ ~StampCurrent(t)
  /\ CompleteNow(t)
  /\ runq_tasksrun' = runq_tasksrun \cup {t}
  /\ Stamped(t)

StartTask(t) ==
  /\ ~Unexpected(t)
  /\ t \notin Cov \cup rqdata.noexec /\ ~StampCurrent(t)
  /\ runq_running' = runq_running \cup {t}
  /\ executing' = executing \cup {t}
  /\ active' = active + 1
  /\ sq' = Sq /\ runq_buildable' = Buildable
  /\ UNCHANGED <<state, runq_complete, runq_tasksrun, failed_tids, newstamps>>

\* No task to start: none can be, or the machine is under pressure
NoTask ==
  /\ Eligible = {} \/ active > 0
  /\ runq_buildable' = Buildable
  /\ UNCHANGED <<runq_running, runq_complete, runq_tasksrun, work>>

Wait ==
  /\ NoTask /\ (active > 0 \/ Live # {})
  /\ sq' = Sq
  /\ UNCHANGED state

Idle == NoTask /\ ~(active > 0 \/ Live # {})

\* Deadlocked on a deferred task: one of them is let go on
ForceDeferred(t) ==
  /\ Idle /\ t \in DOMAIN sq.deferred
  /\ sq' = [Sq EXCEPT !.deferred = Without(@, t)]
  /\ UNCHANGED state

EndBuild ==
  /\ Idle /\ DOMAIN sq.deferred = {}
  /\ sq' = Sq
  /\ state' = IF \/ failed_tids # {} \/ SceneErrors
                 \/ ~(Tasks \subseteq Buildable \cap runq_running \cap runq_complete)
              THEN "failed" ELSE "complete"

-----------------------------------------------------------------------------
(* Ends that are asked for *)

Ended == IF failed_tids # {} THEN "failed" ELSE "complete"

\* The user stops the build: finish_runqueue, finish
Stop ==
  /\ state = "running" /\ ~inpass
  /\ state' = "cleanup" /\ stopped' = TRUE
  /\ UNCHANGED <<rqdata, sqdata, inpass, sq, runq, cover, work, restored>>

\* finish_now
StopNow ==
  /\ state \in {"running", "cleanup"} /\ ~inpass
  /\ state' = Ended /\ stopped' = TRUE
  /\ UNCHANGED <<rqdata, sqdata, inpass, sq, runq, cover, work, restored>>

\* finish, once no worker runs anything
Finish ==
  /\ state = "cleanup" /\ ~inpass
  /\ active + Cardinality(Live) <= 0
  /\ state' = Ended
  /\ UNCHANGED <<rqdata, sqdata, inpass, sq, runq, cover, work, restored, stopped>>

Over == state \in {"complete", "failed"} /\ ~inpass /\ UNCHANGED vars

-----------------------------------------------------------------------------
Answers(t) == Restored(t) \/ NotRestored(t) \/ task_complete(t) \/ task_fail(t)

ScenePart(t) == SkipNotNeeded(t) \/ AskForHard(t) \/ FailNow(t) \/ StartScene(t)

TaskPart(t) == SkipTask(t) \/ RunNoexec(t) \/ StartTask(t) \/ FailUnexpected(t)

Schedule ==
  /\ Scheduling
  /\ \/ \E t \in Eligible : TaskPart(t)
     \/ \E t \in Setscene : ForceDeferred(t)
     \/ Wait \/ EndBuild

\* One call of execute() from where the answers have been read
Pass == (\E t \in Candidates : ScenePart(t)) \/ SceneEnds \/ Schedule

Next == Pass \/ (\E t \in Tasks : Answers(t)) \/ Stop \/ StopNow \/ Finish \/ Over

(* The server calls execute() as long as there is something to do, and when  *)
(* a pass can only wait, some worker answers in the end.                     *)
Progress == Pass \/ Finish \/ \E t \in Tasks : Answers(t)
Fairness == WF_vars(Progress)

Spec == Init /\ [][Next]_vars /\ Fairness

-----------------------------------------------------------------------------
Deferrals == UNION {[S -> Setscene] : S \in SUBSET Setscene}

SQType ==
  [buildable : SUBSET Setscene, running : SUBSET Setscene, live : SUBSET Setscene,
   covered : SUBSET Setscene, notcovered : SUBSET Setscene, done : SUBSET Tasks,
   deferred : Deferrals, needed_harddeps : SUBSET Setscene, harddeferred : SUBSET Setscene,
   outrightfail : SUBSET Setscene, need_update : BOOLEAN]

SQDataType ==
  /\ DOMAIN sqdata = {"covered_tasks", "revdeps", "unskippable", "deferred"}
  /\ sqdata.covered_tasks \in [Setscene -> SUBSET (Tasks \ Setscene)]
  /\ sqdata.revdeps \in [Setscene -> SUBSET Setscene]
  /\ sqdata.unskippable \subseteq Tasks
  /\ sqdata.deferred \in Deferrals

TypeOK ==
  /\ rqdata \in Builds
  /\ SQDataType
  /\ state \in {"running", "cleanup", "complete", "failed"}
  /\ inpass \in BOOLEAN /\ sqdone \in BOOLEAN /\ stopped \in BOOLEAN
  /\ sq \in SQType
  /\ runq_buildable \subseteq Tasks /\ runq_running \subseteq Tasks
  /\ runq_complete \subseteq Tasks /\ runq_tasksrun \subseteq Tasks
  /\ tasks_covered \subseteq Tasks /\ tasks_notcovered \subseteq Tasks /\ holdoff_tasks \subseteq Tasks
  /\ executing \subseteq Tasks /\ failed_tids \subseteq Tasks /\ newstamps \subseteq Tasks
  /\ restored \subseteq Setscene
  /\ active \in Int

(* A task is run only when everything it depends on is there: carried out in *)
(* this build or an earlier one, or restored; never merely covered by a      *)
(* setscene task that did not bring it.                                      *)
OutputsThere ==
  \A t \in executing : \A d \in depends(t) :
    d \in runq_complete /\ (d \in runq_tasksrun \cup restored \/ (d \in Setscene /\ Present(d)))

(* A setscene task is restored only upon those it needs, and these are       *)
(* restored or found, unless the graph does not show the need: then one may  *)
(* have been skipped as needless before.                                     *)
HardDepsThere ==
  \A s \in Live : \A h \in rqdata.harddeps[s] :
    h \in sq.covered /\ (s \in sqdata.revdeps[h] => h \in restored \/ Present(h))

(* The same of every need, the hidden ones included.  Not true of the code:  *)
(* RunQueueHidden.cfg.                                                       *)
HardDepsRestored ==
  \A s \in Live : \A h \in rqdata.harddeps[s] : h \in restored \/ Present(h)

(* stats.active counts the tasks the workers run, and with the setscene      *)
(* tasks they never exceed BB_NUMBER_THREADS.                                *)
ActiveCounts ==
  ~rqdata.enforce =>
    /\ active = Cardinality(executing)
    /\ Cardinality(executing) + Cardinality(Live) <= rqdata.threads

(* "No task should end up in both covered and uncovered": neither in the     *)
(* setscene queue nor in what the tasks are chosen by.                       *)
CoveredOrNot ==
  /\ sq.covered \cap sq.notcovered = {}
  /\ tasks_covered \cap tasks_notcovered = {}
  /\ Live \cap Decided(sq) = {}

(* A setscene task and a task it may cover are never worked on together.     *)
CoveredTasksWait ==
  \A s \in Live : sqdata.covered_tasks[s] \cap executing = {} /\ s \notin runq_running

(* Two setscene tasks of one hash, or the tasks themselves, are never worked *)
(* on together ("prone to races").                                           *)
DuplicatesApart ==
  \A s, r \in Setscene :
    s # r /\ rqdata.hash[s] = rqdata.hash[r] => ~({s, r} \subseteq executing \cup Live)

\* Tasks that cannot be built: the failed ones and what depends on them
Lost == Closure(Tasks, failed_tids, revdeps)

(* What the code takes for granted of a build: no circle of setscene tasks   *)
(* that need each other's outputs (calculate_task_weights looks at the tasks *)
(* alone), and with --setscene-only at least one setscene task.              *)
Sound ==
  \A b \in Builds : Acyclic(b.setscene, b.harddeps) /\ (b.setsceneonly => b.setscene # {})

(* A build that nobody stops ends well when nothing has failed, and only     *)
(* then; going on after a failure (-k), it completes whatever does not depend*)
(* on a failed task, unless a limited name was left taken by the failed one. *)
(* The sanity checks at the end never strike.                                *)
AllThatCanBe ==
  state \in {"complete", "failed"} /\ ~stopped /\ ~rqdata.enforce =>
    /\ state = "complete" <=> failed_tids = {}
    /\ ~rqdata.setsceneonly /\ (failed_tids = {} \/ (~rqdata.halt /\ rqdata.limited = {}))
       => Tasks \ Lost \subseteq runq_complete

-----------------------------------------------------------------------------
(* The queue implements a build's order: what has become of a task, and of a *)
(* setscene variant.                                                         *)

Asked == [tasks |-> Tasks, depends |-> rqdata.depends, setscene |-> Setscene,
          harddeps |-> rqdata.harddeps, covers |-> sqdata.covered_tasks, users |-> sqdata.revdeps]

TaskLife(t) ==
  CASE t \in executing     -> "running"
    [] t \in failed_tids   -> "failed"
    [] t \in runq_complete -> IF t \in runq_tasksrun THEN "built" ELSE "skipped"
    [] OTHER               -> "waiting"

VariantLife(s) ==
  CASE s \in Live          -> "restoring"
    [] s \in sq.notcovered -> "refused"
    [] s \in sq.covered    -> IF s \in restored \/ Present(s) THEN "there" ELSE "needless"
    [] OTHER               -> "open"

TaskLives == [t \in Tasks |-> TaskLife(t)]
VariantLives == [s \in Setscene |-> VariantLife(s)]

Order == INSTANCE BuildOrder WITH build <- Asked, task <- TaskLives, variant <- VariantLives

(* Every step of the queue is one of the order's, or changes nothing of it:  *)
(* no task is carried out, or variant restored, twice or out of turn, and    *)
(* what is decided of either is final.                                       *)
ImplementsBuildOrder == Order!Spec

(* A build comes to an end.                                                  *)
BuildEnds == <>(state \in {"complete", "failed"})

=============================================================================
