------------------------------ MODULE BuildOrder ------------------------------
(***************************************************************************)
(* What a build promises of each task and of its setscene variant,         *)
(* whatever the order in which the queue gets to them.  Neither ever goes  *)
(* back: a task is carried out at most once and a variant restored at most *)
(* once, a task only upon outputs that are there, and only when every      *)
(* variant that might make it needless has been settled.                   *)
(***************************************************************************)
VARIABLES
  build,      \* tasks, depends; setscene, harddeps, what each variant covers, who uses it
  task,       \* per task: "waiting", "running", "built", "skipped" or "failed"
  variant     \* per variant: "open", "restoring", "there", "needless" or "refused"

vars == <<build, task, variant>>

Init ==
  /\ task = [t \in build.tasks |-> "waiting"]
  /\ variant \in [build.setscene -> {"open", "there"}]      \* some are found

-----------------------------------------------------------------------------
Covering(t) == {s \in build.setscene : t = s \/ t \in build.covers[s]}

Restorable(s) == variant[s] \in {"there", "needless"}

Output(d) == task[d] = "built" \/ (d \in build.setscene /\ variant[d] = "there")

\* It is a task's turn
Ready(t) ==
  /\ task[t] = "waiting"
  /\ \A d \in build.depends[t] : task[d] \in {"built", "skipped"}
  /\ \A s \in Covering(t) : variant[s] \notin {"open", "restoring"}

Become(t, life) == task' = [task EXCEPT ![t] = life] /\ UNCHANGED <<build, variant>>

Start(t) ==
  /\ Ready(t) /\ \A d \in build.depends[t] : Output(d)
  /\ t \in build.setscene => variant[t] = "refused"
  /\ Become(t, "running")

\* There is a stamp of an earlier build, or nothing to do
Find(t) == Ready(t) /\ Become(t, "built")

Skip(t) == Ready(t) /\ (\A s \in Covering(t) : Restorable(s)) /\ Become(t, "skipped")

Refuse(t) == Ready(t) /\ Become(t, "failed")

End(t) == task[t] = "running" /\ \E life \in {"built", "failed"} : Become(t, life)

-----------------------------------------------------------------------------
Change(s, life) == variant' = [variant EXCEPT ![s] = life] /\ UNCHANGED <<build, task>>

Restore(s) ==
  /\ variant[s] = "open" /\ \A h \in build.harddeps[s] : Restorable(h)
  /\ Change(s, "restoring")

Restored(s) == variant[s] = "restoring" /\ Change(s, "there")

\* Nothing that will be carried out uses it
Forgo(s) ==
  /\ variant[s] = "open" /\ build.users[s] # {} /\ \A u \in build.users[s] : Restorable(u)
  /\ Change(s, "needless")

\* A variant fails, and exactly those that cannot do without it or another of them
FailTogether(s, F) ==
  /\ s \in F /\ variant[s] \in {"open", "restoring"}
  /\ \A r \in F \ {s} : variant[r] = "open" /\ build.harddeps[r] \cap F # {}
  /\ \A r \in build.setscene \ F : variant[r] = "open" => build.harddeps[r] \cap F = {}
  /\ variant' = [r \in build.setscene |-> IF r \in F THEN "refused" ELSE variant[r]]
  /\ UNCHANGED <<build, task>>

-----------------------------------------------------------------------------
TaskStep(t) == Start(t) \/ Find(t) \/ Skip(t) \/ Refuse(t) \/ End(t)

VariantStep(s) ==
  Restore(s) \/ Restored(s) \/ Forgo(s) \/ \E F \in SUBSET build.setscene : FailTogether(s, F)

Next == (\E t \in build.tasks : TaskStep(t)) \/ (\E s \in build.setscene : VariantStep(s))

Spec == Init /\ [][Next]_vars
=============================================================================
