------------------------- MODULE GstreamerController ------------------------
(***************************************************************************)
(* The car's video server: gstreamer_controller.cpp and the systemd unit   *)
(* that runs it.                                                           *)
(*                                                                         *)
(* Every invocation of gstreamer_controller is a process of its own, with  *)
(* gstreamer_pid = -1 at first; all that one invocation leaves to the next *)
(* is the gst-launch process it forked and the file that holds its PID.    *)
(* The unit (Restart=always, Type=simple) runs "start" again and again: it *)
(* returns as soon as it has forked, and KillMode=process leaves the child *)
(* alive.  An operator runs any command by hand.                           *)
(*                                                                         *)
(* A process that is not ours may have the PID in the file once our own    *)
(* has died.  The shell that execl starts is taken to replace itself by    *)
(* gst-launch, as it does for a single command.                            *)
(***************************************************************************)
EXTENDS Naturals

CONSTANTS
  Pids,                \* bound: the process numbers in play
  None,                \* gstreamer_pid = -1
  Overlap              \* two invocations may run at once

ASSUME PidsAssumption == None \notin Pids /\ "missing" \notin Pids /\ "empty" \notin Pids
ASSUME OverlapAssumption == Overlap \in BOOLEAN

Invokers == {"systemd", "operator"}

VARIABLES
  proc,                \* what runs under each PID
  camera,              \* environment: the camera can be opened
  pid_file,            \* /tmp/gstreamer_video.pid
  opened,              \* invocations whose open file is the one at that path
  pc, fn,              \* per invocation: where it is, in which method
  restarting,          \* "restart": startStreaming is still to come
  gstreamer_pid,       \* per invocation: its member variable
  mixed,               \* history: invocations that ran while another did
  unfiled              \* history: PIDs last forked by one of them, or by one
                       \* that could not open the PID file

history == <<mixed, unfiled>>
invocation == <<opened, pc, fn, restarting, gstreamer_pid, history>>
vars == <<proc, camera, pid_file, invocation>>

\* A gst-launch process that we forked; "told" has got a SIGTERM
Ours(p)   == proc[p] \in {"starting", "streaming", "told"}

\* Mutant: whatever the file names is taken to be alive
ExistsOnFile(p) == TRUE

\* kill(pid, 0) == 0
Exists(p) == proc[p] # "free"

\* Only one process can have the camera and the port
Busy(p)   == \E q \in Pids \ {p} : proc[q] \in {"streaming", "told"}

Init ==
  /\ proc = [p \in Pids |-> "free"]
  /\ camera = TRUE
  /\ pid_file = "missing"
  /\ opened = {}
  /\ pc = [i \in Invokers |-> "idle"]
  /\ fn = [i \in Invokers |-> "none"]
  /\ restarting = [i \in Invokers |-> FALSE]
  /\ gstreamer_pid = [i \in Invokers |-> None]
  /\ mixed = {} /\ unfiled = {}

-----------------------------------------------------------------------------
(* Where an invocation goes on *)

Goto(i, label) == pc' = [pc EXCEPT ![i] = label]

\* The method returns: the process exits, or "restart" goes on
Return(i) ==
  /\ Goto(i, IF restarting[i] THEN "read" ELSE "idle")
  /\ fn' = [fn EXCEPT ![i] = IF restarting[i] THEN "startStreaming" ELSE "none"]
  /\ restarting' = [restarting EXCEPT ![i] = FALSE]

\* isStreaming() has returned to the method that called it
Streaming(i) ==
  \/ fn[i] = "stopStreaming" /\ Goto(i, "terminate") /\ UNCHANGED <<fn, restarting>>
  \/ fn[i] # "stopStreaming" /\ Return(i)

NotStreaming(i) ==
  \/ fn[i] = "startStreaming" /\ Goto(i, "fork") /\ UNCHANGED <<fn, restarting>>
  \/ fn[i] # "startStreaming" /\ Return(i)

(* main() *)
MethodOf(command) ==
  CASE command = "start"  -> "startStreaming"
    [] command = "status" -> "getStatus"
    [] OTHER              -> "stopStreaming"

\* Invocations that are under way, and those that have yet to file their PID
Running == {j \in Invokers : pc[j] # "idle"}
Filing  == {j \in Invokers : pc[j] \in {"open", "write"}}

Meets(i) ==
  /\ mixed' = IF Running = {} THEN {} ELSE Running \cup {i}
  /\ unfiled' = unfiled \cup {gstreamer_pid[j] : j \in Filing}

Invoke(i, command) ==
  /\ pc[i] = "idle"
  /\ Overlap \/ Running = {}
  /\ Goto(i, "read")
  /\ fn' = [fn EXCEPT ![i] = MethodOf(command)]
  /\ restarting' = [restarting EXCEPT ![i] = command = "restart"]
  /\ gstreamer_pid' = [gstreamer_pid EXCEPT ![i] = None]
  /\ Meets(i)
  /\ UNCHANGED <<proc, camera, pid_file, opened>>

(* isStreaming *)

\* An empty file reads as 0, which is no PID either
ReadPidFile(i) ==
  /\ pc[i] = "read"
  /\ gstreamer_pid' = [gstreamer_pid EXCEPT
       ![i] = IF @ = None /\ pid_file \in Pids THEN pid_file ELSE @]
  /\ Goto(i, "probe")
  /\ UNCHANGED <<proc, camera, pid_file, opened, fn, restarting, history>>

Probe(i) ==
  /\ pc[i] = "probe"
  /\ LET pid == gstreamer_pid[i]
     IN  \/ pid = None /\ NotStreaming(i) /\ UNCHANGED gstreamer_pid
         \/ pid \in Pids /\ Exists(pid) /\ Streaming(i) /\ UNCHANGED gstreamer_pid
         \/ /\ pid \in Pids /\ ~Exists(pid)
            /\ Goto(i, "forget")
            /\ gstreamer_pid' = [gstreamer_pid EXCEPT ![i] = None]
            /\ UNCHANGED <<fn, restarting>>
  /\ UNCHANGED <<proc, camera, pid_file, opened, history>>

UnlinkPidFile == pid_file' = "missing" /\ opened' = {}

\* The file names a process that is gone
Forget(i) ==
  /\ pc[i] = "forget"
  /\ UnlinkPidFile
  /\ NotStreaming(i)
  /\ UNCHANGED <<proc, camera, gstreamer_pid, history>>

(* startStreaming *)

\* Mutant: the return value -1 of fork is taken for a PID
ForkFailsUnnoticed(i) == Goto(i, "open") /\ UNCHANGED <<fn, restarting>>

ForkFails(i) == Return(i)

Fork(i) ==
  /\ pc[i] = "fork"
  /\ \/ \E p \in Pids :
          /\ proc[p] = "free"
          /\ proc' = [proc EXCEPT ![p] = "starting"]
          /\ gstreamer_pid' = [gstreamer_pid EXCEPT ![i] = p]
          /\ unfiled' = IF i \in mixed THEN unfiled \cup {p} ELSE unfiled \ {p}
          /\ Goto(i, "open")
          /\ UNCHANGED <<fn, restarting>>
     \/ /\ \A p \in Pids : Exists(p)
        /\ ForkFails(i)
        /\ UNCHANGED <<proc, gstreamer_pid, unfiled>>
  /\ UNCHANGED <<camera, pid_file, opened, mixed>>

\* std::ofstream truncates the file when it opens it
OpenPidFile(i) ==
  /\ pc[i] = "open"
  /\ pid_file' = "empty"
  /\ opened' = opened \cup {i}
  /\ Goto(i, "write")
  /\ UNCHANGED <<proc, camera, fn, restarting, gstreamer_pid, history>>

\* The file cannot be opened: startStreaming says nothing and returns true
CannotOpenPidFile(i) ==
  /\ pc[i] = "open"
  /\ Return(i)
  /\ unfiled' = unfiled \cup {gstreamer_pid[i]}
  /\ UNCHANGED <<proc, camera, pid_file, opened, gstreamer_pid, mixed>>

\* What is written to a file that has been unlinked meanwhile is lost
WritePidFile(i) ==
  /\ pc[i] = "write"
  /\ pid_file' = IF i \in opened THEN gstreamer_pid[i] ELSE pid_file
  /\ opened' = opened \ {i}
  /\ Return(i)
  /\ UNCHANGED <<proc, camera, gstreamer_pid, history>>

(* stopStreaming *)

\* kill(pid, SIGTERM); what another program does with it is its own affair
Terminate(i) ==
  /\ pc[i] = "terminate"
  /\ LET pid == gstreamer_pid[i]
     IN  \/ /\ Exists(pid)
            /\ proc' = IF Ours(pid) THEN [proc EXCEPT ![pid] = "told"] ELSE proc
            /\ Goto(i, "wait")
            /\ UNCHANGED <<fn, restarting>>
         \/ ~Exists(pid) /\ Return(i) /\ UNCHANGED proc
  /\ UNCHANGED <<camera, pid_file, opened, gstreamer_pid, history>>

\* The process is no child of this one: waitpid never reports it, and the
\* loop lasts its 5 seconds
Wait(i) ==
  /\ pc[i] = "wait"
  /\ Goto(i, "force")
  /\ UNCHANGED <<proc, camera, pid_file, opened, fn, restarting, gstreamer_pid, history>>

\* Mutant: a process that SIGTERM did not end is left alone
ForceNothing(pid) == UNCHANGED proc

ForceKill(pid) == proc' = [proc EXCEPT ![pid] = "free"]

SendKill(i) ==
  /\ pc[i] = "force"
  /\ ForceKill(gstreamer_pid[i])
  /\ gstreamer_pid' = [gstreamer_pid EXCEPT ![i] = None]
  /\ Goto(i, "unlink")
  /\ UNCHANGED <<camera, pid_file, opened, fn, restarting, history>>

Unlink(i) ==
  /\ pc[i] = "unlink"
  /\ UnlinkPidFile
  /\ Return(i)
  /\ UNCHANGED <<proc, camera, gstreamer_pid, history>>

-----------------------------------------------------------------------------
(* The other processes *)

\* gst-launch opens camera and port, or fails and exits
GstOpens(p) ==
  /\ proc[p] = "starting"
  /\ proc' = [proc EXCEPT ![p] = IF camera /\ ~Busy(p) THEN "streaming" ELSE "free"]
  /\ UNCHANGED <<camera, pid_file, invocation>>

\* gst-launch fails, or obeys the SIGTERM
GstEnds(p) ==
  /\ proc[p] \in {"streaming", "told"}
  /\ proc' = [proc EXCEPT ![p] = "free"]
  /\ UNCHANGED <<camera, pid_file, invocation>>

OtherProgram(p) ==
  /\ \/ proc[p] = "free" /\ proc' = [proc EXCEPT ![p] = "other"]
     \/ proc[p] = "other" /\ proc' = [proc EXCEPT ![p] = "free"]
  /\ UNCHANGED <<camera, pid_file, invocation>>

CameraChange == camera' = ~camera /\ UNCHANGED <<proc, pid_file, invocation>>

\* Restart=always
systemd == Invoke("systemd", "start")

operator == \E command \in {"start", "stop", "restart", "status"} : Invoke("operator", command)

Step(i) ==
  \/ ReadPidFile(i) \/ Probe(i) \/ Forget(i)
  \/ Fork(i) \/ OpenPidFile(i) \/ CannotOpenPidFile(i) \/ WritePidFile(i)
  \/ Terminate(i) \/ Wait(i) \/ SendKill(i) \/ Unlink(i)

Next ==
  \/ systemd
  \/ operator
  \/ \E i \in Invokers : Step(i)
  \/ \E p \in Pids : GstOpens(p) \/ GstEnds(p) \/ OtherProgram(p)
  \/ CameraChange

\* systemd starts the unit again, and a process that can run does
Fairness ==
  /\ WF_vars(systemd)
  /\ \A i \in Invokers : WF_vars(Step(i))
  /\ \A p \in Pids : WF_vars(GstOpens(p))

Spec == Init /\ [][Next]_vars /\ Fairness
-----------------------------------------------------------------------------
Methods == {"none", "startStreaming", "stopStreaming", "getStatus"}
Labels  == {"idle", "read", "probe", "forget", "fork", "open", "write",
            "terminate", "wait", "force", "unlink"}

TypeOK ==
  /\ proc \in [Pids -> {"free", "starting", "streaming", "told", "other"}]
  /\ camera \in BOOLEAN
  /\ pid_file \in Pids \cup {"missing", "empty"}
  /\ opened \subseteq Invokers
  /\ pc \in [Invokers -> Labels]
  /\ fn \in [Invokers -> Methods]
  /\ restarting \in [Invokers -> BOOLEAN]
  /\ gstreamer_pid \in [Invokers -> Pids \cup {None}]
  /\ mixed \subseteq Invokers
  /\ unfiled \subseteq Pids

Quiet == Running = {}

\* "Save PID to file": a gst-launch that an invocation running alone has
\* started and filed stays the one the file names for as long as it lives,
\* over failures, reused PIDs, processes that ignore SIGTERM, any number of
\* later invocations that overlap, and streams left over from those that
\* overlapped or could not open the file.  Otherwise "stop" finds nothing to
\* stop, and every "start" forks one more process that cannot open the camera.
PidFileNamesStream ==
  Quiet => \A p \in Pids \ unfiled : Ours(p) => pid_file = p

\* "stop      Stop video streaming": between invocations, the video that the
\* car streams is one that the next "stop" will find.
StopFindsStream ==
  Quiet => \A p \in Pids : proc[p] = "streaming" => pid_file = p

\* "Reiniciar si falla": while the camera works, the operator leaves the
\* controller alone and no other program has one of the PIDs, the car streams
\* again and again, however often gst-launch fails.
StreamComesBack ==
  <>[](camera /\ pc["operator"] = "idle" /\ \A p \in Pids : proc[p] # "other")
    => []<>(\E p \in Pids : proc[p] = "streaming")
=============================================================================
