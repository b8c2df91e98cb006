--------------------- MODULE GstreamerController_proofs ---------------------
(***************************************************************************)
(* Type correctness of GstreamerController, and that the PID file names    *)
(* every living gst-launch that an invocation has filed undisturbed, both  *)
(* for any overlap of the invocations.                                     *)
(***************************************************************************)
EXTENDS GstreamerController, TLAPS

ControlOK == /\ pc \in [Invokers -> Labels]
             /\ fn \in [Invokers -> Methods]
             /\ restarting \in [Invokers -> BOOLEAN]

\* Wherever an invocation goes on, the bookkeeping keeps its types
LEMMA ReturnControl ==
  ASSUME ControlOK, NEW i \in Invokers, Return(i)
  PROVE  ControlOK'
BY DEF ControlOK, Return, Goto, Methods, Labels

LEMMA StreamingControl ==
  ASSUME ControlOK, NEW i \in Invokers, Streaming(i)
  PROVE  ControlOK'
<1>1. CASE Return(i)
  BY <1>1, ReturnControl
<1>2. CASE Goto(i, "terminate") /\ UNCHANGED <<fn, restarting>>
  BY <1>2 DEF ControlOK, Goto, Labels
<1> QED  BY <1>1, <1>2 DEF Streaming

LEMMA NotStreamingControl ==
  ASSUME ControlOK, NEW i \in Invokers, NotStreaming(i)
  PROVE  ControlOK'
<1>1. CASE Return(i)
  BY <1>1, ReturnControl
<1>2. CASE Goto(i, "fork") /\ UNCHANGED <<fn, restarting>>
  BY <1>2 DEF ControlOK, Goto, Labels
<1> QED  BY <1>1, <1>2 DEF NotStreaming

ProcessesOK == /\ proc \in [Pids -> {"free", "starting", "streaming", "told", "other"}]
               /\ camera \in BOOLEAN
               /\ pid_file \in Pids \cup {"missing", "empty"}
               /\ opened \subseteq Invokers
               /\ gstreamer_pid \in [Invokers -> Pids \cup {None}]
               /\ mixed \subseteq Invokers
               /\ unfiled \subseteq Pids

\* The file is only written with the PID of a child, and the calls of
\* stopStreaming are only reached with a PID
HasPid == \A i \in Invokers :
            pc[i] \in {"open", "write", "terminate", "wait", "force"} => gstreamer_pid[i] \in Pids

TInv == ControlOK /\ ProcessesOK /\ HasPid

LEMMA TypeFacts == TInv => TypeOK
BY DEF TInv, ControlOK, ProcessesOK, TypeOK

LEMMA ControlStep ==
  ASSUME TInv, NEW i \in Invokers, Step(i)
  PROVE  ControlOK'
<1> USE DEF TInv
<1>1. CASE ReadPidFile(i)  BY <1>1 DEF ReadPidFile, ControlOK, Goto, Labels
<1>2. CASE Probe(i)
  <2>1. CASE NotStreaming(i)  BY <2>1, NotStreamingControl
  <2>2. CASE Streaming(i)     BY <2>2, StreamingControl
  <2>3. CASE Goto(i, "forget") /\ UNCHANGED <<fn, restarting>>
    BY <2>3 DEF ControlOK, Goto, Labels
  <2> QED  BY <1>2, <2>1, <2>2, <2>3 DEF Probe
<1>3. CASE Forget(i)  BY <1>3, NotStreamingControl DEF Forget
<1>4. CASE Fork(i)
  <2>1. CASE Return(i)  BY <2>1, ReturnControl
  <2>2. CASE Goto(i, "open") /\ UNCHANGED <<fn, restarting>>
    BY <2>2 DEF ControlOK, Goto, Labels
  <2> QED  BY <1>4, <2>1, <2>2 DEF Fork, ForkFails
<1>5. CASE OpenPidFile(i)   BY <1>5 DEF OpenPidFile, ControlOK, Goto, Labels
<1>6. CASE CannotOpenPidFile(i) \/ WritePidFile(i)
  BY <1>6, ReturnControl DEF CannotOpenPidFile, WritePidFile
<1>7. CASE Terminate(i)
  <2>1. CASE Return(i)  BY <2>1, ReturnControl
  <2>2. CASE Goto(i, "wait") /\ UNCHANGED <<fn, restarting>>
    BY <2>2 DEF ControlOK, Goto, Labels
  <2> QED  BY <1>7, <2>1, <2>2 DEF Terminate
<1>8. CASE Wait(i)    BY <1>8 DEF Wait, ControlOK, Goto, Labels
<1>9. CASE SendKill(i)   BY <1>9 DEF SendKill, ControlOK, Goto, Labels
<1>10. CASE Unlink(i)  BY <1>10, ReturnControl DEF Unlink
<1> QED  BY <1>1, <1>2, <1>3, <1>4, <1>5, <1>6, <1>7, <1>8, <1>9, <1>10 DEF Step

LEMMA ProcessesStep ==
  ASSUME TInv, NEW i \in Invokers, Step(i)
  PROVE  ProcessesOK'
<1> USE DEF TInv
<1>1. CASE ReadPidFile(i)   BY <1>1 DEF ReadPidFile, ProcessesOK, history
<1>2. CASE Probe(i)         BY <1>2 DEF Probe, ProcessesOK, history
<1>3. CASE Forget(i)        BY <1>3 DEF Forget, UnlinkPidFile, ProcessesOK, history
<1>4. CASE Fork(i)          BY <1>4 DEF Fork, ProcessesOK
<1>5. CASE OpenPidFile(i)   BY <1>5 DEF OpenPidFile, ProcessesOK, history
<1>6. CASE CannotOpenPidFile(i) \/ WritePidFile(i)
  <2>1. gstreamer_pid[i] \in Pids  BY <1>6 DEF CannotOpenPidFile, WritePidFile, HasPid
  <2>2. CASE CannotOpenPidFile(i)  BY <2>1, <2>2 DEF CannotOpenPidFile, ProcessesOK
  <2>3. CASE WritePidFile(i)       BY <2>1, <2>3 DEF WritePidFile, ProcessesOK, history
  <2> QED  BY <1>6, <2>2, <2>3
<1>7. CASE Terminate(i)     BY <1>7 DEF Terminate, ProcessesOK, history
<1>8. CASE Wait(i)          BY <1>8 DEF Wait, ProcessesOK, history
<1>9. CASE SendKill(i)         BY <1>9 DEF SendKill, ForceKill, ProcessesOK, history
<1>10. CASE Unlink(i)       BY <1>10 DEF Unlink, UnlinkPidFile, ProcessesOK, history
<1> QED  BY <1>1, <1>2, <1>3, <1>4, <1>5, <1>6, <1>7, <1>8, <1>9, <1>10 DEF Step

\* A step of one invocation leaves the others where they are
LEMMA Elsewhere ==
  ASSUME TInv, NEW i \in Invokers, Step(i), NEW j \in Invokers \ {i}
  PROVE  pc'[j] = pc[j] /\ gstreamer_pid'[j] = gstreamer_pid[j]
<1> USE DEF TInv, ControlOK, ProcessesOK, Goto, Return
<1>1. CASE ReadPidFile(i)   BY <1>1 DEF ReadPidFile
<1>2. CASE Probe(i)         BY <1>2 DEF Probe, Streaming, NotStreaming
<1>3. CASE Forget(i)        BY <1>3 DEF Forget, NotStreaming
<1>4. CASE Fork(i)          BY <1>4 DEF Fork, ForkFails
<1>5. CASE OpenPidFile(i)   BY <1>5 DEF OpenPidFile
<1>6. CASE CannotOpenPidFile(i) \/ WritePidFile(i)
  BY <1>6 DEF CannotOpenPidFile, WritePidFile
<1>7. CASE Terminate(i)     BY <1>7 DEF Terminate
<1>8. CASE Wait(i)          BY <1>8 DEF Wait
<1>9. CASE SendKill(i)         BY <1>9 DEF SendKill
<1>10. CASE Unlink(i)       BY <1>10 DEF Unlink
<1> QED  BY <1>1, <1>2, <1>3, <1>4, <1>5, <1>6, <1>7, <1>8, <1>9, <1>10 DEF Step

LEMMA HasPidStep ==
  ASSUME TInv, NEW i \in Invokers, Step(i)
  PROVE  HasPid'
<1> SUFFICES pc'[i] \in {"open", "write", "terminate", "wait", "force"}
               => gstreamer_pid'[i] \in Pids
  BY Elsewhere DEF TInv, HasPid
<1> USE DEF TInv, ControlOK, ProcessesOK, HasPid, Goto, Return
<1>1. CASE ReadPidFile(i)   BY <1>1 DEF ReadPidFile
<1>2. CASE Probe(i)         BY <1>2 DEF Probe, Streaming, NotStreaming
<1>3. CASE Forget(i)        BY <1>3 DEF Forget, NotStreaming
<1>4. CASE Fork(i)          BY <1>4 DEF Fork, ForkFails
<1>5. CASE OpenPidFile(i)   BY <1>5 DEF OpenPidFile
<1>6. CASE CannotOpenPidFile(i) \/ WritePidFile(i)
  BY <1>6 DEF CannotOpenPidFile, WritePidFile
<1>7. CASE Terminate(i)     BY <1>7 DEF Terminate
<1>8. CASE Wait(i)          BY <1>8 DEF Wait
<1>9. CASE SendKill(i)         BY <1>9 DEF SendKill
<1>10. CASE Unlink(i)       BY <1>10 DEF Unlink
<1> QED  BY <1>1, <1>2, <1>3, <1>4, <1>5, <1>6, <1>7, <1>8, <1>9, <1>10 DEF Step
-----------------------------------------------------------------------------
\* What happens around the controller
Around == \/ \E p \in Pids : GstOpens(p) \/ GstEnds(p) \/ OtherProgram(p)
          \/ CameraChange

LEMMA InvokeType ==
  ASSUME TInv, NEW i \in Invokers, NEW command, Invoke(i, command)
  PROVE  TInv'
<1>1. ControlOK'
  BY DEF TInv, Invoke, ControlOK, Goto, MethodOf, Methods, Labels
<1>2. ProcessesOK'
  <2>1. \A j \in Filing : gstreamer_pid[j] \in Pids
    BY DEF TInv, HasPid, Filing
  <2> QED  BY <2>1 DEF TInv, Invoke, Meets, Running, ProcessesOK
<1>3. HasPid'
  BY DEF TInv, Invoke, HasPid, Goto, ControlOK, ProcessesOK
<1> QED  BY <1>1, <1>2, <1>3 DEF TInv

LEMMA AroundType ==
  ASSUME TInv, Around
  PROVE  TInv'
<1>1. ProcessesOK'
  <2>1. CASE CameraChange  BY <2>1 DEF TInv, CameraChange, ProcessesOK, invocation, history
  <2>2. ASSUME NEW p \in Pids, GstOpens(p) \/ GstEnds(p) \/ OtherProgram(p)
        PROVE  ProcessesOK'
    BY <2>2 DEF TInv, GstOpens, GstEnds, OtherProgram, ProcessesOK, invocation, history
  <2> QED  BY <2>1, <2>2 DEF Around
<1>2. ControlOK' /\ HasPid'
  BY DEF TInv, Around, GstOpens, GstEnds, OtherProgram, CameraChange, invocation, history, ControlOK, HasPid
<1> QED  BY <1>1, <1>2 DEF TInv

LEMMA TypeStep ==
  ASSUME TInv, [Next]_vars
  PROVE  TInv'
<1>1. CASE systemd    BY <1>1, InvokeType DEF systemd, Invokers
<1>2. CASE operator   BY <1>2, InvokeType DEF operator, Invokers
<1>3. ASSUME NEW i \in Invokers, Step(i) PROVE TInv'
  BY <1>3, ControlStep, ProcessesStep, HasPidStep DEF TInv
<1>4. CASE Around     BY <1>4, AroundType
<1>5. CASE UNCHANGED vars
  BY <1>5 DEF vars, invocation, history, TInv, ControlOK, ProcessesOK, HasPid
<1> QED  BY <1>1, <1>2, <1>3, <1>4, <1>5 DEF Next, Around

LEMMA TypeInit ==
  ASSUME Init
  PROVE  TInv
BY DEF Init, TInv, ControlOK, ProcessesOK, HasPid, Labels, Methods

\* The controller's state keeps its types for any set of PIDs and whatever
\* overlaps: the file never holds the -1 of a failed fork.  Its invariant also
\* says that no signal is sent to that PID, which stands for every process.
THEOREM TypeCorrect == Spec => []TypeOK
<1>1. Spec => []TInv
  BY TypeInit, TypeStep, PTL DEF Spec
<1> QED  BY <1>1, TypeFacts, PTL
-----------------------------------------------------------------------------
(* What the file names *)

\* An invocation that met no other runs alone
Alone == \A i \in Running : i \notin mixed => Running = {i}

\* The gst-launch p is still to be filed by the only invocation that runs ...
BeingFiled(p) ==
  \E i \in Filing : /\ Running = {i} /\ gstreamer_pid[i] = p
                    /\ pc[i] = "write" => i \in opened

\* ... or the file names it, and every invocation that runs has read or will
\* read just that: isStreaming finds it alive, and none comes to a fork, to an
\* unlink or to the file before the SIGKILL of a stopStreaming has ended it
Sees(i, p) ==
  /\ pc[i] \in {"read", "probe", "terminate", "wait", "force"}
  /\ gstreamer_pid[i] \in {None, p}
  /\ pc[i] # "read" => gstreamer_pid[i] = p

Filed(p) == pid_file = p /\ \A i \in Running : Sees(i, p)

Known(p) == p \notin unfiled /\ Ours(p) => BeingFiled(p) \/ Filed(p)

FileInv == Alone /\ \A p \in Pids : Known(p)

\* After Return an invocation is at its end, or at the start of isStreaming
LEMMA ReturnPlace ==
  ASSUME TInv, NEW i \in Invokers, Return(i)
  PROVE  pc'[i] \in {"idle", "read"}
BY DEF TInv, ControlOK, Return, Goto

LEMMA OnlyRunning ==
  ASSUME NEW i \in Invokers, Step(i)
  PROVE  i \in Running
BY DEF Running, Step, ReadPidFile, Probe, Forget, Fork, OpenPidFile,
       CannotOpenPidFile, WritePidFile, Terminate, Wait, SendKill, Unlink

\* A step of one invocation has none begin
LEMMA RunningStep ==
  ASSUME TInv, NEW i \in Invokers, Step(i)
  PROVE  Running' \subseteq Running /\ mixed' = mixed
<1>1. Running' \subseteq Running
  BY OnlyRunning, Elsewhere DEF Running
<1>2. mixed' = mixed
  BY DEF Step, ReadPidFile, Probe, Forget, Fork, OpenPidFile, CannotOpenPidFile,
         WritePidFile, Terminate, Wait, SendKill, Unlink, history
<1> QED  BY <1>1, <1>2

\* An invocation that is about to file its gst-launch does so
LEMMA FilingStep ==
  ASSUME TInv, NEW i \in Invokers, Step(i), NEW p \in Pids, BeingFiled(p), p \notin unfiled'
  PROVE  BeingFiled(p)' \/ Filed(p)'
<1>1. i \in Filing /\ Running = {i} /\ gstreamer_pid[i] = p /\ (pc[i] = "write" => i \in opened)
  BY OnlyRunning DEF BeingFiled
<1>2. OpenPidFile(i) \/ WritePidFile(i)
  BY <1>1 DEF Filing, Step, ReadPidFile, Probe, Forget, Fork, CannotOpenPidFile,
              Terminate, Wait, SendKill, Unlink
<1>3. gstreamer_pid'[i] = p
  BY <1>1, <1>2 DEF OpenPidFile, WritePidFile
<1>4. CASE OpenPidFile(i)
  <2>1. pc'[i] = "write" /\ i \in opened'
    BY <1>4 DEF OpenPidFile, TInv, ControlOK, Goto
  <2>2. Running' = {i}
    BY <1>1, <2>1, RunningStep DEF Running
  <2> QED  BY <1>3, <2>1, <2>2 DEF BeingFiled, Filing
<1>5. CASE WritePidFile(i)
  <2>1. pid_file' = p
    BY <1>1, <1>5 DEF WritePidFile
  <2>2. \A j \in Running' : j = i /\ pc'[j] = "read"
    BY <1>1, <1>5, RunningStep, ReturnPlace DEF WritePidFile, Running
  <2> QED  BY <1>3, <2>1, <2>2 DEF Filed, Sees
<1> QED  BY <1>2, <1>4, <1>5

\* An invocation that sees a living gst-launch in the file leaves it there
LEMMA SeeingStep ==
  ASSUME TInv, NEW i \in Invokers, Step(i), NEW p \in Pids, Ours(p), pid_file = p, Sees(i, p),
         Ours(p)'
  PROVE  pid_file' = p /\ (pc'[i] # "idle" => Sees(i, p)')
<1> USE PidsAssumption DEF TInv, ControlOK, ProcessesOK
<1>1. CASE ReadPidFile(i)
  <2>1. pc'[i] = "probe"
    BY <1>1 DEF ReadPidFile, Goto
  <2>2. gstreamer_pid'[i] = p /\ pid_file' = p
    BY <1>1 DEF ReadPidFile, Sees
  <2> QED  BY <2>1, <2>2 DEF Sees
<1>2. CASE Probe(i)
  <2>1. gstreamer_pid[i] = p /\ Exists(p)
    BY <1>2 DEF Probe, Sees, Exists, Ours
  <2>2. Streaming(i) /\ gstreamer_pid'[i] = p /\ pid_file' = p
    BY <1>2, <2>1 DEF Probe
  <2>3. pc'[i] \in {"idle", "read", "terminate"}
    <3>1. CASE Return(i)              BY <3>1, ReturnPlace
    <3>2. CASE Goto(i, "terminate")   BY <3>2 DEF Goto
    <3> QED  BY <2>2, <3>1, <3>2 DEF Streaming
  <2> QED  BY <2>2, <2>3 DEF Sees
<1>3. CASE Terminate(i)
  <2>1. gstreamer_pid'[i] = p /\ pid_file' = p
    BY <1>3 DEF Terminate, Sees
  <2>2. pc'[i] = "wait"
    BY <1>3 DEF Terminate, Sees, Exists, Ours, Goto
  <2> QED  BY <2>1, <2>2 DEF Sees
<1>4. CASE Wait(i)
  BY <1>4 DEF Wait, Sees, Goto
<1>5. ~SendKill(i)
  BY DEF SendKill, ForceKill, Sees, Ours
<1> QED
  BY <1>1, <1>2, <1>3, <1>4, <1>5
     DEF Sees, Step, Forget, Fork, OpenPidFile, CannotOpenPidFile, WritePidFile, Unlink

LEMMA FiledStep ==
  ASSUME TInv, NEW i \in Invokers, Step(i), NEW p \in Pids, Ours(p), Filed(p), Ours(p)'
  PROVE  Filed(p)'
<1>1. pid_file' = p /\ (pc'[i] # "idle" => Sees(i, p)')
  BY SeeingStep, OnlyRunning DEF Filed
<1>2. ASSUME NEW j \in Running', j # i
      PROVE  Sees(j, p)'
  <2>1. j \in Running /\ j \in Invokers \ {i}
    BY <1>2, RunningStep DEF Running
  <2> QED  BY <2>1, Elsewhere DEF Filed, Sees
<1> QED  BY <1>1, <1>2 DEF Filed, Running

\* fork makes the first one that is known: no other is
LEMMA ForkedStep ==
  ASSUME TInv, Alone, NEW i \in Invokers, Step(i), NEW p \in Pids, ~Ours(p), Ours(p)',
         p \notin unfiled'
  PROVE  BeingFiled(p)'
<1>1. Fork(i)
  BY DEF TInv, ProcessesOK, Ours, Step, ReadPidFile, Probe, Forget, OpenPidFile,
         CannotOpenPidFile, WritePidFile, Terminate, Wait, SendKill, ForceKill, Unlink
<1>2. PICK q \in Pids : /\ proc' = [proc EXCEPT ![q] = "starting"]
                        /\ gstreamer_pid' = [gstreamer_pid EXCEPT ![i] = q]
                        /\ unfiled' = IF i \in mixed THEN unfiled \cup {q} ELSE unfiled \ {q}
                        /\ Goto(i, "open")
  BY <1>1 DEF Fork, Ours
<1>3. q = p /\ i \notin mixed
  BY <1>2 DEF TInv, ProcessesOK, Ours
<1>4. pc'[i] = "open" /\ gstreamer_pid'[i] = p
  BY <1>2, <1>3 DEF TInv, ControlOK, ProcessesOK, Goto
<1>5. Running' = {i}
  BY <1>3, <1>4, OnlyRunning, RunningStep DEF Alone, Running
<1> QED  BY <1>4, <1>5 DEF BeingFiled, Filing

\* A step takes a living gst-launch off the unknown ones only by a new fork
LEMMA UnfiledStep ==
  ASSUME TInv, NEW i \in Invokers, Step(i), NEW p \in Pids, Ours(p), p \notin unfiled'
  PROVE  p \notin unfiled
<1>1. CASE Fork(i)
  BY <1>1 DEF Fork, Ours
<1> QED
  BY <1>1 DEF Step, ReadPidFile, Probe, Forget, OpenPidFile, CannotOpenPidFile,
              WritePidFile, Terminate, Wait, SendKill, Unlink, history

LEMMA StepFile ==
  ASSUME TInv, FileInv, NEW i \in Invokers, Step(i)
  PROVE  FileInv'
<1>1. Alone'
  BY RunningStep DEF FileInv, Alone
<1>2. ASSUME NEW p \in Pids, p \notin unfiled', Ours(p)'
      PROVE  BeingFiled(p)' \/ Filed(p)'
  <2>1. CASE ~Ours(p)
    BY <1>2, <2>1, ForkedStep DEF FileInv
  <2>2. CASE Ours(p)
    <3>1. BeingFiled(p) \/ Filed(p)
      BY <1>2, <2>2, UnfiledStep DEF FileInv, Known
    <3> QED  BY <1>2, <2>2, <3>1, FilingStep, FiledStep
  <2> QED  BY <2>1, <2>2
<1> QED  BY <1>1, <1>2 DEF FileInv, Known

\* An invocation that meets one which is filing takes the gst-launch of that
\* one off the known ones; one that begins later will read what the file names
LEMMA InvokeFile ==
  ASSUME TInv, FileInv, NEW i \in Invokers, NEW command, Invoke(i, command)
  PROVE  FileInv'
<1>1. /\ i \notin Running /\ Running' = Running \cup {i}
      /\ pc'[i] = "read" /\ gstreamer_pid'[i] = None
      /\ \A j \in Running : pc'[j] = pc[j] /\ gstreamer_pid'[j] = gstreamer_pid[j]
  BY DEF Invoke, Running, Goto, TInv, ControlOK, ProcessesOK
<1>2. Alone'
  BY <1>1 DEF Invoke, Meets, Alone
<1>3. ASSUME NEW p \in Pids, p \notin unfiled', Ours(p)'
      PROVE  Filed(p)'
  <2>1. p \notin unfiled /\ Ours(p)
    BY <1>3 DEF Invoke, Meets, Ours
  <2>2. ~BeingFiled(p)
    BY <1>3 DEF Invoke, Meets, BeingFiled
  <2>3. Filed(p)
    BY <2>1, <2>2 DEF FileInv, Known
  <2> QED  BY <1>1, <2>3 DEF Filed, Sees, Invoke
<1> QED  BY <1>2, <1>3 DEF FileInv, Known

\* Around the controller, gst-launch processes of ours only come to an end
LEMMA AroundFile ==
  ASSUME TInv, FileInv, Around
  PROVE  FileInv'
<1>1. \A p \in Pids : Ours(p)' => Ours(p)
  BY DEF Around, GstOpens, GstEnds, OtherProgram, CameraChange, Ours, TInv, ProcessesOK
<1>2. UNCHANGED <<pid_file, invocation>>
  BY DEF Around, GstOpens, GstEnds, OtherProgram, CameraChange
<1> QED
  BY <1>1, <1>2 DEF FileInv, Alone, Known, BeingFiled, Filed, Sees, Running, Filing,
                    invocation, history

LEMMA FileStep ==
  ASSUME TInv, FileInv, [Next]_vars
  PROVE  FileInv'
<1>1. CASE systemd \/ operator
  BY <1>1, InvokeFile DEF systemd, operator, Invokers
<1>2. ASSUME NEW i \in Invokers, Step(i)
      PROVE  FileInv'
  BY <1>2, StepFile
<1>3. CASE Around
  BY <1>3, AroundFile
<1>4. CASE UNCHANGED vars
  BY <1>4 DEF vars, invocation, history, FileInv, Alone, Known, BeingFiled, Filed, Sees,
              Running, Filing, Ours
<1> QED  BY <1>1, <1>2, <1>3, <1>4 DEF Next, Around

LEMMA FileInit ==
  ASSUME Init
  PROVE  FileInv
BY DEF Init, FileInv, Alone, Known, Running, Ours

\* For any number of PIDs and any overlap of invocations: a gst-launch that an
\* invocation running alone has started and filed is the one the PID file
\* names between invocations for as long as it lives, whatever dies, is reused
\* or ignores SIGTERM, whatever overlaps later, and whatever streams are left
\* from invocations that overlapped or could not open the file.
THEOREM FileNamesStream == Spec => []PidFileNamesStream
<1>1. Spec => [](TInv /\ FileInv)
  BY TypeInit, TypeStep, FileInit, FileStep, PTL DEF Spec
<1>2. TInv /\ FileInv => PidFileNamesStream
  BY DEF FileInv, Quiet, Known, BeingFiled, Filed, PidFileNamesStream
<1> QED  BY <1>1, <1>2, PTL
=============================================================================
