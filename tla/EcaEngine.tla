----------------------------- MODULE EcaEngine -----------------------------
(***************************************************************************)
(* The ecasound processing engine (ECA_ENGINE) run by its default driver  *)
(* (ECA_ENGINE_DEFAULT_DRIVER), with one controller thread that talks to  *)
(* it through the command queue and waits for its stop signal.            *)
(*                                                                         *)
(* The engine's own state is the record variable eng.  Every engine       *)
(* function that changes state (stop_operation, prepare_operation, the    *)
(* position handlers, ...) is an operator from one such record to the     *)
(* next, so that a handler calling several of them in order is their      *)
(* composition, exactly as the C++ calls them in sequence.                *)
(*                                                                         *)
(* Audio data is abstracted away: an input is its read pointer and its    *)
(* finished flag, an output is its error flag, a chain is its mute and    *)
(* processing flags.  Positions and buffer sizes are kept in samples.     *)
(***************************************************************************)
EXTENDS Integers, Sequences, FiniteSets, FiniteSetsExt

CONSTANTS
  NInputs, NOutputs,      \* inputs are 0..NInputs-1, outputs 0..NOutputs-1
  ChainInput,             \* chain index -> connected input index
  ChainOutput,            \* chain index -> connected output index
  RtInputs, RtOutputs,    \* inputs/outputs that are realtime devices
  FileLen,                \* input index -> length of the file behind it
  Buffersize,             \* chainsetup buffersize B (samples)
  SampleRate,             \* samples per second
  Length,                 \* chainsetup length in samples, 0 = not set
  Looping,                \* chainsetup looping flag
  Multitrack,             \* multitrack mode (latency compensation)
  InLatency, OutLatency,  \* latency of realtime inputs/outputs
  PrefillSpace,           \* prefill_space() of realtime outputs
  InChannels, OutChannels,
  MaxBuffers,             \* chainsetup max_buffers()
  PrefillThresholdConstant, PrefillBlocksConstant,
  DoubleBuffering,        \* proxy server in use
  UseMidi,                \* chainsetup has MIDI devices
  FailingOutputs,         \* outputs whose writes may fail (disk full...)
  Batch,                  \* exec(batch_mode)
  CtlCommands,            \* commands the controller may send
  MaxCommands             \* bound on the number of controller commands

Inputs  == 0..(NInputs - 1)
Outputs == 0..(NOutputs - 1)
Chains  == DOMAIN ChainInput
B == Buffersize

ASSUME /\ NInputs >= 1 /\ NOutputs >= 1
       /\ ChainInput \in [Chains -> Inputs]
       /\ ChainOutput \in [Chains -> Outputs]
       /\ RtInputs \subseteq Inputs /\ RtOutputs \subseteq Outputs
       /\ FileLen \in [Inputs -> Nat]
       /\ B \in Nat \ {0} /\ SampleRate \in Nat \ {0} /\ Length \in Nat
       /\ FailingOutputs \subseteq Outputs
       /\ MaxCommands \in Nat

NonRtInputs == Inputs \ RtInputs
HasRtObjects == RtInputs \cup RtOutputs # {}

Opcodes == {"exit", "start", "stop", "c_select", "c_mute", "c_bypass",
            "rewind", "forward", "setpos", "setpos_live_samples"}

VARIABLES
  eng,       \* ECA_ENGINE members and the objects it drives
  queue,     \* the command queue: a sequence of [op, arg] items
  pc,        \* where the driver thread is in ECA_ENGINE::exec
  sent,      \* number of commands the controller has sent
  ctlWait    \* controller in wait_for_stop or wait_for_exit: [st, on]

vars == <<eng, queue, pc, sent, ctlWait>>

-----------------------------------------------------------------------------
(* Cached values computed once by the constructor.                         *)

\* number_of_attached_chains_to_input/output, cached per object.
InputChainCount(i)  == Quantify(Chains, LAMBDA c : ChainInput[c] = i)
OutputChainCount(o) == Quantify(Chains, LAMBDA c : ChainOutput[c] = o)

\* An output fed by a chain whose input is a realtime device.
IsRealtimeTargetOutput(o) ==
  \E c \in Chains : ChainOutput[c] = o /\ ChainInput[c] \in RtInputs

MaxChannels ==
  Max({InChannels[i] : i \in Inputs} \cup {OutChannels[o] : o \in Outputs})

PrefillThreshold ==
  LET t == IF MaxBuffers THEN (PrefillThresholdConstant \div B) \div MaxChannels
                         ELSE 0
  IN  IF t < PrefillBlocksConstant THEN PrefillBlocksConstant ELSE t

\* Only the first realtime input and output (in index order) set the
\* latencies; the others are only compared with them for a warning.
OutputLatency(o) ==
  IF PrefillSpace[o] > 0 THEN PrefillThreshold * B + OutLatency[o]
                         ELSE OutLatency[o]

RecordingOffset ==
  IF Multitrack
  THEN LET inLat  == IF RtInputs = {} THEN -1 ELSE InLatency[Min(RtInputs)]
           outLat == IF RtOutputs = {} THEN -1 ELSE OutputLatency(Min(RtOutputs))
       IN  IF outLat > inLat THEN outLat ELSE inLat
  ELSE 0

-----------------------------------------------------------------------------
(* Engine status and the init_engine_state reset.                          *)

Status(e) ==
  CASE ~e.csetup             -> "notready"
    [] e.finished            -> "finished"
    [] e.outputsFinished > 0 -> "error"
    [] e.running             -> "running"
    [] OTHER                 -> "stopped"

\* Mutant: an init_engine_state that forgets outputs_finished_rep.
InitEngineStateKeepsErrors(e) ==
  [e EXCEPT !.finished = FALSE, !.inputsNotFinished = 1]

InitEngineState(e) ==
  [e EXCEPT !.finished = FALSE, !.inputsNotFinished = 1,
            !.outputsFinished = 0]

\* A DBC_REQUIRE/DBC_CHECK that does not hold is recorded in e.dbc.
Require(e, cond) == IF cond THEN e ELSE [e EXCEPT !.dbc = TRUE]

-----------------------------------------------------------------------------
(* Transport: prepare/start/stop and the driver's start/stop/exit.         *)

\* start_servers: the proxy server is started and prefilled (wait_for_full)
\* when double buffering, the MIDI server when there are MIDI devices.
StartServers(e) == [e EXCEPT !.servers = DoubleBuffering \/ UseMidi]

\* stop_servers: both servers stopped; the proxy is waited for.
StopServers(e) == [e EXCEPT !.servers = FALSE]

\* prepare_realtime_objects: every realtime object prepared, then every rt
\* output with prefill space written prefill_threshold silent blocks,
\* under DBC_CHECK(prefill_blocks_constant <= prefill_space()).
PrepareRealtimeObjects(e) ==
  LET r == Require(e, \A o \in RtOutputs :
                        PrefillSpace[o] > 0 => PrefillBlocksConstant <= PrefillSpace[o])
  IN  [r EXCEPT !.rtDevices = IF HasRtObjects THEN "prepared" ELSE @]

\* start_realtime_objects: every realtime object started.
StartRealtimeObjects(e) ==
  [e EXCEPT !.rtDevices = IF HasRtObjects THEN "running" ELSE @]

\* Steps 1-6 of prepare_operation.  The preroll count starts at one buffer
\* because it is only incremented after the preroll test.
PrepareOperation(e) ==
  LET r == Require(e, ~e.running /\ ~e.prepared)
      l == [r EXCEPT !.csLocked = TRUE, !.rtLock = TRUE]
  IN  InitEngineState(
        [PrepareRealtimeObjects(StartServers(l))
           EXCEPT !.preroll = B, !.prepared = TRUE])

StartOperation(e) ==
  LET r == Require(e, e.prepared /\ ~e.running)
  IN  [StartRealtimeObjects(r) EXCEPT !.running = TRUE]

\* Mutant: a stop_operation that forgets stop_servers().
StopOperationKeepsServers(e) ==
  LET r == Require(e, e.prepared)
  IN  [r EXCEPT !.running = FALSE,
                !.rtDevices = IF @ = "running" THEN "stopped" ELSE @,
                !.prepared = FALSE, !.rtLock = FALSE,
                !.csLocked = FALSE, !.sigStop = TRUE]

\* stop_operation: running off, running rt devices stopped, prepared off,
\* rt-locks released, stop_servers, the chainsetup lock released, and
\* signal_stop broadcast.
StopOperation(e) ==
  LET r == Require(e, e.prepared)
      s == [r EXCEPT !.running = FALSE,
                     !.rtDevices = IF @ = "running" THEN "stopped" ELSE @,
                     !.prepared = FALSE, !.rtLock = FALSE]
  IN  [StopServers(s) EXCEPT !.csLocked = FALSE, !.sigStop = TRUE]

\* ECA_ENGINE::request_start -> ECA_ENGINE_DEFAULT_DRIVER::start
RequestStart(e) ==
  StartOperation(PrepareOperation(Require(e, Status(e) # "running")))

\* ECA_ENGINE::request_stop -> ECA_ENGINE_DEFAULT_DRIVER::stop
RequestStop(e) == StopOperation(Require(e, Status(e) = "running"))

\* ECA_ENGINE_DEFAULT_DRIVER::exit
DriverExit(e) ==
  LET s == IF e.prepared \/ e.running THEN StopOperation(e) ELSE e
  IN  [s EXCEPT !.exitRequest = TRUE]

\* Mutant: conditional_stop without the was_running_rep = false branch.
ConditionalStopNoReset(e) ==
  IF Status(e) = "running"
  THEN RequestStop([e EXCEPT !.wasRunning = TRUE])
  ELSE e

ConditionalStop(e) ==
  IF Status(e) = "running"
  THEN RequestStop([e EXCEPT !.wasRunning = TRUE])
  ELSE [e EXCEPT !.wasRunning = FALSE]

ConditionalStart(e) == IF e.wasRunning THEN RequestStart(e) ELSE e

-----------------------------------------------------------------------------
(* Position.  Seeking the chainsetup seeks every object; a file object's   *)
(* seek_position clears its finished flag.  Realtime inputs do not seek.   *)

\* Mutant: a file seek_position that leaves finished_rep set.
SeekKeepsFinished(e, p) ==
  [e EXCEPT !.pos = p,
            !.inPos = [i \in Inputs |-> IF i \in RtInputs THEN @[i] ELSE p]]

Seek(e, p) ==
  [e EXCEPT !.pos = p,
            !.inPos = [i \in Inputs |-> IF i \in RtInputs THEN @[i] ELSE p],
            !.inFin = [i \in Inputs |-> IF i \in RtInputs THEN @[i] ELSE FALSE]]

\* ECA_CHAINSETUP_POSITION::position_in_seconds truncates to whole seconds.
PositionInSeconds(e) == e.pos \div SampleRate

\* A rewind past the start would seek to a negative position; how the
\* chainsetup treats one is outside the modelled code, so it is clamped.
SecondsToSamples(secs) == Max({0, secs * SampleRate})

SetPosition(e, secs) ==
  LET s == ConditionalStop(e) IN ConditionalStart(Seek(s, SecondsToSamples(secs)))

ChangePosition(e, secs) ==
  LET s == ConditionalStop(e)
  IN  ConditionalStart(Seek(s, SecondsToSamples(PositionInSeconds(s) + secs)))

SetPositionSamples(e, samples) == Seek(e, samples)

IsOver(e) == Length # 0 /\ e.pos > Length

-----------------------------------------------------------------------------
(* One engine iteration: prehandle, inputs to chains, process, mix,        *)
(* posthandle.                                                             *)

\* Mutant: the remaining size computed with its operands swapped.
PrehandleControlPositionSwapped(e) ==
  LET a == [e EXCEPT !.pos = @ + B]
  IN  IF IsOver(a) THEN [a EXCEPT !.nrtBuf = Length - a.pos] ELSE a

PrehandleControlPosition(e) ==
  LET a == [e EXCEPT !.pos = @ + B]
  IN  IF IsOver(a) THEN [a EXCEPT !.nrtBuf = a.pos - Length] ELSE a

\* Samples a read of input i requests: set_buffersize only reaches the
\* non-realtime inputs.
ReadSize(e, i) == IF i \in RtInputs THEN B ELSE e.nrtBuf

\* Samples a file input returns; sf_read_raw stops at the end of the file.
SamplesRead(e, i) ==
  IF i \in RtInputs THEN ReadSize(e, i)
  ELSE Max({0, Min({ReadSize(e, i), FileLen[i] - e.inPos[i]})})

\* Every input with at least one chain is read once, if not finished; a
\* read shorter than requested sets the input's finished flag.
InputsToChains(e) ==
  LET read     == {i \in Inputs : InputChainCount(i) >= 1 /\ ~e.inFin[i]}
      fin(i)   == SamplesRead(e, i) < ReadSize(e, i)
      inFin2   == [i \in Inputs |-> IF i \in read THEN fin(i) ELSE e.inFin[i]]
  IN  [e EXCEPT !.inPos = [i \in Inputs |->
                             IF i \in read THEN @[i] + SamplesRead(e, i)
                                           ELSE @[i]],
                !.inFin = inFin2,
                !.inputsNotFinished =
                   @ + Quantify(read, LAMBDA i : ~inFin2[i])]

\* Every output with at least one chain is written once unless skipped;
\* 'failed' are the outputs whose write fails in this iteration.
MixToOutputs(e, skipRt, failed) ==
  LET written == {o \in Outputs : OutputChainCount(o) >= 1
                                  /\ ~(skipRt /\ IsRealtimeTargetOutput(o))}
      outFin2 == [o \in Outputs |-> e.outFin[o] \/ o \in written \cap failed]
  IN  [e EXCEPT !.outFin = outFin2,
                !.outputsFinished = @ + Quantify(written, LAMBDA o : outFin2[o])]

MixStage(e, failed) ==
  IF e.preroll >= RecordingOffset
  THEN MixToOutputs(e, FALSE, failed)
  ELSE [MixToOutputs(e, TRUE, failed) EXCEPT !.preroll = @ + B]

PosthandleControlPosition(e) ==
  IF IsOver(e)
  THEN IF Looping
       THEN [Seek([e EXCEPT !.inputsNotFinished = 1], 0) EXCEPT !.nrtBuf = B]
       ELSE IF ~HasRtObjects
            THEN [RequestStop(e) EXCEPT !.finished = TRUE]
            ELSE e
  ELSE e

Iterate(e, failed) ==
  LET r == Require([e EXCEPT !.inputsNotFinished = 0], e.running)
  IN  PosthandleControlPosition(
        MixStage(InputsToChains(PrehandleControlPosition(r)), failed))

-----------------------------------------------------------------------------
(* Committing a new engine state: a signal_stop broadcast in the step      *)
(* wakes a controller blocked in wait_for_stop.                            *)

\* The broadcast a wait on event ev is woken by: signal_stop or signal_exit.
Signalled(e, ev) == IF ev = "stop" THEN e.sigStop ELSE e.sigExit

Commit(e) ==
  /\ eng' = [e EXCEPT !.sigStop = FALSE, !.sigExit = FALSE]
  /\ ctlWait' = IF ctlWait.st = "waiting" /\ Signalled(e, ctlWait.on)
                THEN [ctlWait EXCEPT !.st = "woken"] ELSE ctlWait

\* cleanup: the chains' buffers are disconnected under the chainsetup lock,
\* which is released again, and csetup_repp is cleared (status notready).
Cleanup(e) ==
  IF e.csetup THEN [e EXCEPT !.csLocked = FALSE, !.csetup = FALSE] ELSE e

\* The driver loop has broken: ECA_ENGINE::exec unlocks the chainsetup,
\* signals exit, checks the final status and cleans up.
ExecReturn(e) ==
  Cleanup(Require([e EXCEPT !.csLocked = FALSE, !.sigExit = TRUE],
                  Status(e) \in {"stopped", "finished", "error"}))


Push(q, op) == Append(q, [op |-> op, arg |-> 0])

-----------------------------------------------------------------------------
(* Commands: one item of ECA_ENGINE::interpret_queue.                      *)

\* chain_muting and chain_processing toggle the active chain's flag.
ChainMuting(e)     == [e EXCEPT !.muted[e.activeChain] = ~@]
ChainProcessing(e) == [e EXCEPT !.processing[e.activeChain] = ~@]

Interpret(e, cmd) ==
  CASE cmd.op = "start"    -> IF Status(e) # "running" THEN RequestStart(e) ELSE e
    [] cmd.op = "stop"     -> IF Status(e) = "running" THEN RequestStop(e) ELSE e
    [] cmd.op = "c_select" -> [e EXCEPT !.activeChain = cmd.arg]
    [] cmd.op = "c_mute"   -> ChainMuting(e)
    [] cmd.op = "c_bypass" -> ChainProcessing(e)
    [] cmd.op = "rewind"   -> ChangePosition(e, -cmd.arg)
    [] cmd.op = "forward"  -> ChangePosition(e, cmd.arg)
    [] cmd.op = "setpos"   -> SetPosition(e, cmd.arg)
    [] cmd.op = "setpos_live_samples" -> SetPositionSamples(e, cmd.arg)

\* ep_exit drops every queued item and calls the driver's exit(), and
\* interpret_queue returns; the driver loop then sees exit_request_rep and
\* breaks at once, so ECA_ENGINE::exec returns.
InterpretExit ==
  /\ pc = "check"
  /\ queue # <<>>
  /\ Head(queue).op = "exit"
  /\ queue' = <<>>
  /\ Commit(ExecReturn(DriverExit(eng)))
  /\ pc' = "done"
  /\ UNCHANGED sent

InterpretCommand ==
  /\ pc = "check"
  /\ queue # <<>>
  /\ Head(queue).op # "exit"
  /\ queue' = Tail(queue)
  /\ Commit(Interpret(eng, Head(queue)))
  /\ UNCHANGED <<pc, sent>>

-----------------------------------------------------------------------------
(* The driver loop of ECA_ENGINE_DEFAULT_DRIVER::exec.                     *)

\* ECA_ENGINE::exec up to driver_repp->exec: lock, init_engine_state.
Exec ==
  /\ pc = "new"
  /\ eng' = InitEngineState([Require(eng, eng.csetup)
                               EXCEPT !.csLocked = TRUE, !.exitRequest = FALSE])
  /\ pc' = "check"
  /\ UNCHANGED <<queue, sent, ctlWait>>

\* Mutant: a driver loop that iterates without checking the queue first.
EngineIterationSkipsQueue ==
  /\ pc = "check"
  /\ Status(eng) = "running"
  /\ \E failed \in SUBSET FailingOutputs : Commit(Iterate(eng, failed))
  /\ pc' = "update"
  /\ UNCHANGED <<queue, sent>>

EngineIteration ==
  /\ pc = "check" /\ queue = <<>>
  /\ Status(eng) = "running"
  /\ \E failed \in SUBSET FailingOutputs : Commit(Iterate(eng, failed))
  /\ pc' = "update"
  /\ UNCHANGED <<queue, sent>>

\* Mutant: case 3a of the driver loop tests only for "finished".
BatchDoneFinishedOnly(e) == Status(e) = "finished" /\ Batch

\* Case 3a of the driver loop: batch operation finished or failed.
BatchDone(e) == Status(e) \in {"finished", "error"} /\ Batch

BatchFinished ==
  /\ pc = "check" /\ queue = <<>>
  /\ BatchDone(eng)
  /\ Commit(ExecReturn(eng))
  /\ pc' = "done"
  /\ UNCHANGED <<queue, sent>>

\* wait_for_commands: poll(5, 0) returns on a command or after 5 seconds.
WaitForCommands ==
  /\ pc = "check" /\ queue = <<>>
  /\ Status(eng) # "running"
  /\ ~BatchDone(eng)
  /\ pc' = "update"
  /\ UNCHANGED <<eng, queue, sent, ctlWait>>

UpdateEngineState ==
  /\ pc = "update"
  /\ LET allDone == eng.inputsNotFinished = 0 /\ eng.outputsFinished = 0
                    /\ ~eng.finished
         e1 == IF allDone THEN [eng EXCEPT !.finished = TRUE] ELSE eng
         q1 == IF allDone /\ eng.running THEN Push(queue, "stop") ELSE queue
     IN  /\ eng' = e1
         /\ queue' = IF Status(e1) = "error" /\ e1.running
                     THEN Push(q1, "stop") ELSE q1
  /\ pc' = "check"
  /\ UNCHANGED <<sent, ctlWait>>

-----------------------------------------------------------------------------
(* The controller thread.                                                  *)

Command ==
  /\ sent < MaxCommands
  /\ \E cmd \in CtlCommands : queue' = Append(queue, cmd)
  /\ sent' = sent + 1
  /\ UNCHANGED <<eng, pc, ctlWait>>

\* Stop a running engine and wait for it: command(ep_stop) and then
\* ECA_ENGINE::wait_for_stop, two calls of the controller thread.
StopAndWait ==
  /\ sent < MaxCommands
  /\ ctlWait.st = "none"
  /\ Status(eng) = "running"
  /\ queue' = Push(queue, "stop")
  /\ sent' = sent + 1
  /\ ctlWait' = [st |-> "sent", on |-> "stop"]
  /\ UNCHANGED <<eng, pc>>

\* End the engine and wait for exec to return: command(ep_exit) and then
\* ECA_ENGINE::wait_for_exit.
ExitAndWait ==
  /\ sent < MaxCommands
  /\ ctlWait.st = "none"
  /\ Status(eng) # "notready"
  /\ queue' = Push(queue, "exit")
  /\ sent' = sent + 1
  /\ ctlWait' = [st |-> "sent", on |-> "exit"]
  /\ UNCHANGED <<eng, pc>>

\* kvu_pthread_timed_wait: lock, pthread_cond_timedwait, unlock; there is
\* no predicate, only a broadcast that comes after the wait began wakes it.
WaitBegins ==
  /\ ctlWait.st = "sent"
  /\ ctlWait' = [ctlWait EXCEPT !.st = "waiting"]
  /\ UNCHANGED <<eng, queue, pc, sent>>

WaitWoken ==
  /\ ctlWait.st = "woken"
  /\ ctlWait' = [ctlWait EXCEPT !.st = "none"]
  /\ UNCHANGED <<eng, queue, pc, sent>>

WaitTimeout ==
  /\ ctlWait.st = "waiting"
  /\ ctlWait' = [ctlWait EXCEPT !.st = "none"]
  /\ UNCHANGED <<eng, queue, pc, sent>>

-----------------------------------------------------------------------------
EngineInit ==
  [prepared |-> FALSE, running |-> FALSE, finished |-> FALSE,
   outputsFinished |-> 0, inputsNotFinished |-> 1, wasRunning |-> FALSE,
   preroll |-> 0, csLocked |-> FALSE, rtLock |-> FALSE, servers |-> FALSE,
   rtDevices |-> "stopped", exitRequest |-> FALSE, sigStop |-> FALSE,
   sigExit |-> FALSE,
   dbc |-> FALSE, pos |-> 0, nrtBuf |-> B,
   inPos |-> [i \in Inputs |-> 0], inFin |-> [i \in Inputs |-> FALSE],
   outFin |-> [o \in Outputs |-> FALSE],
   muted |-> [c \in Chains |-> FALSE], processing |-> [c \in Chains |-> TRUE],
   activeChain |-> 0, csetup |-> TRUE]

Init ==
  /\ eng = EngineInit
  /\ queue = <<>>
  /\ pc = "new"
  /\ sent = 0
  /\ ctlWait = [st |-> "none", on |-> "stop"]

\* The owner deletes the engine once exec has returned: ~ECA_ENGINE exits
\* the driver (stopping a prepared engine) and cleans up, but only while it
\* still has a chainsetup, which exec's own cleanup() has already dropped.
Destructor(e) ==
  IF e.csetup
  THEN Cleanup(IF e.prepared THEN DriverExit(e) ELSE e)
  ELSE e

Destroy ==
  /\ pc = "done"
  /\ Commit(Destructor(eng))
  /\ pc' = "deleted"
  /\ UNCHANGED <<queue, sent>>

Driver ==
  \/ Exec \/ InterpretExit \/ InterpretCommand
  \/ EngineIteration \/ BatchFinished \/ WaitForCommands \/ UpdateEngineState
  \/ Destroy

Controller == Command \/ StopAndWait \/ ExitAndWait \/ WaitBegins \/ WaitWoken \/ WaitTimeout

\* The engine has been deleted; the program ends.
Terminated == pc = "deleted" /\ UNCHANGED vars

Next == Driver \/ Controller \/ Terminated

\* The driver thread is always scheduled again: wait_for_commands blocks
\* for at most five seconds.  The controller is not obliged to act.
Spec == Init /\ [][Next]_vars /\ WF_vars(Driver)

-----------------------------------------------------------------------------
(* Properties.                                                             *)

TypeOK ==
  /\ pc \in {"new", "check", "update", "done", "deleted"}
  /\ ctlWait \in [st : {"none", "sent", "waiting", "woken"}, on : {"stop", "exit"}]
  /\ sent \in 0..MaxCommands
  /\ queue \in Seq([op : Opcodes, arg : Int])
  /\ eng.prepared \in BOOLEAN /\ eng.running \in BOOLEAN
  /\ eng.finished \in BOOLEAN /\ eng.dbc \in BOOLEAN
  /\ eng.outputsFinished \in Nat /\ eng.inputsNotFinished \in Nat
  /\ eng.rtDevices \in {"stopped", "prepared", "running"}
  /\ eng.pos \in Nat /\ eng.nrtBuf \in Nat
  /\ eng.inPos \in [Inputs -> Nat] /\ eng.inFin \in [Inputs -> BOOLEAN]
  /\ eng.outFin \in [Outputs -> BOOLEAN]
  /\ eng.activeChain \in Chains

\* Between iterations, every file input that feeds a chain has read exactly
\* up to the chainsetup position (or to its end of file), whatever seeks,
\* restarts and loop rounds came before: prehandle_control_position,
\* inputs_to_chains, posthandle_control_position and the seek paths of
\* interpret_queue keep the inputs in step with the global position.
InputsTrackPosition ==
  (pc # "new" /\ ~IsOver(eng)) =>
     \A i \in NonRtInputs :
        InputChainCount(i) >= 1 =>
           Min({eng.inPos[i], FileLen[i]}) = Min({eng.pos, FileLen[i]})

\* Once ECA_ENGINE::exec has returned and the engine has been deleted, it
\* has been stopped: realtime devices and I/O servers are stopped and the
\* sample buffers' rt-locks released, by stop_operation on the way out of
\* exec or by the destructor's driver exit.
ExitLeavesEngineStopped ==
  pc = "deleted" =>
     /\ ~eng.running /\ ~eng.prepared /\ ~eng.rtLock /\ ~eng.servers
     /\ eng.rtDevices # "running"

\* Every command a controller queues is eventually taken off the queue by
\* interpret_queue, unless exec has returned: however long the engine
\* runs, loops or waits, the driver loop calls check_command_queue before
\* each iteration and wait_for_commands returns when a command arrives.
CommandsEventuallyHandled ==
  queue # <<>> ~> (queue = <<>> \/ pc \in {"done", "deleted"})

\* In batch mode a started engine always gets ECA_ENGINE::exec to return:
\* whether its inputs run out, its length is reached or an output fails,
\* the driver loop eventually breaks.  The one other way out is a stop
\* sent by the controller, after which the driver waits for commands.
BatchRunEnds ==
  (Batch /\ eng.running) ~> (pc \in {"done", "deleted"} \/ Status(eng) = "stopped")

\* A controller that sends stop to a running engine and then waits in
\* wait_for_stop only times out while the engine is still running, and
\* one that sends exit and waits in wait_for_exit only while exec has not
\* returned: the broadcasts of stop_operation and of exec are never missed
\* (spec scenario 6; the waits report whether they were satisfied).
WaitNotMissed ==
  [][WaitTimeout => IF ctlWait.on = "stop" THEN eng.running
                                           ELSE pc \in {"new", "check", "update"}]_vars

\* A run of a set length that is not looped has read exactly that many
\* samples from every file input (or all of a shorter file) when it
\* finishes: the final, short read of prehandle_control_position asks for
\* what is left up to the length (spec: of size length mod buffersize).
LengthReadExactly ==
  (Length # 0 /\ ~Looping /\ eng.finished) =>
     \A i \in NonRtInputs :
        InputChainCount(i) >= 1 => eng.inPos[i] = Min({Length, FileLen[i]})


\* While the sample buffers are rt-locked (between prepare_operation and
\* stop_operation) no non-realtime input is asked for more than one
\* buffer: a larger read would have to grow the chain's buffer, which the
\* rt-lock forbids.  prehandle_control_position sets the read size once the
\* length is passed.
RtLockedReadsFitBuffer ==
  eng.rtLock => \A i \in NonRtInputs : ReadSize(eng, i) <= B

\* The engine implements EngineTransport under the refinement mapping that
\* takes ECA_ENGINE::status() for the abstract status: every step of the
\* driver (interpret_queue, engine_iteration, update_engine_state, the end
\* of exec) changes the status only as the command at the head of the
\* queue, the engine's own progress or the end of exec allow.
Transport == INSTANCE EngineTransport WITH status <- Status(eng), Commands <- CtlCommands

ImplementsTransport == Transport!Spec

=============================================================================
