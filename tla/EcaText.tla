------------------------------ MODULE EcaText ------------------------------
(***************************************************************************)
(* The text front end (src/ecasound/eca-text.cpp): main builds a session, *)
(* then either an interactive control loop or an engine that it runs with *)
(* exec, and always leaves through ecasound_clean_exit, which deletes the  *)
(* three global objects (control, engine, session) and calls exit.  A     *)
(* SIGINT or SIGTERM runs ecasound_clean_exit(128) from the signal        *)
(* handler, on top of whatever the main thread was doing.                 *)
(*                                                                         *)
(* clean_exit never returns, so a call is a frame on a stack: only the    *)
(* top frame runs, and the frames below it never resume.  The engine is   *)
(* the object ECA_ENGINE; what exec does inside is EcaEngine's subject.   *)
(***************************************************************************)
EXTENDS Integers, Sequences

Objects == {"control", "engine", "session"}
Signals == {"SIGINT", "SIGTERM"}

VARIABLES
  mpc,       \* where main is
  frames,    \* active ecasound_clean_exit calls, innermost last
  handling,  \* signals whose handler has been entered
  ptr,       \* global_pointer_to_*: object -> non-null
  deleted,   \* global_*_deleted flags
  obj,       \* object -> "none" | "live" | "active" (engine in exec) | "dead"
  deletes,   \* object -> times its destructor ran
  exitCode   \* argument of exit(), once called

vars == <<mpc, frames, handling, ptr, deleted, obj, deletes, exitCode>>

\* The order in which ecasound_clean_exit deletes the globals.
After == [control |-> "engine", engine |-> "session", session |-> "exit"]

\* ecasound_clean_exit(n) is called: a new frame on the stack.
CleanExit(n) == frames' = Append(frames, [at |-> "control", stage |-> "check", code |-> n])

Top == frames[Len(frames)]
SetTop(f) == frames' = [frames EXCEPT ![Len(frames)] = f]
MainRuns == frames = <<>> /\ mpc # "exited"

-----------------------------------------------------------------------------
(* main.                                                                   *)

\* parse_command_line: no arguments or --help exit with 0.
ParseCommandLine ==
  /\ mpc = "parse" /\ MainRuns
  /\ \/ CleanExit(0) /\ mpc' = "clean_exit"
     \/ mpc' = "session" /\ UNCHANGED frames
  /\ UNCHANGED <<handling, ptr, deleted, obj, deletes, exitCode>>

\* new ECA_SESSION(cline): an ECA_ERROR ends in clean_exit(127).
NewSession ==
  /\ mpc = "session" /\ MainRuns
  /\ \/ CleanExit(127) /\ mpc' = "clean_exit" /\ UNCHANGED obj
     \/ obj' = [obj EXCEPT !.session = "live"] /\ mpc' = "session_ptr"
        /\ UNCHANGED frames
  /\ UNCHANGED <<handling, ptr, deleted, deletes, exitCode>>

\* global_pointer_to_* = the object just constructed.
PointerNext == [session_ptr |-> "dispatch", control_ptr |-> "iactive",
                engine_ptr |-> "exec"]
PointerOf   == [session_ptr |-> "session", control_ptr |-> "control",
                engine_ptr |-> "engine"]

SetPointer ==
  /\ mpc \in DOMAIN PointerNext /\ MainRuns
  /\ ptr' = [ptr EXCEPT ![PointerOf[mpc]] = TRUE]
  /\ mpc' = PointerNext[mpc]
  /\ UNCHANGED <<frames, handling, deleted, obj, deletes, exitCode>>

\* Interactive sessions construct an ECA_CONTROL (start_iactive*); others
\* construct an ECA_ENGINE if the selected chainsetup is connected.
Dispatch ==
  /\ mpc = "dispatch" /\ MainRuns
  /\ \/ obj' = [obj EXCEPT !.control = "live"] /\ mpc' = "control_ptr"
     \/ obj' = [obj EXCEPT !.engine = "live"]  /\ mpc' = "engine_ptr"
     \/ UNCHANGED obj /\ mpc' = "end"
  /\ UNCHANGED <<frames, handling, ptr, deleted, deletes, exitCode>>

\* The command loop ends on quit or end of input.
InteractiveLoopEnds ==
  /\ mpc = "iactive" /\ MainRuns
  /\ mpc' = "end"
  /\ UNCHANGED <<frames, handling, ptr, deleted, obj, deletes, exitCode>>

\* epros->exec(): the engine is inside exec, then exec returns cleaned up.
ExecBegins ==
  /\ mpc = "exec" /\ MainRuns
  /\ obj' = [obj EXCEPT !.engine = "active"]
  /\ mpc' = "in_exec"
  /\ UNCHANGED <<frames, handling, ptr, deleted, deletes, exitCode>>

ExecReturns ==
  /\ mpc = "in_exec" /\ MainRuns
  /\ obj' = [obj EXCEPT !.engine = "live"]
  /\ mpc' = "end"
  /\ UNCHANGED <<frames, handling, ptr, deleted, deletes, exitCode>>

\* The end of main: ecasound_clean_exit(global_error_no).
MainEnds ==
  /\ mpc = "end" /\ MainRuns
  /\ CleanExit(0)
  /\ mpc' = "clean_exit"
  /\ UNCHANGED <<handling, ptr, deleted, obj, deletes, exitCode>>

-----------------------------------------------------------------------------
(* ecasound_clean_exit and the signal handler.                             *)

\* Mutant: the deleted flag is not consulted.
CleanExitCheckNoFlag(f) ==
  /\ deleted' = [deleted EXCEPT ![f.at] = TRUE]
  /\ SetTop(IF ptr[f.at] THEN [f EXCEPT !.stage = "delete"]
                         ELSE [f EXCEPT !.at = After[f.at]])

\* if (global_x_deleted == false) { global_x_deleted = true;
\*   if (global_pointer_to_x != 0) ... }
CleanExitCheck(f) ==
  IF deleted[f.at]
  THEN SetTop([f EXCEPT !.at = After[f.at]]) /\ UNCHANGED deleted
  ELSE /\ deleted' = [deleted EXCEPT ![f.at] = TRUE]
       /\ SetTop(IF ptr[f.at] THEN [f EXCEPT !.stage = "delete"]
                              ELSE [f EXCEPT !.at = After[f.at]])

\* One step of the innermost clean_exit: test the flag, delete the object,
\* clear its pointer, or exit().
CleanExitStep ==
  /\ frames # <<>> /\ mpc # "exited"
  /\ LET f == Top IN
     CASE f.at = "exit" ->
            /\ mpc' = "exited" /\ exitCode' = f.code
            /\ UNCHANGED <<frames, ptr, deleted, obj, deletes>>
       [] f.stage = "check" ->
            /\ CleanExitCheck(f)
            /\ UNCHANGED <<mpc, ptr, obj, deletes, exitCode>>
       [] f.stage = "delete" ->
            /\ obj' = [obj EXCEPT ![f.at] = "dead"]
            /\ deletes' = [deletes EXCEPT ![f.at] = @ + 1]
            /\ SetTop([f EXCEPT !.stage = "null"])
            /\ UNCHANGED <<mpc, ptr, deleted, exitCode>>
       [] OTHER ->
            /\ ptr' = [ptr EXCEPT ![f.at] = FALSE]
            /\ SetTop([f EXCEPT !.at = After[f.at], !.stage = "check"])
            /\ UNCHANGED <<mpc, deleted, obj, deletes, exitCode>>
  /\ UNCHANGED handling

\* SIGINT and SIGTERM go to ecasound_signal_handler with an empty sa_mask
\* and no SA_NODEFER: a signal is blocked while its own handler runs, the
\* other one is not.  The handler calls clean_exit(128).
Signal ==
  /\ mpc # "exited"
  /\ \E s \in Signals \ handling : handling' = handling \cup {s}
  /\ CleanExit(128)
  /\ UNCHANGED <<mpc, ptr, deleted, obj, deletes, exitCode>>

-----------------------------------------------------------------------------
Init ==
  /\ mpc = "parse"
  /\ frames = <<>>
  /\ handling = {}
  /\ ptr = [o \in Objects |-> FALSE]
  /\ deleted = [o \in Objects |-> FALSE]
  /\ obj = [o \in Objects |-> "none"]
  /\ deletes = [o \in Objects |-> 0]
  /\ exitCode = -1

Main == ParseCommandLine \/ NewSession \/ SetPointer \/ Dispatch
        \/ InteractiveLoopEnds \/ ExecBegins \/ ExecReturns \/ MainEnds

Exited == mpc = "exited" /\ UNCHANGED vars

Next == Main \/ CleanExitStep \/ Signal \/ Exited

Spec == Init /\ [][Next]_vars

-----------------------------------------------------------------------------
(* Properties.                                                             *)

\* No global object is deleted twice, however SIGINT, SIGTERM and main's
\* own clean_exit interleave: the global_*_deleted flags are set before
\* each delete, so a clean_exit nested in another skips what the outer one
\* is deleting.
NoDoubleDelete == \A o \in Objects : deletes[o] <= 1

\* The session (which owns the chainsetup and its audio objects) is never
\* deleted while an engine inside exec still runs them: clean_exit deletes
\* the engine first, and ~ECA_ENGINE stops the realtime devices and the
\* proxy and MIDI server threads, which use those objects.
SessionOutlivesEngine ==
  obj["session"] = "dead" => obj["engine"] # "active"

=============================================================================
