# TLA+ models of ecasound

This directory holds TLA+ models of ecasound, checked with TLC:
- the processing engine in `libecasound` (`ECA_ENGINE` and its default driver,
  `src/libecasound/eca-engine.cpp`), with an abstract specification of its
  transport that it is shown to implement;
- the two file audio objects the engine reads (`SNDFILE_INTERFACE`,
  `AUDIOFILE_INTERFACE`);
- the text front end's start-up and signal-driven exit, and its readline
  command completion (`src/ecasound/eca-text.cpp`).

## The system

| Part | Source | State | Operations |
|------|--------|-------|------------|
| Driver loop | `ECA_ENGINE_DEFAULT_DRIVER::exec`, `ECA_ENGINE::exec` (eca-engine.cpp 80-135, 234-269) | exit request; the chainsetup lock | check queue → iterate, or batch break, or wait for commands → `update_engine_state` |
| Command queue | `command`, `interpret_queue` (277-280, 980-1038) | FIFO of (opcode, argument) | the controller pushes; the driver drains |
| Transport | `prepare/start/stop_operation`, `request_start/stop`, `conditional_start/stop`, `start/stop_servers` (507-646, 706-817) | `prepared_rep`, `running_rep`, `was_running_rep`, rt-locks, servers, realtime devices | start, stop, exit |
| Status | `status`, `init_engine_state`, `update_engine_state` (352-459) | `finished_rep`, `inputs_not_finished_rep`, `outputs_finished_rep` | derived: finished > error > running > stopped |
| Iteration | `engine_iteration`, `prehandle/posthandle_control_position`, `inputs_to_chains`, `mix_to_outputs` (466-489, 932-969, 1340-1452) | global position, non-realtime read size, preroll | one buffer through every chain |
| Position | eca-chainsetup-position.cpp | `curpos_rep`, length, looping | seek, truncation to seconds |
| File inputs | `SNDFILE_INTERFACE` (audioio_sndfile.cpp), `AUDIOFILE_INTERFACE` (audioio-af.cpp), `ECA_AUDIO_POSITION::out_position` | open flag, io mode, position, length, `finished_rep`, library handle and its read pointer | `format_query`, `open`, `close`, `read_samples` (a short read sets finished), `seek_position` (clears it) |
| Stop handshake | `wait_for_stop`, `signal_stop` (292-299, 744-750) | condition variable | controller waits, with a timeout |
| Realtime devices, proxy server, EWF, formats | headers only | — | seen by the engine as flags |
| Text front end | src/ecasound/eca-text.cpp | global object pointers and `global_*_deleted` flags | `main`, `parse_command_line`, the interactive loop, `ecasound_clean_exit`, the SIGINT/SIGTERM handler |
| Command completion | `ecasound_completion`, `ecasound_command_generator` (eca-text.cpp 350-401) | the word typed, the generator's static map iterator and state | readline's TAB: one generator call per match, until NULL |

Two threads interact:

- **The driver thread** runs `ECA_ENGINE::exec`.
- **The controller thread** (`ECA_CONTROL`, driven by the text front end)
  does two things:
  - it pushes commands onto the queue;
  - it may block in `wait_for_stop` until `stop_operation` broadcasts.

Only the driver changes engine state. The queue is the single
producer/single consumer channel between the two threads.

## Modules

`EcaEngine.tla` models the whole engine and its controller.

**State.** The variable `eng` is a record holding the engine's members:
- `prepared`, `running`, `finished`, `outputsFinished`, `inputsNotFinished`,
  `wasRunning`, `preroll`;
- the lock/server/device flags;
- the global position `pos` and the non-realtime read size `nrtBuf`;
- per input, the read pointer and finished flag;
- per output, the error flag;
- per chain, the mute/bypass flags;
- `dbc`, which records any failed `DBC_REQUIRE`/`DBC_CHECK`. No run checks
  it: the one violation TLC finds (a `start` after the inputs ran out calls
  `prepare_operation` while still running, line 510) has the same cause as
  finding A, the stop dropped at line 997, and `batch_stop` shows that.

The other variables are:
- `queue`, the command queue;
- `pc`, where the driver is (`new`, `check`, `update`, `done`, and
  `deleted` once `~ECA_ENGINE` has run);
- `sent`, the number of controller commands sent;
- `ctlWait`, the controller's wait: its stage (`none`, `sent`, `waiting`,
  `woken`) and the event it waits on (`stop` for `wait_for_stop`, `exit` for
  `wait_for_exit`).

**Operators and actions.** Each engine function that changes state is an
operator from one record to the next. A handler that calls several functions
is their composition, in code order. For example, `RequestStart` is
`StartOperation(PrepareOperation(Require(..)))`.

The actions are:
- `Exec`;
- `InterpretExit` and `InterpretCommand`, one queue item each. The driver stays
  in `check` until the queue is empty, as the `while` of `interpret_queue` does;
- `EngineIteration`, `BatchFinished` and `WaitForCommands`, the three cases of
  the driver loop;
- `UpdateEngineState`;
- `ExecReturn`, the end of `ECA_ENGINE::exec` (unlock, `signal_exit`,
  `cleanup`), and `Destroy`, the destructor: it calls the driver's `exit`
  only if `csetup_repp` is still set and the engine prepared, then `cleanup`;
- the controller's `Command`, `StopAndWait` and `ExitAndWait` (queue the
  command and arm a wait on its event), `WaitBegins` (enter
  `kvu_pthread_timed_wait`), `WaitWoken` and `WaitTimeout`.

`Commit` stores the new record. When `stop_operation` (`signal_stop`) or
the end of `exec` (`signal_exit`) has broadcast in that step, `Commit` also
wakes a controller already waiting on that event. A broadcast with no
waiter is lost, as a condition-variable broadcast is.

**Abstractions.**
- Audio samples and chain operators are left out.
- A file input is its read pointer and finished flag. `sf_read_raw` returns at
  most what is left of the file.
- `is_over`, `seek_position_in_seconds` and `is_realtime_target_output` are not
  in `src/`; they are modelled from the spec.
- A seek to a negative position is clamped at 0. The code that handles one is
  not in `src/`.

`MCEcaEngine.tla` gives the constants their values:
- 2 inputs and 2 outputs;
- 3 chains: inputs 0,0,1 feeding outputs 0,1,1. This gives an input with two
  chains and an output that mixes two chains;
- file lengths of 5 and 3 samples (8 for the length runs);
- small command sets.

`EngineTransport.tla` is the abstract specification of what the engine
promises a controller: its `status()` and the command queue. The status
changes only by the command at the head of the queue (exit ends the engine,
start runs it, stop stops a running one, anything else leaves it), by the
engine's own progress while running (to finished or error), by
`update_engine_state` (finished, with a stop queued for itself), or by the end
of a batch `exec`. `EcaEngine` instantiates it as `Transport` with `status`
mapped to `Status(eng)` and the controller's commands as its `Commands`, and
the `safety` run checks `ImplementsTransport == Transport!Spec`.

`AudioIO.tla` holds what a file object shares with `AUDIO_IO` and
`ECA_AUDIO_POSITION`: open flag, io mode, position, length, `finished_rep`,
the library handle (`null`, `valid` or `freed`, i.e. dangling), the library's
read pointer `fp`, whether the last open returned normally, and `misuse`, set
by any library call on a freed handle. `OutPosition` is translated as the
header writes it (`pos < 0 && pos > len`). A file on disk is its length; a
library read returns what is left of it, and a library seek past the end
fails and leaves the pointer. `SndfileInterface.tla` and
`AudiofileInterface.tla` EXTEND it with one action per member function:
- sndfile `open` calls `AUDIO_IO::open()` first, so the object is open even
  when `sf_open` fails or the format is unknown; it never seeks to the
  position; `close` does not reset `snd_repp`; `seek_position` calls `sf_seek`
  whatever the state;
- audiofile `format_query` opens and closes the file but keeps the closed
  handle; `open` may fail (still closed) and seeks to a non-zero position;
  `close` (also run by the destructor) acts only on an open object;
  `seek_position` seeks only when open.
The caller may set the io mode of a closed object, open, read, seek and close
in any order the interface allows. `AUDIO_IO` itself is not in `src/`: its
open flag, io mode and `seek_position_in_samples` are modelled from the spec.

`EcaText.tla` models `main` of the text front end as a program counter:
command-line parsing (which may `clean_exit(0)`), the session (an `ECA_ERROR`
ends in `clean_exit(127)`), then the interactive loop or an engine in `exec`,
and `clean_exit(0)` at the end. Each object has its global pointer, its
`global_*_deleted` flag and a life state (`none`, `live`, `active` for the
engine inside `exec`, `dead`). `ecasound_clean_exit` never returns, so its
calls form a stack of frames and only the innermost runs; each step of it is
one line of the code: test and set the flag, delete, clear the pointer, or
`exit`. SIGINT and SIGTERM run the handler, which calls `clean_exit(128)`: the
handler has an empty `sa_mask` and no `SA_NODEFER`, so a signal is blocked
while its own handler runs and the other one may still arrive.

`EcaCompletion.tla` models readline completion. A word is a sequence over
`-`, `_`, `a`, `b`; `StrLess` is `std::string`'s order by character code, and
`MapOrder` lists the registered commands in the order a `std::map` iterator
visits them. `Completion` is `ecasound_completion` (only the first word of a
line is completed) and `CommandGenerator` one call of
`ecasound_command_generator`: state 0 resets the static iterator, and the
`while` loop, `Scan`, advances the iterator before it tests `end()`, as the
code does. `_` is matched as `-`, as `string_search_and_replace` does.

`MCComponents.tla` puts the components that share no state (`EcaText`, one
`SndfileInterface` and one `AudiofileInterface` object with renamed
variables, and `EcaCompletion`) in one model. `active`, chosen in the initial
state, selects the one component a behaviour runs; the others keep their
initial state. Every property is about one component, so it holds of the
product iff it holds of that component, and the disjoint union explores each
component's behaviours without the product of their interleavings. The
engine stays in `MCEcaEngine`, whose runs need different constants.

## Runs

| Run | Result | What it shows |
|-----|--------|---------------|
| `safety` (`MCEcaEngine_safety.cfg`) | pass, 224,465 states | See the list below. |
| `batch` | pass, 34,228 states | `TypeOK`, and `BatchRunEnds`: a started batch run always makes `exec` return, unless the controller stopped it. Output 1 may fail, and the controller may seek or mute. |
| `batch_stop` | violation | Finding A: the stop queued by `update_engine_state` is ignored (line 997). `exec` returns with the engine running, rt devices running and rt-locks held; `cleanup` has cleared `csetup_repp`, so the destructor does not stop it either. |
| `final_read` | violation | Finding B: the final read asks for `position - length` (line 937). With length 4 and buffersize 3 the run reads 5 samples. |
| `replay` | violation | Finding C: the short buffersize is not restored after a non-looped run (line 958). `setpos 0` followed by `start` then lags. |
| `lost_wakeup` | violation | Finding D: `wait_for_stop` and `wait_for_exit` have no predicate. A broadcast before the wait is lost and the wait times out; TLC's shortest trace is an exit that completes before `wait_for_exit` begins. |
| `rt_length` | violation | Finding E: with a realtime output, a length and no looping, the non-realtime read size `position - length` exceeds the buffersize under the rt-lock (line 940). |
| `components` (`MCComponents.cfg`) | pass, 2,449 states | `TextNoDoubleDelete`: whatever the order of main, SIGINT and SIGTERM, no global is deleted twice. One sndfile and one audiofile object, every order of calls: a closed object of either kind holds no open file, even after an open that threw (`SndHandleReleasedWhenClosed`, `AfHandleReleasedWhenClosed`); the audiofile object never calls the library on a freed handle (`AfNoUseOfFreedHandle`) and, for seeks within the file, reads from its position across closes and reopens (`AfReadsFromPosition`). |
| `ecatext_session` | violation | Finding F: a second signal arriving while the first handler deletes the engine skips the engine (its flag is set) and deletes the session while the engine is still in `exec`. |
| `snd_freed` | violation | Finding G: sndfile `close` calls `sf_close` but keeps `snd_repp`, and `seek_position` calls `sf_seek` on it whatever the state. Open, close, then a seek passes the freed `SNDFILE` to libsndfile (line 176). |
| `completion` | violation | Finding H: the generator's loop advances the iterator and then skips the comparison when it reached `end()`, so the last command in map order is never offered. Typing `b` with commands `a`, `a-b`, `b` offers nothing (line 388). |
| `snd_reopen` | violation | Finding I: sndfile `open` never seeks the new `SNDFILE` to the object's position (line 85). A seek to 2 on the closed object (`sf_seek` on a NULL handle does nothing), an open and a read deliver frames 0-1 while the position says 2; a close and a reopen lose the position the same way. The audiofile back end seeks on open. |

The `safety` run is an interactive session with:
- looping at length 4, buffersize 2;
- a realtime output;
- output 1 failing;
- double buffering;
- four controller commands from the full set (start, stop, exit, setpos,
  forward, rewind, setpos_live_samples, c_select, c_mute, c_bypass).

It checks:
- `InputsTrackPosition`: every chained file input has read up to the global
  position;
- `ExitLeavesEngineStopped`: once the engine is deleted, everything is
  stopped;
- `ImplementsTransport`: every step of the engine and the controller is a step
  of `EngineTransport` under the refinement mapping. Among other things this
  says a seek (`conditional_stop`/`conditional_start`) never changes the
  status;
- `CommandsEventuallyHandled`: a queued command is eventually taken off the
  queue unless `exec` has returned (liveness, under the driver's fairness).

Each property of a passing run has a mutant in `PROJECT.json`, and TLC finds
each mutant violated:

| Mutant | Property it violates |
|--------|----------------------|
| `length - position` instead of `position - length` in prehandle | `TypeOK` |
| A seek that keeps `finished_rep` | `InputsTrackPosition` |
| A `stop_operation` that forgets `stop_servers` | `ExitLeavesEngineStopped` |
| A `conditional_stop` without the `was_running_rep = false` branch | `ImplementsTransport` (a later seek restarts a stopped engine) |
| A driver loop that iterates without `check_command_queue` | `CommandsEventuallyHandled` |
| A batch-loop check that only tests for "finished" | `BatchRunEnds` |
| An `init_engine_state` that keeps the output error count | `ImplementsTransport` (error turns back into running) |
| A `clean_exit` that does not consult the deleted flag | `TextNoDoubleDelete` |
| A sndfile `open` that marks the object open only on success | `SndHandleReleasedWhenClosed` |
| An audiofile `format_query` without `afCloseFile` | `AfHandleReleasedWhenClosed` |
| An audiofile `open` that does not seek to the position | `AfReadsFromPosition` |
| An audiofile `close` without the `is_open()` test | `AfNoUseOfFreedHandle` |

### Bounds

- **Controller commands.** `MaxCommands` (4, or 1-3 in the violation runs)
  limits the controller's commands. Four commands are enough for the longest
  interesting sequences: start / setpos / stop / setpos for the `wasRunning`
  reset, and start / stop / wait or exit / wait for the handshakes.
- **Position.** The position is bounded by looping, or by the length and the
  file ends. Iterations stop once the files run out.
- **Buffersize and length.** Buffersize 2 or 3 with length 4 or 5 makes the
  final read short. It also makes loops wrap within a few iterations.
- **File objects.** A 3-sample file, reads of 2 (so the second read is
  short) and seeks to 0 or 2, inside the file, in all three io modes. `MaxPos` (6) stops
  reads once the position is that far; without it the reopen bug lets the
  position grow for ever.
- **Front end.** Each signal can interrupt at most once, because its handler
  never returns and the signal stays blocked; so at most three `clean_exit`
  frames exist, and every interleaving of them with main is explored.
- **Completion.** Three commands, `a`, `a-b` and `b`: one is a prefix of
  another, `-` sorts before letters, and the last in map order matches a
  one-letter word. The words are empty, one character, or a letter followed
  by `_` or `-`, so the `_`→`-` rewriting and prefix matches are reached.

### Fairness

The spec has weak fairness on the driver. Its thread never blocks
indefinitely: `wait_for_commands` polls with a 5-second timeout, and every
other step is computation. The controller is a user and has no fairness.
`CommandsEventuallyHandled` and `BatchRunEnds` rest on this fairness alone:
the driver loop reaches `check_command_queue` on every path. `Destroy` is
part of the driver's fairness because every owner of the engine in the tree
deletes it after `exec` returns.
`Terminated` lets the finished program stutter. `EcaText`, the file objects,
completion and `EngineTransport` have no fairness: their properties are safety
properties, and signals, like callers of a file object, come when they come.

## Not modelled, and the plan

These parts are not modelled:
- the chain-operator opcodes (`cop_select`, `copp_select`, `copp_value`),
  `process_chains` and sample mixing: chain operators are not in `src/`;
- profiling, which only measures;
- the device drivers (OSS, ALSA, aRts): kernel and sound-server I/O, seen by
  the engine as the `rtDevices` flag;
- the proxy server: only its interface is in `src/`;
- `write_samples` of the file objects: sndfile throws in write mode, and the
  audiofile one only hands data to the library;
- inside the interactive loop, each command is handed to `ECA_CONTROL`, which
  is not in `src/`;
- the front end and the engine are not composed: `eca-text.cpp` constructs
  `ECA_ENGINE` from an `ECA_SESSION`, but the engine in `src/` is constructed
  from an `ECA_CHAINSETUP`, so the front end is from another version of the
  library. `EcaText` treats the engine as an object that is in `exec` or not;
- the GUI headers.

`PROJECT.json` lists the hazards, with their notes. Later sittings:

1. Write a spec-modelled proxy-server module (ring buffers, an I/O thread,
   `wait_for_full`/`wait_for_stop`). Check it against an abstract FIFO with
   `INSTANCE ... WITH`, and compose it with the engine's start/stop.
2. The file-object modules already reach a defect that no run checks:
   `out_position` joins its two tests with `&&` (eca-audio-position.h 102),
   so a read object sought past its end is not finished (the spec, §9,
   reads it as `||`). It wants a violation run, as do the preroll count (eca-engine.cpp 546, one iteration fewer
   than the offset needs) and the truncating `fw`/`rw` (line 924). The
   number of runs is what limits this.
3. Compose the file objects with the engine's inputs, replacing the engine's
   own read-pointer abstraction by `SndfileInterface`.
4. Larger engine instances (three inputs, five commands) where TLC allows.
