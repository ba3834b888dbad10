---------------------------- MODULE MCEcaEngine ----------------------------
(***************************************************************************)
(* Small chainsetups for model checking EcaEngine.                         *)
(*                                                                         *)
(* Graph: input 0 fans out to chains 0 and 1, input 1 feeds chain 2;      *)
(* output 0 is fed by chain 0 only, output 1 mixes chains 1 and 2.        *)
(* Buffersize 2 at 2 samples per second, so a second is one buffer and    *)
(* whole-second seeks land on buffer boundaries or between them.          *)
(***************************************************************************)
EXTENDS EcaEngine, TLC

MCChainInput  == (0 :> 0) @@ (1 :> 0) @@ (2 :> 1)
MCChainOutput == (0 :> 0) @@ (1 :> 1) @@ (2 :> 1)
MCFileLen     == (0 :> 5) @@ (1 :> 3)

MCInLatency   == [i \in 0..1 |-> 0]
MCOutLatency  == [o \in 0..1 |-> 0]
MCPrefillSpace == [o \in 0..1 |-> 0]
MCChannels    == [x \in 0..1 |-> 2]

\* The commands an interactive controller sends.
MCCommands ==
  { [op |-> "start", arg |-> 0], [op |-> "stop", arg |-> 0],
    [op |-> "exit", arg |-> 0],
    [op |-> "setpos", arg |-> 0], [op |-> "forward", arg |-> 1],
    [op |-> "rewind", arg |-> 1], [op |-> "setpos_live_samples", arg |-> 3],
    [op |-> "c_select", arg |-> 1], [op |-> "c_mute", arg |-> 0],
    [op |-> "c_bypass", arg |-> 0] }

\* A batch run is started by one start command.
MCStart == { [op |-> "start", arg |-> 0] }

\* Start, and after the end seek back to the beginning to play it again.
MCReplay == { [op |-> "start", arg |-> 0], [op |-> "setpos", arg |-> 0] }

\* What a batch session may send besides start: seeks and chain toggles.
MCBatchCommands ==
  { [op |-> "start", arg |-> 0], [op |-> "setpos", arg |-> 1],
    [op |-> "setpos_live_samples", arg |-> 1], [op |-> "c_mute", arg |-> 0] }

\* Files longer than the length, for the length checks.
MCLongFile == (0 :> 8) @@ (1 :> 8)

=============================================================================
