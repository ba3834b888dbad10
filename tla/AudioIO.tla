------------------------------ MODULE AudioIO ------------------------------
(***************************************************************************)
(* The state a file-backed audio object shares with its base classes      *)
(* (AUDIO_IO, ECA_AUDIO_POSITION) and the library handle it keeps, as     *)
(* seen by a caller that opens, reads, seeks and closes it.  The back    *)
(* ends (SndfileInterface, AudiofileInterface) define the operations.    *)
(*                                                                         *)
(* The file itself is a number of samples, FileLen; data is abstracted to *)
(* where it comes from: the library's read pointer fp.                   *)
(***************************************************************************)
EXTENDS Integers

CONSTANTS
  FileLen,       \* samples in the file on disk
  ReadSizes,     \* buffer sizes a caller reads with
  SeekTargets,   \* positions a caller seeks to
  Modes,         \* io modes the object may be given
  MaxPos         \* reads stop once the position reaches this bound

ASSUME FileLen \in Nat /\ ReadSizes \subseteq Nat \ {0} /\ SeekTargets \subseteq Nat
ASSUME Modes \subseteq {"read", "write", "readwrite"} /\ MaxPos \in Nat

VARIABLES
  isOpen,    \* AUDIO_IO's open flag (is_open())
  mode,      \* io_mode()
  pos,       \* ECA_AUDIO_POSITION position_in_samples_rep
  len,       \* ECA_AUDIO_POSITION length_in_samples_rep
  finished,  \* the back end's finished_rep
  handle,    \* the library handle: "null", "valid" or "freed" (dangling)
  fp,        \* the library's read/write pointer, in samples
  usable,    \* the last open returned without throwing
  misuse     \* a library call was made on a freed handle

vars == <<isOpen, mode, pos, len, finished, handle, fp, usable, misuse>>

Handles == {"null", "valid", "freed"}

\* ECA_AUDIO_POSITION::out_position: "True if current position is beyond
\* the end position or smaller than zero", as the code computes it.
OutPosition == pos < 0 /\ pos > len

\* finished() of both back ends: the flag, or a read object out of position.
IsFinished == finished \/ (mode = "read" /\ OutPosition)

\* A library call on the handle: one on a freed handle is a use after free.
UseHandle == misuse' = (misuse \/ handle = "freed")

\* Samples a library read of n returns: what is left of the file.
LibRead(n) == IF fp >= FileLen THEN 0 ELSE IF n < FileLen - fp THEN n ELSE FileLen - fp

\* sf_seek/afSeekFrame: a seek past the end of the file fails and leaves
\* the pointer where it was.
LibSeek(p) == IF p <= FileLen THEN p ELSE fp

\* The caller may change the io mode of a closed object (set_io_mode).
SetIoMode ==
  /\ ~isOpen
  /\ \E m \in Modes : mode' = m
  /\ UNCHANGED <<isOpen, pos, len, finished, handle, fp, usable, misuse>>

InitState(m) ==
  /\ isOpen = FALSE /\ mode = m /\ pos = 0 /\ len = 0 /\ finished = FALSE
  /\ handle = "null" /\ fp = 0 /\ usable = FALSE /\ misuse = FALSE

=============================================================================
