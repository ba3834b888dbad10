-------------------------- MODULE SndfileInterface --------------------------
(***************************************************************************)
(* SNDFILE_INTERFACE (src/libecasound/plugins/audioio_sndfile.cpp): a    *)
(* file object read through libsndfile.  Its caller opens, reads, seeks  *)
(* and closes it in any order the AUDIO_IO interface allows: reads only  *)
(* on an object opened without error and not finished, close only on an *)
(* open object (the destructor tests is_open() first).                   *)
(***************************************************************************)
EXTENDS AudioIO

\* Mutant: AUDIO_IO::open() called only once the file is open and known.
OpenMarkedLate ==
  /\ ~isOpen
  /\ \/ /\ mode = "read"
        /\ \/ /\ handle' = "null" /\ usable' = FALSE
              /\ UNCHANGED <<fp, len, isOpen>>
           \/ /\ handle' = "valid" /\ fp' = 0 /\ usable' = FALSE
              /\ UNCHANGED <<len, isOpen>>
           \/ /\ handle' = "valid" /\ fp' = 0 /\ len' = FileLen
              /\ usable' = TRUE /\ isOpen' = TRUE
     \/ /\ mode # "read"
        /\ usable' = FALSE
        /\ UNCHANGED <<handle, fp, len, isOpen>>
  /\ UNCHANGED <<mode, pos, finished, misuse>>

\* open(): AUDIO_IO::open() marks the object open first.  In read mode
\* sf_open may fail (SETUP_ERROR, snd_repp = NULL), may open a file of an
\* unknown sample format (SETUP_ERROR, file left open), or succeed, and
\* the length is then the file's frame count.  The file pointer is at 0:
\* the position is not sought.  Write and read-write modes throw.
Open ==
  /\ ~isOpen
  /\ isOpen' = TRUE
  /\ \/ /\ mode = "read"
        /\ \/ /\ handle' = "null" /\ usable' = FALSE
              /\ UNCHANGED <<fp, len>>
           \/ /\ handle' = "valid" /\ fp' = 0 /\ usable' = FALSE
              /\ UNCHANGED len
           \/ /\ handle' = "valid" /\ fp' = 0 /\ len' = FileLen
              /\ usable' = TRUE
     \/ /\ mode # "read"
        /\ usable' = FALSE
        /\ UNCHANGED <<handle, fp, len>>
  /\ UNCHANGED <<mode, pos, finished, misuse>>

\* close(): AUDIO_IO::close(), then sf_close if snd_repp is not 0; the
\* pointer is not reset.
Close ==
  /\ isOpen
  /\ isOpen' = FALSE
  /\ usable' = FALSE
  /\ IF handle # "null"
     THEN UseHandle /\ handle' = "freed"
     ELSE UNCHANGED <<handle, misuse>>
  /\ UNCHANGED <<mode, pos, len, finished, fp>>

\* read_buffer -> read_samples(n): sf_read_raw, finished when short; the
\* position advances by what was read.
ReadBuffer(n) ==
  /\ isOpen /\ usable /\ mode = "read" /\ ~IsFinished
  /\ pos < MaxPos
  /\ UseHandle
  /\ fp' = fp + LibRead(n)
  /\ finished' = (LibRead(n) < n)
  /\ pos' = pos + LibRead(n)
  /\ UNCHANGED <<isOpen, mode, len, handle, usable>>

\* seek_position_in_samples(p) -> seek_position(): sf_seek on snd_repp
\* whatever the object's state (libsndfile rejects a NULL handle), and
\* finished_rep cleared.
SeekPosition(p) ==
  /\ pos' = p
  /\ UseHandle
  /\ fp' = IF handle = "valid" THEN LibSeek(p) ELSE fp
  /\ finished' = FALSE
  /\ UNCHANGED <<isOpen, mode, len, handle, usable>>

Init == \E m \in Modes : InitState(m)

Next ==
  \/ Open \/ Close \/ SetIoMode
  \/ \E n \in ReadSizes : ReadBuffer(n)
  \/ \E p \in SeekTargets : SeekPosition(p)

Spec == Init /\ [][Next]_vars

-----------------------------------------------------------------------------
(* Properties.                                                             *)

\* A closed object holds no open libsndfile handle: an open that throws
\* after sf_open succeeded (unknown sample format) leaves the object marked
\* open, so the caller's close releases the file.
HandleReleasedWhenClosed == ~isOpen => handle # "valid"

\* Every read delivers the samples at the object's position: the SNDFILE's
\* pointer is at position_in_samples() when read_samples calls sf_read_raw,
\* after any seeks (open or closed), reads, closes and reopens.
ReadsFromPosition ==
  [][(\E n \in ReadSizes : ReadBuffer(n)) => fp = pos]_vars

\* No libsndfile call is made on a SNDFILE that sf_close has released:
\* seek_position, reached through seek_position_in_samples on a closed
\* object, must not pass the stale snd_repp to sf_seek.
NoUseOfFreedHandle == ~misuse

=============================================================================
