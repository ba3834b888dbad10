------------------------- MODULE AudiofileInterface -------------------------
(***************************************************************************)
(* AUDIOFILE_INTERFACE (src/libecasound/src/audioio-af.cpp): a file       *)
(* object read through libaudiofile.  The caller may query the format of *)
(* a closed object, open it, read, seek, and close it; close and the     *)
(* destructor may be called on a closed object, as ~AUDIOFILE_INTERFACE  *)
(* calls close() unconditionally.                                        *)
(***************************************************************************)
EXTENDS AudioIO

\* Mutant: format_query that forgets afCloseFile.
FormatQueryLeavesOpen ==
  /\ ~isOpen
  /\ \/ mode # "read" /\ UNCHANGED <<handle, len>>
     \/ mode = "read" /\ handle' = "null" /\ UNCHANGED len
     \/ mode = "read" /\ handle' = "valid" /\ len' = FileLen
  /\ UNCHANGED <<isOpen, mode, pos, finished, fp, usable, misuse>>

\* format_query (assert !is_open()): in read mode the file is opened with
\* afOpenFile, which may fail (ECA_ERROR), its length taken, and closed
\* again; afhandle keeps the closed handle.
FormatQuery ==
  /\ ~isOpen
  /\ \/ mode # "read" /\ UNCHANGED <<handle, len>>
     \/ mode = "read" /\ handle' = "null" /\ UNCHANGED len
     \/ mode = "read" /\ handle' = "freed" /\ len' = FileLen
  /\ UNCHANGED <<isOpen, mode, pos, finished, fp, usable, misuse>>

\* seek_position: afSeekFrame only if the object is open; finished_rep
\* cleared.  p is the position the caller has set.
SeekFile(p) ==
  /\ fp' = IF isOpen THEN LibSeek(p) ELSE fp
  /\ finished' = FALSE

\* Mutant: an open that does not seek to a preset position.
OpenNoSeek ==
  /\ ~isOpen
  /\ \/ /\ mode \in {"read", "write"}
        /\ \/ handle' = "null" /\ UNCHANGED <<isOpen, fp, finished, usable>>
           \/ /\ handle' = "valid" /\ isOpen' = TRUE /\ usable' = TRUE
              /\ fp' = 0 /\ UNCHANGED finished
     \/ mode = "readwrite" /\ UNCHANGED <<handle, isOpen, fp, finished, usable>>
  /\ UNCHANGED <<mode, pos, len, misuse>>

\* open(): afOpenFile in read or write mode (the file format chosen from
\* the name's extension), which may fail (ECA_ERROR, still closed); read-
\* write throws.  Once open, toggle_open_state(true), and if the position
\* is not 0, seek_position().
Open ==
  /\ ~isOpen
  /\ \/ /\ mode \in {"read", "write"}
        /\ \/ handle' = "null" /\ UNCHANGED <<isOpen, fp, finished, usable>>
           \/ /\ handle' = "valid" /\ isOpen' = TRUE /\ usable' = TRUE
              /\ fp' = IF pos # 0 /\ pos <= FileLen THEN pos ELSE 0
              /\ finished' = IF pos # 0 THEN FALSE ELSE finished
     \/ mode = "readwrite" /\ UNCHANGED <<handle, isOpen, fp, finished, usable>>
  /\ UNCHANGED <<mode, pos, len, misuse>>

\* Mutant: close without the is_open() test.
CloseUnchecked ==
  /\ UseHandle
  /\ handle' = IF handle = "null" THEN "null" ELSE "freed"
  /\ isOpen' = FALSE /\ usable' = FALSE
  /\ UNCHANGED <<mode, pos, len, finished, fp>>

\* close(), also run by the destructor: afCloseFile and
\* toggle_open_state(false) if the object is open.
Close ==
  IF isOpen
  THEN /\ UseHandle /\ handle' = "freed"
       /\ isOpen' = FALSE /\ usable' = FALSE
       /\ UNCHANGED <<mode, pos, len, finished, fp>>
  ELSE UNCHANGED vars

\* read_buffer -> read_samples(n): afReadFrames, finished when short; the
\* position advances by what was read.
ReadBuffer(n) ==
  /\ isOpen /\ usable /\ mode = "read" /\ ~IsFinished
  /\ pos < MaxPos
  /\ UseHandle
  /\ fp' = fp + LibRead(n)
  /\ finished' = (LibRead(n) < n)
  /\ pos' = pos + LibRead(n)
  /\ UNCHANGED <<isOpen, mode, len, handle, usable>>

\* seek_position_in_samples(p) -> seek_position().
SeekPosition(p) ==
  /\ pos' = p
  /\ SeekFile(p)
  /\ UNCHANGED <<isOpen, mode, len, handle, usable, misuse>>

Init == \E m \in Modes : InitState(m)

Next ==
  \/ FormatQuery \/ Open \/ Close \/ SetIoMode
  \/ \E n \in ReadSizes : ReadBuffer(n)
  \/ \E p \in SeekTargets : SeekPosition(p)

Spec == Init /\ [][Next]_vars

-----------------------------------------------------------------------------
(* Properties.                                                             *)

\* A closed object holds no open libaudiofile handle: format_query closes
\* the file it opened, and an open that fails leaves nothing open.
HandleReleasedWhenClosed == ~isOpen => handle # "valid"

\* Every read delivers the samples at the object's position: the library's
\* file pointer is at position_in_samples() when read_buffer is called,
\* after any seeks (open or closed), reads, closes and reopens.
ReadsFromPosition ==
  [][(\E n \in ReadSizes : ReadBuffer(n)) => fp = pos]_vars

\* No libaudiofile call is made on a handle that afCloseFile has released,
\* even when close() is called again by the destructor.
NoUseOfFreedHandle == ~misuse

=============================================================================
