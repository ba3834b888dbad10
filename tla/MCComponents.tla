---------------------------- MODULE MCComponents ----------------------------
(***************************************************************************)
(* The components that share no state with each other, checked in one    *)
(* model: the text front end (EcaText), a libsndfile and a libaudiofile  *)
(* file object (SndfileInterface, AudiofileInterface) and readline       *)
(* command completion (EcaCompletion).                                   *)
(*                                                                         *)
(* Since no component reads another's variables, every property is about *)
(* one of them and holds of the product iff it holds of that component   *)
(* alone; so a behaviour runs exactly one component, chosen by `active`  *)
(* among Components, and the others keep their initial state.  This     *)
(* explores each component's behaviours without the product of their    *)
(* interleavings.                                                         *)
(***************************************************************************)
EXTENDS TLC

CONSTANTS
  Components,                            \* components a behaviour may run
  FileLen, ReadSizes, SeekTargets, Modes, MaxPos   \* the file objects

VARIABLES
  active,
  mpc, frames, handling, ptr, deleted, obj, deletes, exitCode,
  sIsOpen, sMode, sPos, sLen, sFinished, sHandle, sFp, sUsable, sMisuse,
  aIsOpen, aMode, aPos, aLen, aFinished, aHandle, aFp, aUsable, aMisuse,
  text, first, state, p, offered, phase

textVars == <<mpc, frames, handling, ptr, deleted, obj, deletes, exitCode>>
sVars    == <<sIsOpen, sMode, sPos, sLen, sFinished, sHandle, sFp, sUsable, sMisuse>>
aVars    == <<aIsOpen, aMode, aPos, aLen, aFinished, aHandle, aFp, aUsable, aMisuse>>
compVars == <<text, first, state, p, offered, phase>>
allVars  == <<active, textVars, sVars, aVars, compVars>>

ASSUME Components \subseteq {"text", "snd", "af", "completion"}

\* Command names and typed words over "-", "_", "a" and "b", with their
\* ASCII codes; the map's order puts "a" before "a-b" before "b".
MCCode == ("-" :> 45) @@ ("_" :> 95) @@ ("a" :> 97) @@ ("b" :> 98)
MCRegistered == {<<"a">>, <<"a", "-", "b">>, <<"b">>}
MCTexts == {<<>>} \cup {<<c>> : c \in {"a", "b", "_"}}
                  \cup {<<c, d>> : c \in {"a", "b"}, d \in {"_", "-"}}

Text == INSTANCE EcaText

Snd == INSTANCE SndfileInterface
         WITH isOpen <- sIsOpen, mode <- sMode, pos <- sPos, len <- sLen,
              finished <- sFinished, handle <- sHandle, fp <- sFp,
              usable <- sUsable, misuse <- sMisuse

Af == INSTANCE AudiofileInterface
        WITH isOpen <- aIsOpen, mode <- aMode, pos <- aPos, len <- aLen,
             finished <- aFinished, handle <- aHandle, fp <- aFp,
             usable <- aUsable, misuse <- aMisuse

Comp == INSTANCE EcaCompletion
          WITH Registered <- MCRegistered, Texts <- MCTexts, Code <- MCCode

\* A step of component c, the others unchanged.
Runs(c, step) ==
  /\ active = c
  /\ step
  /\ UNCHANGED active
  /\ c # "text" => UNCHANGED textVars
  /\ c # "snd" => UNCHANGED sVars
  /\ c # "af" => UNCHANGED aVars
  /\ c # "completion" => UNCHANGED compVars

CInit ==
  /\ active \in Components
  /\ Text!Init /\ Comp!Init
  \* an object that does not run keeps one of its initial states
  /\ IF active = "snd" THEN Snd!Init ELSE Snd!InitState("read")
  /\ IF active = "af" THEN Af!Init ELSE Af!InitState("read")

CNext ==
  \/ Runs("text", Text!Next)
  \/ Runs("snd", Snd!Next)
  \/ Runs("af", Af!Next)
  \/ Runs("completion", Comp!Next)

\* No fairness: signals, callers of a file object and the user at the
\* keyboard act when they act, and every property is a safety property.
CSpec == CInit /\ [][CNext]_allVars

-----------------------------------------------------------------------------
(* Properties, each about one component.                                   *)

\* No global object of the front end is deleted twice, however SIGINT,
\* SIGTERM and main's own ecasound_clean_exit interleave.
TextNoDoubleDelete == Text!NoDoubleDelete

\* A closed libsndfile object holds no open file: an open that throws
\* after sf_open succeeded (unknown sample format) leaves the object marked
\* open, so the caller's close releases the file.
SndHandleReleasedWhenClosed == Snd!HandleReleasedWhenClosed

\* Every libsndfile read delivers the samples at the object's position,
\* also after a seek made while the object was closed, or a close and a
\* reopen: the new SNDFILE starts at frame 0 and open does not seek.
SndReadsFromPosition == Snd!ReadsFromPosition

\* No libsndfile call is made on a SNDFILE that sf_close has released.
SndNoUseOfFreedHandle == Snd!NoUseOfFreedHandle

\* A closed libaudiofile object holds no open file: format_query closes
\* the file it opened, and an open that fails leaves nothing open.
AfHandleReleasedWhenClosed == Af!HandleReleasedWhenClosed

\* No libaudiofile call is made on a handle that afCloseFile released, even
\* when close() runs again from the destructor or after format_query.
AfNoUseOfFreedHandle == Af!NoUseOfFreedHandle

\* Every libaudiofile read delivers the samples at the object's position,
\* after any seeks (open or closed) within the file, reads, closes and
\* reopens: open seeks to a preset position.
AfReadsFromPosition == Af!ReadsFromPosition

\* Readline is offered every command the typed first word partially
\* matches, once ecasound_command_generator has returned NULL.
CompletionOffersAllMatches == Comp!CompletionOffersAllMatches

=============================================================================
