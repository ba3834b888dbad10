\* Every component on its own: the front end, one object of each file
\* back end, and command completion.
CONSTANTS
  Components = {"text", "snd", "af", "completion"}
  FileLen = 3
  ReadSizes = {2}
  SeekTargets = {0, 2}
  Modes = {"read", "write", "readwrite"}
  MaxPos = 6

SPECIFICATION CSpec
INVARIANT TextNoDoubleDelete
INVARIANT SndHandleReleasedWhenClosed
INVARIANT AfHandleReleasedWhenClosed
INVARIANT AfNoUseOfFreedHandle
PROPERTY AfReadsFromPosition
