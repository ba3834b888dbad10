\* One libsndfile object driven through every order of open, read, seek
\* and close.
CONSTANTS
  Components = {"snd"}
  FileLen = 3
  ReadSizes = {2}
  SeekTargets = {0, 2}
  Modes = {"read", "write", "readwrite"}
  MaxPos = 6

SPECIFICATION CSpec
INVARIANT SndNoUseOfFreedHandle
