\* One libsndfile object: a seek while closed, or a close and a reopen,
\* followed by a read.
CONSTANTS
  Components = {"snd"}
  FileLen = 3
  ReadSizes = {2}
  SeekTargets = {0, 2}
  Modes = {"read", "write", "readwrite"}
  MaxPos = 6

SPECIFICATION CSpec
PROPERTY SndReadsFromPosition
