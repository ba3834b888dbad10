\* Readline completion of a first word over three registered commands,
\* the last of them in map order being "b".
CONSTANTS
  Components = {"completion"}
  FileLen = 3
  ReadSizes = {2}
  SeekTargets = {0, 2}
  Modes = {"read", "write", "readwrite"}
  MaxPos = 6

SPECIFICATION CSpec
INVARIANT CompletionOffersAllMatches
