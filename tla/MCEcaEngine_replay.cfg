\* Interactive run of length 5 (not a multiple of the buffersize 2), not
\* looped: play to the end, seek back to the start, play again.
CONSTANTS
  NInputs = 2
  NOutputs = 2
  ChainInput <- MCChainInput
  ChainOutput <- MCChainOutput
  InLatency <- MCInLatency
  OutLatency <- MCOutLatency
  PrefillSpace <- MCPrefillSpace
  InChannels <- MCChannels
  OutChannels <- MCChannels
  MaxBuffers = FALSE
  PrefillThresholdConstant = 0
  PrefillBlocksConstant = 3
  UseMidi = FALSE
  Multitrack = FALSE
  RtInputs = {}
  RtOutputs = {}
  FileLen <- MCLongFile
  Buffersize = 2
  SampleRate = 2
  Length = 5
  Looping = FALSE
  DoubleBuffering = FALSE
  FailingOutputs = {}
  Batch = FALSE
  CtlCommands <- MCReplay
  MaxCommands = 3

SPECIFICATION Spec
INVARIANT InputsTrackPosition
