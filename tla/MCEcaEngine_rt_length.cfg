\* Batch run of length 4 to a realtime output, not looped.
CONSTANTS
  NInputs = 2
  NOutputs = 2
  ChainInput <- MCChainInput
  ChainOutput <- MCChainOutput
  OutLatency <- MCOutLatency
  PrefillSpace <- MCPrefillSpace
  InChannels <- MCChannels
  OutChannels <- MCChannels
  MaxBuffers = FALSE
  PrefillThresholdConstant = 0
  PrefillBlocksConstant = 3
  UseMidi = FALSE
  DoubleBuffering = FALSE
  FailingOutputs = {}
  FileLen <- MCLongFile
  Looping = FALSE
  InLatency <- MCInLatency
  Multitrack = FALSE
  RtInputs = {}
  RtOutputs = {0}
  Buffersize = 2
  SampleRate = 2
  Length = 4
  Batch = TRUE
  CtlCommands <- MCStart
  MaxCommands = 1

SPECIFICATION Spec
INVARIANT RtLockedReadsFitBuffer
