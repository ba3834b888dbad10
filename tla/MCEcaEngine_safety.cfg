\* Interactive (non-batch) engine, looping over a set length, one realtime
\* output, one output that may fail; up to three controller commands.
CONSTANTS
  NInputs = 2
  NOutputs = 2
  ChainInput <- MCChainInput
  ChainOutput <- MCChainOutput
  RtInputs = {}
  RtOutputs = {0}
  FileLen <- MCFileLen
  Buffersize = 2
  SampleRate = 2
  Length = 4
  Looping = TRUE
  Multitrack = FALSE
  InLatency <- MCInLatency
  OutLatency <- MCOutLatency
  PrefillSpace <- MCPrefillSpace
  InChannels <- MCChannels
  OutChannels <- MCChannels
  MaxBuffers = FALSE
  PrefillThresholdConstant = 0
  PrefillBlocksConstant = 3
  DoubleBuffering = TRUE
  UseMidi = FALSE
  FailingOutputs = {1}
  Batch = FALSE
  CtlCommands <- MCCommands
  MaxCommands = 4

SPECIFICATION Spec
INVARIANT InputsTrackPosition
INVARIANT ExitLeavesEngineStopped
PROPERTY ImplementsTransport CommandsEventuallyHandled
