\* Batch file-to-file run with a realtime output, no set length: the
\* inputs run out and update_engine_state queues a stop.
CONSTANTS
  NInputs = 2
  NOutputs = 2
  ChainInput <- MCChainInput
  ChainOutput <- MCChainOutput
  InLatency <- MCInLatency
  OutLatency <- MCOutLatency
  PrefillSpace <- MCPrefillSpace
  InChannels <- MCChannels
  OutChannels <- MCChannels
  MaxBuffers = FALSE
  PrefillThresholdConstant = 0
  PrefillBlocksConstant = 3
  UseMidi = FALSE
  Multitrack = FALSE
  RtInputs = {}
  RtOutputs = {0}
  FileLen <- MCFileLen
  Buffersize = 2
  SampleRate = 2
  Length = 0
  Looping = FALSE
  DoubleBuffering = TRUE
  FailingOutputs = {}
  Batch = TRUE
  CtlCommands <- MCStart
  MaxCommands = 1

SPECIFICATION Spec
INVARIANT ExitLeavesEngineStopped
