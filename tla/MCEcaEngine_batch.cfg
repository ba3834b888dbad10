\* Batch run of set length 4 with MIDI, output 1 may fail; the controller
\* starts the engine and may seek or mute chains.
CONSTANTS
  NInputs = 2
  NOutputs = 2
  ChainInput <- MCChainInput
  ChainOutput <- MCChainOutput
  InLatency <- MCInLatency
  OutLatency <- MCOutLatency
  PrefillSpace <- MCPrefillSpace
  InChannels <- MCChannels
  OutChannels <- MCChannels
  MaxBuffers = FALSE
  PrefillThresholdConstant = 0
  PrefillBlocksConstant = 3
  UseMidi = TRUE
  Multitrack = FALSE
  RtInputs = {}
  RtOutputs = {}
  FileLen <- MCFileLen
  Buffersize = 2
  SampleRate = 2
  Length = 4
  Looping = FALSE
  DoubleBuffering = FALSE
  FailingOutputs = {1}
  Batch = TRUE
  CtlCommands <- MCBatchCommands
  MaxCommands = 4

SPECIFICATION Spec
INVARIANT TypeOK
PROPERTY BatchRunEnds
