\* Interactive run; the controller starts the engine, then stops it and
\* waits for the stop signal.
CONSTANTS
  NInputs = 2
  NOutputs = 2
  ChainInput <- MCChainInput
  ChainOutput <- MCChainOutput
  InLatency <- MCInLatency
  OutLatency <- MCOutLatency
  PrefillSpace <- MCPrefillSpace
  InChannels <- MCChannels
  OutChannels <- MCChannels
  MaxBuffers = FALSE
  PrefillThresholdConstant = 0
  PrefillBlocksConstant = 3
  UseMidi = FALSE
  Multitrack = FALSE
  RtInputs = {}
  RtOutputs = {}
  FileLen <- MCFileLen
  Buffersize = 2
  SampleRate = 2
  Length = 0
  Looping = FALSE
  DoubleBuffering = FALSE
  FailingOutputs = {}
  Batch = FALSE
  CtlCommands <- MCStart
  MaxCommands = 2

SPECIFICATION Spec
PROPERTY WaitNotMissed
