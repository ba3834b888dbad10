\* Batch file-to-file run of length 4 with buffersize 3 and longer files.
CONSTANTS
  NInputs = 2
  NOutputs = 2
  ChainInput <- MCChainInput
  ChainOutput <- MCChainOutput
  InLatency <- MCInLatency
  OutLatency <- MCOutLatency
  PrefillSpace <- MCPrefillSpace
  InChannels <- MCChannels
  OutChannels <- MCChannels
  MaxBuffers = FALSE
  PrefillThresholdConstant = 0
  PrefillBlocksConstant = 3
  UseMidi = FALSE
  Multitrack = FALSE
  RtInputs = {}
  RtOutputs = {}
  FileLen <- MCLongFile
  Buffersize = 3
  SampleRate = 3
  Length = 4
  Looping = FALSE
  DoubleBuffering = FALSE
  FailingOutputs = {}
  Batch = TRUE
  CtlCommands <- MCStart
  MaxCommands = 1

SPECIFICATION Spec
INVARIANT LengthReadExactly
