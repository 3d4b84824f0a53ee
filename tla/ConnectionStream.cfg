SPECIFICATION CSpec
CONSTANTS
  TCPBufferSize = 2
  KernelBuffer = 2
  MaxBurst = 2
  MaxBytes = 3
INVARIANTS ReturnedConfigured InOrderOnce LossOnlyByShortSend
PROPERTY EveryByteArrives
