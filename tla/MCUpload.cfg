SPECIFICATION Spec
CONSTANTS
  HANDSHAKE <- MCHandshake
  UPDATE <- MCUpdate
  Noise <- MCNoise
  ImgMax = 3
  MaxBlocks = 5
  DATA_BLOCK_RETRIES = 3
  Latency = FALSE
INVARIANTS
  UpdateTypeOK
  HandshakeLands
  ImageInPlace
  OnlyWholeImages
PROPERTIES
  UpdaterEnds
CHECK_DEADLOCK FALSE
