CONSTANTS
  Bytes = {"A", "B", "C", "x", "y"}
  Data = {"x", "y"}
  Header <- MCHeader
  FrameLen = 5
  MaxNoise = 1
SPECIFICATION UartSpec
PROPERTY HeaderErrorMeansInterrupted
