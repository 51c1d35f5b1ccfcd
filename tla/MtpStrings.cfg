SPECIFICATION StringsSpec
CONSTANTS
  Units = {0, 127, 128, 2047, 2048, 55357}
  Bytes = {65, 128, 195, 226, 240}
  MaxString = 4
  BufferSize = 8
  LengthMod = 4
INVARIANTS Terminated RoundTrip LengthAgrees
CHECK_DEADLOCK FALSE
