CONSTANTS
  RingSize = 3
  Frames = {"a", "b"}
  Outgoing = {"x", "y"}
  FrameSize = 4
  FirstByte = 0
  FirstSendByte = 0
  Distance = 8
  SendsAhead = 2
SPECIFICATION Spec
INVARIANT PrintsTheFrame
