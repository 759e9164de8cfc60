SPECIFICATION LiveSpec
CONSTANTS
  Viewer = {"r1"}
  Uploader = {"u1"}
  Sample = {"s1"}
  Uploads = 1
INVARIANTS GenuineFailureReported
CHECK_DEADLOCK FALSE
