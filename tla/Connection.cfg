SPECIFICATION Spec
CONSTANTS
  Conn = {c1, c2}
  Platforms = {"posix", "windows"}
  Addresses <- MCAddresses
  BufferSize = 2
  GroupBits = 2
  Width = 4
  Values = {13}
  Securities <- MCSecurities
  ArraySize = 3
  MaxSteps = 1
  MaxRequests = 2
INVARIANTS
  ValuesSurvive
  
CHECK_DEADLOCK FALSE
SYMMETRY MCSymmetry
