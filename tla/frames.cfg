CONSTANTS
  StartPpn = 3
  EndPpn = 10
  FirstSingle = 16
SPECIFICATION Spec
INVARIANTS
  TypeOK
  TreeExact
  DescentFree
PROPERTIES
  FramePoolSpec
