CONSTANTS
  Fan <- SomeFan
  PageSize = 19
  w = w
  z = z
  Word = {w, z}
  Zero = z
  Garbage <- SomeGarbage
  MemoryEnd = 76
  KernelOffset = 38
  KernelSegs <- SomeKernelSegs
  DeviceSegs <- SomeDeviceSegs
  Frame <- SomeFrames
  StackSeg <- SomeStackSeg
  Program <- SomePrograms
  KernelOnly = KernelOnly
SPECIFICATION Spec
INVARIANTS
  TypeOK
  UserIsolated
  SwitchSafe
  SegmentsLoaded
PROPERTIES
  SpacesSpec
