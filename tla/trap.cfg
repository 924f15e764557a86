CONSTANTS
  User = {u1, u2}
SPECIFICATION Spec
INVARIANTS
  TypeOK
  PrivilegeSeparated
  HandlerCanRun
  NotInterrupted
  FramesPreemptible
