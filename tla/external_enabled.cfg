CONSTANTS
  User = {u1}
SPECIFICATION Spec
INVARIANT ExternalEnabled
