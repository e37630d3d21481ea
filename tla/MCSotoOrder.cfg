CONSTANT
  Display = {"signal"}
SPECIFICATION Spec
INVARIANT
  DeallocationOrder
