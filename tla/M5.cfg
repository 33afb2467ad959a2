CONSTANTS
  Divide16 = 2
  Divide256 = 3
  MaxConstant = 2
  CK2Half = 2
  Blocks = {5}
  TimeConstants = {1, 2}
  Stored <- MCStored
  Words <- MCWords
SPECIFICATION Spec
INVARIANTS SavedStateLoads WiresAgree AcceptedHasSource RetiEndsLatest SkippingIsExact
