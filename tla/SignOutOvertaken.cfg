SPECIFICATION Spec
CONSTANTS
    Browsers = {b1}
    MaxCalls = 3
INVARIANT
    SignedOutStaysOut
CHECK_DEADLOCK FALSE
