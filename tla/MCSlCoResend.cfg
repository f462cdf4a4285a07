CONSTANTS
    MaxResend = 3
    AckBranches = {k1, k2}
    ByesOfA = {a1}
    ByesOfB = {b1}
SPECIFICATION Spec
CHECK_DEADLOCK FALSE
PROPERTIES
    AlarmResendsInvite
