SPECIFICATION Spec

PROPERTIES
    CancelLeavesRegistration
CHECK_DEADLOCK FALSE
