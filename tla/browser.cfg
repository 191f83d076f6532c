SPECIFICATION FairSpec
CONSTANTS
    MaxMessages = 3
    MaxChanges = 3
INVARIANTS EndIsFinal
PROPERTIES KeepsContract PromiseSettles
CHECK_DEADLOCK FALSE
