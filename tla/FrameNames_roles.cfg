INIT NamesInit
NEXT NamesNext
CONSTANTS
    MaxName = 5
    MaxCode = 4
INVARIANTS RolesFollowPattern
CHECK_DEADLOCK FALSE
