SPECIFICATION FairSpec
CONSTANTS
    MaxTimers = 2
    MaxChanges = 2
    NULL = NULL
INVARIANTS TypeOK NeverStuck RoleInv
PROPERTIES Reconnects RoleSettles Boots
