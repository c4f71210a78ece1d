CONSTANTS Size = 4 MaxRows = 4 MaxAsks = 2 MaxLists = 0
SPECIFICATION Spec
CHECK_DEADLOCK FALSE
INVARIANT XIsOnFocused
