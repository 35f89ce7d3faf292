\* Two clients and another thread; a table of two slots.
SPECIFICATION Spec
CONSTANTS
    Threads = {1, 2, 3}
    Index <- TwoClients
    NumSlots = 2
    MaxCalls = 2
INVARIANTS
    RegisteredIsManaged SlotIsOwn DroppedOnlyWhenFull
CHECK_DEADLOCK FALSE
