SPECIFICATION Spec
CONSTANTS
    Keys = {k1, k2, k3, k4}
    MaxSize = 3
    Budget = 6
    MaxObject = 2
    MaxPartials = 2
INVARIANT BudgetExact
PROPERTY EvictsOldestForRoom
PROPERTY ImplementsSlots
