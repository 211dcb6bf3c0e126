CONSTANTS
    NumSpecial = 5
    Lazy = {2, 3}
    PluginRaises = FALSE
    UmountBusy = FALSE
SPECIFICATION Spec
INVARIANTS
    WorkingEndRaisesNothing
