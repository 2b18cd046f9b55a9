\* One backend from up to down, with every mishap.
SPECIFICATION Spec
CONSTANTS
    Faults = {"slow", "lost", "vanish", "crash", "alarm"}
INVARIANTS
    TypeOK
    InStep
    NothingLeft
    RulesKeepRedirector
PROPERTIES
    OutcomesAsDelivered
    CallsReturn
    HelperLeaves
\* A backend is used once.
CHECK_DEADLOCK FALSE
