SPECIFICATION Spec
CONSTANTS
    Device = {d1}
    Attempt = {a1}
    None = None
    d1 = d1
    a1 = a1
SYMMETRY Symmetry
INVARIANTS
    PromptCanBeApproved
CHECK_DEADLOCK FALSE
