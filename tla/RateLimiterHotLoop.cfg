CONSTANTS
    Items = {i1}
    BaseExp = 6
    MaxExp = 12
    MaxFailures = 20
SPECIFICATION Spec
INVARIANTS
    NoHotLoop
