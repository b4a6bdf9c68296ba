SPECIFICATION Spec
CONSTANTS
    Kind = {"transport", "capture", "input"}
    Caller = {c1, c2}
    Run = {r1, r2}
    MaxQuits = 1
    None = None
SYMMETRY Symmetry
INVARIANTS FlagHasAnOwner OneTestAtATime ResultsAreOwn
