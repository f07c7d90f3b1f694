SPECIFICATION Spec
CONSTANTS
    Builds = {A, B}
    Torn = Torn
    None = None
    MaxSeq = 4
INVARIANTS TypeOK AlwaysBoots OwnDataOnly
