SPECIFICATION Spec
CONSTANTS
    Groups = {wiki}
    Scopes = {s1}
    Nested = {}
    Invalid = {}
    Wikipedia = wiki
    MaxGroups = 1
    MaxFaults = 0
INVARIANTS OnlyCopyKept
