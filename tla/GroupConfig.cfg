SPECIFICATION Spec
CONSTANTS
    Groups = {wiki, g2}
    Scopes = {s1, s2, sub, bad}
    Nested = {{s1, sub}}
    Invalid = {bad}
    Wikipedia = wiki
    MaxGroups = 2
    MaxFaults = 2
INVARIANTS SessionKept RestartHeals  NoOrphan
