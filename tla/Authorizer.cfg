SPECIFICATION Spec
CONSTANTS
    Profiles = {a, b}
    Platforms = {"linux", "windows"}
    MaxAuthFail = 2
    MaxCreds = 3
    MaxWipes = 1
    MaxFaults = 2
INVARIANTS   ProfilesApart KekKept
