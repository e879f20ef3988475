SPECIFICATION FairSpec
CONSTANTS
    Clients = {c1, c2}
    Profiles = {p1, p2}
    Hosts = {h1, h2}
    MaxKills = 1
    MaxDrops = 1
INVARIANTS OneHost LegacyTogether ServesMigrated
PROPERTIES Reconnects
