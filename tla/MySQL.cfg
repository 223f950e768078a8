SPECIFICATION Spec
CONSTANTS
    c1 = c1
    c2 = c2
    NoCred = NoCred
    None = None
    Calls = {c1, c2}
    Users = {"alice"}
    Passwords = {"right", "wrong"}
    Oids = {"o1"}
    Repos = {"p1", "p2"}
    Sizes = {1, 2}
    Requests <- MixedRequests
    Modes = {"public", "local", "ldap"}
    LdapPass <- MCLdapPass
    MaxMaps = 2
    MaxFaults = 1
    MaxCrashes = 1
SYMMETRY Symmetry
INVARIANTS MapsSound MapsOnce
PROPERTIES RecordedOnce Refines
