SPECIFICATION MSpec
CONSTANTS
    c1 = c1
    c2 = c2
    NoCred = NoCred
    None = None
    Calls = {c1, c2}
    Users <- MCUsers
    Passwords <- MCPasswords
    Oids = {"o1"}
    Repos = {"p1"}
    Sizes = {1, 2}
    Requests <- MixedRequests
    Modes = {"local", "ldap"}
    LdapPass <- MCLdapPass
    MaxCrashes = 1
SYMMETRY Symmetry
INVARIANTS ProjectFirst PagesAgree Admitted
PROPERTIES Refines
