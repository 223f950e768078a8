SPECIFICATION WholeSpec
CONSTANTS
    c1 = c1
    c2 = c2
    None = None
    Absent = Absent
    Clients = {c1, c2}
    Strangers = {}
    Oids = {"o1"}
    TrueSize <- MCTrueSize
    Sizes = {1, 2}
    Posts <- MCPosts
    Lists <- MCLists
    Contents <- MCContents
    Sha256 <- MCSha256
    Public = FALSE
    Lossy = TRUE
    Api = "post"
    MaxAborts = 1
    MaxLapses = 1
    MaxCrashes = 0
SYMMETRY Symmetry
INVARIANTS TypeOK ContentAnnounced SizesCurrent Delivered Vouched Measured
PROPERTIES NoneDropped Refines
