SPECIFICATION FairSpec
CONSTANTS
    c1 = c1
    c2 = c2
    c3 = c3
    None = None
    Clients = {c1, c2, c3}
    Strangers = {c3}
    Oids = {"o1"}
    TrueSize <- MCTrueSize
    Sizes = {1, 2}
    Posts <- StrangerPosts
    Lists <- StrangerLists
    Public = FALSE
    Lossy = TRUE
    Api = "post"
    MaxAborts = 1
    MaxLapses = 0
    MaxCrashes = 1
INVARIANTS StrangerBlind
PROPERTIES EventuallyUploaded
