SPECIFICATION FairSpec
CONSTANTS
    c1 = c1
    c2 = c2
    None = None
    Clients = {c1, c2}
    Strangers = {}
    Oids = {"o1"}
    TrueSize <- MCTrueSize
    Sizes = {1, 2}
    Posts <- StrangerPosts
    Lists <- StrangerLists
    Public = FALSE
    Lossy = FALSE
    Api = "batch"
    MaxAborts = 1
    MaxLapses = 0
    MaxCrashes = 0
PROPERTIES EventuallyUploaded
