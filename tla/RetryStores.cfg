SPECIFICATION FairSpec
CONSTANTS
    u1 = u1
    u2 = u2
    i1 = i1
    i2 = i2
    i3 = i3
    i4 = i4
    NoFile = NoFile
    Uploads = {u1, u2}
    Downloads = {}
    Oids <- OneOid
    Chunks <- MCChunks
    Bodies <- GoodBody
    Sizes = {2}
    Sha256 <- MCSha256
    Inodes = {i1, i2, i3, i4}
    MaxAborts = 1
    MaxFaults = 0
    MaxCrashes = 1
INVARIANTS AckedStored OrphanFree
PROPERTIES StoredUnlessStale
