SPECIFICATION CalmSpec
CONSTANTS
    u1 = u1
    u2 = u2
    i1 = i1
    i2 = i2
    i3 = i3
    i4 = i4
    r1 = r1
    NoFile = NoFile
    Uploads = {u1, u2}
    Downloads = {r1}
    Oids <- OneOid
    Chunks <- MCChunks
    Bodies <- MixedBodies
    Sizes = {2}
    Sha256 <- MCSha256
    Inodes = {i1, i2, i3, i4}
    MaxAborts = 1
    MaxFaults = 1
    MaxCrashes = 1
SYMMETRY Symmetry
INVARIANTS TypeOK PublishedValid DownloadValid
PROPERTIES Refines
