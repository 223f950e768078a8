SPECIFICATION Spec
CONSTANTS
    u1 = u1
    u2 = u2
    u3 = u3
    i1 = i1
    i2 = i2
    i3 = i3
    i4 = i4
    i5 = i5
    NoFile = NoFile
    Uploads = {u1, u2, u3}
    Downloads = {}
    Oids <- OneOid
    Chunks <- MCChunks
    Bodies <- MixedBodies
    Sizes = {2}
    Sha256 <- MCSha256
    Inodes = {i1, i2, i3, i4, i5}
    MaxAborts = 0
    MaxFaults = 0
    MaxCrashes = 0
SYMMETRY Symmetry
INVARIANTS PublishedValid
