SPECIFICATION FairSpec
CONSTANTS
    u1 = u1
    u2 = u2
    r1 = r1
    Absent = Absent
    Uploads = {u1, u2}
    Honest = {u1}
    Downloads = {r1}
    Oids = {"o1"}
    Chunks <- MCChunks
    Bodies <- MCBodies
    Sizes = {1, 2}
    Sha256 <- MCSha256
    MaxAborts = 1
    MaxFaults = 3
    MaxCrashes = 2
INVARIANTS TypeOK AckedStored
PROPERTIES BucketStable EventuallyAcked Refines
