CONSTANTS
    Passes = {1, 2}
    Netuids = {"n1", "n2"}
    Uids = {1, 2}
    Members <- MCMembers
    Digests = {"first"}
    Values = {"accounts"}
    Publisher = {i1, i2}
    MaxFaults = 1
SPECIFICATION DirectoryFairSpec
INVARIANTS DirectoryTypeOK TallyExact CompleteMeansLanded NewestSnapshotIntact SnapshotFaithful
PROPERTIES LatestPublished
