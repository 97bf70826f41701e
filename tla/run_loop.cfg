SPECIFICATION FairSpec
CONSTANTS
    Vcpus = {v1, v2}
    Devices = {1}
    MaxRx = 2
INVARIANTS RaisedIsOnItsWay UsedIsAnnounced
PROPERTIES Seen
