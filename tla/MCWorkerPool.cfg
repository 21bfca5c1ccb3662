\* Two threads, three objects.
SPECIFICATION FairSpec
CONSTANTS
    w1 = w1
    w2 = w2
    Worker <- MCWorker
    NObjects = 3
    Objects <- MCObjects
    IntMod = 65536
    MaxHung = 1
    MaxDropped = 1
INVARIANTS TypeOK OneOwner PostedOnceThenFreed SeriesIsTheSample
PROPERTIES OthersGoOn
