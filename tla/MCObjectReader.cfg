\* Every way to cut streams of three or four packets.
SPECIFICATION FairSpec
CONSTANTS
    Streams <- MCStreams
    BufferMax <- MCBufferMax
    NumberMod <- MCNumberMod
    Memory <- MCMemory
INVARIANTS TypeOK NoByteLost 
PROPERTIES ChunksDoNotMatter ClosedAfterEof
