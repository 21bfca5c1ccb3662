\* The samples of a Linux agent.
SPECIFICATION Spec
CONSTANTS
    w1 = w1
    w2 = w2
    Worker <- MCWorker
    NObjects = 2
    Objects <- LinuxSamples
    IntMod = 65536
    MaxHung = 1
    MaxDropped = 0
INVARIANTS AgentMetricsAreStored
