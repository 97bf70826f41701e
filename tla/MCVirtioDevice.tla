-------------------------- MODULE MCVirtioDevice ---------------------------
EXTENDS VirtioDevice

MCQueueSize == [k \in Kinds |-> CASE k = "block" -> 4 [] k = "net" -> 2 [] k = "vsock" -> 2]
MCTraffic ==
    [k \in Kinds |-> CASE k = "block" -> {{0}}
                       [] k = "net" -> {{0}, {1}}
                       [] k = "vsock" -> {{0}, {1}, {2}}]
=============================================================================
