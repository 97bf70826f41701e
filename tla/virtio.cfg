SPECIFICATION Spec
CONSTANTS
    IdxMod = 8
    MAX_QUEUE_SIZE = 4
    SECTOR_SIZE = 1
    MAX_REQUEST = 2
    MAX_FRAME = 3
    NET_HDR_SIZE = 1
    Kinds = {"block", "net", "vsock"}
    QueueSize <- MCQueueSize
    Traffic <- MCTraffic
    MaxRx = 2
    MaxTx = 2
    MaxResets = 1
INVARIANTS RingsAgree TxInOrder RxInOrder
