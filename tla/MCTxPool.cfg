SPECIFICATION SuiteSpec
CONSTANTS
    NumSubpools = 2
    Syncers = {"s1"}
    MaxHead = 2
    Subs = {"s1", "s2"}
    Channels = {"c1", "c2"}
    ChanOf <- MCChanOf
    Cap = 1
    Senders = {"p", "q"}
    None = None
    Peers = {"p", "q"}
    Hashes = {"h", "i"}
    Blobs = {"i"}
    MaxTxAnnounces = 2
    MaxTxRetrievals = 2
    MaxNotify = 2
    MaxDrop = 1
    MaxBroadcast = 1
    Absent = Absent
    Off = Off
    Stale = Stale
INVARIANTS
    ResetsAreSound
    EverySubListed
    FetcherConsistent
PROPERTIES
    HeadsReachSubpools
    EveryoneReturns
    KeepsPromise
    FeedCallersReturn
    FetcherProgress
CHECK_DEADLOCK FALSE
