\* Two calls, one rotation, a cache that expires once.
SPECIFICATION FairSpec
CONSTANTS
    Caller = {c1, c2}
    LastKey = 1
    Life = 2
    Timeout = 1
    MaxTime = 4
    None = None
INVARIANT KeysInv
PROPERTIES KeysForward FreshAccepted WithdrawnEnds CallsEnd
