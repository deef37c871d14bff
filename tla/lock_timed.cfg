SPECIFICATION Spec
CONSTANTS
    t1 = t1
    t2 = t2
    Tasks = {t1, t2}
    NoOne = NoOne
    Ttl = 6
    Heartbeat = 2
    Delay = 1
SYMMETRY Symmetry
INVARIANT TypeOK
INVARIANT HeartbeatKeepsLock
INVARIANT LossIsNoticed
INVARIANT AbandonedLockExpires
