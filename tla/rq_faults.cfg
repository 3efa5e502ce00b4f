SPECIFICATION Spec
CONSTANTS
    Session = {p1, p2}
    NoSession = NoSession
    MaxSeq = 2
    MaxCrash = 1
    MaxStall = 1
    MaxExpire = 1
    MaxError = 1
SYMMETRY Symmetry
INVARIANTS TypeOK MutualExclusion TicketKept SnapshotNotAhead NoLeftoverTicket
PROPERTIES ImplementsSlot OldestWaiterPromoted
CHECK_DEADLOCK FALSE
