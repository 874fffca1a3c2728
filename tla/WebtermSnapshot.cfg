SPECIFICATION SnapshotSpec
CONSTANTS
    Senders = {p1}
    Looks = 3
    MaxTickets = 3
INVARIANTS
    SnapshotIsWhole
CHECK_DEADLOCK FALSE
