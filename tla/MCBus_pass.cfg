CONSTANTS
    s1 = s1
    s2 = s2
    s3 = s3
    r1 = r1
    r2 = r2
    Senders = {s1, s2}
    Waiting = {s2}
    Receivers = {r1, r2}
    Capacity = 3
    Margin = 1
    MaxSends = 2
SPECIFICATION Spec
CHECK_DEADLOCK FALSE
INVARIANTS TypeOK
PROPERTIES BroadcastRefined
