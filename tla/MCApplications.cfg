SPECIFICATION Spec
CONSTANTS
    App = {a1}
    Req = {r1, r2}
    None = None
SYMMETRY Symmetry
CHECK_DEADLOCK FALSE
INVARIANTS
    FunnelMonotone
    StatusRecorded
    MailsFollowHistory
