SPECIFICATION Spec
CONSTANTS
    Free = Free
    Users = {ada, bob, cyd}
    Requests = {t1, t2}
    Invitations = {i1}
CHECK_DEADLOCK FALSE
INVARIANT AlwaysAnOwner
