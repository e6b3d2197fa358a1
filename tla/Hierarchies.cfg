SPECIFICATION Spec
CONSTANTS
    Nodes = {n1, n2, n3, n4}
    Requests = {t1, t2}
    Free = Free
    MaxDepth = 2
SYMMETRY Symmetry
INVARIANTS
    TypeOK
    AllowedStaysAllowed
    InitiativesStayShallow
    NoLoop
PROPERTIES
    LoopsAreRefusedAtomically
