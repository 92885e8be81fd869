CONSTANTS
    Msg = {m1, m2}
    None = None
    MaxDatagrams = 4
    MaxReqs = 3
SPECIFICATION Spec
INVARIANTS TypeOK FreshBuffer OneRecvBuffer OneOwner InFlightIntact
