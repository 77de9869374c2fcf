SPECIFICATION FairTxSpec
CONSTANTS
    NULL = NULL
    k1 = k1
    k2 = k2
    k3 = k3
    a = a
    b = b
    Keys = {k1, k2, k3}
    Contents = {a, b}
    ObservationIds = {1, 2, 3, 4, 6, 7, 8, 9}
    Deliveries <- Traffic
    Sessions = {s1, s2}
INVARIANTS
    TxTypeOK
    InsertedKeyIsMine
PROPERTIES
    ImplementsInbox
    EveryCallIsAnswered
