\* Five instances: two share an address, one has none, two are selected, three changes.
CONSTANTS
    a = a
    b = b
    c = c
    d = d
    e = e
    host1 = host1
    host2 = host2
    host3 = host3
    None = None
    Instances <- Five
    RingOrder <- Order
    Endpoint <- Hosts
    SubsetSize = 2
    MaxChanges = 3
    MaxErrors = 1
\* Once closed, or once the registry is quiet, there is nothing left to do.
CHECK_DEADLOCK FALSE
SPECIFICATION Spec
INVARIANTS
    AddressesDistinct
    CloseStopsUpdates
PROPERTIES
    GoroutinesEnd
    AddressesCatchUp
