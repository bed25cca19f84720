\* One client beside writers, over tables of up to three rows.
CONSTANTS
    Clients = {c1}
    Ids = {r1, r2, r3}
    Keys = {k1, k2}
    NoKey = NoKey
    Sizes = {0, 1, 2}
    MaxRows = 3
    MaxChanges = 1
    MaxPage = 4
SPECIFICATION Spec
INVARIANTS
    PageIsExact
    GetIsExact
    InsertsHideNothing
    DeletesRepeatNothing
PROPERTY WalkEnds
