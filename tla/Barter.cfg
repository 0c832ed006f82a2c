SPECIFICATION Spec
CONSTANTS
    Npcs = {n1, n2}
    Player = Player
    Items = {i1, i2}
    Calls = {c1, c2}
    Prices = {2}
    Deltas = {15}
    Offers = {1}
    Gold = 3
    MaxDebts = 1
    NoSession = NoSession
    Nobody = Nobody
SYMMETRY Symmetry
INVARIANTS TypeOK Books NoOverdraft DebtsOwedToOwner
CHECK_DEADLOCK FALSE
