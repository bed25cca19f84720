\* Two concurrent calls about one token, over several times the TTL.
CONSTANTS
    Calls = {c1, c2}
    Tokens = {t}
    Expiries = {0, 3}
    TTL = 2
    MaxTime = 5
    None = None
SPECIFICATION Spec
SYMMETRY Symmetric
PROPERTIES
    RevocationHonoured
    ExpiredRefused
