SPECIFICATION Safety
CONSTANTS
    s1 = s1
    s2 = s2
    s3 = s3
    p1 = p1
    p2 = p2
    Nil = Nil
    Subs = {s1, s2, s3}
    Pubs = {p1}
    CAP = 2
    SUBS = 2
    PUBS = 1
    MaxId = 3
INVARIANTS
    NothingLeftBehind
