SPECIFICATION Spec
CONSTANTS
    Entry = {e1, e2, e3}
    Team = {t1}
    Worker = {w1, w2}
    None = None
    MaxYear = 2
    MaxNumber = 3
    MaxTime = 4
SYMMETRY Symmetry
CONSTRAINT UntilOvertaken

INVARIANTS
    TypeOK
    LatestIsGreatest
    NextVersionIsFree
    TermsInForceExist
