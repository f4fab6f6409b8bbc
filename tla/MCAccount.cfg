SPECIFICATION Spec
CONSTANTS
    c1 = c1
    c2 = c2
    Browser = {b1, b2}
    Api = api
    Key = {k1, k2}
    Code = {c1, c2}
    Batch <- TwoDraws
    None = None
SYMMETRY Symmetry
CONSTRAINT UntilOvertaken

INVARIANTS
    TypeOK
    EnabledHasProvenAuthenticator
    CodesAdmitOnce
    FactorTakesAProof
PROPERTIES
    DeletedStaysDeleted
