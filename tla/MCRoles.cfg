SPECIFICATION Spec
CONSTANTS
    Role = {r1, r2}
    Fun = {f1}
    User = {u1}
    Worker = {w1, w2}
    Lists <- AnyList
SYMMETRY Symmetry

INVARIANTS
    TypeOK
    DeletedFunctionsReachNoToken
PROPERTIES
    ImplementsHierarchy
    TokensFollowTheSave
