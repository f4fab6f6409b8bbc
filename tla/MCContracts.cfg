SPECIFICATION Spec
CONSTANTS
    a1 = a1
    a2 = a2
    p1 = p1
    App = {a1, a2}
    AppFun = {f1, f2}
    Perm = {p1}
    Worker = {w1, w2}
    Declarable <- OwnPermissions
    None = None
SYMMETRY Symmetry
CONSTRAINT UntilLittleIsClaimed

INVARIANTS
    TypeOK
    NoPermissionOutlivesItsFunctions
    DeclaredIsInForce
    ResourcesFollowApplications
PROPERTIES
    ReapplyingChangesNothing
    ImplementsDesiredState
