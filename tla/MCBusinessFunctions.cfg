SPECIFICATION Spec
CONSTANTS
    a1 = a1
    a2 = a2
    g1 = g1
    g2 = g2
    g3 = g3
    p1 = p1
    p2 = p2
    App = {a1, a2}
    AppFun = {g1, g2, g3}
    Fun = {f1, f2}
    Perm = {p1, p2}
    Owner <- Owners
    Declarable <- OwnPermissions
    Worker = {w1, w2}
    None = None
SYMMETRY Symmetry
CONSTRAINT UntilOvertaken

INVARIANTS
    TypeOK
    FunctionsWithinOneApplication
PROPERTIES
    DefaultsAreInForce
