SPECIFICATION Spec
CONSTANTS
    x = x
    X = X
    y = y
    Mode = {m1}
    Settings = {s1, s2}
    Worker = {w1, w2}
    User = {u1, u2}
    Name = {x, X, y}
    Upper <- UpperXY
    MaxDeletions = 1
    None = None
    Blank = Blank
    Empty = Empty
SYMMETRY Symmetry
CONSTRAINT UntilFirstMismatch

INVARIANTS
    TypeOK
    PasswordBelongsToSettings
    LinkedModesExist
    NameFindsItsBearer
    OnlyNamesakesBlockDeletion
PROPERTIES
    DeletionFreesTheName
    LinksChangeOnRequest
