SPECIFICATION Spec
CONSTANTS
    c1 = c1
    c2 = c2
    Browser = {b1}
    Api = api
    Key = {k1}
    Code = {c1, c2}
    Batch <- OneDraw
    None = None

PROPERTIES
    DeletedUsersGetNoTokens
CHECK_DEADLOCK FALSE
