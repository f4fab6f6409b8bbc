SPECIFICATION Spec
CONSTANTS
    Team = {t1, t2, t3}
    User = {u1}
    Worker = {w1}
    Lists <- AnyList

INVARIANTS
    PoliciesReachUsersOfChildTeams
CHECK_DEADLOCK FALSE
