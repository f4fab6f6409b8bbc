SPECIFICATION Spec
CONSTANTS
    Team = {t1, t2, t3}
    User = {u1}
    Worker = {w1, w2}
    Lists <- ShortLists
SYMMETRY Symmetry
CONSTRAINT UntilFirstRace

INVARIANTS
    TypeOK
    RowsReferToTeams
    HierarchySound
PROPERTIES
    ImplementsHierarchy
    SavesWhatWasAsked
