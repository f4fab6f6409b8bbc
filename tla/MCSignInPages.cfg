SPECIFICATION Spec

INVARIANTS
    TypeOK
PROPERTIES
    OffersAreAccepted
    ChosenRegistrationIsReached
    WaitingPagesAreLeft
    ClicksAreAnswered
    CancelEndsTheSession
