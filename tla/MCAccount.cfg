\* One visitor, who may be remembered: signing in and out, restoring, stepping up.
SPECIFICATION FairSpec
CONSTANTS
    User = {u1}
    Nobody = Nobody
    Visited = {"credits", "logout"}
    MaxSessions = 2
INVARIANTS
    TypeOK
    StepUpFirst
    RestoredStartsFresh
    SignOutIsFinal
PROPERTIES
    WaitingEnds
