\* Two requests of a user and the timer; statements fail and the server restarts.
SPECIFICATION FairSpec
CONSTANTS
    Request = {r1, r2}
    Sweep = {s1}
    Ticket = {k1, k2}
    NoTicket = NoTicket
    Empty = Empty
    Tombstone = Tombstone
    Foreign = Foreign
    MaxMishaps = 1
INVARIANTS
    TypeOK
    BoundedUnlessDisturbed
PROPERTIES
    SignOutLeavesNothing
    ImplementsCredential
    ExpiredIsGone
