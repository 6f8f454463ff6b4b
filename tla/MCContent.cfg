SPECIFICATION Spec
CONSTANTS
    Text <- MCText
    Markup <- MCMarkup
    Link <- MCLink
    Times <- MCTimes
    Orders <- MCOrders
    Half = 4
    Id = {r1, r2}
    NoId = NoId
    NoRow = NoRow
    NewsLimit = 1
    MaxWrites <- MCMaxWrites
INVARIANTS
    TypeOK
    RowsAreClean
    ListKeepsUp
    FormsAimAtTheirRow
PROPERTIES
    MarkupNeedsHighTrust
SYMMETRY MCSymmetry
