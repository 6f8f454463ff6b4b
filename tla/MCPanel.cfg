SPECIFICATION FairSpec
CONSTANTS
    guest = guest
    editor = editor
    trusted = trusted
    k1 = k1
    k2 = k2
    v0 = v0
    raw = raw
    Operator = {guest, trusted}
    Rank <- MCRank
    Nobody = Nobody
    Key = {k1, k2}
    Value = {v0, raw}
    Raw = {raw}
    Unchanged = Unchanged
    MaxSignIns = 1
    MaxSaves = 1
INVARIANTS
    TypeOK
    NothingSurvivesSignIn
PROPERTIES
    EveryKeyIsReported
    GateOpensOrSays
    SavesEnd
