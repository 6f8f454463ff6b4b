\* Two tabs of the editor load the page and drag widgets on what they show;
\* other clients send saves that are refused.
SPECIFICATION Spec
CONSTANTS
    Tab = {t1, t2}
    Nobody = Nobody
    NoRow = NoRow
    WidgetId = {1, 2}
    WidgetKey <- MCKeys
    ProfileKey = "profile"
    MaxPosition = 1
    MaxPlacements = 2
    Background = {b1}
    ForeignItem = ForeignItem
    MissingItem = MissingItem
    NoBackground = NoBackground
    InitialPages <- MCTwoWidgets
    ApiSaves <- MCBadSaves
    MaxVersion = 2
    Routes = {"load", "save"}
    Mishaps = {}
SYMMETRY MCSymmetry
INVARIANTS
    TypeOK
    NoLostUpdate
    SaveNeverClashes
