\* Two tabs add the same widget.
SPECIFICATION Spec
CONSTANTS
    Tab = {t1, t2}
    Nobody = Nobody
    NoRow = NoRow
    WidgetId = {1, 2, 3, 4}
    WidgetKey <- MCKeys
    ProfileKey = "profile"
    MaxPosition = 1
    MaxPlacements = 2
    Background = {b1}
    ForeignItem = ForeignItem
    MissingItem = MissingItem
    NoBackground = NoBackground
    InitialPages <- MCTwoWidgets
    ApiSaves <- MCNoSave
    MaxVersion = 1
    Routes = {"add"}
    Mishaps = {}
SYMMETRY MCSymmetry
INVARIANTS
    OneOfEachKey
