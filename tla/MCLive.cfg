\* Statements fail or are never answered, the timer fires and may leave the
\* transaction open; saves queue behind one another on the version row.
SPECIFICATION FairSpec
CONSTANTS
    Tab = {t1, t2}
    Nobody = Nobody
    NoRow = NoRow
    WidgetId = {1}
    WidgetKey <- MCKeys
    ProfileKey = "profile"
    MaxPosition = 1
    MaxPlacements = 2
    Background = {b1}
    ForeignItem = ForeignItem
    MissingItem = MissingItem
    NoBackground = NoBackground
    InitialPages <- MCProfileOnly
    ApiSaves <- MCMoveProfile
    MaxVersion = 1
    Routes = {"save"}
    Mishaps = {"error", "watchdog", "strand"}
\* Two stranded transactions leave both tabs waiting.
CHECK_DEADLOCK FALSE
PROPERTIES
    RequestsAnswered
    ReleasedOrStranded
