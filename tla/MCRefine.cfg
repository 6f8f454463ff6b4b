\* Widgets are added and removed while the page is saved; statements fail, answers of
\* committed writes are lost, the timer fires and may leave the transaction open.
SPECIFICATION Spec
CONSTANTS
    Tab = {t1, t2}
    Nobody = Nobody
    NoRow = NoRow
    WidgetId = {1, 2}
    WidgetKey <- MCTwoKeys
    ProfileKey = "profile"
    MaxPosition = 0
    MaxPlacements = 2
    Background = {b1}
    ForeignItem = ForeignItem
    MissingItem = MissingItem
    NoBackground = NoBackground
    InitialPages <- MCProfileOnly
    ApiSaves <- MCMoveOnBackground
    MaxVersion = 1
    Routes = {"save", "add", "remove"}
    Mishaps = {"error", "lost", "watchdog", "strand"}
SYMMETRY MCSymmetry
\* Two stranded transactions leave both tabs waiting.
CHECK_DEADLOCK FALSE
INVARIANTS
    PageWellFormed
    HoldersNeverWait
PROPERTIES
    ImplementsHomePage
    
    SavedAsAsked
    EndsAnswered
