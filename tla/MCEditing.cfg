\* Two drags of one tab, at once or one after the other, a widget added or removed
\* meanwhile, and a save of the other tab.
SPECIFICATION Spec
CONSTANTS
    WidgetId = {1, 2}
    WidgetKey = {"profile", "guestbook"}
    ProfileKey = "profile"
    NoRow = NoRow
    NoLayout = NoLayout
    InitialPages <- MCPages
    MaxPosition = 0
    MaxPlacements = 2
    MaxDrags = 2
    MaxLeases = 1
    MaxChanges = 1
    MaxTokens = 1
    MaxOthers = 1
    MaxWork = 3
\* The tab may have been left for good.
CHECK_DEADLOCK FALSE
INVARIANTS
    TypeOK
    MessagesTruthful
    ShownIsTrue
    
PROPERTIES
    ImplementsHomePage
