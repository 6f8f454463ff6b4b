\* One tab leaves the editor and opens it again.
SPECIFICATION Spec
CONSTANTS
    WidgetId = {1, 2}
    WidgetKey = {"profile", "guestbook"}
    ProfileKey = "profile"
    NoRow = NoRow
    NoLayout = NoLayout
    InitialPages <- MCPages
    MaxPosition = 0
    MaxPlacements = 2
    MaxDrags = 0
    MaxLeases = 2
    MaxChanges = 0
    MaxTokens = 2
    MaxOthers = 0
    MaxWork = 0
\* The tab may have been left for good.
CHECK_DEADLOCK FALSE
PROPERTIES
    OwnTokenOnly
