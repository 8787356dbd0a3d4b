SPECIFICATION Spec
CONSTANTS
    Ids = {t1}
    Lists = {l1}
    Texts = {milk, bread}
    Blank = Blank
    NoTask = NoTask
    NoText = NoText
    NoId = NoId
    NoList = NoList
    MaxRemote = 2
    MaxPending = 2
INVARIANTS
    TypeOK
    TypedUnlessOvertaken
    DeletedStaysDeleted
    ScreenAgrees
    ActiveListExists
CHECK_DEADLOCK FALSE
