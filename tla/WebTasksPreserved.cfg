SPECIFICATION Spec
CONSTANTS
    Ids = {t1}
    Lists = {l1}
    Texts = {milk, bread}
    Blank = Blank
    NoTask = NoTask
    NoText = NoText
    NoId = NoId
    NoList = NoList
    MaxRemote = 2
    MaxPending = 2
INVARIANT EditsPreserved
CHECK_DEADLOCK FALSE
