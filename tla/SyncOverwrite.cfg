SPECIFICATION SessionSpec
CONSTANTS
    SyncWindows = {w1}
    LocalEdits = {l}
    OtherEdits = {o}
    Interrupts = TRUE
    MaxReloads = 0
    MaxUploads = 3
CHECK_DEADLOCK FALSE
PROPERTY SafePushKeepsOthers
