SPECIFICATION MailSpec
CONSTANTS
    Folders <- FoldersInOrder
    OldMail = {old}
    Noise = {noise}
    Codes <- CodesInOrder
    code1 = code1
    code2 = code2
    MaxUid = 2
    Nothing = Nothing
    Letters = {l1, l2}
    Timeout = 75
    PollInterval = 3
    ResendAfter = 35
    MaxDelay = 15
    Convergence = 70
    Offsets = {5, 15, 30, 60}
INVARIANTS
    OldCodeOnlyByMove
    NothingSkipped
    CodeFoundInTime
    DeniedOnlyAfterConvergence
SYMMETRY LetterSymmetry
CHECK_DEADLOCK FALSE
