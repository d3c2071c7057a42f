SPECIFICATION Spec
CONSTANTS
    e1 = e1  e2 = e2
    web = web
    Nobody = Nobody
    Emails <- BothEmails
    Legacy <- OneLegacy
    Queued <- NoEmails
    Requests <- OneOrBoth
    Importers <- WebThread
    MaxId = 2
    MaxSession <- TwoOnce
INVARIANTS
    NoResurrection
    SavedNotLost
    SkippedFilesImported
    OneTask
PROPERTIES
    ForeignSessionNeedsDeletion
