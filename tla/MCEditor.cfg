CONSTANTS
    Texts <- MCTexts
    Accepted <- MCAccepted
    Files <- MCFiles
    NoName = "none"
    MaxRuns = 3
CONSTRAINT FewThings
SPECIFICATION EditorSpec
INVARIANTS EditorTypeOK ReportsTheRun LatestIsComplete ShownFileIsSaved
PROPERTY ErrorsAreShown
