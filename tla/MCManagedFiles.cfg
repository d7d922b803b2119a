\* Every sequence of index, log and delete commands on three pages.
SPECIFICATION FilesSpec
CONSTANTS
    Words <- MCWords
    Order <- MCOrder
    Forms <- MCForms
    Summaries <- MCSummaries
    Lowered <- MCLowered
    Notes <- MCNotes
    None = None
    MaxEntries = 3
INVARIANTS CleanEntriesSurvive IndexTellsWhatWasAdded CleanLogSurvives
