CONSTANTS
    None = None
    Blank = Blank
    StrayIds = {"stray"}
    Task = {1, 2}
    Answers <- MCAnswers
    Fallback = TRUE
    RetryArrays = TRUE
    RetryMinPages = 3
    Punctuation = {"-"}
    Short = {"b", "sl"}
    TextColumns = {"id", "name", "note"}
    Drafts <- MCDrafts
    Requests <- MCRequests
    MaxBytes = 7
SPECIFICATION Spec
INVARIANTS AcceptedRulesRun  ProvenanceIsKept InvariantRepaired
PROPERTIES FirstPassIsKept
