SPECIFICATION Spec
CONSTANTS
    s1 = s1  s2 = s2
    Count = 3
    Editable <- Second
    Reacted <- Second
    Sender <- TwoSenders
    Sent <- Third
    MaxVersion = 2
    MaxCommits = 1
    MaxReplays = 2
    LoadLimit = 1
    PageSize = 1
    JumpSize = 2
SYMMETRY Symmetry
INVARIANTS TypeOK ShownUpToDate WindowComplete ReactionsKept SentStaysShown
