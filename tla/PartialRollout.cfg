SPECIFICATION Spec
CONSTANTS
    Sessions = {c1, c2}
    Servers = {s1, s2}
    PromptLength = 2
    ResponseLength = 4
    PromptLens = {2}
    ToolLens = {1, 2}
    MaxAssistantTurns = 0
    MaxUserTurns = 2
    PartialRollout = TRUE
    PausesGeneration = TRUE
    MaxVersion = 1
    NoServer = NoServer
INVARIANTS LabelsCoverTokens VersionsInOrder OutputAligned
PROPERTIES NothingLost EverythingEnds
CHECK_DEADLOCK FALSE
