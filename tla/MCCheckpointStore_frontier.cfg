SPECIFICATION Spec
CONSTANTS
    Names <- MixedNames
    Forms <- FrontierForms
    Prompts <- TwoPrompts
    Tasks <- FrontierTasks
    MaxFiles = 0
    MaxBytes = 0
    Aging <- MCAging
    ChunkTokens = 1
    None = None
PROPERTY ChainsKept
