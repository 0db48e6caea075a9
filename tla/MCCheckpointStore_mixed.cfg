SPECIFICATION Spec
CONSTANTS
    Names <- MixedNames
    Forms <- MixedForms
    Prompts <- MCPrompts
    Tasks <- MixedTasks
    MaxFiles = 0
    MaxBytes = 5
    Aging <- MCAging
    ChunkTokens = 1
    None = None
INVARIANTS RenderedWhole FilesListed DiskWithinBudget
PROPERTY ChainsKept
