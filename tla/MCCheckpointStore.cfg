SPECIFICATION Spec
CONSTANTS
    Names <- MCNames
    Forms <- MCForms
    Prompts <- MCPrompts
    Tasks <- MCTasks
    MaxFiles = 3
    MaxBytes = 0
    Aging <- MCAging
    ChunkTokens = 1
    None = None
INVARIANTS RenderedWhole FilesListed DiskWithinBudget
PROPERTIES ChainsKept CallsReturn
