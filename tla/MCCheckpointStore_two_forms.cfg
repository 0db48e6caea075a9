SPECIFICATION Spec
CONSTANTS
    Names <- TwoNames
    Forms <- TwoForms
    Prompts <- TwoPrompts
    Tasks <- TwoTasks
    MaxFiles = 0
    MaxBytes = 0
    Aging <- NoneAging
    ChunkTokens = 1
    None = None
INVARIANT RenderedWholeAlways
