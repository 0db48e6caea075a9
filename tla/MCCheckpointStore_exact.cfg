SPECIFICATION Spec
CONSTANTS
    Names <- ExactNames
    Forms <- ExactForms
    Prompts <- ExactPrompts
    Tasks <- ExactTasks
    MaxFiles = 0
    MaxBytes = 0
    Aging <- NoneAging
    ChunkTokens = 0
    None = None
INVARIANT TokenWhole
