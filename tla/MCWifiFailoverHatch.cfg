CONSTANTS
    Candidates = 3
    MaxRetries = 2
    Timeout = 2
    Prompt = TRUE
SPECIFICATION FairSpec
PROPERTY EscapeHatch
