CONSTANTS
    Candidates = 3
    MaxRetries = 3
    Timeout = 3
    Prompt = FALSE
SPECIFICATION FairSpec
INVARIANTS OneConnect IdleIsTakenCareOf BitFollowsRadio
PROPERTIES KeepsTrying
