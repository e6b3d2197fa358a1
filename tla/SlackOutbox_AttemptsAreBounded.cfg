SPECIFICATION Spec
CONSTANTS
    None = None
    Events = {e1}
    Workers = {w1}
    MaxAttempts = 2
    BackoffSteps = 2
    Losses = 2
INVARIANT AttemptsAreBounded
