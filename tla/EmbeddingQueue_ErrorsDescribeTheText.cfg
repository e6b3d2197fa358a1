SPECIFICATION Spec
CONSTANTS
    None = None
    Issues = {1}
    Texts = {x, y}
    Workers = {w1, w2}
    Clients = {c1}
    MaxAttempts = 2
    EnqueueBatch = 1
INVARIANT ErrorsDescribeTheText
