SPECIFICATION Spec
CONSTANTS
    c1 = c1
    Calls = {c1}
    MaxAttempts <- MCMaxAttempts
INVARIANT ApprovalGetsThrough
