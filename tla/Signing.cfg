SPECIFICATION Spec
CONSTANTS
    Txs = {claim, transfer}
    NoTx = NoTx
    Calls = {c1}
    Claims = {claim}
INVARIANT SentWasUnlocked
PROPERTY ImplementsSubmission
CHECK_DEADLOCK FALSE
