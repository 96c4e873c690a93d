SPECIFICATION LiveSpec
CONSTANTS
    Txs = {t1, t2}
    NoTx = NoTx
    Calls = {c1, c2, c3}
INVARIANTS ConfirmTypeOK ButtonMeansUnsent
PROPERTIES ImplementsSubmission ConfirmedIsAnswered
CHECK_DEADLOCK FALSE
