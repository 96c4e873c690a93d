SPECIFICATION Spec
CONSTANTS
    Requests = {r1, r2, r3}
    NoRequest = NoRequest
SYMMETRY AnyCaller
INVARIANTS TypeOK ShownUnlockedIsUnlocked WaitingIsShown
PROPERTY AnswerIsTrue
