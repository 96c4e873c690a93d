SPECIFICATION Spec
CONSTANTS
    Markets = {m1, m2}
    Options = {o1, o2}
    None = None
    Requests = {r1, r2, r3}
SYMMETRY Symmetry
INVARIANTS TypeOK BatchIsCurrent OneMarketShown
