SPECIFICATION Spec
CONSTANTS
    n1 = n1
    n2 = n2
    main = main
    test = test
    start = start
    c2 = c2
    c3 = c3
    Nodes <- MCNodes
    Chain <- MCChain
    None = None
    AutoSelect = AutoSelect
    Calls <- MCCalls
    AppInit = start
CHECK_DEADLOCK FALSE
INVARIANTS TypeOK OneLoader
PROPERTIES FaultyNotRetried AppInitAnswered EventuallyIdle
