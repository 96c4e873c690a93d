SPECIFICATION PingSpec
CONSTANTS
    n1 = n1
    n2 = n2
    n3 = n3
    n4 = n4
    europe = europe
    asia = asia
    de = de
    fr = fr
    sg = sg
    Urls <- MCUrls
    Region <- MCRegion
    Country <- MCCountry
    Null = Null
    range = 2
INVARIANT SuitableWasReached
