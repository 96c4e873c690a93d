SPECIFICATION Spec
CONSTANTS
    Keys = {own, shared}
    LoginKeys = {shared}
    NoEntry = NoEntry
    Imports = {i1}
    NoImport = NoImport
    MaxId = 3
    MaxQueue = 3
INVARIANTS TypeOK CountIsOutstanding OwnedIsIndexed ImportedIsStored
PROPERTY ShownIsStored
