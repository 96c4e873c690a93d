SPECIFICATION Spec
CONSTANTS
    Passwords = {secret}
    FirstPassword = secret
    LookAheadLimit = 2
    NoWallet = NoWallet
    NoCreation = NoCreation
    MaxUsed = 2
    MaxSequence = 3
    MaxQueue = 2
    MaxFaults = 1
INVARIANTS TypeOK Converges NoKeyLost AccountKeysDistinct RegisteredKeysKept
