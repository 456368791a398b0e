CONSTANTS
    MaxKeys = 2
    PageSize = 1
    ForkEpoch = 1
    MaxEpoch = 1
    MaxKills = 1
SPECIFICATION Spec
INVARIANTS
    TypeOK
    SignedForItsEpoch
PROPERTY EventuallyPresigned
