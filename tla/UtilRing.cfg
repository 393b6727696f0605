CONSTANTS
    BUF_LENGTH = 4
    MaxSamples = 13
    FirstStamp = 1
    Hundreds = {0}
SPECIFICATION FairSpec
INVARIANTS TypeOK NoSampleLost
PROPERTY ReadEnds
