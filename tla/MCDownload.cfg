SPECIFICATION FairSpec
CONSTANTS
    good = good
    bad = bad
    Partial = Partial
    Data = {good, bad, Partial}
    tarball = tarball
    Name = {tarball}
    Base = tarball
    NoFile = NoFile
    NoHashFile = NoHashFile
    b1 = b1
    b2 = b2
    Build = {b1, b2}
    HashFiles <- AllHashFiles
    Conf <- TwoConfs
INVARIANTS
    TypeOK
    ExtractsVerified
    PublishedWhole
PROPERTIES
    HardErrorKeepsFile
    EveryBuildExtracts
CHECK_DEADLOCK FALSE
