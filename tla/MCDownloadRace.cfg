SPECIFICATION Spec
CONSTANTS
    good = good
    bad = bad
    Partial = Partial
    Data = {good, bad, Partial}
    tarball = tarball
    Name = {tarball}
    Base = tarball
    NoFile = NoFile
    NoHashFile = NoHashFile
    b1 = b1
    b2 = b2
    Build = {b1, b2}
    HashFiles <- RightHash
    Conf <- OneConf
PROPERTY
    VerifiedStays
CHECK_DEADLOCK FALSE
