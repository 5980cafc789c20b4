SPECIFICATION CleanSpec
CONSTANTS
    good = good
    bad = bad
    Partial = Partial
    Data = {good, bad, Partial}
    tarball = tarball
    Name = {tarball}
    Base = tarball
    NoFile = NoFile
    NoHashFile = NoHashFile
    b1 = b1
    b2 = b2
    Build = {b1, b2}
    HashFiles <- UsableHashFiles
    Conf <- FourConfs
PROPERTY
    ImplementsStore
CHECK_DEADLOCK FALSE
