CONSTANTS
    Data = {d1, d2}
    Name = {tarball, patch}
    NoFile = NoFile
    NoHashFile = NoHashFile
    MaxLines = 2
SPECIFICATION Spec
INVARIANT ExitIsHashExit
CHECK_DEADLOCK FALSE
