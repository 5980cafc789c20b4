SPECIFICATION Spec
CONSTANTS
    ext = ext
    lib = lib
    app = app
    World = World
    Pkg = {lib, app}
    Deps <- LibAppDeps
    PatchDeps <- NoPatchDeps
    Installs <- LibAppInstalls
    Override = {lib}
    HostPrereq = {}
    Top = {app}
    Command <- Rebuild
    MaxVersion = 2
INVARIANTS
    TypeOK
    StampsHonest
    RebuildReachesImage
    SecondMakeIdle
PROPERTY
    NeverRedone
