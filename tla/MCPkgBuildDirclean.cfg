SPECIFICATION Spec
CONSTANTS
    ext = ext
    lib = lib
    app = app
    World = World
    Pkg = {ext, lib, app}
    Deps <- ThreeDeps
    PatchDeps <- ThreePatchDeps
    Installs <- ThreeInstalls
    Override = {}
    HostPrereq = {ext}
    Top = {app}
    Command <- WithDirclean
    MaxVersion = 1
INVARIANTS
    DepsBeforeConfigure
    ImageComplete
