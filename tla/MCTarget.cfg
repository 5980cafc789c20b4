SPECIFICATION Spec
CONSTANTS
    Patch = {"p1", "p2", "p3", "p4"}
    File = {"f1", "f2"}
    Touches <- PatchTouches
    Dir = {"top", "tarball", "pkg", "sub"}
    Content <- DirContent
    Series <- SeriesOfTarball
    Calls <- TwoCalls
    Fragile <- FragileHunks
    MaxTries = 3
    User = {"u", "v", "w", "x"}
    Group = {"a", "b", "c", "sys"}
    MinId = 10
    MaxId = 12
    SkeletonGroups <- GidOfSys
    Tables <- SomeTables
    NoBundle = "none"
    Bundle = {"services-local", "services-net", "setup-net"}
    SkeletonServices <- ContentsOfBundles
    Services <- NetServices
    Httpd = "httpd"
    DhcpChoices <- Dhcp
    Overlay = {"getty-tty1"}
    PostBuild <- Scripts
    Within <- NamesWithin
    Path <- Paths
    MaxNumber = 15
    Formats <- TarAndExt2
    Warning <- Readme
    Uid <- Uids
    InSkeleton = {"www"}
    Target <- Entries
    Configs <- SomeConfigs
    Commands <- CommandLines
    Builds <- SomeBuilds
    Begins <- BeginsWith
INVARIANTS PatchesInOrder UsersAsTable ServicesInDb ImagesAsTables WrapperPassesOn
PROPERTY
    SameAgain
