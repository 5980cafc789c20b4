SPECIFICATION Spec
CONSTANTS
    Boolean = {"A", "B", "C", "D", "E"}
    Tristate = {}
    Number = {"I", "J"}
    Symbols = {"A", "B", "C", "D", "E", "I", "J"}
    NoSymbol = "none"
    NoFile = NoFile
    Trees = {"choice", "optional", "select", "number", "menu"}
    Kconfig <- ParsedSamples
    Files <- FilesOf
    Texts = {1, 3, 4}
    Modes = {"oldaskconfig", "oldconfig", "silentoldconfig", "olddefconfig", "listnewconfig",
             "randconfig", "allyesconfig", "allnoconfig", "alldefconfig"}
    Ends = {"oldconfig"}
    Sessions = 2
CHECK_DEADLOCK FALSE
INVARIANTS NothingLeft UserDecides RoundsAreFew
