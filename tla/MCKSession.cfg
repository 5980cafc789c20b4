SPECIFICATION Spec
CONSTANTS
    Boolean = {"A", "B", "C", "D", "E"}
    Tristate = {}
    Number = {"I", "J"}
    Symbols = {"A", "B", "C", "D", "E", "I", "J"}
    NoSymbol = "none"
    NoFile = NoFile
    Trees = {"choice", "select", "number"}
    Kconfig <- ParsedSamples
    Files <- SomeFiles
    Texts = {1, 3}
    Searched = {"A", "I"}
    Nobody = Nobody
INVARIANTS KeptIsCurrent ValuesAreAllowed SetTakesEffect FilesRestore
