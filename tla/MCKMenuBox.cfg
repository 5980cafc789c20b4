SPECIFICATION Spec
CONSTANTS
    MenuOrder <- EntryOrder
    Root = "root"
    NoEntry = "none"
    Menu <- SubmenuOfE
    Tag <- Tags
    Needs <- NeedsOne
    MenuLetter <- Hotkeys
    MenuHeights = {2, 4}
    MaxFrames = 2
    Results <- SomeResults
    OtherTexts <- SomeTexts
    TextHeights = {10, 11, 13}
    JUMP_NB = 2
    Items <- ChoiceItems
    Comment = {"c", "t"}
    Letter <- ChoiceLetters
    list_height = 3
    Alphabet = {"1", "x"}
    Digits = {"1"}
    Space = " "
    MAX_LEN = 5
    box_width = 3
    MaxLength = 5
    prompt_width = 3
    Order <- TwoSymbols
    Name = {".config", "other"}
    DotConfig = ".config"
    Killing <- Killed
    Signalling <- Signalled
    Renaming <- Renamed
    Bool = {"A", "B"}
    Text = {"T"}
    Word = {"u", "v"}
    Parent <- OnA
    New = {"B", "T"}
INVARIANT NeverCrashes
