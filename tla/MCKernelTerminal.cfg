SPECIFICATION Spec
CONSTANTS
    Columns = 3
    Rows = 2
    BufferSize = 5
    Char = {"c", "e"}
    Blank = " "
    Newline = "newline"
    Nul = "0"
    Prompt <- MCPrompt
    Greeting <- MCGreeting
    Help <- MCHelp
    Clear <- MCClear
    Echo <- MCEcho
    HelpText <- MCHelpText
    UnknownText <- MCUnknownText
    Backgrounds <- MCBackgrounds
    Black = "black"
    Cursor = "_"
    BootScreen = "boot"
PROPERTIES
    EnterRunsWhatIsShown
    LineEditorSpec
