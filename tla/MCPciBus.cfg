CONSTANTS
    NBus = 2
    NDevice = 1
    NFunction = 2
    NBar = 3
    MAX_DRIVERS = 2
    Devices <- MCDevices
    Absent = Absent
    Junk = Junk
    Keys <- MCKeys
    Growth = 2
    MAX_MENU_NESTING = 3
    Hunts <- MCHunts
    Machines <- MCMachines
    Window = 2
    MENU_PATH_MAX = 12
    BLI_ID_MAX = 8
    MaxEnters = 3
    EDITOR_MAX_BUFFER_SIZE = 7
    line_size = 3
    window_size = 2
    TabStop = 2
    Letters = {"x"}
    Keystrokes <- MCKeystrokes
    MaxStrokes = 2
SPECIFICATION ChoiceSpec
INVARIANTS
    DevicesSettled
    
    MenuRight
PROPERTY
    WaitsEnd
\* The scan and the parse end, and the boot goes on elsewhere.
CHECK_DEADLOCK FALSE
