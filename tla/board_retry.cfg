SPECIFICATION BoardSpec
CONSTANTS
    MaxWork = 1
    MaxImports = 2
    Torn = Torn
    Junk = Junk
    Hollow = Hollow
    Foreign = Foreign
    None = None
    Resident = Resident

PROPERTIES TornStaysDown
CHECK_DEADLOCK FALSE
