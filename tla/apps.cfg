SPECIFICATION AppsSpec
CONSTANTS
    Ports = {1, 2}
    Pool = {1, 2}
    Batch = 1
    Scenes <- SomeScenes
INVARIANTS
    PausedMeansOwn
PROPERTIES
    AddressesKept
    PagesSettle
CHECK_DEADLOCK FALSE
