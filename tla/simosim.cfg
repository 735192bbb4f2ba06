CONSTANTS
    Files <- FileNames
    content <- ContentTable
    Folders <- FolderSets
    Core <- CoreModules
    provides <- ProvidesTable
    Types <- TypeNames
    parameters <- ParametersTable
    ports <- PortsTable
    Names = {k, m, n}
    None = None
    MaxFolders = 2
    MaxModules = 3
    MaxLinks = 2
SYMMETRY Symmetry
SPECIFICATION Spec
INVARIANTS TypeOK HandlesExact LifetimesNest ReadyToRun LinksInForce ExitCodeExact
CHECK_DEADLOCK FALSE
