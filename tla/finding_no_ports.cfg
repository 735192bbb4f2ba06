CONSTANTS
    Files <- FileNames
    content <- ContentTable
    Folders <- FolderSets
    Core <- CoreModules
    provides <- ProvidesTable
    Types <- TypeNames
    parameters <- ParametersTable
    ports <- PortsTable
    Names = {m, n}
    None = None
    MaxFolders = 2
    MaxModules = 2
    MaxLinks = 2
SPECIFICATION Spec
INVARIANT NoPortsMeansNone
CHECK_DEADLOCK FALSE
