\* Import graphs over nine directories, cycles and self-imports included.
CONSTANTS
    MAIN_PKG = "main"
    Dirs <- CodeDirs
    Names <- PathNames
    EmptyDirs <- NoCodeDirs
    PackageMaps <- MappedModules
    Vendored <- VendoredModules
    Unreadable <- Broken
    Builtins <- SystemModules
    Plugins <- PluginModules
    LoadPackages = TRUE
    LoadPlugins = FALSE
    Programs <- AnyGraph
SPECIFICATION FairSpec
INVARIANTS LoadsExactly BindsMeaning
PROPERTIES Terminates Advances
CHECK_DEADLOCK FALSE
