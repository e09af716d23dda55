SPECIFICATION Spec
CONSTANTS
    Managers = {1, 2}
    Names <- OrderedNames
    Directories = {"here", "there"}
    Catalog <- OrderedCatalog
    StaticPlugins <- OrderedStatic
    None = None
    MaxInstances = 1
INVARIANTS
    UsesLoaded
    UsedByExact
    DependenciesFound
    AliasesSound
    AllUnloaded
PROPERTY
    InstancesKept
