SPECIFICATION Spec
CONSTANTS
    Managers = {1, 2}
    Names <- FoodNames
    Directories = {"here", "there"}
    Catalog <- FoodCatalog
    StaticPlugins <- NoStatic
    None = None
    MaxInstances = 0
INVARIANT
    DependenciesFound
