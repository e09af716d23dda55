SPECIFICATION Spec
CONSTANTS
    Managers = {1, 2}
    Names <- DogNames
    Directories = {"here"}
    Catalog <- DogCatalog
    StaticPlugins <- NoStatic
    None = None
    MaxInstances = 0
INVARIANT
    AllUnloaded
