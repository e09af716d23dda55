SPECIFICATION Spec
CONSTANTS
    Managers = {1, 2}
    Names <- DogNames
    Directories = {"here", "there"}
    Catalog <- CrossCatalog
    StaticPlugins <- NoStatic
    None = None
    MaxInstances = 0
INVARIANT
    ReplacesUnloaded
