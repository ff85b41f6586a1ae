CONSTANTS
    None = None
    ModuleNames <- MCModuleNames
    BuildArgs <- MCBuildArgs
    SchemaCases = {"capture"}
SPECIFICATION MCSchemaSpec
INVARIANT TypesAreLexical
CHECK_DEADLOCK FALSE
