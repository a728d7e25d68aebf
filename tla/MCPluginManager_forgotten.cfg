\* Only one plugin may throw.
SPECIFICATION Spec
CONSTANTS
    Plugin <- MCPlugin
    Files <- MCFiles
    Component = {"location", "motion", "mesh"}
    PluginDependencies <- MCPluginDependencies
    ComponentDependencies <- MCComponentDependencies
    Registers <- MCRegisters
    Awaits <- MCAwaits
    MayFail = {"left"}
INVARIANTS NoPluginForgotten
CHECK_DEADLOCK FALSE
