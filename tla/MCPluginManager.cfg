\* Three plugins may throw, two register the same component, and the files are tried in every order.
SPECIFICATION FairSpec
CONSTANTS
    Plugin <- MCPlugin
    Files <- MCFiles
    Component = {"location", "motion", "mesh"}
    PluginDependencies <- MCPluginDependencies
    ComponentDependencies <- MCComponentDependencies
    Registers <- MCRegistersTwice
    Awaits <- MCAwaits
    MayFail = {"base", "left", "right"}
INVARIANTS
    DependenciesFirst
    InitializedOnce
    NothingReadyDeferred
    NoneForgottenWithoutFailure
    ShutdownInOrder
    HandlersRunOnce
PROPERTIES
    LoadingReturns
CHECK_DEADLOCK FALSE
