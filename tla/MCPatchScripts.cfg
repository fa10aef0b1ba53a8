\* Every script, in every order, up to six runs
CONSTANTS
    Methods <- MCMethods
    LengthMethods <- MCLengthMethods
    Pristine <- MCPristine
    DupIndex <- MCDupIndex
    Available = {"v1", "v2", "v3", "dup"}
    MaxRuns = 6
SPECIFICATION Spec
INVARIANT EveryReadGuarded
INVARIANT SingleRunPatchesExactly
