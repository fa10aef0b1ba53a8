\* fix_bounds_v3.py run twice
CONSTANTS
    Methods <- MCMethods
    LengthMethods <- MCLengthMethods
    Pristine <- MCPristine
    DupIndex <- MCDupIndex
    Available = {"v3"}
    MaxRuns = 2
SPECIFICATION Spec
INVARIANT AtMostOneGuard
