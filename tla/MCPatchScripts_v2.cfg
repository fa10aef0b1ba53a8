\* fix_bounds_v2.py run once on the unpatched file
CONSTANTS
    Methods <- MCMethods
    LengthMethods <- MCLengthMethods
    Pristine <- MCPristine
    DupIndex <- MCDupIndex
    Available = {"v2"}
    MaxRuns = 1
SPECIFICATION Spec
INVARIANT OnlyGuardsInserted
