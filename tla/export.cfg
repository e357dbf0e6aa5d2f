SPECIFICATION Spec
CONSTANTS
    Exports = {e1, e2}
    FileCount = 2
    Surprises = {"damaged", "unstaged", "ancestor", "uninstallable", "stuck"}
    Stops = {"killed", "shutdown"}
    MaxStops = 1
    MaxEdits = 1
SYMMETRY Symmetry
CHECK_DEADLOCK FALSE
INVARIANTS RootHasOneOwner CreatedHappened ConcludesFromKnown
