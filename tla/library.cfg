SPECIFICATION Spec
CHECK_DEADLOCK FALSE
CONSTANTS
    Editors = {e1, e2}
    Names <- MCNames
    Packages <- MCPackages
    Catalog <- MCCatalog
    Ships <- MCShips
    Sources <- MCSources
    MaxEdits = 3
    MaxTasks = 1
    MaxRestarts = 1
SYMMETRY MCSymmetry
INVARIANTS MeaningIsRetained ViewAgrees
PROPERTY NoLostUpdate
