SPECIFICATION Spec
CONSTANTS
    Product = {p1, p2, p3}
    Widths <- WidthsToTry
    Live = TRUE
    MaxEdits = 2
    MaxFaults = 2
INVARIANT NoRankedNoise
PROPERTY MigrationCompletes
