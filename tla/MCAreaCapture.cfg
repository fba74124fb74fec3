CONSTANTS
    Widths <- MCWidths
    Heights <- MCHeights
    Paddings <- MCPaddings
    Samples <- MCSamples
    SumModulus <- MCSumModulus
SPECIFICATION Spec
INVARIANTS
    ReportsTheMean
