\* Pages of four slots: empty, less than half full, half full and full all happen,
\* and ten pointers reach a third page.
CONSTANTS
    Objects = {a, b}
    Sentinel = Sentinel
    Slots = 4
    MaxEntries = 10
    MaxFrames = 2
SPECIFICATION SpecPool
SYMMETRY Symmetry
INVARIANTS
    PagesAreKept
    WhileCouldBeIf
PROPERTIES
    Implements
