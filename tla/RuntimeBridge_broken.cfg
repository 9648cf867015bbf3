\* Two calls; the reader of the first's controller breaks.
SPECIFICATION Spec
CONSTANTS
    Calls = {c1, c2}
    MaxEvents = 1
    MaxLosses = 1
SYMMETRY CallSymmetry
INVARIANT FreshAfterBreak
