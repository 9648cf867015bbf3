\* Four requests on a project that is new, or has a scenario, a group and an environment.
SPECIFICATION Spec
CONSTANTS
    Scenarios = {s1, s2}
    Groups = {g1}
    Environments = {e1}
    Present = {"project", s1, g1, e1}
    Requests = {q1, q2, q3, q4}
SYMMETRY LibrarySymmetry
INVARIANTS
    TypeOK
    CurrentIsLatest
    NumbersNeverConflict
    ChangesKept
PROPERTIES
    ImplementsContent
