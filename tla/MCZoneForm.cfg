CONSTANTS
    a1 = a1  a2 = a2
    r1 = r1  r2 = r2
    n1 = n1  n2 = n2
    c1 = c1
    None = None
    Agents = {a1, a2}
    Rows = {r1, r2}
    Names = {n1, n2}
    Codes = {c1}
SPECIFICATION Spec
INVARIANTS
    FormEditsItsZone
SYMMETRY Symmetry
CHECK_DEADLOCK FALSE
