SPECIFICATION Spec
CONSTANTS
    ItemIds = {first, a, b}
    Legacy = {first}
    first = first
    a = a
    b = b
INVARIANTS TypeOK OrderIsTotal
PROPERTIES ImplementsList
SYMMETRY NewRows
