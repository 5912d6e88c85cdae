SPECIFICATION Spec
CONSTANTS
    Requests = {q1, q2}
    Comps = {comp1, comp2}
    None = None
SYMMETRY Interchangeable
PROPERTIES
    NotAvailableIs204
