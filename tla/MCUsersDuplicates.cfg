SPECIFICATION Spec
CONSTANTS
    Calls = {c1, c2}
    Emails = {e1}
    Passwords = {p1}
    Targets = {team}
    Competitions = {}
    Patches <- AnyPatch
    MaxUsers = 1
    MaxRows = 2
    None = None
SYMMETRY Interchangeable
INVARIANTS
    NoDuplicateLinks
