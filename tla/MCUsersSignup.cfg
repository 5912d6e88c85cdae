SPECIFICATION Spec
CONSTANTS
    Calls = {c1, c2}
    Emails = {e1, e2}
    Passwords = {p1}
    Targets = {team}
    Competitions = {}
    Patches <- AnyPatch
    MaxUsers = 2
    MaxRows = 1
    None = None
SYMMETRY Interchangeable
PROPERTIES
    TakenEmailIs400
