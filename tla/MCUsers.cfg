SPECIFICATION Spec
CONSTANTS
    Calls = {c1, c2}
    Emails = {e1, e2}
    Passwords = {p1, p2}
    Targets = {team, comp}
    Competitions = {comp}
    Patches <- LinkPatches
    MaxUsers = 2
    MaxRows = 2
    None = None
SYMMETRY Interchangeable
INVARIANTS
    TypeOK
    EmailsAreUnique
    NoRowChangesHands
    DeletesHitTheirTarget
PROPERTIES
    LinksAreLostOnlyToRaces
