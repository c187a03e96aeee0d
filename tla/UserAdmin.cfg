\* Two requests at once, three accounts, two e-mails.
SPECIFICATION Spec
CONSTANTS
    Request = {r1, r2}
    User = {u1, u2, u3}
    Email = {e1, e2}
    SeedEmail = e1
SYMMETRY Symmetry
INVARIANTS TypeOK OneAccountPerEmail
PROPERTIES LastAdminFallsOnlyToARace
