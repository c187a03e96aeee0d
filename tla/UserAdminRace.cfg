\* The instance of UserAdmin.cfg; two ADMINs demoted or removed at once.
SPECIFICATION Spec
CONSTANTS
    Request = {r1, r2}
    User = {u1, u2, u3}
    Email = {e1, e2}
    SeedEmail = e1
INVARIANTS LastAdminKept
