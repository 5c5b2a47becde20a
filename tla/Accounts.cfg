\* Three requests of any route, with or without an account before them.
SPECIFICATION Spec
CONSTANTS
    Request = {r1, r2, r3}
    Operations <- Routes
    Kind = {email}
    Limit = 2
    Before = Before
    None = None
    Clean = Clean
SYMMETRY Symmetry
INVARIANTS AccountsInv PhotoAgrees ContactLimit
PROPERTIES EditsKept ThemeOnly
