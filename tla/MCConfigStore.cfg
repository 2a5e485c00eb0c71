CONSTANTS
    a1 = a1
    a2 = a2
    p1 = p1
    p2 = p2
    m1 = m1
    r1 = r1
    d1 = d1
    Admins <- MCAdmins
    NoAdmin = NoAdmin
    Providers = {p1, p2}
    Models = {m1}
    Aliases = {r1}
    Definitions = {d1}
    Blank = Blank
    Masked = Masked
    Keyless = Keyless
    YAML <- MCYAML
    Imports <- MCImports
    MaxChanges = 3
SPECIFICATION Spec
SYMMETRY Symmetry
INVARIANTS ActiveIsValid InSync AppliedInOrder
PROPERTIES ImplementsRegister
