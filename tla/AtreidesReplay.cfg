SPECIFICATION Spec
CONSTANTS
    s1 = s1
    s2 = s2
    s3 = s3
    alice = alice
    bob = bob
    blur = blur
    NoUser = NoUser
    Sessions = {s1}
    Users = {alice, bob, blur}
    Typed = {alice, bob}
    Residues = {blur}
    Answers <- AnswersReadUp
    Leading <- LeadingOne
    Backlog = 3
    PhotoIds = {}
    Chunks = 1
    Superuser = FALSE
    RegisterMayFail = FALSE
    Commands = {}
    Faults = {"kill"}
SYMMETRY Symmetry
CHECK_DEADLOCK FALSE
INVARIANTS OnlyTypedUsers
