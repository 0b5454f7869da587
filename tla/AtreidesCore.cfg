SPECIFICATION Spec
CONSTANTS
    s1 = s1
    s2 = s2
    s3 = s3
    alice = alice
    bob = bob
    blur = blur
    NoUser = NoUser
    Sessions = {s1, s2}
    Users = {alice, bob, blur}
    Typed = {alice, bob}
    Residues = {blur}
    Answers <- AnswersReadUp
    Leading <- LeadingOne
    Backlog = 3
    PhotoIds = {1}
    Chunks = 2
    Superuser = FALSE
    RegisterMayFail = FALSE
    Commands = {"search", "send", "photo"}
    Faults = {"kill", "interrupt", "shutdown"}
SYMMETRY Symmetry
CHECK_DEADLOCK FALSE
INVARIANTS TypeOK MutualExclusion InStep
PROPERTIES Attributed
