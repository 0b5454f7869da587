SPECIFICATION FairSpec
CONSTANTS
    s1 = s1
    s2 = s2
    s3 = s3
    alice = alice
    bob = bob
    blur = blur
    NoUser = NoUser
    Sessions = {s1, s2}
    Users = {alice, blur}
    Typed = {alice}
    Residues = {blur}
    Answers <- AnswersOfAnyKind
    Leading <- LeadingOne
    Backlog = 0
    PhotoIds = {1}
    Chunks = 1
    Superuser = FALSE
    RegisterMayFail = FALSE
    Commands = {"search", "send", "photo"}
    Faults = {"kill"}
CHECK_DEADLOCK FALSE
PROPERTIES Answered
