SPECIFICATION AccessSpec
CONSTANTS
    Emails = {person, boss}
    Admin = boss
    Asking = {person}
    Calls = {c1, c2}
    None = None
    Details = {d1}
    Ttl = 0
    Window = 1
    MaxPerWindow = 1
    MaxFailed = 2
    MaxCodes = 2
    MaxNow = 1
    StashTtl = 1
    MaxStash = 1
SYMMETRY RequestSymmetry
INVARIANTS CodeOpensOnce CodeBurns ActiveWasApproved
PROPERTY RolesStay
CHECK_DEADLOCK FALSE
