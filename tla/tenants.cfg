SPECIFICATION Spec
CONSTANTS
    ann = ann
    bob = bob
    nick = nick
    r1 = r1
    r2 = r2
    Account = {ann, bob}
    Registered = {ann}
    Root = {ann}
    Subject = {bob}
    InviteRole = {"admin", "viewer"}
    Name = {nick, ann}
    Slot = {r1, r2}
    MaxWorkspaces = 2
    MaxRequests = 3
    MaxTokens = 2
SYMMETRY Symmetry
INVARIANT TenantsIsolated
CHECK_DEADLOCK FALSE
