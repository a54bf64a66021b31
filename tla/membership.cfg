SPECIFICATION Spec
CONSTANTS
    ann = ann
    bob = bob
    nick = nick
    r1 = r1
    r2 = r2
    Account = {ann, bob}
    Registered = {ann}
    Root = {ann}
    Subject = {bob}
    InviteRole = {"admin", "viewer"}
    Name = {nick, ann}
    Slot = {r1, r2}
    MaxWorkspaces = 1
    MaxRequests = 3
    MaxTokens = 2
CONSTRAINT Scenario
SYMMETRY Symmetry
INVARIANTS TypeOK AuthorityWasGranted AcceptedRoleKept InvitationUses
PROPERTY LifeSpec
CHECK_DEADLOCK FALSE
