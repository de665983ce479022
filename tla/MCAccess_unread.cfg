SPECIFICATION AccessSpec
CONSTANTS
    Clients = {c1, c2}
    Tenants = {acme}
    Users = {ann}
    Agents = {bot}
    Names = {first}
    Tiers = {starter, professional}
    Roles = {admin, viewer}
    Passwords = {old, new}
    Admin = admin
    FirstUsers = {ann}
    LastTime = 1
    MaxCalls = 3
    TokenLifetime = 1
    Never = Never
    NoRow = NoRow
    None = None
SYMMETRY Symmetry
INVARIANT UpdateIsAnswered
CHECK_DEADLOCK FALSE
