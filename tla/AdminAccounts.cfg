SPECIFICATION Spec
CONSTANTS
    Browsers = {b1, b2}
    Emails = {ann, bea}
    Invites = {i1}
    None = None
    MaxAccounts = 2
    MaxSessions = 3
    MaxChanges = 1
INVARIANTS
    TypeOK
    InviteIsOneAdmin
    SessionsKnowThePassword
PROPERTIES
    RequestsEnd
