CONSTANTS
    r1 = r1
    r2 = r2
    Recipients <- TwoRecipients
    Bodies <- ManyBodies
    MaxSessions = 2
    MaxMails = 2
SPECIFICATION Spec
INVARIANTS
    InStep
    AcceptedAsSent
CHECK_DEADLOCK FALSE
