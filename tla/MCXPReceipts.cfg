SPECIFICATION MCSpec
CONSTANTS
    u1 = u1
    u2 = u2
    ra = ra
    rb = rb
    rc = rc
    None = None
    Progress = Progress
    Users = {u1, u2}
    Tasks <- MCTasks
    Ops = {1, 2}
    EngineOps = {2}
    Requests = {ra, rb, rc}
    Recipient <- MCRecipient
    EngineRequest <- MCEngineRequest
INVARIANTS
    TypeOK
    CreditedExactlyOnce
    AnswersAreDurable
PROPERTIES
    LedgerBehaviour
    TransactionsEnd
CHECK_DEADLOCK FALSE
