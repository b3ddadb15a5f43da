CONSTANTS
    NoTask = NoTask
    p = p  c = c  a = a  b = b  e = e  m = m
    rp = rp  ra = ra  rb = rb  re = re
    NSlots = 2
    Task = {p, c, a, b}
    Request = {rp, ra, rb}
    ReqOf <- FamilyReq
    ParentOf <- FamilyParent
    Kind <- FamilyKind
    BatchKey <- FamilyKey
    IdSlot <- FamilySlot
    ActionSlot <- NoAction
    ContBatching = TRUE
    Leavers = {}
    LaunchFails = {}
    PromptFails = {b}
    EmptyPrompt = {a}
    ContextFills = {p, c}
    DecodeFails = FALSE
SPECIFICATION FairSpec
INVARIANTS
    NoStall
    CancelEffective
PROPERTIES
    EveryClientServed
