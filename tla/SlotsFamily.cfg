CONSTANTS
    NoTask = NoTask
    p = p  c = c  a = a  b = b  e = e  m = m
    rp = rp  ra = ra  rb = rb  re = re
    NSlots = 2
    Task = {p, c, a, b, e, m}
    Request = {rp, ra, rb, re}
    ReqOf <- MixedReq
    ParentOf <- MixedParent
    Kind <- MixedKind
    BatchKey <- MixedKey
    IdSlot <- MixedSlot
    ActionSlot <- MixedAction
    ContBatching = FALSE
    Leavers = {ra}
    LaunchFails = {p, b}
    PromptFails = {a}
    EmptyPrompt = {}
    ContextFills = {}
    DecodeFails = TRUE
SPECIFICATION Spec
INVARIANTS
    OnePlace
    AnsweredOnce
    NotForgotten
    FamiliesEnd
    BatchAlive
