SPECIFICATION Spec
CONSTANTS
    tool = tool
    Apps = {heimdallr}
    Owner = heimdallr
    Tools = {tool}
    PutRule = policy_put
    DropRule = policy_delete
    Names = {"limit"}
    Rules <- OneLimit
    AnyTool = any
    Slots = {s1, s2}
    CacheTTL = 1
    LimitWindow = 3
    SoftLimit = 0
    HardLimit = 1
    Window = 2
    Boot = 0
    DbFails = TRUE
    MaxQuery = 1
    MaxTime = 2
    MaxCalls = 3
    MaxReceipts = 1
    MaxPolicies = 2
SYMMETRY Alike
INVARIANTS
    InForce
    Immediate
    
CHECK_DEADLOCK FALSE
