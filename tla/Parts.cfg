SPECIFICATION Spec
CONSTANTS
    Browsers = {b1, b2}
    MaxCalls = 3
    Admins = {a1, a2}
    MaxLosses = 2
    PromiseNames <- ThreeNames
    Handlers = {"none", "throw", "self", "p1"}
    MaxInterceptors = 3
    MaxFirst = 2
    MaxChildren = 3
    MaxPatches = 2
    None = "none"
    Pages = {"home", "set", "list"}
    MaxManages = 2
    Keys = {"one", "other"}
    MaxSwitches = 3
INVARIANTS
    TypeOK
    OnlyALateLoginReopens
    ReadyUnderRoot
    NoStaleValue
    FollowersAgree
    SuccessIsHandled
    ShownAsRendered
    KeysKeepElements
    OnlyShownIsActive
    LinksArrive
PROPERTIES
    SettledOnce
    HooksInOrder
CHECK_DEADLOCK FALSE
