SPECIFICATION Spec
CONSTANTS
    None = None
    Daemons <- MCDaemons
    Launchers = {l1}
    Panes = {p1, p2}
    Cwds = {c1}
    Sessions = {s1, s2}
    HookEvents = {e1, e2}
    Checkouts = {k1, k2}
    UserScripts = {mine}
    MaxCommands = 4
INVARIANTS
    OneDaemon
    RegistrationHolds
    HooksTidy
SYMMETRY MCSymmetry
CHECK_DEADLOCK FALSE
