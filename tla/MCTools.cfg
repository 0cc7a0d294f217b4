\* Two calls with one key and one other; store and fast path overflow by one.
CONSTANTS
    c1 = c1  c2 = c2  c3 = c3  k1 = k1  k2 = k2  a1 = a1  a2 = a2  r1 = r1
    TCall = {c1, c2, c3}  Key = {k1, k2}  Event = {e1}
    Id = {i1, i2}  Run = {r1}  Action = {a1, a2}  Tool = {"apply_patch", "run_tests"}
    ActOf <- MCActOf  KeyOf <- MCKeyOf  RunOf <- MCRunOf  ToolOf <- MCToolOf
    ParamsOf <- MCParamsOf  Patch <- MCPatch
    MaxPending = 1  MaxFast = 1  MaxStore = 2
    MaxCrashes = 1  MaxWriteFaults = 1  MaxPolicies = 1
    Cmd = {m1, m2}  MaxWorkerCrashes = 1
    MaxRedirects = 2
    MaxAnswers = 2
    Patcher = {p1, p2}  Reader = {rd1}  TmpName = {1, 2}  FileKind = {"text", "binary", "large", "missing"}
    MaxUserEdits = 1  user = user
SPECIFICATION ToolsSpec
INVARIANTS EffectsExplained EveryRunAuthorised ToolsHonest
PROPERTY WorkspaceDestroyed
CHECK_DEADLOCK FALSE
