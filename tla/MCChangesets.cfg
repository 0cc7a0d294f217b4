\* Two requests in flight; the user edits once; one restart.
CONSTANTS
    big = big  small = small  f = f  g = g
    r = r  applyPatch = applyPatch  paramsBig = paramsBig  other = other
    a1 = a1  k1 = k1  k2 = k2
    Id = {a1}
    Run = {r}
    Tool = {applyPatch}
    Action = {paramsBig, other}
    RunOf <- MCRunOf
    ToolOf <- MCToolOf
    MaxPending = 1
    Cs = {big, small}
    FilesOf <- MCFilesOf
    File = {f, g}
    Caller = {k1, k2}
    ActionOf <- MCActionOf
    Gated = {big}
    MaxVersion = 2
    MaxEdits = 1
    MaxCrashes = 1
SPECIFICATION Spec
INVARIANTS TypeOK SingleUse EveryPassApproved AppliedOnce AllOrNothing
SYMMETRY MCSymmetry
CHECK_DEADLOCK FALSE
