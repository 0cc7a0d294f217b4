----------------------------- MODULE ToolPolicy -----------------------------
(***************************************************************************)
(* The pure decisions in front of a tool call: the tools the runtime ships *)
(* (tool-system.js), the execution policy of a run (execution-policy.js),  *)
(* the risk of a call (approvals.js) and the families of commands that may *)
(* be run (command-guard.js).  A tool is a name; a set of names stands for *)
(* a column of the table of definitions.  The parameters of a call are     *)
(* reduced to the one thing that matters here: what they raise its risk to.*)
(***************************************************************************)
EXTENDS Naturals, FiniteSets

\* RiskLevel and RISK_ORDER: compareRisk is the order of the numbers.
LOW == 0
MEDIUM == 1
HIGH == 2
CRITICAL == 3

-----------------------------------------------------------------------------
(* TOOL_DEFINITIONS.                                                       *)

ReadTools == {"read_file", "search_code", "git_status", "git_diff", "git_log", "git_branch"}
CommandTools == {"run_tests", "build_project"}
WriteTools == {"apply_patch", "git_create_branch", "git_add", "git_commit"}
NetTools == {"web_search", "fetch_url", "browser_snapshot"}
HighTools == {"git_push", "install_package", "browser_navigate"}

ToolName == ReadTools \cup CommandTools \cup WriteTools \cup NetTools \cup HighTools
            \cup {"env_inspect", "deploy_preview"}

\* Shipped, but off: the registry holds them with status 'disabled'.
Disabled == NetTools \cup HighTools \cup {"deploy_preview"}
RequiresApproval == WriteTools \cup HighTools \cup {"deploy_preview"}

\* HANDLERS: the names with an implementation.
Handled == ReadTools \cup CommandTools
           \cup {"apply_patch", "env_inspect", "fetch_url", "browser_navigate", "browser_snapshot"}

BaseRisk(t) ==
    CASE t = "deploy_preview" -> CRITICAL
      [] t \in HighTools -> HIGH
      [] t \in WriteTools \cup NetTools -> MEDIUM
      [] OTHER -> LOW

Category(t) == IF t = "deploy_preview" THEN "deployment" ELSE "other"

\* seedTools / normalizeDefinition: the record the registry gets for a tool at
\* boot.  No tool is registered before, so the canonical values hold.
Definition(t) ==
    [name |-> t, risk |-> BaseRisk(t), category |-> Category(t),
     requiresApproval |-> t \in RequiresApproval, disabled |-> t \in Disabled]

\* classifyRisk: parameters can only raise the risk.  'sensitive' stands for a
\* large patch, one near secrets or schemas, or unrelated files in a commit;
\* 'command' for a test command outside of the allowed ones.
RaisedTo(t, params) ==
    CASE t = "apply_patch" /\ "sensitive" \in params -> HIGH
      [] t \in {"git_commit", "git_add"} /\ "sensitive" \in params -> HIGH
      [] t \in CommandTools /\ "command" \in params -> CRITICAL
      [] t = "deploy_preview" -> CRITICAL
      [] t \in {"git_push", "install_package"} -> HIGH
      [] t \in {"git_create_branch", "fetch_url", "web_search"} -> MEDIUM
      [] OTHER -> LOW

ClassifyRisk(def, params) ==
    LET up == RaisedTo(def.name, params) IN IF up > def.risk THEN up ELSE def.risk

-----------------------------------------------------------------------------
(* The execution policy.                                                   *)

AutonomyMode == {"read_only", "assisted", "autonomous", "restricted_autonomous"}
ApprovalMode == {"AUTO_APPROVE_LOW", "APPROVE_WRITES", "APPROVE_DANGEROUS", "APPROVE_ALL"}

\* AUTONOMY_PRESETS and approvalModeForAutonomy: the same table twice.
PresetMode(autonomy) ==
    CASE autonomy = "read_only" -> "APPROVE_ALL"
      [] autonomy = "assisted" -> "APPROVE_WRITES"
      [] OTHER -> "APPROVE_DANGEROUS"

PresetNetwork(autonomy) ==
    IF autonomy \in {"assisted", "autonomous"} THEN "allowlist" ELSE "disabled"

AlwaysDenied == {"git_push", "deploy_preview", "install_package"}

\* defaultPolicy.  allowDeploy, allowPush and allowInstall are false whatever
\* the configuration says, so the policy has no field for them.
DefaultPolicy(autonomy) ==
    [autonomy |-> autonomy, mode |-> PresetMode(autonomy), network |-> PresetNetwork(autonomy),
     allowed |-> {}, denied |-> AlwaysDenied]

\* setPolicy with what the API lets through.  A new autonomy brings its approval
\* mode with it unless the request names one; the other fields stay.
Patched(pol, patch) ==
    LET merged == [f \in DOMAIN pol |-> IF f \in DOMAIN patch THEN patch[f] ELSE pol[f]]
    IN IF "autonomy" \in DOMAIN patch /\ "mode" \notin DOMAIN patch
       THEN [merged EXCEPT !.mode = PresetMode(patch.autonomy)]
       ELSE merged

\* isToolAllowedByPolicy.
AllowedByPolicy(pol, def) ==
    /\ def.name \notin pol.denied
    /\ pol.allowed = {} \/ def.name \in pol.allowed
    /\ (def.disabled /\ def.name # "deploy_preview") => def.name \in pol.allowed
    /\ def.category # "deployment"
    /\ def.name \notin {"git_push", "install_package"}

\* Seeded fault: an autonomous run is left alone.
BugAutonomousIsFree(mode, def, risk) ==
    CASE mode = "APPROVE_ALL" -> TRUE
      [] mode = "APPROVE_DANGEROUS" -> FALSE
      [] OTHER -> def.requiresApproval \/ risk >= MEDIUM

\* needsApproval.
NeedsApproval(mode, def, risk) ==
    CASE mode = "APPROVE_ALL" -> TRUE
      [] mode # "APPROVE_ALL" /\ def.requiresApproval ->
            ~(mode = "AUTO_APPROVE_LOW" /\ risk = LOW)
      [] mode \in {"APPROVE_WRITES", "AUTO_APPROVE_LOW"} /\ ~def.requiresApproval ->
            risk >= MEDIUM
      [] mode = "APPROVE_DANGEROUS" /\ ~def.requiresApproval -> risk >= HIGH

-----------------------------------------------------------------------------
(* Commands: a command is its program, the shape of its first arguments and *)
(* the flaws found in its arguments.                                       *)

Command == [bin: {"node", "npm", "pytest", "python", "cargo", "go", "git", "other"},
            sub: {"file", "test", "run", "module", "read", "write", "destroy", "flag", "none"},
            flaws: SUBSET {"meta", "env", "path", "redirect", "long"}]

\* classifyArgv: the family of a command, or none.
Family(cmd) ==
    CASE cmd.bin = "node" /\ cmd.sub = "file" -> "node_test_file"
      [] cmd.bin = "npm" /\ cmd.sub \in {"test", "run"} -> "npm_test"
      [] cmd.bin = "pytest" \/ (cmd.bin = "python" /\ cmd.sub = "module") -> "pytest"
      [] cmd.bin = "cargo" /\ cmd.sub = "test" -> "cargo_test"
      [] cmd.bin = "go" /\ cmd.sub = "test" -> "go_test"
      [] cmd.bin = "git" /\ cmd.sub = "read" -> "git_readonly"
      [] cmd.bin = "git" /\ cmd.sub \in {"write", "destroy"} -> "git_write"
      [] OTHER -> "none"

\* validateArgv: one flaw in any argument, or a flag in front of the file.
ValidArgv(cmd) ==
    /\ cmd.bin # "other" /\ cmd.flaws = {}
    /\ ~(cmd.bin \in {"node", "python", "pytest"} /\ cmd.sub = "flag")

\* assertCommandAllowed without a policy (the build command).
CommandAllowed(cmd) == Family(cmd) # "none" /\ ValidArgv(cmd)

\* tryParseAllowlisted: the test command a deployment configures.
TestCommandAllowed(cmd) ==
    /\ ValidArgv(cmd)
    /\ Family(cmd) \in {"node_test_file", "npm_test", "pytest", "cargo_test", "go_test"}
=============================================================================
