------------------------------ MODULE MCTools -------------------------------
\* Tool calls and what carries them out: the executor with its keys and gate,
\* the isolated worker, guarded fetches and patches.  They share no variable:
\* each behaviour has one of them move (part), so that their state spaces add up.
EXTENDS ToolCalls, Sandbox, ToolHandlers, TLC
CONSTANTS c1, c2, c3, k1, k2, a1, a2, r1

\* c1 and c2: a risky patch and its retry; c3: tests.
MCActOf == (c1 :> a1) @@ (c2 :> a1) @@ (c3 :> a2)
MCKeyOf == (c1 :> k1) @@ (c2 :> k1) @@ (c3 :> k2)
MCRunOf == (a1 :> r1) @@ (a2 :> r1)
MCToolOf == (a1 :> "apply_patch") @@ (a2 :> "run_tests")
MCParamsOf == (a1 :> {"sensitive"}) @@ (a2 :> {})
MCPatch == {[autonomy |-> "autonomous"], [denied |-> {"run_tests"}]}

VARIABLE part

ToolsInit ==
    /\ ToolInit /\ SandboxInit /\ FetchInit /\ PatchInit
    /\ part \in {"calls", "sandbox", "fetch", "patch"}
    /\ sandboxUrl => production        \* elsewhere the URL makes no difference
    /\ part # "calls" => ~production
    /\ part # "sandbox" => ~inProduction /\ ~workerUrl
    /\ part # "fetch" => via = "fetch" /\ net = "disabled"
                          /\ page = [demo |-> FALSE, https |-> FALSE, shape |-> FALSE, listed |-> FALSE]
    /\ part # "patch" => kind = "text" /\ writesAllowed

ToolsNext ==
    /\ UNCHANGED part
    /\ \/ part = "calls" /\ ToolNext /\ UNCHANGED <<sandboxVars, fetchVars, patchVars>>
       \/ part = "sandbox" /\ SandboxNext /\ UNCHANGED <<toolVars, fetchVars, patchVars>>
       \/ part = "fetch" /\ FetchNext /\ UNCHANGED <<toolVars, sandboxVars, patchVars>>
       \/ part = "patch" /\ PatchNext /\ UNCHANGED <<toolVars, sandboxVars, fetchVars>>

\* The event loop of the worker runs what is due, its timers included.
ToolsFairness ==
    \A c \in Cmd :
        /\ WF_sandboxVars(part = "sandbox" /\ (Fill(c) \/ Collect(c) \/ RemoveAndReply(c)))
        /\ WF_sandboxVars(part = "sandbox" /\ (ChildExits(c) \/ TimeLimit(c)))
        /\ WF_sandboxVars(part = "sandbox" /\ worker[c] = "running" /\ ChildStops(c))

ToolsSpec ==
    ToolsInit /\ [][ToolsNext]_<<toolVars, sandboxVars, fetchVars, patchVars, part>> /\ ToolsFairness

\* The states of the parts have their types.
ToolsTypeOK == ToolTypeOK /\ SandboxTypeOK /\ FetchTypeOK

\* The tools that leave the process say what they did: tests pass only when a
\* sandboxed child ended with 0, and its directory is gone unless the removal failed
\* (Sandbox), every hop of a fetch goes where the run's policy lets it, and a patch
\* reported as applied was in the file, whole (both ToolHandlers).
ToolsHonest == ToolsTypeOK /\ SandboxHonest /\ FetchGuarded /\ PatchHonest
=============================================================================
