------------------------------ MODULE Sandbox -------------------------------
(***************************************************************************)
(* Commands of a tool: run in place while developing, by the isolated      *)
(* worker in production.  The client is runCommandSandboxed in             *)
(* tool-executor.js and backend/src/execution/isolated-executor.js; the    *)
(* worker is sandbox-worker/server.js, a process of its own, which gives   *)
(* every request a directory, a child process and a time limit.  Replies   *)
(* get lost, the client stops waiting, the worker dies at any point.       *)
(***************************************************************************)
EXTENDS Naturals, FiniteSets, ToolPolicy

CONSTANTS
    Cmd,               \* commands to run
    MaxWorkerCrashes   \* bound of the model

VARIABLES
    inProduction, workerUrl,   \* NODE_ENV, ISOLATED_EXECUTOR_URL
    client,    \* per command: idle, waiting for the worker, local, answered
    result,    \* per command: what the tool returns
    worker,    \* per command: where the worker is with the request
    child,     \* per command: none, alive, stopping (SIGTERM), or how it ended
    dirs,      \* ephemeral directories that exist
    left,      \* history: directories whose removal failed
    reply,     \* per command: the reply on the wire
    workerCrashes

sandboxVars == <<inProduction, workerUrl, client, result, worker, child, dirs, left,
                 reply, workerCrashes>>

\* How a child ends: by itself, by the limit's SIGTERM, later than that with a
\* code of its own (it handles the signal), or by SIGKILL.
Late == {"late0", "late1", "sigkill"}
Ended == {"exit0", "exit1", "sigterm"} \cup Late
Refusals == {"unauthorized", "bad_params", "secret_refused", "denied", "failure"}
CmdResult == {"none", "passed", "failed", "timeout", "denied", "bad_params", "malformed",
              "sandbox_unavailable"}

SandboxInit ==
    /\ inProduction \in BOOLEAN /\ workerUrl \in BOOLEAN
    /\ client = [c \in Cmd |-> "idle"] /\ result = [c \in Cmd |-> "none"]
    /\ worker = [c \in Cmd |-> "none"] /\ child = [c \in Cmd |-> "none"]
    /\ dirs = {} /\ left = {} /\ reply = [c \in Cmd |-> "none"] /\ workerCrashes = 0

Client(c, at, res) ==
    /\ client' = [client EXCEPT ![c] = at] /\ result' = [result EXCEPT ![c] = res]
Worker(c, at) == worker' = [worker EXCEPT ![c] = at]
Deployment == <<inProduction, workerUrl, left>>

-----------------------------------------------------------------------------
(* The client.                                                             *)

\* routeCommandExecution; run_tests and build_project both require isolation.
Route == CASE ~inProduction -> "local"
           [] inProduction /\ workerUrl -> "isolated"
           [] inProduction /\ ~workerUrl -> "unavailable"

\* describeTestCommand, and the gate of handleBuildProject.
Gate(tool, cmd) == IF tool = "run_tests" THEN TestCommandAllowed(cmd) ELSE CommandAllowed(cmd)

\* The command is checked, the executor chosen, the workspace read (snapshotWorkspace)
\* and the request looked over (validateExecuteRequest) before anything is sent.
RunCommand(c, tool, cmd) ==
    /\ client[c] = "idle"
    /\ \/ /\ ~Gate(tool, cmd)
          /\ Client(c, "answered", "denied") /\ UNCHANGED child
       \/ /\ Gate(tool, cmd) /\ Route = "unavailable"
          /\ Client(c, "answered", "sandbox_unavailable") /\ UNCHANGED child
       \/ /\ Gate(tool, cmd) /\ Route = "local"
          /\ Client(c, "local", "none") /\ child' = [child EXCEPT ![c] = "alive"]
       \/ /\ Gate(tool, cmd) /\ Route = "isolated" /\ UNCHANGED child
          /\ \/ Client(c, "waiting", "none")
             \/ Client(c, "answered", "denied")               \* no snapshot, a host path
             \/ Client(c, "answered", "bad_params")
             \/ Client(c, "answered", "sandbox_unavailable")   \* names that look like secrets
    /\ UNCHANGED <<Deployment, worker, dirs, reply, workerCrashes>>

\* execFile's callback: a timeout is an error with signal SIGTERM, code 0 is no
\* error at all.
Outcome(e) == CASE e \in {"exit0", "late0"} -> "passed"
                [] e = "sigterm" -> "timeout"
                [] e \in {"exit1", "late1", "sigkill"} -> "failed"

\* runCommandLocal.
LocalEnds(c) ==
    /\ client[c] = "local" /\ child[c] \in Ended
    /\ Client(c, "answered", Outcome(child[c]))
    /\ UNCHANGED <<Deployment, worker, child, dirs, reply, workerCrashes>>

\* The call that runs the command is cancelled or timed out: SIGKILL.
LocalAborted(c) ==
    /\ client[c] = "local" /\ child[c] \in {"alive", "stopping"}
    /\ child' = [child EXCEPT ![c] = "sigkill"]
    /\ UNCHANGED <<Deployment, client, result, worker, dirs, reply, workerCrashes>>

\* validateExecuteResponse: what is made of a reply.  Every status but 2xx is an
\* executor that is not there; a reply without the attestation is malformed.
\* The worker also takes a late error for a timeout whose output says "timed out".
Readings(m) ==
    CASE m \in Ended -> {Outcome(m)} \cup (IF m \in {"late1", "sigkill"} THEN {"timeout"} ELSE {})
      [] m = "garbled" -> {"malformed"}
      [] m \in Refusals -> {"sandbox_unavailable"}

Receive(c) ==
    /\ client[c] = "waiting" /\ reply[c] # "none"
    /\ \E res \in Readings(reply[c]) : Client(c, "answered", res)
    /\ reply' = [reply EXCEPT ![c] = "none"]
    /\ UNCHANGED <<Deployment, worker, child, dirs, workerCrashes>>

\* postJson: the connection fails, or nothing comes in time.
ClientGivesUp(c) ==
    /\ client[c] = "waiting"
    /\ Client(c, "answered", "sandbox_unavailable")
    /\ UNCHANGED <<Deployment, worker, child, dirs, reply, workerCrashes>>

-----------------------------------------------------------------------------
(* The worker.                                                             *)

Reply(c, m) ==
    reply' = [reply EXCEPT ![c] = IF client[c] = "waiting" THEN m ELSE "none"]

\* The request handler: token, body, validateRequest, then mkdtemp.
Accept(c) ==
    /\ client[c] = "waiting" /\ worker[c] = "none"
    /\ \/ Worker(c, "filling") /\ dirs' = dirs \cup {c} /\ UNCHANGED reply
       \/ /\ Worker(c, "done") /\ UNCHANGED dirs
          /\ \E m \in Refusals : Reply(c, m)
    /\ UNCHANGED <<Deployment, client, result, child, workerCrashes>>

\* The files of the snapshot are written; then the child starts.
Fill(c) ==
    /\ worker[c] = "filling"
    /\ \/ Worker(c, "running") /\ child' = [child EXCEPT ![c] = "alive"]
       \/ Worker(c, "throwing") /\ UNCHANGED child
    /\ UNCHANGED <<Deployment, client, result, dirs, reply, workerCrashes>>

ChildExits(c) ==
    /\ child[c] = "alive"
    /\ \E e \in {"exit0", "exit1"} : child' = [child EXCEPT ![c] = e]
    /\ UNCHANGED <<Deployment, client, result, worker, dirs, reply, workerCrashes>>

\* execFile's timeout sends SIGTERM, which a child may ignore.
TimeLimit(c) ==
    /\ child[c] = "alive"
    /\ child' = [child EXCEPT ![c] = "stopping"]
    /\ UNCHANGED <<Deployment, client, result, worker, dirs, reply, workerCrashes>>

\* It dies of the signal, or handles it and ends with a code of its own; in the
\* worker it ends at the latest with the SIGKILL two seconds later.
ChildStops(c) ==
    /\ child[c] = "stopping"
    /\ \E e \in {"sigterm", "late0", "late1", "sigkill"} :
          /\ e = "sigkill" => client[c] # "local"
          /\ child' = [child EXCEPT ![c] = e]
    /\ UNCHANGED <<Deployment, client, result, worker, dirs, reply, workerCrashes>>

\* execFile's callback, then collectArtifacts and manifestWorkspace, which read
\* the directory: it is still there.
Collect(c) ==
    /\ worker[c] = "running" /\ child[c] \in Ended
    /\ Worker(c, "removing")
    /\ UNCHANGED <<Deployment, client, result, child, dirs, reply, workerCrashes>>

\* Seeded fault: the directory is removed only when all went well.
BugKeepDirectory(c) ==
    /\ worker[c] \in {"removing", "throwing"}
    /\ dirs' = IF worker[c] = "removing" THEN dirs \ {c} ELSE dirs
    /\ Reply(c, IF worker[c] = "removing" THEN child[c] ELSE "failure")
    /\ Worker(c, "done")
    /\ UNCHANGED <<Deployment, client, result, child, workerCrashes>>

\* Seeded fault: the reply does not wait for the removal.
BugReplyFirst(c) ==
    /\ worker[c] \in {"removing", "throwing"}
    /\ Reply(c, IF worker[c] = "removing" THEN child[c] ELSE "failure")
    /\ Worker(c, "done")
    /\ UNCHANGED <<Deployment, client, result, child, dirs, workerCrashes>>

\* finally: the directory goes, whatever happened, and then the reply is sent; a
\* removal that fails goes unnoticed.
RemoveAndReply(c) ==
    /\ worker[c] \in {"removing", "throwing"}
    /\ \/ dirs' = dirs \ {c} /\ left' = left
       \/ dirs' = dirs /\ left' = left \cup {c}
    /\ Reply(c, IF worker[c] = "removing" THEN child[c] ELSE "failure")
    /\ Worker(c, "done")
    /\ UNCHANGED <<inProduction, workerUrl, client, result, child, workerCrashes>>

\* A reply cut short, or changed on its way by a proxy.
Garble(c) ==
    /\ reply[c] \in Ended
    /\ reply' = [reply EXCEPT ![c] = "garbled"]
    /\ UNCHANGED <<Deployment, client, result, worker, child, dirs, workerCrashes>>

\* The container of the worker dies and comes back: its children die with it and
\* its directories are on a tmpfs; requests at hand are never answered.
WorkerCrash ==
    /\ workerCrashes < MaxWorkerCrashes
    /\ workerCrashes' = workerCrashes + 1
    /\ dirs' = {} /\ left' = {}
    /\ worker' = [c \in Cmd |-> IF worker[c] = "none" THEN "none" ELSE "done"]
    /\ child' = [c \in Cmd |-> IF client[c] = "local" \/ child[c] \notin {"alive", "stopping"}
                               THEN child[c] ELSE "none"]
    /\ reply' = [c \in Cmd |-> "none"]
    /\ UNCHANGED <<inProduction, workerUrl, client, result>>

\* bound: the shapes of command a workspace or a deployment configures.
CmdShapes == {k \in Command : /\ k.bin \in {"npm", "node", "git"} /\ k.sub \in {"test", "flag", "read"}
                              /\ k.flaws \in {{}, {"path"}}}

SandboxNext ==
    \/ \E c \in Cmd :
        \/ \E tool \in CommandTools, cmd \in CmdShapes : RunCommand(c, tool, cmd)
        \/ LocalEnds(c) \/ LocalAborted(c) \/ Receive(c) \/ ClientGivesUp(c)
        \/ Accept(c) \/ Fill(c) \/ Collect(c) \/ RemoveAndReply(c) \/ Garble(c)
        \/ ChildExits(c) \/ TimeLimit(c) \/ ChildStops(c)
    \/ WorkerCrash

-----------------------------------------------------------------------------
SandboxTypeOK ==
    /\ client \in [Cmd -> {"idle", "waiting", "local", "answered"}]
    /\ result \in [Cmd -> CmdResult]
    /\ worker \in [Cmd -> {"none", "filling", "running", "removing", "throwing", "done"}]
    /\ child \in [Cmd -> {"none", "alive", "stopping"} \cup Ended]
    /\ reply \in [Cmd -> {"none", "garbled"} \cup Refusals \cup Ended]
    /\ dirs \subseteq Cmd /\ left \subseteq Cmd

\* "Production code execution without a reachable isolated executor FAILS CLOSED
\* ... never silently falls back" and "never returns fake success"
\* (isolated-executor.js): tests pass for the tool only when a child has really
\* ended with code 0 (which one that handles the limit's SIGTERM may do after its
\* time), in the worker when in production; a timeout is reported only of a child
\* that came to its limit.  When tests have passed in the worker the directory of
\* the request is gone, but for a removal that failed, even for a reply that
\* arrives late or after a crash of the worker.
SandboxHonest ==
    \A c \in Cmd :
        /\ result[c] = "passed" => /\ child[c] \in {"exit0", "late0"}
                                   /\ inProduction => worker[c] = "done" /\ c \notin dirs \ left
        /\ result[c] = "timeout" => child[c] \in {"sigterm", "late1", "sigkill"}
        /\ inProduction => client[c] # "local"

\* "Destroy the ephemeral workspace after completion - always" (sandbox-worker):
\* a child that hangs, a client that has left or a snapshot that cannot be
\* written do not keep a directory alive; a removal that fails does.
WorkspaceDestroyed == \A c \in Cmd : c \in dirs ~> c \notin dirs \/ c \in left
=============================================================================
