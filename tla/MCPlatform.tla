----------------------------- MODULE MCPlatform -----------------------------
\* The rest of the platform around a run: its context, memory and learning, the
\* registry of runs, the plan, episodes and constraints, verification, accounts,
\* access and provider keys, git, the checkpoints and the answer caches.  They share no
\* variable: each behaviour has one of them move (part), so that their state spaces
\* add up.
EXTENDS Caching, ContextWindow, Memory, RunRegistry, Plans, Verification, Tenancy, GitLayer, Checkpoints, TLC

(****************************** the constants ******************************)

\* A tool's evidence, a large and a pinned text, a summary that depends on the
\* item added before it, and a second message of the user that names a third.
MCItem == [tokens |-> 3, source |-> "tool", rel |-> 9, never |-> FALSE, deps |-> {}]
MCItems == {MCItem, [MCItem EXCEPT !.tokens = 6, !.rel = 5], [MCItem EXCEPT !.never = TRUE],
            [MCItem EXCEPT !.deps = {2}], [MCItem EXCEPT !.source = "user", !.deps = {3}]}

MCText == [source |-> "tool", keyword |-> FALSE, secret |-> FALSE, topic |-> 1, value |-> 1]
MCTexts == {MCText, [MCText EXCEPT !.source = "model", !.keyword = TRUE, !.value = 2],
            [MCText EXCEPT !.source = "model", !.secret = TRUE]}
MCOrgOf == [r \in 1..2 |-> "o1"]

MCLearnTenant == [r \in 1..2 |-> r]
MCTests == {<<>>, <<0, 0>>, <<2, 0>>, <<1, 1>>}
MCFeedback == {[signal |-> "positive", conf |-> 9], [signal |-> "negative", conf |-> 4],
               [signal |-> "negative", conf |-> 8]}

\* Two files of which one lies in a directory, and other ways to write both.
MCPlain == {"src", "src/a", "a"}
MCInside == {<<p, p>> : p \in MCPlain \cup {"src/", "src//a"}}
            \cup {<<"src/a", "src">>, <<"src//a", "src">>, <<"src//a", "src/">>, <<"src/", "src">>}
MCEnds == {<<p, p>> : p \in MCPlain \cup {"src/", "src//a"}} \cup {<<"src/a", "a">>, <<"src//a", "a">>}
MCBeneath == {"src", "src/"} \X {"src", "src/"} \cup {<<"a", "a">>}
             \cup {"src/a", "src//a"} \X {"src", "src/", "src/a", "src//a"}

\* Administrators of two organisations, a viewer of the first, the
\* installation's administrator and an operator with a token.
MCPrincipals ==
    {[id |-> 1, role |-> "admin", org |-> 11, src |-> "session"],
     [id |-> 2, role |-> "admin", org |-> 12, src |-> "session"],
     [id |-> 3, role |-> "admin", org |-> 0, src |-> "env"],
     [id |-> 4, role |-> "operator", org |-> 0, src |-> "env"],
     [id |-> 5, role |-> "viewer", org |-> 11, src |-> "session"]}

\* One file or whatever has changed, a flag, a commit of everything or of the
\* run's own files.
MCAdd == [kind |-> "add", paths |-> {"a"}, unrelated |-> FALSE]
MCCover == [x \in {"a", "b", "*"} |-> IF x = "*" THEN {"a", "b"} ELSE {x}]
MCGitOps ==
    {MCAdd, [MCAdd EXCEPT !.paths = {"a", "*"}], [MCAdd EXCEPT !.paths = {"b", "-A"}],
     [kind |-> "branch", paths |-> {}, unrelated |-> FALSE]}
    \cup [kind: {"commit"}, paths: {{}}, unrelated: BOOLEAN]

\* Three runs, two of them of one tenant, with two tasks that are alike.
MCReuseTenant == [r \in 1..3 |-> IF r = 3 THEN 2 ELSE 1]
MCTaskOf == [r \in 1..3 |-> IF r = 2 THEN 2 ELSE 1]
MCSimilar == [a, b \in 1..2 |-> 9]
MCPrintOf == [p \in 1..3 |-> IF p = 3 THEN 2 ELSE 1]   \* 1 and 2 differ in history or texts
MCToolsOf == [r \in 1..3 |-> {"file_read"}]

(***************************** the composition *****************************)

VARIABLE part
platformVars == <<contextVars, memoryVars, learningVars, registryVars, plansVars, verificationVars,
                  accountVars, tenancyVars, gitVars, checkpointVars, cachingVars>>
Parts == {"context", "memory", "learning", "registry", "plan", "episodes", "constraints",
          "verification", "accounts", "access", "keys", "git", "checkpoints", "cache"}

\* The parts that do not move start in one fixed state.
PlatformInit ==
    /\ part \in Parts
    /\ IF part # "context" THEN wWindow = 0 ELSE TRUE
    /\ IF part # "accounts" THEN uRemote = FALSE ELSE TRUE
    /\ hRun = [r \in HRuns |-> [model |-> 1, prompt |-> 1, pc |-> "idle", held |-> <<>>]]
    /\ ContextInit /\ MemoryInit /\ LearningInit /\ RegistryInit
    /\ PlansInit /\ VerificationInit /\ AccountsInit /\ TenancyInit
    /\ GitInit /\ CheckpointsInit /\ CachingInit

PlatformNext ==
    /\ UNCHANGED part
    /\ \/ /\ part = "context" /\ ContextNext
          /\ UNCHANGED <<memoryVars, learningVars, registryVars, plansVars, verificationVars, accountVars, tenancyVars, gitVars, checkpointVars, cachingVars>>
       \/ /\ part = "memory" /\ MemoryNext
          /\ UNCHANGED <<contextVars, learningVars, registryVars, plansVars, verificationVars, accountVars, tenancyVars, gitVars, checkpointVars, cachingVars>>
       \/ /\ part = "learning" /\ LearningNext
          /\ UNCHANGED <<contextVars, memoryVars, registryVars, plansVars, verificationVars, accountVars, tenancyVars, gitVars, checkpointVars, cachingVars>>
       \/ /\ part = "registry" /\ RegistryNext
          /\ UNCHANGED <<contextVars, memoryVars, learningVars, plansVars, verificationVars, accountVars, tenancyVars, gitVars, checkpointVars, cachingVars>>
       \/ /\ part = "plan" /\ PlanNext
          /\ UNCHANGED <<contextVars, memoryVars, learningVars, registryVars, verificationVars, accountVars, tenancyVars, gitVars, checkpointVars, cachingVars>>
       \/ /\ part = "episodes" /\ EpisodeNext
          /\ UNCHANGED <<contextVars, memoryVars, learningVars, registryVars, verificationVars, accountVars, tenancyVars, gitVars, checkpointVars, cachingVars>>
       \/ /\ part = "constraints" /\ ConstraintNext
          /\ UNCHANGED <<contextVars, memoryVars, learningVars, registryVars, verificationVars, accountVars, tenancyVars, gitVars, checkpointVars, cachingVars>>
       \/ /\ part = "verification" /\ VerificationNext
          /\ UNCHANGED <<contextVars, memoryVars, learningVars, registryVars, plansVars, accountVars, tenancyVars, gitVars, checkpointVars, cachingVars>>
       \/ /\ part = "accounts" /\ AccountsNext
          /\ UNCHANGED <<contextVars, memoryVars, learningVars, registryVars, plansVars, verificationVars, tenancyVars, gitVars, checkpointVars, cachingVars>>
       \/ /\ part = "access" /\ AccessNext
          /\ UNCHANGED <<contextVars, memoryVars, learningVars, registryVars, plansVars, verificationVars, accountVars, gitVars, checkpointVars, cachingVars>>
       \/ /\ part = "keys" /\ KeysNext
          /\ UNCHANGED <<contextVars, memoryVars, learningVars, registryVars, plansVars, verificationVars, accountVars, gitVars, checkpointVars, cachingVars>>
       \/ /\ part = "git" /\ GitNext
          /\ UNCHANGED <<contextVars, memoryVars, learningVars, registryVars, plansVars, verificationVars, accountVars, tenancyVars, checkpointVars, cachingVars>>
       \/ /\ part = "checkpoints" /\ CheckpointsNext
          /\ UNCHANGED <<contextVars, memoryVars, learningVars, registryVars, plansVars, verificationVars, accountVars, tenancyVars, gitVars, cachingVars>>
       \/ /\ part = "cache" /\ CachingNext
          /\ UNCHANGED <<contextVars, memoryVars, learningVars, registryVars, plansVars, verificationVars, accountVars, tenancyVars, gitVars, checkpointVars>>

PlatformSpec == PlatformInit /\ [][PlatformNext]_<<platformVars, part>>

(******************************** properties *******************************)

\* What is carried from one run to the next can be trusted: memory shows a run
\* nothing that is another's or purged, and nothing unapproved but what a merge
\* put in place of a record's text (Memory), and a tenant's estimates rest on
\* that tenant's own test evidence (Memory).
LearningSound == MemoryTrusted /\ LearnedFromEvidence

\* The registry knows every run once, with what a retry needs, and whoever waits
\* for a run is told how it ended (RunRegistry).
RegistryTrue == RegistrySound /\ WaiterTold

\* A plan never stops by itself and the episodes of a run are one chain of which
\* only the last is open (Plans).
PlansSound == PlanMoves /\ EpisodesSound

\* The user's word stands: no write of a tool to a plain path goes where the user
\* has forbidden it (Plans), a limited commit holds the run's own files, and every
\* write to the repository and all that is staged rests on an approval, whose
\* pathspecs may cover more than they name (GitLayer).
UserWins == UserInCharge /\ GitSound

\* Tenants are apart: one user per address and no session found after its end
\* (accounts), one rule for who sees a run, but for what is found by an id of
\* its own, and a run's calls use its own tenant's verified keys (Tenancy).
TenantsApart == AccountsSound /\ AccessUniform /\ TenantKeys
=============================================================================
