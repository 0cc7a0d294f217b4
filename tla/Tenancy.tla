------------------------------ MODULE Tenancy ------------------------------
\* The tenants of a deployment: their accounts and sessions, and then who may
\* see a run and whose key it uses.  The two share no variable.
EXTENDS Integers, FiniteSets

------------------------------------------------------------------------------
\* Accounts and sessions (tenant-store.js and the auth routes of server.js):
\* sign-up, login, authentication, logout and expiry, over the two stores the
\* code has.  The file store keeps arrays in memory, answers at once, and
\* writes a file behind every change, where a failed write goes unnoticed; the
\* database answers later, so that requests interleave, and holds the e-mail
\* address unique.  Passwords and hashes are left out: a login is one that
\* found the right password.

CONSTANTS UEmails,       \* e-mail addresses
          URequests,     \* sign-up requests; each makes a user and an organisation of its own
          UMaxSessions,  \* bound on sessions
          UMaxFaults     \* bound on failed writes, failed queries and restarts

VARIABLES uRemote,     \* a database stands behind the store
          uUsers,      \* pairs [email, user] stored
          uOrgs,       \* organisations stored
          uProjects,   \* users that own their first project
          uSignup,     \* uSignup[q]: [pc, email]
          uSessions,   \* sessions the store knows: [id, user]
          uFile,       \* sessions in the file (file store)
          uSaved,      \* users and projects in their files: [users, projects]
          uRevoked,    \* history: sessions whose logout or expiry was final
          uAuth,       \* requests whose session was found, waiting for its user: [id, ended]
          uServed,     \* history: sessions that a request was authenticated by
          uLate,       \* history: a session served that had ended when it was looked up
          uNext,       \* next session id
          uFaults
accountVars == <<uRemote, uUsers, uOrgs, uProjects, uSignup, uSessions, uFile, uSaved,
                 uRevoked, uAuth, uServed, uLate, uNext, uFaults>>

AccountsInit ==
    /\ uRemote \in BOOLEAN
    /\ uUsers = {} /\ uOrgs = {} /\ uProjects = {}
    /\ uSignup = [q \in URequests |-> [pc |-> "idle", email |-> 0]]
    /\ uSessions = {} /\ uFile = {} /\ uSaved = [users |-> {}, projects |-> {}]
    /\ uRevoked = {} /\ uAuth = {} /\ uServed = {} /\ uLate = FALSE
    /\ uNext = 1 /\ uFaults = 0

Fault == uFaults < UMaxFaults /\ uFaults' = uFaults + 1
Registered(e) == \E u \in uUsers : u.email = e
UserOf(e) == CHOOSE u \in uUsers : u.email = e

(******************************** sign-up *********************************)

\* The file store: user, project and answer in one step, with a write of each
\* file that may fail; the database: the address is looked up first.
SignupStarts(q, e) ==
    /\ uSignup[q].pc = "idle"
    /\ IF uRemote \/ Registered(e)
       THEN /\ uSignup' = [uSignup EXCEPT ![q] =
                  [email |-> e, pc |-> IF Registered(e) THEN "conflict" ELSE "org"]]
            /\ UNCHANGED <<uUsers, uOrgs, uProjects, uSaved, uFaults>>
       ELSE \E saved \in SUBSET {"users", "projects"} :
            /\ IF saved = {"users", "projects"} THEN UNCHANGED uFaults ELSE Fault
            /\ uUsers' = uUsers \cup {[email |-> e, user |-> q]}
            /\ uOrgs' = uOrgs \cup {q}
            /\ uProjects' = uProjects \cup {q}
            /\ uSaved' = [users |-> IF "users" \in saved THEN uUsers' ELSE uSaved.users,
                          projects |-> IF "projects" \in saved THEN uProjects' ELSE uSaved.projects]
            /\ uSignup' = [uSignup EXCEPT ![q] =
                  [email |-> e, pc |-> IF saved = {"users", "projects"} THEN "created" ELSE "unsaved"]]
    /\ UNCHANGED <<uRemote, uSessions, uFile, uRevoked, uAuth, uServed, uLate, uNext>>

\* The database's rows, one query after the other.  The users table refuses a
\* second row with the address.
StoreSignup(q) ==
    LET e == uSignup[q].email
        to(pc) == uSignup' = [uSignup EXCEPT ![q].pc = pc]
    IN  /\ \/ uSignup[q].pc = "org" /\ to("user") /\ uOrgs' = uOrgs \cup {q} /\ UNCHANGED <<uUsers, uProjects>>
           \/ /\ uSignup[q].pc = "user"
              /\ IF Registered(e) THEN to("failed") /\ UNCHANGED uUsers
                 ELSE to("project") /\ uUsers' = uUsers \cup {[email |-> e, user |-> q]}
              /\ UNCHANGED <<uOrgs, uProjects>>
           \/ /\ uSignup[q].pc = "project" /\ to("created")
              /\ uProjects' = uProjects \cup {q} /\ UNCHANGED <<uUsers, uOrgs>>
        /\ UNCHANGED <<uRemote, uSessions, uFile, uSaved, uRevoked, uAuth, uServed, uLate, uNext, uFaults>>

\* A query fails: the request is answered with an error where it stands.
SignupFails(q) ==
    /\ uSignup[q].pc \in {"org", "user", "project"}
    /\ Fault
    /\ uSignup' = [uSignup EXCEPT ![q].pc = "failed"]
    /\ UNCHANGED <<uRemote, uUsers, uOrgs, uProjects, uSessions, uFile, uSaved, uRevoked, uAuth, uServed, uLate, uNext>>

(******************************** sessions ********************************)

\* persist: the file follows the array, or silently does not.
Persist(set) == \/ uFile' = set /\ UNCHANGED uFaults
                \/ uFile' = uFile /\ Fault

Login(e) ==
    /\ Registered(e) /\ uNext <= UMaxSessions
    /\ uSessions' = uSessions \cup {[id |-> uNext, user |-> UserOf(e).user]}
    /\ uNext' = uNext + 1
    /\ IF uRemote THEN UNCHANGED <<uFile, uFaults>> ELSE Persist(uSessions')
    /\ UNCHANGED <<uRemote, uUsers, uOrgs, uProjects, uSignup, uSaved, uRevoked, uAuth, uServed, uLate>>

\* userForSession, with a cookie that was once issued: the session is looked
\* up and then its user, which the file store does at once.
Served(i, ended) == /\ uServed' = uServed \cup {i}
                    /\ uLate' = (uLate \/ ended)

AuthStarts(i) ==
    /\ i < uNext
    /\ \E s \in uSessions : s.id = i /\ (uRemote \/ \E u \in uUsers : u.user = s.user)
    /\ IF uRemote
       THEN /\ uAuth' = uAuth \cup {[id |-> i, ended |-> i \in uRevoked]}
            /\ UNCHANGED <<uServed, uLate>>
       ELSE Served(i, i \in uRevoked) /\ UNCHANGED uAuth
    /\ UNCHANGED <<uRemote, uUsers, uOrgs, uProjects, uSignup, uSessions, uFile, uSaved, uRevoked, uNext, uFaults>>

\* The database answers with the user, whom no logout removes, or the query
\* fails and the request is answered as an error.
AuthEnds(a) ==
    /\ uAuth' = uAuth \ {a}
    /\ \/ Served(a.id, a.ended) /\ UNCHANGED uFaults
       \/ Fault /\ UNCHANGED <<uServed, uLate>>
    /\ UNCHANGED <<uRemote, uUsers, uOrgs, uProjects, uSignup, uSessions, uFile, uSaved, uRevoked, uNext>>

\* revoke at logout, or the pruning of an expired session: final once the
\* store has taken it.
EndSession(i) ==
    /\ \E s \in uSessions : s.id = i
    /\ uSessions' = {s \in uSessions : s.id # i}
    /\ IF uRemote THEN UNCHANGED <<uFile, uFaults>> ELSE Persist(uSessions')
    /\ uRevoked' = IF uRemote \/ i \notin {s.id : s \in uFile'} THEN uRevoked \cup {i} ELSE uRevoked
    /\ UNCHANGED <<uRemote, uUsers, uOrgs, uProjects, uSignup, uSaved, uAuth, uServed, uLate, uNext>>

\* The server restarts: open sign-ups and requests are gone, and the file store reads back
\* what its files hold.
ServerRestarts ==
    /\ Fault
    /\ uSignup' = [q \in URequests |-> IF uSignup[q].pc \in {"org", "user", "project"}
                                       THEN [uSignup[q] EXCEPT !.pc = "failed"] ELSE uSignup[q]]
    /\ uSessions' = IF uRemote THEN uSessions ELSE uFile
    /\ uUsers' = IF uRemote THEN uUsers ELSE uSaved.users
    /\ uProjects' = IF uRemote THEN uProjects ELSE uSaved.projects
    /\ uAuth' = {}
    /\ UNCHANGED <<uRemote, uOrgs, uFile, uSaved, uRevoked, uServed, uLate, uNext>>

AccountsNext ==
    \/ ServerRestarts
    \/ \E q \in URequests : StoreSignup(q) \/ SignupFails(q) \/ \E e \in UEmails : SignupStarts(q, e)
    \/ \E e \in UEmails : Login(e)
    \/ \E i \in 1..UMaxSessions : AuthStarts(i) \/ EndSession(i)
    \/ \E a \in uAuth : AuthEnds(a)

(******************************* properties *******************************)

\* However sign-ups for one address interleave and fail: an address has one
\* user at most, who has an organisation; a sign-up answered as created and
\* saved left user, organisation and project behind, and one answered as a conflict or an
\* error left no second user.  No request is served by a session that a logout
\* or its expiry had ended for good when the request looked it up, not even
\* after a restart; one that a database had found before the logout is served
\* after it.
AccountsSound ==
    /\ \A a, b \in uUsers : a.email = b.email => a = b
    /\ \A a \in uUsers : a.user \in uOrgs
    /\ \A q \in URequests : uSignup[q].pc = "created" =>
          [email |-> uSignup[q].email, user |-> q] \in uUsers /\ q \in uProjects
    /\ ~uLate

------------------------------------------------------------------------------
\* Who may see a run, and whose key a run uses.  A run's facts stand in up to
\* three places (the live state, the run index, the stored snapshot) and each
\* group of routes of server.js looks into its own; provider keys are kept per
\* scope (credential-store.js) and a run's calls resolve them again, long after
\* the run was admitted.

CONSTANTS TPrincipals,  \* [id, role, org, src]; org 0: none; src "session", "env", "dev"
          TKeys,        \* provider keys a principal may enter
          TEnvKey,      \* the deployment's own key, 0: none
          TExplicit,    \* RUNTIME_MODE: "live", "demo" or "none"
          TMaxSteps     \* bound on connects, tests and removals

ASSUME TenancyAssumption ==
    \A p \in TPrincipals : p.role \in {"viewer", "operator", "admin"} /\ p.src \in {"session", "env", "dev"}
                           /\ p.id # 0

VARIABLES tRun,      \* the run: [owner, org, mode, called] (owner, org 0: none), or NoRun
          tLive,     \* it has a runtime state (live or in history)
          tIndexed,  \* its summary is in the stored index
          tSnap,     \* its snapshot is stored
          tAnswer,   \* the last request's answer: [who, route, got]
          tCreds,    \* stored records: tCreds[scope] = [key, status, readable], key 0: none
          tProbes,   \* connects and tests waiting for the provider
          tVerified, \* history: <<scope, key>> that a connect verified
          tSteps
tenancyVars == <<tRun, tLive, tIndexed, tSnap, tAnswer, tCreds, tProbes, tVerified, tSteps>>
accessPart == <<tRun, tLive, tIndexed, tSnap, tAnswer>>
keyPart == <<tCreds, tProbes, tVerified, tSteps>>

NoRun == [owner |-> 0, org |-> 0, mode |-> "none", called |-> "not_yet"]
NoAnswer == [who |-> 0, route |-> "none", got |-> "none"]
NoKey == [key |-> 0, status |-> "none", readable |-> FALSE]
DevMode == \A p \in TPrincipals : p.src = "dev"   \* ~authConfig.enabled
Exists == tRun # NoRun

IsGlobalAdmin(p) == p.role = "admin" /\ p.src # "session"
Rank(role) == CASE role = "viewer" -> 1 [] role = "operator" -> 2 [] role = "admin" -> 3
RequireRole(p, role) == Rank(p.role) >= Rank(role)
CredentialScope(p) == IF DevMode \/ IsGlobalAdmin(p) THEN 0 ELSE IF p.org # 0 THEN p.org ELSE p.id
CredScopes == {0} \cup {p.org : p \in TPrincipals} \cup {p.id : p \in TPrincipals}

TenancyInit ==
    /\ tRun = NoRun /\ tLive = FALSE /\ tIndexed = FALSE /\ tSnap = FALSE
    /\ tAnswer = NoAnswer
    /\ tCreds = [s \in CredScopes |-> NoKey]
    /\ tProbes = {} /\ tVerified = {} /\ tSteps = 0

(***************************** provider keys ******************************)

\* getKey and the credential resolver: the deployment's key answers for the
\* default scope only.
GetKey(s) == IF tCreds[s].readable THEN tCreds[s].key ELSE 0
BugResolve(s) == IF GetKey(s) # 0 THEN GetKey(s) ELSE TEnvKey
Resolve(s) == IF GetKey(s) # 0 THEN GetKey(s) ELSE IF s = 0 THEN TEnvKey ELSE 0

ModeForProvider(p) ==
    LET has == Resolve(CredentialScope(p)) # 0
        tenant == ~DevMode /\ ~IsGlobalAdmin(p)
    IN  IF (tenant /\ GetKey(CredentialScope(p)) # 0) \/ (has /\ ~tenant) THEN "live"
        ELSE IF TExplicit # "none" THEN TExplicit
        ELSE IF has THEN "live" ELSE "demo"

\* modeStateForProvider: what a live run's admission goes by.
ModeState(p) ==
    LET s == CredentialScope(p)
        stored == IF DevMode THEN \E any \in CredScopes : tCreds[any].key # 0 ELSE tCreds[s].key # 0
        env == (DevMode \/ IsGlobalAdmin(p)) /\ TEnvKey # 0
    IN  IF ModeForProvider(p) = "demo" THEN "DEMO"
        ELSE IF stored \/ env \/ Resolve(s) # 0 THEN "LIVE_READY" ELSE "LIVE_UNCONFIGURED"

\* connect and test wait for the provider's verdict on the key.
ProbeStarts(p, k) ==
    /\ tSteps < TMaxSteps /\ tSteps' = tSteps + 1
    /\ \/ RequireRole(p, "admin") /\ tProbes' = tProbes \cup {[who |-> p, key |-> k, op |-> "connect"]}
       \/ RequireRole(p, "operator") /\ tProbes' = tProbes \cup {[who |-> p, key |-> k, op |-> "test"]}
    /\ UNCHANGED <<accessPart, tCreds, tVerified>>

\* The key was accepted: connect stores it and marks it connected at once.
ProbePasses(b) ==
    /\ b \in tProbes /\ tProbes' = tProbes \ {b}
    /\ LET s == CredentialScope(b.who) IN
       IF b.op = "connect"
       THEN /\ tCreds' = [tCreds EXCEPT ![s] = [key |-> b.key, status |-> "connected", readable |-> TRUE]]
            /\ tVerified' = tVerified \cup {<<s, b.key>>}
       ELSE UNCHANGED <<tCreds, tVerified>>
    /\ UNCHANGED <<accessPart, tSteps>>

\* It was refused: a failed connect marks whatever the scope has stored.
ProbeFails(b) ==
    /\ b \in tProbes /\ tProbes' = tProbes \ {b}
    /\ LET s == CredentialScope(b.who) IN
       tCreds' = IF b.op = "connect" /\ tCreds[s].key # 0
                 THEN [tCreds EXCEPT ![s].status = "failed"] ELSE tCreds
    /\ UNCHANGED <<accessPart, tVerified, tSteps>>

RemoveKey(p) ==
    /\ RequireRole(p, "admin")
    /\ tCreds[CredentialScope(p)].key # 0
    /\ tCreds' = [tCreds EXCEPT ![CredentialScope(p)] = NoKey]
    /\ UNCHANGED <<accessPart, tProbes, tVerified, tSteps>>

\* A restart under another encryption key: the records stay and cannot be read.
KeysUnreadable ==
    /\ tSteps < TMaxSteps /\ tSteps' = tSteps + 1
    /\ tCreds' = [s \in CredScopes |-> [tCreds[s] EXCEPT !.readable = FALSE]]
    /\ UNCHANGED <<accessPart, tProbes, tVerified>>

(********************************* a run **********************************)

\* POST /api/runs: a live run is admitted by the scope of its creator.
CreateRun(p) ==
    /\ ~Exists
    /\ RequireRole(p, "operator")
    /\ \E mode \in {"demo", "live"} :
          /\ mode = "live" => ModeState(p) = "LIVE_READY"
          /\ tRun' = [owner |-> p.id, org |-> p.org, mode |-> mode, called |-> "not_yet"]
    /\ tLive' = TRUE /\ tIndexed' = FALSE /\ tSnap' = FALSE
    /\ UNCHANGED <<tAnswer, keyPart>>

\* A record from before ownership was kept.
LegacyRun ==
    /\ ~Exists
    /\ tRun' = [NoRun EXCEPT !.mode = "demo"]
    /\ tIndexed' = TRUE /\ tSnap' \in BOOLEAN
    /\ UNCHANGED <<tLive, tAnswer, keyPart>>

\* The run's summary and snapshot reach the store; later the run leaves memory
\* (retention or restart).
PersistRun ==
    /\ Exists /\ tLive
    /\ tIndexed' = TRUE /\ tSnap' \in {tSnap, TRUE}
    /\ UNCHANGED <<tRun, tLive, tAnswer, keyPart>>

ForgetLive ==
    /\ Exists /\ tLive /\ tLive' = FALSE
    /\ UNCHANGED <<tRun, tIndexed, tSnap, tAnswer, keyPart>>

\* The run calls its model: resolveForRun with the scope of the run itself.
RunCalls ==
    /\ Exists /\ tLive /\ tRun.mode = "live"
    /\ LET s == IF tRun.org # 0 THEN tRun.org ELSE tRun.owner IN
       tRun' = [tRun EXCEPT !.called = IF Resolve(s) = 0 THEN "no_key"
                                       ELSE IF Resolve(s) = GetKey(s) THEN "own_key" ELSE "other_key"]
    /\ UNCHANGED <<tLive, tIndexed, tSnap, tAnswer, keyPart>>

(******************************** the reads *******************************)

\* The rule as each group of routes has it, over the facts of one place.
Matches(p) == \/ tRun.org # 0 /\ p.org # 0 /\ tRun.org = p.org
              \/ tRun.owner # 0 /\ tRun.owner = p.id

OwnsRun(p) == IsGlobalAdmin(p) \/ (tLive /\ Matches(p))
CanAccessRun(p) == IsGlobalAdmin(p) \/ Matches(p)

\* ownedByOther: live facts first, the index next, nothing known is refused.
OwnedByOther(p) ==
    /\ ~IsGlobalAdmin(p)
    /\ IF tLive /\ tRun.owner # 0 THEN ~Matches(p) ELSE ~(tIndexed /\ Matches(p))

Routes == {"state", "events", "list", "memory", "execution", "messages"}

\* What a principal gets from each group; "gone" and "missing" carry no data.
\* GET of the run and of its state: the live run, else the stored snapshot.
StateRead(p) ==
    IF tLive THEN IF DevMode \/ OwnsRun(p) THEN "data" ELSE "refused"
    ELSE IF ~tSnap THEN "missing"
    ELSE IF DevMode \/ CanAccessRun(p) THEN "data" ELSE "refused"

\* The routes behind guardRunRead: events, routing, context plan, decisions, outcome.
EventsRead(p) ==
    IF ~DevMode /\ OwnedByOther(p) THEN "refused"
    ELSE IF tLive \/ tSnap THEN "data" ELSE "missing"

\* visibleRunIndex over the merged index, where a run without owner is hidden.
ListRead(p) ==
    IF ~(tLive \/ tIndexed) THEN "missing"
    ELSE IF DevMode \/ IsGlobalAdmin(p) \/ (tRun.owner # 0 /\ Matches(p)) THEN "data" ELSE "refused"

\* memoryVisibleToPrincipal: memory, evaluations and outcomes of the run.
MemoryRead(p) == IF IsGlobalAdmin(p) \/ ~OwnedByOther(p) THEN "data" ELSE "refused"

\* The execution routes: ownership is looked at for a run in memory only.
ExecutionRead(p) ==
    IF tLive /\ ~DevMode /\ OwnedByOther(p) THEN "refused"
    ELSE IF tLive THEN "data" ELSE IF tSnap THEN "gone" ELSE "missing"

\* Messages, cancel and retry.
MessageSent(p) ==
    IF ~RequireRole(p, "operator") THEN "role"
    ELSE IF ~tLive THEN "missing"
    ELSE IF DevMode \/ OwnsRun(p) THEN "data" ELSE "refused"

\* Rollback of a changeset and the decision on an approval: the path names a run
\* whose access is checked, the changeset or approval is found by its own id
\* (an approval is compared with the run when it has been decided).  Through a
\* live run of its own an operator reaches what the server still holds of any.
ByIdSent(p) ==
    /\ Exists
    /\ \E held \in BOOLEAN :
          /\ tLive => held
          /\ tAnswer' = [who |-> p, route |-> "by_id",
                         got |-> IF ~RequireRole(p, "operator") THEN "role"
                                 ELSE IF held THEN "data" ELSE "missing"]
    /\ UNCHANGED <<tRun, tLive, tIndexed, tSnap, keyPart>>

Answer(p, route) ==
    CASE route = "state" -> StateRead(p)
      [] route = "events" -> EventsRead(p)
      [] route = "list" -> ListRead(p)
      [] route = "memory" -> MemoryRead(p)
      [] route = "execution" -> ExecutionRead(p)
      [] route = "messages" -> MessageSent(p)

Request(p, route) ==
    /\ Exists
    /\ tAnswer' = [who |-> p, route |-> route, got |-> Answer(p, route)]
    /\ UNCHANGED <<tRun, tLive, tIndexed, tSnap, keyPart>>

AccessNext ==
    \/ LegacyRun \/ PersistRun \/ ForgetLive
    \/ \E p \in TPrincipals : CreateRun(p) \/ ByIdSent(p) \/ \E r \in Routes : Request(p, r)

KeysNext ==
    \/ KeysUnreadable \/ RunCalls \/ ForgetLive
    \/ \E b \in tProbes : ProbePasses(b) \/ ProbeFails(b)
    \/ \E p \in TPrincipals : CreateRun(p) \/ RemoveKey(p) \/ \E k \in TKeys : ProbeStarts(p, k)

(******************************* properties *******************************)

\* The rule itself, by what a principal and a run are.
Owns(p) == \/ p.role = "admin" /\ p.src # "session"
           \/ tRun.org # 0 /\ tRun.org = p.org
           \/ tRun.owner # 0 /\ tRun.owner = p.id

\* Wherever a run's facts stand (live, indexed, stored, or some of them), every
\* group of routes that finds a run by the id in its path decides by one rule:
\* data goes only to the run's owner, its organisation and installation
\* administrators, and none of them is refused while the place its route looks
\* into knows the run.  The exception are the two requests that find a
\* changeset or an approval by its own id (ByIdSent).
AccessUniform ==
    tAnswer.route \notin {"none", "by_id"} =>
        /\ tAnswer.got = "data" => DevMode \/ Owns(tAnswer.who)
        /\ tAnswer.got = "refused" => ~Owns(tAnswer.who) \/ ~(tLive \/ tIndexed)

\* However connects, tests, removals and calls interleave: a run's call uses a
\* key of the run's own scope and never the deployment's or another tenant's,
\* and a key marked connected is one a connect of that scope had verified.
TenantKeys ==
    /\ tRun.called # "other_key"
    /\ \A s \in CredScopes : tCreds[s].status = "connected" => <<s, tCreds[s].key>> \in tVerified
=============================================================================
