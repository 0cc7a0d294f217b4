---------------------------- MODULE ToolHandlers ----------------------------
(***************************************************************************)
(* What two handlers of the tools do while they are under way: the guarded *)
(* fetches (backend/src/execution/environment.js) and apply_patch          *)
(* (backend/src/impl/tool-executor.js).  They share no variable.           *)
(*                                                                         *)
(* Fetches.  fetchUrlGuarded and fetchHop, behind fetch_url and the live   *)
(* browser tools (browser-tool.js), follow redirects, and each hop is      *)
(* checked anew before it connects: the shape of the URL against the       *)
(* policy, the scheme, then the addresses the name resolves to.  The       *)
(* worker's browse endpoint (sandbox-worker) has checks of its own, looks  *)
(* nothing up and follows no redirect.  A URL is reduced to what these     *)
(* checks look at.                                                         *)
(*                                                                         *)
(* Patches.  A patch reads the file, replaces its texts, writes a          *)
(* temporary file, renames it over the file and reads the file back.       *)
(* Every one of these is awaited, so patches of two calls and the edits of *)
(* a user mix.  The temporary name is made of the process id and the time  *)
(* in ms: two patches of the same millisecond share it.                    *)
(***************************************************************************)
EXTENDS Naturals, Sequences, FiniteSets

(******************************** fetches **********************************)

CONSTANTS
    MaxRedirects,   \* 3 in the code
    MaxAnswers      \* bound: addresses of one look-up

ASSUME ToolHandlersAssumption == MaxRedirects \in Nat /\ MaxAnswers \in Nat

\* demo: the scheme of the mock pages; shape: characters, scheme, credentials and
\* host pass the patterns; listed: the host is in the allowlist of the request.
Url == [demo: BOOLEAN, https: BOOLEAN, shape: BOOLEAN, listed: BOOLEAN]
Way == {"fetch", "browser", "demo_browser", "worker"}

\* What a look-up may answer: an address of a family, in a public range or in one
\* of the tables BLOCKED_V4 and BLOCKED_V6, a v4 address written as v6 (mapped
\* or compatible), whatever its own range, or something that is no address.
Address == [family: {"v4", "v6", "v4in6"}, public: BOOLEAN] \cup
           {[family |-> "none", public |-> FALSE]}

\* blockedIpReason: v4 embedded in v6 is blocked even when public itself.
Blocked(a) == a.family \notin {"v4", "v6"} \/ ~a.public

VARIABLES
    via,        \* fetch_url, a browser tool of a live or of a demo run, POST /v1/browse
    net,        \* policy.networkAccess, networkMode of the worker's request
    page,       \* the URL of the hop at hand
    at,         \* where the fetch is
    hops,       \* redirects followed
    found,      \* the addresses of the last look-up
    reached,    \* history: the URLs connected to, with their look-up
    outcome

fetchVars == <<via, net, page, at, hops, found, reached, outcome>>

FetchInit ==
    /\ net \in {"disabled", "allowlist", "enabled"}
    /\ via \in Way /\ at = IF via = "worker" THEN "request" ELSE "shape"
    /\ page \in Url /\ hops = 0 /\ found = {}
    /\ reached = {} /\ outcome = "none"

End(what) == at' = "done" /\ outcome' = what

\* parseAndGuardUrl and schemeAllowedForPolicy.
ShapeOk(u) ==
    /\ u.shape /\ ~u.demo /\ net # "disabled"
    /\ net = "allowlist" => u.listed
    /\ u.https \/ net = "enabled"

\* executeBrowserTool, validateBrowseRequest: a mock page needs no network.
Mocked(u) == via = "demo_browser" \/ (u.demo /\ via \in {"browser", "worker"})

CheckShape ==
    /\ at = "shape" /\ via # "worker"
    /\ CASE hops = 0 /\ Mocked(page) -> End(IF page.shape THEN "mock" ELSE "denied")
         [] OTHER -> IF ShapeOk(page) THEN at' = "lookup" /\ UNCHANGED outcome ELSE End("denied")
    /\ UNCHANGED <<via, net, page, hops, found, reached>>

\* The worker's token, and readBody.
BrowseRequest ==
    /\ at = "request"
    /\ \/ at' = "shape" /\ UNCHANGED outcome
       \/ End("unauthorized") \/ End("oversized") \/ End("bad_params")
    /\ UNCHANGED <<via, net, page, hops, found, reached>>

\* validateBrowseRequest: listed hosts only, whatever the scheme.
ValidBrowse(u) == u.shape /\ ~u.demo /\ net = "allowlist" /\ u.listed

\* The request may also carry a secret or be malformed, and is then refused.
BrowseCheck ==
    /\ at = "shape" /\ via = "worker"
    /\ \/ End("bad_params")
       \/ IF Mocked(page) THEN End(IF page.shape THEN "mock" ELSE "denied")
          ELSE IF ValidBrowse(page) THEN at' = "connect" /\ UNCHANGED outcome ELSE End("denied")
    /\ UNCHANGED <<via, net, page, hops, found, reached>>

\* resolveAndGuardHost: every address must be public; no answer is a refusal.
Lookup ==
    /\ at = "lookup"
    /\ \E A \in {S \in SUBSET Address : Cardinality(S) <= MaxAnswers} :
         /\ found' = A
         /\ IF A # {} /\ \A a \in A : ~Blocked(a)
            THEN at' = "connect" /\ UNCHANGED outcome ELSE End("denied")
    /\ UNCHANGED <<via, net, page, hops, reached>>

Connect ==
    /\ at = "connect"
    /\ reached' = reached \cup {[url |-> page, to |-> found, hop |-> hops]}
    /\ \/ at' = "body" /\ UNCHANGED outcome
       \/ End("fetch_failure") \/ End("timeout")
    /\ UNCHANGED <<via, net, page, hops, found>>

\* Seeded fault: the check of the first URL is taken to hold for the next.
BugTrustRedirect(u) ==
    IF hops >= MaxRedirects THEN End("redirect_limit") /\ UNCHANGED <<page, hops>>
    ELSE page' = u /\ hops' = hops + 1 /\ at' = "connect" /\ UNCHANGED outcome

\* A 3xx with a location: the next hop starts over.
Follow(u) ==
    IF hops >= MaxRedirects THEN End("redirect_limit") /\ UNCHANGED <<page, hops>>
    ELSE page' = u /\ hops' = hops + 1 /\ at' = "shape" /\ UNCHANGED outcome

Redirect ==
    /\ at = "body" /\ via # "worker"
    /\ \E u \in Url : Follow(u)
    /\ UNCHANGED <<via, net, found, reached>>

\* fetchForBrowse takes a redirect for an error.
BrowseRedirect ==
    /\ at = "body" /\ via = "worker"
    /\ End("redirect")
    /\ UNCHANGED <<via, net, page, hops, found, reached>>

\* consumeBounded and fetchForBrowse, and the timer of the hop.
Body ==
    /\ at = "body"
    /\ End("ok") \/ End("oversized") \/ End("fetch_failure") \/ End("timeout")
    /\ UNCHANGED <<via, net, page, hops, found, reached>>

FetchNext ==
    \/ CheckShape \/ Lookup \/ Connect \/ Redirect \/ Body
    \/ BrowseRequest \/ BrowseCheck \/ BrowseRedirect

FetchTypeOK ==
    /\ page \in Url /\ hops \in 0..MaxRedirects
    /\ at \in {"request", "shape", "lookup", "connect", "body", "done"}
    /\ outcome \in {"none", "ok", "mock", "denied", "unauthorized", "bad_params", "timeout", "oversized",
                    "redirect", "redirect_limit", "fetch_failure"}

\* "Per-redirect-hop re-validation: each Location target repeats gates 1+2 with
\* the CURRENT hop's scheme" (environment.js): every connection of a fetch, at
\* most one per allowed redirect and one more, goes to a URL that the policy of
\* the run admits and whose own look-up gave public addresses.  The worker
\* connects once, to a host its request lists, and a mock page to nothing.
FetchGuarded ==
    /\ \A x \in reached :
          IF via = "worker" THEN ValidBrowse(x.url) /\ x.hop = 0
          ELSE /\ ShapeOk(x.url) /\ x.to # {}
               /\ \A a \in x.to : a.public /\ a.family \in {"v4", "v6"}
    /\ Cardinality(reached) <= IF via = "worker" THEN 1 ELSE MaxRedirects + 1
    /\ via = "demo_browser" \/ outcome = "mock" => reached = {}

(******************************** patches **********************************)

CONSTANTS
    Patcher,       \* calls of apply_patch
    Reader,        \* calls of read_file
    TmpName,       \* a millisecond each
    FileKind,      \* what the file may be: see ReadFile
    MaxUserEdits, user

ASSUME PatchersAssumption == user \notin Patcher /\ TmpName \subseteq Nat /\ TmpName # {}

VARIABLES
    content,   \* what each inode holds: the edits made, in order, and whether it is whole
    target,    \* the inode that has the file's name
    kind,      \* text, binary, too large, or missing
    tmpFile,   \* the inodes that have a temporary name
    pt,        \* per patcher: where it is, what it read and writes to, its answer
    rd,        \* per reader: the answer of read_file
    userEdits,
    writesAllowed,   \* ALLOW_FILE_WRITES
    shared,    \* history: a patch opened a temporary file that another one had open
    seen       \* history: every text the file has had

patchVars == <<content, target, kind, tmpFile, pt, rd, userEdits, writesAllowed, shared, seen>>

\* Patches name the inodes they create; the file's first one is the user's.
First == user
NoTmp == user
Original == [edits |-> <<>>, state |-> "whole"]
Emptied == [edits |-> <<>>, state |-> "emptied"]   \* opened for writing, not written
Mixed == [edits |-> <<>>, state |-> "mixed"]       \* two writes over one another
Edited(t, who) == [t EXCEPT !.edits = Append(@, who)]
text == content[target]

PatchInit ==
    /\ target = First /\ content = [i \in Patcher \cup {First} |-> Original]
    /\ kind \in FileKind /\ writesAllowed \in BOOLEAN /\ userEdits = 0
    /\ shared = FALSE /\ seen = {Original}
    /\ tmpFile = [n \in TmpName |-> NoTmp]
    /\ pt = [p \in Patcher |-> [at |-> "idle", base |-> Original, tmp |-> CHOOSE n \in TmpName : TRUE,
                                out |-> First, ans |-> "none"]]
    /\ rd = [r \in Reader |-> "none"]

Mine(p) == Edited(pt[p].base, p)
PatchEnds(p, ans) == pt' = [pt EXCEPT ![p] = [@ EXCEPT !.at = "done", !.ans = ans]]

\* handleReadFile: missing, too large and binary are told apart before a text is
\* handed out.
ReadFile(r) ==
    /\ rd[r] = "none"
    /\ rd' = [rd EXCEPT ![r] = CASE kind = "missing" -> "not_found"
                                 [] kind = "large" -> "too_large"
                                 [] kind = "binary" -> "binary"
                                 [] kind = "text" -> "content"]
    /\ UNCHANGED <<content, target, kind, tmpFile, pt, userEdits, writesAllowed, shared, seen>>

\* A dry run checks the edits and changes nothing, and does not look for
\* binary files; a real one needs ALLOW_FILE_WRITES and a file of text that has
\* the words to replace.
ReadForPatch(p) ==
    /\ pt[p].at = "idle"
    /\ \/ kind \in {"text", "binary"} /\ PatchEnds(p, "dry_run")
       \/ ~writesAllowed /\ PatchEnds(p, "disabled")
       \/ kind \in {"text", "binary"} /\ PatchEnds(p, "patch_conflict")
       \/ kind # "text" /\ PatchEnds(p, "refused")
       \/ /\ writesAllowed /\ kind = "text" /\ text # Emptied
          /\ pt' = [pt EXCEPT ![p] = [@ EXCEPT !.at = "open", !.base = text]]
    /\ UNCHANGED <<content, target, kind, tmpFile, rd, userEdits, writesAllowed, shared, seen>>

\* writeFile opens and empties the file of its name: one of its own, or that of
\* a patch of the same millisecond.
OpenTmp(p) ==
    /\ pt[p].at = "open"
    /\ \E n \in TmpName :
         /\ \A q \in Patcher : pt[q].at \in {"write", "rename", "verify"} => n >= pt[q].tmp   \* time goes on
         /\ LET out == IF tmpFile[n] = NoTmp THEN p ELSE tmpFile[n] IN
              /\ content' = [content EXCEPT ![out] = Emptied]
              /\ tmpFile' = [tmpFile EXCEPT ![n] = out]
              /\ shared' = (shared \/ tmpFile[n] # NoTmp)
              /\ pt' = [pt EXCEPT ![p] = [@ EXCEPT !.at = "write", !.tmp = n, !.out = out]]
    /\ seen' = seen \cup {content'[target]}
    /\ UNCHANGED <<target, kind, rd, userEdits, writesAllowed>>

\* ... and writes from its start, over what another patch has written meanwhile,
\* whose end stays where it was longer.  The file may have its own name by now.
WriteTmp(p) ==
    /\ pt[p].at = "write"
    /\ \E t \in IF content[pt[p].out] = Emptied THEN {Mine(p)} ELSE {Mine(p), Mixed} :
          content' = [content EXCEPT ![pt[p].out] = t]
    /\ pt' = [pt EXCEPT ![p].at = "rename"]
    /\ seen' = seen \cup {content'[target]}
    /\ UNCHANGED <<target, kind, tmpFile, rd, userEdits, writesAllowed, shared>>

\* Another patch may have taken the temporary file away.
Rename(p) ==
    /\ pt[p].at = "rename"
    /\ IF tmpFile[pt[p].tmp] = NoTmp
       THEN PatchEnds(p, "failure") /\ UNCHANGED <<target, tmpFile, seen>>
       ELSE /\ target' = tmpFile[pt[p].tmp] /\ seen' = seen \cup {content[target']}
            /\ tmpFile' = [tmpFile EXCEPT ![pt[p].tmp] = NoTmp]
            /\ pt' = [pt EXCEPT ![p].at = "verify"]
    /\ UNCHANGED <<content, kind, rd, userEdits, writesAllowed, shared>>

\* Seeded fault: what was written is taken for what is there.
BugVerify(p) ==
    /\ pt[p].at = "verify"
    /\ PatchEnds(p, "applied")
    /\ UNCHANGED <<content, target, kind, tmpFile, rd, userEdits, writesAllowed, shared, seen>>

\* The file is read back and compared with what was meant.
Verify(p) ==
    /\ pt[p].at = "verify"
    /\ PatchEnds(p, IF text = Mine(p) THEN "applied" ELSE "apply_failed")
    /\ UNCHANGED <<content, target, kind, tmpFile, rd, userEdits, writesAllowed, shared, seen>>

\* In place.
UserEdits ==
    /\ userEdits < MaxUserEdits /\ kind = "text"
    /\ userEdits' = userEdits + 1
    /\ content' = [content EXCEPT ![target] = Edited(@, user)]
    /\ seen' = seen \cup {content'[target]}
    /\ UNCHANGED <<target, kind, tmpFile, pt, rd, writesAllowed, shared>>

PatchNext ==
    \/ \E p \in Patcher : ReadForPatch(p) \/ OpenTmp(p) \/ WriteTmp(p) \/ Rename(p) \/ Verify(p)
    \/ \E r \in Reader : ReadFile(r)
    \/ UserEdits

\* "Atomic apply: tmp file + rename, then hash-verify" (tool-executor.js).
\* However patches overtake each other and the user: one reported as applied has
\* been in the file whole, on top of a text the file really had, and only a file
\* of text is ever changed.  The file is never seen emptied or mixed, unless two
\* patches have had one temporary name.
PatchHonest ==
    /\ \A p \in Patcher :
          pt[p].ans = "applied" => kind = "text" /\ pt[p].base \in seen /\ Mine(p) \in seen
    /\ shared \/ text.state = "whole"
    /\ kind # "text" => text = Original
=============================================================================
