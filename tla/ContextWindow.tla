--------------------------- MODULE ContextWindow ---------------------------
\* The context of one run: the items a prompt is chosen from, their token
\* accounting, the budgeted selection with dependency closure
\* (context-engine.js selectContext), compression, and the guard that keeps a
\* prompt within the model's window before it is sent (orchestrator.js
\* _callModel).  The lexical score of an item is any of WScores, anew at every
\* selection, since it depends on the query and on the time; what compression
\* makes of a text is any smaller size or no gain.
EXTENDS Integers, Sequences, FiniteSetsExt, SequencesExt

CONSTANTS WItems,        \* what can be added: [tokens, source, rel, never, deps]
          WMaxItems,     \* bound on the items of the run
          WMax,          \* ContextState.maximumTokens, also the selection's budget
          WWindows,      \* context windows of the models (0: not known)
          WScores,       \* scores of scoreContextItem, in tenths
          WThreshold,    \* relevanceThreshold, in tenths
          WBase,         \* tokens of system text, task and tools in a prompt
          WHistory,      \* tokens of the last ten messages
          WShown,        \* tokens of an item's text that a prompt shows (800 characters)
          WMaxCalls      \* bound on the calls of the run

VARIABLES wItems,   \* contextState.contextItems; text: size of the text it has now,
                    \* own: of the text it came with
          wTokens,  \* contextState.currentTokens
          wPlan,    \* the plan of the prompt being prepared or sent
          wWindow,  \* window of the current model
          wPc,      \* "idle", "built", "fitted", "sent", "exhausted"
          wCalls    \* calls made
contextVars == <<wItems, wTokens, wPlan, wWindow, wPc, wCalls>>

NoPlan == [sel |-> {}, used |-> 0, over |-> FALSE, low |-> {}, prompt |-> 0, shown |-> <<>>]

(****************************** the selection *****************************)

\* isProtectedContextItem: the user's own task.
IsProtected(i) == i.source = "user" \/ i.never

\* categorizeContextItem, as its place in the order of selection.
Category(i) == CASE i.never -> 2                      \* NEVER_COMPRESS
                 [] ~i.never /\ i.source = "user" -> 0 \* MUST_KEEP
                 [] ~i.never /\ i.source # "user" /\ i.rel >= 7 -> 1
                 [] OTHER -> 3                        \* OPTIONAL

\* The order of selection: category, score, size, id.
Precedes(items, score, a, b) ==
    LET key(i) == <<Category(items[i]), -score[i], items[i].tokens, i>>
        k == CHOOSE n \in 1..4 : key(a)[n] # key(b)[n]
                                 /\ \A m \in 1..(n - 1) : key(a)[m] = key(b)[m]
    IN  a # b /\ key(a)[k] < key(b)[k]

\* closureOf: the items reached through dependencies that are not decided yet
\* and still have their text.
ClosureOf(items, decided, i) ==
    LET open(S) == {d \in UNION {items[j].deps : j \in S} :
                      d \in DOMAIN items /\ d \notin decided \cup {i} /\ items[d].status = "KEEP"}
        reach[n \in 0..Len(items)] ==
            IF n = 0 THEN open({i}) ELSE reach[n - 1] \cup open(reach[n - 1])
    IN  reach[Len(items)]

TokensOf(items, S) == FoldSet(LAMBDA i, n : n + items[i].tokens, 0, S)

\* trySelect, the same in both phases but for what MUST_KEEP bypasses.
TrySelect(items, score, budget, acc, i) ==
    LET must == Category(items[i]) = 0
        closure == ClosureOf(items, acc.decided, i)
        need == TokensOf(items, closure \cup {i})
        omit == [acc EXCEPT !.decided = @ \cup {i}]
    IN  IF i \in acc.decided THEN acc
        ELSE IF items[i].status # "KEEP" THEN omit
        ELSE IF ~must /\ score[i] < WThreshold THEN [omit EXCEPT !.low = @ \cup {i}]
        ELSE IF ~must /\ acc.used + need > budget THEN omit
        ELSE [acc EXCEPT !.decided = @ \cup {i} \cup closure, !.sel = @ \cup {i} \cup closure,
                         !.used = @ + need, !.over = @ \/ acc.used + need > budget]

SelectContext(items, score, budget) ==
    FoldLeft(LAMBDA acc, i : TrySelect(items, score, budget, acc, i),
             [sel |-> {}, decided |-> {}, used |-> 0, over |-> FALSE, low |-> {}],
             SetToSortSeq(DOMAIN items, LAMBDA a, b : Precedes(items, score, a, b)))

\* What an item's line in the prompt holds of its text (of the task's, which
\* _buildContext cut to 2000 characters before).
Rendered(i) == IF i.text > WShown THEN WShown ELSE i.text

\* compilePrompt and buildPromptPlan: the selection, how much of each text the
\* messages show, and the estimated size, which counts the items whole.
PlanOf(items, score, history) ==
    LET s == SelectContext(items, score, WMax)
    IN  [sel |-> s.sel, used |-> s.used, over |-> s.over, low |-> s.low,
         prompt |-> WBase + history + s.used, shown |-> [i \in s.sel |-> Rendered(items[i])]]

(****************************** compression *******************************)

\* Protected and NEVER_COMPRESS items are no candidates at all.
Candidates(items) ==
    {i \in DOMAIN items : items[i].status = "KEEP" /\ ~IsProtected(items[i])
                          /\ Category(items[i]) # 2}

\* compressContext: the lowest scores first, until enough is reclaimed.  An
\* item whose text does not get smaller keeps its place.
Compress(items, tokens, target, score, shrink) ==
    LET order == SetToSortSeq(Candidates(items),
                    LAMBDA a, b : score[a] < score[b]
                                  \/ (score[a] = score[b] /\ items[a].tokens > items[b].tokens)
                                  \/ (score[a] = score[b] /\ items[a].tokens = items[b].tokens /\ a < b))
        step(acc, i) ==
            LET new == IF shrink[i] THEN items[i].tokens \div 3 ELSE items[i].tokens
                gain == items[i].tokens - new
            IN  IF acc.got >= tokens - target \/ gain <= 0 THEN acc
                ELSE [got |-> acc.got + gain,
                      items |-> [acc.items EXCEPT ![i].tokens = new, ![i].text = new, ![i].status = "COMPRESSED"]]
    IN  IF tokens <= target THEN [got |-> 0, items |-> items]
        ELSE FoldLeft(step, [got |-> 0, items |-> items], order)

(******************************* the actions ******************************)

Scores == [1..Len(wItems) -> WScores]
Shrinks == [1..Len(wItems) -> BOOLEAN]
Window == IF wWindow = 0 THEN WMax ELSE wWindow

\* _buildContext: the user's task is the first item.
ContextInit ==
    /\ wItems = <<[tokens |-> 2, source |-> "user", rel |-> 10, never |-> FALSE, deps |-> {},
                   text |-> 2, own |-> 2, status |-> "KEEP"]>>
    /\ wTokens = 2
    /\ wPlan = NoPlan
    /\ wWindow \in WWindows
    /\ wPc = "idle"
    /\ wCalls = 0

\* addContext of a memory, a tool's evidence, or another item.
AddContext ==
    /\ wPc = "idle"
    /\ Len(wItems) < WMaxItems
    /\ \E it \in WItems :
          /\ wItems' = Append(wItems, it @@ [text |-> it.tokens, own |-> it.tokens, status |-> "KEEP"])
          /\ wTokens' = wTokens + it.tokens
    /\ UNCHANGED <<wPlan, wWindow, wPc, wCalls>>

\* _buildPrompt at the start of a call.
CompilePrompt ==
    /\ wPc = "idle"
    /\ wCalls < WMaxCalls
    /\ \E score \in Scores, h \in WHistory : wPlan' = PlanOf(wItems, score, h)
    /\ wPc' = "built"
    /\ wCalls' = wCalls + 1
    /\ UNCHANGED <<wItems, wTokens, wWindow>>

\* The pre-call fit: a prompt over the window gets one compression pass and is
\* built again, and if it still does not fit the call fails.
FitPrompt ==
    /\ wPc = "built"
    /\ IF wPlan.prompt <= Window THEN wPc' = "fitted" /\ UNCHANGED <<wItems, wTokens, wPlan>>
       ELSE \E score \in Scores, shrink \in Shrinks :
              LET c == Compress(wItems, wTokens, Window \div 2, score, shrink) IN
              /\ wItems' = c.items
              /\ wTokens' = wTokens - c.got
              /\ wPlan' = PlanOf(c.items, score, wPlan.prompt - wPlan.used - WBase)
              /\ wPc' = IF wPlan'.prompt > Window THEN "idle" ELSE "fitted"
    /\ UNCHANGED <<wWindow, wCalls>>

\* The budget guard of the call may have switched to a cheaper model, whose
\* window may be smaller: the fit is verified again.
BugBudgetSwitch ==
    /\ wPc = "fitted"
    /\ wWindow' \in WWindows
    /\ UNCHANGED <<wItems, wTokens, wPlan, wPc, wCalls>>

BudgetSwitch ==
    /\ wPc = "fitted"
    /\ wWindow' \in WWindows
    /\ wPc' = IF wWindow' > 0 /\ wPlan.prompt > wWindow' THEN "idle" ELSE "fitted"
    /\ UNCHANGED <<wItems, wTokens, wPlan, wCalls>>

\* The request leaves.
SendPrompt ==
    /\ wPc = "fitted"
    /\ wPc' = "sent"
    /\ wTokens' = IF wPlan.prompt > wTokens THEN wPlan.prompt ELSE wTokens
    /\ UNCHANGED <<wItems, wPlan, wWindow, wCalls>>

\* The answer is in; a failover may have changed the model meanwhile.
PromptAnswered ==
    /\ wPc = "sent"
    /\ wPc' = "idle"
    /\ wWindow' \in WWindows
    /\ UNCHANGED <<wItems, wTokens, wPlan, wCalls>>

\* The step's optimisations: compaction near the limit, and compaction of a
\* critical context, which fails the run when nothing is left to compress.
OptimiseContext ==
    /\ wPc = "idle"
    /\ 10 * wTokens >= 8 * WMax
    /\ \E score \in Scores, shrink \in Shrinks, share \in {5, 6} :
          LET c == Compress(wItems, wTokens, (WMax * share) \div 10, score, shrink) IN
          /\ wItems' = c.items
          /\ wTokens' = wTokens - c.got
          /\ wPc' = IF share = 5 /\ c.got = 0 /\ wTokens >= WMax THEN "exhausted" ELSE "idle"
    /\ UNCHANGED <<wPlan, wWindow, wCalls>>

ContextNext ==
    \/ AddContext \/ CompilePrompt \/ FitPrompt \/ BudgetSwitch \/ SendPrompt
    \/ PromptAnswered \/ OptimiseContext

(******************************* properties *******************************)

\* A prompt that was sent fits the window of the model it was sent to, unless
\* that window is not known after a budget switch; it shows every MUST_KEEP item
\* in its own words, whatever was compressed before, but cut to the 800
\* characters that compilePrompt shows of any text (so not "verbatim", as
\* context-manager.js 368 has it); its selection stays within the budget but for
\* MUST_KEEP items and their closure, and leaves out no independent item above
\* the threshold that would still have fitted.  The token count of the run
\* covers what its items hold.
PromptSound ==
    /\ wPc = "sent" => wWindow = 0 \/ wPlan.prompt <= wWindow
    /\ wPc = "sent" =>
         /\ \A i \in DOMAIN wItems :
               Category(wItems[i]) = 0 =>
                   /\ i \in wPlan.sel
                   /\ wPlan.shown[i] = (IF wItems[i].own > WShown THEN WShown ELSE wItems[i].own)
         /\ wPlan.used = TokensOf(wItems, wPlan.sel)
         /\ wPlan.used <= WMax \/ wPlan.over
         /\ \A i \in DOMAIN wItems \ (wPlan.sel \cup wPlan.low) :
               wItems[i].status = "KEEP" /\ wItems[i].deps = {} =>
                   wPlan.used + wItems[i].tokens > WMax
    /\ TokensOf(wItems, DOMAIN wItems) <= wTokens
=============================================================================
