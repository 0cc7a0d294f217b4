--------------------------- MODULE ProviderCalls ---------------------------
(***************************************************************************)
(* One step's provider call (providers/provider-adapter.js and             *)
(* _callProvider): the request, the failures a provider or the network can *)
(* answer with, and the server-sent-event stream cut into chunks anywhere. *)
(*                                                                         *)
(* The wire is a sequence of symbols.  Event i is the data line of the two *)
(* halves Head(i), Tail(i), so that a cut can fall inside its JSON;        *)
(* frames end with a blank line, in LF or CRLF form; comments and event    *)
(* lines stand between.  What event i carries is pWire.events[i].          *)
(***************************************************************************)
EXTENDS Integers, SequencesExt

CONSTANTS
    PEvents,    \* the kinds of event a provider sends
    PMaxEvents, \* bound: events of one response
    PMaxChunk,  \* bound: symbols of one network chunk
    PMaxCalls   \* bound: calls of the step (failover and retries)

ASSUME ProviderAssumption ==
    /\ PEvents \subseteq {"text", "tool0", "tool1", "uin", "uout", "ping"}
    /\ {PMaxEvents, PMaxChunk, PMaxCalls} \subseteq Nat \ {0}

VARIABLES
    pWire,  \* the response the provider is going to send
    pPos,   \* symbols received
    pBuf,   \* the adapter's buffer
    pAcc,   \* what the adapter has accumulated of the response
    pSeen,  \* deltas the console received during the step: <<call, event>>
    pPc,    \* "calling", "streaming", "done", "answered", "failed"
    pCalls, \* calls made
    pErr    \* the code of the last failure

providerVars == <<pWire, pPos, pBuf, pAcc, pSeen, pPc, pCalls, pErr>>

LF == 0
CR == -1
Comment == -2
EventLine == -3
HeadOf(i) == 10 + i
TailOf(i) == 20 + i

(******************************** the wire *********************************)

LineEnd(w) == IF w.crlf THEN <<CR, LF>> ELSE <<LF>>

\* A provider's frame: an optional event line, the data line, a blank line.
\* A connection may close before the last frame's line ends.
FrameOf(w, i) ==
    LET lines == CASE w.events[i] = "ping" -> <<Comment>>
                   [] w.adapter = "anthropic" -> <<EventLine>> \o LineEnd(w) \o <<HeadOf(i), TailOf(i)>>
                   [] OTHER -> <<HeadOf(i), TailOf(i)>>
    IN IF i = Len(w.events) /\ ~w.closed THEN lines
       ELSE lines \o LineEnd(w) \o LineEnd(w)

WireOf(w) == FlattenSeq([i \in 1..Len(w.events) |-> FrameOf(w, i)])

(****************************** parseSseData *******************************)

Normalized(b) ==
    FlattenSeq([i \in 1..Len(b) |->
        IF b[i] # CR THEN <<b[i]>>
        ELSE IF i < Len(b) /\ b[i + 1] = LF THEN <<>> ELSE <<LF>>])

\* split('\n\n'), the last piece being the remainder.
SplitFrames(b) ==
    FoldLeft(LAMBDA acc, x :
               IF x = LF /\ acc.cur # <<>> /\ Last(acc.cur) = LF
               THEN [frames |-> Append(acc.frames, Front(acc.cur)), cur |-> <<>>]
               ELSE [acc EXCEPT !.cur = Append(@, x)],
             [frames |-> <<>>, cur |-> <<>>], b)

LinesOf(frame) ==
    LET r == FoldLeft(LAMBDA acc, x : IF x = LF
                        THEN [lines |-> Append(acc.lines, acc.cur), cur |-> <<>>]
                        ELSE [acc EXCEPT !.cur = Append(@, x)],
                      [lines |-> <<>>, cur |-> <<>>], frame)
    IN Append(r.lines, r.cur)

\* The data lines of a frame, joined: an event when they are one whole JSON
\* document, otherwise ignored as malformed.
EventOf(frame) ==
    LET data == SelectSeq(LinesOf(frame), LAMBDA l : l # <<>> /\ Head(l) \in 10..19)
    IN IF Len(data) = 1 /\ Len(data[1]) = 2 THEN <<Head(data[1]) - 10>> ELSE <<>>

Remainder(split) == split.cur

\* With flush, a buffer without a delimiter is itself a frame.
ParseSseData(b, flush) ==
    LET s == SplitFrames(Normalized(b))
        tail == flush /\ s.frames = <<>>
        frames == IF tail THEN <<s.cur>> ELSE s.frames
    IN [events |-> FlattenSeq([i \in 1..Len(frames) |-> EventOf(frames[i])]),
        remainder |-> IF tail THEN <<>> ELSE Remainder(s)]

(****************************** the stream *********************************)

Empty == [text |-> <<>>, tools |-> [t \in {"tool0", "tool1"} |-> <<>>], usage |-> {}]

\* One event: a text delta, a fragment of a tool call's arguments, or usage
\* (OpenAI's frame replaces what was known, Anthropic's two complete it).
Absorb(w, acc, i) ==
    LET k == w.events[i]
    IN CASE k = "text" -> [acc EXCEPT !.text = Append(@, i)]
         [] k \in {"tool0", "tool1"} -> [acc EXCEPT !.tools[k] = Append(@, i)]
         [] k \in {"uin", "uout"} ->
              [acc EXCEPT !.usage = IF w.adapter = "openai" THEN {k} ELSE @ \cup {k}]
         [] OTHER -> acc

AbsorbAll(w, acc, is) == FoldLeft(LAMBDA a, i : Absorb(w, a, i), acc, is)

Deltas(w, is) == SelectSeq(is, LAMBDA i : w.events[i] = "text")

\* At the end of an OpenAI stream an unterminated data line yields its usage
\* and nothing else; the Anthropic adapter drops it.
FlushTail(w, acc, b) ==
    LET is == ParseSseData(Append(b, LF), TRUE).events
        usage == SelectSeq(is, LAMBDA i : w.events[i] \in {"uin", "uout"})
        trimmed == SelectSeq(b, LAMBDA x : x # LF)
    IN IF w.adapter = "openai" /\ trimmed # <<>> /\ Head(trimmed) \in 10..19
       THEN AbsorbAll(w, acc, usage) ELSE acc

(***************************** whole answers *******************************)

EventsOf(w, K) == SelectSeq([i \in 1..Len(w.events) |-> i], LAMBDA i : w.events[i] \in K)

\* OpenAI's complete: one message with its text, its tool calls, one usage object.
NormalizeCompletion(w) ==
    LET usage == EventsOf(w, {"uin", "uout"})
    IN [text |-> EventsOf(w, {"text"}),
        tools |-> [t \in {"tool0", "tool1"} |-> EventsOf(w, {t})],
        usage |-> IF usage = <<>> THEN {} ELSE {w.events[Last(usage)]}]

\* Anthropic's complete: the blocks of the answer one by one.
ContentBlocks(w) == AbsorbAll(w, Empty, [i \in 1..Len(w.events) |-> i])

WholeAnswer(w) == IF w.adapter = "openai" THEN NormalizeCompletion(w) ELSE ContentBlocks(w)

(******************************* the errors ********************************)

\* classifyHttpStatus and isModelAccessFailure; the detail says whether the
\* provider's message names the model as the reason.
IsModelAccessFailure(status, detail) ==
    \/ status = 404
    \/ status \in {400, 403, 422} /\ detail = "model"

ClassifyHttpStatus(status) ==
    CASE status \in {401, 403} -> [code |-> "auth", retryable |-> FALSE]
      [] status = 429 -> [code |-> "rate_limit", retryable |-> TRUE]
      [] status = 408 -> [code |-> "timeout", retryable |-> TRUE]
      [] status \in {400, 409, 422} -> [code |-> "bad_request", retryable |-> FALSE]
      [] status >= 500 -> [code |-> "unavailable", retryable |-> TRUE]
      [] OTHER -> [code |-> "unknown", retryable |-> FALSE]

FailureOf(status, detail) ==
    IF IsModelAccessFailure(status, detail)
    THEN [code |-> "model_unavailable", retryable |-> FALSE] ELSE ClassifyHttpStatus(status)

\* The request itself is refused, its deadline passes, the caller aborts, or
\* the network fails before a response.
TransportFailure(what) ==
    CASE what = "invalid" -> [code |-> "bad_request", retryable |-> FALSE]
      [] what = "timeout" -> [code |-> "timeout", retryable |-> TRUE]
      [] what = "abort" -> [code |-> "cancelled", retryable |-> FALSE]
      [] what = "network" -> [code |-> "unavailable", retryable |-> TRUE]

\* The step's reaction to a ProviderError: another model, or the same one
\* after a backoff; anything else ends the run.
FailoverEligible(f) == f.retryable \/ f.code = "model_unavailable"

\* An error after the stream opened is not wrapped by the adapter.
MidStreamFailure(what) == [code |-> what, retryable |-> FALSE]

(******************************* the actions *******************************)

Responses ==
    UNION {[events : [1..n -> PEvents], crlf : BOOLEAN, closed : BOOLEAN,
            adapter : {"openai", "anthropic"}] : n \in 1..PMaxEvents}

ProviderInit ==
    /\ pWire \in Responses
    /\ pPos = 0 /\ pBuf = <<>> /\ pAcc = Empty /\ pSeen = <<>>
    /\ pPc = "calling" /\ pCalls = 1 /\ pErr = "none"

StepReaction(f) ==
    /\ pErr' = f.code
    /\ IF FailoverEligible(f) /\ pCalls < PMaxCalls
       THEN /\ pPc' = "calling" /\ pCalls' = pCalls + 1
            /\ pPos' = 0 /\ pBuf' = <<>> /\ pAcc' = Empty
       ELSE pPc' = "failed" /\ UNCHANGED <<pCalls, pPos, pBuf, pAcc>>

\* _fetchJson / _openStream: the response is an error.
HttpFails(status, detail) ==
    /\ pPc = "calling"
    /\ StepReaction(FailureOf(status, detail))
    /\ UNCHANGED <<pWire, pSeen>>

TransportFails(what) ==
    /\ pPc = "calling"
    /\ StepReaction(TransportFailure(what))
    /\ UNCHANGED <<pWire, pSeen>>

\* complete(): the whole answer at once, told to the console as one delta.
Completes ==
    /\ pPc = "calling"
    /\ pAcc' = WholeAnswer(pWire)
    /\ pSeen' = pSeen \o [j \in 1..Len(pAcc'.text) |-> <<pCalls, pAcc'.text[j]>>]
    /\ pPc' = "answered"
    /\ UNCHANGED <<pWire, pPos, pBuf, pCalls, pErr>>

OpenStream ==
    /\ pPc = "calling" /\ pPc' = "streaming"
    /\ UNCHANGED <<pWire, pPos, pBuf, pAcc, pSeen, pCalls, pErr>>

\* A chunk arrives: the buffer grows, its whole frames are consumed.
Chunk(n) ==
    LET wire == WireOf(pWire)
        r == ParseSseData(pBuf \o SubSeq(wire, pPos + 1, pPos + n), FALSE)
        new == Deltas(pWire, r.events)
    IN /\ pPc = "streaming" /\ pPos + n <= Len(wire)
       /\ pPos' = pPos + n /\ pBuf' = r.remainder
       /\ pAcc' = AbsorbAll(pWire, pAcc, r.events)
       /\ pSeen' = pSeen \o [j \in 1..Len(new) |-> <<pCalls, new[j]>>]
       /\ UNCHANGED <<pWire, pPc, pCalls, pErr>>

StreamEnds ==
    /\ pPc = "streaming" /\ pPos = Len(WireOf(pWire))
    /\ pAcc' = FlushTail(pWire, pAcc, pBuf)
    /\ pPc' = "done" /\ UNCHANGED <<pWire, pPos, pBuf, pSeen, pCalls, pErr>>

StreamBreaks(what) ==
    /\ pPc = "streaming"
    /\ StepReaction(MidStreamFailure(what))
    /\ UNCHANGED <<pWire, pSeen>>

ProviderOver == pPc \in {"done", "answered", "failed"}

ProviderNext ==
    \/ \E s \in {400, 401, 403, 404, 408, 409, 418, 422, 429, 500}, d \in {"model", "other"} :
          HttpFails(s, d)
    \/ \E w \in {"invalid", "timeout", "abort", "network"} : TransportFails(w)
    \/ Completes \/ OpenStream \/ StreamEnds
    \/ \E n \in 1..PMaxChunk : Chunk(n)
    \/ \E w \in {"timeout", "abort", "network"} : StreamBreaks(w)
    \/ ProviderOver /\ UNCHANGED providerVars

(****************************** properties *********************************)

\* Wherever the network cuts the stream, inside a JSON document, between CR
\* and LF or between two line ends, the finished call holds exactly the text,
\* the tool arguments and the usage of the frames the provider completed, in
\* order and once; of a frame the connection cut short only OpenAI's usage is
\* kept.
StreamFaithful ==
    pPc \in {"done", "answered"} =>
        LET n == Len(pWire.events)
            cut == pPc = "done" /\ ~pWire.closed
            Kept(K) == SelectSeq(EventsOf(pWire, K), LAMBDA i : ~cut \/ i < n)
            usage == IF pWire.adapter = "openai" THEN EventsOf(pWire, {"uin", "uout"})
                     ELSE Kept({"uin", "uout"})
        IN /\ pAcc.text = Kept({"text"})
           /\ \A t \in {"tool0", "tool1"} : pAcc.tools[t] = Kept({t})
           /\ pAcc.usage = IF usage = <<>> THEN {}
                           ELSE IF pWire.adapter = "openai" THEN {pWire.events[Last(usage)]}
                           ELSE {pWire.events[usage[j]] : j \in 1..Len(usage)}

\* What the console has shown of a step is always the beginning of one single
\* answer: a call whose deltas reached it is never made again, by failover or
\* by retry.
ConsoleSeesOneAnswer ==
    /\ \A j \in 1..Len(pSeen) : pSeen[j][1] = pSeen[1][1]
    /\ IsPrefix([j \in 1..Len(pSeen) |-> pSeen[j][2]], EventsOf(pWire, {"text"}))
=============================================================================
