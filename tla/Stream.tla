-------------------------------- MODULE Stream --------------------------------
(***************************************************************************)
(* The streaming branch of create_chat_completion (app/api/chat.py): the   *)
(* choice of a provider, the first chunk pulled before the response, the   *)
(* relay that captures usage and text as they flow past, and the streams   *)
(* of the adapters (app/providers) - translated event by event for         *)
(* Anthropic and Gemini, passed through chunk by chunk for OpenAI.         *)
(*                                                                         *)
(* An upstream stream is a script of events.  A position in it counts      *)
(* events; of a passed-through stream it counts half lines, because chunks *)
(* end where the network cuts them.                                        *)
(***************************************************************************)
EXTENDS Breaker, Sequences, FiniteSets, SequencesExt

CONSTANTS
    Streams,       \* the streams the process serves at the same time
    Providers,
    Chains,        \* the providers of the candidates a request may have
    KindOf,        \* a provider's adapter: see Kinds
    Scripts,       \* for each kind: what an upstream may send
    Refusing,      \* the providers that may refuse a stream, or be unreachable
    Texts, NoText, \* pieces of assistant text
    FailureCap     \* bound: where the breaker's count saturates

Translated == {"anthropic", "gemini"}
Kinds == Translated \cup {"openai"}

Counts == {"prompt", "completion"}
Usage == [Counts -> Nat]
ZeroUsage == [c \in Counts |-> 0]

\* What an event tells the one that reads it: a text, some token counts, the end
\* of the answer, the end of the stream (which only OpenAI announces).  Of an
\* event of Anthropic one count is read at most, whatever its usage has:
\* message_start's input_tokens, message_delta's output_tokens.
IsEvent(e) ==
    /\ e.text \in Texts \cup {NoText}
    /\ DOMAIN e.usage \subseteq Counts /\ \A c \in DOMAIN e.usage : e.usage[c] \in Nat
    /\ e.finish \in BOOLEAN /\ e.done \in BOOLEAN

ASSUME StreamAssumption ==
    /\ IsFiniteSet(Streams) /\ IsFiniteSet(Providers)
    /\ Chains \subseteq Seq(Providers) \ {<<>>}
    /\ KindOf \in [Providers -> Kinds]
    /\ \A k \in Kinds : \A s \in Scripts[k] :
          /\ s \in Seq(ToSet(s))
          /\ \A i \in DOMAIN s :
                /\ IsEvent(s[i])
                /\ s[i].done => k = "openai"
                /\ k = "anthropic" => Counts \ DOMAIN s[i].usage # {}
    /\ Refusing \subseteq Providers
    /\ NoText \notin Texts
    /\ FailureCap \in Nat /\ FailureCap >= FailThreshold

VARIABLES
    breaker,   \* app.state.circuit_breaker
    stream     \* the streams

streamVars == <<breaker, stream>>

\* A piece of what is relayed: events of which a whole line is seen.
Chunk == Seq([text : Texts \cup {NoText}, usage : Usage \cup {<<>>}, done : BOOLEAN])

NoStream ==
    [pc |-> "idle", provider |-> <<>>, script |-> <<>>, pos |-> 0, seen |-> <<>>,
     first |-> <<>>, holder |-> [usage |-> ZeroUsage, content |-> <<>>],
     dones |-> 0, failed |-> FALSE, split |-> FALSE]

StreamTypeOK ==
    /\ breaker \in [Providers -> ProviderState]
    /\ \A r \in Streams :
          LET s == stream[r]
          IN  /\ s.pc \in {"idle", "opening", "handed", "relaying", "ended", "left"}
              /\ s.pc # "idle" => s.provider \in Providers /\ s.script \in Scripts[KindOf[s.provider]]
              /\ s.pos \in 0 .. 2 * Len(s.script) + 2
              /\ DOMAIN s.seen \subseteq Counts
              /\ s.first \in Chunk
              /\ s.holder \in [usage : Usage, content : Seq(Texts)]
              /\ s.dones \in Nat /\ s.failed \in BOOLEAN /\ s.split \in BOOLEAN

StreamInit ==
    /\ breaker = [p \in Providers |-> Closed]
    /\ stream = [r \in Streams |-> NoStream]

-------------------------------------------------------------------------------
\* Missing counts of a usage are zero.
Complete(usage) == [c \in Counts |-> IF c \in DOMAIN usage THEN usage[c] ELSE 0]

\* What an adapter remembers of the counts: Anthropic's are read one by one,
\* Gemini all together, again and again.
Noted(kind, seen, usage) ==
    IF usage = <<>> THEN seen
    ELSE IF kind = "anthropic"
      THEN [c \in DOMAIN usage \cup DOMAIN seen |->
              IF c \in DOMAIN usage THEN usage[c] ELSE seen[c]]
    ELSE Complete(usage)

Line(text, usage, done) == [text |-> text, usage |-> usage, done |-> done]

\* What a translating adapter yields at position i: nothing or one line for an
\* event, then the usage if there was any, then the terminator.
Yielded(kind, script, i, seen) ==
    IF i <= Len(script)
      THEN IF kind = "gemini" \/ script[i].text # NoText \/ script[i].finish
             THEN <<Line(script[i].text, <<>>, FALSE)>> ELSE <<>>
    ELSE IF i = Len(script) + 1
      THEN IF \E c \in DOMAIN seen : kind = "gemini" \/ seen[c] # 0
             THEN <<Line(NoText, Complete(seen), FALSE)>> ELSE <<>>
    ELSE <<Line(NoText, <<>>, TRUE)>>

\* The lines of a passed-through stream that lie whole between two half lines.
WholeLines(script, from, to) ==
    LET whole == {i \in DOMAIN script : from <= 2 * (i - 1) /\ 2 * i <= to}
    IN  [k \in 1 .. Cardinality(whole) |->
           LET i == (from + 1) \div 2 + k
           IN  Line(script[i].text,
                    IF script[i].usage = <<>> THEN <<>> ELSE Complete(script[i].usage),
                    script[i].done)]

End(kind, script) == IF kind = "openai" THEN 2 * Len(script) ELSE Len(script) + 2

\* _sniff_usage, for one line
SniffLine(holder, line) ==
    [usage |-> IF line.usage = <<>> THEN holder.usage ELSE line.usage,
     content |-> IF line.text = NoText THEN holder.content ELSE Append(holder.content, line.text)]

_sniff_usage(chunk, holder) == FoldLeft(SniffLine, holder, chunk)

-------------------------------------------------------------------------------
Capped(s) == IF s.failures > FailureCap THEN [s EXCEPT !.failures = FailureCap] ELSE s

\* The terminators in a chunk.
Terminators(chunk) == Cardinality({i \in DOMAIN chunk : chunk[i].done})

\* Mutant: the first candidate, whatever its circuit says.
Picked_First(chain, j) == j = 1

\* The first candidate whose circuit is not open, or candidates[0].
Picked(chain, j) ==
    LET open(i) == IsOpen(breaker[chain[i]])
    IN  \/ ~open(j) /\ \A i \in 1 .. j - 1 : open(i)
        \/ j = 1 /\ \A i \in DOMAIN chain : open(i)

\* Pick a provider and ask it for a stream.
Open(r, chain, j, script) ==
    /\ stream[r].pc = "idle"
    /\ Picked(chain, j)
    /\ breaker' = [breaker EXCEPT ![chain[j]] = Checked(@)]
    /\ stream' = [stream EXCEPT ![r] =
                    [NoStream EXCEPT !.pc = "opening", !.provider = chain[j], !.script = script]]

\* A status other than 200, or a RequestError, before the first chunk: the
\* provider is marked unhealthy and the client gets an error.
StartRefused(r) ==
    /\ stream[r].pc = "opening"
    /\ stream[r].provider \in Refusing
    /\ breaker' = [breaker EXCEPT ![stream[r].provider] = Capped(Failed(@))]
    /\ stream' = [stream EXCEPT ![r] = NoStream]

\* An event that is not JSON, before the first chunk: a 500, and no verdict.
StartRaises(r) ==
    /\ stream[r].pc = "opening"
    /\ KindOf[stream[r].provider] \in Translated
    /\ stream' = [stream EXCEPT ![r] = NoStream]
    /\ UNCHANGED breaker

\* The adapter has made a chunk (or nothing, for events that have no
\* counterpart).  The first one waits in _metered_stream for the body to be
\* sent; the others are sniffed and sent.
Arrive(r, pos, seen, chunk, split) ==
    LET s == stream[r]
        moved == [s EXCEPT !.pos = pos, !.seen = seen, !.split = @ \/ split]
    IN  stream' = [stream EXCEPT ![r] =
            IF s.pc = "opening"
            THEN IF chunk = <<>> /\ KindOf[s.provider] \in Translated
                 THEN moved
                 ELSE [moved EXCEPT !.pc = "handed", !.first = chunk]
            ELSE [moved EXCEPT !.holder = _sniff_usage(chunk, @),
                               !.dones = @ + Terminators(chunk)]]

\* One event of the upstream, or what an adapter adds after the last.
Translate(r) ==
    LET s == stream[r]
        kind == KindOf[s.provider]
        i == s.pos + 1
        seen == IF i <= Len(s.script) THEN Noted(kind, s.seen, s.script[i].usage) ELSE s.seen
    IN  /\ s.pc \in {"opening", "relaying"} /\ kind \in Translated
        /\ s.pos < End(kind, s.script)
        /\ Arrive(r, i, seen, Yielded(kind, s.script, i, seen), FALSE)
        /\ UNCHANGED breaker

\* One chunk of the network, wherever it ends.
PassThrough(r, to) ==
    LET s == stream[r]
    IN  /\ s.pc \in {"opening", "relaying"} /\ KindOf[s.provider] = "openai"
        /\ to \in s.pos + 1 .. 2 * Len(s.script)
        /\ Arrive(r, to, <<>>, WholeLines(s.script, s.pos, to), s.pos % 2 = 1 \/ to % 2 = 1)
        /\ UNCHANGED breaker

\* An upstream that sends nothing at all: StopAsyncIteration, first = None.
NothingSent(r) ==
    /\ stream[r].pc = "opening"
    /\ stream[r].pos = End(KindOf[stream[r].provider], stream[r].script)
    /\ stream' = [stream EXCEPT ![r].pc = "handed"]
    /\ UNCHANGED breaker

\* Mutant: the chunk pulled ahead is sent, but not looked at.
Start_Unsniffed(r) ==
    /\ stream[r].pc = "handed"
    /\ stream' = [stream EXCEPT ![r].pc = "relaying", ![r].first = <<>>,
                    ![r].dones = Terminators(stream[r].first)]
    /\ UNCHANGED breaker

\* The body is asked for: _metered_stream starts with the chunk pulled ahead.
Start(r) ==
    LET s == stream[r]
    IN  /\ s.pc = "handed"
        /\ stream' = [stream EXCEPT ![r] =
                        [s EXCEPT !.pc = "relaying", !.first = <<>>,
                                  !.holder = _sniff_usage(s.first, @),
                                  !.dones = Terminators(s.first)]]
        /\ UNCHANGED breaker

\* Mutant: an interrupted stream ends with the error event.
Interrupted_NoDone(s) == [s EXCEPT !.pc = "ended", !.failed = TRUE]

\* The error event, and a terminator of our own.
Interrupted(s) == [s EXCEPT !.pc = "ended", !.failed = TRUE, !.dones = @ + 1]

\* The upstream breaks off, or sends something that is not JSON.  A
\* translating adapter has closed it before it adds its last lines.
UpstreamFails(r) ==
    LET s == stream[r]
    IN  /\ s.pc = "relaying"
        /\ KindOf[s.provider] \in Translated => s.pos <= Len(s.script)
        /\ stream' = [stream EXCEPT ![r] = Interrupted(s)]
        /\ UNCHANGED breaker

UpstreamEnds(r) ==
    /\ stream[r].pc = "relaying"
    /\ stream[r].pos = End(KindOf[stream[r].provider], stream[r].script)
    /\ stream' = [stream EXCEPT ![r].pc = "ended"]
    /\ UNCHANGED breaker

\* _record_stream_usage writes what the holder has, or is never run.
Recorded(r) ==
    /\ stream[r].pc \in {"ended", "left"}
    /\ stream' = [stream EXCEPT ![r] = NoStream]
    /\ UNCHANGED breaker

\* The client has disconnected before the body was asked for: _metered_stream is
\* never started; if there is a record it is empty.
NeverStarted(r) ==
    /\ stream[r].pc = "handed"
    /\ stream' = [stream EXCEPT ![r] = NoStream]
    /\ UNCHANGED breaker

\* The client disconnects: the generator is closed, what the holder has stays.
ClientGone(r) ==
    /\ stream[r].pc = "relaying"
    /\ stream' = [stream EXCEPT ![r].pc = "left"]
    /\ UNCHANGED breaker

StreamTick ==
    /\ \E p \in Providers : Aged(breaker[p]) # breaker[p]
    /\ breaker' = [p \in Providers |-> Aged(breaker[p])]
    /\ UNCHANGED stream

StreamNext ==
    \/ \E r \in Streams :
          \/ \E chain \in Chains : \E j \in DOMAIN chain :
                \E script \in Scripts[KindOf[chain[j]]] : Open(r, chain, j, script)
          \/ StartRefused(r) \/ StartRaises(r)
          \/ Translate(r) \/ NothingSent(r)
          \/ \E to \in 1 .. 2 * Len(stream[r].script) : PassThrough(r, to)
          \/ Start(r) \/ UpstreamFails(r) \/ UpstreamEnds(r)
          \/ NeverStarted(r) \/ ClientGone(r) \/ Recorded(r)
    \/ StreamTick

\* Time passes by itself; clients and upstreams need not do anything.
StreamSpec == StreamInit /\ [][StreamNext]_streamVars /\ WF_streamVars(StreamTick)

-------------------------------------------------------------------------------
\* The texts among the first n events.
Said(script, n) ==
    LET said[i \in 0 .. Len(script)] ==
          IF i = 0 THEN <<>>
          ELSE IF script[i].text = NoText THEN said[i - 1]
          ELSE Append(said[i - 1], script[i].text)
    IN  said[n]

\* What the upstream has reported by then.  Anthropic's counts are read one
\* by one; in a report of the others what is missing is zero.
Reported(kind, script, n) ==
    LET reports == {i \in 1 .. n : script[i].usage # <<>>}
        telling(c) == {i \in reports : c \in DOMAIN script[i].usage}
    IN  IF kind = "anthropic"
          THEN [c \in Counts |-> IF telling(c) = {} THEN 0
                                 ELSE script[Max(telling(c))].usage[c]]
          ELSE IF reports = {} THEN ZeroUsage ELSE Complete(script[Max(reports)].usage)

\* How many events have come whole.
Events(kind, script, pos) ==
    IF kind = "openai" THEN pos \div 2
    ELSE IF pos > Len(script) THEN Len(script) ELSE pos

\* "real tokens/cost once it finishes": the text captured is the text relayed,
\* and the usage that of the upstream - of a translated stream all of it, or
\* nothing at all if it broke off.  Of a passed-through stream that holds as
\* long as no line was cut in two; of a line that was, nothing is captured, but
\* never anything wrong.
Captured(kind, script, pos, split, holder) ==
    LET n == Events(kind, script, pos)
    IN  IF split
          THEN /\ ToSet(holder.content) \subseteq ToSet(Said(script, n))
               /\ holder.usage \in {Reported(kind, script, m) : m \in 0 .. n}
          ELSE /\ holder.content = Said(script, n)
               /\ holder.usage = IF kind \in Translated /\ pos <= Len(script)
                                 THEN ZeroUsage ELSE Reported(kind, script, n)

\* A stream that has ended, or that its client has left, is recorded with what
\* it has said.
CaptureExact ==
    \A r \in Streams :
        LET s == stream[r]
        IN  s.pc \in {"ended", "left"} =>
              Captured(KindOf[s.provider], s.script, s.pos, s.split, s.holder)

\* What holds of the state itself: its types and this capture.
CaptureInv == StreamTypeOK /\ CaptureExact

\* "A failure after start becomes a clean terminal error event rather than a
\* dropped connection": a stream that ends, at its end or in the middle, ends
\* with a terminator, and the client of a translated one sees just one.
EndsOnce ==
    \A r \in Streams :
        LET s == stream[r]
        IN  s.pc = "ended" =>
              /\ KindOf[s.provider] \in Translated => s.dones = 1
              /\ s.failed => s.dones >= 1

\* A provider whose streams do not start gets a trial again: although a late
\* refusal restarts the window of its circuit, and nothing bounds how many
\* clients ask for streams, the circuit does not stay open for ever - as long
\* as every chain it is in has a provider that does start its streams.  (One
\* without: candidates[0] is asked again and again, and each refusal restarts
\* the window.)
Spared(p) == \A chain \in Chains : p \in ToSet(chain) => ToSet(chain) \ Refusing # {}

TrialComes ==
    \A p \in Providers : Spared(p) => (IsOpen(breaker[p]) ~> ~IsOpen(breaker[p]))
===============================================================================
