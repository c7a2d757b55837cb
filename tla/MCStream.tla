------------------------------ MODULE MCStream ------------------------------
(* Two streams at a time; one provider of each kind, of which the first two  *)
(* may refuse a stream; only the first has another one to fall back on.      *)
EXTENDS Stream, TLC

CONSTANTS r1, r2, pa, pg, po, t1, t2

MCKindOf == (pa :> "anthropic") @@ (pg :> "gemini") @@ (po :> "openai")
MCChains == {<<pa, po>>, <<pg>>}

Event(text, usage) == [text |-> text, usage |-> usage, finish |-> FALSE, done |-> FALSE]
Finish(text, usage) == [Event(text, usage) EXCEPT !.finish = TRUE]
Done == [Event(NoText, <<>>) EXCEPT !.done = TRUE]

Prompt(n) == [c \in {"prompt"} |-> n]
Completion(n) == [c \in {"completion"} |-> n]
Both(n, m) == [c \in Counts |-> IF c = "prompt" THEN n ELSE m]

MCScripts ==
    [k \in Kinds |->
        CASE k = "anthropic" ->
               {<<Event(NoText, Prompt(2)), Event(t1, <<>>),
                  Event(NoText, Completion(1)), Finish(NoText, Completion(3))>>, <<>>}
          [] k = "gemini" -> {<<Event(t1, Prompt(2)), Finish(t2, Both(2, 2))>>}
          [] k = "openai" -> {<<Event(t1, <<>>), Event(NoText, Both(1, 2)), Done>>, <<>>}]
=============================================================================
