---------------------------- MODULE MCLlmClient ----------------------------
(* Values of the constants of LlmClient for TLC. *)
EXTENDS LlmClient

CONSTANTS flash, lite, meta, a, b, c

\* A Gemini request with a deadline; a stream and a call of a capped provider.
AskedOf == (a :> <<Native, flash>>) @@ (b :> <<"nvidia", meta>>) @@ (c :> <<"nvidia", meta>>)
ThinkingOf == (a :> "off") @@ (b :> "HIGH") @@ (c :> "HIGH")
DeadlineOf == (a :> 4) @@ (b :> 0) @@ (c :> 3)

\* The built-in chain with a fallback provider that has a key, that has none and is not
\* built in, and an order of the user's.
SomeConfigs == {[order |-> <<>>, fallback |-> "openrouter"],
                [order |-> <<>>, fallback |-> "groq"],
                [order |-> <<"groq", "nvidia", Native>>, fallback |-> "openrouter"]}

DefaultModelOf == (Native :> flash) @@ ("nvidia" :> meta) @@ ("openrouter" :> meta) @@ ("groq" :> meta)
RpmOf == ("nvidia" :> 1) @@ ("openrouter" :> 0) @@ ("groq" :> 0)

\* flash takes neither a budget nor any level: a request climbs the whole ladder.
RefusedBy == (flash :> Levels) @@ [m \in {lite, meta, NoModel} |-> {}]
=============================================================================
