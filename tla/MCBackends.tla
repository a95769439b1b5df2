---------------------------- MODULE MCBackends -----------------------------
(* Instances of Backends for TLC. *)
EXTENDS Backends, TLC

Model0 == [n \in LlmNames |-> "m"]
Local == [stt |-> "moonshine", tts |-> "piper", llm |-> "ollama", model |-> Model0]
Cloud == [stt |-> "openrouter", tts |-> "openrouter", llm |-> "openrouter",
          model |-> Model0]
Asked == {<<"local", None>>, <<"cloud", None>>}
Given == {Cloud}
Sym == Permutations(Conns)
=============================================================================
