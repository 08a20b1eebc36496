---------------------------- MODULE MCStreamedCall -----------------------------
(* ProviderRound with the client of OpenAI alone.                                *)
EXTENDS ProviderRound

RetrySettings == {[first |-> 3, most |-> 12, jitter |-> FALSE]}
===============================================================================
