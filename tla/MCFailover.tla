----------------------------- MODULE MCFailover -----------------------------
(* A small instance of Failover: three providers of the four, as those other *)
(* than Gemini are alike; pools of at most two keys.                         *)
EXTENDS Failover

CONSTANTS gemini, openai, claude, k1, k2, u1, u2

OthersTwo == {openai, claude}
OrderThree == <<gemini, openai, claude>>
AnyPrimary == {gemini, Unknown}
SomePools == {<<>>, <<k1>>, <<k1, k2>>}

Own(p, keys) == [provider |-> p, own |-> keys]
SomeCustoms == {Own(gemini, <<u1>>), Own(gemini, <<u1, u2>>), Own(openai, NotGiven)}
=============================================================================
