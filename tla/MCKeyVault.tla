----------------------------- MODULE MCKeyVault -----------------------------
(* Small instances of KeyVault. *)
EXTENDS KeyVault

CONSTANTS gemini, openai, k1, k2, k3, p1

TwoProviders == {gemini, openai}
OnePanel == {p1}
Empty == <<>>
Single == {<<k1>>, <<k2>>}
MaybeSingle == {<<>>, <<k1>>, <<k3>>}
MaybePool == {<<>>, <<k1>>, <<k2, k3>>}
=============================================================================
