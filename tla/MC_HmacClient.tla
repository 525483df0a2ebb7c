--------------------------- MODULE MC_HmacClient ---------------------------
(* A small instance: a and b share a key but not their limits or clocks,  *)
(* w holds another key, x is constructed with an empty key.               *)
EXTENDS HmacClient, TLC

CONSTANTS a, b, w, x

MCClients == {a, b, w, x}
MCSecretKey == (a :> "k1") @@ (b :> "k1") @@ (w :> "k2") @@ (x :> "")
MCKeyInterval == (a :> 1) @@ (b :> 1) @@ (w :> 1) @@ (x :> 1)
MCMaxInputSize == (a :> 4) @@ (b :> 3) @@ (w :> 2) @@ (x :> 3)
MCSkew == (a :> 0) @@ (b :> 1) @@ (w :> 0) @@ (x :> 0)

\* "" (the body of a GET), "a:a" (a body with a colon, at b's maximum
\* size, below a's and above w's), and a byte that is not UTF-8
MCPayloads == {<<>>, <<97, Colon, 97>>, <<InvalidByte>>}
=============================================================================
