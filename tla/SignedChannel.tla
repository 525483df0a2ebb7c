---------------------------- MODULE SignedChannel ----------------------------
(***************************************************************************)
(* What the request path promises the server: every request that reaches  *)
(* the wire carries a timestamp, a nonce that no other request on the     *)
(* wire carries, and a signature of exactly that timestamp, nonce and     *)
(* body, and requests reach the wire one at a time.                        *)
(***************************************************************************)
CONSTANTS
    Bodies,       \* the bodies requests may carry
    Stamps,       \* the timestamp texts a signer may write
    NonceTexts,   \* the nonce texts a signer may draw
    Sign(_, _, _) \* Sign(ts, nonce, body): the signature the server checks

VARIABLE wire     \* the requests sent so far

Request(ts, n, b) == [body |-> b, hash |-> Sign(ts, n, b), ts |-> ts, nonce |-> n]

Init == wire = {}

\* one request, with a nonce not seen on the wire before, is sent
Transmit(b, ts, n) ==
    /\ n \notin {m.nonce : m \in wire}
    /\ wire' = wire \cup {Request(ts, n, b)}

Next == \E b \in Bodies, ts \in Stamps, n \in NonceTexts : Transmit(b, ts, n)

Spec == Init /\ [][Next]_wire
=============================================================================
