------------------------- MODULE HmacRequest_proofs -------------------------
(***************************************************************************)
(* The request path implements SignedChannel when callers keep their      *)
(* headers dicts to themselves and pass json= only to post and put: the   *)
(* condition the findings shared_headers and get_json_unsigned show to be *)
(* needed.                                                                 *)
(***************************************************************************)
EXTENDS HmacRequest, HmacClient_proofs, TLAPS

\* every call gets a fresh headers dict and signs the body it sends
PrivateCalls ==
    \A a \in Calls : a.hdr = NoDict /\ ForwardedJson(a) = NoArg

InFlight == {t \in Threads : pc[t] \in {"update", "ctype", "send"}}

Stamp == 0 .. MaxTime + Skew[Client]

\* what sign256 returned to a thread that has not sent yet
Signed(t) ==
    /\ call[t] \in Calls
    /\ mine[t].at \in Stamp
    /\ mine[t].ts = TsText(mine[t].at)
    /\ \E n \in drawn : mine[t].nonce = NonceText(n)
    /\ mine[t].sig = Mac(SecretKey[Client],
                         Canonical(mine[t].ts, mine[t].nonce, PrepareBody(call[t])))

\* The strengthening: each thread between sign256 and session.request holds
\* a signature of its body with a nonce drawn, not on the wire and held by
\* no other such thread, and once it has updated its dict the dict holds
\* that signature.
RInv ==
    /\ now \in 0 .. MaxTime
    /\ drawn \subseteq Nonces
    /\ pc \in [Threads -> {"idle", "update", "ctype", "send", "wait"}]
    /\ DOMAIN call = Threads /\ DOMAIN mine = Threads
    /\ DOMAIN dict = Threads \cup SharedDicts
    /\ \A d \in DOMAIN dict : DOMAIN dict[d] = {"hash", "ts", "nonce", "ctype"}
    /\ \A r \in sent : \E n \in drawn : r.nonce = NonceText(n)
    /\ \A t \in InFlight :
         /\ Signed(t)
         /\ mine[t].nonce \notin {r.nonce : r \in sent}
         /\ pc[t] \in {"ctype", "send"} =>
              /\ dict[t].hash = mine[t].sig
              /\ dict[t].ts = mine[t].ts
              /\ dict[t].nonce = mine[t].nonce
    /\ \A t, u \in InFlight : t # u => mine[t].nonce # mine[u].nonce

-----------------------------------------------------------------------------

\* uuid4 texts of distinct draws differ
LEMMA NonceTextInjective ==
    ASSUME NEW m \in Nat, NEW n \in Nat, m # n
    PROVE  NonceText(m) # NonceText(n)
BY DEF NonceText, NonceToken

\* a thread's dict is its own fresh dict
LEMMA OwnDict ==
    ASSUME PrivateCalls, NEW t \in Threads, call[t] \in Calls
    PROVE  DictOf(t) = t
BY DEF PrivateCalls, DictOf

\* the nonces of a set grown by one request
LEMMA NoncesAdd ==
    ASSUME NEW S, NEW x
    PROVE  {r.nonce : r \in S \cup {x}} = {r.nonce : r \in S} \cup {x.nonce}
BY Zenon

\* the wire of a set grown by one request
LEMMA WireAdd ==
    ASSUME NEW S, NEW x
    PROVE  {[body |-> r.body, hash |-> r.hash, ts |-> r.ts, nonce |-> r.nonce] : r \in S \cup {x}}
           = {[body |-> r.body, hash |-> r.hash, ts |-> r.ts, nonce |-> r.nonce] : r \in S}
             \cup {[body |-> x.body, hash |-> x.hash, ts |-> x.ts, nonce |-> x.nonce]}
BY Zenon

LEMMA RInitHolds == RInit => RInv
BY RequestAssumption, BoundsAssumption
   DEF RInit, Init, RInv, InFlight, EmptyHeaders

\* A step that leaves the request-path variables alone and does not change
\* the drawn nonces keeps the invariant if the clock stays in bounds.
LEMMA CoreStep ==
    ASSUME RInv, UNCHANGED rvars, drawn' = drawn, now' \in 0 .. MaxTime
    PROVE  RInv'
<1>1. InFlight' = InFlight
  BY DEF InFlight, rvars
<1>2. ASSUME NEW t \in InFlight PROVE Signed(t)' <=> Signed(t)
  BY DEF Signed, rvars
<1>3. QED
  BY <1>1, <1>2 DEF RInv, rvars

\* the call returns: the thread leaves the threads about to send
LEMMA ReturnStep ==
    ASSUME RInv, NEW t \in Threads, pc[t] = "wait",
           pc' = [pc EXCEPT ![t] = "idle"],
           call' = [call EXCEPT ![t] = NoArg],
           mine' = [mine EXCEPT ![t] = NoArg],
           UNCHANGED <<vars, dict, sent>>
    PROVE  RInv'
<1>1. InFlight' = InFlight /\ t \notin InFlight
  BY DEF RInv, InFlight
<1>2. ASSUME NEW u \in InFlight
      PROVE  /\ call'[u] = call[u] /\ mine'[u] = mine[u] /\ pc'[u] = pc[u]
  <2>1. u # t /\ u \in Threads
    BY <1>1 DEF InFlight
  <2>2. QED
    BY <2>1
<1>3. ASSUME NEW u \in InFlight PROVE Signed(u)' <=> Signed(u)
  BY <1>2 DEF Signed, vars
<1>4. pc' \in [Threads -> {"idle", "update", "ctype", "send", "wait"}]
  BY DEF RInv
<1>5. \A u \in InFlight' :
         /\ Signed(u)'
         /\ mine'[u].nonce \notin {r.nonce : r \in sent'}
         /\ pc'[u] \in {"ctype", "send"} =>
              /\ dict'[u].hash = mine'[u].sig
              /\ dict'[u].ts = mine'[u].ts
              /\ dict'[u].nonce = mine'[u].nonce
  BY <1>1, <1>2, <1>3 DEF RInv
<1>6. \A u, v \in InFlight' : u # v => mine'[u].nonce # mine'[v].nonce
  BY <1>1, <1>2 DEF RInv
<1>7. QED
  BY <1>4, <1>5, <1>6 DEF RInv, vars

\* Content-Type goes into the thread's own dict; the HMAC headers stay
LEMMA ContentTypeStep ==
    ASSUME PrivateCalls, RInv, NEW t \in Threads, SetContentType(t)
    PROVE  RInv'
<1>1. t \in InFlight /\ call[t] \in Calls
  BY DEF SetContentType, RInv, InFlight, Signed
<1>2. dict' = [dict EXCEPT ![t].ctype = JsonType]
  BY <1>1, OwnDict DEF SetContentType
<1>3. InFlight' = InFlight
  BY DEF SetContentType, InFlight, RInv
<1>4. ASSUME NEW u \in InFlight PROVE Signed(u)' <=> Signed(u)
  BY DEF SetContentType, Signed, vars
<1>5. ASSUME NEW u \in Threads \cup SharedDicts
      PROVE  /\ DOMAIN dict'[u] = {"hash", "ts", "nonce", "ctype"}
             /\ dict'[u].hash = dict[u].hash
             /\ dict'[u].ts = dict[u].ts
             /\ dict'[u].nonce = dict[u].nonce
  BY <1>2 DEF RInv
<1>6. pc' \in [Threads -> {"idle", "update", "ctype", "send", "wait"}]
  BY DEF SetContentType, RInv
<1>7. DOMAIN dict' = Threads \cup SharedDicts
  BY <1>2 DEF RInv
<1>8. QED
  BY <1>3, <1>4, <1>5, <1>6, <1>7 DEF SetContentType, RInv, InFlight, vars

\* headers.update writes the thread's signature into its own dict
LEMMA UpdateStep ==
    ASSUME PrivateCalls, RInv, NEW t \in Threads, UpdateHeaders(t)
    PROVE  RInv'
<1>1. t \in InFlight /\ call[t] \in Calls
  BY DEF UpdateHeaders, RInv, InFlight, Signed
<1>2. dict' = [dict EXCEPT ![t] = [@ EXCEPT !.hash = mine[t].sig,
                                            !.ts = mine[t].ts,
                                            !.nonce = mine[t].nonce]]
  BY <1>1, OwnDict DEF UpdateHeaders
<1>3. pc'[t] \in {"ctype", "send"}
  BY DEF UpdateHeaders, RInv
<1>4. InFlight' = InFlight
  BY <1>3 DEF UpdateHeaders, InFlight, RInv
<1>5. pc' \in [Threads -> {"idle", "update", "ctype", "send", "wait"}]
  BY <1>3 DEF UpdateHeaders, RInv
<1>6. ASSUME NEW u \in InFlight PROVE Signed(u)' <=> Signed(u)
  BY DEF UpdateHeaders, Signed, vars
<1>7. DOMAIN dict' = Threads \cup SharedDicts
      /\ \A d \in DOMAIN dict' : DOMAIN dict'[d] = {"hash", "ts", "nonce", "ctype"}
  BY <1>2 DEF RInv
<1>8. /\ dict'[t].hash = mine[t].sig
      /\ dict'[t].ts = mine[t].ts
      /\ dict'[t].nonce = mine[t].nonce
  BY <1>2 DEF RInv
<1>9. ASSUME NEW u \in InFlight \ {t}
      PROVE  dict'[u] = dict[u] /\ pc'[u] = pc[u]
  <2>1. u \in Threads /\ u # t
    BY DEF InFlight
  <2>2. dict'[u] = dict[u]
    BY <1>2, <2>1 DEF RInv
  <2>3. pc'[u] = pc[u]
    BY <2>1 DEF UpdateHeaders, RInv
  <2>4. QED
    BY <2>2, <2>3
<1>10. \A u \in InFlight' :
         /\ Signed(u)'
         /\ mine'[u].nonce \notin {r.nonce : r \in sent'}
         /\ pc'[u] \in {"ctype", "send"} =>
              /\ dict'[u].hash = mine'[u].sig
              /\ dict'[u].ts = mine'[u].ts
              /\ dict'[u].nonce = mine'[u].nonce
  <2>1. SUFFICES ASSUME NEW u \in InFlight
                 PROVE  /\ Signed(u)'
                        /\ mine'[u].nonce \notin {r.nonce : r \in sent'}
                        /\ pc'[u] \in {"ctype", "send"} =>
                             /\ dict'[u].hash = mine'[u].sig
                             /\ dict'[u].ts = mine'[u].ts
                             /\ dict'[u].nonce = mine'[u].nonce
    BY <1>4
  <2>2. Signed(u)' /\ mine'[u].nonce \notin {r.nonce : r \in sent'}
    BY <1>6 DEF UpdateHeaders, RInv
  <2>3. CASE u = t
    BY <2>2, <2>3, <1>8 DEF UpdateHeaders
  <2>4. CASE u # t
    BY <2>2, <2>4, <1>9 DEF UpdateHeaders, RInv
  <2>5. QED
    BY <2>3, <2>4
<1>11. QED
  BY <1>4, <1>5, <1>7, <1>10 DEF UpdateHeaders, RInv, vars

\* session.request: the thread's nonce goes on the wire and the thread
\* leaves the threads about to send
LEMMA SendStep ==
    ASSUME PrivateCalls, RInv, NEW t \in Threads, SendRequest(t)
    PROVE  RInv'
<1>1. t \in InFlight /\ call[t] \in Calls
  BY DEF SendRequest, RInv, InFlight, Signed
<1>2. dict[DictOf(t)].nonce = mine[t].nonce
  BY <1>1, OwnDict DEF SendRequest, RInv
<1>3. {r.nonce : r \in sent'} = {r.nonce : r \in sent} \cup {mine[t].nonce}
  <2>1. sent' = sent \cup {[body |-> SentBody(call[t]),
                            hash |-> dict[DictOf(t)].hash,
                            ts |-> dict[DictOf(t)].ts,
                            nonce |-> dict[DictOf(t)].nonce,
                            ctype |-> SentCtype(call[t], dict[DictOf(t)])]}
    BY DEF SendRequest
  <2>2. QED
    BY <1>2, <2>1, NoncesAdd
<1>4. InFlight' = InFlight \ {t}
  BY DEF SendRequest, InFlight, RInv
<1>5. pc' \in [Threads -> {"idle", "update", "ctype", "send", "wait"}]
  BY DEF SendRequest, RInv
<1>6. \A r \in sent' : \E n \in drawn' : r.nonce = NonceText(n)
  BY <1>1, <1>3 DEF SendRequest, RInv, Signed, vars
<1>7. ASSUME NEW u \in InFlight' PROVE Signed(u)' <=> Signed(u)
  BY DEF SendRequest, Signed, vars
<1>8. ASSUME NEW u \in InFlight'
      PROVE  /\ mine'[u].nonce \notin {r.nonce : r \in sent'}
             /\ pc'[u] = pc[u]
  <2>1. u \in InFlight /\ u # t /\ u \in Threads
    BY <1>4 DEF InFlight
  <2>2. mine[u].nonce # mine[t].nonce /\ mine[u].nonce \notin {r.nonce : r \in sent}
    BY <1>1, <2>1 DEF RInv
  <2>3. QED
    BY <1>3, <2>1, <2>2 DEF SendRequest, RInv
<1>9. QED
  BY <1>4, <1>5, <1>6, <1>7, <1>8 DEF SendRequest, RInv, vars

\* sign256 draws a nonce no other thread holds and none on the wire
LEMMA CallStep ==
    ASSUME PrivateCalls, RInv, NEW t \in Threads, NEW a \in Calls, Call(t, a)
    PROVE  RInv'
<1> DEFINE ts == TsText(Clock(Client))
           Rec(n) == [by |-> Client, mode |-> "secure", data |-> PrepareBody(a),
                      ts |-> ts, nonce |-> NonceText(n), at |-> Clock(Client),
                      msg |-> Canonical(ts, NonceText(n), PrepareBody(a)),
                      sig |-> Mac(SecretKey[Client],
                                  Canonical(ts, NonceText(n), PrepareBody(a)))]
<1>1. t \notin InFlight /\ InFlight' = InFlight \cup {t}
  BY DEF Call, InFlight, RInv
<1>2. PICK n \in Nonces \ drawn : drawn' = drawn \cup {n} /\ signed' = signed \cup {Rec(n)}
  BY DEF Call, Sign256
<1>3. mine' = [mine EXCEPT ![t] = Rec(n)]
  <2>1. PICK r \in signed' \ signed : mine' = [mine EXCEPT ![t] = r]
    BY DEF Call
  <2>2. QED
    BY <1>2, <2>1
<1>4. /\ now' = now /\ sent' = sent
      /\ call' = [call EXCEPT ![t] = a]
      /\ dict' = [dict EXCEPT ![t] = EmptyHeaders]
      /\ pc' = [pc EXCEPT ![t] = "update"]
  BY DEF Call, Sign256, PrivateCalls
<1>5. n \in Nat /\ drawn \subseteq Nat
  BY BoundsAssumption DEF RInv
<1>6. ASSUME NEW m \in drawn PROVE NonceText(n) # NonceText(m)
  BY <1>5, NonceTextInjective
<1>7. Signed(t)'
  <2>1. Clock(Client) \in Stamp
    BY RequestAssumption, ConfigAssumption, BoundsAssumption DEF RInv, Clock, Stamp
  <2>2. QED
    BY <1>2, <1>3, <1>4, <2>1 DEF Signed, RInv
<1>8. mine'[t].nonce \notin {r.nonce : r \in sent'}
  BY <1>3, <1>4, <1>6 DEF RInv
<1>9. ASSUME NEW u \in InFlight
      PROVE  /\ u # t /\ u \in Threads
             /\ mine'[u] = mine[u] /\ call'[u] = call[u]
             /\ pc'[u] = pc[u] /\ dict'[u] = dict[u]
  BY <1>1, <1>3, <1>4 DEF RInv, InFlight
<1>10. ASSUME NEW u \in InFlight
       PROVE  /\ Signed(u)'
              /\ mine'[u].nonce \notin {r.nonce : r \in sent'}
              /\ pc'[u] \in {"ctype", "send"} =>
                   /\ dict'[u].hash = mine'[u].sig
                   /\ dict'[u].ts = mine'[u].ts
                   /\ dict'[u].nonce = mine'[u].nonce
              /\ mine'[u].nonce # mine'[t].nonce
  <2>1. Signed(u) /\ mine'[u] = mine[u] /\ call'[u] = call[u]
    BY <1>9 DEF RInv
  <2>2. Signed(u)'
    BY <1>2, <2>1 DEF Signed
  <2>3. mine'[u].nonce # mine'[t].nonce
    BY <1>3, <1>6, <2>1, <1>9 DEF Signed, RInv
  <2>4. QED
    BY <1>4, <1>9, <2>2, <2>3 DEF RInv
<1>11. /\ pc' \in [Threads -> {"idle", "update", "ctype", "send", "wait"}]
       /\ DOMAIN call' = Threads /\ DOMAIN mine' = Threads
       /\ DOMAIN dict' = Threads \cup SharedDicts
       /\ \A d \in DOMAIN dict' : DOMAIN dict'[d] = {"hash", "ts", "nonce", "ctype"}
  BY <1>3, <1>4 DEF RInv, EmptyHeaders
<1>12. \A r \in sent' : \E m \in drawn' : r.nonce = NonceText(m)
  BY <1>2, <1>4 DEF RInv
<1>13. \A u \in InFlight' :
         /\ Signed(u)'
         /\ mine'[u].nonce \notin {r.nonce : r \in sent'}
         /\ pc'[u] \in {"ctype", "send"} =>
              /\ dict'[u].hash = mine'[u].sig
              /\ dict'[u].ts = mine'[u].ts
              /\ dict'[u].nonce = mine'[u].nonce
  <2>1. pc'[t] = "update"
    BY <1>4 DEF RInv
  <2>2. QED
    BY <1>1, <1>7, <1>8, <1>10, <2>1
<1>14. \A u, v \in InFlight' : u # v => mine'[u].nonce # mine'[v].nonce
  <2>1. \A u, v \in InFlight : u # v => mine'[u].nonce # mine'[v].nonce
    BY <1>9 DEF RInv
  <2>2. QED
    BY <1>1, <1>10, <2>1
<1>15. now' \in 0 .. MaxTime /\ drawn' \subseteq Nonces
  BY <1>2, <1>4 DEF RInv
<1>16. QED
  BY <1>11, <1>12, <1>13, <1>14, <1>15 DEF RInv

\* RInv is inductive under PrivateCalls
LEMMA RInvStep ==
    ASSUME PrivateCalls, RInv, [RNext]_allvars
    PROVE  RInv'
<1>1. CASE Tick /\ UNCHANGED rvars
  <2>1. drawn' = drawn /\ now' \in 0 .. MaxTime
    BY <1>1, BoundsAssumption DEF Tick, RInv
  <2>2. QED
    BY <1>1, <2>1, CoreStep
<1>2. CASE Construct(Client) /\ UNCHANGED rvars
  BY <1>2, CoreStep DEF Construct, RInv
<1>3. CASE UNCHANGED allvars
  BY <1>3, CoreStep DEF allvars, vars, RInv
<1>4. ASSUME NEW t \in Threads,
             \/ \E a \in Calls : Call(t, a)
             \/ UpdateHeaders(t)
             \/ SetContentType(t)
             \/ SendRequest(t)
             \/ Complete(t)
             \/ TimeOut(t)
      PROVE  RInv'
  <2>1. CASE \E a \in Calls : Call(t, a)
    BY <2>1, CallStep
  <2>2. CASE UpdateHeaders(t)
    BY <2>2, UpdateStep
  <2>3. CASE SetContentType(t)
    BY <2>3, ContentTypeStep
  <2>4. CASE SendRequest(t)
    BY <2>4, SendStep
  <2>5. CASE Complete(t)
    BY <2>5, ReturnStep DEF Complete
  <2>6. CASE TimeOut(t)
    BY <2>6, ReturnStep DEF TimeOut
  <2>7. QED
    BY <1>4, <2>1, <2>2, <2>3, <2>4, <2>5, <2>6
<1>5. QED
  BY <1>1, <1>2, <1>3, <1>4 DEF RNext

\* under PrivateCalls the body sent is the body signed
LEMMA SentIsPrepared ==
    ASSUME PrivateCalls, NEW a \in Calls
    PROVE  SentBody(a) = PrepareBody(a)
BY DEF PrivateCalls, SentBody

\* session.request is a Transmit of the thread's signed triple
LEMMA SendRefines ==
    ASSUME PrivateCalls, RInv, NEW t \in Threads, SendRequest(t)
    PROVE  Channel!Next
<1>1. t \in InFlight /\ call[t] \in Calls /\ DictOf(t) = t
  BY OwnDict DEF SendRequest, RInv, InFlight, Signed
<1> DEFINE b == SentBody(call[t])
           ts == mine[t].ts
           n == mine[t].nonce
           R == [body |-> b, hash |-> dict[t].hash, ts |-> dict[t].ts,
                 nonce |-> dict[t].nonce, ctype |-> SentCtype(call[t], dict[t])]
<1>2. sent' = sent \cup {R}
  BY <1>1 DEF SendRequest
<1>3. /\ dict[t].hash = Mac(SecretKey[Client], Canonical(ts, n, b))
      /\ dict[t].ts = ts /\ dict[t].nonce = n
  BY <1>1, SentIsPrepared DEF RInv, Signed, SendRequest
<1>4. Wire' = Wire \cup {Channel!Request(ts, n, b)}
  <2>1. Wire' = Wire \cup {[body |-> R.body, hash |-> R.hash, ts |-> R.ts, nonce |-> R.nonce]}
    BY <1>2, WireAdd DEF Wire
  <2>2. [body |-> R.body, hash |-> R.hash, ts |-> R.ts, nonce |-> R.nonce]
        = Channel!Request(ts, n, b)
    BY <1>3 DEF Channel!Request
  <2>3. QED
    BY <2>1, <2>2
<1>5. n \notin {m.nonce : m \in Wire}
  BY <1>1 DEF RInv, Wire
<1>6. /\ b \in {SentBody(a) : a \in Calls}
      /\ ts \in {TsText(x) : x \in 0 .. MaxTime + Skew[Client]}
      /\ n \in {NonceText(m) : m \in Nonces}
  BY <1>1 DEF RInv, Signed, Stamp
<1>7. QED
  BY <1>4, <1>5, <1>6 DEF Channel!Next, Channel!Transmit

\* every other step leaves the wire as it is
LEMMA RefineStep ==
    ASSUME PrivateCalls, RInv, [RNext]_allvars
    PROVE  [Channel!Next]_Wire
<1>1. CASE \E t \in Threads : SendRequest(t)
  BY <1>1, SendRefines
<1>2. CASE ~\E t \in Threads : SendRequest(t)
  <2>1. sent' = sent
    BY <1>2 DEF RNext, allvars, rvars, Call, UpdateHeaders, SetContentType,
                Complete, TimeOut
  <2>2. QED
    BY <2>1 DEF Wire
<1>3. QED
  BY <1>1, <1>2

\* A theorem about the code path of _make_request: when every caller leaves
\* the headers dict to the client and passes json= only to post and put,
\* the requests the client sends are those of the signed channel, each one
\* signed over its own body with a nonce no earlier request carried.
THEOREM ChannelRefinement ==
    ASSUME PrivateCalls
    PROVE  RSpec => ChannelRefined
<1>1. RInit => Channel!Init
  BY DEF RInit, Wire, Channel!Init
<1>2. RInv /\ [RNext]_allvars => RInv'
  BY RInvStep
<1>3. RInv /\ [RNext]_allvars => [Channel!Next]_Wire
  BY RefineStep
<1>4. QED
  BY <1>1, <1>2, <1>3, RInitHolds, PTL DEF RSpec, ChannelRefined, Channel!Spec

-----------------------------------------------------------------------------
(* Every request sent is authentic *)

\* the texts sign256 writes are texts, so never an absent header
LEMMA TextsPresent ==
    ASSUME NEW x \in Int
    PROVE  TsText(x) # Absent /\ NonceText(x) # Absent
<1>1. TsText(x) \in Seq(Int) /\ NonceText(x) \in Seq(Int)
  BY DEF TsText, StampToken, Colon, OffsetToken, NonceText, NonceToken
<1>2. QED
  BY <1>1, RequestAssumption

\* a send adds an authentic request; no other step changes what was sent
LEMMA AuthenticStep ==
    ASSUME PrivateCalls, RInv, SentAuthentic, [RNext]_allvars
    PROVE  SentAuthentic'
<1>1. CASE \E t \in Threads : SendRequest(t)
  <2>1. PICK t \in Threads : SendRequest(t)
    BY <1>1
  <2>2. t \in InFlight /\ call[t] \in Calls /\ DictOf(t) = t
    BY <2>1, OwnDict DEF SendRequest, RInv, InFlight, Signed
  <2> DEFINE b == SentBody(call[t])
             R == [body |-> b, hash |-> dict[t].hash, ts |-> dict[t].ts,
                   nonce |-> dict[t].nonce, ctype |-> SentCtype(call[t], dict[t])]
  <2>3. sent' = sent \cup {R}
    BY <2>1, <2>2 DEF SendRequest
  <2>4. /\ dict[t].hash = Mac(SecretKey[Client],
                             Canonical(dict[t].ts, dict[t].nonce, b))
        /\ \E x \in Int : dict[t].ts = TsText(x)
        /\ \E x \in Int : dict[t].nonce = NonceText(x)
    <3>1. Signed(t) /\ dict[t].ts = mine[t].ts /\ dict[t].nonce = mine[t].nonce
          /\ dict[t].hash = mine[t].sig
      BY <2>1, <2>2 DEF RInv, SendRequest
    <3>2. drawn \subseteq Int
      BY BoundsAssumption DEF RInv
    <3>3. QED
      BY <2>2, <3>1, <3>2, SentIsPrepared DEF Signed, Stamp
  <2>5. R.ts # Absent /\ R.nonce # Absent
    BY <2>4, TextsPresent
  <2>6. QED
    BY <2>3, <2>4, <2>5 DEF SentAuthentic
<1>2. CASE ~\E t \in Threads : SendRequest(t)
  <2>1. sent' = sent
    BY <1>2 DEF RNext, allvars, rvars, Call, UpdateHeaders, SetContentType,
                Complete, TimeOut
  <2>2. QED
    BY <2>1 DEF SentAuthentic
<1>3. QED
  BY <1>1, <1>2

\* A theorem about _make_request and session.request: when every call gets
\* a fresh headers dict and json= goes only to post and put, every request
\* the concurrent callers put on the wire carries the timestamp and nonce
\* headers and a secure-mode HMAC, under the client's key, of its own body.
THEOREM SentAuthenticInvariant ==
    ASSUME PrivateCalls
    PROVE  RSpec => []SentAuthentic
<1>1. RInit => RInv /\ SentAuthentic
  BY RInitHolds DEF RInit, SentAuthentic
<1>2. RInv /\ SentAuthentic /\ [RNext]_allvars => RInv' /\ SentAuthentic'
  BY RInvStep, AuthenticStep
<1>3. QED
  BY <1>1, <1>2, PTL DEF RSpec

-----------------------------------------------------------------------------
(* Type correctness of the request path, for any calls *)

Fields == {"hash", "ts", "nonce", "ctype"}

\* RTypeOK with the core's typing and the domains the updates rely on
TInv ==
    /\ TypeOK
    /\ RTypeOK
    /\ DOMAIN call = Threads /\ DOMAIN mine = Threads
    /\ \A d \in DOMAIN dict : DOMAIN dict[d] = Fields

\* the bodies _prepare_request_body and requests build are bytes
LEMMA BodyTypes ==
    ASSUME NEW a \in Calls
    PROVE  PrepareBody(a) \in Seq(0 .. 255) /\ SentBody(a) \in Seq(0 .. 255)
<1>1. JsonData(a) # NoArg => JsonData(a) \in 0 .. 255
  BY RequestAssumption DEF JsonData
<1>2. ForwardedJson(a) # NoArg => ForwardedJson(a) \in 0 .. 255
  BY RequestAssumption DEF ForwardedJson
<1>3. ASSUME NEW j \in 0 .. 255
      PROVE  CompactJson(j) \in Seq(0 .. 255) /\ RequestsJson(j) \in Seq(0 .. 255)
  BY DEF CompactJson, RequestsJson, Colon
<1>4. PrepareBody(a) \in Seq(0 .. 255)
  <2>1. CASE JsonData(a) # NoArg
    BY <2>1, <1>1, <1>3 DEF PrepareBody
  <2>2. CASE JsonData(a) = NoArg /\ a.data # NoArg
    <3>1. a.data \in Seq(0 .. 255)
      BY <2>2, RequestAssumption
    <3>2. QED
      BY <2>2, <3>1 DEF PrepareBody
  <2>3. CASE JsonData(a) = NoArg /\ a.data = NoArg
    BY <2>3 DEF PrepareBody
  <2>4. QED
    BY <2>1, <2>2, <2>3
<1>5. QED
  BY <1>2, <1>3, <1>4 DEF SentBody

\* the dict a thread writes into is one of the dicts
LEMMA DictOfDomain ==
    ASSUME NEW t \in Threads, call[t] \in Calls
    PROVE  DictOf(t) \in Threads \cup SharedDicts
BY RequestAssumption DEF DictOf

LEMMA TInitHolds == RInit => TInv
BY RequestAssumption, BoundsAssumption
   DEF RInit, Init, TInv, TypeOK, RTypeOK, IsHeaders, EmptyHeaders, Fields

\* sign256 inside a call: the thread holds a new signature
LEMMA CallTyped ==
    ASSUME TInv, NEW t \in Threads, NEW a \in Calls, Call(t, a)
    PROVE  TInv'
<1>1. TypeOK'
  BY BodyTypes, Sign256Typed, RequestAssumption DEF Call, TInv
<1>2. signed \subseteq signed' /\ mine'[t] \in signed'
  BY DEF Call, Sign256, TInv
<1>3. IsHeaders(EmptyHeaders) /\ DOMAIN EmptyHeaders = Fields
  BY DEF IsHeaders, EmptyHeaders, Fields
<1>4. QED
  BY <1>1, <1>2, <1>3 DEF Call, Sign256, TInv, RTypeOK
\* headers.update writes what sign256 returned
LEMMA UpdateTyped ==
    ASSUME TInv, NEW t \in Threads, UpdateHeaders(t)
    PROVE  TInv'
<1>1. call[t] \in Calls /\ mine[t] \in Signature
  BY DEF UpdateHeaders, TInv, RTypeOK, TypeOK
<1>2. DictOf(t) \in DOMAIN dict
  BY <1>1, DictOfDomain DEF TInv, RTypeOK
<1> DEFINE h == dict[DictOf(t)]
           h2 == [h EXCEPT !.hash = mine[t].sig, !.ts = mine[t].ts,
                           !.nonce = mine[t].nonce]
<1>3. IsHeaders(h) /\ DOMAIN h = Fields
  BY <1>2 DEF TInv, RTypeOK
<1>4. IsHeaders(h2) /\ DOMAIN h2 = Fields
  BY <1>1, <1>3 DEF IsHeaders, Signature, Fields
<1>5. dict' = [dict EXCEPT ![DictOf(t)] = h2]
  BY DEF UpdateHeaders
<1>6. QED
  BY <1>2, <1>4, <1>5 DEF UpdateHeaders, TInv, RTypeOK, TypeOK, vars

\* Content-Type is set in the thread's dict
LEMMA ContentTypeTyped ==
    ASSUME TInv, NEW t \in Threads, SetContentType(t)
    PROVE  TInv'
<1>1. call[t] \in Calls
  BY DEF SetContentType, TInv, RTypeOK
<1>2. DictOf(t) \in DOMAIN dict
  BY <1>1, DictOfDomain DEF TInv, RTypeOK
<1> DEFINE h == dict[DictOf(t)]
           h2 == [h EXCEPT !.ctype = JsonType]
<1>3. IsHeaders(h) /\ DOMAIN h = Fields
  BY <1>2 DEF TInv, RTypeOK
<1>4. IsHeaders(h2) /\ DOMAIN h2 = Fields
  BY <1>3 DEF IsHeaders, Fields
<1>5. dict' = [dict EXCEPT ![DictOf(t)] = h2]
  BY DEF SetContentType
<1>6. QED
  BY <1>2, <1>4, <1>5 DEF SetContentType, TInv, RTypeOK, TypeOK, vars

\* session.request puts a typed request on the wire
LEMMA SendTyped ==
    ASSUME TInv, NEW t \in Threads, SendRequest(t)
    PROVE  TInv'
<1>1. call[t] \in Calls
  BY DEF SendRequest, TInv, RTypeOK
<1>2. IsHeaders(dict[DictOf(t)])
  BY <1>1, DictOfDomain DEF TInv, RTypeOK
<1>3. SentBody(call[t]) \in Seq(0 .. 255)
  BY <1>1, BodyTypes
<1>4. SentCtype(call[t], dict[DictOf(t)]) \in {JsonType, Absent}
  BY <1>2 DEF SentCtype, IsHeaders
<1>5. QED
  BY <1>3, <1>4 DEF SendRequest, TInv, RTypeOK, TypeOK, vars

\* the call returns
LEMMA ReturnTyped ==
    ASSUME TInv, NEW t \in Threads, pc[t] = "wait",
           pc' = [pc EXCEPT ![t] = "idle"],
           call' = [call EXCEPT ![t] = NoArg],
           mine' = [mine EXCEPT ![t] = NoArg],
           UNCHANGED <<vars, dict, sent>>
    PROVE  TInv'
BY DEF TInv, RTypeOK, TypeOK, vars

LEMMA TStep ==
    ASSUME TInv, [RNext]_allvars
    PROVE  TInv'
<1>1. CASE (Tick \/ Construct(Client)) /\ UNCHANGED rvars
  <2>1. TypeOK'
    BY <1>1, TypeStep, RequestAssumption DEF Next, TInv
  <2>2. signed' = signed
    BY <1>1 DEF Tick, Construct
  <2>3. QED
    BY <1>1, <2>1, <2>2 DEF TInv, RTypeOK, rvars
<1>2. CASE UNCHANGED allvars
  BY <1>2 DEF TInv, RTypeOK, TypeOK, allvars, rvars, vars
<1>3. ASSUME NEW t \in Threads,
             \/ \E a \in Calls : Call(t, a)
             \/ UpdateHeaders(t)
             \/ SetContentType(t)
             \/ SendRequest(t)
             \/ Complete(t)
             \/ TimeOut(t)
      PROVE  TInv'
  BY <1>3, CallTyped, UpdateTyped, ContentTypeTyped, SendTyped, ReturnTyped
     DEF Complete, TimeOut
<1>4. QED
  BY <1>1, <1>2, <1>3 DEF RNext

\* For every value of the constants and any calls the callers make, shared
\* dicts and forwarded json= included, the request path stays well typed:
\* every headers dict holds only what sign256 returned or the JSON
\* Content-Type, a busy thread holds a published signature, and every
\* request on the wire has a byte body.
THEOREM RTypeCorrect == RSpec => []RTypeOK
<1>1. RInit => TInv
  BY TInitHolds
<1>2. TInv /\ [RNext]_allvars => TInv'
  BY TStep
<1>3. TInv => RTypeOK
  BY DEF TInv
<1>4. QED
  BY <1>1, <1>2, <1>3, PTL DEF RSpec

-----------------------------------------------------------------------------
(* The Content-Type label of what is sent *)

JsonTexts == {CompactJson(j) : j \in 0 .. 255} \cup {RequestsJson(j) : j \in 0 .. 255}

\* callers pass raw data= that is not itself one of the JSON texts
RawDataNotJson == \A a \in Calls : a.data \notin JsonTexts

\* a thread's own dict carries the JSON label only once the thread set it,
\* and it sets it only for a call with json_data
CtypeInv ==
    \A t \in InFlight :
        /\ pc[t] \in {"update", "ctype"} => dict[t].ctype = Absent
        /\ pc[t] = "ctype" => JsonData(call[t]) # NoArg
        /\ pc[t] = "send" => (dict[t].ctype = JsonType <=> JsonData(call[t]) # NoArg)

\* the label and an absent header differ
LEMMA JsonTypeNotAbsent == JsonType # Absent
BY RequestAssumption

\* a request sent by a thread of a private call is labelled by its own dict
LEMMA SentLabel ==
    ASSUME PrivateCalls, NEW a \in Calls, NEW h
    PROVE  SentCtype(a, h) = h.ctype /\ SentBody(a) = PrepareBody(a)
BY SentIsPrepared DEF PrivateCalls, SentCtype

\* the body _prepare_request_body writes is a JSON text exactly for a call
\* with json_data, when raw data is not one
LEMMA BodyIsJson ==
    ASSUME RawDataNotJson, NEW a \in Calls
    PROVE  (\E j \in 0 .. 255 : PrepareBody(a) \in {CompactJson(j), RequestsJson(j)})
           <=> JsonData(a) # NoArg
<1>1. CASE JsonData(a) # NoArg
  <2>1. JsonData(a) \in 0 .. 255
    BY <1>1, RequestAssumption DEF JsonData
  <2>2. QED
    BY <1>1, <2>1 DEF PrepareBody
<1>2. CASE JsonData(a) = NoArg /\ a.data # NoArg
  BY <1>2 DEF PrepareBody, RawDataNotJson, JsonTexts
<1>3. CASE JsonData(a) = NoArg /\ a.data = NoArg
  <2>1. ASSUME NEW j \in 0 .. 255
        PROVE  <<>> # CompactJson(j) /\ <<>> # RequestsJson(j)
    BY DEF CompactJson, RequestsJson
  <2>2. QED
    BY <1>3, <2>1 DEF PrepareBody
<1>4. QED
  BY <1>1, <1>2, <1>3

LEMMA CtypeInitHolds == RInit => CtypeInv /\ ContentTypeMatchesBody
BY DEF RInit, CtypeInv, InFlight, ContentTypeMatchesBody

\* CtypeInv holds of u when u's pc, call and own dict label are as before
LEMMA CtypeFrame ==
    ASSUME CtypeInv, NEW u \in InFlight,
           pc'[u] = pc[u], call'[u] = call[u], dict'[u].ctype = dict[u].ctype
    PROVE  /\ pc'[u] \in {"update", "ctype"} => dict'[u].ctype = Absent
           /\ pc'[u] = "ctype" => JsonData(call'[u]) # NoArg
           /\ pc'[u] = "send" => (dict'[u].ctype = JsonType <=> JsonData(call'[u]) # NoArg)
BY DEF CtypeInv

\* sign256 inside a call: the thread starts with a fresh, unlabelled dict
LEMMA CtypeCall ==
    ASSUME PrivateCalls, RInv, CtypeInv, ContentTypeMatchesBody,
           NEW t \in Threads, NEW a \in Calls, Call(t, a)
    PROVE  CtypeInv' /\ ContentTypeMatchesBody'
<1>1. t \notin InFlight /\ InFlight' = InFlight \cup {t}
  BY DEF Call, InFlight, RInv
<1>2. /\ sent' = sent
      /\ call' = [call EXCEPT ![t] = a]
      /\ dict' = [dict EXCEPT ![t] = EmptyHeaders]
      /\ pc' = [pc EXCEPT ![t] = "update"]
  BY DEF Call, Sign256, PrivateCalls
<1>3. pc'[t] = "update" /\ dict'[t].ctype = Absent
  BY <1>2 DEF RInv, EmptyHeaders
<1>4. ASSUME NEW u \in InFlight
      PROVE  pc'[u] = pc[u] /\ call'[u] = call[u] /\ dict'[u].ctype = dict[u].ctype
  BY <1>1, <1>2 DEF RInv, InFlight
<1>5. QED
  BY <1>1, <1>2, <1>3, <1>4, CtypeFrame DEF CtypeInv, ContentTypeMatchesBody

\* headers.update leaves the label alone; a call without json_data goes on
\* to send unlabelled
LEMMA CtypeUpdate ==
    ASSUME PrivateCalls, RInv, CtypeInv, ContentTypeMatchesBody,
           NEW t \in Threads, UpdateHeaders(t)
    PROVE  CtypeInv' /\ ContentTypeMatchesBody'
<1>1. t \in InFlight /\ call[t] \in Calls /\ DictOf(t) = t
  BY OwnDict DEF UpdateHeaders, RInv, InFlight, Signed
<1>2. dict'[t].ctype = dict[t].ctype /\ dict[t].ctype = Absent
  BY <1>1 DEF UpdateHeaders, RInv, CtypeInv
<1>3. InFlight' = InFlight
  BY DEF UpdateHeaders, InFlight, RInv
<1>4. /\ pc'[t] = "ctype" => JsonData(call'[t]) # NoArg
      /\ pc'[t] = "send" => JsonData(call'[t]) = NoArg
      /\ pc'[t] \in {"ctype", "send"}
  BY DEF UpdateHeaders, RInv
<1>5. ASSUME NEW u \in InFlight \ {t}
      PROVE  pc'[u] = pc[u] /\ call'[u] = call[u] /\ dict'[u].ctype = dict[u].ctype
  <2>1. u \in Threads /\ u # t
    BY DEF InFlight
  <2>2. QED
    BY <1>1, <2>1 DEF UpdateHeaders, RInv
<1>6. CtypeInv'
  BY <1>2, <1>3, <1>4, <1>5, JsonTypeNotAbsent, CtypeFrame DEF CtypeInv
<1>7. QED
  BY <1>6 DEF UpdateHeaders, ContentTypeMatchesBody

\* the JSON label is set, and only for a call with json_data
LEMMA CtypeSet ==
    ASSUME PrivateCalls, RInv, CtypeInv, ContentTypeMatchesBody,
           NEW t \in Threads, SetContentType(t)
    PROVE  CtypeInv' /\ ContentTypeMatchesBody'
<1>1. t \in InFlight /\ call[t] \in Calls /\ DictOf(t) = t
  BY OwnDict DEF SetContentType, RInv, InFlight, Signed
<1>2. dict'[t].ctype = JsonType /\ JsonData(call[t]) # NoArg
  BY <1>1 DEF SetContentType, RInv, CtypeInv
<1>3. InFlight' = InFlight /\ pc'[t] = "send"
  BY DEF SetContentType, InFlight, RInv
<1>4. ASSUME NEW u \in InFlight \ {t}
      PROVE  pc'[u] = pc[u] /\ call'[u] = call[u] /\ dict'[u].ctype = dict[u].ctype
  <2>1. u \in Threads /\ u # t
    BY DEF InFlight
  <2>2. QED
    BY <1>1, <2>1 DEF SetContentType, RInv
<1>5. CtypeInv'
  BY <1>2, <1>3, <1>4, CtypeFrame DEF CtypeInv, SetContentType
<1>6. QED
  BY <1>5 DEF SetContentType, ContentTypeMatchesBody

\* session.request sends the label the thread's dict holds with the body
\* that was prepared
LEMMA CtypeSend ==
    ASSUME PrivateCalls, RawDataNotJson, RInv, CtypeInv, ContentTypeMatchesBody,
           NEW t \in Threads, SendRequest(t)
    PROVE  CtypeInv' /\ ContentTypeMatchesBody'
<1>1. t \in InFlight /\ call[t] \in Calls /\ DictOf(t) = t
  BY OwnDict DEF SendRequest, RInv, InFlight, Signed
<1> DEFINE R == [body |-> SentBody(call[t]), hash |-> dict[t].hash,
                 ts |-> dict[t].ts, nonce |-> dict[t].nonce,
                 ctype |-> SentCtype(call[t], dict[t])]
<1>2. sent' = sent \cup {R}
  BY <1>1 DEF SendRequest
<1>3. R.ctype = dict[t].ctype /\ R.body = PrepareBody(call[t])
  BY <1>1, SentLabel
<1>4. (R.ctype = JsonType) <=> JsonData(call[t]) # NoArg
  BY <1>1, <1>3 DEF SendRequest, CtypeInv
<1>5. (R.ctype = JsonType) <=>
        (\E j \in 0 .. 255 : R.body \in {CompactJson(j), RequestsJson(j)})
  BY <1>1, <1>3, <1>4, BodyIsJson
<1>6. ContentTypeMatchesBody'
  BY <1>2, <1>5 DEF ContentTypeMatchesBody
<1>7. InFlight' = InFlight \ {t}
  BY DEF SendRequest, InFlight, RInv
<1>8. ASSUME NEW u \in InFlight'
      PROVE  pc'[u] = pc[u] /\ call'[u] = call[u] /\ dict'[u].ctype = dict[u].ctype
  BY <1>7 DEF SendRequest, RInv, InFlight
<1>9. QED
  BY <1>6, <1>7, <1>8, CtypeFrame DEF CtypeInv

\* the call returns: the thread is no longer about to send
LEMMA CtypeReturn ==
    ASSUME RInv, CtypeInv, ContentTypeMatchesBody, NEW t \in Threads, pc[t] = "wait",
           pc' = [pc EXCEPT ![t] = "idle"],
           call' = [call EXCEPT ![t] = NoArg],
           mine' = [mine EXCEPT ![t] = NoArg],
           UNCHANGED <<vars, dict, sent>>
    PROVE  CtypeInv' /\ ContentTypeMatchesBody'
<1>1. InFlight' = InFlight /\ t \notin InFlight
  BY DEF RInv, InFlight
<1>2. ASSUME NEW u \in InFlight
      PROVE  pc'[u] = pc[u] /\ call'[u] = call[u] /\ dict'[u].ctype = dict[u].ctype
  BY <1>1 DEF RInv, InFlight
<1>3. QED
  BY <1>1, <1>2, CtypeFrame DEF CtypeInv, ContentTypeMatchesBody

LEMMA CtypeStep ==
    ASSUME PrivateCalls, RawDataNotJson, RInv, CtypeInv, ContentTypeMatchesBody,
           [RNext]_allvars
    PROVE  CtypeInv' /\ ContentTypeMatchesBody'
<1>1. CASE UNCHANGED rvars
  <2>1. InFlight' = InFlight
    BY <1>1 DEF InFlight, rvars
  <2>2. QED
    BY <1>1, <2>1 DEF CtypeInv, ContentTypeMatchesBody, rvars
<1>2. ASSUME NEW t \in Threads,
             \/ \E a \in Calls : Call(t, a)
             \/ UpdateHeaders(t)
             \/ SetContentType(t)
             \/ SendRequest(t)
             \/ Complete(t)
             \/ TimeOut(t)
      PROVE  CtypeInv' /\ ContentTypeMatchesBody'
  BY <1>2, CtypeCall, CtypeUpdate, CtypeSet, CtypeSend, CtypeReturn
     DEF Complete, TimeOut
<1>3. QED
  BY <1>1, <1>2 DEF RNext, allvars

\* A theorem about _make_request and session.request: when every call gets
\* a fresh headers dict, json= goes only to post and put, and no raw data=
\* is itself a JSON text, every request on the wire is labelled
\* application/json exactly when its body is a JSON text.
THEOREM ContentTypeInvariant ==
    ASSUME PrivateCalls, RawDataNotJson
    PROVE  RSpec => []ContentTypeMatchesBody
<1>1. RInit => RInv /\ CtypeInv /\ ContentTypeMatchesBody
  BY RInitHolds, CtypeInitHolds
<1>2. RInv /\ CtypeInv /\ ContentTypeMatchesBody /\ [RNext]_allvars
        => (RInv /\ CtypeInv /\ ContentTypeMatchesBody)'
  BY RInvStep, CtypeStep
<1>3. QED
  BY <1>1, <1>2, PTL DEF RSpec

-----------------------------------------------------------------------------
(* No nonce goes on the wire twice *)

\* a thread about to send holds, in its own dict, a nonce not yet sent
LEMMA SendHoldsFresh ==
    ASSUME PrivateCalls, RInv, NEW t \in Threads, pc[t] = "send"
    PROVE  dict[DictOf(t)].nonce \notin {r.nonce : r \in sent}
<1>1. t \in InFlight /\ call[t] \in Calls
  BY DEF RInv, InFlight, Signed
<1>2. DictOf(t) = t
  BY <1>1, OwnDict
<1>3. QED
  BY <1>1, <1>2 DEF RInv

\* A theorem about session.request: when every call gets a fresh headers
\* dict and json= goes only to post and put, no send of any thread, in
\* any interleaving, carries a nonce an earlier request carried.
THEOREM SendsFreshNonceHolds ==
    ASSUME PrivateCalls
    PROVE  RSpec => SendsFreshNonce
<1> DEFINE Fresh == \A t \in Threads :
                       (pc[t] = "send" /\ pc'[t] = "wait") =>
                           dict[DictOf(t)].nonce \notin {r.nonce : r \in sent}
<1>1. RInit => RInv
  BY RInitHolds
<1>2. RInv /\ [RNext]_allvars => RInv'
  BY RInvStep
<1>3. RInv /\ [RNext]_allvars => [Fresh]_allvars
  BY SendHoldsFresh
<1>4. QED
  BY <1>1, <1>2, <1>3, PTL DEF RSpec, SendsFreshNonce
=============================================================================
