-------------------------- MODULE HmacClient_proofs --------------------------
(***************************************************************************)
(* Proofs about the signing core, for every value of the constants that    *)
(* satisfies ConfigAssumption and BoundsAssumption.                        *)
(***************************************************************************)
EXTENDS HmacClient, SequenceTheorems, TLAPS

\* Every payload is a sequence of integers, so every text built from one is.
LEMMA PayloadsAreText ==
    Payloads \subseteq Seq(Int)
<1>1. ASSUME NEW d \in Payloads PROVE d \in Seq(Int)
  <2>1. d \in Seq(0 .. 255)
    BY BoundsAssumption
  <2>2. (0 .. 255) \subseteq Int
    OBVIOUS
  <2>3. QED
    BY <2>1, <2>2, SeqMonotonic
<1>2. QED
  BY <1>1

\* The texts sign256 builds are sequences of integers.
LEMMA TextTypes ==
    ASSUME NEW t \in Nat, NEW n \in Nonces, NEW d \in Seq(Int)
    PROVE  /\ TsText(t) \in Seq(Int)
           /\ NonceText(n) \in Seq(Int)
           /\ Canonical(TsText(t), NonceText(n), d) \in Seq(Int)
<1>1. TsText(t) \in Seq(Int)
  BY DEF TsText, StampToken, Colon, OffsetToken
<1>2. NonceText(n) \in Seq(Int)
  BY BoundsAssumption DEF NonceText, NonceToken
<1>3. <<Colon>> \in Seq(Int)
  BY DEF Colon
<1>4. QED
  BY <1>1, <1>2, <1>3, ConcatProperties DEF Canonical

\* sign256 of any bytes keeps the type invariant, whoever calls it.
LEMMA Sign256Typed ==
    ASSUME TypeOK, NEW c \in Clients, NEW d \in Seq(0 .. 255), Sign256(c, d)
    PROVE  TypeOK'
<1>1. PICK n \in Nonces \ drawn :
        LET ts == TsText(Clock(c))
            msg == Canonical(ts, NonceText(n), d)
        IN
        /\ drawn' = drawn \cup {n}
        /\ signed' = signed \cup
             {[by |-> c, mode |-> "secure", data |-> d, ts |-> ts,
               nonce |-> NonceText(n), at |-> Clock(c), msg |-> msg,
               sig |-> Mac(SecretKey[c], msg)]}
  BY DEF Sign256
<1>2. Clock(c) \in Nat
  BY ConfigAssumption DEF TypeOK, Clock
<1>3. d \in Seq(Int)
  <2>1. (0 .. 255) \subseteq Int
    OBVIOUS
  <2>2. QED
    BY <2>1, SeqMonotonic
<1>4. /\ TsText(Clock(c)) \in Seq(Int)
      /\ NonceText(n) \in Seq(Int)
      /\ Canonical(TsText(Clock(c)), NonceText(n), d) \in Seq(Int)
  BY <1>2, <1>3, TextTypes
<1>5. SecretKey[c] \in STRING
  BY ConfigAssumption
<1>6. [by |-> c, mode |-> "secure", data |-> d, ts |-> TsText(Clock(c)),
       nonce |-> NonceText(n), at |-> Clock(c),
       msg |-> Canonical(TsText(Clock(c)), NonceText(n), d),
       sig |-> Mac(SecretKey[c],
                   Canonical(TsText(Clock(c)), NonceText(n), d))]
      \in Signature
  BY <1>2, <1>4, <1>5 DEF Signature, Mac
<1>7. QED
  BY <1>1, <1>6 DEF Sign256, TypeOK

\* Every step keeps the type invariant.
LEMMA TypeStep == TypeOK /\ [Next]_vars => TypeOK'
  <2> SUFFICES ASSUME TypeOK, [Next]_vars PROVE TypeOK'
    OBVIOUS
  <2>1. CASE Tick
    BY <2>1, BoundsAssumption DEF Tick, TypeOK
  <2>2. ASSUME NEW c \in Clients, Construct(c) PROVE TypeOK'
    BY <2>2 DEF Construct, TypeOK
  <2>3. ASSUME NEW c \in Clients, NEW d \in Payloads, Sha256Sign(c, d)
        PROVE TypeOK'
    <3>1. d \in Seq(0 .. 255)
      BY BoundsAssumption
    <3>2. SecretKey[c] \in STRING /\ Skew[c] \in Nat
      BY ConfigAssumption
    <3>3. d \in Seq(Int)
      BY PayloadsAreText
    <3>4. [by |-> c, mode |-> "simple", data |-> d, ts |-> <<>>,
           nonce |-> <<>>, at |-> 0, msg |-> d, sig |-> Mac(SecretKey[c], d)]
          \in Signature
      BY <3>1, <3>2, <3>3 DEF Signature, Mac
    <3>5. QED
      BY <2>3, <3>4 DEF Sha256Sign, TypeOK
  <2>4. ASSUME NEW c \in Clients, NEW d \in Payloads, Sign256(c, d)
        PROVE TypeOK'
    BY <2>4, Sign256Typed, BoundsAssumption
  <2>5. CASE UNCHANGED vars
    BY <2>5 DEF vars, TypeOK
  <2>6. QED
    BY <2>1, <2>2, <2>3, <2>4, <2>5 DEF Next

\* The type invariant holds in every reachable state.
THEOREM TypeCorrect == Spec => []TypeOK
<1>1. Init => TypeOK
  BY BoundsAssumption DEF Init, TypeOK
<1>2. QED
  BY <1>1, TypeStep, PTL DEF Spec
-----------------------------------------------------------------------------
(* The inductive invariant *)

\* Every instance that exists passed _validate_config, and every published
\* signature is what sha256_sign or sign256 of its instance computes: the
\* HMAC under that instance's key of the payload itself, or of the
\* timestamp text of the signing time, a uuid4 text and a UTF-8 payload
\* joined by colons.
SignedWellFormed ==
    /\ \A c \in constructed :
         SecretKey[c] # "" /\ KeyInterval[c] > 0 /\ MaxInputSize[c] > 0
    /\ \A s \in signed :
         /\ s.by \in constructed
         /\ s.data \in Payloads
         /\ s.sig = Mac(SecretKey[s.by], s.msg)
         /\ s.mode = "simple" => s.msg = s.data
         /\ s.mode = "secure" =>
              /\ Utf8(s.data)
              /\ s.ts = TsText(s.at)
              /\ \E n \in Nonces : s.nonce = NonceText(n)
              /\ s.msg = Canonical(s.ts, s.nonce, s.data)

IInv == TypeOK /\ SignedWellFormed

\* Every step keeps the signatures well formed: Tick touches neither
\* instances nor signatures, Construct adds an instance that passed
\* _validate_config, and the two signing actions add exactly the record
\* the invariant describes.
LEMMA WellFormedStep == IInv /\ [Next]_vars => SignedWellFormed'
<1> SUFFICES ASSUME IInv, [Next]_vars PROVE SignedWellFormed'
  OBVIOUS
<1>1. CASE Tick
  BY <1>1 DEF Tick, IInv, SignedWellFormed
<1>2. ASSUME NEW c \in Clients, Construct(c) PROVE SignedWellFormed'
  BY <1>2 DEF Construct, ValidConfig, IInv, SignedWellFormed
<1>3. ASSUME NEW c \in Clients, NEW d \in Payloads, Sha256Sign(c, d)
      PROVE SignedWellFormed'
  <2> DEFINE r == [by |-> c, mode |-> "simple", data |-> d, ts |-> <<>>,
                   nonce |-> <<>>, at |-> 0, msg |-> d,
                   sig |-> Mac(SecretKey[c], d)]
  <2>1. signed' = signed \cup {r} /\ constructed' = constructed
        /\ c \in constructed
    BY <1>3 DEF Sha256Sign
  <2>2. /\ r.by \in constructed /\ r.data \in Payloads
        /\ r.sig = Mac(SecretKey[r.by], r.msg)
        /\ r.mode = "simple" /\ r.msg = r.data
    BY <2>1
  <2>3. QED
    BY <2>1, <2>2 DEF IInv, SignedWellFormed
<1>4. ASSUME NEW c \in Clients, NEW d \in Payloads, Sign256(c, d)
      PROVE SignedWellFormed'
  <2>1. PICK n \in Nonces \ drawn :
          /\ drawn' = drawn \cup {n}
          /\ signed' = signed \cup
               {[by |-> c, mode |-> "secure", data |-> d,
                 ts |-> TsText(Clock(c)), nonce |-> NonceText(n),
                 at |-> Clock(c),
                 msg |-> Canonical(TsText(Clock(c)), NonceText(n), d),
                 sig |-> Mac(SecretKey[c],
                             Canonical(TsText(Clock(c)), NonceText(n), d))]}
    BY <1>4 DEF Sign256
  <2> DEFINE r == [by |-> c, mode |-> "secure", data |-> d,
                   ts |-> TsText(Clock(c)), nonce |-> NonceText(n),
                   at |-> Clock(c),
                   msg |-> Canonical(TsText(Clock(c)), NonceText(n), d),
                   sig |-> Mac(SecretKey[c],
                               Canonical(TsText(Clock(c)), NonceText(n), d))]
  <2>2. signed' = signed \cup {r} /\ constructed' = constructed
        /\ c \in constructed /\ Utf8(d)
    BY <1>4, <2>1 DEF Sign256
  <2>3. /\ r.by \in constructed /\ r.data \in Payloads
        /\ r.sig = Mac(SecretKey[r.by], r.msg)
        /\ r.mode = "secure" /\ r.mode # "simple"
        /\ Utf8(r.data)
        /\ r.ts = TsText(r.at)
        /\ \E m \in Nonces : r.nonce = NonceText(m)
        /\ r.msg = Canonical(r.ts, r.nonce, r.data)
    BY <2>2
  <2>4. QED
    BY <2>2, <2>3 DEF IInv, SignedWellFormed
<1>5. CASE UNCHANGED vars
  BY <1>5 DEF vars, IInv, SignedWellFormed
<1>6. QED
  BY <1>1, <1>2, <1>3, <1>4, <1>5 DEF Next

\* TypeOK /\ SignedWellFormed holds in every reachable state.
THEOREM InductiveInvariant == Spec => []IInv
<1>1. Init => IInv
  BY BoundsAssumption DEF Init, IInv, TypeOK, SignedWellFormed
<1>2. IInv /\ [Next]_vars => IInv'
  BY TypeStep, WellFormedStep DEF IInv
<1>3. QED
  BY <1>1, <1>2, PTL DEF Spec

-----------------------------------------------------------------------------
(* Honest requests inside the window verify *)

\* _verify_timestamp reads back the host time sign256 wrote.
LEMMA ParseTsText ==
    ASSUME NEW t \in Nat
    PROVE  ParseTs(TsText(t)) = t
BY DEF ParseTs, TsText, StampToken, Colon, OffsetToken

\* An instance that exists never holds the empty key, so no signature it
\* publishes is one of the two hash headers no HMAC yields.
LEMMA SignatureNotJunk ==
    ASSUME IInv, NEW s \in signed
    PROVE  /\ SecretKey[s.by] # ""
           /\ s.sig # JunkHash
           /\ s.sig # NonAsciiHash
<1>1. s.by \in constructed /\ s.sig = Mac(SecretKey[s.by], s.msg)
  BY DEF IInv, SignedWellFormed
<1>2. SecretKey[s.by] # ""
  BY <1>1 DEF IInv, SignedWellFormed
<1>3. s.sig.key = SecretKey[s.by] /\ JunkHash.key = "" /\ NonAsciiHash.key = ""
  BY <1>1 DEF Mac, JunkHash, NonAsciiHash
<1>4. QED
  BY <1>2, <1>3

\* In every state the invariant allows, the triple sign256 returned is
\* accepted by any instance with the same key whose size limit admits the
\* data and whose clock is within key_interval of the signing time.
LEMMA NoFalseRejectHolds == IInv => NoFalseReject
<1> SUFFICES ASSUME IInv, NEW c \in constructed, NEW s \in Secure,
                    SecretKey[s.by] = SecretKey[c],
                    Len(s.data) <= MaxInputSize[c],
                    InWindow(c, s.at)
             PROVE  Verify256(c, s.data, s.sig, s.ts, s.nonce).result = "True"
  BY DEF NoFalseReject
<1>1. s \in signed /\ s.mode = "secure" /\ s \in Signature
  BY DEF Secure, IInv, TypeOK
<1>2. /\ Utf8(s.data)
      /\ s.ts = TsText(s.at)
      /\ s.msg = Canonical(s.ts, s.nonce, s.data)
      /\ s.sig = Mac(SecretKey[s.by], s.msg)
  BY <1>1 DEF IInv, SignedWellFormed
<1>3. s.at \in Nat
  BY <1>1 DEF Signature
<1>4. VerifyTimestamp(c, s.ts)
  <2>1. ParseTs(s.ts) = s.at
    BY <1>2, <1>3, ParseTsText
  <2>2. now \in Int /\ Skew[c] \in Nat /\ KeyInterval[c] \in Int
    BY ConfigAssumption, BoundsAssumption DEF IInv, TypeOK
  <2>3. QED
    BY <2>1, <2>2, <1>3 DEF VerifyTimestamp, TsWithin, NoTime, AbsDiff, InWindow, Clock
<1>5. s.sig # NonAsciiHash
  BY <1>1, SignatureNotJunk
<1>6. Mac(SecretKey[c], Canonical(s.ts, s.nonce, s.data)) = s.sig
  BY <1>2
<1>7. CheckInputSize(c, s.data)
  BY DEF CheckInputSize
<1>8. QED
  BY <1>2, <1>4, <1>5, <1>6, <1>7 DEF Verify256

\* NoFalseReject holds in every reachable state.
THEOREM NoFalseRejectInvariant == Spec => []NoFalseReject
BY InductiveInvariant, NoFalseRejectHolds, PTL
-----------------------------------------------------------------------------
(* Accepted requests were signed inside the window *)

\* A stretch of a text between two of its positions is a text.
LEMMA SubSeqText ==
    ASSUME NEW m \in Seq(Int), NEW a \in Int, NEW b \in Int,
           a >= 1, b <= Len(m)
    PROVE  SubSeq(m, a, b) \in Seq(Int)
<1>1. \A k \in a .. b : m[k] \in Int
  BY ElementOfSeq
<1>2. QED
  BY <1>1, SubSeqProperties

\* The canonical message begins with the first symbol of its timestamp.
LEMMA CanonicalHead ==
    ASSUME NEW ts \in Seq(Int), NEW nonce \in Seq(Int), NEW data \in Seq(Int),
           Len(ts) >= 1
    PROVE  /\ Canonical(ts, nonce, data) \in Seq(Int)
           /\ Len(Canonical(ts, nonce, data)) >= 1
           /\ Canonical(ts, nonce, data)[1] = ts[1]
<1>1. <<Colon>> \in Seq(Int)
  BY DEF Colon
<1>2. /\ ts \o <<Colon>> \in Seq(Int)
      /\ Len(ts \o <<Colon>>) >= 1
      /\ (ts \o <<Colon>>)[1] = ts[1]
  BY <1>1, ConcatProperties
<1> DEFINE a == ts \o <<Colon>>
<1>3. /\ a \o nonce \in Seq(Int)
      /\ Len(a \o nonce) >= 1
      /\ (a \o nonce)[1] = ts[1]
  BY <1>2, ConcatProperties
<1> DEFINE b == a \o nonce
<1>4. /\ b \o <<Colon>> \in Seq(Int)
      /\ Len(b \o <<Colon>>) >= 1
      /\ (b \o <<Colon>>)[1] = ts[1]
  BY <1>1, <1>3, ConcatProperties
<1> DEFINE e == b \o <<Colon>>
<1>5. /\ e \o data \in Seq(Int)
      /\ Len(e \o data) >= 1
      /\ (e \o data)[1] = ts[1]
  BY <1>4, ConcatProperties
<1>6. QED
  BY <1>5 DEF Canonical

\* Signed records carry texts.
LEMMA SignedTexts ==
    ASSUME IInv, NEW s \in signed
    PROVE  /\ s.ts \in Seq(Int) /\ s.nonce \in Seq(Int) /\ s.msg \in Seq(Int)
           /\ s.data \in Seq(Int) /\ s.at \in Nat
           /\ s.mode \in {"simple", "secure"}
<1>1. s \in Signature
  BY DEF IInv, TypeOK
<1>2. s.data \in Payloads
  BY DEF IInv, SignedWellFormed
<1>3. QED
  BY <1>1, <1>2, PayloadsAreText DEF Signature

\* Every input a caller can assemble is made of texts and a hash header
\* that was published or is one of the two junk headers.
LEMMA VerifyInputsTyped ==
    ASSUME IInv, NEW i \in VerifyInputs
    PROVE  /\ i.ts \in Seq(Int) /\ i.nonce \in Seq(Int) /\ i.data \in Seq(Int)
           /\ i.hash \in HashInputs
<1>1. CASE i \in [data : Payloads, ts : {s.ts : s \in Secure} \cup {NotADate},
                  nonce : {s.nonce : s \in Secure} \cup {<<>>}, hash : HashInputs]
  <2>1. i.data \in Seq(Int)
    BY <1>1, PayloadsAreText
  <2>2. i.ts \in Seq(Int)
    <3>1. i.ts \in {s.ts : s \in Secure} \cup {NotADate}
      BY <1>1
    <3>2. NotADate \in Seq(Int)
      BY DEF NotADate
    <3>3. ASSUME NEW s \in Secure PROVE s.ts \in Seq(Int)
      BY SignedTexts DEF Secure
    <3>4. QED
      BY <3>1, <3>2, <3>3
  <2>3. i.nonce \in Seq(Int)
    <3>1. i.nonce \in {s.nonce : s \in Secure} \cup {<<>>}
      BY <1>1
    <3>2. ASSUME NEW s \in Secure PROVE s.nonce \in Seq(Int)
      BY SignedTexts DEF Secure
    <3>3. QED
      BY <3>1, <3>2, EmptySeq
  <2>4. QED
    BY <1>1, <2>1, <2>2, <2>3
<1>2. CASE i \in UNION {{[data |-> p.data, ts |-> p.ts, nonce |-> p.nonce,
                         hash |-> s.sig] : p \in Splits(s.msg)} : s \in Secure}
  <2>0. PICK s \in Secure :
            \E p \in Splits(s.msg) :
               i = [data |-> p.data, ts |-> p.ts, nonce |-> p.nonce, hash |-> s.sig]
    BY <1>2
  <2>1. PICK p \in Splits(s.msg) :
            i = [data |-> p.data, ts |-> p.ts, nonce |-> p.nonce, hash |-> s.sig]
    BY <2>0
  <2>2. s \in signed /\ s.msg \in Seq(Int)
    BY SignedTexts DEF Secure
  <2>3. PICK q \in ColonsAt(s.msg) \X ColonsAt(s.msg) :
            /\ q[1] < q[2]
            /\ p = [ts |-> SubSeq(s.msg, 1, q[1] - 1),
                    nonce |-> SubSeq(s.msg, q[1] + 1, q[2] - 1),
                    data |-> SubSeq(s.msg, q[2] + 1, Len(s.msg))]
    BY DEF Splits
  <2>4. q[1] \in 1 .. Len(s.msg) /\ q[2] \in 1 .. Len(s.msg)
    BY <2>3 DEF ColonsAt
  <2>5. /\ SubSeq(s.msg, 1, q[1] - 1) \in Seq(Int)
        /\ SubSeq(s.msg, q[1] + 1, q[2] - 1) \in Seq(Int)
        /\ SubSeq(s.msg, q[2] + 1, Len(s.msg)) \in Seq(Int)
    <3>1. Len(s.msg) \in Nat
      BY <2>2, LenProperties
    <3>2. SubSeq(s.msg, 1, q[1] - 1) \in Seq(Int)
      BY <2>2, <2>4, <3>1, SubSeqText
    <3>3. SubSeq(s.msg, q[1] + 1, q[2] - 1) \in Seq(Int)
      BY <2>2, <2>4, <3>1, SubSeqText
    <3>4. SubSeq(s.msg, q[2] + 1, Len(s.msg)) \in Seq(Int)
      BY <2>2, <2>4, <3>1, SubSeqText
    <3>5. QED
      BY <3>2, <3>3, <3>4
  <2>6. QED
    BY <2>1, <2>2, <2>3, <2>5 DEF HashInputs
<1>3. QED
  BY <1>1, <1>2 DEF VerifyInputs

\* What a True answer of verify256 tells: the timestamp check passed and the
\* HMAC of the rebuilt message under the verifier's key is the hash header.
LEMMA VerifyTrue ==
    ASSUME NEW c \in Clients, NEW d, NEW h, NEW ts, NEW n,
           Verify256(c, d, h, ts, n).result = "True"
    PROVE  /\ VerifyTimestamp(c, ts)
           /\ Mac(SecretKey[c], Canonical(ts, n, d)) = h
BY DEF Verify256

\* In every state the invariant allows, a verify256 call that answers True
\* was given a re-reading of a message that an instance with the same key
\* signed at a time within the verifier's window.  The timestamp header
\* must parse, so it begins with a date token; the message it is rebuilt
\* into begins with that token, which no payload byte equals, so the
\* signed message is a secure-mode one and its date token is the signing
\* time.
LEMMA AcceptedIsFreshHolds == IInv => AcceptedIsFresh
<1> SUFFICES ASSUME IInv, NEW c \in constructed, NEW i \in VerifyInputs,
                    Verify256(c, i.data, i.hash, i.ts, i.nonce).result = "True"
             PROVE  \E s \in Secure :
                      /\ SecretKey[s.by] = SecretKey[c]
                      /\ s.msg = Canonical(i.ts, i.nonce, i.data)
                      /\ InWindow(c, s.at)
  BY DEF AcceptedIsFresh
<1> DEFINE M == Canonical(i.ts, i.nonce, i.data)
<1>1. /\ i.ts \in Seq(Int) /\ i.nonce \in Seq(Int) /\ i.data \in Seq(Int)
      /\ i.hash \in HashInputs
  BY VerifyInputsTyped
<1>2. c \in Clients /\ SecretKey[c] # ""
  BY DEF IInv, TypeOK, SignedWellFormed
<1>3. VerifyTimestamp(c, i.ts) /\ Mac(SecretKey[c], M) = i.hash
  BY <1>2, VerifyTrue
<1>4. PICK s \in signed : s.sig = i.hash
  <2>1. i.hash # JunkHash /\ i.hash # NonAsciiHash
    <3>1. i.hash.key = SecretKey[c]
      BY <1>3 DEF Mac
    <3>2. JunkHash.key = "" /\ NonAsciiHash.key = ""
      BY DEF JunkHash, NonAsciiHash, Mac
    <3>3. QED
      BY <1>2, <3>1, <3>2
  <2>2. QED
    BY <1>1, <2>1 DEF HashInputs
<1>5. SecretKey[s.by] = SecretKey[c] /\ s.msg = M
  <2>1. s.sig = Mac(SecretKey[s.by], s.msg)
    BY DEF IInv, SignedWellFormed
  <2>2. QED
    BY <2>1, <1>3, <1>4 DEF Mac
<1>6. /\ Len(i.ts) \in {1, 3}
      /\ i.ts[1] >= 256
      /\ AbsDiff(Clock(c), i.ts[1] - 256) <= KeyInterval[c]
  BY <1>3 DEF VerifyTimestamp, TsWithin, ParseTs, NoTime
<1>7. /\ Len(M) >= 1 /\ M[1] = i.ts[1]
  <2>1. Len(i.ts) >= 1
    BY <1>6
  <2>2. QED
    BY <1>1, <2>1, CanonicalHead
<1>8. /\ s.ts \in Seq(Int) /\ s.nonce \in Seq(Int) /\ s.msg \in Seq(Int)
      /\ s.data \in Seq(Int) /\ s.at \in Nat
      /\ s.mode \in {"simple", "secure"}
  BY SignedTexts
<1>9. s.mode = "secure"
  <2>1. SUFFICES ASSUME s.mode = "simple" PROVE FALSE
    BY <1>8
  <2>2. s.msg = s.data /\ s.data \in Payloads
    BY <2>1 DEF IInv, SignedWellFormed
  <2>3. s.msg \in Seq(0 .. 255) /\ 1 \in 1 .. Len(s.msg)
    BY <1>5, <1>7, <2>2, BoundsAssumption
  <2>4. s.msg[1] \in 0 .. 255
    BY <2>3, ElementOfSeq
  <2>5. s.msg[1] = i.ts[1]
    BY <1>5, <1>7
  <2>6. QED
    BY <1>6, <2>4, <2>5
<1>10. s.msg[1] = 256 + s.at
  <2>1. s.msg = Canonical(TsText(s.at), s.nonce, s.data)
    BY <1>9 DEF IInv, SignedWellFormed
  <2>2. TsText(s.at) \in Seq(Int) /\ Len(TsText(s.at)) >= 1
        /\ TsText(s.at)[1] = 256 + s.at
    BY <1>8 DEF TsText, StampToken, Colon, OffsetToken
  <2>3. Canonical(TsText(s.at), s.nonce, s.data)[1] = TsText(s.at)[1]
    BY <1>8, <2>2, CanonicalHead
  <2>4. QED
    BY <2>1, <2>2, <2>3, Zenon
<1>11. InWindow(c, s.at)
  <2>1. i.ts[1] - 256 = s.at
    BY <1>5, <1>7, <1>8, <1>10, <1>1, <1>6
  <2>2. now \in Int /\ Skew[c] \in Nat /\ KeyInterval[c] \in Int
    <3>1. now \in Int
      BY BoundsAssumption DEF IInv, TypeOK
    <3>2. c \in Clients
      BY <1>2
    <3>3. QED
      BY <3>1, <3>2, ConfigAssumption
  <2>3. QED
    BY <1>6, <1>8, <2>1, <2>2 DEF AbsDiff, InWindow, Clock
<1>12. s \in Secure
  BY <1>9 DEF Secure
<1>13. QED
  BY <1>5, <1>11, <1>12

\* AcceptedIsFresh holds in every reachable state.
THEOREM AcceptedIsFreshInvariant == Spec => []AcceptedIsFresh
BY InductiveInvariant, AcceptedIsFreshHolds, PTL
-----------------------------------------------------------------------------
(* Simple mode accepts only signed data *)

\* In every state the invariant allows, a True answer of sha256_verify
\* means some instance with the same key signed exactly the data given:
\* the two hash headers that are no HMAC of a constructed instance are
\* rejected, and an HMAC equals only itself.
LEMMA SimpleAcceptedIsSignedHolds == IInv => SimpleAcceptedIsSigned
<1> SUFFICES ASSUME IInv, NEW c \in constructed, NEW i \in SimpleVerifyInputs,
                    Sha256Verify(c, i.data, i.hash).result = "True"
             PROVE  \E s \in signed : SecretKey[s.by] = SecretKey[c] /\ s.msg = i.data
  BY DEF SimpleAcceptedIsSigned
<1>1. Mac(SecretKey[c], i.data) = i.hash
  BY DEF Sha256Verify
<1>2. SecretKey[c] # ""
  BY DEF IInv, SignedWellFormed
<1>3. i.hash \in {s.sig : s \in signed} \cup {JunkHash, NonAsciiHash}
  BY DEF SimpleVerifyInputs, HashInputs
<1>4. i.hash # JunkHash /\ i.hash # NonAsciiHash
  <2>1. i.hash.key = SecretKey[c]
    BY <1>1 DEF Mac
  <2>2. JunkHash.key = "" /\ NonAsciiHash.key = ""
    BY DEF Mac, JunkHash, NonAsciiHash
  <2>3. QED
    BY <1>2, <2>1, <2>2
<1>5. PICK s \in signed : i.hash = s.sig
  BY <1>3, <1>4
<1>6. s.sig = Mac(SecretKey[s.by], s.msg)
  BY DEF IInv, SignedWellFormed
<1>7. QED
  BY <1>1, <1>5, <1>6 DEF Mac

\* For every value of the constants, a sha256_verify call that returns
\* True on any published hash, junk header or whole secure-mode message
\* was given data that an instance holding the same key signed as exactly
\* that data.
THEOREM SimpleAcceptedIsSignedInvariant == Spec => []SimpleAcceptedIsSigned
BY InductiveInvariant, SimpleAcceptedIsSignedHolds, PTL
=============================================================================
