----------------------------- MODULE HmacClient -----------------------------
(***************************************************************************)
(* The signing core of hmac_client/client.py: construction and config      *)
(* validation, the size guard, simple mode (sha256_sign / sha256_verify)   *)
(* and secure mode (sign256 / verify256 / _verify_timestamp), run by       *)
(* several HMACClient instances that may share a secret key, on hosts      *)
(* whose wall clocks differ by a fixed skew.                               *)
(*                                                                         *)
(* Everything a client signs is sent in request headers, so every          *)
(* signature is public: the inputs a verifier is called with are drawn     *)
(* from what was signed (replayed, mixed, or cut at other colons of the    *)
(* signed message) and from a few inputs nobody signed.                    *)
(*                                                                         *)
(* Text is a sequence of symbols.  Payload bytes are 0..255; a whole run   *)
(* of characters that contains no colon a splitter could use is one token *)
(* outside 0..255: StampToken(t) for "YYYY-MM-DDTHH:MM:SS.ffffff+00" and   *)
(* NonceToken(n) for a UUID text.  The internal colons of HH:MM:SS are     *)
(* inside the token because every prefix ending at one of them parses as   *)
(* a naive datetime, which _verify_timestamp rejects (aware minus naive    *)
(* raises TypeError).  The colon of the "+00:00" offset is kept: Python    *)
(* 3.11 parses the prefix "...+00" as the same aware instant.              *)
(* HMAC is ideal: Mac(k, m) is equal only to Mac(k, m).                    *)
(*                                                                         *)
(* The verify methods change no state: they are operators returning the   *)
(* result and whether the HMAC was computed, and the properties quantify   *)
(* over every input a caller can assemble in the current state.            *)
(***************************************************************************)
EXTENDS Integers, Sequences, FiniteSets

CONSTANTS
    Clients,        \* HMACClient instances
    SecretKey,      \* SecretKey[c]: the secret_key argument of instance c
    KeyInterval,    \* KeyInterval[c]: config['key_interval'], in clock ticks
    MaxInputSize,   \* MaxInputSize[c]: config['max_input_size'], in bytes
    Skew,           \* Skew[c]: offset of c's host wall clock
    MaxTime,        \* bound on the global time
    Nonces,         \* identifiers of the UUIDs uuid4() may return
    Payloads,       \* byte strings callers pass as data
    MaxSigned       \* bound on the number of signatures produced

ASSUME ConfigAssumption ==
    /\ SecretKey \in [Clients -> STRING]
    /\ KeyInterval \in [Clients -> Int]
    /\ MaxInputSize \in [Clients -> Int]
    /\ Skew \in [Clients -> Nat]

ASSUME BoundsAssumption ==
    /\ MaxTime \in Nat
    /\ Nonces \subseteq Nat \ {0}
    /\ Payloads \subseteq Seq(0..255)
    /\ MaxSigned \in Nat

VARIABLES
    now,          \* global time; host c reads now + Skew[c]
    constructed,  \* instances whose __init__ returned
    drawn,        \* nonces uuid4() has returned so far
    signed        \* every signature produced (all of them are public)

vars == <<now, constructed, drawn, signed>>

-----------------------------------------------------------------------------
(* Text and its conversions *)

Colon == 58
InvalidByte == 255    \* a byte that never occurs in UTF-8
OffsetToken == 48     \* the "00" after the last colon of "+00:00"
StampToken(t) == 256 + t
NonceToken(n) == -n
NotADate == <<110>>   \* a timestamp header that is not a date

\* datetime.now(timezone.utc).isoformat() at host time t
TsText(t) == <<StampToken(t), Colon, OffsetToken>>

\* str(uuid.uuid4())
NonceText(n) == <<NonceToken(n)>>

\* data.decode('utf-8') succeeds
Utf8(d) == \A i \in 1 .. Len(d) : d[i] # InvalidByte

\* f"{timestamp}:{nonce}:{data.decode('utf-8')}".encode('utf-8')
Canonical(ts, nonce, data) == ts \o <<Colon>> \o nonce \o <<Colon>> \o data

NoTime == -1

\* datetime.fromisoformat(timestamp.replace('Z', '+00:00')) when it yields an
\* aware datetime, as a host time; NoTime when it raises or yields a naive one
ParseTs(s) ==
    IF /\ Len(s) \in {1, 3}
       /\ s[1] >= 256
       /\ Len(s) = 3 => (s[2] = Colon /\ s[3] = OffsetToken)
    THEN s[1] - 256
    ELSE NoTime

Mac(k, m) == [key |-> k, msg |-> m]

\* hash headers no HMAC yields: "invalid" (ASCII) and one with a non-ASCII
\* character, on which hmac.compare_digest raises TypeError
JunkHash == Mac("", <<>>)
NonAsciiHash == Mac("", <<InvalidByte>>)

AbsDiff(x, y) == IF x >= y THEN x - y ELSE y - x

Clock(c) == now + Skew[c]

-----------------------------------------------------------------------------
(* The checks of the client *)

\* _validate_config
ValidConfig(c) ==
    /\ SecretKey[c] # ""
    /\ KeyInterval[c] > 0
    /\ MaxInputSize[c] > 0

\* _check_input_size does not raise
CheckInputSize(c, d) == Len(d) <= MaxInputSize[c]

\* mutant: the window boundary excluded (diff < key_interval)
TsWithinStrict(c, ts, at) ==
    /\ ParseTs(ts) # NoTime
    /\ AbsDiff(at, ParseTs(ts)) < KeyInterval[c]

\* mutant: the window one tick wider (diff <= key_interval + 1)
TsWithinWide(c, ts, at) ==
    /\ ParseTs(ts) # NoTime
    /\ AbsDiff(at, ParseTs(ts)) <= KeyInterval[c] + 1

\* _verify_timestamp at host time at
TsWithin(c, ts, at) ==
    /\ ParseTs(ts) # NoTime
    /\ AbsDiff(at, ParseTs(ts)) <= KeyInterval[c]

VerifyTimestamp(c, ts) == TsWithin(c, ts, Clock(c))

-----------------------------------------------------------------------------
(* What a caller can pass: what was signed, recombined *)

ColonsAt(m) == {i \in 1 .. Len(m) : m[i] = Colon}

\* every way to read m as timestamp:nonce:data
Splits(m) ==
    {[ts |-> SubSeq(m, 1, p[1] - 1),
      nonce |-> SubSeq(m, p[1] + 1, p[2] - 1),
      data |-> SubSeq(m, p[2] + 1, Len(m))] :
        p \in {q \in ColonsAt(m) \X ColonsAt(m) : q[1] < q[2]}}

Secure == {s \in signed : s.mode = "secure"}

HashInputs == {s.sig : s \in signed} \cup {JunkHash, NonAsciiHash}

\* the headers of signed requests, replayed or mixed with any payload, and
\* every signed message cut at two of its colons
VerifyInputs ==
    [data : Payloads, ts : {s.ts : s \in Secure} \cup {NotADate},
     nonce : {s.nonce : s \in Secure} \cup {<<>>}, hash : HashInputs]
    \cup
    UNION {{[data |-> p.data, ts |-> p.ts, nonce |-> p.nonce, hash |-> s.sig] :
               p \in Splits(s.msg)} : s \in Secure}

\* payloads, and whole secure-mode messages passed as data
SimpleVerifyInputs ==
    [data : Payloads \cup {s.msg : s \in Secure}, hash : HashInputs]

-----------------------------------------------------------------------------
(* The verify methods *)

\* mutant: the except clause answers True
Sha256VerifyFailOpen(c, d, h) ==
    IF ~CheckInputSize(c, d) THEN [result |-> "InputTooLarge", hashed |-> FALSE]
    ELSE IF h = NonAsciiHash THEN [result |-> "True", hashed |-> TRUE]
    ELSE [result |-> IF Mac(SecretKey[c], d) = h THEN "True" ELSE "False",
          hashed |-> TRUE]

\* sha256_verify(d, h): size guard (raises), then sha256_sign and
\* compare_digest; the TypeError of compare_digest on a non-ASCII header is
\* caught and becomes False.  The checks run in the order of the code.
Sha256Verify(c, d, h) ==
    IF ~CheckInputSize(c, d) THEN [result |-> "InputTooLarge", hashed |-> FALSE]
    ELSE IF h = NonAsciiHash THEN [result |-> "False", hashed |-> TRUE]
    ELSE [result |-> IF Mac(SecretKey[c], d) = h THEN "True" ELSE "False",
          hashed |-> TRUE]

\* verify256(d, h, ts, n): size guard (raises), _verify_timestamp, decode of
\* the data, HMAC of the rebuilt message, compare_digest; every exception
\* after the size guard is caught and becomes False
Verify256(c, d, h, ts, n) ==
    IF ~CheckInputSize(c, d) THEN [result |-> "InputTooLarge", hashed |-> FALSE]
    ELSE IF ~VerifyTimestamp(c, ts) THEN [result |-> "False", hashed |-> FALSE]
    ELSE IF ~Utf8(d) THEN [result |-> "False", hashed |-> FALSE]
    ELSE IF h = NonAsciiHash THEN [result |-> "False", hashed |-> TRUE]
    ELSE [result |-> IF Mac(SecretKey[c], Canonical(ts, n, d)) = h
                     THEN "True" ELSE "False",
          hashed |-> TRUE]

-----------------------------------------------------------------------------
(* Operations that change state; a call that raises changes nothing *)

Init ==
    /\ now = 0
    /\ constructed = {}
    /\ drawn = {}
    /\ signed = {}

\* the wall clocks advance
Tick ==
    /\ now < MaxTime
    /\ now' = now + 1
    /\ UNCHANGED <<constructed, drawn, signed>>

\* HMACClient.__init__: _validate_config raises ConfigurationError and no
\* instance exists, or the instance is created
Construct(c) ==
    /\ c \notin constructed
    /\ ValidConfig(c)
    /\ constructed' = constructed \cup {c}
    /\ UNCHANGED <<now, drawn, signed>>

\* sha256_sign: raises InputTooLarge, or returns HMAC(key, data)
Sha256Sign(c, d) ==
    /\ c \in constructed
    /\ CheckInputSize(c, d)
    /\ Cardinality(signed) < MaxSigned
    /\ signed' = signed \cup
         {[by |-> c, mode |-> "simple", data |-> d, ts |-> <<>>,
           nonce |-> <<>>, at |-> 0, msg |-> d, sig |-> Mac(SecretKey[c], d)]}
    /\ UNCHANGED <<now, constructed, drawn>>

\* mutant: a nonce source that may repeat a nonce it returned before
Sign256ReusesNonce(c, d) ==
    /\ c \in constructed
    /\ CheckInputSize(c, d)
    /\ Utf8(d)
    /\ Cardinality(signed) < MaxSigned
    /\ \E n \in Nonces :
         LET ts == TsText(Clock(c))
             msg == Canonical(ts, NonceText(n), d)
         IN
         /\ drawn' = drawn \cup {n}
         /\ signed' = signed \cup
              {[by |-> c, mode |-> "secure", data |-> d, ts |-> ts,
                nonce |-> NonceText(n), at |-> Clock(c), msg |-> msg,
                sig |-> Mac(SecretKey[c], msg)]}
    /\ UNCHANGED <<now, constructed>>

\* sign256: raises InputTooLarge, or reads the clock, draws a uuid4 nonce,
\* raises UnicodeDecodeError on data that is not UTF-8, or returns
\* (HMAC(key, timestamp:nonce:data), timestamp, nonce)
Sign256(c, d) ==
    /\ c \in constructed
    /\ CheckInputSize(c, d)
    /\ Utf8(d)
    /\ Cardinality(signed) < MaxSigned
    /\ \E n \in Nonces \ drawn :
         LET ts == TsText(Clock(c))
             msg == Canonical(ts, NonceText(n), d)
         IN
         /\ drawn' = drawn \cup {n}
         /\ signed' = signed \cup
              {[by |-> c, mode |-> "secure", data |-> d, ts |-> ts,
                nonce |-> NonceText(n), at |-> Clock(c), msg |-> msg,
                sig |-> Mac(SecretKey[c], msg)]}
    /\ UNCHANGED <<now, constructed>>

Next ==
    \/ Tick
    \/ \E c \in Clients :
         \/ Construct(c)
         \/ \E d \in Payloads : Sha256Sign(c, d) \/ Sign256(c, d)

Spec == Init /\ [][Next]_vars

-----------------------------------------------------------------------------
(* Properties *)

\* host time x lies in the window [now - key_interval, now + key_interval]
\* of c's clock, both ends included
InWindow(c, x) ==
    Clock(c) - KeyInterval[c] <= x /\ x <= Clock(c) + KeyInterval[c]

Signature == [by : Clients, mode : {"simple", "secure"}, data : Seq(0 .. 255),
              ts : Seq(Int), nonce : Seq(Int), at : Nat, msg : Seq(Int),
              sig : [key : STRING, msg : Seq(Int)]]

TypeOK ==
    /\ now \in 0 .. MaxTime
    /\ constructed \subseteq Clients
    /\ drawn \subseteq Nonces
    /\ signed \subseteq Signature

\* A verify256 call that returns True was given a re-reading of a message
\* that sign256 of an instance holding the same secret key produced, at a
\* signer-clock time within the verifier's key_interval of the verifier's
\* clock: neither replaying stale headers, nor mixing headers of several
\* requests, nor cutting a signed message at another colon, gets a request
\* accepted outside the window.
AcceptedIsFresh ==
    \A c \in constructed, i \in VerifyInputs :
        Verify256(c, i.data, i.hash, i.ts, i.nonce).result = "True" =>
            \E s \in Secure :
                /\ SecretKey[s.by] = SecretKey[c]
                /\ s.msg = Canonical(i.ts, i.nonce, i.data)
                /\ InWindow(c, s.at)

\* verify256 returns True on the exact (hash, timestamp, nonce) that sign256
\* of an instance with the same key returned for the same data, whenever the
\* data is no longer than the verifier's max_input_size (a payload of
\* exactly that size included) and the signing time is within key_interval
\* of the verifier's clock, both ends of the window included: signer and
\* verifier build the same canonical message.
NoFalseReject ==
    \A c \in constructed, s \in Secure :
        (/\ SecretKey[s.by] = SecretKey[c]
         /\ Len(s.data) <= MaxInputSize[c]
         /\ InWindow(c, s.at))
        => Verify256(c, s.data, s.sig, s.ts, s.nonce).result = "True"

\* A sha256_verify call that returns True was given data that an instance
\* holding the same secret key signed, in either mode, as exactly that data.
SimpleAcceptedIsSigned ==
    \A c \in constructed, i \in SimpleVerifyInputs :
        Sha256Verify(c, i.data, i.hash).result = "True" =>
            \E s \in signed :
                /\ SecretKey[s.by] = SecretKey[c]
                /\ s.msg = i.data

\* What the design rationale of secure mode promises: a verify256 call that
\* returns True was given the very data, timestamp and nonce that sign256 of
\* an instance holding the same key returned.
PayloadAuthentic ==
    \A c \in constructed, i \in VerifyInputs :
        Verify256(c, i.data, i.hash, i.ts, i.nonce).result = "True" =>
            \E s \in Secure :
                /\ SecretKey[s.by] = SecretKey[c]
                /\ s.data = i.data /\ s.ts = i.ts /\ s.nonce = i.nonce
=============================================================================
