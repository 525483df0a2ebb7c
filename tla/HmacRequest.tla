----------------------------- MODULE HmacRequest -----------------------------
(***************************************************************************)
(* The request path of hmac_client/client.py: get/post/put/delete and      *)
(* _make_request, called by several caller threads on one HMACClient.      *)
(*                                                                         *)
(* A call prepares the body, signs it with sign256 (the action Sign256 of  *)
(* HmacClient, so nonces and signatures are shared with the signing core), *)
(* writes the three HMAC headers into the headers dict the caller passed   *)
(* (or a fresh one), sets Content-Type for JSON, and hands everything to   *)
(* session.request, which copies the dict when it builds the request.     *)
(* These steps touch a dict that other threads may hold too, so each is    *)
(* an action of its own; the steps that touch only the thread's locals are *)
(* merged into the step before them.                                       *)
(*                                                                         *)
(* A JSON value is a key byte j; its texts are {"j":1}, as json.dumps with *)
(* separators=(',', ':') writes it, and {"j": 1}, as requests writes it.    *)
(* A data argument is given as the bytes it encodes to.                    *)
(***************************************************************************)
EXTENDS HmacClient

CONSTANTS
    Threads,      \* caller threads
    Client,       \* the HMACClient instance they share
    SharedDicts,  \* headers dicts that callers pass in and keep
    Calls,        \* the calls callers make (see Call)
    NoArg,        \* an argument left at its default None
    NoDict,       \* no headers= keyword: kwargs.get('headers', {})
    Absent        \* a header not in the dict

JsonType == "application/json"
BodyVerbs == {"POST", "PUT"}
Verbs == BodyVerbs \cup {"GET", "DELETE"}

ASSUME RequestAssumption ==
    /\ Client \in Clients
    /\ Threads \cap SharedDicts = {}
    /\ Absent \notin Seq(Int) \cup {JsonType}  \* a missing header is no value
    /\ \A a \in Calls :
         /\ a.verb \in Verbs /\ a.timeout \in BOOLEAN
         /\ a.json = NoArg \/ a.json \in 0 .. 255
         /\ a.data = NoArg \/ a.data \in Seq(0 .. 255)
         /\ a.hdr = NoDict \/ a.hdr \in SharedDicts

VARIABLES
    pc,     \* pc[t]: where thread t is in _make_request
    call,   \* call[t]: the call thread t is making
    mine,   \* mine[t]: the (hash, timestamp, nonce) sign256 returned to t
    dict,   \* dict[d]: the headers dict d; dict[t] is t's fresh dict
    sent    \* every request session.request has put on the wire

rvars == <<pc, call, mine, dict, sent>>
allvars == <<vars, rvars>>

\* a headers dict: each HMAC header absent or a value sign256 returned
IsHeaders(h) ==
    /\ h.hash = Absent \/ h.hash \in [key : STRING, msg : Seq(Int)]
    /\ h.ts = Absent \/ h.ts \in Seq(Int)
    /\ h.nonce = Absent \/ h.nonce \in Seq(Int)
    /\ h.ctype \in {JsonType, Absent}
EmptyHeaders == [hash |-> Absent, ts |-> Absent, nonce |-> Absent, ctype |-> Absent]

CompactJson(j) == <<123, 34, j, 34, Colon, 49, 125>>
RequestsJson(j) == <<123, 34, j, 34, Colon, 32, 49, 125>>

\* post and put bind json= to json_data; get and delete have no such
\* parameter, so json= stays in **kwargs and goes to session.request
JsonData(a) == IF a.verb \in BodyVerbs THEN a.json ELSE NoArg
ForwardedJson(a) == IF a.verb \in BodyVerbs THEN NoArg ELSE a.json

\* _prepare_request_body: the JSON text, else the data bytes, else b''
PrepareBody(a) ==
    IF JsonData(a) # NoArg THEN CompactJson(JsonData(a))
    ELSE IF a.data # NoArg THEN a.data ELSE <<>>

\* the body requests sends: kwargs['data'] is set only when body is not
\* empty; without it requests encodes a forwarded json= itself
SentBody(a) ==
    IF PrepareBody(a) # <<>> THEN PrepareBody(a)
    ELSE IF ForwardedJson(a) # NoArg THEN RequestsJson(ForwardedJson(a))
    ELSE <<>>

\* requests adds Content-Type: application/json when it encodes json= and
\* the headers have none
SentCtype(a, h) ==
    IF h.ctype = Absent /\ PrepareBody(a) = <<>> /\ ForwardedJson(a) # NoArg
    THEN JsonType ELSE h.ctype

\* the dict thread t writes its headers into
DictOf(t) == IF call[t].hdr = NoDict THEN t ELSE call[t].hdr

\* requests.Session has no timeout attribute of its own: the one __init__
\* sets is never read, so only a timeout= keyword bounds a request
SessionTimeoutHonoured == FALSE

-----------------------------------------------------------------------------

RInit ==
    /\ Init
    /\ pc = [t \in Threads |-> "idle"]
    /\ call = [t \in Threads |-> NoArg]
    /\ mine = [t \in Threads |-> NoArg]
    /\ dict = [d \in Threads \cup SharedDicts |-> EmptyHeaders]
    /\ sent = {}

\* get/post/put/delete up to sign256 in _make_request: the body is
\* prepared and signed; a call whose sign256 raises changes nothing
Call(t, a) ==
    /\ pc[t] = "idle"
    /\ Sign256(Client, PrepareBody(a))
    /\ \E r \in signed' \ signed : mine' = [mine EXCEPT ![t] = r]
    /\ call' = [call EXCEPT ![t] = a]
    /\ dict' = IF a.hdr = NoDict THEN [dict EXCEPT ![t] = EmptyHeaders] ELSE dict
    /\ pc' = [pc EXCEPT ![t] = "update"]
    /\ UNCHANGED sent

\* mutant: the nonce header left out of the update
UpdateHeadersNoNonce(t) ==
    /\ pc[t] = "update"
    /\ dict' = [dict EXCEPT ![DictOf(t)] =
                  [@ EXCEPT !.hash = mine[t].sig, !.ts = mine[t].ts]]
    /\ pc' = [pc EXCEPT ![t] = IF JsonData(call[t]) # NoArg THEN "ctype" ELSE "send"]
    /\ UNCHANGED <<vars, call, mine, sent>>

\* mutant: Content-Type set whatever the body
UpdateHeadersAlwaysJson(t) ==
    /\ pc[t] = "update"
    /\ dict' = [dict EXCEPT ![DictOf(t)] =
                  [@ EXCEPT !.hash = mine[t].sig, !.ts = mine[t].ts,
                            !.nonce = mine[t].nonce]]
    /\ pc' = [pc EXCEPT ![t] = "ctype"]
    /\ UNCHANGED <<vars, call, mine, sent>>

\* headers.update({hash, timestamp, nonce}) on the caller's dict
UpdateHeaders(t) ==
    /\ pc[t] = "update"
    /\ dict' = [dict EXCEPT ![DictOf(t)] =
                  [@ EXCEPT !.hash = mine[t].sig, !.ts = mine[t].ts,
                            !.nonce = mine[t].nonce]]
    /\ pc' = [pc EXCEPT ![t] = IF JsonData(call[t]) # NoArg THEN "ctype" ELSE "send"]
    /\ UNCHANGED <<vars, call, mine, sent>>

\* headers['Content-Type'] = 'application/json' when json_data was given
SetContentType(t) ==
    /\ pc[t] = "ctype"
    /\ dict' = [dict EXCEPT ![DictOf(t)].ctype = JsonType]
    /\ pc' = [pc EXCEPT ![t] = "send"]
    /\ UNCHANGED <<vars, call, mine, sent>>

\* session.request: the request is built from the dict as it is now
SendRequest(t) ==
    /\ pc[t] = "send"
    /\ LET h == dict[DictOf(t)] IN
       sent' = sent \cup {[body |-> SentBody(call[t]), hash |-> h.hash,
                           ts |-> h.ts, nonce |-> h.nonce,
                           ctype |-> SentCtype(call[t], h)]}
    /\ pc' = [pc EXCEPT ![t] = "wait"]
    /\ UNCHANGED <<vars, call, mine, dict>>

\* mutant: a failed request retried with the headers it already sent
CompleteRetries(t) ==
    /\ pc[t] = "wait"
    /\ pc' = [pc EXCEPT ![t] = "send"]
    /\ UNCHANGED <<vars, call, mine, dict, sent>>

\* the server answers, or the connection fails (HTTPError): the call returns
Complete(t) ==
    /\ pc[t] = "wait"
    /\ pc' = [pc EXCEPT ![t] = "idle"]
    /\ call' = [call EXCEPT ![t] = NoArg]
    /\ mine' = [mine EXCEPT ![t] = NoArg]
    /\ UNCHANGED <<vars, dict, sent>>

\* requests raises Timeout (an HTTPError) when a timeout applies
TimeOut(t) ==
    /\ pc[t] = "wait"
    /\ call[t].timeout \/ SessionTimeoutHonoured
    /\ pc' = [pc EXCEPT ![t] = "idle"]
    /\ call' = [call EXCEPT ![t] = NoArg]
    /\ mine' = [mine EXCEPT ![t] = NoArg]
    /\ UNCHANGED <<vars, dict, sent>>

RNext ==
    \/ Tick /\ UNCHANGED rvars
    \/ Construct(Client) /\ UNCHANGED rvars
    \/ \E t \in Threads :
         \/ \E a \in Calls : Call(t, a)
         \/ UpdateHeaders(t)
         \/ SetContentType(t)
         \/ SendRequest(t)
         \/ Complete(t)
         \/ TimeOut(t)

\* A running thread finishes the statements of _make_request up to
\* session.request; callers need not call, the server need not answer, and
\* a timeout= keyword bounds only the gaps between bytes, not the call, so
\* nothing forces a waiting call to return.
Fairness ==
    \A t \in Threads :
        /\ WF_allvars(UpdateHeaders(t))
        /\ WF_allvars(SetContentType(t))
        /\ WF_allvars(SendRequest(t))

RSpec == RInit /\ [][RNext]_allvars /\ Fairness

-----------------------------------------------------------------------------
(* Properties *)

RTypeOK ==
    /\ pc \in [Threads -> {"idle", "update", "ctype", "send", "wait"}]
    /\ \A t \in Threads : call[t] = NoArg \/ call[t] \in Calls
    /\ DOMAIN dict = Threads \cup SharedDicts
    /\ \A d \in DOMAIN dict : IsHeaders(dict[d])
    /\ \A t \in Threads : pc[t] # "idle" => call[t] \in Calls /\ mine[t] \in signed
    /\ \A r \in sent : r.body \in Seq(0 .. 255) /\ r.ctype \in {JsonType, Absent}

\* Every request the client puts on the wire carries, in its three HMAC
\* headers, a secure-mode signature under the client's key of the very
\* body it carries: the server can verify what it receives.
SentAuthentic ==
    \A r \in sent :
        /\ r.ts # Absent /\ r.nonce # Absent
        /\ r.hash = Mac(SecretKey[Client], Canonical(r.ts, r.nonce, r.body))

\* A request goes out with Content-Type: application/json exactly when its
\* body is a JSON text: a dict a caller reuses does not carry the header of
\* an earlier JSON call over to a raw-data call.
ContentTypeMatchesBody ==
    \A r \in sent :
        (r.ctype = JsonType) <=>
            (\E j \in 0 .. 255 : r.body \in {CompactJson(j), RequestsJson(j)})

\* session.request never puts on the wire a nonce that an earlier request
\* already carried: a server that remembers nonces rejects no request the
\* client sends, whatever the interleaving of the callers.
SendsFreshNonce ==
    [][\A t \in Threads :
         (pc[t] = "send" /\ pc'[t] = "wait") =>
             dict[DictOf(t)].nonce \notin {r.nonce : r \in sent}]_allvars

Wire == {[body |-> r.body, hash |-> r.hash, ts |-> r.ts, nonce |-> r.nonce] : r \in sent}

Channel == INSTANCE SignedChannel WITH
    wire <- Wire,
    Bodies <- {SentBody(a) : a \in Calls},
    Stamps <- {TsText(x) : x \in 0 .. MaxTime + Skew[Client]},
    NonceTexts <- {NonceText(n) : n \in Nonces},
    Sign <- LAMBDA ts, n, b : Mac(SecretKey[Client], Canonical(ts, n, b))

\* The request path implements the signed channel: each send puts one
\* request on the wire, signed over its own body, with a nonce no earlier
\* request carried, so a server that remembers nonces rejects none of them.
ChannelRefined == Channel!Spec
=============================================================================
