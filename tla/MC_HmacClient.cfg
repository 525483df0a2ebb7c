\* The signing core on the small instance: honest callers; every signed
\* header replayed, mixed and cut at every colon.  The library has no final
\* state (a caller may stop calling at any point), so the states where the
\* bounds MaxTime and MaxSigned are used up are not deadlocks.
CONSTANTS
    a = a
    b = b
    w = w
    x = x
    Clients <- MCClients
    SecretKey <- MCSecretKey
    KeyInterval <- MCKeyInterval
    MaxInputSize <- MCMaxInputSize
    Skew <- MCSkew
    Payloads <- MCPayloads
    MaxTime = 3
    Nonces = {1, 2, 3}
    MaxSigned = 3
SPECIFICATION Spec
CHECK_DEADLOCK FALSE
INVARIANTS
    AcceptedIsFresh
    NoFalseReject
    SimpleAcceptedIsSigned
