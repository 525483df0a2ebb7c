\* Secure mode against the promise of its design rationale: headers of a
\* captured request cannot be re-combined with another payload.
CONSTANTS
    a = a
    b = b
    w = w
    x = x
    Clients <- MCClients
    SecretKey <- MCSecretKey
    KeyInterval <- MCKeyInterval
    MaxInputSize <- MCMaxInputSize
    Skew <- MCSkew
    Payloads <- MCPayloads
    MaxTime = 3
    Nonces = {1, 2, 3}
    MaxSigned = 3
SPECIFICATION Spec
CHECK_DEADLOCK FALSE
INVARIANT PayloadAuthentic
