CONSTANTS
    c0 = c0
    t1 = t1
    t2 = t2
    h = h
    NoArg = NoArg
    NoDict = NoDict
    Absent = Absent
    Clients <- MCClients
    SecretKey <- MCSecretKey
    KeyInterval <- MCKeyInterval
    MaxInputSize <- MCMaxInputSize
    Skew <- MCSkew
    Payloads <- MCPayloads
    MaxTime = 1
    Nonces = {1, 2, 3}
    MaxSigned = 3
    Threads = {t1, t2}
    Client = c0
    SharedDicts = {h}
    Calls <- CallsPrivate
SPECIFICATION RSpec
CHECK_DEADLOCK FALSE
INVARIANTS SentAuthentic ContentTypeMatchesBody
PROPERTIES ChannelRefined SendsFreshNonce
