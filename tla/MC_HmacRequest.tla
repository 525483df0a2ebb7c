---------------------------- MODULE MC_HmacRequest ----------------------------
(* HmacRequest on small instances: one client, two threads, one dict that *)
(* callers share, and the calls each run makes.                           *)
EXTENDS HmacRequest, TLC

CONSTANTS c0, t1, t2, h

MCClients == {c0}
MCSecretKey == [c \in MCClients |-> "k1"]
MCKeyInterval == [c \in MCClients |-> 1]
MCMaxInputSize == [c \in MCClients |-> 8]
MCSkew == [c \in MCClients |-> 0]
MCPayloads == {<<>>}

Raw == <<120>>   \* b"x"
Key == 97        \* {"a":1}

Mk(v, j, d, hd, to) == [verb |-> v, json |-> j, data |-> d, hdr |-> hd, timeout |-> to]

\* every verb with the arguments it signs, each thread with its own dict
CallsPrivate ==
    {Mk("POST", Key, NoArg, NoDict, TRUE), Mk("PUT", NoArg, Raw, NoDict, FALSE),
     Mk("GET", NoArg, NoArg, NoDict, TRUE), Mk("DELETE", NoArg, Raw, NoDict, TRUE)}

\* raw-data posts of two bodies through the dict both threads hold
CallsShared == {Mk("POST", NoArg, Raw, h, TRUE), Mk("POST", NoArg, <<121>>, h, TRUE)}

\* get with a JSON body
CallsGetJson == {Mk("GET", Key, NoArg, NoDict, TRUE)}

\* one caller reusing a dict for a JSON post and then a raw-data post
CallsReuse == {Mk("POST", Key, NoArg, h, TRUE), Mk("POST", NoArg, Raw, h, TRUE)}

\* calls that rely on the client's configured timeout
CallsNoTimeout == {Mk("POST", NoArg, Raw, NoDict, FALSE)}
=============================================================================
