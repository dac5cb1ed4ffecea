------------------------------- MODULE MCVault ------------------------------
(***************************************************************************)
(* Small instances of Vault.                                               *)
(***************************************************************************)
EXTENDS Vault, TLC

CONSTANTS tA, tB, cA, cA2, cB, k1, k2

Call(path, secret, tenant, platform) ==
    [path |-> path, secret |-> secret, tenant |-> tenant, platform |-> platform,
     ttl |-> None, clock |-> "wall"]
Creds(c, k) == [consumer |-> c, token |-> k]

\* Tenant tA is onboarded, and later onboarded anew with another integration.
TwoIntegrations == {<<tA, Creds(cA, k1)>>, <<tA, Creds(cA2, k1)>>,
                    <<tB, Creds(cB, k1)>>}

\* The write agent's /sign and n8n's /vend, under two names of the platform, the bus and
\* library users, one with a ttl and one with a clock of its own; a wrong secret, a
\* tenant that is not permitted, an empty body, and a platform nobody supports.
MixedRequests ==
    {Call("sign", "good", tA, "netsuite"), Call("sign", "good", tA, "sap"),
     Call("vend", "good", tA, "ns"), Call("sign", "bad", tA, "netsuite"),
     Call("sign", "good", tB, "netsuite"), Call("vend", "good", None, "netsuite"),
     Call("bus", "none", tB, "netsuite"), Call("library", "none", tA, "netsuite"),
     [Call("library", "none", tA, "netsuite") EXCEPT !.ttl = 1],
     [Call("library", "none", tA, "netsuite") EXCEPT !.clock = "own"]}

Processes == Permutations(Caller) \cup Permutations(Operator)
=============================================================================
