---------------------------- MODULE MCForgeWrite ----------------------------
(***************************************************************************)
(* Small instances of ForgeWrite: two tenants on one ERP platform.         *)
(***************************************************************************)
EXTENDS ForgeWrite, TLC

CONSTANTS tA, tB, ns, r1, p1, p2, w1, w2, w3

Ask(t, verb, target, body) ==
    [tenant |-> t, platform |-> ns, operation |-> verb, target |-> target,
     payload |-> body]

\* For tA a create, an update of a record the ERP may or may not have, an update under
\* a Cavi key, used or not, and an update with an empty target; for tB a create.
MixedProposals == {Ask(tA, "create", None, p1),
                   Ask(tA, "update", <<"ext", r1>>, p2),
                   Ask(tA, "update", <<"cavi", w1>>, p2),
                   Ask(tA, "update", Empty, p2),
                   Ask(tB, "create", None, p1)}

\* Updates with and without an address.
UnaddressedProposals == {Ask(tA, "update", Empty, p1), Ask(tA, "update", None, p1),
                         Ask(tA, "update", <<"ext", r1>>, p1)}

MixedCompensations == {[operation |-> "create", payload |-> p2],
                       [operation |-> "update", payload |-> p2]}

\* Only writes the NetSuite client can address, one per tenant and kind.
GoodProposals == {Ask(tA, "create", None, p1), Ask(tB, "create", None, p1)}

\* A good create next to a write apply() always refuses.
PoisonProposals == {Ask(tA, "create", None, p1), Ask(tA, "void", None, p1)}

UpdateProposals == {Ask(tA, "update", <<"ext", r1>>, p1),
                    Ask(tA, "update", <<"ext", r1>>, p2)}

NoCompensations == {}
=============================================================================
