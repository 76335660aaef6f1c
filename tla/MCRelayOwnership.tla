-------------------------- MODULE MCRelayOwnership --------------------------
(* Instances of RelayOwnership for TLC.                                    *)
EXTENDS RelayOwnership, TLC

CONSTANTS d1, d2, d3, a1, a2, a3

\* One connection for every device, or a second one for d1.
OneEach == [d \in Devices |-> 1]
OneReconnects == [d \in Devices |-> IF d = d1 THEN 2 ELSE 1]

\* Every device is entitled to every pair: contention.
Everyone == Devices \X Keys

\* Every device has an address of its own: a room filling up.
EachItsOwn == {<<d, k>> \in Everyone : <<d, AddressOf(k)>> \in {<<d1, a1>>, <<d2, a2>>, <<d3, a3>>}}

\* No action or property tells one handler from another.
OpSymmetry == Permutations(Ops)
=============================================================================
