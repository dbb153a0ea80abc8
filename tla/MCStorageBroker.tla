--------------------------- MODULE MCStorageBroker ---------------------------
(***************************************************************************)
(* Instances of StorageBroker for TLC: one Space, an owner that configures *)
(* and a member that uploads.  The member is not in the second             *)
(* configuration.                                                          *)
(***************************************************************************)
EXTENDS StorageBroker, TLC

CONSTANTS s1, o1, w1, w2, owner, member, r1, r2, r3, r4, r5, r6, r7, r8, FirstExpiry,
          LastExpiry

Symmetric == Permutations(Workers)

HomeOf == [o \in Objects |-> s1]

RolesAt == [d \in Devices |-> [h \in Heads |->
              IF d = owner THEN {"read", "post", "manage"}
              ELSE IF h = 1 THEN {"read", "post"} ELSE {}]]

Signed(op, d, h, n, e, x) ==
    [op |-> op, space |-> s1, object |-> o1, device |-> d, head |-> h, nonce |-> n,
     expires |-> e, expected |-> x, hours |-> 2]

SignedBodies == [r \in Requests |->
    CASE r = r1 -> Signed("configure", owner, 1, 1, FirstExpiry, 0)
      [] r = r2 -> Signed("reserve", member, 1, 1, FirstExpiry, 0)
      [] r = r3 -> Signed("complete", member, 1, 2, LastExpiry, 0)
      [] r = r4 -> Signed("download", member, 1, 3, LastExpiry, 0)
      [] r = r5 -> Signed("cancel", owner, 2, 2, LastExpiry, 0)
      [] r = r6 -> Signed("disable", owner, 1, 3, LastExpiry, 1)
      [] r = r7 -> Signed("policy", owner, 2, 4, LastExpiry, 1)
      [] r = r8 -> Signed("status", member, 1, 4, LastExpiry, 0)]
=============================================================================
