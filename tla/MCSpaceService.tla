--------------------------- MODULE MCSpaceService ---------------------------
(***************************************************************************)
(* Instances of SpaceService for TLC.  Pat created the Space; Mia and Ned  *)
(* ask to come in, Pat and Mia link a second device.  A behaviour follows  *)
(* one plan, which says whose devices take part:                           *)
(*   "links"   Mia's two devices,                                          *)
(*   "host"    Pat's two devices and one of Mia's, while other Spaces of   *)
(*             the host retire devices too,                                *)
(*   "offers"  one device of Mia's and a second invitation,                *)
(*   "owners"  one device each of Pat, Mia and Ned.                        *)
(***************************************************************************)
EXTENDS SpaceService

CONSTANTS pat, mia, ned, p1, p2, m1, m2, n1, door, gate,
          SpacePlans

VARIABLE spacePlan

Holders == [d \in SpaceDevices |-> CASE d \in {p1, p2} -> pat
                                     [] d \in {m1, m2} -> mia
                                     [] OTHER -> ned]

Links == [d \in SpaceDevices |-> CASE d = p2 -> p1
                                   [] d = m2 -> m1
                                   [] OTHER -> NoDevice]

OtherSpaces == {<<p2, p1>>, <<p2, NoDevice>>, <<p1, p2>>}

Joining == CASE spacePlan = "links"  -> {p1, m1, m2}
             [] spacePlan = "host"   -> {p1, p2}
             [] spacePlan = "offers" -> {p1, m1}
             [] OTHER                -> {p1, m1, n1}

Twice(act) == \E i, j \in DOMAIN journal : i < j /\ journal[i].act = act /\ journal[j].act = act

InPlay ==
    /\ DOMAIN applicants \subseteq Joining
    /\ \A d \in DOMAIN drafts : drafts[d].devices \subseteq Joining
    /\ spacePlan = "offers" => Top < MaxHeads /\ Len(journal) < JournalLimit
    /\ IF spacePlan = "host" THEN ~offers[door].asks ELSE DOMAIN tombs \subseteq revoked
    /\ spacePlan # "offers" => ~offers[door].expired /\ ~Twice("revoke")
    /\ spacePlan # "offers" => DOMAIN offers = {door}

MCSpaceInit == SpaceInit /\ spacePlan \in SpacePlans

MCSpaceNext == SpaceNext /\ UNCHANGED spacePlan /\ InPlay'

MCSpaceSpec == MCSpaceInit /\ [][MCSpaceNext]_<<spaceVars, spacePlan>>
=============================================================================
