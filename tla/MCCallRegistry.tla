--------------------------- MODULE MCCallRegistry ---------------------------
(***************************************************************************)
(* Instances of CallRegistry for TLC.  Ann has two devices, Bob and Cas    *)
(* have one each.  The first configuration has everyone who takes part;    *)
(* the second has lost Ann's second device, and the third Bob.             *)
(***************************************************************************)
EXTENDS CallRegistry

CONSTANTS ann, bob, cas, a1, a2, b1, c1, group, direct, key1, key2,
          KeyExpiry

DeviceOwner == [d \in Devices |-> CASE d \in {a1, a2} -> ann
                                    [] d = b1 -> bob
                                    [] d = c1 -> cas]

Roster == [c \in CallConfigs |-> IF c = 3 THEN Identities \ {bob} ELSE Identities]

CallerSets == [c \in CallConfigs |->
                 {d \in Devices : /\ DeviceOwner[d] \in Roster[c]
                                  /\ c >= 2 => d # a2}]

\* key1 stands in for Bob's device, key2 for Ann's first one.
KeyBodies == [v \in Delegations |->
                [device |-> IF v = key1 THEN b1 ELSE a1,
                 scope |-> CHOOSE s \in CallScopes : s = direct \/ direct \notin CallScopes,
                 config |-> 1,
                 expires |-> KeyExpiry]]

\* One group conversation.  Its configuration may change while a signal waits, and the
\* call that follows is at the time of the change.
GroupNext ==
    /\ CallsNext
    /\ head' # head => signals # {}
    /\ clock' # clock => head[group] = 1

GroupSpec == CallsInit /\ [][GroupNext]_callVars
=============================================================================
