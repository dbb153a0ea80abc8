---------------------------- MODULE MCCallEngine ----------------------------
(***************************************************************************)
(* Instances of CallEngine for TLC.  The first conversation has a history  *)
(* g1, g2; g2 proves the recovery r1.  f2 is another history after g1, and *)
(* x3 continues g2 without its recovery.  The second conversation has the  *)
(* history h1, h2 and nothing beside it.                                   *)
(***************************************************************************)
EXTENDS CallEngine

CONSTANTS s1, s2, g1, g2, f2, x3, h1, h2, r1, m1, m2, m3, m4, m5, m6,
          FirstExpiry, LastExpiry

History == [c \in Configs |->
              CASE c = g1 -> {g1}
                [] c = g2 -> {g1, g2}
                [] c = f2 -> {g1, f2}
                [] c = x3 -> {g1, g2, x3}
                [] c = h1 -> {h1}
                [] c = h2 -> {h1, h2}]

Recovered == [c \in Configs |-> IF c = g2 THEN {r1} ELSE {}]

LastRecovery == [c \in Configs |-> IF c = g2 THEN r1 ELSE None]

Body(s, c, k, e) == [scope |-> s, config |-> c, key |-> k, expires |-> e]

\* m1 and m2 share a nonce.
Bodies == [c \in Commands |->
             CASE c = m1 -> Body(s1, g1, 1, FirstExpiry)
               [] c = m2 -> Body(s1, g2, 1, LastExpiry)
               [] c = m3 -> Body(s1, f2, 3, LastExpiry)
               [] c = m4 -> Body(s1, x3, 4, LastExpiry)
               [] c = m5 -> Body(s2, h1, 5, LastExpiry)
               [] c = m6 -> Body(s2, h2, 6, LastExpiry)]
=============================================================================
