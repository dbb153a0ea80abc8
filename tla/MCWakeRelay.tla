----------------------------- MODULE MCWakeRelay -----------------------------
(***************************************************************************)
(* An instance of WakeRelay for TLC.  Three plans share the scenario:      *)
(* messages on one registration, rings, and the life of the route.         *)
(***************************************************************************)
EXTENDS WakeRelay, WakeScenario

CONSTANT WakePlans

VARIABLE wakePlan

MCWakeInit == WakeInit /\ wakePlan \in WakePlans

\* The route is registered and confirmed, and stays.
OneRoute ==
    /\ registered' =< 1 /\ route' # "lapsed" /\ (route # "none" => route' # "none")
    /\ "owner" \notin erased' /\ (challenges # {} => challenges' # {})

\* Without rings, within one ledger life.
MessagesOnly == OneRoute /\ rings' = {} /\ ~binding' /\ time' =< LedgerLife

\* With one other event, to clean the ledger meanwhile.
RingsOnly ==
    /\ OneRoute
    /\ DOMAIN events' \subseteq {v1, g1}
    /\ policy' # policy => DOMAIN queue' = {}

RoutesOnly ==
    /\ rings' = {} /\ ~binding'
    /\ \A s \in DOMAIN queue' : queue'[s].event = e1
    /\ time' = 0

MCWakeNext ==
    /\ WakeNext
    /\ CASE wakePlan = "messages" -> MessagesOnly
         [] wakePlan = "rings" -> RingsOnly
         [] OTHER -> RoutesOnly
    /\ UNCHANGED wakePlan

MCWakeSpec == MCWakeInit /\ [][MCWakeNext]_<<wakeVars, wakePlan>>
=============================================================================
