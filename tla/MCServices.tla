----------------------------- MODULE MCServices -----------------------------
(***************************************************************************)
(* Small instances of what runs on while the pages come and go: the        *)
(* sockets of the browser, the connection pools and the alerts.  They      *)
(* share no state, so a behaviour is one of the three; the others stay as  *)
(* they start.                                                             *)
(***************************************************************************)
EXTENDS Feed, Pools, Alerter

CONSTANTS f1, f2, l1, l2, k1, k2, g1, g2, g3

VARIABLE part   \* which one

ServicesInit ==
  part \in {"feed", "pools", "alerter"} /\ FeedInit /\ PoolsInit /\ AlerterInit

InFeed    == part = "feed" /\ UNCHANGED <<part, poolVars, alertVars>>
InPools   == part = "pools" /\ UNCHANGED <<part, feedVars, alertVars>>
InAlerter == part = "alerter" /\ UNCHANGED <<part, feedVars, poolVars>>

ServicesNext ==
  (InFeed /\ FeedNext) \/ (InPools /\ PoolsNext) \/ (InAlerter /\ AlerterNext)

\* What is fair in one part cannot happen in another.
ServicesSpec ==
  /\ ServicesInit /\ [][ServicesNext]_<<part, feedVars, poolVars, alertVars>>
  /\ FeedFairness /\ PoolsFairness

\* The type invariants of the three.
ServicesTypeOK == FeedTypeOK /\ PoolsTypeOK /\ AlerterTypeOK

\* Every two requests have a key in common or need one pool too many.
MCKeysOf == [r \in Request |-> CASE r = g1 -> <<k1>> [] r = g2 -> <<k1, k2>> [] OTHER -> <<k2>>]
==============================================================================
