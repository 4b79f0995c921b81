--------------------------- MODULE DurableCounter ---------------------------
(***************************************************************************)
(* What the quota logger of the zivpn server promises about its per-       *)
(* password byte counters, and nothing about how it keeps the promise: no  *)
(* lock, no file, no process.  A counter lives between a floor, what the   *)
(* last confirmed save fixed, and a ceiling, the most any copy of it has   *)
(* held since.  A restart may move it anywhere between the two, never      *)
(* below the floor (data a customer consumed and that was saved stays      *)
(* counted) and never above the ceiling (nobody pays for what he never     *)
(* used, nor gets back a count that a confirmed save saw reset).           *)
(***************************************************************************)
EXTENDS Naturals

CONSTANT Ids     \* the passwords that carry a quota: the counting keys

VARIABLES used,  \* the counter that quota decisions are taken on
          floor, \* its value at the last confirmed save (0 once reset)
          ceil   \* the largest value a copy of it has had since then

vars == <<used, floor, ceil>>

Init ==
  /\ used \in [Ids -> Nat]
  /\ floor \in [Ids -> Nat]
  /\ ceil \in [Ids -> Nat]
  /\ \A i \in Ids : floor[i] <= used[i] /\ used[i] <= ceil[i]

\* Bytes of one identity are counted.
Count(i) ==
  /\ used' \in [Ids -> Nat]
  /\ used'[i] > used[i]
  /\ \A j \in Ids \ {i} : used'[j] = used[j]
  /\ ceil' = [ceil EXCEPT ![i] = IF used'[i] > @ THEN used'[i] ELSE @]
  /\ UNCHANGED floor

\* Every copy of the counters holds the same value.
Confirm ==
  /\ floor' = used
  /\ ceil' = used
  /\ UNCHANGED used

\* The counters of S are reset.
Forget(S) ==
  /\ used' = [i \in Ids |-> IF i \in S THEN 0 ELSE used[i]]
  /\ floor' = [i \in Ids |-> IF i \in S THEN 0 ELSE floor[i]]
  /\ UNCHANGED ceil

\* The process that holds the counters is replaced by a new one.
Restart ==
  /\ used' \in [Ids -> Nat]
  /\ \A i \in Ids : floor[i] <= used'[i] /\ used'[i] <= ceil[i]
  /\ UNCHANGED <<floor, ceil>>

Next == (\E i \in Ids : Count(i)) \/ Confirm
        \/ (\E S \in SUBSET Ids : Forget(S)) \/ Restart

Spec == Init /\ [][Next]_vars
=============================================================================
