----------------------------- MODULE RuleSetPair -----------------------------
(***************************************************************************)
(* What the rule-set cache of packages/api/src/rule_set_cache.rs promises: *)
(* the two rule files are one thing. A request finds the pair of one       *)
(* download or no pair at all, and an update replaces the whole pair.      *)
(***************************************************************************)
CONSTANTS
    Downloads,  \* the pairs that can be downloaded
    Absent      \* no cached pair

VARIABLE pair

Init == pair \in Downloads \cup {Absent}
Update == pair' \in Downloads
Spec == Init /\ [][Update]_pair
=============================================================================
