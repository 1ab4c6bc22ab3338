----------------------------- MODULE RulesEditor -----------------------------
(***************************************************************************)
(* The rules page (ui rules.rs and commit_dns_override of settings.rs)     *)
(* over the functions of ProfileModel: the list of custom rules and that   *)
(* of DNS overrides, the inline editor, and deletes that are armed by a    *)
(* first click and disarmed by a timer.  Ids are reused: the next rule     *)
(* takes the smallest free one.                                            *)
(***************************************************************************)
EXTENDS ProfileModel

CONSTANTS
    RuleDrafts,      \* [match, value, action]: what the editor may hold
    DnsDrafts,       \* domain suffixes the DNS editor may hold
    MaxEdits         \* bound on the user's actions

ASSUME EditorAssumption == MaxEdits \in Nat

VARIABLES
    lists,    \* rules: the custom rules; dns: the overrides, [id, on, suffix]
    tab,      \* the list the page shows
    editor,   \* the inline editor: closed, or the rule it edits (NoId: a new one)
    armed,    \* what a second click deletes, per list; NoId for nothing
    timers,   \* generations of the timers that run
    edits,    \* the user's actions so far
    births    \* history: which addition an id of a list stands for, and did at the arm

reVars == <<lists, tab, editor, armed, timers, edits, births>>

Kinds == {"rules", "dns"}
Closed == [open |-> FALSE, id |-> NoId]
NothingArmed == [k \in Kinds |-> NoId]

EditorInit ==
    /\ lists = [rules |-> <<>>, dns |-> <<>>]
    /\ tab = "rules" /\ editor = Closed
    /\ armed = [of |-> NothingArmed, generation |-> 0]
    /\ timers = {}
    /\ edits = 0
    /\ births = [now |-> [k \in Kinds |-> << >>], atArm |-> 0]

ListIds(k) == {lists[k][j].id : j \in DOMAIN lists[k]}
EditAct == edits < MaxEdits /\ edits' = edits + 1
Births(k, id) == IF id \in DOMAIN births.now[k] THEN births.now[k][id] ELSE 0
Born(k, id) == [births EXCEPT !.now[k] = [j \in DOMAIN @ \cup {id} |->
                                             IF j = id THEN edits + 1 ELSE @[j]]]
Drop(k, id) == Retain(lists[k], {j \in DOMAIN lists[k] : lists[k][j].id # id})

OpenEditor(id) ==
    /\ EditAct /\ tab = "rules" /\ id \in RuleIds(lists.rules) \cup {NoId}
    /\ editor' = [open |-> TRUE, id |-> id]
    /\ armed' = [armed EXCEPT !.of["rules"] = NoId]
    /\ UNCHANGED <<tab, lists, timers, births>>

CancelEditor ==
    /\ EditAct /\ tab = "rules" /\ editor.open /\ editor' = Closed
    /\ UNCHANGED <<tab, lists, armed, timers, births>>

\* save_custom_rule; a refused draft stays in the editor.
SaveRule(draft) ==
    /\ EditAct /\ tab = "rules" /\ editor.open
    /\ CanSave(lists.rules, editor.id, draft)
    /\ lists' = [lists EXCEPT !.rules = Edited(@, editor.id, draft)]
    /\ births' = IF editor.id = NoId THEN Born("rules", NextRuleId(lists.rules)) ELSE births
    /\ editor' = Closed
    /\ UNCHANGED <<tab, armed, timers>>

\* commit_dns_override: one per suffix, the id after the largest.
AddDns(suffix) ==
    LET id == Max({0} \cup ListIds("dns")) + 1
    IN /\ EditAct /\ tab = "dns" /\ Len(lists.dns) < MaxCustomRules
       /\ \A j \in DOMAIN lists.dns : lists.dns[j].suffix # suffix
       /\ lists' = [lists EXCEPT !.dns = Append(@, [id |-> id, on |-> TRUE, suffix |-> suffix])]
       /\ births' = Born("dns", id)
       /\ UNCHANGED <<tab, editor, armed, timers>>

Toggled(list, id) ==
    [j \in DOMAIN list |->
        IF list[j].id = id THEN [list[j] EXCEPT !.on = ~list[j].on] ELSE list[j]]
ToggleEntry(k, id) ==
    /\ EditAct /\ tab = k /\ id \in ListIds(k)
    /\ lists' = [lists EXCEPT ![k] = Toggled(@, id)]
    /\ UNCHANGED <<tab, editor, armed, timers, births>>

Move(id, offset) ==
    /\ EditAct /\ tab = "rules" /\ id \in RuleIds(lists.rules)
    /\ lists' = [lists EXCEPT !.rules = MoveRule(@, id, offset, FALSE)]
    /\ UNCHANGED <<tab, editor, armed, timers, births>>

-----------------------------------------------------------------------------
\* The first click on a delete button arms it and starts a timer of a new
\* generation.
Arm(k, id) ==
    /\ EditAct /\ tab = k /\ id \in ListIds(k) /\ armed.of[k] # id
    /\ armed' = [of |-> [armed.of EXCEPT ![k] = id], generation |-> armed.generation + 1]
    /\ timers' = timers \cup {armed.generation + 1}
    /\ births' = [births EXCEPT !.atArm = Births(k, id)]
    /\ UNCHANGED <<tab, lists, editor>>

\* Regression: the delete leaves the button armed.
DeleteStaysArmed(k, id) ==
    /\ EditAct /\ tab = k /\ id \in ListIds(k) /\ armed.of[k] = id
    /\ lists' = [lists EXCEPT ![k] = Drop(k, id)]
    /\ UNCHANGED <<tab, editor, armed, timers, births>>

DeleteEntry(k, id) ==
    /\ EditAct /\ tab = k /\ id \in ListIds(k) /\ armed.of[k] = id
    /\ lists' = [lists EXCEPT ![k] = Drop(k, id)]
    /\ armed' = [armed EXCEPT !.of[k] = NoId]
    /\ UNCHANGED <<tab, editor, timers, births>>

\* Only the newest timer disarms.
TimerFires(g) ==
    /\ g \in timers /\ timers' = timers \ {g}
    /\ armed' = IF g = armed.generation THEN [armed EXCEPT !.of = NothingArmed] ELSE armed
    /\ UNCHANGED <<tab, lists, editor, edits, births>>

SwitchTab ==
    /\ EditAct /\ tab' \in Kinds
    /\ armed' = [armed EXCEPT !.of = NothingArmed]
    /\ UNCHANGED <<lists, editor, timers, births>>

EditorNext ==
    \/ \E id \in RuleIds(lists.rules) \cup {NoId} : OpenEditor(id)
    \/ CancelEditor \/ SwitchTab
    \/ \E draft \in RuleDrafts : SaveRule(draft)
    \/ \E suffix \in DnsDrafts : AddDns(suffix)
    \/ \E k \in Kinds : \E id \in ListIds(k) : ToggleEntry(k, id) \/ Arm(k, id) \/ DeleteEntry(k, id)
    \/ \E id \in RuleIds(lists.rules) : Move(id, -1) \/ Move(id, 1)
    \/ \E g \in timers : TimerFires(g)

EditorSpec == EditorInit /\ [][EditorNext]_reVars

-----------------------------------------------------------------------------
EditorTypeOK ==
    /\ tab \in Kinds /\ editor \in [open : BOOLEAN, id : 0..MaxCustomRules]
    /\ armed.generation \in 0..MaxEdits /\ timers \subseteq 1..armed.generation
    /\ edits \in 0..MaxEdits /\ births.atArm \in 0..MaxEdits

\* However the lists are edited, the rules stay what validate_custom_rules
\* accepts, so that the next connection request is not refused; and a delete
\* takes two clicks on one and the same rule: an id that is armed names the
\* rule it named when it was armed, though ids are reused.
RulesStayUsable ==
    /\ RulesAreValid(lists.rules)
    /\ \A k \in Kinds : armed.of[k] # NoId =>
          armed.of[k] \in ListIds(k) /\ Births(k, armed.of[k]) = births.atArm
=============================================================================
