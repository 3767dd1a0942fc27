------------------------------- MODULE Alerts -------------------------------
(***************************************************************************)
(* AlertsView (src/views/AlertsView.vue): the rules and the history of     *)
(* triggered alerts that the server keeps, the copies of both in the       *)
(* monitor store, and the calls of src/composables/useApi.ts between them. *)
(*                                                                         *)
(* A call is sent, reaches the server some time later, and its answer some *)
(* time after that; calls overtake each other on both ways, and fail       *)
(* before or after the server did its part.  The server changes only       *)
(* through this view.                                                      *)
(*                                                                         *)
(* Two others load the history into the same slot of the store: a          *)
(* dashboard that was left in its first load, whose interval nobody        *)
(* clears, with the few newest unacknowledged alerts; and the calls that   *)
(* an earlier mount of this view left out.                                 *)
(*                                                                         *)
(* The two tabs share the calls of loadData and nothing else: a behaviour  *)
(* follows one of them.                                                    *)
(***************************************************************************)
EXTENDS Integers, Sequences, FiniteSets, SequencesExt

CONSTANTS
  MaxRules,        \* bound: rules the server ever has, by id
  AlertIds,        \* alerts that were triggered
  BoardSize,       \* alerts the dashboard asks for: its page_size, 5
  MaxAlertCalls,   \* bound: calls out at a time
  Unset

ASSUME AlertsAssumptions ==
  /\ MaxRules \in Nat \ {0} /\ MaxAlertCalls \in Nat \ {0}
  /\ BoardSize \in Nat
  /\ IsFiniteSet(AlertIds) /\ Unset \notin AlertIds
  /\ Unset \notin [id : 0 .. MaxRules, on : BOOLEAN]

RuleIds == 1 .. MaxRules
TabLoads == {"rules", "history"}

VARIABLES
  tab,               \* the tab this behaviour follows: "rules" or "history"
  serverRules,       \* rules on the server: a sequence of [id, on], as created
  born,              \* the last id the server gave a rule
  acked,             \* alerts acknowledged on the server
  rules,             \* store.alertRules: a sequence of [id, on]
  rows, unack,       \* store.alertHistory and unacknowledgedAlerts
  isLoadingTab,      \* store.isLoading of the tab
  requests,          \* calls out, in the order they were sent
  historyFilter,     \* "all" or "pending" (acknowledged: false)
  ruleForm,          \* the rule dialog: Unset, or the [id, on] being edited (id 0: new)
  confirming,        \* the delete prompt: Unset or the id of its rule
  selectedAlert,     \* the acknowledge dialog: Unset or its alert
  astray             \* ghost: the last answer of a load was out of order, failed,
                     \* or was to a load of another mount

alertServerVars == <<serverRules, born, acked>>
storeVars == <<rules, rows, unack>>
dialogVars == <<ruleForm, confirming, selectedAlert>>
alertsVars == <<tab, alertServerVars, storeVars, isLoadingTab, requests, historyFilter, dialogVars, astray>>

-----------------------------------------------------------------------------
(* The server's answers.                                                   *)

\* Rows for a filter: the alerts listed, each with its acknowledged flag.
ServerRows(f) ==
  [a \in {b \in AlertIds : f = "pending" => b \notin acked} |-> a \in acked]

Pending == {a \in AlertIds : a \notin acked}

ServerHistory(f) == [rows |-> ServerRows(f), unack |-> Cardinality(Pending)]

\* A page of the unacknowledged alerts, with the count of all of them.
BoardPages ==
  {[rows |-> [a \in A |-> FALSE], unack |-> Cardinality(Pending)] :
     A \in {B \in SUBSET Pending :
             Cardinality(B) = IF Cardinality(Pending) < BoardSize THEN Cardinality(Pending) ELSE BoardSize}}

-----------------------------------------------------------------------------
(* Calls.  own: of the present mount.  late: its answer may come when a    *)
(* younger one of its kind, or a toggle it crossed, was already applied.   *)

AlertCall(op, arg, on) ==
  [op |-> op, arg |-> arg, on |-> on, own |-> TRUE, st |-> "sent", ans |-> Unset, late |-> FALSE]

ToggleOut(cs) == \E i \in DOMAIN cs : cs[i].op = "toggle"

\* The calls cs, those at js late.
Marked(cs, js) ==
  [j \in DOMAIN cs |-> IF j \in js THEN [cs[j] EXCEPT !.late = TRUE] ELSE cs[j]]

\* A load of the rules that goes out while a toggle is out may answer with the
\* rule as it was before.
fetchAlertRules(cs) ==
  [AlertCall("rules", Unset, FALSE) EXCEPT !.late = ToggleOut(cs)]

fetchAlertHistory(f) == AlertCall("history", f, FALSE)

\* A history request of the dashboard ("board") or of an earlier mount.
otherHistory(f) == [AlertCall("other", f, FALSE) EXCEPT !.own = FALSE]

LoadCall(f, cs) == IF tab = "rules" THEN fetchAlertRules(cs) ELSE fetchAlertHistory(f)

\* loadData, while the calls cs are out.
loadData(f, cs) ==
  /\ Len(cs) < MaxAlertCalls
  /\ requests' = Append(cs, LoadCall(f, cs))
  /\ isLoadingTab' = TRUE

\* The view is mounted.
AlertsInit ==
  /\ tab \in TabLoads
  /\ born \in 0 .. MaxRules /\ (tab = "history" => born = 0)
  /\ \E on \in [1 .. born -> BOOLEAN] :
       serverRules = [k \in 1 .. born |-> [id |-> k, on |-> on[k]]]
  /\ acked \in SUBSET AlertIds /\ (tab = "rules" => acked = {})
  /\ rules = <<>> /\ rows = [a \in {} |-> FALSE] /\ unack = 0
  /\ requests = <<LoadCall("all", <<>>)>>
  /\ isLoadingTab = TRUE
  /\ historyFilter = "all"
  /\ ruleForm = Unset /\ confirming = Unset /\ selectedAlert = Unset
  /\ astray = TRUE

Send(c) == Len(requests) < MaxAlertCalls /\ requests' = Append(requests, c)

-----------------------------------------------------------------------------
(* What the user does.                                                     *)

RefreshTab ==
  /\ ~isLoadingTab
  /\ loadData(historyFilter, requests)
  /\ UNCHANGED <<tab, alertServerVars, storeVars, historyFilter, dialogVars, astray>>

\* The selects over the history load on change.
ChooseFilter(f) ==
  /\ tab = "history" /\ historyFilter # f
  /\ historyFilter' = f
  /\ loadData(f, requests)
  /\ UNCHANGED <<tab, alertServerVars, storeVars, dialogVars, astray>>

NoAlertDialog == ruleForm = Unset /\ confirming = Unset /\ selectedAlert = Unset

\* The rows of the two tables whose buttons can be clicked.
RuleRow(i) == tab = "rules" /\ NoAlertDialog /\ i \in DOMAIN rules
PendingRow(a) == tab = "history" /\ NoAlertDialog /\ a \in DOMAIN rows /\ ~rows[a]

openNewRuleDialog ==
  /\ tab = "rules" /\ NoAlertDialog
  /\ ruleForm' = [id |-> 0, on |-> TRUE]
  /\ UNCHANGED <<tab, alertServerVars, storeVars, isLoadingTab, requests, historyFilter,
                 confirming, selectedAlert, astray>>

\* The form is a copy of the row.
openEditRuleDialog(i) ==
  /\ RuleRow(i)
  /\ ruleForm' = rules[i]
  /\ UNCHANGED <<tab, alertServerVars, storeVars, isLoadingTab, requests, historyFilter,
                 confirming, selectedAlert, astray>>

\* The prompt stays while loads replace the list.
confirmDeleteRule(i) ==
  /\ RuleRow(i)
  /\ confirming' = rules[i].id
  /\ UNCHANGED <<tab, alertServerVars, storeVars, isLoadingTab, requests, historyFilter,
                 ruleForm, selectedAlert, astray>>

openAcknowledgeDialog(a) ==
  /\ PendingRow(a)
  /\ selectedAlert' = a
  /\ UNCHANGED <<tab, alertServerVars, storeVars, isLoadingTab, requests, historyFilter,
                 ruleForm, confirming, astray>>

\* Cancel closes a dialog or the prompt; a call it made stays out.
CloseDialog ==
  /\ ~NoAlertDialog
  /\ ruleForm' = Unset /\ confirming' = Unset /\ selectedAlert' = Unset
  /\ UNCHANGED <<tab, alertServerVars, storeVars, isLoadingTab, requests, historyFilter, astray>>

\* Save: nothing keeps a second click from saving again.
saveRule ==
  /\ ruleForm # Unset
  /\ Send(AlertCall(IF ruleForm.id = 0 THEN "create" ELSE "update", ruleForm.id, ruleForm.on))
  /\ UNCHANGED <<tab, alertServerVars, storeVars, isLoadingTab, historyFilter, dialogVars, astray>>

acknowledgeAlert ==
  /\ selectedAlert # Unset
  /\ Send(AlertCall("ack", selectedAlert, FALSE))
  /\ UNCHANGED <<tab, alertServerVars, storeVars, isLoadingTab, historyFilter, dialogVars, astray>>

acceptDelete ==
  /\ confirming # Unset
  /\ Send(AlertCall("delete", confirming, FALSE))
  /\ confirming' = Unset
  /\ UNCHANGED <<tab, alertServerVars, storeVars, isLoadingTab, historyFilter,
                 ruleForm, selectedAlert, astray>>

\* The tag of a row toggles the rule as the row shows it.  Loads and toggles
\* that are out now may answer late.
toggleRuleEnabled(i) ==
  /\ RuleRow(i) /\ Len(requests) < MaxAlertCalls
  /\ LET crossed == {j \in DOMAIN requests : requests[j].op \in {"rules", "toggle"}}
         toggle == AlertCall("toggle", rules[i].id, ~rules[i].on)
     IN  requests' = Append(Marked(requests, crossed), [toggle EXCEPT !.late = ToggleOut(requests)])
  /\ UNCHANGED <<tab, alertServerVars, storeVars, isLoadingTab, historyFilter, dialogVars, astray>>

-----------------------------------------------------------------------------
(* Other mounts.                                                           *)

\* Calls that outlive their mount.  A load of the rules is the same whoever
\* sent it; one of the history asked with that mount's filter.
LeftOut(cs) ==
  [j \in DOMAIN cs |-> [cs[j] EXCEPT !.own = FALSE,
                                    !.op = IF @ = "history" THEN "other" ELSE @]]

\* The view is left and, some time later, shown again: new controls, a new load.
Return ==
  /\ historyFilter' = "all"
  /\ ruleForm' = Unset /\ confirming' = Unset /\ selectedAlert' = Unset
  /\ loadData("all", LeftOut(requests))
  /\ UNCHANGED <<tab, alertServerVars, storeVars, astray>>

\* The dashboard's first load was left out, or its interval fires.
BoardRefresh ==
  /\ tab = "history"
  /\ Send(otherHistory("board"))
  /\ isLoadingTab' = TRUE
  /\ UNCHANGED <<tab, alertServerVars, storeVars, historyFilter, dialogVars, astray>>

-----------------------------------------------------------------------------
(* The server takes a call (external: Socrate's admin API).                *)

TakeAlertCall(i, ans) == requests' = [requests EXCEPT ![i].st = "served", ![i].ans = ans]

ServeAlertCall(i) ==
  LET c == requests[i] IN
  /\ c.st = "sent"
  /\ \/ c.op = "rules" /\ TakeAlertCall(i, serverRules) /\ UNCHANGED alertServerVars
     \/ c.op = "history" /\ TakeAlertCall(i, ServerHistory(c.arg)) /\ UNCHANGED alertServerVars
     \/ /\ c.op = "other"
        /\ \E h \in IF c.arg = "board" THEN BoardPages ELSE {ServerHistory(c.arg)} : TakeAlertCall(i, h)
        /\ UNCHANGED alertServerVars
     \/ /\ c.op = "create" /\ born < MaxRules
        /\ born' = born + 1
        /\ serverRules' = Append(serverRules, [id |-> born + 1, on |-> TRUE])
        /\ TakeAlertCall(i, [id |-> born + 1, on |-> TRUE])
        /\ UNCHANGED acked
     \/ /\ c.op \in {"update", "toggle"}
        /\ \E k \in DOMAIN serverRules :
             /\ serverRules[k].id = c.arg
             /\ serverRules' = [serverRules EXCEPT ![k] = [id |-> c.arg, on |-> c.on]]
        /\ TakeAlertCall(i, [id |-> c.arg, on |-> c.on])
        /\ UNCHANGED <<born, acked>>
     \/ /\ c.op = "delete"
        /\ \E k \in DOMAIN serverRules :
             serverRules[k].id = c.arg /\ serverRules' = RemoveAt(serverRules, k)
        /\ TakeAlertCall(i, Unset)
        /\ UNCHANGED <<born, acked>>
     \/ /\ c.op = "ack"
        /\ acked' = acked \cup {c.arg}
        /\ TakeAlertCall(i, Unset)
        /\ UNCHANGED <<serverRules, born>>
  /\ UNCHANGED <<tab, storeVars, isLoadingTab, historyFilter, dialogVars, astray>>

-----------------------------------------------------------------------------
(* Answers: the store's update, then what the view's function goes on with. *)

\* The calls left when call i is over and those at js are late.
Remaining(i, js) == RemoveAt(Marked(requests, js), i)

LoadsOut == {j \in DOMAIN requests : requests[j].op \in TabLoads}

\* Those sent before load i.
Overtaken(i) == {j \in LoadsOut : j < i}

\* The store's update functions.
setAlertHistory(ans) == rows' = ans.rows /\ unack' = ans.unack

addAlertRule(r) == rules' = Append(rules, r)

\* Mutant: the row that was found is left as it is.
updateNothing(r) == UNCHANGED rules

\* The first row of that id is replaced; a rule that is not listed stays out.
WithRule(rs, r) ==
  LET same == {k \in DOMAIN rs : rs[k].id = r.id} IN
  [k \in DOMAIN rs |-> IF k \in same /\ \A j \in same : k <= j THEN r ELSE rs[k]]

updateAlertRule(r) == rules' = WithRule(rules, r)

\* The rows of the other ids, in their order.
removeAlertRule(id) ==
  LET kept == {k \in DOMAIN rules : rules[k].id # id} IN
  \E at \in [1 .. Cardinality(kept) -> kept] :
    /\ \A j, k \in DOMAIN at : j < k => at[j] < at[k]
    /\ rules' = [k \in DOMAIN at |-> rules[at[k]]]

acknowledgeRow(a) ==
  IF a \in DOMAIN rows
  THEN rows' = [rows EXCEPT ![a] = TRUE] /\ unack' = IF unack > 0 THEN unack - 1 ELSE 0
  ELSE UNCHANGED <<rows, unack>>

TabLoaded(i) ==
  LET c == requests[i] IN
  /\ c.op \in TabLoads
  /\ \/ c.op = "rules" /\ rules' = c.ans /\ UNCHANGED <<rows, unack>>
     \/ c.op = "history" /\ setAlertHistory(c.ans) /\ UNCHANGED rules
  /\ isLoadingTab' = FALSE
  /\ astray' = c.late
  /\ requests' = Remaining(i, Overtaken(i))
  /\ UNCHANGED <<historyFilter, dialogVars>>

\* Another mount's load of the history replaces what is shown.
OtherLoaded(i) ==
  LET c == requests[i] IN
  /\ c.op = "other"
  /\ setAlertHistory(c.ans)
  /\ isLoadingTab' = FALSE
  /\ astray' = TRUE
  /\ requests' = Remaining(i, {})
  /\ UNCHANGED <<rules, historyFilter, dialogVars>>

\* Saved or deleted: a save closes its mount's dialog, whichever it is by now;
\* then the mount reloads, gone or not.
RuleChanged(i) ==
  LET c == requests[i] IN
  /\ \/ c.op = "create" /\ addAlertRule(c.ans)
     \/ c.op = "update" /\ updateAlertRule(c.ans)
     \/ c.op = "delete" /\ removeAlertRule(c.arg)
  /\ ruleForm' = IF c.own /\ c.op # "delete" THEN Unset ELSE ruleForm
  /\ loadData(historyFilter, Remaining(i, {}))
  /\ UNCHANGED <<rows, unack, historyFilter, confirming, selectedAlert, astray>>

\* toggleRuleEnabled ends by flipping the flag of the row that was clicked.  The
\* store has just replaced that row, or a load has; but if a rule that was
\* created and loaded is listed twice, it may be the second one.
flipSecondRow(r) ==
  \E j, k \in DOMAIN rules :
    /\ j < k /\ rules[j].id = r.id /\ rules[k].id = r.id
    /\ rules' = [WithRule(rules, r) EXCEPT ![k].on = ~@]

\* A toggle is not followed by a load.
Toggled(i) ==
  LET c == requests[i] IN
  /\ c.op = "toggle"
  /\ updateAlertRule(c.ans) \/ flipSecondRow(c.ans)
  /\ astray' = (astray \/ c.late)
  /\ requests' = Remaining(i, {})
  /\ UNCHANGED <<rows, unack, isLoadingTab, historyFilter, dialogVars>>

\* Mutant: the history is not loaded again.
AcknowledgedOnly(i) ==
  LET c == requests[i] IN
  /\ c.op = "ack"
  /\ acknowledgeRow(c.arg)
  /\ selectedAlert' = Unset
  /\ requests' = Remaining(i, {})
  /\ UNCHANGED <<rules, isLoadingTab, historyFilter, ruleForm, confirming, astray>>

\* An acknowledgement of an earlier mount is followed by that mount's load, for
\* the filter it had; the loads that are out may have been served before it.
Acknowledged(i) ==
  LET c == requests[i] IN
  /\ c.op = "ack"
  /\ acknowledgeRow(c.arg)
  /\ \/ /\ c.own
        /\ selectedAlert' = Unset
        /\ loadData(historyFilter, Remaining(i, {}))
        /\ UNCHANGED astray
     \/ /\ ~c.own
        /\ \E f \in {"all", "pending"} :
             requests' = Append(Remaining(i, LoadsOut), otherHistory(f))
        /\ isLoadingTab' = TRUE /\ astray' = TRUE
        /\ UNCHANGED selectedAlert
  /\ UNCHANGED <<rules, historyFilter, ruleForm, confirming>>

AnswerAlertCall(i) ==
  /\ requests[i].st = "served"
  /\ TabLoaded(i) \/ OtherLoaded(i) \/ RuleChanged(i) \/ Toggled(i) \/ Acknowledged(i)
  /\ UNCHANGED <<tab, alertServerVars>>

\* The call fails, before or after the server took it: a toast, no reload.  A
\* change whose answer is lost is followed by no load, and those that are out
\* may have been served before it.
AlertCallFails(i) ==
  LET c == requests[i]
      lost == c.op \notin TabLoads \cup {"other"} /\ c.st = "served"
  IN
  /\ requests' = Remaining(i, IF c.op \in TabLoads THEN Overtaken(i) ELSE IF lost THEN LoadsOut ELSE {})
  /\ isLoadingTab' = (isLoadingTab /\ c.op \notin TabLoads \cup {"other"})
  /\ astray' = (astray \/ c.op \in TabLoads \/ lost)
  /\ UNCHANGED <<tab, alertServerVars, storeVars, historyFilter, dialogVars>>

AlertsNext ==
  \/ RefreshTab \/ \E f \in {"all", "pending"} : ChooseFilter(f)
  \/ openNewRuleDialog \/ CloseDialog \/ saveRule \/ acknowledgeAlert \/ acceptDelete
  \/ Return \/ BoardRefresh
  \/ \E a \in AlertIds : openAcknowledgeDialog(a)
  \/ \E i \in DOMAIN rules :
       openEditRuleDialog(i) \/ confirmDeleteRule(i) \/ toggleRuleEnabled(i)
  \/ \E i \in DOMAIN requests : ServeAlertCall(i) \/ AnswerAlertCall(i) \/ AlertCallFails(i)

AlertsSpec == AlertsInit /\ [][AlertsNext]_alertsVars

-----------------------------------------------------------------------------
(* Properties.                                                             *)

AlertsTypeOK ==
  /\ tab \in TabLoads
  /\ born \in 0 .. MaxRules /\ acked \subseteq AlertIds
  /\ \A k \in DOMAIN serverRules : serverRules[k] \in [id : 1 .. born, on : BOOLEAN]
  /\ \A k \in DOMAIN rules : rules[k] \in [id : RuleIds, on : BOOLEAN]
  /\ DOMAIN rows \subseteq AlertIds /\ \A a \in DOMAIN rows : rows[a] \in BOOLEAN
  /\ unack \in Nat
  /\ isLoadingTab \in BOOLEAN /\ astray \in BOOLEAN
  /\ Len(requests) <= MaxAlertCalls
  /\ historyFilter \in {"all", "pending"}
  /\ ruleForm \in [id : RuleIds \cup {0}, on : BOOLEAN] \cup {Unset}
  /\ confirming \in RuleIds \cup {Unset}
  /\ selectedAlert \in AlertIds \cup {Unset}

\* When nothing is out the rules listed are the server's, in whatever order
\* saves, deletes, toggles and loads were made and served, by this mount of the
\* view or an earlier one; unless a load was overtaken by a younger one, a
\* toggle crossed a load or another toggle, or a call failed.
RulesSettle == (tab = "rules" /\ requests = <<>> /\ ~astray) => rules = serverRules

\* When nothing is out the history and the count of unacknowledged alerts
\* are the server's for the selected filter, even if one alert was
\* acknowledged twice (which lowers the count twice for a while), or a
\* dashboard and earlier mounts of the view loaded the same slot before; unless
\* the view's last load was overtaken or failed, one of those others was
\* answered after it, or an acknowledgement was lost or was another mount's.
HistorySettles ==
  (tab = "history" /\ requests = <<>> /\ ~astray)
    => rows = ServerRows(historyFilter) /\ unack = Cardinality(Pending)

\* However acknowledgements and loads are served and answered: the count
\* never falls below zero, and count and history end up as the server's.
HistoryInv == AlertsTypeOK /\ HistorySettles
=============================================================================
