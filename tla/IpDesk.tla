------------------------------- MODULE IpDesk -------------------------------
(***************************************************************************)
(* Blocking, unblocking and looking up IP addresses in BlockedIPsView and  *)
(* ThreatsView (src/views/), with the calls of src/composables/useApi.ts   *)
(* they make.  A behaviour follows one part (desk): the list with its form *)
(* ("list"), the reputation dialog of BlockedIPsView ("lookup"), which     *)
(* shares nothing with it, or ThreatsView ("threats").  The order of the   *)
(* list is left out.                                                       *)
(*                                                                         *)
(* The list's view is left ("away") and mounted again.  Its form is gone   *)
(* then; the list, which the store keeps, and the calls that are out are   *)
(* not, and ThreatsView sends blocks that it leaves out in its turn.       *)
(*                                                                         *)
(* Calls reach the server and are answered in any order, and fail before   *)
(* or after the server took them.  What an answer does to the dialogs it   *)
(* does to whatever they show by then.                                     *)
(***************************************************************************)
EXTENDS Naturals, Sequences, FiniteSets, SequencesExt

CONSTANTS
  IPs,
  MaxBlocks,   \* bound: blocks of one address
  MaxCalls,    \* bound: calls out at a time
  Nil

ASSUME IpDeskAssumptions ==
  /\ MaxBlocks \in Nat \ {0} /\ MaxCalls \in Nat \ {0}
  /\ Nil \notin IPs /\ Nil \notin [ip : IPs, is_blocked : BOOLEAN]

\* A call "block" is of the present mount.  One that an earlier mount of
\* BlockedIPsView left out is a "pastBlock", one of ThreatsView, while the list
\* is followed, an "awayBlock".
BlockOps == {"block", "pastBlock", "awayBlock"}

\* A block is known by its id: the n-th block of an address.
Blocks == [ip : IPs, n : 1 .. MaxBlocks]

VARIABLES
  desk,                   \* the part this behaviour follows
  server, issued,         \* the server's blocks, and how many of an address it made
  blockedIPs,             \* store.blockedIPs: how many rows each block has
  isLoading,              \* store.isLoading.blockedIPs
  calls,                  \* calls out, in the order they were sent
  showBlockDialog,        \* the block form; its address can be edited at any time
  isBlocking,             \* BlockedIPsView only
  showReputation, selectedIP, ipReputation, loadingReputation,
  wrong,                  \* ghost: the last load was out of order or failed, a change
                          \* was lost, or a block of ThreatsView was added since
  mixed                   \* ghost: the last lookup was not out alone, or failed

listVars == <<blockedIPs, isLoading, wrong>>
blockFormVars == <<showBlockDialog, isBlocking>>
repVars == <<showReputation, selectedIP, ipReputation, loadingReputation, mixed>>
blockVars == <<server, issued>>
deskVars == <<desk, blockVars, calls, listVars, blockFormVars, repVars>>

DeskCall(op, arg) == [op |-> op, arg |-> arg, st |-> "sent", ans |-> Nil, late |-> FALSE]
OutOps(cs) == {cs[i].op : i \in DOMAIN cs}

\* loadBlockedIPs, while cs are out.
loadBlockedIPs(cs) ==
  Len(cs) < MaxCalls /\ calls' = Append(cs, DeskCall("load", Nil)) /\ isLoading' = TRUE

\* Before the list is first shown, or a view that is followed is mounted.
DeskInit ==
  /\ desk \in {"away", "lookup", "threats"}
  /\ server \in SUBSET [ip : IPs, n : {1}]
  /\ issued = [ip \in IPs |-> IF [ip |-> ip, n |-> 1] \in server THEN 1 ELSE 0]
  /\ blockedIPs = [b \in Blocks |-> 0]
  /\ isLoading = FALSE /\ calls = <<>>
  /\ showBlockDialog = FALSE /\ isBlocking = FALSE
  /\ showReputation = FALSE /\ selectedIP = Nil /\ ipReputation = Nil
  /\ loadingReputation = FALSE
  /\ wrong = TRUE /\ mixed = FALSE

-----------------------------------------------------------------------------
(* What the user does.                                                     *)

NoDialog == ~showBlockDialog /\ ~showReputation

\* A row of the blocked addresses, and the reputation dialog of ThreatsView,
\* which may still show an earlier address.
BlockedRow(b) == desk = "list" /\ NoDialog /\ blockedIPs[b] > 0
BlockOffered ==
  /\ desk = "threats" /\ ~showBlockDialog /\ showReputation
  /\ ipReputation # Nil /\ ~ipReputation.is_blocked

RefreshList ==
  /\ desk = "list" /\ ~isLoading /\ NoDialog
  /\ loadBlockedIPs(calls)
  /\ UNCHANGED <<desk, blockVars, blockedIPs, wrong, blockFormVars, repVars>>

\* From above the list, from a suspicious address, from the reputation.
openBlockDialog ==
  /\ (desk \in {"list", "threats"} /\ NoDialog) \/ BlockOffered
  /\ showBlockDialog' = TRUE
  /\ UNCHANGED <<desk, blockVars, calls, listVars, isBlocking, repVars>>

CancelForm ==
  /\ showBlockDialog
  /\ showBlockDialog' = FALSE
  /\ UNCHANGED <<desk, blockVars, calls, listVars, isBlocking, repVars>>

\* The button of the form, with whatever address it has by now.  Only
\* BlockedIPsView disables it while a block is out.
blockIP(ip) ==
  /\ showBlockDialog /\ ~isBlocking /\ Len(calls) < MaxCalls
  /\ calls' = Append(calls, DeskCall("block", ip))
  /\ isBlocking' = (desk = "list")
  /\ UNCHANGED <<desk, blockVars, listVars, showBlockDialog, repVars>>

\* Confirmed on a row of the list.
unblockIP(b) ==
  /\ BlockedRow(b) /\ Len(calls) < MaxCalls
  /\ calls' = Append(calls, DeskCall("unblock", b))
  /\ UNCHANGED <<desk, blockVars, listVars, blockFormVars, repVars>>

\* A row's address is clicked.
viewReputation(ip) ==
  /\ desk \in {"lookup", "threats"} /\ NoDialog /\ Len(calls) < MaxCalls
  /\ selectedIP' = ip /\ showReputation' = TRUE /\ loadingReputation' = TRUE
  /\ calls' = Append(calls, DeskCall("lookup", ip))
  /\ mixed' = ("lookup" \in OutOps(calls))
  /\ UNCHANGED <<desk, blockVars, listVars, blockFormVars, ipReputation>>

CloseReputation ==
  /\ showReputation /\ ~showBlockDialog
  /\ showReputation' = FALSE
  /\ UNCHANGED <<desk, blockVars, calls, listVars, blockFormVars, selectedIP, ipReputation,
                 loadingReputation, mixed>>

-----------------------------------------------------------------------------
(* The list's view is left and mounted again.                              *)

LeaveList ==
  /\ desk = "list" /\ desk' = "away"
  /\ calls' = [j \in DOMAIN calls |->
                 [calls[j] EXCEPT !.op = IF @ = "block" THEN "pastBlock" ELSE @]]
  /\ showBlockDialog' = FALSE /\ isBlocking' = FALSE
  /\ UNCHANGED <<blockVars, listVars, repVars>>

\* ThreatsView sends a block; its dialogs are those of the desk "threats".
AwayBlock(ip) ==
  /\ desk = "away" /\ Len(calls) < MaxCalls
  /\ calls' = Append(calls, DeskCall("awayBlock", ip))
  /\ UNCHANGED <<desk, blockVars, listVars, blockFormVars, repVars>>

ReturnToList ==
  /\ desk = "away" /\ desk' = "list"
  /\ loadBlockedIPs(calls)
  /\ UNCHANGED <<blockVars, blockedIPs, wrong, blockFormVars, repVars>>

-----------------------------------------------------------------------------
(* The server takes a call (external: Socrate's admin API).                *)

Listed == [b \in Blocks |-> IF b \in server THEN 1 ELSE 0]

IsBlocked(ip) == \E b \in server : b.ip = ip

Serve(i, ans) == calls' = [calls EXCEPT ![i].st = "served", ![i].ans = ans]

ServeCall(i) ==
  LET c == calls[i] IN
  /\ c.st = "sent"
  /\ \/ c.op = "load" /\ Serve(i, Listed) /\ UNCHANGED blockVars
     \/ /\ c.op = "lookup"
        /\ Serve(i, [ip |-> c.arg, is_blocked |-> IsBlocked(c.arg)])
        /\ UNCHANGED blockVars
     \/ /\ c.op \in BlockOps /\ ~IsBlocked(c.arg) /\ issued[c.arg] < MaxBlocks
        /\ issued' = [issued EXCEPT ![c.arg] = @ + 1]
        /\ server' = server \cup {[ip |-> c.arg, n |-> issued'[c.arg]]}
        /\ Serve(i, [ip |-> c.arg, n |-> issued'[c.arg]])
     \/ /\ c.op = "unblock" /\ c.arg \in server
        /\ server' = server \ {c.arg} /\ Serve(i, Nil)
        /\ UNCHANGED issued
  /\ UNCHANGED <<desk, listVars, blockFormVars, repVars>>

-----------------------------------------------------------------------------
(* Answers.                                                                *)

Without(i) == RemoveAt(calls, i)

\* The calls left when call i makes the loads among js late.
Late(i, js) ==
  RemoveAt([j \in DOMAIN calls |-> IF j \in js /\ calls[j].op = "load"
                                   THEN [calls[j] EXCEPT !.late = TRUE] ELSE calls[j]], i)

addBlockedIP(b) == blockedIPs' = [blockedIPs EXCEPT ![b] = @ + 1]

removeBlockedIP(b) == blockedIPs' = [blockedIPs EXCEPT ![b] = 0]

ListLoaded(i) ==
  /\ calls[i].op = "load"
  /\ blockedIPs' = calls[i].ans
  /\ isLoading' = FALSE /\ wrong' = calls[i].late
  /\ calls' = Late(i, 1 .. i - 1)
  /\ UNCHANGED <<blockFormVars, repVars>>

\* The block's answer closes the form, whichever block it is for by now, and
\* in ThreatsView the reputation too.  BlockedIPsView loads the list again.
Blocked(i) ==
  /\ calls[i].op = "block"
  /\ addBlockedIP(calls[i].ans)
  /\ showBlockDialog' = FALSE /\ isBlocking' = FALSE
  /\ showReputation' = FALSE
  /\ \/ desk = "list" /\ loadBlockedIPs(Without(i))
     \/ desk = "threats" /\ calls' = Without(i) /\ UNCHANGED isLoading
  /\ UNCHANGED <<wrong, selectedIP, ipReputation, loadingReputation, mixed>>

\* The same for an earlier mount of BlockedIPsView, whose form is gone.
PastBlocked(i) ==
  /\ calls[i].op = "pastBlock"
  /\ addBlockedIP(calls[i].ans)
  /\ loadBlockedIPs(Without(i))
  /\ UNCHANGED <<wrong, blockFormVars, repVars>>

\* What ThreatsView blocked is added to the list and nothing is loaded: what is
\* listed may have it already, and the loads that are out may not.
AwayBlocked(i) ==
  /\ calls[i].op = "awayBlock"
  /\ addBlockedIP(calls[i].ans)
  /\ wrong' = TRUE
  /\ calls' = Late(i, DOMAIN calls)
  /\ UNCHANGED <<isLoading, blockFormVars, repVars>>

\* Mutant: the list is not loaded again.
UnblockedUnloaded(i) ==
  /\ calls[i].op = "unblock"
  /\ removeBlockedIP(calls[i].arg)
  /\ calls' = Without(i)
  /\ UNCHANGED <<isLoading, wrong, blockFormVars, repVars>>

Unblocked(i) ==
  /\ calls[i].op = "unblock"
  /\ removeBlockedIP(calls[i].arg)
  /\ loadBlockedIPs(Without(i))
  /\ UNCHANGED <<wrong, blockFormVars, repVars>>

LookedUp(i) ==
  /\ calls[i].op = "lookup"
  /\ ipReputation' = calls[i].ans /\ loadingReputation' = FALSE
  /\ calls' = Without(i)
  /\ UNCHANGED <<listVars, blockFormVars, showReputation, selectedIP, mixed>>

AnswerCall(i) ==
  /\ calls[i].st = "served"
  /\ \/ ListLoaded(i) \/ LookedUp(i) \/ Unblocked(i)
     \/ Blocked(i) \/ PastBlocked(i) \/ AwayBlocked(i)
  /\ UNCHANGED <<desk, blockVars>>

\* A load, a block or an unblock fails: a toast, no reload.
Fail(i) ==
  LET c == calls[i] IN
  /\ c.op # "lookup"
  /\ calls' = CASE c.op = "load" -> Late(i, 1 .. i - 1)
                [] c.op # "load" /\ c.st = "served" -> Late(i, DOMAIN calls)
                [] OTHER -> Without(i)
  /\ isLoading' = (isLoading /\ c.op # "load")
  /\ wrong' = (wrong \/ c.op = "load" \/ c.st = "served")
  /\ isBlocking' = (isBlocking /\ c.op # "block")
  /\ UNCHANGED <<desk, blockVars, blockedIPs, showBlockDialog, repVars>>

\* Mutant: the dialog stays open on nothing, as it does in ThreatsView.
LookupFailsOpen(i) ==
  /\ calls[i].op = "lookup"
  /\ calls' = Without(i)
  /\ loadingReputation' = FALSE
  /\ mixed' = (desk = "threats" \/ mixed)
  /\ UNCHANGED <<desk, blockVars, listVars, blockFormVars, showReputation, selectedIP, ipReputation>>

\* A lookup fails: BlockedIPsView closes the dialog, ThreatsView leaves it
\* open with what it showed before.
LookupFails(i) ==
  /\ calls[i].op = "lookup"
  /\ calls' = Without(i)
  /\ loadingReputation' = FALSE
  /\ showReputation' = (showReputation /\ desk = "threats")
  /\ mixed' = (desk = "threats" \/ mixed)
  /\ UNCHANGED <<desk, blockVars, listVars, blockFormVars, selectedIP, ipReputation>>

DeskNext ==
  \/ RefreshList \/ openBlockDialog \/ CancelForm \/ CloseReputation \/ LeaveList \/ ReturnToList
  \/ \E ip \in IPs : blockIP(ip) \/ viewReputation(ip) \/ AwayBlock(ip)
  \/ \E b \in Blocks : unblockIP(b)
  \/ \E i \in DOMAIN calls : ServeCall(i) \/ AnswerCall(i) \/ Fail(i) \/ LookupFails(i)

DeskSpec == DeskInit /\ [][DeskNext]_deskVars

-----------------------------------------------------------------------------
(* Properties.                                                             *)

DeskTypeOK ==
  /\ desk \in {"list", "away", "lookup", "threats"}
  /\ server \subseteq Blocks /\ issued \in [IPs -> 0 .. MaxBlocks]
  /\ blockedIPs \in [Blocks -> 0 .. 2]     \* at most loaded and then added
  /\ Len(calls) <= MaxCalls
  /\ selectedIP \in IPs \cup {Nil}
  /\ ipReputation \in [ip : IPs, is_blocked : BOOLEAN] \cup {Nil}
  /\ \A b \in {isLoading, showBlockDialog, isBlocking, showReputation, loadingReputation, wrong, mixed} :
       b \in BOOLEAN

\* When nothing is out the list is the server's, every block once, in
\* whatever order blocks, unblocks and loads were served and answered, by this
\* mount of BlockedIPsView or an earlier one; unless a load was overtaken by a
\* younger one, a call failed, or nothing was loaded since an answer to
\* ThreatsView added its block.
BlockedListSettles ==
  (desk = "list" /\ calls = <<>> /\ ~wrong) => blockedIPs = Listed

\* A mount of BlockedIPsView never has two blocks out, also when the form was cancelled
\* and opened again, so one address is not blocked twice by impatience; and
\* the button comes back with the answer.
OneBlockOut ==
  desk = "list" =>
    /\ Cardinality({i \in DOMAIN calls : calls[i].op = "block"}) = IF isBlocking THEN 1 ELSE 0
    /\ isLoading => "load" \in OutOps(calls)

\* The reputation dialog of BlockedIPsView never stays open on nothing, and
\* shows the address in its header unless two lookups overlapped.
ReputationOfHeader ==
  (showReputation /\ "lookup" \notin OutOps(calls))
    => /\ ~loadingReputation
       /\ desk = "lookup" => ipReputation # Nil
       /\ ~mixed => ipReputation # Nil /\ ipReputation.ip = selectedIP

\* However the forms are opened, cancelled and opened again while calls are
\* out: one block at a time, and the dialog shows the address it names.
DeskInv == DeskTypeOK /\ OneBlockOut /\ ReputationOfHeader
=============================================================================
