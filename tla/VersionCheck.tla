---------------------------- MODULE VersionCheck ----------------------------
(***************************************************************************)
(* Stale-tab detection: src/composables/useVersionCheck.ts over            *)
(* src/stores/version.ts.  Two fetches of the version go out when the      *)
(* console starts (main.ts and useVersionCheck), then an interval checks   *)
(* it again.  A fetch that is out when the interval fires again stays out. *)
(***************************************************************************)
EXTENDS Naturals, Sequences, SequencesExt

CONSTANTS
  MaxVersion,  \* bound: versions
  MaxDeploys,  \* bound: deployments while the tab is open
  MaxChecks,   \* bound: checks out at a time
  NoVersion

ASSUME VersionCheckAssumptions ==
  MaxVersion \in Nat \ {0} /\ MaxDeploys \in Nat /\ MaxChecks \in Nat \ {0} /\ NoVersion \notin Nat

Versions == 1 .. MaxVersion
Boots == {"main", "check"}     \* the two callers of fetchBackend

VARIABLES
  deployed, deploys,    \* the server's version, and deployments so far
  boot,                 \* per caller: [st: "sent", "served" or "over", v: the version served]
  backend,              \* store.backend: the version the badge shows, or NoVersion
  snapshot,
  checks,               \* checks out, oldest first: NoVersion, or the version served
  toasts,               \* "Update Available" toasts added
  overlapped            \* ghost: a check went out while another, or the fetch the
                        \* snapshot waits for, was out

versionVars == <<deployed, deploys, boot, backend, snapshot, checks, toasts, overlapped>>

\* A tab that has just been opened.
Opened(b, bk, sn, cs, ts, ov) ==
  /\ b = [k \in Boots |-> [st |-> "sent", v |-> NoVersion]]
  /\ bk = NoVersion /\ sn = NoVersion /\ cs = <<>> /\ ts = 0 /\ ov = FALSE

VersionInit ==
  /\ deployed = 1 /\ deploys = 0
  /\ Opened(boot, backend, snapshot, checks, toasts, overlapped)

\* The page is loaded again.
VersionReload ==
  /\ Opened(boot', backend', snapshot', checks', toasts', overlapped')
  /\ UNCHANGED <<deployed, deploys>>

-----------------------------------------------------------------------------

\* Another version is deployed, perhaps an earlier one (external).
Deploy(v) ==
  /\ v # deployed /\ deploys < MaxDeploys
  /\ deployed' = v /\ deploys' = deploys + 1
  /\ UNCHANGED <<boot, backend, snapshot, checks, toasts, overlapped>>

ServeBoot(k) ==
  /\ boot[k].st = "sent"
  /\ boot' = [boot EXCEPT ![k] = [st |-> "served", v |-> deployed]]
  /\ UNCHANGED <<deployed, deploys, backend, snapshot, checks, toasts, overlapped>>

\* fetchBackend is over with v in the store; useVersionCheck's own call takes
\* its snapshot then, of whichever answer is there (null if none is).
Fetched(k, v) ==
  /\ backend' = v
  /\ snapshot' = IF k = "check" THEN v ELSE snapshot

fetchBackend(k) ==
  /\ boot[k].st = "served"
  /\ boot' = [boot EXCEPT ![k] = [st |-> "over", v |-> NoVersion]]
  /\ Fetched(k, boot[k].v)
  /\ UNCHANGED <<deployed, deploys, checks, toasts, overlapped>>

\* The fetch failed: fetchError, which only the badge shows.
FetchFails(k) ==
  /\ boot[k].st # "over"
  /\ boot' = [boot EXCEPT ![k] = [st |-> "over", v |-> NoVersion]]
  /\ Fetched(k, backend)
  /\ UNCHANGED <<deployed, deploys, checks, toasts, overlapped>>

\* The interval fires.
Tick ==
  /\ Len(checks) < MaxChecks
  /\ checks' = Append(checks, NoVersion)
  /\ overlapped' = (overlapped \/ checks # <<>> \/ boot["check"].st # "over")
  /\ UNCHANGED <<deployed, deploys, boot, backend, snapshot, toasts>>

ServeCheck(i) ==
  /\ i \in DOMAIN checks /\ checks[i] = NoVersion
  /\ checks' = [checks EXCEPT ![i] = deployed]
  /\ UNCHANGED <<deployed, deploys, boot, backend, snapshot, toasts, overlapped>>

\* Mutants: the toast is shown again on every check; only a higher version
\* counts as a new one.
checkAgain(i) ==
  /\ i \in DOMAIN checks /\ checks[i] # NoVersion
  /\ checks' = RemoveAt(checks, i)
  /\ toasts' = IF snapshot # NoVersion /\ checks[i] # snapshot THEN toasts + 1 ELSE toasts
  /\ toasts' <= MaxDeploys + 1
  /\ UNCHANGED <<deployed, deploys, boot, backend, snapshot, overlapped>>

checkNewer(i) ==
  /\ i \in DOMAIN checks /\ checks[i] # NoVersion
  /\ checks' = RemoveAt(checks, i)
  /\ \/ /\ snapshot # NoVersion /\ checks[i] > snapshot
        /\ toasts' = toasts + 1 /\ snapshot' = checks[i]
     \/ /\ ~(snapshot # NoVersion /\ checks[i] > snapshot)
        /\ UNCHANGED <<toasts, snapshot>>
  /\ UNCHANGED <<deployed, deploys, boot, backend, overlapped>>

\* check is answered; notifyUpdateAvailable if the version is another one.
check(i) ==
  /\ i \in DOMAIN checks /\ checks[i] # NoVersion
  /\ checks' = RemoveAt(checks, i)
  /\ \/ /\ snapshot # NoVersion /\ checks[i] # snapshot
        /\ toasts' = toasts + 1 /\ snapshot' = checks[i]
     \/ /\ snapshot = NoVersion \/ checks[i] = snapshot
        /\ UNCHANGED <<toasts, snapshot>>
  /\ UNCHANGED <<deployed, deploys, boot, backend, overlapped>>

\* A check fails: it is ignored.
CheckFails(i) ==
  /\ i \in DOMAIN checks
  /\ checks' = RemoveAt(checks, i)
  /\ UNCHANGED <<deployed, deploys, boot, backend, snapshot, toasts, overlapped>>

-----------------------------------------------------------------------------

VersionTypeOK ==
  /\ deployed \in Versions /\ deploys \in 0 .. MaxDeploys
  /\ boot \in [Boots -> [st : {"sent", "served", "over"}, v : Versions \cup {NoVersion}]]
  /\ backend \in Versions \cup {NoVersion} /\ snapshot \in Versions \cup {NoVersion}
  /\ Range(checks) \subseteq Versions \cup {NoVersion} /\ Len(checks) <= MaxChecks
  /\ toasts \in Nat /\ overlapped \in BOOLEAN

\* Every toast is a deployment of its own, in whatever order the two fetches
\* of the start are answered or fail; when a check overlaps another or the
\* fetch of the snapshot there may be more, but none without a deployment.
ToastsAreDeploys ==
  /\ ~overlapped => toasts <= deploys
  /\ deploys = 0 => toasts = 0
=============================================================================
