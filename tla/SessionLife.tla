----------------------------- MODULE SessionLife -----------------------------
(***************************************************************************)
(* What the backend-for-frontend promises about a session, without store,  *)
(* tokens or cookies: a session is created once and is granted to callers  *)
(* that look it up while it is live.  Only a caller at work with the       *)
(* session ends it, and an ended session is never granted again.  A lapsed *)
(* one comes back only when a caller that was granted it before it lapsed, *)
(* and is still at work, writes it once more.                              *)
(* BffSession implements this specification.                               *)
(***************************************************************************)
CONSTANT Callers

VARIABLES
  life,   \* "unborn", "live", "lapsed" (timed out or lost), "ended" (deleted)
  view    \* per caller: "out", "asking", at work with the session it was
          \* "granted", or "served" with it

lifeVars == <<life, view>>

Init ==
  /\ life = "unborn"
  /\ view = [c \in Callers |-> "out"]

\* A sign-in creates the session, or fails to store it.
Create ==
  /\ life = "unborn"
  /\ life' \in {"live", "lapsed"}
  /\ UNCHANGED view

Ask(c) ==
  /\ life # "unborn"
  /\ view' = [view EXCEPT ![c] = "asking"]
  /\ UNCHANGED life

\* The only way in: the session is live at the moment of the lookup.
Grant(c) ==
  /\ view[c] = "asking" /\ life = "live"
  /\ view' = [view EXCEPT ![c] = "granted"]
  /\ UNCHANGED life

\* Callers are refused or stop using the session; it may lapse meanwhile (a
\* restart does both at once).
Leave(gone) ==
  /\ view' = [c \in Callers |-> IF c \in gone THEN "out" ELSE view[c]]
  /\ \/ UNCHANGED life
     \/ life = "live" /\ life' = "lapsed"

\* A caller is done with the session and was answered as signed in.
Serve(c) ==
  /\ view[c] = "granted"
  /\ view' = [view EXCEPT ![c] = "served"]
  /\ UNCHANGED life

\* A caller at work writes the session after it lapsed, and may be done with
\* that step.
Renew(c) ==
  /\ view[c] = "granted" /\ life = "lapsed"
  /\ life' = "live"
  /\ view' \in {view, [view EXCEPT ![c] = "served"]}

\* A caller that holds the session ends it, and may leave with that step.
End(c) ==
  /\ view[c] = "granted" /\ life \in {"live", "lapsed"}
  /\ life' = "ended"
  /\ view' \in {view, [view EXCEPT ![c] = "out"]}

Next ==
  \/ Create
  \/ \E c \in Callers : Ask(c) \/ Grant(c) \/ Serve(c) \/ Renew(c) \/ End(c)
  \/ \E gone \in SUBSET Callers : Leave(gone)

Spec == Init /\ [][Next]_lifeVars
=============================================================================
