--------------------------- MODULE PublishContract ---------------------------
(***************************************************************************)
(* What publishPackages (packages/publish/src/index.ts) promises to the    *)
(* pipeline that awaits it: nothing reaches the registry while the         *)
(* preparatory scripts run; then packages are accepted one at a time; the  *)
(* call resolves only if every package was accepted, and once it has       *)
(* settled nothing more is uploaded.  How many scripts run, in what order  *)
(* and with which limits is the business of module PublishStages.          *)
(***************************************************************************)
CONSTANT ToPublish       \* the workspaces whose archive must be uploaded

VARIABLES
    status,              \* "preparing", "publishing", "resolved", "rejected"
    published            \* the subset of ToPublish the registry accepted

vars == <<status, published>>

Init ==
    /\ status = "preparing"
    /\ published = {}

\* The last preparatory script has succeeded.
Begin ==
    /\ status = "preparing"
    /\ status' = "publishing"
    /\ UNCHANGED published

\* The registry accepts one more archive.
Accept(w) ==
    /\ status = "publishing"
    /\ w \notin published
    /\ published' = published \cup {w}
    /\ UNCHANGED status

\* The promise resolves: every archive is in the registry.
Resolve ==
    /\ status = "publishing"
    /\ published = ToPublish
    /\ status' = "resolved"
    /\ UNCHANGED published

\* The promise rejects, before or after some archives were accepted.
Reject ==
    /\ status \in {"preparing", "publishing"}
    /\ status' = "rejected"
    /\ UNCHANGED published

Next ==
    \/ Begin
    \/ \E w \in ToPublish : Accept(w)
    \/ Resolve
    \/ Reject

Spec == Init /\ [][Next]_vars
==============================================================================
