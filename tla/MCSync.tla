------------------------------- MODULE MCSync -------------------------------
(* Small instances of Sync for TLC. *)
EXTENDS Sync

\* Every item from one source, a file each.
OneSource == [i \in Items |-> CHOOSE s \in Sources : TRUE]
OwnFile == [i \in Items |-> i]

\* Two items that name the same file.
SharedFile == [i \in Items |-> CHOOSE f \in Files : TRUE]

\* Two items, a source each.
Apart == CHOOSE g \in [Items -> Sources] : \A i, j \in Items : i # j => g[i] # g[j]

\* A pass once begun goes on, the background loop keeps starting passes, and
\* the disturbances end.
Fairness ==
    /\ \A p \in Procs : WF_vars(Step(p))
    /\ \A p \in Procs \ WebProcs : WF_vars(StartPass(p))
    /\ WF_vars(CalmDown)

FairSpec == Spec /\ Fairness
=============================================================================
