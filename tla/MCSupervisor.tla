---------------------------- MODULE MCSupervisor ----------------------------
(* Instances of Supervisor: which handlers run side by side.               *)
EXTENDS Supervisor

CONSTANTS s1, s2

ConfigAndToken == [s \in Saves |-> IF s = s1 THEN "config" ELSE "token"]
SecretAndTracker == [s \in Saves |-> IF s = s1 THEN "secret" ELSE "tracker"]

\* The loop's task, and a handler that has started, are run by the executor.
\* The timer is assumed only once a handler has been dropped: until then a
\* sleep may last for ever unless it is woken.
FairSpec ==
    /\ Spec
    /\ WF_vars(Loop) /\ WF_vars(notify_one)
    /\ \A s \in Saves : WF_vars(Handle(s))
    /\ WF_vars(Dropped /\ Timer)
=============================================================================
