--------------------------- MODULE ExecutionContract ---------------------------
(***************************************************************************)
(* What the admin account may rely on about the executions of the agent's  *)
(* state machine: an execution that ends normally has sent exactly one     *)
(* result, which agrees with the way it ended; one that fails or is        *)
(* stopped has sent none, so that somebody has to ask for it               *)
(* (check_running_run_databases).  DiscoveryStateMachine implements it; in *)
(* DiscoveryJob it is what ExecEnds and StopRunDatabase do to an execution.*)
(***************************************************************************)
CONSTANT Execution

VARIABLES
    exec,   \* [Execution -> status]; REPORTED_FAILED ended normally, with a failed Result
    sent    \* [Execution -> Result.State of the message sent, or "NONE"]

contractVars == <<exec, sent>>

Ends == [SUCCEEDED |-> "Succeeded", REPORTED_FAILED |-> "Failed", FAILED |-> "NONE"]

Init ==
    /\ exec = [e \in Execution |-> "NONE"]
    /\ sent = [e \in Execution |-> "NONE"]

Start(e) ==
    /\ exec[e] = "NONE"
    /\ exec' = [exec EXCEPT ![e] = "RUNNING"]
    /\ UNCHANGED sent

End(e) ==
    /\ exec[e] = "RUNNING"
    /\ \E end \in DOMAIN Ends :
           /\ exec' = [exec EXCEPT ![e] = end]
           /\ sent' = [sent EXCEPT ![e] = Ends[end]]

Stop(e) ==
    /\ exec[e] = "RUNNING"
    /\ exec' = [exec EXCEPT ![e] = "ABORTED"]
    /\ UNCHANGED sent

Next == \E e \in Execution : Start(e) \/ End(e) \/ Stop(e)

Spec == Init /\ [][Next]_contractVars
=============================================================================
