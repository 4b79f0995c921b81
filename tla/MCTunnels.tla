------------------------------ MODULE MCTunnels ------------------------------
(* The instance TLC checks: once a job failed or was killed, only the removal *)
(* of everything is tried, and before it the repair of HAProxy where that     *)
(* finds something to do; the last of the jobs is over all tunnels.           *)
EXTENDS Tunnels

Repairable == IF ReturnsEarly("repair", "") THEN {} ELSE {"repair"}

SpoiledIsPurged ==
  job.name = "none" =>
    /\ spoiled => job'.name \in {"none", "uninstall_all", "remove"} \cup Repairable
    /\ jobs = MaxJobs - 1 => job'.name \in {"none", "install_all", "uninstall_all", "remove"}
==============================================================================
