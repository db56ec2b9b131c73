---------------------------- MODULE InstanceRecord ----------------------------
(***************************************************************************)
(* What provisioning_service promises about the committed rows of an       *)
(* instance, whichever handlers run concurrently: the status, the released *)
(* hold, the SSH session and the deletion receipt change together, in      *)
(* these seven ways only.  InstanceLifecycle implements it; BillingMeters  *)
(* takes it as the provisioning service it listens to.                     *)
(*                                                                         *)
(* Start and Fail start from a settled row too: a handler that loaded the  *)
(* row before a concurrent teardown overwrites the status it committed.    *)
(***************************************************************************)
CONSTANTS Instances, KillSwitchDeployed

VARIABLES status, holdReleased, ssh, receipt

record == <<status, holdReleased, ssh, receipt>>

Init ==
    /\ status = [i \in Instances |-> "none"]
    /\ holdReleased = [i \in Instances |-> FALSE]
    /\ ssh = [i \in Instances |-> "none"]
    /\ receipt = [i \in Instances |-> "none"]

Create(i) ==
    /\ status[i] = "none"
    /\ status' = [status EXCEPT ![i] = "pending"]
    /\ UNCHANGED <<holdReleased, ssh, receipt>>

\* The only way into running, together with the only SSH session.
Start(i) ==
    /\ status[i] \in {"pending", "failed", "terminated"}
    /\ ssh[i] = "none"
    /\ status' = [status EXCEPT ![i] = "running"]
    /\ ssh' = [ssh EXCEPT ![i] = "live"]
    /\ UNCHANGED <<holdReleased, receipt>>

Fail(i) ==
    /\ status[i] # "none"
    /\ status' = [status EXCEPT ![i] = "failed"]
    /\ UNCHANGED <<holdReleased, ssh, receipt>>

\* Teardown settles everything it can see in one transaction.
Settle(i) ==
    /\ status[i] # "none"
    /\ status' = [status EXCEPT ![i] = "terminated"]
    /\ holdReleased' = [holdReleased EXCEPT ![i] = TRUE]
    /\ \E k \in {ssh[i], "revoked"} :
          /\ k = "revoked" => ssh[i] # "none"
          /\ ssh' = [ssh EXCEPT ![i] = k]
    /\ \E r \in {"verified", "unverified"} :
          /\ receipt[i] \in {"none", r}
          /\ receipt' = [receipt EXCEPT ![i] = r]

\* The host agent reports the deletion before any teardown recorded it.
Report(i) ==
    /\ status[i] # "none"
    /\ receipt[i] = "none"
    /\ receipt' = [receipt EXCEPT ![i] = "verified"]
    /\ UNCHANGED <<status, holdReleased, ssh>>

Kill(i) ==
    /\ KillSwitchDeployed
    /\ status[i] # "none"
    /\ status' = [status EXCEPT ![i] = "terminated"]
    /\ holdReleased' = [holdReleased EXCEPT ![i] = TRUE]
    /\ UNCHANGED <<ssh, receipt>>

\* wallet_billing_service refunds the hold of a failed launch.
Release(i) ==
    /\ status[i] # "none"
    /\ holdReleased' = [holdReleased EXCEPT ![i] = TRUE]
    /\ UNCHANGED <<status, ssh, receipt>>

Next == \E i \in Instances :
    Create(i) \/ Start(i) \/ Fail(i) \/ Settle(i) \/ Report(i) \/ Kill(i)
    \/ Release(i)

Spec == Init /\ [][Next]_record
===============================================================================
