---------------------------- MODULE ProviderPool ----------------------------
(***************************************************************************)
(* The provider_credentials table, as the chat handler and the admin API   *)
(* use it: crates/storage/src/repo/provider.rs.  Each operation is one SQL *)
(* statement, hence one step.  The rows exist throughout: creating,        *)
(* editing and deleting a provider are left out.                           *)
(***************************************************************************)
EXTENDS Integers

CONSTANTS
  Provider,   \* provider ids
  Reason,     \* values of disabled_reason
  Limit,      \* quota_limit of each provider; 0 stands for none, or none above zero
  Threshold   \* quota_threshold, in percent

ASSUME PoolConstants ==
  /\ Limit \in [Provider -> Nat]
  /\ Threshold \in Nat \ {0}
  /\ "active" \notin Reason

VARIABLES
  status,     \* "active", or the reason why the provider is disabled
  used,       \* quota_used
  alertSent   \* quota_alert_sent

pool == <<status, used, alertSent>>

PoolInit ==
  /\ status    = [p \in Provider |-> "active"]
  /\ used      = [p \in Provider |-> 0]
  /\ alertSent = [p \in Provider |-> FALSE]

PoolTypeOK ==
  /\ status \in [Provider -> Reason \cup {"active"}]
  /\ used \in [Provider -> Int]
  /\ alertSent \in [Provider -> BOOLEAN]

IsActive(p) == status[p] = "active"

(* An unconditional UPDATE: whatever the status was, the last one wins.    *)
SetStatus(p, s) ==
  /\ status' = [status EXCEPT ![p] = s]
  /\ UNCHANGED <<used, alertSent>>

(* UPDATE ... RETURNING: the caller sees used'[p] and alertSent[p].        *)
AddUsage(p, n) ==
  /\ used' = [used EXCEPT ![p] = @ + n]
  /\ UNCHANGED <<status, alertSent>>

MarkAlertSent(p) ==
  /\ alertSent' = [alertSent EXCEPT ![p] = TRUE]
  /\ UNCHANGED <<status, used>>

(* Wrong: the sync leaves the alerts silenced.                             *)
SyncQuotaSilent(p, n) ==
  /\ used' = [used EXCEPT ![p] = n]
  /\ UNCHANGED <<status, alertSent>>

(* The provider's own figure replaces the count, and alerts are re-armed.  *)
SyncQuota(p, n) ==
  /\ used' = [used EXCEPT ![p] = n]
  /\ alertSent' = [alertSent EXCEPT ![p] = FALSE]
  /\ UNCHANGED status

(* The handler's test for an alert, on the figure that add_usage returned. *)
ReachesThreshold(p, n) == Limit[p] > 0 /\ (n * 100) \div Limit[p] >= Threshold
=============================================================================
