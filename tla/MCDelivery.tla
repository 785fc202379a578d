----------------------------- MODULE MCDelivery -----------------------------
(* Small instances of Delivery for TLC. *)
EXTENDS DeliveryProperties, TLC

CONSTANTS m1, m2, t1, r1, r2, box

OneThread == [m \in Messages |-> t1]

DryRun == [mode |-> "dry_run", live_enabled |-> FALSE, mailbox |-> None]
Sandbox == [mode |-> "sandbox", live_enabled |-> FALSE, mailbox |-> box]
Live == [mode |-> "live", live_enabled |-> TRUE, mailbox |-> None]
Ungated == [mode |-> "live", live_enabled |-> FALSE, mailbox |-> None]

OnlySandbox == {Sandbox}
OnlyLive == {Live}
SandboxOrLive == {Sandbox, Live}
EveryMode == {DryRun, Sandbox, Live, Ungated}

Symmetry == Permutations(Runs) \cup Permutations(Messages)
=============================================================================
