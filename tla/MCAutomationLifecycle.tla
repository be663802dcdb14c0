------------------------- MODULE MCAutomationLifecycle -------------------------
(* The TLC instance of AutomationLifecycle; the calls are told apart by liveness. *)
EXTENDS AutomationLifecycle

=============================================================================
