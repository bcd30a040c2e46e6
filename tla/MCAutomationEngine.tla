------------------------- MODULE MCAutomationEngine -------------------------
(***************************************************************************)
(* AutomationEngine for TLC.  The constants are model values.              *)
(***************************************************************************)
EXTENDS AutomationEngine
=============================================================================
