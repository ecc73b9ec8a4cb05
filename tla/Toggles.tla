------------------------------- MODULE Toggles -------------------------------
(***************************************************************************)
(* The switches AutomationFragment has a listener and a command for.       *)
(***************************************************************************)
EXTENDS Integers

CONSTANT NumToggles   \* in layout order; firstToggle to thirdToggle in the code

ASSUME NumTogglesAssumption == NumToggles \in Nat

Toggle == 1..NumToggles
=============================================================================
