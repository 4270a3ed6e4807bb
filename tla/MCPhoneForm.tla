------------------------------ MODULE MCPhoneForm -----------------------------
(* One phone and two inspections of one template, for TLC.                     *)
EXTENDS InspectionForm, TLC

AllChoices == [i \in Items |-> "ok_warn_fail"]
OneFinding == {[value |-> "fail", urgency |-> "none"]}
==============================================================================
