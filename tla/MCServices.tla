------------------------------ MODULE MCServices ------------------------------
(* Small instances of every service for TLC.                                   *)
EXTENDS Services, TLC

AllChoices == [i \in Items |-> "ok_warn_fail"]
TwoFindings == {[value |-> "warn", urgency |-> "none"], [value |-> "fail", urgency |-> "none"]}
OneCookie == [t \in Tabs |-> "browser"]
TwoInstances == {"a", "b"}
TwoConnections == [a |-> {"a1", "a2"}, b |-> {"b1", "b2"}]
==============================================================================
