------------------------------ MODULE MCDashboard ------------------------------
(* Small instances of Dashboard for TLC. *)
EXTENDS Dashboard

OneEvent == {1}
OtherEvent == {2}
TwoEvents == {1, 2}
TwoSockets == {1, 2}
OnePoll == {1}
=============================================================================
