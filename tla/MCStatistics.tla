----------------------------- MODULE MCStatistics ----------------------------
(* Quantiles for TLC.                                                      *)
EXTENDS Statistics

(* The five of ProcessInternal and the ones of the unit tests              *)
PrintedAlphas == {<<9999, 10000>>, <<999, 1000>>, <<99, 100>>, <<95, 100>>, <<5, 10>>}
TestedAlphas == {<<0, 10>>, <<1, 10>>, <<25, 100>>, <<75, 100>>, <<9, 10>>, <<10, 10>>}
AllAlphas == PrintedAlphas \cup TestedAlphas
=============================================================================
