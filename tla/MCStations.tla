------------------------------ MODULE MCStations ------------------------------
(* The run of Stations: no station is different from the others.           *)
EXTENDS Stations, TLC

Symmetry == Permutations(Mac)
=============================================================================
