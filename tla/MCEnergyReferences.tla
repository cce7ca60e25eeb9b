-------------------------- MODULE MCEnergyReferences --------------------------
(* EnergyReferences for TLC.  Two sensors may take each other's place, and are *)
(* interchangeable.                                                            *)
EXTENDS EnergyReferences, TLC

ASSUME ReferenceAssumption == ReferenceConstants

Symmetry == Permutations(Devices)
===============================================================================
