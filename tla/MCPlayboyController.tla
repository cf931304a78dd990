-------------------------- MODULE MCPlayboyController --------------------------
EXTENDS PlayboyController, TLC

Symmetry == Permutations(Items)
================================================================================
