---------------------------- MODULE MCPlayboyQueue ----------------------------
EXTENDS PlayboyQueue, TLC

Symmetry == Permutations(Items)
===============================================================================
