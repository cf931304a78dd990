---------------------------- MODULE MCQueueMetrics ----------------------------
EXTENDS QueueMetrics, TLC

Symmetry == Permutations(Items)
===============================================================================
