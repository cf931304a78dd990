----------------------------- MODULE MCDelayHeap ------------------------------
EXTENDS DelayHeap, TLC
===============================================================================
