----------------------------- MODULE MCReconcilers -----------------------------
EXTENDS Reconcilers
===============================================================================
