------------------------ MODULE MCResourceReconciler ------------------------
EXTENDS ReconcilerRefinement
=============================================================================
