----------------------------- MODULE MCReviewer -----------------------------
EXTENDS MCOperations, Reviewer
=============================================================================
