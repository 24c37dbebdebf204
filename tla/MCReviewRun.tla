----------------------------- MODULE MCReviewRun -----------------------------
(* ReviewRun for TLC: two reviewers, each with a caller of its own.          *)
EXTENDS ReviewRun
=============================================================================
