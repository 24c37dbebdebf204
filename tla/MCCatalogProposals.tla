-------------------------- MODULE MCCatalogProposals --------------------------
(* Findings, jobs and requests are model values; the runs check liveness, so no symmetry. *)
EXTENDS CatalogProposals
=============================================================================
