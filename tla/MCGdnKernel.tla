----------------------------- MODULE MCGdnKernel -----------------------------
(* An instance of GdnKernel for TLC. *)
EXTENDS GdnKernel, TLC
=============================================================================
