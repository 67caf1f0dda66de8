---------------------------- MODULE MCAdminLive ----------------------------
(* Keys and models are interchangeable: no definition or property picks one. *)
EXTENDS AdminLive, TLC

Interchangeable == Permutations(Keys) \cup Permutations(Models)
=============================================================================
