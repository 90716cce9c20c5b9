--------------------------- MODULE MCWantedBindings ---------------------------
(* WantedBindings on the instances of MCReconcile. *)
EXTENDS WantedBindings, MCReconcile
==============================================================================
