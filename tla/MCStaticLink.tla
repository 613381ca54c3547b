---------------------------- MODULE MCStaticLink ----------------------------
(* All programs of a few functions, with a few activations. *)
EXTENDS StaticLink
=============================================================================
