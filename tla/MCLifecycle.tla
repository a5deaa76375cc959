---------------------------- MODULE MCLifecycle ----------------------------
(* A file for checking Lifecycle: a line of ordinary output and one of two records. *)
EXTENDS Lifecycle

CONSTANTS tail, http_, main

MCPerLine == <<0, 2>>
=============================================================================
