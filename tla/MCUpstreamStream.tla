--------------------------- MODULE MCUpstreamStream ---------------------------
(* The instance of UpstreamStream for TLC. *)
EXTENDS UpstreamStream
=============================================================================
