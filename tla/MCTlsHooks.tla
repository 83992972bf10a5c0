------------------------------- MODULE MCTlsHooks -------------------------------
(* Instances of TlsHooks for TLC. *)
EXTENDS TlsHooks

BothSides == {"client", "upstream"}
UpstreamSide == {"upstream"}

===============================================================================
