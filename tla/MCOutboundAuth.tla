---------------------------- MODULE MCOutboundAuth ----------------------------
(* OutboundAuth for the model checker: None is a model value, and the times  *)
(* keep the order of the code's 55 and 60 minutes.                           *)
EXTENDS OutboundAuth
=============================================================================
