----------------------------- MODULE MCLifecycle -----------------------------
(***************************************************************************)
(* Values of Lifecycle's constants for the model checker.                  *)
(***************************************************************************)
EXTENDS Lifecycle

MCLoop == {"auth", "refresh"}

\* Every command line; only the Azure loop may have nothing to do.
MCConfigs == {c \in [loops : SUBSET MCLoop, quits : SUBSET {"auth"},
                     health : BOOLEAN] : c.quits \subseteq c.loops}
=============================================================================
