----------------------- MODULE MCExternalApiExecutor -----------------------
(* The instance TLC checks: an apply and a read share one executor. *)
EXTENDS ExternalApiExecutor

CONSTANTS a1, r1

OneOfEach == {a1, r1}
OneApply == {a1}
=============================================================================
