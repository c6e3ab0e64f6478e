--------------------------- MODULE MCRolloutServing ---------------------------
(* Configurations for model-checking RolloutServing. *)
EXTENDS RolloutServing

Serves(colocated, pauses, aborts, warmup, sync, test, wait, steps) ==
  [colocated |-> colocated, pauses |-> pauses, aborts |-> aborts, warmup |-> warmup,
   sync |-> sync, test |-> test, wait |-> wait, steps |-> steps]

\* separate_async with a synchronisation at every step and at every second one,
\* validations aligned with it and not, no batch in flight and one, both vLLM
\* behaviours, and colocate_async with both strategies; the failing abort with
\* one batch in flight and with none, where replicas leave, return and are
\* aborted again.
ServingConfigs ==
  {Serves(FALSE, TRUE, TRUE, 1, 1, 2, 0, 3), Serves(FALSE, TRUE, FALSE, 1, 1, 1, 0, 2),
   Serves(FALSE, TRUE, TRUE, 1, 2, 1, 0, 2), Serves(FALSE, TRUE, TRUE, 1, 2, 2, 0, 2),
   Serves(FALSE, FALSE, TRUE, 1, 1, 2, 0, 2), Serves(FALSE, TRUE, FALSE, 0, 1, 1, 0, 3),
   Serves(TRUE, TRUE, TRUE, 1, 1, 2, 0, 3), Serves(TRUE, TRUE, FALSE, 1, 1, 2, 2, 3)}

\* The "wait" strategy with hybrid replicas that come back only for validation.
WaitConfigs == {Serves(FALSE, TRUE, TRUE, 1, 1, 4, 2, 4)}
=============================================================================
