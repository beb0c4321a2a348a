----------------------- MODULE MCTicketLifecycle -----------------------
(* TLC instances of TicketLifecycle. *)
EXTENDS TicketLifecycle, TLC

\* Request slots are interchangeable: no handler reads its own slot.
RequestSymmetry == Permutations(Requests)

=========================================================================
