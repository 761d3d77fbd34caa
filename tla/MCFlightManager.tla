--------------------------- MODULE MCFlightManager ---------------------------
EXTENDS FlightManager, TLC

(* Handlers are interchangeable; used by the runs that check safety only.  *)
HandlerSymmetry == Permutations(Handlers)
=============================================================================
