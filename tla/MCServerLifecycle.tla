------------------------- MODULE MCServerLifecycle -------------------------
(* A small instance of ServerLifecycle: the boundary values of the request *)
(* limit.                                                                  *)
EXTENDS ServerLifecycle

MCEnvSizes == {-1, 0, 1}

=============================================================================
