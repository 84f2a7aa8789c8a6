------------------------------ MODULE MCClient ------------------------------
(* Client: the sizes of a run are in the configuration.                    *)
EXTENDS Client

=============================================================================
