--------------------------- MODULE MCTorLifecycle ---------------------------
(* Every configuration of Start that differs for the model. *)
EXTENDS TorLifecycle

MCConfs == {c \in ConfType : c.retain => c.temp}
=============================================================================
