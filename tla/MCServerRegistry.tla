-------------------------- MODULE MCServerRegistry --------------------------
(***************************************************************************)
(* Small instances of ServerRegistry.  One name is the key of the other,   *)
(* so that an Edit can give a server its own key as name.                  *)
(***************************************************************************)
EXTENDS ServerRegistry, TLC

TwoNames == {"a", "srv_a"}
TwoKeys  == {"srv_a", "srv_srv_a"}
TwoKey   == ("a" :> "srv_a") @@ ("srv_a" :> "srv_srv_a")

Symmetry == Permutations(Nodes)

=============================================================================
