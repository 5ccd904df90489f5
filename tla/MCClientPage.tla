---------------------------- MODULE MCClientPage ----------------------------
(* Two people share a browser; each has an order. *)
EXTENDS ClientPage, TLC

CONSTANTS alice, bob, o1, o2

OneOrderEach == o1 :> alice @@ o2 :> bob

CallSymmetry == Permutations(Call)
=============================================================================
