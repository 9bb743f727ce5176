----------------------------- MODULE MCForwards -----------------------------
EXTENDS Forwards, TLC

CONSTANTS lo, any

\* three on one port: two that share no address, and one that has those of both
Fwd(h, a) == [host |-> h, binds |-> a]
MCNamed == {Fwd(1, {lo}), Fwd(1, {any}), Fwd(1, {lo, any})}

Symmetry == Permutations(Sups)
=============================================================================
