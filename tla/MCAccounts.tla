---------------------------- MODULE MCAccounts ----------------------------
(* Two clients behind one address. *)
EXTENDS Accounts, TLC

CONSTANT MaxWork        \* bound: requests, faults and ticks together

FewFaults == clock + calls + faults <= MaxWork

Symmetric == Permutations(Clients) \cup Permutations(Users)
=============================================================================
