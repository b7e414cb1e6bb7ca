--------------------------- MODULE MCPoolRefiller ---------------------------
EXTENDS PoolRefiller, TLC

OnePerShard == {[kind |-> "PerShard", target |-> 1]}
TwoPerHost == {[kind |-> "PerHost", target |-> 2]}
Either == OnePerShard \cup TwoPerHost

KeyspaceSymmetry == Permutations(Keyspaces)

=============================================================================
