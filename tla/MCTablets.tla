------------------------------ MODULE MCTablets ------------------------------
EXTENDS Tablets, TLC

\* A node may change its address, or its rack and datacenter.
MCPeerData ==
    {[dc |-> "dc1", rack |-> 1, address |-> 1],
     [dc |-> "dc1", rack |-> 1, address |-> 2],
     [dc |-> "dc2", rack |-> 2, address |-> 1]}

HostSymmetry == Permutations(HostIds)

=============================================================================
