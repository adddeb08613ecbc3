--------------------------- MODULE MCSwarmRuntime ---------------------------
(* Instances of SwarmRuntime: the certificate and its key, alone or after a  *)
(* secret that a plugin generates from data that does not change.            *)
EXTENDS SwarmRuntime, TLC

PeerOnly == <<"peer.crt", "peer.key">>
WithPlugin == <<"plugin">> \o PeerOnly

\* The name of the second agent begins with that of the first.
OneLonger == {<<"x", "xy">>}

Symmetry == Permutations(Handlers) \cup Permutations(Certs)
=============================================================================
