---------------------------- MODULE MCPeerProbe -----------------------------
(***************************************************************************)
(* Small instances of PeerProbe: a prober c (node_id 1) and the nodes s, t *)
(* and u (node_ids 2, 3 and 4).                                            *)
(***************************************************************************)
EXTENDS PeerProbe

CONSTANTS c, s, t, u

MCIds == 1 .. 4
MCNodeId ==
    [n \in Nodes |-> CASE n = c -> 1 [] n = s -> 2 [] n = t -> 3 [] n = u -> 4]

\* config/peer1.toml lists the node itself among its peers.
OneServer ==
    [n \in Nodes |->
        IF n = c THEN <<[id |-> 2, addr |-> s]>> ELSE <<>>]

\* c has the address of node 3 in its entry for peer 4, u no usable address in
\* its entry for peer 3; u, which runs another wire version, probes c as well.
Misconfigured ==
    [n \in Nodes |->
        IF n = c THEN <<[id |-> 1, addr |-> c], [id |-> 4, addr |-> t],
                        [id |-> 3, addr |-> t], [id |-> 2, addr |-> s]>>
        ELSE IF n = u THEN <<[id |-> 3, addr |-> NoAddr], [id |-> 1, addr |-> c]>>
        ELSE <<>>]

OneVersion == [n \in Nodes |-> 1]
MixedVersions == [n \in Nodes |-> IF n = u THEN 2 ELSE 1]
MCSkew == [n \in Nodes |-> IF n = c THEN 0 ELSE 3]
MCWallSkew == [n \in Nodes |-> 7]
=============================================================================
