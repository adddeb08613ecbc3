--------------------------- MODULE MCGrpcChannels ---------------------------
(* Instances of GrpcChannels: callers of one address that agree on what they *)
(* ask for, with and without a persistent channel; a caller without options  *)
(* among GRPCConnectionCoroutines, which ask for keepalive; a caller of      *)
(* channel, persistent by default, among callers of stub; and persistent     *)
(* callers that want different values of an option.                          *)
EXTENDS GrpcChannels

CONSTANTS keepalive, large, u1

Wish(p, o) == [persistent |-> p, option |-> o]

MCWishes ==
    {[u \in User |-> Wish(p, keepalive)] : p \in BOOLEAN} \cup
    {[u \in User |-> IF u = u1 THEN Wish(FALSE, NoOption) ELSE Wish(FALSE, keepalive)],
     [u \in User |-> IF u = u1 THEN Wish(TRUE, NoOption) ELSE Wish(FALSE, NoOption)],
     [u \in User |-> IF u = u1 THEN Wish(TRUE, keepalive) ELSE Wish(TRUE, large)]}
=============================================================================
