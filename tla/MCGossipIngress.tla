-------------------------- MODULE MCGossipIngress --------------------------
(* This node and a client on the same host, and five envelopes: three are  *)
(* good, one of them longer than a handshake buffer, one is forged and one *)
(* exhausted.                                                              *)
EXTENDS GossipIngress

ClientSockets == {"10.0.0.1:9999"}

Nodes == {"10.0.0.1:1337"}

Node == "10.0.0.1:1337"

Host(a) == "10.0.0.1"

Envelope(sig, ttl, genuine, fits) == [sig |-> sig, ttl |-> ttl, genuine |-> genuine, fits |-> fits]

Garbage == Envelope("none", 0, FALSE, FALSE)

(* A node broadcasts data of its own.                                      *)
SignedBy(p, e) == Envelope("own", e.ttl, TRUE, e.fits)

Sent == {Envelope("a", 3, TRUE, TRUE), Envelope("b", 1, TRUE, FALSE), Envelope("c", 3, TRUE, TRUE),
         Envelope("f", 3, FALSE, FALSE), Envelope("z", 0, TRUE, FALSE)}
=============================================================================
