----------------------------- MODULE MCSbfTport -----------------------------
(* Instances of SbfTport for TLC. *)
EXTENDS SbfTport

CONSTANTS p1, p2, s1

\* The publishers have one topic or two.
PubTopics == {[c \in Clients |-> IF c = p2 THEN topic ELSE "a"] : topic \in {"a", "b"}}
OneTopic == {[c \in Clients |-> "a"]}

\* udp: the publishers share a stream, the subscription has its own.
UdpKey == [c \in Clients |-> IF c \in Pubs THEN "pub" ELSE "sub"]

\* tcpmesh: there is one stream.
MeshKey == [c \in Clients |-> "mesh"]

UnitWeight == [c \in Subs |-> 1]
=============================================================================
