----------------------------- MODULE MCChatConsumer -----------------------------
(* Instances of ChatConsumer for TLC. *)
EXTENDS ChatConsumer

CONSTANTS u1, u2, k1, k2, k3, k4

\* u1 owns the chats, u2 is the other user of them
MCOwner == [c \in Chat |-> u1]
MCPeer  == [c \in Chat |-> u2]

\* k1 and k3 are two tabs of u1, k2 is u2's, k4 has no valid token
MCUserOf == [k \in Conn |-> CASE k \in {k1, k3} -> u1
                              [] k = k2 -> u2
                              [] k = k4 -> Anonymous]
MCChatOf == [k \in Conn |-> CHOOSE c \in Chat : TRUE]
================================================================================
