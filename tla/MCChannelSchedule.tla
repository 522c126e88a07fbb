---------------------------- MODULE MCChannelSchedule ----------------------------
(* Instances of ChannelSchedule for TLC. *)
EXTENDS ChannelSchedule

CONSTANTS u1

\* u1 owns every channel
MCOwner == [c \in Channel |-> u1]
================================================================================
