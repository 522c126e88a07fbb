-------------------------------- MODULE MCGroup --------------------------------
(* Groups for TLC: the consumer, the permission row and the likes.  The parts     *)
(* share no variable, so a behaviour of one of them is enough: part names the one *)
(* that runs, the others stay in their initial state.                             *)
EXTENDS GroupRoom, GroupRights, Likes

CONSTANTS u1, u2, k1, k2, s1, s2

\* the owner of the group has connection k1
MCUserOf  == [k \in Conn |-> IF k = k1 THEN u1 ELSE u2]
MCLikerOf == [s \in Socket |-> IF s = s1 THEN u1 ELSE u2]

VARIABLE part

MCInit ==
  /\ part \in {"room", "rights", "likes"}
  /\ Init /\ RightsInit /\ LikesInit
  /\ part # "room" => isPrivate /\ rights = {}

MCNext ==
  /\ UNCHANGED part
  /\ \/ part = "room" /\ Next /\ UNCHANGED <<rightsVars, likesVars>>
     \/ part = "rights" /\ RightsNext /\ UNCHANGED <<vars, likesVars>>
     \/ part = "likes" /\ LikesNext /\ UNCHANGED <<vars, rightsVars>>

MCSpec == MCInit /\ [][MCNext]_<<part, vars, rightsVars, likesVars>>

\* every variable of the three modules has its type
TypesOK == RoomTypeOK /\ RightsTypeOK /\ LikesTypeOK
=============================================================================
