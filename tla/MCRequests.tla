------------------------------- MODULE MCRequests -------------------------------
(* HTTP requests for TLC: the rows of a channel, and the requests that look for a *)
(* row before they insert it.  The parts share no variable: part names the one    *)
(* that runs, the other stays in its initial state.                               *)
EXTENDS ChannelRows, Inserts

VARIABLE part

MCInit ==
  /\ part \in {"rows", "inserts"}
  /\ RowsInit /\ InsertsInit
  /\ part = "rows" => table = "chat"

MCNext ==
  /\ UNCHANGED part
  /\ \/ part = "rows" /\ RowsNext /\ UNCHANGED insertsVars
     \/ part = "inserts" /\ InsertsNext /\ UNCHANGED rowsVars

MCSpec == MCInit /\ [][MCNext]_<<part, rowsVars, insertsVars>>

\* every variable of the two modules has its type
TypesOK == RowsTypeOK /\ InsertsTypeOK
=============================================================================
