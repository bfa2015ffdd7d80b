------------------------------ MODULE MCServer ------------------------------
(* The server's loop with three clients, and one of the processes that     *)
(* comes out of it.  The two modules share no variable: side says which of *)
(* them a behavior runs.                                                   *)
EXTENDS Session, Endpoint

VARIABLES side

MCInit ==
  /\ SessionInit /\ EndpointInit
  /\ side \in {"session", "endpoint"}
  /\ side = "session" => opt = "none" /\ ~bandwidth

MCNext ==
  \/ side = "session" /\ SessionNext /\ UNCHANGED <<endpointVars, side>>
  \/ side = "endpoint" /\ EndpointNext /\ UNCHANGED <<sessionVars, side>>

MCSpec ==
  /\ MCInit /\ [][MCNext]_<<sessionVars, endpointVars, side>>
  /\ WF_sessionVars(side = "session" /\ Parent)
  /\ \A c \in Clients : WF_sessionVars(side = "session" /\ ConnectData(c))

TypeOK == SessionTypeOK /\ EndpointTypeOK
=============================================================================
