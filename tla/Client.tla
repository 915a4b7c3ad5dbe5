------------------------------- MODULE Client -------------------------------
(***************************************************************************)
(* The Client process: its connection and MCP supervisor with the Server   *)
(* on the other side (ClientConnection), and the command sessions it keeps *)
(* (ExecSessions).  They meet in the revision under which a command may    *)
(* start, which each module lets its environment change; a behaviour       *)
(* follows one of them.                                                    *)
(***************************************************************************)
EXTENDS ClientConnection, ExecSessions

VARIABLE scene

clientvars == <<scene, clvars, execvars>>

\* Both configurations of the MCP server have the same process as their sink.
MCSink == [c \in {"a", "b"} |-> "s"]
ConnBudget(p, c, f, d, r, s) ==
  [patches |-> p, calls |-> c, faults |-> f, drops |-> d, refreshes |-> r, stop |-> s]
MCConn == {ConnBudget(2, 0, 1, 0, 0, 0), ConnBudget(0, 2, 1, 0, 0, 0), ConnBudget(1, 1, 0, 1, 0, 0),
           ConnBudget(1, 0, 1, 0, 1, 0), ConnBudget(1, 0, 1, 0, 0, 1), ConnBudget(0, 1, 1, 1, 0, 0)}
ExecBudget(m, i, e, f) == [max |-> m, ids |-> i, epochs |-> e, faults |-> f]
MCExec == {ExecBudget(1, 1, 3, 2), ExecBudget(1, 2, 2, 1), ExecBudget(2, 2, 2, 0)}

ClientInit ==
  /\ scene \in {"connection", "commands"}
  /\ ConnInit /\ ExecInit
  /\ scene # "connection" => mb = ConnBudget(2, 0, 1, 0, 0, 0) /\ srv.cfg = "none"
  /\ scene # "commands" => xb = ExecBudget(1, 1, 3, 2)

ClientNext ==
  /\ UNCHANGED scene
  /\ \/ scene = "connection" /\ ConnNext /\ UNCHANGED execvars
     \/ scene = "commands" /\ ExecNext /\ UNCHANGED clvars

ClientProgress ==
  /\ UNCHANGED scene
  /\ \/ scene = "connection" /\ ConnProgress /\ UNCHANGED execvars
     \/ scene = "commands" /\ ExecProgress /\ UNCHANGED clvars

ClientSpec == ClientInit /\ [][ClientNext]_clientvars /\ WF_clientvars(ClientProgress)

(* Whatever the Client begins it ends: an update, a validation, an          *)
(* activation, a registration and a call are answered or dropped with the   *)
(* connection, and a start, a termination, a policy change and a shutdown   *)
(* of the commands return; a session that no kill failed on is swept.       *)
ClientUnfinished ==
  \/ scene = "connection" /\ ConnUnfinished
  \/ scene = "commands" /\ ExecUnfinished
ClientSettles == ClientUnfinished ~> ~ClientUnfinished
=============================================================================
