------------------------------ MODULE McpServers ----------------------------
(***************************************************************************)
(* One configured MCP server: its row, its credentials in the system's     *)
(* secret store, its connection in the runtime, and the commands that may  *)
(* overlap on it (app/mcp_commands, app/mcp_runtime.rs,                    *)
(* mcp/supervisor.rs).                                                     *)
(*                                                                         *)
(* A command reads the row first and works on what it read later, under    *)
(* the connection's lock; the secret store has no transaction, so a save   *)
(* or a deletion that fails half way writes back what it found.  A         *)
(* credential's value is named by the command that wrote it.               *)
(***************************************************************************)
EXTENDS Naturals, FiniteSets

CONSTANTS
  McpCmds,      \* overlapping commands
  EnvNames,     \* environment credentials
  McpMaxFaults  \* failures of the secret store, the database or the server

VARIABLES
  server,     \* env_names of the stored row, or NotInstalled
  secret,     \* credential -> who wrote it, or NoValue
  live,       \* the connection in McpRuntimeState, or NoConnection
  cmd,        \* command -> its step and what it read
  dbLock,     \* the command inside with_conn_mut, or NoHolder
  mcpFaults

mcpVars == <<server, secret, live, cmd, dbLock, mcpFaults>>

NotInstalled == {"absent"}
KeepEnv == {"keep"}
NoValue == "none"
NoConnection == [up |-> FALSE]
NoHolder == "nobody"
ServerSecrets == EnvNames \cup {"bearer"}

\* A free lock is no command's.
ASSUME McpCmdsAssumption == NoHolder \notin McpCmds

NewCmd == [op |-> "none", at |-> "new"]

McpInit ==
  /\ server \in {NotInstalled} \cup SUBSET EnvNames
  /\ secret = [n \in ServerSecrets |-> IF n \in server THEN "old" ELSE NoValue]
  /\ live = NoConnection
  /\ cmd = [c \in McpCmds |-> NewCmd]
  /\ dbLock = NoHolder /\ mcpFaults = 0

CmdAt(c, step) == cmd[c].at = step
CmdDone == [op |-> "none", at |-> "done"]
CmdTo(c, step) == cmd' = [cmd EXCEPT ![c] = IF step = "done" THEN CmdDone ELSE [@ EXCEPT !.at = step]]
McpFault == mcpFaults < McpMaxFaults /\ mcpFaults' = mcpFaults + 1
DbFree == dbLock = NoHolder

(***************************************************************************)
(* Commands begin by reading the row                                       *)
(***************************************************************************)

\* What the form sends: the bearer kept, cleared or replaced, and the environment
\* kept or replaced by the names it lists.
Inputs == [bearer : {"keep", "clear", "set"}, env : {KeepEnv} \cup SUBSET EnvNames]

\* input_config: a form that does not touch the environment keeps the names read.
input_config(existing, in) ==
  IF in.env # KeepEnv THEN in.env ELSE IF existing = NotInstalled THEN {} ELSE existing

SaveServer(c, in) ==
  /\ CmdAt(c, "new") /\ DbFree
  /\ cmd' = [cmd EXCEPT ![c] = [op |-> "save", at |-> "lock", existing |-> server, in |-> in,
                                names |-> input_config(server, in)]]
  /\ UNCHANGED <<server, secret, live, dbLock, mcpFaults>>

DeleteServer(c) ==
  /\ CmdAt(c, "new") /\ DbFree /\ server # NotInstalled
  /\ cmd' = [cmd EXCEPT ![c] = [op |-> "delete", at |-> "stop", existing |-> server, names |-> server]]
  /\ UNCHANGED <<server, secret, live, dbLock, mcpFaults>>

RestartServer(c) ==
  /\ CmdAt(c, "new") /\ DbFree /\ server # NotInstalled
  /\ cmd' = [cmd EXCEPT ![c] = [op |-> "restart", at |-> "stop", existing |-> server, names |-> server]]
  /\ UNCHANGED <<server, secret, live, dbLock, mcpFaults>>

(***************************************************************************)
(* The critical section of a save or a deletion                            *)
(***************************************************************************)

secret_names(c) ==
  {"bearer"} \cup cmd[c].names
    \cup (IF cmd[c].op = "save" /\ cmd[c].existing # NotInstalled THEN cmd[c].existing ELSE {})

desired_secrets(c) ==
  IF cmd[c].op = "delete" THEN [n \in secret_names(c) |-> NoValue]
  ELSE LET in == cmd[c].in IN
       [n \in secret_names(c) |->
          CASE n = "bearer" -> (CASE in.bearer = "keep" -> secret[n]
                                  [] in.bearer = "clear" -> NoValue
                                  [] OTHER -> c)
            [] n # "bearer" /\ in.env = KeepEnv -> secret[n]
            [] OTHER -> IF n \in in.env THEN c ELSE NoValue]

\* The snapshot and the desired values are read before the first write.
EnterLock(c) ==
  /\ CmdAt(c, "lock") /\ DbFree
  /\ dbLock' = c
  /\ cmd' = [cmd EXCEPT ![c] = [op |-> @.op, at |-> "apply", names |-> @.names,
                                want |-> desired_secrets(c),
                                snapshot |-> [n \in secret_names(c) |-> secret[n]],
                                before |-> [row |-> server, secrets |-> secret]]]
  /\ UNCHANGED <<server, secret, live, mcpFaults>>

Differs(goal) == {n \in DOMAIN goal : secret[n] # goal[n]}

\* apply_secrets writes what differs, one credential at a time; a failing one starts
\* the rollback.
apply_secrets(c) ==
  /\ CmdAt(c, "apply") /\ Differs(cmd[c].want) # {}
  /\ \/ /\ \E n \in Differs(cmd[c].want) : secret' = [secret EXCEPT ![n] = cmd[c].want[n]]
        /\ UNCHANGED <<cmd, mcpFaults>>
     \/ McpFault /\ CmdTo(c, "rollback") /\ UNCHANGED secret
  /\ UNCHANGED <<server, live, dbLock>>

WriteRow(c) ==
  /\ CmdAt(c, "apply") /\ Differs(cmd[c].want) = {}
  /\ \/ /\ server' = IF cmd[c].op = "save" THEN cmd[c].names ELSE NotInstalled
        /\ CmdTo(c, "audit") /\ UNCHANGED mcpFaults
     \/ McpFault /\ CmdTo(c, "rollback") /\ UNCHANGED server
  /\ UNCHANGED <<secret, live, dbLock>>

\* Mutant: only the bearer is written back.
RollbackBearer(c) ==
  /\ CmdAt(c, "rollback")
  /\ secret' = [secret EXCEPT !["bearer"] = cmd[c].snapshot["bearer"]] /\ CmdTo(c, "failed")
  /\ UNCHANGED <<server, live, dbLock, mcpFaults>>

\* with_rollback: the snapshot is applied; when that fails too, the store stays mixed.
with_rollback(c) ==
  /\ CmdAt(c, "rollback")
  /\ \/ /\ \E n \in Differs(cmd[c].snapshot) : secret' = [secret EXCEPT ![n] = cmd[c].snapshot[n]]
        /\ UNCHANGED <<cmd, mcpFaults>>
     \/ Differs(cmd[c].snapshot) = {} /\ CmdTo(c, "failed") /\ UNCHANGED <<secret, mcpFaults>>
     \/ Differs(cmd[c].snapshot) # {} /\ McpFault /\ CmdTo(c, "mixed") /\ UNCHANGED secret
  /\ UNCHANGED <<server, live, dbLock>>

\* An audit that cannot be recorded fails the command after the row was written: the
\* old connection then stays.
RecordAudit(c) ==
  /\ CmdAt(c, "audit") /\ dbLock' = NoHolder
  /\ \/ CmdTo(c, IF cmd[c].op = "save" THEN "stop" ELSE "done") /\ UNCHANGED mcpFaults
     \/ McpFault /\ CmdTo(c, "done")
  /\ UNCHANGED <<server, secret, live>>

GiveUp(c) ==
  /\ cmd[c].at \in {"failed", "mixed"} /\ dbLock' = NoHolder /\ CmdTo(c, "done")
  /\ UNCHANGED <<server, secret, live, mcpFaults>>

(***************************************************************************)
(* The connection                                                          *)
(***************************************************************************)

insert(connection) == live' = [up |-> TRUE, uses |-> connection]
remove_supervisor == live' = NoConnection

\* shutdown_active: out of the runtime first, then stopped; a server that does not
\* answer in two seconds fails the command.
shutdown_active(c) ==
  /\ CmdAt(c, "stop")
  /\ remove_supervisor
  /\ \/ /\ CmdTo(c, CASE cmd[c].op = "restart" -> "connect"
                      [] cmd[c].op = "delete" -> "lock"
                      [] OTHER -> "done")
        /\ UNCHANGED mcpFaults
     \/ live.up /\ McpFault /\ CmdTo(c, "done")
  /\ UNCHANGED <<server, secret, dbLock>>

\* A server is not started without the value of every name it lists.
HasCredentials(names) == \A n \in names : secret[n] # NoValue

\* connect reads the credentials of the names it read with the row, without the lock.
connect(c) ==
  /\ CmdAt(c, "connect")
  /\ \/ /\ HasCredentials(cmd[c].names)
        /\ cmd' = [cmd EXCEPT ![c] = [op |-> @.op, at |-> "insert", names |-> @.names,
                                      uses |-> [n \in cmd[c].names \cup {"bearer"} |-> secret[n]]]]
        /\ UNCHANGED mcpFaults
     \/ ~HasCredentials(cmd[c].names) /\ CmdTo(c, "done") /\ UNCHANGED mcpFaults
     \/ McpFault /\ CmdTo(c, "done")
  /\ UNCHANGED <<server, secret, live, dbLock>>

\* inspect lists what the server offers before the runtime gets it; a connection
\* another restart inserted is replaced, and dropped.
InsertSupervisor(c) ==
  /\ CmdAt(c, "insert") /\ CmdTo(c, "done")
  /\ \/ insert(cmd[c].uses) /\ UNCHANGED mcpFaults
     \/ McpFault /\ UNCHANGED live
  /\ UNCHANGED <<server, secret, dbLock>>

\* The application ends: connections and commands go, the store stays as it is.
McpCrash ==
  /\ McpFault
  /\ live' = NoConnection /\ dbLock' = NoHolder
  /\ cmd' = [c \in McpCmds |-> IF CmdAt(c, "new") THEN NewCmd ELSE CmdDone]
  /\ UNCHANGED <<server, secret>>

-----------------------------------------------------------------------------
McpNext ==
  \/ \E c \in McpCmds :
       \/ \E in \in Inputs : SaveServer(c, in)
       \/ DeleteServer(c) \/ RestartServer(c)
       \/ EnterLock(c) \/ apply_secrets(c) \/ WriteRow(c) \/ with_rollback(c)
       \/ RecordAudit(c) \/ GiveUp(c)
       \/ shutdown_active(c) \/ connect(c) \/ InsertSupervisor(c)
  \/ McpCrash

McpSpec == McpInit /\ [][McpNext]_mcpVars

(***************************************************************************)
(* Properties                                                              *)
(***************************************************************************)

\* A save or a deletion that failed and could write its credentials back leaves the row
\* and every credential as it found them, wherever it failed and whatever other commands
\* did meanwhile (save_config_and_secrets, delete_config_and_secrets, with_rollback).
FailedCommandLeavesStore ==
  \A c \in McpCmds :
    CmdAt(c, "failed") => cmd[c].before = [row |-> server, secrets |-> secret]

=============================================================================
