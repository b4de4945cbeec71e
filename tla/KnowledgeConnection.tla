------------------------ MODULE KnowledgeConnection ------------------------
(***************************************************************************)
(* The stored PostgreSQL connection (knowledge_db.rs): a configuration in  *)
(* the settings table and its password in the secret store, each with a    *)
(* backup of the pair that was in use before.  The four are written one    *)
(* after the other, every write may fail, and the process may end between  *)
(* any two.  A configuration and the password entered with it are one      *)
(* model value, so a pair fits when its two halves are equal.              *)
(***************************************************************************)
EXTENDS Naturals, FiniteSets

CONSTANTS
    Configs,         \* configurations the user may enter
    Unset,           \* no row, no secret
    MaxSettingFaults, MaxSecretFaults, MaxExits, MaxConfigures

VARIABLES
    config, configBackup,      \* CONFIG_KEY and CONFIG_BACKUP_KEY
    password, passwordBackup,  \* the secrets of secret_ref and password_backup_ref
    connCommand,               \* the command in progress and its next step
    connected,                 \* KnowledgeDatabaseState holds a pool
    connFaults                 \* failures so far

connVars == <<config, configBackup, password, passwordBackup, connCommand, connected, connFaults>>

NoConnCommand == [at |-> "idle", new |-> Unset, first |-> FALSE, saved |-> Unset]

ConnInit ==
    /\ config = Unset /\ configBackup = Unset
    /\ password = Unset /\ passwordBackup = Unset
    /\ connCommand = NoConnCommand /\ connected = FALSE
    /\ connFaults = [setting |-> 0, secret |-> 0, exit |-> 0, configure |-> 0]

ConnGoto(step) == connCommand' = [connCommand EXCEPT !.at = step]
ConnReturn == connCommand' = NoConnCommand
ConnFault(kind, limit) == /\ connFaults[kind] < limit
                          /\ connFaults' = [connFaults EXCEPT ![kind] = @ + 1]

(***************************************************************************)
(* configure_knowledge_database                                            *)
(***************************************************************************)

\* The server accepted the new connection; a refusal changes nothing.
Configure(c) ==
    /\ connCommand = NoConnCommand /\ ConnFault("configure", MaxConfigures)
    /\ connCommand' = [at |-> "backup config", new |-> c, first |-> config = Unset,
                   saved |-> Unset]
    /\ UNCHANGED <<config, configBackup, password, passwordBackup, connected>>

\* An existing backup is the older pair and stays.
BackupConfig ==
    /\ connCommand.at = "backup config"
    /\ configBackup' = IF configBackup = Unset THEN config ELSE configBackup
    /\ ConnGoto("backup password")
    /\ UNCHANGED <<config, password, passwordBackup, connected, connFaults>>

BackupPassword ==
    /\ connCommand.at = "backup password"
    /\ passwordBackup' = IF passwordBackup = Unset THEN password ELSE passwordBackup
    /\ ConnGoto("set password")
    /\ UNCHANGED <<config, configBackup, password, connected, connFaults>>

SetPassword ==
    /\ connCommand.at = "set password"
    /\ password' = connCommand.new
    /\ ConnGoto("set config")
    /\ UNCHANGED <<config, configBackup, passwordBackup, connected, connFaults>>

SetConfig ==
    /\ connCommand.at = "set config"
    /\ config' = connCommand.new
    /\ IF connCommand.first THEN ConnGoto("clear config backup") ELSE ConnReturn
    /\ UNCHANGED <<configBackup, password, passwordBackup, connected, connFaults>>

\* Mutant: the failed write returns without a rollback.
SetConfigGivesUp ==
    /\ connCommand.at = "set config" /\ ConnFault("setting", MaxSettingFaults)
    /\ ConnReturn
    /\ UNCHANGED <<config, configBackup, password, passwordBackup, connected>>

\* Only the failure of the last write is rolled back.
SetConfigFails ==
    /\ connCommand.at = "set config" /\ ConnFault("setting", MaxSettingFaults)
    /\ ConnGoto("restore config")
    /\ UNCHANGED <<config, configBackup, password, passwordBackup, connected>>

(***************************************************************************)
(* clear_config_backup                                                     *)
(***************************************************************************)

ClearConfigBackup ==
    /\ connCommand.at \in {"clear config backup", "clear and connect"}
    /\ configBackup' = Unset
    /\ ConnGoto(IF connCommand.at = "clear and connect" THEN "drop password and connect"
            ELSE "drop password backup")
    /\ UNCHANGED <<config, password, passwordBackup, connected, connFaults>>

DropPasswordBackup ==
    /\ connCommand.at \in {"drop password backup", "drop password and connect"}
    /\ passwordBackup' = Unset
    /\ connected' = (connected \/ connCommand.at = "drop password and connect")
    /\ ConnReturn
    /\ UNCHANGED <<config, configBackup, password, connFaults>>

(***************************************************************************)
(* restore_config_backup: the password backup is read first.               *)
(***************************************************************************)

RestoreConfig ==
    /\ connCommand.at = "restore config"
    /\ config' = configBackup
    /\ configBackup' = Unset
    /\ connCommand' = [connCommand EXCEPT !.at = "restore password", !.saved = passwordBackup]
    /\ UNCHANGED <<password, passwordBackup, connected, connFaults>>

\* Set back, or deleted when there was none.
RestorePassword ==
    /\ connCommand.at = "restore password"
    /\ password' = connCommand.saved
    /\ ConnGoto("drop password backup")
    /\ UNCHANGED <<config, configBackup, passwordBackup, connected, connFaults>>

(***************************************************************************)
(* initialize_knowledge_database, disconnection and start-up               *)
(***************************************************************************)

\* The server accepts a pair that fits, and may be out of reach or fail the
\* migration: then the backup is restored.
InitializeConnection(works) ==
    /\ connCommand = NoConnCommand
    /\ config # Unset /\ password # Unset
    /\ works => config = password
    /\ ConnGoto(IF works THEN "clear and connect" ELSE "restore config")
    /\ UNCHANGED <<config, configBackup, password, passwordBackup, connected, connFaults>>

\* auto_initialize_knowledge_database neither restores nor clears.
AutoInitialize ==
    /\ connCommand = NoConnCommand /\ ~connected
    /\ config # Unset /\ config = password
    /\ connected' = TRUE
    /\ UNCHANGED <<config, configBackup, password, passwordBackup, connCommand, connFaults>>

DisconnectPool ==
    /\ connected /\ connected' = FALSE
    /\ UNCHANGED <<config, configBackup, password, passwordBackup, connCommand, connFaults>>

\* A write of the secret store fails; the command returns where it stands.
SecretFails ==
    /\ connCommand.at \in {"backup password", "set password", "restore password",
                       "drop password backup", "drop password and connect"}
    /\ ConnFault("secret", MaxSecretFaults)
    /\ ConnReturn
    /\ UNCHANGED <<config, configBackup, password, passwordBackup, connected>>

SettingFails ==
    /\ connCommand.at \in {"backup config", "clear config backup", "clear and connect",
                       "restore config"}
    /\ ConnFault("setting", MaxSettingFaults)
    /\ ConnReturn
    /\ UNCHANGED <<config, configBackup, password, passwordBackup, connected>>

ConnExit ==
    /\ ConnFault("exit", MaxExits)
    /\ connCommand' = NoConnCommand /\ connected' = FALSE
    /\ UNCHANGED <<config, configBackup, password, passwordBackup>>

ConnNext ==
    \/ \E c \in Configs : Configure(c)
    \/ BackupConfig \/ BackupPassword \/ SetPassword \/ SetConfig \/ SetConfigFails
    \/ ClearConfigBackup \/ DropPasswordBackup \/ RestoreConfig \/ RestorePassword
    \/ \E works \in BOOLEAN : InitializeConnection(works)
    \/ AutoInitialize \/ DisconnectPool \/ SecretFails \/ SettingFails \/ ConnExit

ConnSpec == ConnInit /\ [][ConnNext]_connVars

(***************************************************************************)
(* Properties                                                              *)
(***************************************************************************)

\* A configuration never stands beside another one's password once its command
\* has returned, unless a write of the secret store failed, the process ended
\* in the middle, or a rollback's own settings write failed.
StoredPairFits ==
    /\ connCommand = NoConnCommand
    /\ connFaults.secret = 0 /\ connFaults.exit = 0 /\ connFaults.setting <= 1
    => config = password
=============================================================================
