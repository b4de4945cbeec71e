-------------------------- MODULE ProviderProfiles --------------------------
(***************************************************************************)
(* Model providers: the profile rows and default choices of SQLite, and    *)
(* their credentials in the system's keyring (app/provider_commands,       *)
(* app/secret_commands, storage/repositories/provider_profiles).           *)
(*                                                                         *)
(* A credential lives under the profile's id, the credential's name and a  *)
(* generation; the row says which generation is in use.  The commands run  *)
(* one at a time under the database lock, but a keyring call is a step of  *)
(* its own: it may fail, and the process may end between two of them.  The *)
(* row changes only when its transaction commits.  Of a profile's fields   *)
(* the kind, the name of its credential and enabled matter here.           *)
(***************************************************************************)
EXTENDS Integers, FiniteSets

CONSTANTS
    Profiles,        \* profile ids
    Credentials,     \* credential names
    Kinds,           \* the provider kinds that profiles are given
    Capabilities,    \* the capabilities a default is chosen for
    MAX_SECRET_GENERATION,
    PfMaxSecrets,    \* bound: secrets the user enters
    PfMaxFaults      \* bound: failing calls and ends of the process

ProviderKind == {"open_ai_compatible", "anthropic", "qwen", "deepseek", "ollama",
                 "siliconflow", "mineru"}

ASSUME KindsKnown ==
    Kinds \subseteq ProviderKind /\ Capabilities \subseteq {"chat", "embedding", "rerank", "document_parser"}

VARIABLES
    pfRow,         \* provider_profiles
    pfDefault,     \* provider_defaults
    pfStore,       \* the keyring: <<profile, name, generation>> -> secret
    pfCmd,         \* the command that holds the database lock
    pfIntended,    \* the secret the user last stored for a profile, 0 for none
    pfDamaged,     \* profiles whose rollback failed or was cut off
    pfSecret, pfFaults

pfVars == <<pfRow, pfDefault, pfStore, pfCmd, pfIntended, pfDamaged, pfSecret, pfFaults>>

NoProfile == [kind |-> "none"]
NoName    == "no credential"
NoDefault == "none"
NoCommand == [op |-> "none"]

\* Keyring entries: a partial function, changed entry by entry.
PutSecret(store, key, value) == [k \in DOMAIN store \cup {key} |-> IF k = key THEN value ELSE store[k]]
DropSecret(store, key)       == [k \in DOMAIN store \ {key} |-> store[k]]
optional_secret(key)   == IF key \in DOMAIN pfStore THEN pfStore[key] ELSE 0

\* ProviderKind::supports
supports(kind) ==
    CASE kind \in {"open_ai_compatible", "anthropic", "qwen", "ollama"} -> {"chat", "embedding"}
      [] kind = "deepseek"    -> {"chat"}
      [] kind = "siliconflow" -> {"chat", "embedding", "rerank"}
      [] kind = "mineru"      -> {"document_parser"}

Exists(p) == pfRow[p] # NoProfile

\* profile_credential: the secret under the row's name and generation.
profile_credential(p) ==
    IF Exists(p) /\ pfRow[p].name # NoName
    THEN optional_secret(<<p, pfRow[p].name, pfRow[p].generation>>) ELSE 0

PfInit ==
    /\ pfRow = [p \in Profiles |-> NoProfile]
    /\ pfDefault = [c \in Capabilities |-> NoDefault]
    /\ pfStore = <<>>
    /\ pfCmd = NoCommand
    /\ pfIntended = [p \in Profiles |-> 0] /\ pfDamaged = {}
    /\ pfSecret = 1 /\ pfFaults = 0

PfFault == pfFaults < PfMaxFaults /\ pfFaults' = pfFaults + 1

PfAt(op, step) == pfCmd.op \in op /\ pfCmd.step = step
PfGoto(step)   == pfCmd' = [pfCmd EXCEPT !.step = step]
PfDone       == pfCmd' = NoCommand

Damage(hurt) == pfDamaged' = IF hurt THEN pfDamaged \cup {pfCmd.p} ELSE pfDamaged

-----------------------------------------------------------------------------
(* Saving and deleting a profile.                                          *)

Sweep(op, p, row, name, generation) ==
    pfCmd' = [op |-> op, step |-> "sweep", p |-> p, row |-> row, name |-> name,
              generation |-> 0, last |-> generation, deleted |-> <<>>]

CommitOnly(op, p, row) ==
    pfCmd' = [op |-> op, step |-> "commit", p |-> p, row |-> row, name |-> NoName,
              generation |-> 0, last |-> 0, deleted |-> <<>>]

\* save_record: a changed credential name starts at generation 0 again.
save_record(p, kind, name, enabled) ==
    [kind |-> kind, name |-> name, enabled |-> enabled,
     generation |-> IF Exists(p) /\ pfRow[p].name = name THEN pfRow[p].generation ELSE 0]

SaveProfile(p) ==
    /\ pfCmd = NoCommand
    /\ \E kind \in Kinds, name \in Credentials \cup {NoName}, enabled \in BOOLEAN :
          LET row == save_record(p, kind, name, enabled)
          IN  IF Exists(p) /\ pfRow[p].name \notin {NoName, name}
              THEN Sweep("save", p, row, pfRow[p].name, pfRow[p].generation)
              ELSE CommitOnly("save", p, row)
    /\ UNCHANGED <<pfRow, pfDefault, pfStore, pfIntended, pfDamaged, pfSecret, pfFaults>>

DeleteProfile(p) ==
    /\ pfCmd = NoCommand /\ Exists(p)
    /\ IF pfRow[p].name # NoName
       THEN Sweep("delete", p, NoProfile, pfRow[p].name, pfRow[p].generation)
       ELSE CommitOnly("delete", p, NoProfile)
    /\ UNCHANGED <<pfRow, pfDefault, pfStore, pfIntended, pfDamaged, pfSecret, pfFaults>>

\* delete_secret_generations: one generation, read and then deleted.
delete_secret_generations ==
    /\ PfAt({"save", "delete"}, "sweep")
    /\ LET key  == <<pfCmd.p, pfCmd.name, pfCmd.generation>>
           then == IF pfCmd.generation = pfCmd.last THEN "commit" ELSE "sweep"
           rest == [pfCmd EXCEPT !.step = then, !.generation = @ + 1]
       IN  \/ /\ key \in DOMAIN pfStore
              /\ pfStore' = DropSecret(pfStore, key)
              /\ pfCmd' = [rest EXCEPT !.deleted = PutSecret(@, key, pfStore[key])]
              /\ UNCHANGED pfFaults
           \/ /\ key \notin DOMAIN pfStore
              /\ pfCmd' = rest
              /\ UNCHANGED <<pfStore, pfFaults>>
           \/ /\ PfFault
              /\ PfGoto("restore")
              /\ UNCHANGED pfStore
    /\ UNCHANGED <<pfRow, pfDefault, pfIntended, pfDamaged, pfSecret>>

\* Either command: its transaction fails, and the swept secrets go back.
CommitFails ==
    /\ PfFault
    /\ PfGoto("restore")
    /\ UNCHANGED <<pfRow, pfDefault, pfIntended, pfDamaged>>

\* The row is stored; under a new credential name the old secret is no longer
\* wanted.
CommitSave ==
    /\ PfAt({"save"}, "commit")
    /\ LET p       == pfCmd.p
           renamed == ~Exists(p) \/ pfRow[p].name # pfCmd.row.name
       IN  \/ /\ pfRow' = [pfRow EXCEPT ![p] = pfCmd.row]
              /\ pfIntended' = [pfIntended EXCEPT ![p] = IF renamed THEN 0 ELSE @]
              /\ pfDamaged' = IF renamed THEN pfDamaged \ {p} ELSE pfDamaged
              /\ PfDone
              /\ UNCHANGED <<pfDefault, pfFaults>>
           \/ CommitFails
    /\ UNCHANGED <<pfStore, pfSecret>>

\* The row goes, and its defaults with it.
CommitDelete ==
    /\ PfAt({"delete"}, "commit")
    /\ LET p == pfCmd.p
       IN  \/ /\ pfRow' = [pfRow EXCEPT ![p] = NoProfile]
              /\ pfDefault' = [c \in Capabilities |->
                                  IF pfDefault[c] = p THEN NoDefault ELSE pfDefault[c]]
              /\ pfIntended' = [pfIntended EXCEPT ![p] = 0]
              /\ pfDamaged' = pfDamaged \ {p}
              /\ PfDone
              /\ UNCHANGED pfFaults
           \/ CommitFails
    /\ UNCHANGED <<pfStore, pfSecret>>

\* restore_deleted_generations: every entry is tried, a failure is reported.
restore_deleted_generations ==
    /\ PfAt({"save", "delete"}, "restore")
    /\ IF pfCmd.deleted = <<>>
       THEN PfDone /\ UNCHANGED <<pfStore, pfDamaged, pfFaults>>
       ELSE \E key \in DOMAIN pfCmd.deleted :
               /\ pfCmd' = [pfCmd EXCEPT !.deleted = DropSecret(@, key)]
               /\ \/ /\ pfStore' = PutSecret(pfStore, key, pfCmd.deleted[key])
                     /\ UNCHANGED <<pfDamaged, pfFaults>>
                  \/ PfFault /\ Damage(TRUE) /\ UNCHANGED pfStore
    /\ UNCHANGED <<pfRow, pfDefault, pfIntended, pfSecret>>

\* set_default: an enabled profile of a kind that serves the capability, or none.
SetDefault ==
    /\ pfCmd = NoCommand
    /\ \E c \in Capabilities :
          \/ \E p \in Profiles :
                /\ Exists(p) /\ pfRow[p].enabled /\ c \in supports(pfRow[p].kind)
                /\ pfDefault' = [pfDefault EXCEPT ![c] = p]
          \/ pfDefault' = [pfDefault EXCEPT ![c] = NoDefault]
    /\ UNCHANGED <<pfRow, pfStore, pfCmd, pfIntended, pfDamaged, pfSecret, pfFaults>>

-----------------------------------------------------------------------------
(* Storing and deleting a secret.                                          *)

\* profile_reference
current_ref == <<pfCmd.p, pfCmd.name, pfCmd.generation>>
next_ref    == <<pfCmd.p, pfCmd.name, pfCmd.generation + 1>>

\* profile_record, and the check that a generation is left.
SecretBegin(op, p) ==
    /\ pfCmd = NoCommand
    /\ Exists(p) /\ pfRow[p].name # NoName
    /\ pfRow[p].generation < MAX_SECRET_GENERATION
    /\ op = "set" => pfSecret <= PfMaxSecrets
    /\ pfCmd' = [op |-> op, step |-> "next", p |-> p, name |-> pfRow[p].name,
                 generation |-> pfRow[p].generation,
                 value |-> IF op = "set" THEN pfSecret ELSE 0, staleNext |-> 0, previous |-> 0]
    /\ pfSecret' = IF op = "set" THEN pfSecret + 1 ELSE pfSecret
    /\ UNCHANGED <<pfRow, pfDefault, pfStore, pfIntended, pfDamaged, pfFaults>>

\* set_profile_secret: the current secret is read, the next one written.
SetNext ==
    /\ PfAt({"set"}, "next")
    /\ \/ /\ pfStore' = PutSecret(pfStore, next_ref, pfCmd.value)
          /\ pfCmd' = [pfCmd EXCEPT !.step = "current", !.previous = optional_secret(current_ref)]
          /\ UNCHANGED pfFaults
       \/ PfFault /\ PfDone /\ UNCHANGED pfStore
    /\ UNCHANGED <<pfRow, pfDefault, pfIntended, pfDamaged, pfSecret>>

\* Mutant: what a failed set left under the next generation stays there.
KeepNext ==
    /\ PfAt({"delete_secret"}, "next")
    /\ PfGoto("read")
    /\ UNCHANGED <<pfStore, pfFaults, pfRow, pfDefault, pfIntended, pfDamaged, pfSecret>>

\* delete_profile_secret: what a failed set left under the next generation goes.
DeleteNext ==
    /\ PfAt({"delete_secret"}, "next")
    /\ \/ /\ pfStore' = DropSecret(pfStore, next_ref)
          /\ pfCmd' = [pfCmd EXCEPT !.step = "read", !.staleNext = optional_secret(next_ref)]
          /\ UNCHANGED pfFaults
       \/ /\ PfFault
          /\ pfCmd' = [pfCmd EXCEPT !.step = "undo_next", !.staleNext = optional_secret(next_ref)]
          /\ UNCHANGED pfStore
    /\ UNCHANGED <<pfRow, pfDefault, pfIntended, pfDamaged, pfSecret>>

\* Reading the current secret; a failure returns at once.
ReadCurrent ==
    /\ PfAt({"delete_secret"}, "read")
    /\ \/ /\ pfCmd' = [pfCmd EXCEPT !.step = "current", !.previous = optional_secret(current_ref)]
          /\ UNCHANGED pfFaults
       \/ PfFault /\ PfDone
    /\ UNCHANGED <<pfRow, pfDefault, pfStore, pfIntended, pfDamaged, pfSecret>>

DeleteCurrent ==
    /\ PfAt({"set", "delete_secret"}, "current")
    /\ \/ /\ pfStore' = DropSecret(pfStore, current_ref)
          /\ PfGoto("activate")
          /\ UNCHANGED pfFaults
       \/ PfFault /\ PfGoto("undo_next") /\ UNCHANGED pfStore
    /\ UNCHANGED <<pfRow, pfDefault, pfIntended, pfDamaged, pfSecret>>

activate_secret_generation ==
    /\ PfAt({"set", "delete_secret"}, "activate")
    /\ \/ /\ pfRow' = [pfRow EXCEPT ![pfCmd.p].generation = @ + 1]
          /\ pfIntended' = [pfIntended EXCEPT ![pfCmd.p] = pfCmd.value]
          /\ pfDamaged' = pfDamaged \ {pfCmd.p}
          /\ PfDone
          /\ UNCHANGED pfFaults
       \/ PfFault /\ PfGoto("undo_next") /\ UNCHANGED <<pfRow, pfIntended, pfDamaged>>
    /\ UNCHANGED <<pfDefault, pfStore, pfSecret>>

\* rollback_secret_transition: the next entry is deleted, a stale one and the
\* current one are put back; a failure is reported and the rest still tried.
rollback_secret_transition ==
    \/ /\ PfAt({"set", "delete_secret"}, "undo_next")
       /\ PfGoto("undo_stale")
       /\ \/ pfStore' = DropSecret(pfStore, next_ref) /\ UNCHANGED pfFaults
          \/ PfFault /\ UNCHANGED pfStore
       /\ UNCHANGED <<pfRow, pfDefault, pfIntended, pfDamaged, pfSecret>>
    \/ /\ PfAt({"set", "delete_secret"}, "undo_stale")
       /\ PfGoto("undo_current")
       /\ \/ pfCmd.staleNext = 0 /\ UNCHANGED <<pfStore, pfFaults>>
          \/ pfCmd.staleNext # 0 /\ pfStore' = PutSecret(pfStore, next_ref, pfCmd.staleNext)
             /\ UNCHANGED pfFaults
          \/ pfCmd.staleNext # 0 /\ PfFault /\ UNCHANGED pfStore
       /\ UNCHANGED <<pfRow, pfDefault, pfIntended, pfDamaged, pfSecret>>
    \/ /\ PfAt({"set", "delete_secret"}, "undo_current")
       /\ PfDone
       /\ \/ pfCmd.previous = 0 /\ UNCHANGED <<pfStore, pfDamaged, pfFaults>>
          \/ pfCmd.previous # 0 /\ pfStore' = PutSecret(pfStore, current_ref, pfCmd.previous)
             /\ UNCHANGED <<pfDamaged, pfFaults>>
          \/ pfCmd.previous # 0 /\ PfFault /\ Damage(TRUE) /\ UNCHANGED pfStore
       /\ UNCHANGED <<pfRow, pfDefault, pfIntended, pfSecret>>

\* The process ends: the transaction is rolled back, the keyring keeps what it has.
PfCrash ==
    /\ pfCmd # NoCommand
    /\ PfFault /\ Damage(TRUE) /\ PfDone
    /\ UNCHANGED <<pfRow, pfDefault, pfStore, pfIntended, pfSecret>>

PfNext ==
    \/ \E p \in Profiles : SaveProfile(p) \/ DeleteProfile(p)
                           \/ SecretBegin("set", p) \/ SecretBegin("delete_secret", p)
    \/ delete_secret_generations \/ restore_deleted_generations
    \/ CommitSave \/ CommitDelete \/ SetDefault
    \/ SetNext \/ DeleteNext \/ ReadCurrent \/ DeleteCurrent \/ activate_secret_generation
    \/ rollback_secret_transition \/ PfCrash

PfSpec == PfInit /\ [][PfNext]_pfVars

-----------------------------------------------------------------------------
(* Properties.                                                             *)

\* Between commands a profile answers with the secret the user last stored for
\* it and has not deleted: over failing keyring calls, ends of the process and
\* changes of the credential's name no replaced, deleted or half stored secret
\* comes into use, and a command that failed with its rollback intact has left
\* the profile's secret as it was.
CredentialIsIntended ==
    pfCmd = NoCommand =>
        \A p \in Profiles :
            /\ profile_credential(p) \in {0, pfIntended[p]}
            /\ p \notin pfDamaged => profile_credential(p) = pfIntended[p]

=============================================================================
