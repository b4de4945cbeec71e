--------------------------- MODULE DomainPackages ---------------------------
(***************************************************************************)
(* The versions of one domain package: their directories below domains/,   *)
(* their rows in domain_packages, and the commands that install, activate  *)
(* and remove them (app/domain_commands.rs, app/domain_removal.rs), with   *)
(* the bundled steel package that every start makes sure of                *)
(* (app/bundled_domain.rs).  The commands are synchronous and run one at a *)
(* time on the main thread; what separates two steps of a command is the   *)
(* end of the process (the crash of BackupRestore, which extends this      *)
(* module).  A file operation or a transaction may fail.                   *)
(***************************************************************************)
EXTENDS Naturals

CONSTANTS
    PkgVersions,    \* the versions of the package that a source may declare
    Bundled,        \* the version shipped with the application
    PkgSources,     \* the packages a user may install: a version, a content
    DpMaxFaults     \* bound: failures and ends of the process

\* What a directory can hold: the shipped package, another package of the
\* same id, or what a failed deletion left of one.  A source may also have a
\* manifest that is refused, a file the manifest does not declare, or a
\* signature that does not verify.
Contents == {"bundled", "other", "partial", "invalid", "undeclared", "forged"}

ASSUME BundledAssumption ==
    /\ Bundled \in PkgVersions
    /\ PkgSources \subseteq PkgVersions \X Contents
    /\ DpMaxFaults \in Nat

VARIABLES
    files,       \* version -> the content of its directory
    rows,        \* version -> its row: the digest recorded and the active flag
    command,     \* the command under way
    steelStatus, \* steel_package_status below onboarding.completed
    dpFaults,    \* how many faults have happened
    misled       \* versions whose activation was committed and reported as failed

domainVars == <<files, rows, command, steelStatus, dpFaults, misled>>

NoRow == [sha |-> "none", active |-> FALSE]
Unrecorded == [v \in PkgVersions |-> NoRow]
Recorded(v) == rows[v].sha # "none"

Idle == [op |-> "none", version |-> Bundled, content |-> "none", at |-> "none"]
Booting == [Idle EXCEPT !.op = "boot"]

DpInit ==
    /\ files = [v \in PkgVersions |-> "none"]
    /\ rows = Unrecorded
    /\ command = Booting
    /\ steelStatus = "none"
    /\ dpFaults = 0
    /\ misled = {}

\* A step that fails spends one of the faults.
MayFail == dpFaults < DpMaxFaults /\ dpFaults' = dpFaults + 1

\* The fields of the manifest, and the application versions it allows.
validate_manifest(package) == package # "invalid"

\* The directory is there, its manifest is valid and every asset of it is
\* whole.  A damaged directory may load: the file that is gone need not be
\* one the manifest declares.
load_package(package) == package # "none" /\ validate_manifest(package)

\* Every file is declared by the manifest, not executable and within limits.
validate_package_files(package) == package # "undeclared"

\* The digest tells two contents apart.
compute_package_digest(package) == package

\* A signature, if there is one, is that of a trusted key over the digest.
verify_package_signature(package) == package # "forged"

\* verify_installed_package of a restored row: the directory loads and has
\* the digest, the manifest and the trust that the row records.
verify_installed_package(row, v) ==
    /\ load_package(files[v])
    /\ verify_package_signature(files[v])
    /\ compute_package_digest(files[v]) = row.sha
    /\ files[v] # "partial"

-----------------------------------------------------------------------------
(* Ends of a command *)

\* install_steel_package ends: db_init stores what became of it, the command
\* of the user only returns it.
Ended(status) ==
    /\ command' = Idle
    /\ steelStatus' = IF command.op = "boot" THEN status ELSE steelStatus

-----------------------------------------------------------------------------
(* The bundled package *)

\* should_ensure_bundled_steel_package: no version of the package is active.
ensure_bundled_steel_package == \A v \in PkgVersions : ~rows[v].active

\* The end of activate: one version is active, the others are not.
activate(v) == rows' = [w \in PkgVersions |-> [rows[w] EXCEPT !.active = (w = v)]]

\* db_init: an active version is left alone.
BootReady ==
    /\ command = Booting
    /\ ~ensure_bundled_steel_package
    /\ Ended("ready")
    /\ UNCHANGED <<files, rows, dpFaults, misled>>

\* db_init, or install_bundled_steel_package, begins install_steel_package.
InstallSteel ==
    /\ \/ command = Booting /\ ensure_bundled_steel_package
       \/ command = Idle
    /\ command' = [op |-> IF command = Booting THEN "boot" ELSE "steel",
                   version |-> Bundled, content |-> "bundled", at |-> "look"]
    /\ UNCHANGED <<files, rows, steelStatus, dpFaults, misled>>

\* The version is recorded: its directory and its row must be those of the
\* resource, then it is activated unless it already is.  The activation is
\* committed before the row is read back, which may fail.
SteelRecorded ==
    /\ command.at = "look"
    /\ Recorded(Bundled)
    /\ \/ /\ compute_package_digest(files[Bundled]) = "bundled"
          /\ rows[Bundled].sha = "bundled"
          /\ activate(Bundled)
          /\ (Ended("ready") /\ UNCHANGED dpFaults) \/ (MayFail /\ Ended("error"))
       \/ /\ compute_package_digest(files[Bundled]) # "bundled" \/ rows[Bundled].sha # "bundled"
          /\ Ended("error")
          /\ UNCHANGED <<rows, dpFaults>>
       \/ MayFail /\ Ended("error") /\ UNCHANGED rows
    /\ UNCHANGED <<files, misled>>

\* The version is not recorded: it is installed as any other package is.
SteelUnrecorded ==
    /\ command.at = "look"
    /\ ~Recorded(Bundled)
    /\ command' = [command EXCEPT !.at = "stage"]
    /\ UNCHANGED <<files, rows, steelStatus, dpFaults, misled>>

-----------------------------------------------------------------------------
(* Installation *)

\* install_domain_package: the user names a source.
InstallPackage(v, source) ==
    /\ command = Idle
    /\ command' = [op |-> "install", version |-> v, content |-> source,
                   at |-> "stage"]
    /\ UNCHANGED <<files, rows, steelStatus, dpFaults, misled>>

\* The end of the copy below .staging: a link, an executable, a duplicate or a
\* file over the limits ends the command, and the staging directory is removed.
Copied ==
    /\ command.at = "stage"
    /\ \/ command' = [command EXCEPT !.at = "verify"] /\ UNCHANGED <<steelStatus, dpFaults>>
       \/ MayFail /\ Ended("error")
    /\ UNCHANGED <<files, rows, misled>>

\* The source is a directory; the bundled package always is.
copy_tree_bounded == Copied

\* The source is a .zip archive.
extract_archive == command.op = "install" /\ Copied

\* What install_into_staging asks of the copy.
Accepted(v, package) ==
    /\ load_package(package)
    /\ validate_package_files(package)
    /\ verify_package_signature(package)
    /\ files[v] = "none"

\* The copy is checked, a directory of that version refuses it, and otherwise
\* the staging directory is renamed to it.
install_into_staging ==
    /\ command.at = "verify"
    /\ \/ /\ Accepted(command.version, command.content)
          /\ files' = [files EXCEPT ![command.version] = command.content]
          /\ command' = [command EXCEPT !.at = "record"]
          /\ UNCHANGED <<steelStatus, dpFaults>>
       \/ /\ ~Accepted(command.version, command.content)
          /\ Ended("error")
          /\ UNCHANGED <<files, dpFaults>>
       \/ MayFail /\ Ended("error") /\ UNCHANGED files
    /\ UNCHANGED <<rows, misled>>

\* upsert, which only inserts: a row of that version refuses it, and then the
\* new directory goes again; so it does when the new row cannot be read back.
upsert ==
    LET v == command.version IN
    /\ command.at = "record"
    /\ \/ /\ ~Recorded(v)
          /\ rows' = [rows EXCEPT ![v].sha = command.content]
          /\ \/ /\ IF command.op = "install"
                   THEN Ended("ready")
                   ELSE command' = [command EXCEPT !.at = "activate"] /\ UNCHANGED steelStatus
                /\ UNCHANGED dpFaults
             \/ /\ MayFail
                /\ command' = [command EXCEPT !.at = "undo_files"]
                /\ UNCHANGED steelStatus
       \/ /\ (Recorded(v) /\ UNCHANGED dpFaults) \/ MayFail
          /\ command' = [command EXCEPT !.at = "undo_files"]
          /\ UNCHANGED <<rows, steelStatus>>
    /\ UNCHANGED <<files, misled>>

\* The new version of the bundled package is activated; a failure takes the
\* row and the directory back (rollback_installed_package).  The failure may be
\* that of reading the row back, after the activation has been committed.
SteelActivate ==
    /\ command.at = "activate"
    /\ \/ activate(command.version) /\ Ended("ready") /\ UNCHANGED <<dpFaults, misled>>
       \/ /\ MayFail
          /\ command' = [command EXCEPT !.at = "undo_row"]
          /\ \/ UNCHANGED <<rows, misled>>
             \/ activate(command.version) /\ misled' = misled \cup {command.version}
          /\ UNCHANGED steelStatus
    /\ UNCHANGED files

\* rollback_installed_package, the row: remove refuses one that is active, and
\* its errors are dropped.
UndoRow ==
    /\ command.at = "undo_row"
    /\ command' = [command EXCEPT !.at = "undo_files"]
    /\ \/ /\ ~rows[command.version].active
          /\ rows' = [rows EXCEPT ![command.version] = NoRow]
          /\ UNCHANGED dpFaults
       \/ rows[command.version].active /\ UNCHANGED <<rows, dpFaults>>
       \/ MayFail /\ UNCHANGED rows
    /\ UNCHANGED <<files, steelStatus, misled>>

\* The directory of a failed installation is removed; its errors are dropped.
UndoFiles ==
    /\ command.at = "undo_files"
    /\ Ended("error")
    /\ \/ files' = [files EXCEPT ![command.version] = "none"] /\ UNCHANGED dpFaults
       \/ MayFail /\ files' = [files EXCEPT ![command.version] = "partial"]
    /\ UNCHANGED <<rows, misled>>

-----------------------------------------------------------------------------
(* Activation and removal by the user *)

\* activate_domain_package: the directory must load, the row must exist.  An
\* error after the commit is only returned.
ActivatePackage(v) ==
    /\ command = Idle
    /\ load_package(files[v])
    /\ Recorded(v)
    /\ activate(v)
    /\ UNCHANGED <<files, command, steelStatus, dpFaults, misled>>

\* Mutant: the active version is refused by the deletion of its row only.
RemoveAny(v) ==
    /\ command = Idle
    /\ Recorded(v)
    /\ files[v] # "none"
    /\ command' = [op |-> "remove", version |-> v, content |-> files[v],
                   at |-> "unrecord"]
    /\ files' = [files EXCEPT ![v] = "none"]
    /\ UNCHANGED <<rows, steelStatus, dpFaults, misled>>

\* remove_package_atomically refuses an active version, a version without a
\* row and one without a directory, then moves the directory aside.
RemovePackage(v) ==
    /\ command = Idle
    /\ Recorded(v) /\ ~rows[v].active
    /\ files[v] # "none"
    /\ command' = [op |-> "remove", version |-> v, content |-> files[v],
                   at |-> "unrecord"]
    /\ files' = [files EXCEPT ![v] = "none"]
    /\ UNCHANGED <<rows, steelStatus, dpFaults, misled>>

\* The row is deleted, of which the command keeps the record, or the directory
\* is moved back.
remove ==
    LET v == command.version IN
    /\ command.at = "unrecord"
    /\ \/ /\ Recorded(v) /\ ~rows[v].active
          /\ rows' = [rows EXCEPT ![v] = NoRow]
          /\ command' = [command EXCEPT !.at = "erase", !.content = rows[v].sha]
          /\ UNCHANGED <<files, dpFaults>>
       \/ /\ MayFail
          /\ files' = [files EXCEPT ![v] = command.content]
          /\ command' = Idle
          /\ UNCHANGED rows
       \/ \* moving it back fails as well
          /\ dpFaults + 2 <= DpMaxFaults
          /\ dpFaults' = dpFaults + 2
          /\ command' = Idle
          /\ UNCHANGED <<files, rows>>
    /\ UNCHANGED <<steelStatus, misled>>

\* The directory moved aside is deleted.  When that fails half way the record is
\* inserted again and what is left of the directory is moved back; both
\* attempts are made, and each may fail.
EraseStaged ==
    LET v == command.version IN
    /\ command.at = "erase"
    /\ command' = Idle
    /\ \/ UNCHANGED <<files, rows, dpFaults, misled>>
       \/ \E rowBack, filesBack \in {0, 1} :
            /\ dpFaults' = dpFaults + 3 - rowBack - filesBack
            /\ dpFaults' <= DpMaxFaults
            /\ rows' = IF rowBack = 1 THEN [rows EXCEPT ![v].sha = command.content] ELSE rows
            /\ files' = IF filesBack = 1 THEN [files EXCEPT ![v] = "partial"] ELSE files
    /\ UNCHANGED <<steelStatus, misled>>

CommandStep ==
    \/ BootReady \/ InstallSteel \/ SteelRecorded \/ SteelUnrecorded
    \/ copy_tree_bounded \/ extract_archive \/ install_into_staging \/ upsert \/ SteelActivate
    \/ UndoRow \/ UndoFiles \/ remove \/ EraseStaged
    \/ \E source \in PkgSources : InstallPackage(source[1], source[2])
    \/ \E v \in PkgVersions : ActivatePackage(v) \/ RemovePackage(v)

-----------------------------------------------------------------------------

(* At most one version is active, and the directory of an active version is
   always there, whatever step of an installation or a removal fails or is
   the last one before the process ends: the tools and the prompts that an
   Agent run takes from the active manifests are those of an installed
   package.  The one exception is an activation that was committed and then
   reported as failed, because its row could not be read back: the rollback
   deletes the directory of the version that is now active. *)
ActiveDomainHasFiles ==
    \A v, w \in PkgVersions :
        rows[v].active =>
            /\ files[v] # "none" \/ v \in misled
            /\ rows[w].active => v = w
=============================================================================
