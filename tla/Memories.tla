------------------------------ MODULE Memories ------------------------------
(***************************************************************************)
(* Long-term memories (storage/repositories/memories, agent/context/memory,*)
(* context.rs, the memory commands and the Agent's memory tools).  A       *)
(* memory is a statement with a status, a switch and an archive mark; a    *)
(* context packet carries the ones that are confirmed, switched on and not *)
(* archived.  The window lists them by the archive mark and shows the      *)
(* switch.                                                                 *)
(*                                                                         *)
(* A statement stands for its text and for the key normalize_memory_key    *)
(* makes of it.  Rows older than the key carry a placeholder instead       *)
(* ("legacy").                                                             *)
(***************************************************************************)
EXTENDS Naturals, FiniteSets

CONSTANTS
  MemIds,       \* identifiers of memories
  Statements,   \* what a memory may say
  SuggestLimit  \* suggestions shown at once

VARIABLES
  memory,     \* identifier -> row of memories, or NoMemory
  said,       \* statements some user message holds
  suggested,  \* statements the window shows as suggestions
  autoWrite   \* the setting memory.auto_write_candidates

memVars == <<memory, said, suggested, autoWrite>>

NoMemory == [status |-> "none"]
Stored == {m \in MemIds : memory[m] # NoMemory}

Row(s, status, enabled) ==
  [text |-> s, status |-> status, enabled |-> enabled, archived |-> FALSE, legacy |-> FALSE]

\* Migration 0012 confirmed the memories it found and left them the placeholder.
MemInit ==
  /\ memory \in [MemIds -> {NoMemory} \cup
                   {[Row(s, "confirmed", e) EXCEPT !.legacy = TRUE] : s \in Statements, e \in BOOLEAN}]
  /\ said = {} /\ suggested = {} /\ autoWrite = FALSE

Put(m, row) == memory' = [memory EXCEPT ![m] = row]

(***************************************************************************)
(* Writing a memory                                                        *)
(***************************************************************************)

\* The window's editor: a row of this identifier is overwritten, confirmed and taken
\* out of the archive; otherwise it is inserted, also when it was deleted meanwhile.
\* Nothing compares it with other memories.
save(m, s, enabled) ==
  /\ Put(m, Row(s, "confirmed", enabled))
  /\ UNCHANGED <<said, suggested, autoWrite>>

\* The Agent's tool always writes a new row, confirmed and switched on.
remember_memory(s) ==
  /\ \E m \in MemIds \ Stored : Put(m, Row(s, "confirmed", TRUE))
  /\ UNCHANGED <<said, suggested, autoWrite>>

\* The key of a row, or the body of a legacy row.
Duplicate(s) == \E m \in Stored : memory[m].text = s

\* No command calls this yet.  One transaction: the message is there, no row says the
\* same, archived and rejected ones included; the setting decides whether the user is
\* asked.
capture_candidate(s) ==
  /\ s \in said /\ ~Duplicate(s)
  /\ \E m \in MemIds \ Stored :
       Put(m, Row(s, IF autoWrite THEN "confirmed" ELSE "pending", autoWrite))
  /\ UNCHANGED <<said, suggested, autoWrite>>

(***************************************************************************)
(* The life of a memory                                                    *)
(***************************************************************************)

confirm_candidate(m) ==
  /\ m \in Stored
  /\ Put(m, [memory[m] EXCEPT !.status = "confirmed", !.enabled = TRUE])
  /\ UNCHANGED <<said, suggested, autoWrite>>

reject_candidate(m) ==
  /\ m \in Stored
  /\ Put(m, [memory[m] EXCEPT !.status = "rejected", !.enabled = FALSE])
  /\ UNCHANGED <<said, suggested, autoWrite>>

\* Mutant: any memory may be switched on.
MaySwitchAny(m, enabled) == TRUE

\* Only a confirmed memory is switched on; the mutex of the connection holds between
\* this check and the update.
MaySwitch(m, enabled) == enabled => memory[m].status = "confirmed"

set_enabled(m, enabled) ==
  /\ m \in Stored /\ MaySwitch(m, enabled)
  /\ Put(m, [memory[m] EXCEPT !.enabled = enabled])
  /\ UNCHANGED <<said, suggested, autoWrite>>

\* archive_memory and the Agent's forget_memory.
archive_memory(m) ==
  /\ m \in Stored
  /\ Put(m, [memory[m] EXCEPT !.archived = TRUE])
  /\ UNCHANGED <<said, suggested, autoWrite>>

restore_memory(m) ==
  /\ m \in Stored
  /\ Put(m, [memory[m] EXCEPT !.archived = FALSE])
  /\ UNCHANGED <<said, suggested, autoWrite>>

delete_memory(m) ==
  /\ m \in Stored /\ Put(m, NoMemory)
  /\ UNCHANGED <<said, suggested, autoWrite>>

(***************************************************************************)
(* Suggestions                                                             *)
(***************************************************************************)

\* A user message with a marker such as "remember"; deleting a conversation takes its
\* messages along.
Say(s) ==
  /\ said' = IF s \in said THEN said \ {s} ELSE said \cup {s}
  /\ UNCHANGED <<memory, suggested, autoWrite>>

load_active_memory_text == {memory[m].text : m \in {n \in Stored : ~memory[n].archived}}

\* Statements of recent messages that no unarchived memory holds.
suggest ==
  /\ suggested' \in {S \in SUBSET (said \ load_active_memory_text) :
                       \/ S = said \ load_active_memory_text /\ Cardinality(S) <= SuggestLimit
                       \/ Cardinality(S) = SuggestLimit}
  /\ UNCHANGED <<memory, said, autoWrite>>

\* An accepted suggestion is saved like an edited memory, under a new identifier.
AcceptSuggestion(s) ==
  /\ s \in suggested /\ suggested' = suggested \ {s}
  /\ \E m \in MemIds \ Stored : Put(m, Row(s, "confirmed", TRUE))
  /\ UNCHANGED <<said, autoWrite>>

SetAutoWrite ==
  /\ autoWrite' = ~autoWrite
  /\ UNCHANGED <<memory, said, suggested>>

-----------------------------------------------------------------------------
MemNext ==
  \/ \E m \in MemIds :
       \/ confirm_candidate(m) \/ reject_candidate(m)
       \/ archive_memory(m) \/ restore_memory(m) \/ delete_memory(m)
       \/ \E e \in BOOLEAN : set_enabled(m, e)
       \/ \E s \in Statements, e \in BOOLEAN : save(m, s, e)
  \/ \E s \in Statements :
       remember_memory(s) \/ capture_candidate(s) \/ Say(s) \/ AcceptSuggestion(s)
  \/ suggest \/ SetAutoWrite

MemSpec == MemInit /\ [][MemNext]_memVars

(***************************************************************************)
(* Properties                                                              *)
(***************************************************************************)

\* What a context packet is built from.
load_enabled_memories ==
  {m \in Stored : memory[m].enabled /\ ~memory[m].archived /\ memory[m].status = "confirmed"}

\* A memory the window shows as switched on is one the model gets, and one it was never
\* asked about or turned down is shown as off: after any sequence of edits, captures,
\* confirmations, rejections, archivings and restorations the switch says what
\* load_enabled_memories does.
SwitchTellsTheTruth ==
  \A m \in Stored : ~memory[m].archived => (memory[m].enabled <=> m \in load_enabled_memories)

=============================================================================
