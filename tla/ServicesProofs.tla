--------------------------- MODULE ServicesProofs ---------------------------
(***************************************************************************)
(* The services around the Agent, for every number of memories, runs,      *)
(* mails, messages, servers, profiles, secrets and failures: one section   *)
(* for each component's inductive invariant and the property that follows  *)
(* from it.                                                                *)
(***************************************************************************)
EXTENDS Memories, ChildTurns, Conversations, McpServers, McpStream, ProviderProfiles, WellFoundedInduction, TLAPS

-----------------------------------------------------------------------------
(***************************************************************************)
(* Memories: SwitchTellsTheTruth says nothing about an archived memory,    *)
(* and restore_memory brings one back without looking at it, so the        *)
(* induction needs the stronger fact that a memory is switched on only     *)
(* while it is confirmed, archived or not.                                 *)
(***************************************************************************)

MemoryRow == [text : Statements, status : {"pending", "confirmed", "rejected"},
              enabled : BOOLEAN, archived : BOOLEAN, legacy : BOOLEAN]

MemTypeOK ==
  /\ memory \in [MemIds -> {NoMemory} \cup MemoryRow]
  /\ said \in SUBSET Statements /\ suggested \in SUBSET Statements
  /\ autoWrite \in BOOLEAN

OnlyConfirmedOn == \A m \in Stored : memory[m].enabled => memory[m].status = "confirmed"

MemInv == MemTypeOK /\ OnlyConfirmedOn

\* A row that may be written: of the right shape, and switched on only when confirmed.
Sound(rec) == rec \in MemoryRow /\ (rec.enabled => rec.status = "confirmed")

\* A row is not the absence of one.
LEMMA RowIsStored == ASSUME NEW rec \in MemoryRow PROVE rec # NoMemory
  BY DEF MemoryRow, NoMemory

\* What the editor, the tool and the capture write has the shape of a row.
LEMMA RowType ==
  ASSUME NEW s \in Statements, NEW status \in {"pending", "confirmed", "rejected"},
         NEW enabled \in BOOLEAN
  PROVE  Row(s, status, enabled) \in MemoryRow
  BY DEF Row, MemoryRow

\* Writing one sound row, or removing one, keeps the invariant.
LEMMA PutKeeps ==
  ASSUME MemInv, NEW m \in MemIds, NEW rec, Put(m, rec), Sound(rec) \/ rec = NoMemory,
         said' \in SUBSET Statements, suggested' \in SUBSET Statements, autoWrite' \in BOOLEAN
  PROVE  MemInv'
<1>1. memory \in [MemIds -> {NoMemory} \cup MemoryRow] BY DEF MemInv, MemTypeOK
<1>2. rec \in {NoMemory} \cup MemoryRow BY DEF Sound
<1>3. memory' = [memory EXCEPT ![m] = rec] BY DEF Put
<1>4. MemTypeOK' BY <1>1, <1>2, <1>3 DEF MemTypeOK
<1>5. OnlyConfirmedOn'
  <2> SUFFICES ASSUME NEW n \in MemIds, memory'[n] # NoMemory, memory'[n].enabled
               PROVE  memory'[n].status = "confirmed"
    BY DEF OnlyConfirmedOn, Stored
  <2>1. CASE n = m BY <2>1, <1>1, <1>3 DEF Sound
  <2>2. CASE n # m
    <3>1. memory'[n] = memory[n] BY <2>2, <1>1, <1>3
    <3> QED BY <3>1 DEF MemInv, OnlyConfirmedOn, Stored
  <2> QED BY <2>1, <2>2
<1> QED BY <1>4, <1>5 DEF MemInv

\* Changing fields of a stored row.
LEMMA StoredRow == ASSUME MemInv, NEW m \in Stored PROVE m \in MemIds /\ Sound(memory[m])
  BY DEF MemInv, MemTypeOK, OnlyConfirmedOn, Stored, Sound

\* The type invariant, with what a switched-on memory is.
THEOREM MemoriesInvariant == MemSpec => []MemInv
<1>1. MemInit => MemInv
  <2> SUFFICES ASSUME MemInit PROVE MemInv OBVIOUS
  <2>1. \A s \in Statements, e \in BOOLEAN :
           /\ [Row(s, "confirmed", e) EXCEPT !.legacy = TRUE] \in MemoryRow
           /\ [Row(s, "confirmed", e) EXCEPT !.legacy = TRUE].status = "confirmed"
    BY DEF Row, MemoryRow
  <2>2. MemTypeOK
    <3>1. {[Row(s, "confirmed", e) EXCEPT !.legacy = TRUE] : s \in Statements, e \in BOOLEAN}
             \subseteq MemoryRow
      BY <2>1
    <3>2. memory \in [MemIds -> {NoMemory} \cup MemoryRow]
      <4>1. DOMAIN memory = MemIds /\ memory = [m \in MemIds |-> memory[m]]
        BY DEF MemInit
      <4>2. ASSUME NEW m \in MemIds PROVE memory[m] \in {NoMemory} \cup MemoryRow
        BY <3>1 DEF MemInit
      <4> QED BY <4>1, <4>2
    <3> QED BY <3>2 DEF MemInit, MemTypeOK
  <2>3. OnlyConfirmedOn
    <3> SUFFICES ASSUME NEW m \in MemIds, memory[m] # NoMemory
                 PROVE  memory[m].status = "confirmed"
      BY DEF OnlyConfirmedOn, Stored
    <3>1. PICK s \in Statements, e \in BOOLEAN :
             memory[m] = [Row(s, "confirmed", e) EXCEPT !.legacy = TRUE]
      BY DEF MemInit
    <3> QED BY <2>1, <3>1
  <2> QED BY <2>2, <2>3 DEF MemInv
<1>2. MemInv /\ [MemNext]_memVars => MemInv'
  <2> SUFFICES ASSUME MemInv, [MemNext]_memVars PROVE MemInv' OBVIOUS
  <2>0. /\ said \in SUBSET Statements /\ suggested \in SUBSET Statements
        /\ autoWrite \in BOOLEAN /\ memory \in [MemIds -> {NoMemory} \cup MemoryRow]
    BY DEF MemInv, MemTypeOK
  <2>1. ASSUME NEW m \in MemIds, confirm_candidate(m) PROVE MemInv'
    <3>1. Sound(memory[m]) BY <2>1, StoredRow DEF confirm_candidate
    <3>2. Sound([memory[m] EXCEPT !.status = "confirmed", !.enabled = TRUE])
      BY <3>1 DEF Sound, MemoryRow
    <3> QED BY <2>0, <2>1, <3>2, PutKeeps DEF confirm_candidate
  <2>2. ASSUME NEW m \in MemIds, reject_candidate(m) PROVE MemInv'
    <3>1. Sound(memory[m]) BY <2>2, StoredRow DEF reject_candidate
    <3>2. Sound([memory[m] EXCEPT !.status = "rejected", !.enabled = FALSE])
      BY <3>1 DEF Sound, MemoryRow
    <3> QED BY <2>0, <2>2, <3>2, PutKeeps DEF reject_candidate
  <2>3. ASSUME NEW m \in MemIds, archive_memory(m) PROVE MemInv'
    <3>1. Sound(memory[m]) BY <2>3, StoredRow DEF archive_memory
    <3>2. Sound([memory[m] EXCEPT !.archived = TRUE]) BY <3>1 DEF Sound, MemoryRow
    <3> QED BY <2>0, <2>3, <3>2, PutKeeps DEF archive_memory
  <2>4. ASSUME NEW m \in MemIds, restore_memory(m) PROVE MemInv'
    <3>1. Sound(memory[m]) BY <2>4, StoredRow DEF restore_memory
    <3>2. Sound([memory[m] EXCEPT !.archived = FALSE]) BY <3>1 DEF Sound, MemoryRow
    <3> QED BY <2>0, <2>4, <3>2, PutKeeps DEF restore_memory
  <2>5. ASSUME NEW m \in MemIds, delete_memory(m) PROVE MemInv'
    BY <2>0, <2>5, PutKeeps DEF delete_memory
  <2>6. ASSUME NEW m \in MemIds, NEW e \in BOOLEAN, set_enabled(m, e) PROVE MemInv'
    <3>1. Sound(memory[m]) BY <2>6, StoredRow DEF set_enabled
    <3>2. e => memory[m].status = "confirmed" BY <2>6 DEF set_enabled, MaySwitch
    <3>3. Sound([memory[m] EXCEPT !.enabled = e]) BY <3>1, <3>2 DEF Sound, MemoryRow
    <3> QED BY <2>0, <2>6, <3>3, PutKeeps DEF set_enabled
  <2>7. ASSUME NEW m \in MemIds, NEW s \in Statements, NEW e \in BOOLEAN, save(m, s, e)
        PROVE MemInv'
    <3>1. Sound(Row(s, "confirmed", e)) BY RowType DEF Sound, Row
    <3> QED BY <2>0, <2>7, <3>1, PutKeeps DEF save
  <2>8. ASSUME NEW s \in Statements, remember_memory(s) PROVE MemInv'
    <3>1. Sound(Row(s, "confirmed", TRUE)) BY RowType DEF Sound, Row
    <3> QED BY <2>0, <2>8, <3>1, PutKeeps DEF remember_memory
  <2>9. ASSUME NEW s \in Statements, capture_candidate(s) PROVE MemInv'
    <3>1. Sound(Row(s, IF autoWrite THEN "confirmed" ELSE "pending", autoWrite))
      BY <2>0, RowType DEF Sound, Row
    <3> QED BY <2>0, <2>9, <3>1, PutKeeps DEF capture_candidate
  <2>10. ASSUME NEW s \in Statements, Say(s) PROVE MemInv'
    BY <2>0, <2>10 DEF Say, MemInv, MemTypeOK, OnlyConfirmedOn, Stored
  <2>11. ASSUME NEW s \in Statements, AcceptSuggestion(s) PROVE MemInv'
    <3>1. Sound(Row(s, "confirmed", TRUE)) BY RowType DEF Sound, Row
    <3>2. suggested' \in SUBSET Statements BY <2>0, <2>11 DEF AcceptSuggestion
    <3> QED BY <2>0, <2>11, <3>1, <3>2, PutKeeps DEF AcceptSuggestion
  <2>12. CASE suggest
    <3>1. suggested' \in SUBSET Statements BY <2>0, <2>12 DEF suggest
    <3> QED BY <2>0, <2>12, <3>1 DEF suggest, MemInv, MemTypeOK, OnlyConfirmedOn, Stored
  <2>13. CASE SetAutoWrite
    BY <2>0, <2>13 DEF SetAutoWrite, MemInv, MemTypeOK, OnlyConfirmedOn, Stored
  <2>14. CASE UNCHANGED memVars
    BY <2>14 DEF memVars, MemInv, MemTypeOK, OnlyConfirmedOn, Stored
  <2> QED
    BY <2>1, <2>2, <2>3, <2>4, <2>5, <2>6, <2>7, <2>8, <2>9, <2>10, <2>11, <2>12, <2>13,
       <2>14 DEF MemNext
<1> QED
  BY <1>1, <1>2, PTL DEF MemSpec

\* The switch the window shows says what the model gets, after any sequence of edits,
\* captures, decisions, archivings and restorations.
THEOREM SwitchAlwaysTellsTheTruth == MemSpec => []SwitchTellsTheTruth
<1>1. MemInv => SwitchTellsTheTruth
  BY DEF MemInv, OnlyConfirmedOn, SwitchTellsTheTruth, load_enabled_memories, Stored, MemTypeOK
<1> QED
  BY <1>1, MemoriesInvariant, PTL

-----------------------------------------------------------------------------
(***************************************************************************)
(* Child turns: MailHasOneReader and EndedChildStaysEnded. A claimed mail  *)
(* is where the turn that was given it put it, and what the repository,    *)
(* the host and a late steer know of a child agrees about whether it has   *)
(* ended; claim_inbox looks for the oldest mail, so the proof needs that a *)
(* set of numbers has a least one.                                         *)
(***************************************************************************)

\* Every nonempty set of natural numbers has a least element.
LEMMA LeastNatural ==
  ASSUME NEW S \in SUBSET Nat, S # {}
  PROVE  \E m \in S : \A n \in S : m <= n
<1>1. PICK m \in S : \A n \in S : <<n, m>> \notin OpToRel(<, Nat)
  BY NatLessThanWellFounded, WFMin, Zenon
<1>2. \A n \in S : ~(n < m) BY <1>1 DEF OpToRel
<1> QED BY <1>2

TurnType == [at : {"new", "claim", "begin", "setup", "running", "closing", "ended"},
             mail : {NoMail} \cup Mails, ok : BOOLEAN]
KidType == [parent : {"none"} \cup ChRuns,
            at : {"none", "record", "running", "ending", "ended", "gone"},
            lost : BOOLEAN, outcome : {"none"} \cup RowTerminal]
KillerType == [at : {"idle", "looked"}, kid : {"none"} \cup Kids, ended : BOOLEAN]

\* A message is where the turn that was given it put it; a picked one may be gone.
TurnOk(t, ml, read) ==
  /\ t.at = "new" => t.mail = NoMail
  /\ t.at = "claim" => t.mail # NoMail
  /\ t.mail # NoMail /\ t.at # "claim" => ml[t.mail] = "processing"
  /\ t.at = "closing" /\ t.ok /\ t.mail # NoMail => t.mail \in read

MailInv ==
  /\ turn \in [ChRuns -> TurnType]
  /\ mail \in [Mails -> {"ready", "processing", "done", "quarantine"}]
  /\ \A r \in ChRuns : TurnOk(turn[r], mail, mailRead)
  /\ MailHasOneReader

Live(k) == k.at \in {"record", "running", "ending", "ended"}

\* A child that works has its turn, its parent waits for it, and its row is its own.
KidOk(k, rw, alive) ==
  /\ Live(k) => alive /\ k.parent \in ChRuns
  /\ k.at = "record" => rw = "absent"
  /\ k.at \in {"running", "ending"} => rw \in {"created", "working"}
  /\ k.outcome \in RowTerminal \/ k.at # "ending"

KidsInv ==
  /\ kid \in [Kids -> KidType]
  /\ row \in [Kids -> {"absent", "created", "working"} \cup RowTerminal]
  /\ killer \in KillerType
  /\ \A c \in Kids : KidOk(kid[c], row[c], chUp /\ c \in active)
  /\ \A c \in Kids : Live(kid[c]) => turn[kid[c].parent].at = "running"
  /\ killer.at = "looked" =>
       /\ killer.kid \in Kids /\ row[killer.kid] # "absent"
       /\ killer.ended => row[killer.kid] \in RowTerminal
ChInv == MailInv /\ KidsInv

-----------------------------------------------------------------------------
(* The mailbox.                                                            *)

\* One turn moves, perhaps with the message it was given.
LEMMA MailMoves ==
  ASSUME MailInv, NEW r \in ChRuns, NEW t \in TurnType, turn' = [turn EXCEPT ![r] = t],
         mail' \in [Mails -> {"ready", "processing", "done", "quarantine"}],
         mailRead \subseteq mailRead', TurnOk(t, mail', mailRead'),
         \A m \in Mails : mail'[m] # mail[m] => mail[m] = "ready" \/ (m = turn[r].mail /\ Holds(r)),
         t.mail # NoMail /\ t.at # "claim" =>
           (Holds(r) /\ t.mail = turn[r].mail) \/ mail[t.mail] = "ready",
         \A m \in Mails : mail'[m] = "done" => m \in mailRead'
  PROVE  MailInv'
<1>1. /\ turn \in [ChRuns -> TurnType]
      /\ mail \in [Mails -> {"ready", "processing", "done", "quarantine"}]
      /\ \A s \in ChRuns : TurnOk(turn[s], mail, mailRead)
      /\ \A q, s \in ChRuns : Holds(q) /\ Holds(s) /\ turn[q].mail = turn[s].mail => q = s
  BY DEF MailInv, MailHasOneReader
<1>2. turn' \in [ChRuns -> TurnType] /\ turn'[r] = t BY <1>1
<1>3. ASSUME NEW s \in ChRuns, s # r
      PROVE  turn'[s] = turn[s] /\ TurnOk(turn[s], mail', mailRead')
  <2>1. turn'[s] = turn[s] /\ turn[s] \in TurnType BY <1>1, <1>3
  <2>2. ASSUME turn[s].mail # NoMail, turn[s].at # "claim"
        PROVE  mail'[turn[s].mail] = "processing"
    <3>1. mail[turn[s].mail] = "processing" /\ turn[s].mail \in Mails /\ Holds(s)
      BY <1>1, <2>1, <2>2 DEF TurnOk, TurnType, Holds
    <3>2. ~(Holds(r) /\ turn[s].mail = turn[r].mail) BY <1>1, <1>3, <3>1
    <3> QED BY <3>1, <3>2
  <2> QED BY <1>1, <2>1, <2>2 DEF TurnOk
<1>4. \A s \in ChRuns : TurnOk(turn'[s], mail', mailRead') BY <1>2, <1>3
<1>5. ASSUME NEW s \in ChRuns, s # r, Holds(s), t.mail # NoMail, t.at # "claim"
      PROVE  turn[s].mail # t.mail
  <2>1. mail[turn[s].mail] = "processing" BY <1>1, <1>5 DEF TurnOk, Holds
  <2> QED BY <1>1, <1>5, <2>1
<1>6. \A q, s \in ChRuns : Holds(q)' /\ Holds(s)' /\ turn'[q].mail = turn'[s].mail => q = s
  <2> SUFFICES ASSUME NEW q \in ChRuns, NEW s \in ChRuns, Holds(q)', Holds(s)',
                      turn'[q].mail = turn'[s].mail, q # s
               PROVE  FALSE
    OBVIOUS
  <2>1. CASE q # r /\ s # r BY <1>1, <1>3, <2>1 DEF Holds
  <2>2. CASE q = r BY <1>2, <1>3, <1>5, <2>2 DEF Holds
  <2>3. CASE s = r BY <1>2, <1>3, <1>5, <2>3 DEF Holds
  <2> QED BY <2>1, <2>2, <2>3
<1> QED BY <1>2, <1>4, <1>6 DEF MailInv, MailHasOneReader

\* A turn that ends without its message leaves it where it is.
LEMMA TurnTypes ==
  ASSUME MailInv, NEW r \in ChRuns
  PROVE  /\ turn \in [ChRuns -> TurnType] /\ turn[r] \in TurnType
         /\ mail \in [Mails -> {"ready", "processing", "done", "quarantine"}]
         /\ TurnOk(turn[r], mail, mailRead)
         /\ \A m \in Mails : mail[m] = "done" => m \in mailRead
         /\ NewTurn \in TurnType
         /\ \A step \in {"begin", "ended"} :
              /\ [NewTurn EXCEPT !.at = step] \in TurnType
              /\ \A ml, read : TurnOk([NewTurn EXCEPT !.at = step], ml, read)
              /\ [NewTurn EXCEPT !.at = step].mail = NoMail
  BY DEF MailInv, MailHasOneReader, NewTurn, TurnType, TurnOk

\* The steps of a turn that change neither the mailbox nor what was read.
LEMMA QuietTurn ==
  ASSUME MailInv, NEW r \in ChRuns, NEW t \in TurnType, turn' = [turn EXCEPT ![r] = t],
         UNCHANGED <<mail, mailRead>>, TurnOk(t, mail, mailRead),
         t.mail = NoMail \/ t.at = "claim" \/ (t.mail = turn[r].mail /\ turn[r].at # "claim")
  PROVE  MailInv'
<1>1. t.mail # NoMail /\ t.at # "claim" => Holds(r) /\ t.mail = turn[r].mail BY DEF Holds
<1> QED BY <1>1, TurnTypes, MailMoves

LEMMA MailboxKeeps ==
  ASSUME MailInv, NEW r \in ChRuns, FirstMessage(r) \/ claim(r)
  PROVE  MailInv'
<1> DEFINE g == turn[r]
<1>1. /\ turn \in [ChRuns -> TurnType] /\ g \in TurnType
      /\ mail \in [Mails -> {"ready", "processing", "done", "quarantine"}]
      /\ TurnOk(g, mail, mailRead) /\ \A m \in Mails : mail[m] = "done" => m \in mailRead
  BY TurnTypes
<1>2. CASE FirstMessage(r)
  <2>1. g.at = "new" /\ g.mail = NoMail /\ UNCHANGED <<mail, mailRead>>
    BY <1>1, <1>2 DEF FirstMessage, TurnAt, TurnOk, mailVars
  <2>2. CASE Ready = {}
    <3> DEFINE t == [g EXCEPT !.at = "begin"]
    <3>1. turn' = [turn EXCEPT ![r] = t] BY <1>1, <1>2, <2>2 DEF FirstMessage
    <3>2. t \in TurnType /\ t.at = "begin" /\ t.mail = NoMail BY <1>1, <2>1 DEF TurnType
    <3> HIDE DEF t
    <3> QED BY <2>1, <3>1, <3>2, QuietTurn DEF TurnOk
  <2>3. CASE Ready # {}
    <3> DEFINE f == CHOOSE m \in Ready : \A n \in Ready : m <= n
               t == [g EXCEPT !.at = "claim", !.mail = f]
    <3>1. Ready \in SUBSET Nat BY MailsAssumption DEF Ready
    <3>2. f \in Mails /\ f # NoMail BY <2>3, <3>1, LeastNatural, MailsAssumption DEF Ready, NoMail
    <3>3. turn' = [turn EXCEPT ![r] = t] BY <1>1, <1>2, <2>3 DEF FirstMessage
    <3> HIDE DEF f
    <3>4. t \in TurnType /\ t.at = "claim" /\ t.mail = f BY <1>1, <3>2 DEF TurnType
    <3> HIDE DEF t
    <3> QED BY <2>1, <3>2, <3>3, <3>4, QuietTurn DEF TurnOk
  <2> QED BY <2>2, <2>3
<1>3. CASE claim(r)
  <2> DEFINE m == g.mail
  <2>1. g.at = "claim" /\ m \in Mails /\ m # NoMail /\ mailRead' = mailRead
    BY <1>1, <1>3 DEF claim, TurnAt, TurnOk, TurnType
  <2>2. CASE turn' = [turn EXCEPT ![r] = [NewTurn EXCEPT !.at = "ended"]] /\ UNCHANGED mail
    BY <2>1, <2>2, TurnTypes, QuietTurn
  <2>3. CASE /\ mail[m] = "ready" /\ mail' = [mail EXCEPT ![m] = "processing"]
             /\ TurnTo(r, "begin")
    <3> DEFINE t == [g EXCEPT !.at = "begin"]
    <3>1. turn' = [turn EXCEPT ![r] = t] BY <2>3 DEF TurnTo
    <3>2. t \in TurnType /\ t.at = "begin" /\ t.mail = m BY <1>1 DEF TurnType
    <3> HIDE DEF t
    <3>3. /\ mail' \in [Mails -> {"ready", "processing", "done", "quarantine"}]
          /\ mail'[m] = "processing" /\ \A n \in Mails \ {m} : mail'[n] = mail[n]
      BY <1>1, <2>1, <2>3
    <3>4. TurnOk(t, mail', mailRead') BY <3>2, <3>3 DEF TurnOk
    <3>5. /\ \A n \in Mails :
               mail'[n] # mail[n] => mail[n] = "ready" \/ (n = turn[r].mail /\ Holds(r))
          /\ \A n \in Mails : mail'[n] = "done" => n \in mailRead'
          /\ mailRead \subseteq mailRead' /\ mail[t.mail] = "ready"
      BY <1>1, <2>1, <2>3, <3>2, <3>3
    <3> QED BY <3>1, <3>2, <3>3, <3>4, <3>5, MailMoves, Zenon
  <2>4. CASE /\ mail[m] = "ready" /\ mail' = [mail EXCEPT ![m] = "quarantine"]
             /\ turn' = [turn EXCEPT ![r] = [NewTurn EXCEPT !.at = "begin"]]
    <3>3. /\ mail' \in [Mails -> {"ready", "processing", "done", "quarantine"}]
          /\ mail'[m] = "quarantine" /\ \A n \in Mails \ {m} : mail'[n] = mail[n]
      BY <1>1, <2>1, <2>4
    <3> DEFINE t == [NewTurn EXCEPT !.at = "begin"]
    <3>4. t \in TurnType /\ t.mail = NoMail /\ TurnOk(t, mail', mailRead') BY TurnTypes
    <3> HIDE DEF t
    <3>5. /\ \A n \in Mails :
               mail'[n] # mail[n] => mail[n] = "ready" \/ (n = turn[r].mail /\ Holds(r))
          /\ \A n \in Mails : mail'[n] = "done" => n \in mailRead'
          /\ mailRead \subseteq mailRead'
      BY <1>1, <2>1, <2>4, <3>3
    <3>6. turn' = [turn EXCEPT ![r] = t] BY <2>4 DEF t
    <3> QED BY <3>3, <3>4, <3>5, <3>6, MailMoves, Zenon
  <2> QED BY <1>3, <2>2, <2>3, <2>4 DEF claim
<1> QED BY <1>2, <1>3

\* A turn ends and puts its message into another directory, or leaves it.
LEMMA PutAway ==
  ASSUME MailInv, NEW r \in ChRuns, turn[r].at # "claim",
         turn' = [turn EXCEPT ![r] = [NewTurn EXCEPT !.at = "ended"]],
         UNCHANGED mailRead,
         \/ UNCHANGED mail \/ release(turn[r].mail)
         \/ ack(turn[r].mail) /\ (turn[r].mail # NoMail => turn[r].mail \in mailRead)
  PROVE  MailInv'
<1> DEFINE m == turn[r].mail
<1>1. /\ turn[r] \in TurnType /\ mail \in [Mails -> {"ready", "processing", "done", "quarantine"}]
      /\ \A n \in Mails : mail[n] = "done" => n \in mailRead
  BY TurnTypes
<1>2. CASE UNCHANGED mail BY <1>2, TurnTypes, QuietTurn
<1>3. CASE m # NoMail /\ \E d \in {"ready", "done"} :
              mail' = [mail EXCEPT ![m] = d] /\ (d = "done" => m \in mailRead)
  <2>1. m \in Mails /\ Holds(r) BY <1>1, <1>3 DEF TurnType, Holds
  <2>2. /\ mail' \in [Mails -> {"ready", "processing", "done", "quarantine"}]
        /\ \A n \in Mails \ {m} : mail'[n] = mail[n]
        /\ mail'[m] = "done" => m \in mailRead
    BY <1>1, <1>3, <2>1
  <2> QED BY <1>1, <2>1, <2>2, TurnTypes, MailMoves
<1> QED BY <1>2, <1>3 DEF release, ack

LEMMA TurnStepsKeep ==
  ASSUME MailInv, NEW r \in ChRuns,
         BeginTurn(r) \/ SetupTurn(r) \/ LoopEnds(r) \/ CloseTurn(r)
  PROVE  MailInv'
<1> DEFINE g == turn[r]
<1>1. /\ turn \in [ChRuns -> TurnType] /\ g \in TurnType /\ TurnOk(g, mail, mailRead)
      /\ mail \in [Mails -> {"ready", "processing", "done", "quarantine"}]
      /\ \A m \in Mails : mail[m] = "done" => m \in mailRead
  BY TurnTypes
<1>2. ASSUME NEW step \in {"setup", "running"}, TurnTo(r, step), UNCHANGED <<mail, mailRead>>,
             g.at \in {"begin", "setup"}
      PROVE  MailInv'
  <2> DEFINE t == [g EXCEPT !.at = step]
  <2>1. turn' = [turn EXCEPT ![r] = t] BY <1>2 DEF TurnTo
  <2>2. t \in TurnType /\ t.at = step /\ t.mail = g.mail BY <1>1 DEF TurnType
  <2> HIDE DEF t
  <2> QED BY <1>1, <1>2, <2>1, <2>2, QuietTurn DEF TurnOk
<1>3. CASE BeginTurn(r)
  <2>1. g.at = "begin" /\ UNCHANGED <<mail, mailRead>> BY <1>3 DEF BeginTurn, TurnAt, mailVars
  <2> QED BY <1>2, <1>3, <2>1, PutAway DEF BeginTurn
<1>4. CASE SetupTurn(r)
  <2>1. g.at = "setup" /\ mailRead' = mailRead BY <1>4 DEF SetupTurn, TurnAt
  <2>2. CASE TurnTo(r, "running") /\ UNCHANGED mail BY <1>2, <2>1, <2>2
  <2>3. CASE /\ turn' = [turn EXCEPT ![r] = [NewTurn EXCEPT !.at = "ended"]]
             /\ release(g.mail) \/ UNCHANGED mail
    BY <2>1, <2>3, PutAway
  <2> QED BY <1>4, <2>2, <2>3 DEF SetupTurn
<1>5. CASE LoopEnds(r)
  <2>1. g.at = "running" /\ mail' = mail BY <1>5 DEF LoopEnds, TurnAt
  <2>2. PICK ok \in BOOLEAN :
          /\ turn' = [turn EXCEPT ![r].at = "closing", ![r].ok = ok]
          /\ mailRead' = IF ok THEN mailRead \cup {g.mail} ELSE mailRead
    BY <1>5 DEF LoopEnds
  <2> DEFINE t == [g EXCEPT !.at = "closing", !.ok = ok]
  <2>3. turn' = [turn EXCEPT ![r] = t] BY <1>1, <2>2
  <2>4. t \in TurnType /\ t.at = "closing" /\ t.mail = g.mail /\ t.ok = ok BY <1>1 DEF TurnType
  <2> HIDE DEF t
  <2>5. TurnOk(t, mail', mailRead') BY <1>1, <2>1, <2>2, <2>4 DEF TurnOk
  <2>6. t.mail # NoMail => Holds(r) BY <2>1, <2>4 DEF Holds
  <2>7. mailRead \subseteq mailRead' BY <2>2
  <2> QED BY <1>1, <2>1, <2>3, <2>4, <2>5, <2>6, <2>7, MailMoves
<1>6. CASE CloseTurn(r)
  <2>1. /\ g.at = "closing" /\ mailRead' = mailRead
        /\ turn' = [turn EXCEPT ![r] = [NewTurn EXCEPT !.at = "ended"]]
        /\ IF g.ok THEN ack(g.mail) ELSE release(g.mail)
    BY <1>6 DEF CloseTurn, TurnAt
  <2>2. g.ok => (g.mail # NoMail => g.mail \in mailRead) BY <1>1, <2>1 DEF TurnOk
  <2> QED BY <2>1, <2>2, PutAway
<1> QED BY <1>3, <1>4, <1>5, <1>6

LEMMA MailStepHolds == MailInv /\ [ChNext]_chVars => MailInv'
<1> SUFFICES ASSUME MailInv, [ChNext]_chVars PROVE MailInv' OBVIOUS
<1>1. CASE UNCHANGED <<turn, mail, mailRead>>
  BY <1>1 DEF MailInv, MailHasOneReader, Holds
<1>2. CASE ChCrash
  <2>1. /\ turn' = [r \in ChRuns |-> IF turn[r].at = "new" THEN NewTurn
                                     ELSE [NewTurn EXCEPT !.at = "ended"]]
        /\ UNCHANGED <<mail, mailRead>>
    BY <1>2 DEF ChCrash, mailVars
  <2>2. \A r \in ChRuns : /\ turn'[r] \in TurnType /\ turn'[r].mail = NoMail
                          /\ turn'[r].at \in {"new", "ended"}
    BY <2>1 DEF NewTurn, TurnType
  <2>3. turn' \in [ChRuns -> TurnType] BY <2>1, <2>2
  <2> QED BY <2>1, <2>2, <2>3 DEF MailInv, MailHasOneReader, Holds, TurnOk
<1>3. ASSUME NEW r \in ChRuns,
             \/ FirstMessage(r) \/ claim(r) \/ BeginTurn(r) \/ SetupTurn(r)
             \/ LoopEnds(r) \/ CloseTurn(r)
      PROVE  MailInv'
  BY <1>3, MailboxKeeps, TurnStepsKeep
<1>4. ASSUME NEW r \in ChRuns, CancelRun(r) \/ \E c \in Kids : BeginChild(r, c)
      PROVE  UNCHANGED <<turn, mail, mailRead>>
  BY <1>4 DEF CancelRun, BeginChild, mailVars
<1>5. ASSUME NEW c \in Kids,
             \/ create_for_task(c) \/ ChildWorks(c) \/ ChildStops(c)
             \/ ChildRecordsEnd(c) \/ ChildFinishes(c) \/ ToolTimesOut(c) \/ CancelLooks(c)
      PROVE  UNCHANGED <<turn, mail, mailRead>>
  BY <1>5 DEF create_for_task, ChildWorks, ChildStops, ChildRecordsEnd, ChildFinishes,
              ToolTimesOut, CancelLooks, mailVars
<1>6. CASE CancelActs \/ interrupt_orphans \/ UNCHANGED chVars
  BY <1>1, <1>6 DEF CancelActs, interrupt_orphans, chVars, mailVars
<1> QED BY <1>1, <1>2, <1>3, <1>4, <1>5, <1>6 DEF ChNext

LEMMA MailInitHolds == ChInit => MailInv
  BY DEF ChInit, MailInv, MailHasOneReader, Holds, TurnOk, NewTurn, TurnType

-----------------------------------------------------------------------------
(* The child turns.                                                        *)

\* What a step may do to the rows that have ended: nothing.
EndedStay == \A c \in Kids : row[c] \in RowTerminal => row'[c] = row[c]

LEMMA KidTypes ==
  ASSUME KidsInv, NEW c \in Kids
  PROVE  /\ kid \in [Kids -> KidType] /\ kid[c] \in KidType
         /\ row \in [Kids -> {"absent", "created", "working"} \cup RowTerminal]
         /\ KidOk(kid[c], row[c], chUp /\ c \in active)
         /\ Live(kid[c]) => turn[kid[c].parent].at = "running"
  BY DEF KidsInv

\* The end of a turn takes no child out of the active ones whose parent goes on.
LEMMA FinishSpares ==
  ASSUME KidsInv, NEW t, FinishTurn(t), NEW c \in Kids, c \in active, c # t, kid[c].parent # t
  PROVE  c \in active'
  BY DEF FinishTurn, ChildrenOf

\* A turn of a run moves; no child that works has it as its parent.
LEMMA ParentMoves ==
  ASSUME KidsInv, UNCHANGED <<kid, row, killer, chUp>>,
         \A c \in Kids : Live(kid[c]) =>
           turn'[kid[c].parent].at = "running" /\ (c \in active => c \in active')
  PROVE  KidsInv' /\ EndedStay
<1>1. \A c \in Kids : KidOk(kid[c], row[c], chUp /\ c \in active') BY DEF KidsInv, KidOk
<1> QED BY <1>1 DEF KidsInv, EndedStay

LEMMA ParentSteps ==
  ASSUME MailInv, KidsInv, NEW r \in ChRuns,
         \/ FirstMessage(r) \/ claim(r) \/ BeginTurn(r) \/ SetupTurn(r)
         \/ LoopEnds(r) \/ CloseTurn(r) \/ CancelRun(r)
  PROVE  KidsInv' /\ EndedStay
<1>1. /\ UNCHANGED <<kid, row, killer, chUp>>
      /\ active' = active \/ active' = active \cup {r} \/ FinishTurn(r)
  BY DEF FirstMessage, claim, BeginTurn, SetupTurn, LoopEnds, CloseTurn, CancelRun, kidVars
<1>2. turn \in [ChRuns -> TurnType] BY DEF MailInv
<1>3. \A s \in ChRuns \ {r} : turn'[s] = turn[s]
  BY <1>2 DEF FirstMessage, claim, BeginTurn, SetupTurn, LoopEnds, CloseTurn, CancelRun, TurnTo
<1>4. CASE CancelRun(r) \/ \A c \in Kids : Live(kid[c]) => kid[c].parent # r
  <2> SUFFICES ASSUME NEW c \in Kids, Live(kid[c])
               PROVE  turn'[kid[c].parent].at = "running" /\ (c \in active => c \in active')
    BY <1>1, ParentMoves
  <2>1. kid[c].parent \in ChRuns /\ turn[kid[c].parent].at = "running" /\ c # r
    BY KidTypes, TurnIdsAssumption DEF KidOk
  <2>2. CASE CancelRun(r) BY <2>1, <2>2 DEF CancelRun
  <2>3. CASE kid[c].parent # r BY <1>1, <1>3, <2>1, <2>3, FinishSpares
  <2> QED BY <1>4, <2>2, <2>3
<1>5. CASE LoopEnds(r) BY <1>4, <1>5 DEF LoopEnds, Running, Live
<1>6. CASE FirstMessage(r) \/ claim(r) \/ BeginTurn(r) \/ SetupTurn(r) \/ CloseTurn(r)
  <2>1. turn[r].at # "running"
    BY <1>6 DEF FirstMessage, claim, BeginTurn, SetupTurn, CloseTurn, TurnAt
  <2> QED BY <1>4, <2>1, KidTypes
<1> QED BY <1>4, <1>5, <1>6

\* One child moves, perhaps with its row.
LEMMA KidMoves ==
  ASSUME KidsInv, NEW c \in Kids, NEW k \in KidType,
         NEW w \in {"absent", "created", "working"} \cup RowTerminal,
         kid' = [kid EXCEPT ![c] = k], row' = [row EXCEPT ![c] = w],
         KidOk(k, w, chUp /\ c \in active'), Live(k) => turn[k.parent].at = "running",
         row[c] # "absent" => w # "absent", row[c] \in RowTerminal => w = row[c],
         \A d \in Kids \ {c} : Live(kid[d]) => d \in active',
         UNCHANGED <<turn, killer, chUp>>
  PROVE  KidsInv' /\ EndedStay
<1>1. /\ kid \in [Kids -> KidType] /\ killer \in KillerType
      /\ row \in [Kids -> {"absent", "created", "working"} \cup RowTerminal]
  BY DEF KidsInv
<1>2. /\ kid'[c] = k /\ row'[c] = w
      /\ \A d \in Kids \ {c} : kid'[d] = kid[d] /\ row'[d] = row[d]
      /\ kid' \in [Kids -> KidType]
      /\ row' \in [Kids -> {"absent", "created", "working"} \cup RowTerminal]
  BY <1>1
<1>3. \A d \in Kids : KidOk(kid'[d], row'[d], chUp /\ d \in active')
  <2> SUFFICES ASSUME NEW d \in Kids, d # c PROVE KidOk(kid[d], row[d], chUp /\ d \in active')
    BY <1>2
  <2> QED BY KidTypes DEF KidOk
<1>4. \A d \in Kids : Live(kid'[d]) => turn'[kid'[d].parent].at = "running"
  BY <1>2, KidTypes
<1>5. killer.at = "looked" =>
        /\ killer.kid \in Kids /\ row'[killer.kid] # "absent"
        /\ killer.ended => row'[killer.kid] \in RowTerminal
  BY <1>2 DEF KidsInv
<1> QED BY <1>1, <1>2, <1>3, <1>4, <1>5 DEF KidsInv, EndedStay

\* The steps of a child that works.
LEMMA KidSteps ==
  ASSUME KidsInv, NEW c \in Kids,
         \/ create_for_task(c) \/ ChildWorks(c) \/ ChildStops(c) \/ ChildRecordsEnd(c)
         \/ ChildFinishes(c) \/ ToolTimesOut(c)
  PROVE  KidsInv' /\ EndedStay
<1> DEFINE g == kid[c]
<1>1. /\ kid \in [Kids -> KidType] /\ g \in KidType
      /\ row \in [Kids -> {"absent", "created", "working"} \cup RowTerminal]
      /\ KidOk(g, row[c], chUp /\ c \in active)
  BY KidTypes
<1>2. UNCHANGED <<turn, killer, chUp>> /\ chUp
  BY DEF create_for_task, ChildWorks, ChildStops, ChildRecordsEnd, ChildFinishes, ToolTimesOut,
         KidAt
<1>3. /\ Live(g) /\ g.at \in {"record", "running", "ending", "ended"}
      /\ g.parent \in ChRuns /\ turn[g.parent].at = "running" /\ c \in active
  BY <1>1, KidTypes
  DEF create_for_task, ChildWorks, ChildStops, ChildRecordsEnd, ChildFinishes, ToolTimesOut,
      KidAt, Live, KidOk
<1>4. ASSUME NEW d \in Kids \ {c}, Live(kid[d]), UNCHANGED active \/ FinishTurn(c)
      PROVE  d \in active'
  <2>1. d \in active /\ kid[d].parent \in ChRuns BY <1>4, KidTypes DEF KidOk
  <2> QED BY <1>4, <2>1, FinishSpares, TurnIdsAssumption
<1>5. ASSUME NEW step \in {"running", "ending", "ended", "gone"},
             NEW outcome \in {"none"} \cup RowTerminal, NEW lost \in BOOLEAN,
             kid' = [kid EXCEPT ![c] = [g EXCEPT !.at = step, !.outcome = outcome, !.lost = lost]],
             NEW w \in {"absent", "created", "working"} \cup RowTerminal,
             row' = [row EXCEPT ![c] = w],
             UNCHANGED active \/ (FinishTurn(c) /\ step = "gone"),
             step \in {"running", "ending"} => w \in {"created", "working"},
             step = "ending" => outcome \in RowTerminal,
             row[c] # "absent" => w # "absent", row[c] \in RowTerminal => w = row[c]
      PROVE  KidsInv' /\ EndedStay
  <2> DEFINE k == [g EXCEPT !.at = step, !.outcome = outcome, !.lost = lost]
  <2>1. k \in KidType /\ k.at = step /\ k.outcome = outcome /\ k.parent = g.parent
    BY <1>1 DEF KidType
  <2>2. kid' = [kid EXCEPT ![c] = k] BY <1>5
  <2> HIDE DEF k
  <2>3. KidOk(k, w, chUp /\ c \in active')
    BY <1>2, <1>3, <1>5, <2>1 DEF KidOk, Live
  <2>4. \A d \in Kids \ {c} : Live(kid[d]) => d \in active' BY <1>4, <1>5
  <2> QED BY <1>2, <1>3, <1>5, <2>1, <2>2, <2>3, <2>4, KidMoves
<1>6. /\ row[c] \in {"absent", "created", "working"} \cup RowTerminal
      /\ row = [row EXCEPT ![c] = row[c]]
      /\ g.outcome \in {"none"} \cup RowTerminal /\ g.lost \in BOOLEAN
      /\ g.at = "record" => row[c] = "absent"
      /\ g.at \in {"running", "ending"} => row[c] \in {"created", "working"}
      /\ g.at = "ending" => g.outcome \in RowTerminal
  BY <1>1 DEF KidOk, KidType
<1>7. CASE create_for_task(c)
  <2>1. g.at = "record" BY <1>7 DEF create_for_task, KidAt
  <2>2. \A step : [kid EXCEPT ![c].at = step] =
                  [kid EXCEPT ![c] = [g EXCEPT !.at = step, !.outcome = g.outcome, !.lost = g.lost]]
    BY <1>1 DEF KidType
  <2>3. CASE /\ row' = [row EXCEPT ![c] = "created"] /\ kid' = [kid EXCEPT ![c].at = "running"]
             /\ UNCHANGED active
    BY <1>5, <1>6, <2>1, <2>2, <2>3 DEF RowTerminal
  <2>4. CASE FinishTurn(c) /\ kid' = [kid EXCEPT ![c].at = "gone"] /\ UNCHANGED row
    BY <1>5, <1>6, <2>1, <2>2, <2>4
  <2> QED BY <1>7, <2>3, <2>4 DEF create_for_task
<1>8. CASE ChildWorks(c)
  <2>1. g.at = "running" /\ UNCHANGED active /\ append(c, "working")
    BY <1>8 DEF ChildWorks, KidAt
  <2>2. /\ kid = [kid EXCEPT ![c] =
                [g EXCEPT !.at = "running", !.outcome = g.outcome, !.lost = g.lost]]
        /\ [kid EXCEPT ![c].lost = TRUE] =
             [kid EXCEPT ![c] = [g EXCEPT !.at = "running", !.outcome = g.outcome, !.lost = TRUE]]
    BY <1>1, <2>1 DEF KidType
  <2>3. CASE UNCHANGED <<row, kid>> BY <1>5, <1>6, <2>1, <2>2, <2>3
  <2>4. CASE row' = [row EXCEPT ![c] = "working"] /\ UNCHANGED kid
    BY <1>5, <1>6, <2>1, <2>2, <2>4 DEF RowTerminal
  <2>5. CASE UNCHANGED row /\ kid' = [kid EXCEPT ![c].lost = TRUE]
    BY <1>5, <1>6, <2>1, <2>2, <2>5
  <2> QED BY <2>1, <2>3, <2>4, <2>5 DEF append
<1>9. CASE ChildStops(c)
  <2>1. g.at = "running" /\ UNCHANGED <<active, row>> BY <1>9 DEF ChildStops, KidAt
  <2>2. PICK outcome \in {"cancelled", "failed", "completed"} :
          kid' = [kid EXCEPT ![c].at = "ending", ![c].outcome = outcome]
    BY <1>9 DEF ChildStops
  <2>3. kid' = [kid EXCEPT ![c] = [g EXCEPT !.at = "ending", !.outcome = outcome, !.lost = g.lost]]
    BY <1>1, <2>2 DEF KidType
  <2>4. outcome \in RowTerminal BY DEF RowTerminal
  <2> QED BY <1>5, <1>6, <2>1, <2>3, <2>4
<1>10. CASE ChildRecordsEnd(c)
  <2>1. g.at = "ending" /\ UNCHANGED active BY <1>10 DEF ChildRecordsEnd, KidAt
  <2>2. kid' = [kid EXCEPT ![c] = [g EXCEPT !.at = "ended", !.outcome = g.outcome, !.lost = g.lost]]
    BY <1>1, <1>10 DEF ChildRecordsEnd, KidType
  <2>3. row' = row \/ row' = [row EXCEPT ![c] = g.outcome]
    BY <1>1, <1>6, <1>10 DEF ChildRecordsEnd
  <2>4. g.outcome # "absent" /\ row[c] \notin RowTerminal BY <1>6, <2>1 DEF RowTerminal
  <2> QED BY <1>5, <1>6, <2>1, <2>2, <2>3, <2>4
<1>11. CASE ChildFinishes(c) \/ ToolTimesOut(c)
  <2>1. UNCHANGED row /\ (UNCHANGED active \/ FinishTurn(c))
    BY <1>11 DEF ChildFinishes, ToolTimesOut
  <2>2. kid' = [kid EXCEPT ![c] = [g EXCEPT !.at = "gone", !.outcome = g.outcome, !.lost = g.lost]]
    BY <1>1, <1>11 DEF ChildFinishes, ToolTimesOut, KidType
  <2> QED BY <1>5, <1>6, <2>1, <2>2
<1> QED BY <1>7, <1>8, <1>9, <1>10, <1>11

\* A child turn begins.
LEMMA BeginKeeps ==
  ASSUME KidsInv, NEW r \in ChRuns, NEW c \in Kids, BeginChild(r, c)
  PROVE  KidsInv' /\ EndedStay
<1> DEFINE k == [NoKid EXCEPT !.parent = r, !.at = "record"]
<1>1. /\ kid' = [kid EXCEPT ![c] = k] /\ UNCHANGED <<turn, row, killer, chUp>> /\ chUp
      /\ active' = active \cup {c} /\ turn[r].at = "running" /\ row[c] = "absent"
  BY DEF BeginChild, TurnAt
<1>2. k \in KidType /\ k.at = "record" /\ k.parent = r /\ k.outcome = "none"
  BY DEF NoKid, KidType
<1> HIDE DEF k
<1>3. row' = [row EXCEPT ![c] = "absent"] BY <1>1, KidTypes
<1>4. KidOk(k, "absent", chUp /\ c \in active') BY <1>1, <1>2 DEF KidOk
<1>5. \A d \in Kids \ {c} : Live(kid[d]) => d \in active' BY <1>1, KidTypes DEF KidOk
<1> QED BY <1>1, <1>2, <1>3, <1>4, <1>5, KidMoves DEF RowTerminal

\* The cancel command, a crash and the restart after it.
LEMMA KillerSteps ==
  ASSUME KidsInv, (\E c \in Kids : CancelLooks(c)) \/ CancelActs \/ ChCrash \/ interrupt_orphans
  PROVE  KidsInv' /\ EndedStay
<1>1. /\ kid \in [Kids -> KidType] /\ killer \in KillerType
      /\ row \in [Kids -> {"absent", "created", "working"} \cup RowTerminal]
  BY DEF KidsInv
<1>2. NoKiller \in KillerType /\ NoKiller.at = "idle" BY DEF NoKiller, KillerType
<1>3. ASSUME NEW c \in Kids, CancelLooks(c) PROVE KidsInv' /\ EndedStay
  <2>1. UNCHANGED <<turn, kid, row, active, chUp>> /\ row[c] # "absent"
    BY <1>3 DEF CancelLooks, kidVars
  <2> DEFINE e == row[c] \in RowTerminal
  <2>2. killer' = [at |-> "looked", kid |-> c, ended |-> e] /\ e \in BOOLEAN
    BY <1>3 DEF CancelLooks
  <2>3. killer' \in KillerType /\ killer'.kid = c /\ killer'.ended = e
    <3> HIDE DEF e
    <3> QED BY <2>2 DEF KillerType
  <2> QED BY <2>1, <2>3 DEF KidsInv, EndedStay
<1>4. CASE CancelActs
  <2>1. UNCHANGED <<turn, kid, active, chUp>> /\ killer' = NoKiller /\ killer.at = "looked"
    BY <1>4 DEF CancelActs
  <2>2. CASE row' = row BY <1>2, <2>1, <2>2 DEF KidsInv, EndedStay
  <2>3. CASE /\ killer.ended \/ killer.kid \notin active
             /\ row' = [row EXCEPT ![killer.kid] = IF @ \in RowTerminal THEN @ ELSE "cancelled"]
    <3> DEFINE c == killer.kid
    <3>1. /\ c \in Kids /\ row[c] # "absent" /\ (killer.ended => row[c] \in RowTerminal)
      BY <2>1 DEF KidsInv
    <3>2. KidOk(kid[c], row[c], chUp /\ c \in active) BY <3>1, KidTypes
    <3>3. CASE row[c] \in RowTerminal
      <4>1. row' = row BY <1>1, <2>3, <3>1, <3>3
      <4> QED BY <2>2, <4>1
    <3>4. CASE row[c] \notin RowTerminal
      <4>1. c \notin active BY <2>3, <3>1, <3>4
      <4>2. /\ row'[c] = "cancelled" /\ \A d \in Kids \ {c} : row'[d] = row[d]
            /\ row' \in [Kids -> {"absent", "created", "working"} \cup RowTerminal]
        BY <1>1, <2>3, <3>1, <3>4 DEF RowTerminal
      <4>3. KidOk(kid[c], "cancelled", chUp /\ c \in active)
        BY <3>2, <4>1 DEF KidOk, Live
      <4>4. \A d \in Kids : KidOk(kid[d], row'[d], chUp /\ d \in active)
        BY <4>2, <4>3, KidTypes
      <4>5. EndedStay BY <3>4, <4>2 DEF EndedStay
      <4> QED BY <1>2, <2>1, <4>2, <4>4, <4>5 DEF KidsInv
    <3> QED BY <3>3, <3>4
  <2> QED BY <1>4, <2>2, <2>3 DEF CancelActs
<1>5. CASE ChCrash
  <2>1. /\ UNCHANGED row /\ killer' = NoKiller
        /\ kid' = [c \in Kids |-> IF kid[c] = NoKid THEN NoKid ELSE [kid[c] EXCEPT !.at = "gone"]]
    BY <1>5 DEF ChCrash
  <2>2. \A c \in Kids : kid'[c] \in KidType /\ kid'[c].at \in {"none", "gone"}
    BY <1>1, <2>1 DEF NoKid, KidType
  <2>3. kid' \in [Kids -> KidType] BY <2>1, <2>2
  <2> QED BY <1>1, <1>2, <2>1, <2>2, <2>3 DEF KidsInv, KidOk, Live, EndedStay
<1>6. CASE interrupt_orphans
  <2>1. /\ UNCHANGED <<turn, kid, active, killer>> /\ ~chUp
        /\ row' = [c \in Kids |-> IF row[c] \in {"created", "working"} THEN "interrupted"
                                  ELSE row[c]]
    BY <1>6 DEF interrupt_orphans
  <2>2. /\ row' \in [Kids -> {"absent", "created", "working"} \cup RowTerminal] /\ EndedStay
        /\ \A c \in Kids : row[c] # "absent" => row'[c] # "absent"
    BY <1>1, <2>1 DEF RowTerminal, EndedStay
  <2>3. \A c \in Kids : ~Live(kid[c]) BY <2>1, KidTypes DEF KidOk
  <2>4. \A c \in Kids : KidOk(kid[c], row'[c], chUp' /\ c \in active)
    BY <2>3, KidTypes DEF KidOk, Live
  <2>5. killer.at = "looked" /\ killer.ended => row'[killer.kid] \in RowTerminal
    BY <2>2 DEF KidsInv, EndedStay
  <2> QED BY <1>1, <2>1, <2>2, <2>3, <2>4, <2>5 DEF KidsInv
<1> QED BY <1>3, <1>4, <1>5, <1>6

LEMMA KidStepHolds == MailInv /\ KidsInv /\ [ChNext]_chVars => KidsInv' /\ EndedStay
<1> SUFFICES ASSUME MailInv, KidsInv, [ChNext]_chVars PROVE KidsInv' /\ EndedStay OBVIOUS
<1>1. ASSUME NEW r \in ChRuns,
             \/ FirstMessage(r) \/ claim(r) \/ BeginTurn(r) \/ SetupTurn(r)
             \/ LoopEnds(r) \/ CloseTurn(r) \/ CancelRun(r)
      PROVE  KidsInv' /\ EndedStay
  BY <1>1, ParentSteps
<1>2. ASSUME NEW r \in ChRuns, NEW c \in Kids, BeginChild(r, c) PROVE KidsInv' /\ EndedStay
  BY <1>2, BeginKeeps
<1>3. ASSUME NEW c \in Kids,
             \/ create_for_task(c) \/ ChildWorks(c) \/ ChildStops(c) \/ ChildRecordsEnd(c)
             \/ ChildFinishes(c) \/ ToolTimesOut(c)
      PROVE  KidsInv' /\ EndedStay
  BY <1>3, KidSteps
<1>4. CASE (\E c \in Kids : CancelLooks(c)) \/ CancelActs \/ ChCrash \/ interrupt_orphans
  BY <1>4, KillerSteps
<1>5. CASE UNCHANGED chVars BY <1>5 DEF chVars, KidsInv, EndedStay
<1> QED BY <1>1, <1>2, <1>3, <1>4, <1>5 DEF ChNext

LEMMA KidInitHolds == ChInit => KidsInv
  BY DEF ChInit, KidsInv, KidOk, Live, NoKid, KidType, NoKiller, KillerType

\* Who holds a message, and that a child at work owns its row and its turn.
THEOREM TurnsInvariant == ChSpec => [](MailInv /\ KidsInv)
  BY MailInitHolds, KidInitHolds, MailStepHolds, KidStepHolds, PTL DEF ChSpec

\* A mailbox message is in the hands of one turn at a time, and is done only when a
\* loop that was given it has ended well.
THEOREM MailGoesToOneReader == ChSpec => []MailHasOneReader
<1>1. MailInv => MailHasOneReader BY DEF MailInv
<1> QED BY <1>1, TurnsInvariant, PTL

\* The row of a child turn that has ended never changes again: neither the events of
\* its loop, nor the cancel command, nor a restart finds it open.
THEOREM EndedChildrenStay == ChSpec => EndedChildStaysEnded
<1>1. MailInv /\ KidsInv /\ [ChNext]_chVars =>
        [\A c \in Kids : row[c] \in RowTerminal => row'[c] = row[c]]_chVars
  BY KidStepHolds DEF EndedStay
<1> QED BY <1>1, TurnsInvariant, PTL DEF ChSpec, EndedChildStaysEnded

-----------------------------------------------------------------------------
(***************************************************************************)
(* Conversations: SummaryIsAnchored. Message ids rise along a              *)
(* conversation, and whatever the user truncates, edits or deletes while a *)
(* summary is being written, a message that is still there has before it   *)
(* what it always had: so a plan whose anchor is still there covers what   *)
(* is before the anchor, and nothing else.                                 *)
(***************************************************************************)

Msg == [id : Nat, role : {"user", "agent"}, edits : Nat]
Digests == Seq(Nat \X Nat)
PlanRow == [covered : Nat, digest : Digests]
SummaryRow == [digest : Digests, covered : Nat, sources : Seq(Nat)]
Summaries == {<<>>} \cup {<<s>> : s \in SummaryRow}
CommandRow == [stage : {"answering", "answered", "planning", "folding"}, conv : Convs,
               asked : Nat, plan : PlanRow]

\* Later messages have larger ids.
Rising(ms) == \A i, j \in 1..Len(ms) : i < j => ms[i].id < ms[j].id

DigestIds(digest) == {t[1] : t \in Range(digest)}

\* What a plan covers, if the message it ends with is still there: all that is
\* before it, and nothing that has gone.
Covers(ms, digest, id) ==
  id \in IdSet(ms) => DigestIds(digest) = {k \in IdSet(ms) : k <= id}

ConvTypeOK ==
  /\ convLive \in [Convs -> BOOLEAN]
  /\ convMsgs \in [Convs -> Seq(Msg)]
  /\ convSums \in [Convs -> Summaries]
  /\ convNext \in Nat
  /\ convJobs \in [CvJobs -> {Free} \cup CommandRow]

MessagesInv ==
  \A c \in Convs :
    /\ Rising(convMsgs[c])
    /\ \A i \in 1..Len(convMsgs[c]) : convMsgs[c][i].id < convNext
    /\ ~convLive[c] => convMsgs[c] = <<>> /\ convSums[c] = <<>>

SummarySound(c) ==
  convSums[c] # <<>> =>
    /\ latest_summary(c).covered \in IdSet(convMsgs[c])
    /\ Covers(convMsgs[c], latest_summary(c).digest, latest_summary(c).covered)
    /\ latest_summary(c).sources = IdsOf(UpTo(convMsgs[c], latest_summary(c).covered))

CommandSound(j) ==
  convJobs[j].stage = "folding" =>
    /\ convJobs[j].plan.covered < convNext
    /\ Covers(convMsgs[convJobs[j].conv], convJobs[j].plan.digest, convJobs[j].plan.covered)

ConvInv ==
  /\ ConvTypeOK /\ MessagesInv
  /\ \A c \in Convs : SummarySound(c)
  /\ \A j \in CvJobs : CommandSound(j)

-----------------------------------------------------------------------------
LEMMA MessageAt ==
  ASSUME NEW ms \in Seq(Msg), NEW i \in 1..Len(ms)
  PROVE  ms[i] \in Msg /\ ms[i].id \in Nat /\ i \in Nat
<1>1. ms[i] \in Msg OBVIOUS
<1>2. ms[i].id \in Nat BY <1>1 DEF Msg
<1> QED BY <1>1, <1>2

LEMMA IdsAre ==
  ASSUME NEW ms \in Seq(Msg)
  PROVE  /\ IdSet(ms) = {ms[i].id : i \in 1..Len(ms)}
         /\ IdsOf(ms) \in Seq(Nat) /\ IdSet(ms) \in SUBSET Nat
<1>1. IdsOf(ms) = [i \in 1..Len(ms) |-> ms[i].id] BY DEF IdsOf
<1>2. Len(ms) \in Nat /\ \A i \in 1..Len(ms) : ms[i] \in Msg /\ ms[i].id \in Nat BY MessageAt
<1>3. IdsOf(ms) \in Seq(Nat) BY <1>1, <1>2
<1>4. Range(IdsOf(ms)) = {ms[i].id : i \in 1..Len(ms)}
  BY <1>1 DEF Range
<1> QED BY <1>2, <1>3, <1>4 DEF IdSet

LEMMA PositionIs ==
  ASSUME NEW ms \in Seq(Msg), Rising(ms), NEW p \in 1..Len(ms)
  PROVE  Position(ms, ms[p].id) = p
<1>1. ASSUME NEW i \in 1..Len(ms), ms[i].id = ms[p].id PROVE i = p
  <2>1. ms[i].id \in Nat /\ ms[p].id \in Nat /\ i \in Nat /\ p \in Nat BY MessageAt
  <2>2. ~(i < p) /\ ~(p < i) BY <1>1, <2>1 DEF Rising
  <2> QED BY <2>1, <2>2
<1> QED BY <1>1 DEF Position

\* The messages up to an anchor.
LEMMA UpToIs ==
  ASSUME NEW ms \in Seq(Msg), Rising(ms), NEW id \in IdSet(ms)
  PROVE  /\ Position(ms, id) \in 1..Len(ms) /\ ms[Position(ms, id)].id = id
         /\ UpTo(ms, id) \in Seq(Msg) /\ Rising(UpTo(ms, id))
         /\ Len(UpTo(ms, id)) = Position(ms, id)
         /\ \A i \in 1..Position(ms, id) : UpTo(ms, id)[i] = ms[i]
         /\ IdSet(UpTo(ms, id)) = {k \in IdSet(ms) : k <= id}
<1>1. PICK p \in 1..Len(ms) : ms[p].id = id BY IdsAre
<1>2. Position(ms, id) = p BY <1>1, PositionIs
<1>3. UpTo(ms, id) = SubSeq(ms, 1, p) BY <1>2 DEF UpTo
<1>4. /\ UpTo(ms, id) \in Seq(Msg) /\ Len(UpTo(ms, id)) = p
      /\ \A i \in 1..p : UpTo(ms, id)[i] = ms[i]
  BY <1>1, <1>3
<1>5. Rising(UpTo(ms, id)) BY <1>1, <1>4 DEF Rising
<1>6. \A i \in 1..Len(ms) : ms[i].id <= id <=> i <= p
  <2>1. ASSUME NEW i \in 1..Len(ms) PROVE ms[i].id <= id <=> i <= p
    <3>1. ms[i].id \in Nat /\ ms[p].id \in Nat /\ i \in Nat /\ p \in Nat BY <1>1, MessageAt
    <3>2. (i < p => ms[i].id < id) /\ (p < i => id < ms[i].id) BY <1>1 DEF Rising
    <3>3. i = p => ms[i].id = id BY <1>1
    <3> QED BY <1>1, <3>1, <3>2, <3>3
  <2> QED BY <2>1
<1>7. IdSet(UpTo(ms, id)) = {ms[i].id : i \in 1..p}
  <2>1. IdSet(UpTo(ms, id)) = {UpTo(ms, id)[i].id : i \in 1..p} BY <1>4, IdsAre
  <2> QED BY <1>4, <2>1
<1>8. {ms[i].id : i \in 1..p} = {k \in IdSet(ms) : k <= id}
  <2>1. IdSet(ms) = {ms[i].id : i \in 1..Len(ms)} BY IdsAre
  <2>2. \A i \in 1..p : i \in 1..Len(ms) /\ i <= p BY <1>1
  <2>3. \A i \in 1..Len(ms) : i <= p => i \in 1..p BY <1>1
  <2> QED BY <1>6, <2>1, <2>2, <2>3
<1> QED BY <1>1, <1>2, <1>4, <1>5, <1>7, <1>8

\* A message with a new id at the end.
LEMMA AppendIs ==
  ASSUME NEW ms \in Seq(Msg), Rising(ms), NEW m \in Msg,
         \A i \in 1..Len(ms) : ms[i].id < m.id
  PROVE  /\ Append(ms, m) \in Seq(Msg) /\ Rising(Append(ms, m))
         /\ IdSet(Append(ms, m)) = IdSet(ms) \cup {m.id}
         /\ m.id \notin IdSet(ms)
         /\ \A id \in IdSet(ms) : UpTo(Append(ms, m), id) = UpTo(ms, id)
<1> DEFINE mt == Append(ms, m)
<1>1. /\ mt \in Seq(Msg) /\ Len(mt) = Len(ms) + 1 /\ mt[Len(ms) + 1] = m
      /\ \A i \in 1..Len(ms) : mt[i] = ms[i]
  OBVIOUS
<1>0. Len(ms) \in Nat OBVIOUS
<1> HIDE DEF mt
<1>2. Rising(mt)
  <2> SUFFICES ASSUME NEW i \in 1..Len(mt), NEW j \in 1..Len(mt), i < j PROVE mt[i].id < mt[j].id
    BY DEF Rising
  <2>1. i \in 1..Len(ms) BY <1>0, <1>1
  <2>2. CASE j = Len(ms) + 1 BY <1>1, <2>1, <2>2
  <2>3. CASE j # Len(ms) + 1
    <3>1. j \in 1..Len(ms) BY <1>0, <1>1, <2>3
    <3> QED BY <1>1, <2>1, <3>1 DEF Rising
  <2> QED BY <2>2, <2>3
<1>3. IdSet(mt) = IdSet(ms) \cup {m.id}
  <2>1. IdSet(ms) = {ms[i].id : i \in 1..Len(ms)} /\ IdSet(mt) = {mt[i].id : i \in 1..Len(mt)}
    BY <1>1, IdsAre
  <2>2. \A i \in 1..Len(mt) : i \in 1..Len(ms) \/ i = Len(ms) + 1 BY <1>0, <1>1
  <2>3. \A i \in 1..Len(ms) : i \in 1..Len(mt) BY <1>0, <1>1
  <2>4. Len(ms) + 1 \in 1..Len(mt) BY <1>0, <1>1
  <2> QED BY <1>1, <2>1, <2>2, <2>3, <2>4
<1>4. m.id \notin IdSet(ms)
  <2>1. \A i \in 1..Len(ms) : ms[i].id # m.id BY DEF Msg
  <2> QED BY <2>1, IdsAre
<1>5. ASSUME NEW id \in IdSet(ms) PROVE UpTo(mt, id) = UpTo(ms, id)
  <2>1. PICK p \in 1..Len(ms) : ms[p].id = id BY IdsAre
  <2>2. Position(ms, id) = p BY <2>1, PositionIs
  <2>3. p \in 1..Len(mt) /\ mt[p].id = id BY <1>0, <1>1, <2>1
  <2>4. Position(mt, id) = p BY <1>1, <1>2, <2>3, PositionIs
  <2>5. SubSeq(mt, 1, p) = SubSeq(ms, 1, p) BY <1>1, <2>1, <2>3
  <2> QED BY <2>2, <2>4, <2>5 DEF UpTo
<1> QED BY <1>1, <1>2, <1>3, <1>4, <1>5 DEF mt

\* A change of one conversation's messages that leaves the old ones up to any
\* that is still there as they were.
PrefixKept(ms, mt) ==
  \A id \in Nat : id < convNext /\ id \in IdSet(mt) =>
     id \in IdSet(ms) /\ {k \in IdSet(mt) : k <= id} = {k \in IdSet(ms) : k <= id}

\* Commands that have planned, and others at any step.
JobsSettle ==
  /\ convJobs' \in [CvJobs -> {Free} \cup CommandRow]
  /\ \A j \in CvJobs : convJobs'[j] = convJobs[j] \/ convJobs'[j].stage # "folding"

LEMMA JobType ==
  ASSUME ConvInv, NEW j \in CvJobs, convJobs[j].stage # "free"
  PROVE  /\ convJobs[j] \in CommandRow /\ convJobs[j].conv \in Convs
         /\ convJobs[j].plan \in PlanRow /\ convJobs[j].plan.covered \in Nat
         /\ convJobs[j].plan.digest \in Digests
<1>1. convJobs[j] \in CommandRow BY DEF ConvInv, ConvTypeOK, Free
<1>2. convJobs[j].conv \in Convs /\ convJobs[j].plan \in PlanRow BY <1>1 DEF CommandRow
<1> QED BY <1>1, <1>2 DEF PlanRow

LEMMA OneConversation ==
  ASSUME ConvInv, NEW c \in Convs, NEW mt \in Seq(Msg), Rising(mt),
         convMsgs' = [convMsgs EXCEPT ![c] = mt], PrefixKept(convMsgs[c], mt),
         convNext' \in Nat, convNext <= convNext', \A i \in 1..Len(mt) : mt[i].id < convNext',
         convLive' \in [Convs -> BOOLEAN], convLive'[c] \/ (mt = <<>> /\ convSums'[c] = <<>>),
         \A d \in Convs \ {c} : convLive'[d] = convLive[d],
         convSums' \in [Convs -> Summaries],
         \A d \in Convs \ {c} : convSums'[d] = convSums[d],
         SummarySound(c)', JobsSettle
  PROVE  ConvInv'
<1>1. convMsgs \in [Convs -> Seq(Msg)] /\ convNext \in Nat BY DEF ConvInv, ConvTypeOK
<1>2. convMsgs' \in [Convs -> Seq(Msg)] /\ convMsgs'[c] = mt
      /\ \A d \in Convs \ {c} : convMsgs'[d] = convMsgs[d]
  BY <1>1
<1>3. ConvTypeOK' BY <1>2 DEF ConvTypeOK, JobsSettle
<1>4. ASSUME NEW d \in Convs
      PROVE  /\ Rising(convMsgs'[d])
             /\ \A i \in 1..Len(convMsgs'[d]) : convMsgs'[d][i].id < convNext'
             /\ ~convLive'[d] => convMsgs'[d] = <<>> /\ convSums'[d] = <<>>
  <2>1. CASE d = c BY <1>2, <2>1
  <2>2. CASE d # c
    <3>1. convMsgs'[d] = convMsgs[d] /\ convMsgs[d] \in Seq(Msg) BY <1>1, <1>2, <2>2
    <3>2. \A i \in 1..Len(convMsgs[d]) : convMsgs[d][i].id \in Nat BY <3>1, MessageAt
    <3>3. \A i \in 1..Len(convMsgs[d]) : convMsgs[d][i].id < convNext BY DEF ConvInv, MessagesInv
    <3>4. \A i \in 1..Len(convMsgs[d]) : convMsgs[d][i].id < convNext' BY <1>1, <3>2, <3>3
    <3>5. convLive'[d] = convLive[d] /\ convSums'[d] = convSums[d] BY <2>2
    <3>6. Rising(convMsgs[d]) /\ (~convLive[d] => convMsgs[d] = <<>> /\ convSums[d] = <<>>)
      BY DEF ConvInv, MessagesInv
    <3> QED BY <3>1, <3>4, <3>5, <3>6
  <2> QED BY <2>1, <2>2
<1>5. MessagesInv' BY <1>4 DEF MessagesInv, Rising
<1>6. ASSUME NEW d \in Convs PROVE SummarySound(d)'
  <2>1. CASE d = c BY <2>1
  <2>2. CASE d # c
    <3>1. convMsgs'[d] = convMsgs[d] /\ convSums'[d] = convSums[d] BY <1>2, <2>2
    <3> QED BY <3>1 DEF ConvInv, SummarySound, latest_summary, Covers
  <2> QED BY <2>1, <2>2
<1>7. ASSUME NEW j \in CvJobs PROVE CommandSound(j)'
  <2> SUFFICES ASSUME convJobs'[j].stage = "folding"
               PROVE  /\ convJobs'[j].plan.covered < convNext'
                      /\ Covers(convMsgs'[convJobs'[j].conv], convJobs'[j].plan.digest,
                                convJobs'[j].plan.covered)
    BY DEF CommandSound, Covers
  <2>1. convJobs'[j] = convJobs[j] BY DEF JobsSettle
  <2> DEFINE d == convJobs[j].conv
             id == convJobs[j].plan.covered
             dg == convJobs[j].plan.digest
  <2>2. d \in Convs /\ id \in Nat BY <2>1, JobType
  <2>3. id < convNext /\ Covers(convMsgs[d], dg, id) BY <2>1 DEF ConvInv, CommandSound
  <2>4. id < convNext' BY <1>1, <2>2, <2>3
  <2>5. Covers(convMsgs'[d], dg, id)
    <3>1. CASE d = c BY <1>2, <2>2, <2>3, <3>1 DEF Covers, PrefixKept
    <3>2. CASE d # c BY <1>2, <2>2, <2>3, <3>2
    <3> QED BY <3>1, <3>2
  <2> QED BY <2>1, <2>4, <2>5
<1> QED BY <1>3, <1>5, <1>6, <1>7 DEF ConvInv

\* Cutting a conversation after one of its messages.
LEMMA CutIsPrefix ==
  ASSUME NEW ms \in Seq(Msg), NEW mt \in Seq(Msg), NEW a \in Nat,
         IdSet(mt) = {k \in IdSet(ms) : k <= a}
  PROVE  PrefixKept(ms, mt)
<1>1. IdSet(ms) \in SUBSET Nat BY IdsAre
<1> QED BY <1>1 DEF PrefixKept

\* A summary that is removed is sound.
LEMMA NoSummary == ASSUME NEW c, convSums'[c] = <<>> PROVE SummarySound(c)'
  BY DEF SummarySound

\* A message that is appended.
LEMMA AppendKeeps ==
  ASSUME ConvInv, NEW c \in Convs, NEW role \in {"user", "agent"}, convLive[c],
         append_message(c, role), UNCHANGED <<convLive, convSums>>, JobsSettle
  PROVE  ConvInv'
<1>1. PICK m \in Msg : m = [id |-> convNext, role |-> role, edits |-> 0]
  BY DEF Msg, ConvInv, ConvTypeOK
<1>2. m.id = convNext /\ convNext \in Nat BY <1>1 DEF ConvInv, ConvTypeOK
<1>a. PICK ms, mt : ms = convMsgs[c] /\ mt = Append(ms, m) OBVIOUS
<1>3. /\ convMsgs' = [convMsgs EXCEPT ![c] = mt] /\ convNext' = convNext + 1
  BY <1>1, <1>a DEF append_message
<1>4. ms \in Seq(Msg) /\ Rising(ms) /\ \A i \in 1..Len(ms) : ms[i].id < m.id
  BY <1>2, <1>a DEF ConvInv, ConvTypeOK, MessagesInv
<1>5. /\ mt \in Seq(Msg) /\ Rising(mt) /\ IdSet(mt) = IdSet(ms) \cup {m.id}
      /\ m.id \notin IdSet(ms) /\ \A id \in IdSet(ms) : UpTo(mt, id) = UpTo(ms, id)
  BY <1>4, <1>a, AppendIs
<1>6. IdSet(ms) \in SUBSET Nat BY <1>4, IdsAre
<1>7. PrefixKept(ms, mt) BY <1>2, <1>5, <1>6 DEF PrefixKept
<1>8. \A i \in 1..Len(mt) : mt[i].id < convNext'
  <2>1. \A k \in IdSet(mt) : k < convNext'
    <3>1. \A k \in IdSet(ms) : k < m.id BY <1>4, IdsAre
    <3> QED BY <1>2, <1>3, <1>5, <1>6, <3>1
  <2>2. \A i \in 1..Len(mt) : mt[i].id \in IdSet(mt) BY <1>5, IdsAre
  <2> QED BY <2>1, <2>2
<1>9. SummarySound(c)'
  <2> SUFFICES ASSUME convSums[c] # <<>>
               PROVE  /\ latest_summary(c).covered \in IdSet(mt)
                      /\ Covers(mt, latest_summary(c).digest, latest_summary(c).covered)
                      /\ latest_summary(c).sources = IdsOf(UpTo(mt, latest_summary(c).covered))
    <3>1. convMsgs'[c] = mt BY <1>3 DEF ConvInv, ConvTypeOK
    <3>2. latest_summary(c)' = latest_summary(c) BY DEF latest_summary
    <3> QED BY <3>1, <3>2 DEF SummarySound, Covers
  <2> DEFINE id == latest_summary(c).covered
  <2>1. /\ id \in IdSet(ms) /\ Covers(ms, latest_summary(c).digest, id)
        /\ latest_summary(c).sources = IdsOf(UpTo(ms, id))
    BY <1>a DEF ConvInv, SummarySound
  <2>2. id \in Nat /\ id < convNext
    <3>1. \A k \in IdSet(ms) : k < m.id BY <1>4, IdsAre
    <3> QED BY <1>2, <1>6, <2>1, <3>1
  <2>3. {k \in IdSet(mt) : k <= id} = {k \in IdSet(ms) : k <= id}
    BY <1>5, <1>7, <2>1, <2>2 DEF PrefixKept
  <2> QED BY <1>5, <2>1, <2>3 DEF Covers
<1>10. convLive \in [Convs -> BOOLEAN]
       /\ convSums \in [Convs -> Summaries]
  BY DEF ConvInv, ConvTypeOK
<1>11. convNext' \in Nat /\ convNext <= convNext' BY <1>2, <1>3
<1>12. /\ convLive' \in [Convs -> BOOLEAN] /\ convLive'[c]
       /\ \A d \in Convs \ {c} : convLive'[d] = convLive[d] /\ convSums'[d] = convSums[d]
       /\ convSums' \in [Convs -> Summaries]
  BY <1>10
<1>13. convMsgs' = [convMsgs EXCEPT ![c] = mt] BY <1>3
<1>14. PrefixKept(convMsgs[c], mt) BY <1>7, <1>a
<1> HIDE DEF JobsSettle, SummarySound
<1>15. JobsSettle /\ ConvInv /\ c \in Convs /\ mt \in Seq(Msg) BY <1>5
<1>16. convLive'[c] \/ (mt = <<>> /\ convSums'[c] = <<>>) BY <1>12, Zenon
<1>17. \A d \in Convs \ {c} : convLive'[d] = convLive[d] BY <1>12
<1>18. \A d \in Convs \ {c} : convSums'[d] = convSums[d] BY <1>12
<1>19. Rising(mt) BY <1>5
<1> QED BY <1>8, <1>9, <1>11, <1>12, <1>13, <1>14, <1>15, <1>16, <1>17, <1>18, <1>19, OneConversation, ZenonT(30)

\* The other steps that change the messages of one conversation.
LEMMA EditKeeps ==
  ASSUME ConvInv, EditMessage
  PROVE  ConvInv'
<1>0. /\ convLive \in [Convs -> BOOLEAN] /\ convMsgs \in [Convs -> Seq(Msg)]
      /\ convSums \in [Convs -> Summaries] /\ convNext \in Nat
      /\ convJobs \in [CvJobs -> {Free} \cup CommandRow]
  BY DEF ConvInv, ConvTypeOK
<1>a. PICK c \in Convs : \E i \in 1..Len(convMsgs[c]) :
        /\ convMsgs' = [convMsgs EXCEPT ![c] =
              Append(SubSeq(@, 1, i - 1), [convMsgs[c][i] EXCEPT !.edits = @ + 1])]
        /\ convSums' = [convSums EXCEPT ![c] = <<>>]
  BY DEF EditMessage
<1>1. PICK i \in 1..Len(convMsgs[c]) :
        /\ convMsgs' = [convMsgs EXCEPT ![c] =
              Append(SubSeq(@, 1, i - 1), [convMsgs[c][i] EXCEPT !.edits = @ + 1])]
        /\ convSums' = [convSums EXCEPT ![c] = <<>>]
  BY <1>a
<1>2. UNCHANGED <<convLive, convNext, convJobs>> BY DEF EditMessage
<1>3. PICK ms \in Seq(Msg) : ms = convMsgs[c] BY <1>0
<1>4. Rising(ms) /\ \A k \in 1..Len(ms) : ms[k].id < convNext
  BY <1>3 DEF ConvInv, MessagesInv
<1>5. ms[i] \in Msg /\ ms[i].id \in Nat /\ i \in Nat /\ i \in 1..Len(ms) /\ Len(ms) \in Nat
  BY <1>1, <1>3, MessageAt
<1>6. PICK m \in Msg : m = [ms[i] EXCEPT !.edits = @ + 1] /\ m.id = ms[i].id
  <2>1. [ms[i] EXCEPT !.edits = @ + 1] \in Msg /\ [ms[i] EXCEPT !.edits = @ + 1].id = ms[i].id
    <3>1. PICK old \in Msg : old = ms[i] BY <1>5
    <3>2. old.edits + 1 \in Nat BY DEF Msg
    <3>3. [old EXCEPT !.edits = old.edits + 1] \in Msg /\ [old EXCEPT !.edits = old.edits + 1].id = old.id
      BY <3>2 DEF Msg
    <3> QED BY <3>1, <3>3
  <2> QED BY <2>1
<1>7. PICK mt : mt = Append(SubSeq(ms, 1, i - 1), m) OBVIOUS
<1>8. /\ mt \in Seq(Msg) /\ Len(mt) = i /\ mt[i] = m /\ \A k \in 1..(i - 1) : mt[k] = ms[k]
  <2>1. SubSeq(ms, 1, i - 1) \in Seq(Msg) /\ Len(SubSeq(ms, 1, i - 1)) = i - 1
        /\ \A k \in 1..(i - 1) : SubSeq(ms, 1, i - 1)[k] = ms[k]
    BY <1>5
  <2> QED BY <1>5, <1>7, <2>1
<1>9. \A k \in 1..i : mt[k].id = ms[k].id
  <2>1. \A k \in 1..i : k = i \/ k \in 1..(i - 1) BY <1>5
  <2> QED BY <1>6, <1>8, <2>1
<1>10. Rising(mt) BY <1>4, <1>5, <1>8, <1>9 DEF Rising
<1>11. IdSet(mt) = {k \in IdSet(ms) : k <= ms[i].id}
  <2>1. ms[i].id \in IdSet(ms) BY <1>5, IdsAre
  <2>2. Position(ms, ms[i].id) = i BY <1>4, <1>5, PositionIs
  <2>3. PICK up \in Seq(Msg) : up = UpTo(ms, ms[i].id) BY <1>4, <2>1, UpToIs
  <2>4. /\ IdSet(up) = {k \in IdSet(ms) : k <= ms[i].id}
        /\ Len(up) = i /\ \A k \in 1..i : up[k] = ms[k]
    <3>1. /\ IdSet(UpTo(ms, ms[i].id)) = {k \in IdSet(ms) : k <= ms[i].id}
          /\ Len(UpTo(ms, ms[i].id)) = i /\ \A k \in 1..i : UpTo(ms, ms[i].id)[k] = ms[k]
      BY <1>4, <2>1, <2>2, UpToIs
    <3> QED BY <2>3, <3>1
  <2>5. IdSet(up) = {up[k].id : k \in 1..i} /\ IdSet(mt) = {mt[k].id : k \in 1..i}
    BY <1>8, <2>4, IdsAre
  <2> QED BY <1>9, <2>4, <2>5
<1>12. PrefixKept(convMsgs[c], mt) BY <1>3, <1>5, <1>8, <1>11, CutIsPrefix
<1>13. convMsgs' = [convMsgs EXCEPT ![c] = mt] BY <1>1, <1>3, <1>6, <1>7
<1>14. \A k \in 1..Len(mt) : mt[k].id < convNext' BY <1>2, <1>4, <1>5, <1>8, <1>9
<1>15. convSums' \in [Convs -> Summaries] /\ convSums'[c] = <<>>
       /\ \A d \in Convs \ {c} : convSums'[d] = convSums[d]
  BY <1>0, <1>1 DEF Summaries
<1>16. SummarySound(c)' BY <1>15, NoSummary
<1>17. JobsSettle BY <1>0, <1>2 DEF JobsSettle
<1>18. convLive[c] = TRUE
  <2>1. ms # <<>> BY <1>5
  <2> QED BY <1>0, <1>3, <2>1 DEF ConvInv, MessagesInv
<1>19. /\ convLive' \in [Convs -> BOOLEAN] /\ convNext' \in Nat /\ convNext <= convNext'
       /\ \A d \in Convs \ {c} : convLive'[d] = convLive[d]
  BY <1>0, <1>2
<1>20. convLive'[c] \/ (mt = <<>> /\ convSums'[c] = <<>>) BY <1>2, <1>18, Zenon
<1>21. mt \in Seq(Msg) BY <1>8
<1> QED
  BY <1>10, <1>12, <1>13, <1>14, <1>15, <1>16, <1>17, <1>19, <1>20, <1>21, OneConversation, ZenonT(30)

LEMMA TruncateKeeps ==
  ASSUME ConvInv, Truncate
  PROVE  ConvInv'
<1>0. /\ convLive \in [Convs -> BOOLEAN] /\ convMsgs \in [Convs -> Seq(Msg)]
      /\ convSums \in [Convs -> Summaries] /\ convNext \in Nat
      /\ convJobs \in [CvJobs -> {Free} \cup CommandRow]
  BY DEF ConvInv, ConvTypeOK
<1>a. PICK c \in Convs : \E id \in IdSet(convMsgs[c]) : truncate_after_message(c, id)
  BY DEF Truncate
<1>1. PICK id \in IdSet(convMsgs[c]) :
        /\ convMsgs' = [convMsgs EXCEPT ![c] = UpTo(@, id)]
        /\ convSums' = [convSums EXCEPT ![c] = <<>>]
  BY <1>a DEF truncate_after_message
<1>2. UNCHANGED <<convLive, convNext, convJobs>> BY DEF Truncate
<1>3. PICK ms \in Seq(Msg) : ms = convMsgs[c] BY <1>0
<1>4. Rising(ms) /\ (\A k \in 1..Len(ms) : ms[k].id < convNext) /\ id \in IdSet(ms)
  BY <1>1, <1>3 DEF ConvInv, MessagesInv
<1>5. PICK mt \in Seq(Msg) : mt = UpTo(ms, id) BY <1>4, UpToIs
<1>6. /\ Rising(mt) /\ IdSet(mt) = {k \in IdSet(ms) : k <= id}
      /\ Len(mt) = Position(ms, id) /\ Position(ms, id) \in 1..Len(ms)
      /\ \A k \in 1..Position(ms, id) : mt[k] = ms[k]
  BY <1>4, <1>5, UpToIs
<1>7. id \in Nat BY <1>4, IdsAre
<1>12. PrefixKept(convMsgs[c], mt) BY <1>3, <1>6, <1>7, CutIsPrefix
<1>13. convMsgs' = [convMsgs EXCEPT ![c] = mt] BY <1>1, <1>3, <1>5
<1>14. \A k \in 1..Len(mt) : mt[k].id < convNext'
  <2>1. \A k \in 1..Len(mt) : k \in 1..Len(ms) BY <1>6
  <2> QED BY <1>2, <1>4, <1>6, <2>1
<1>15. convSums' \in [Convs -> Summaries] /\ convSums'[c] = <<>>
       /\ \A d \in Convs \ {c} : convSums'[d] = convSums[d]
  BY <1>0, <1>1 DEF Summaries
<1>16. SummarySound(c)' BY <1>15, NoSummary
<1>17. JobsSettle BY <1>0, <1>2 DEF JobsSettle
<1>18. convLive[c] = TRUE
  <2>1. ms # <<>> BY <1>6
  <2> QED BY <1>0, <1>3, <2>1 DEF ConvInv, MessagesInv
<1>19. /\ convLive' \in [Convs -> BOOLEAN] /\ convNext' \in Nat /\ convNext <= convNext'
       /\ \A d \in Convs \ {c} : convLive'[d] = convLive[d]
  BY <1>0, <1>2
<1>20. convLive'[c] \/ (mt = <<>> /\ convSums'[c] = <<>>) BY <1>2, <1>18, Zenon
<1> QED
  BY <1>6, <1>12, <1>13, <1>14, <1>15, <1>16, <1>17, <1>19, <1>20, OneConversation, ZenonT(30)

LEMMA DeleteKeeps ==
  ASSUME ConvInv, DeleteConversation
  PROVE  ConvInv'
<1>0. /\ convLive \in [Convs -> BOOLEAN] /\ convMsgs \in [Convs -> Seq(Msg)]
      /\ convSums \in [Convs -> Summaries] /\ convNext \in Nat
      /\ convJobs \in [CvJobs -> {Free} \cup CommandRow]
  BY DEF ConvInv, ConvTypeOK
<1>1. PICK c \in Convs :
        /\ convLive' = [convLive EXCEPT ![c] = FALSE]
        /\ convMsgs' = [convMsgs EXCEPT ![c] = <<>>]
        /\ convSums' = [convSums EXCEPT ![c] = <<>>]
  BY DEF DeleteConversation
<1>2. UNCHANGED <<convNext, convJobs>> BY DEF DeleteConversation
<1>3. PICK mt \in Seq(Msg) : mt = <<>>
  <2>1. <<>> \in Seq(Msg) OBVIOUS
  <2> QED BY <2>1
<1>4. Rising(mt) /\ IdSet(mt) = {} /\ \A k \in 1..Len(mt) : mt[k].id < convNext'
  <2>1. 1..Len(mt) = {} BY <1>3
  <2> QED BY <2>1, IdsAre DEF Rising
<1>5. PrefixKept(convMsgs[c], mt) BY <1>4 DEF PrefixKept
<1>6. convMsgs' = [convMsgs EXCEPT ![c] = mt] BY <1>1, <1>3
<1>7. convSums' \in [Convs -> Summaries] /\ convSums'[c] = <<>>
       /\ \A d \in Convs \ {c} : convSums'[d] = convSums[d]
  BY <1>0, <1>1 DEF Summaries
<1>8. SummarySound(c)' BY <1>7, NoSummary
<1>9. JobsSettle BY <1>0, <1>2 DEF JobsSettle
<1>10. /\ convLive' \in [Convs -> BOOLEAN] /\ convNext' \in Nat /\ convNext <= convNext'
       /\ \A d \in Convs \ {c} : convLive'[d] = convLive[d]
  BY <1>0, <1>1, <1>2
<1>11. convLive'[c] \/ (mt = <<>> /\ convSums'[c] = <<>>) BY <1>3, <1>7, Zenon
<1> QED
  BY <1>4, <1>5, <1>6, <1>7, <1>8, <1>9, <1>10, <1>11, OneConversation, ZenonT(30)

LEMMA ForkKeeps ==
  ASSUME ConvInv, Fork
  PROVE  ConvInv'
<1>0. /\ convLive \in [Convs -> BOOLEAN] /\ convMsgs \in [Convs -> Seq(Msg)]
      /\ convSums \in [Convs -> Summaries] /\ convNext \in Nat
      /\ convJobs \in [CvJobs -> {Free} \cup CommandRow]
  BY DEF ConvInv, ConvTypeOK
<1>a. PICK b \in Convs, c \in Convs : \E id \in IdSet(convMsgs[b]) :
        /\ ~convLive[c] /\ convLive' = [convLive EXCEPT ![c] = TRUE]
        /\ convMsgs' = [convMsgs EXCEPT ![c] =
              [i \in 1..Len(UpTo(convMsgs[b], id)) |->
                 [id |-> convNext + i - 1, role |-> UpTo(convMsgs[b], id)[i].role, edits |-> 0]]]
        /\ convNext' = convNext + Len(UpTo(convMsgs[b], id))
  BY DEF Fork, create_conversation
<1>1. PICK id \in IdSet(convMsgs[b]) :
        /\ ~convLive[c] /\ convLive' = [convLive EXCEPT ![c] = TRUE]
        /\ convMsgs' = [convMsgs EXCEPT ![c] =
              [i \in 1..Len(UpTo(convMsgs[b], id)) |->
                 [id |-> convNext + i - 1, role |-> UpTo(convMsgs[b], id)[i].role, edits |-> 0]]]
        /\ convNext' = convNext + Len(UpTo(convMsgs[b], id))
  BY <1>a
<1>2. UNCHANGED <<convSums, convJobs>> BY DEF Fork
<1>3. PICK up \in Seq(Msg) : up = UpTo(convMsgs[b], id)
  BY <1>0, <1>1, UpToIs DEF ConvInv, MessagesInv
<1>4. PICK n \in Nat : n = Len(up) BY <1>3
<1>5. PICK mt : mt = [i \in 1..n |-> [id |-> convNext + i - 1, role |-> up[i].role, edits |-> 0]]
  OBVIOUS
<1>6. convMsgs' = [convMsgs EXCEPT ![c] = mt] /\ convNext' = convNext + n
  BY <1>1, <1>3, <1>4, <1>5
<1>7. ASSUME NEW i \in 1..n PROVE mt[i] \in Msg /\ mt[i].id = convNext + i - 1
  <2>1. up[i] \in Msg BY <1>4
  <2>2. up[i].role \in {"user", "agent"} BY <2>1 DEF Msg
  <2>3. convNext + i - 1 \in Nat BY <1>0
  <2> QED BY <1>5, <2>2, <2>3 DEF Msg
<1>8. mt \in Seq(Msg) /\ Len(mt) = n
  BY <1>5, <1>7
<1>9. Rising(mt) /\ \A k \in 1..Len(mt) : mt[k].id < convNext' /\ convNext <= mt[k].id
  <2>1. \A k \in 1..Len(mt) : mt[k].id = convNext + k - 1 /\ k \in Nat /\ 1 <= k /\ k <= n
    BY <1>4, <1>7, <1>8
  <2>2. Rising(mt) BY <1>0, <2>1 DEF Rising
  <2>3. ASSUME NEW k \in 1..Len(mt) PROVE mt[k].id < convNext' /\ convNext <= mt[k].id
    <3>1. mt[k].id = convNext + k - 1 /\ k \in Nat /\ 1 <= k /\ k <= n BY <2>1
    <3> QED BY <1>0, <1>6, <3>1
  <2> QED BY <2>2, <2>3
<1>10. PrefixKept(convMsgs[c], mt)
  <2>1. \A k \in IdSet(mt) : convNext <= k BY <1>8, <1>9, IdsAre
  <2> QED BY <1>0, <2>1 DEF PrefixKept
<1>11. convSums' \in [Convs -> Summaries] /\ convSums'[c] = <<>>
       /\ \A d \in Convs \ {c} : convSums'[d] = convSums[d]
  BY <1>0, <1>1, <1>2 DEF ConvInv, MessagesInv
<1>12. SummarySound(c)' BY <1>11, NoSummary
<1>13. JobsSettle BY <1>0, <1>2 DEF JobsSettle
<1>14. /\ convLive' \in [Convs -> BOOLEAN] /\ convNext' \in Nat /\ convNext <= convNext'
       /\ \A d \in Convs \ {c} : convLive'[d] = convLive[d]
  BY <1>0, <1>1, <1>4, <1>6
<1>15. convLive'[c] = TRUE BY <1>0, <1>1
<1>16. convLive'[c] \/ (mt = <<>> /\ convSums'[c] = <<>>) BY <1>15, Zenon
<1>17. \A k \in 1..Len(mt) : mt[k].id < convNext' BY <1>9
<1>18. Rising(mt) /\ mt \in Seq(Msg) BY <1>8, <1>9
<1> QED
  BY <1>6, <1>10, <1>11, <1>12, <1>13, <1>14, <1>16, <1>17, <1>18, OneConversation, ZenonT(30)

\* The ids of a digest that goes on with the texts of some messages.
LEMMA DigestIs ==
  ASSUME NEW old \in Digests, NEW ms \in Seq(Msg)
  PROVE  /\ old \o Texts(ms) \in Digests
         /\ DigestIds(old \o Texts(ms)) = DigestIds(old) \cup IdSet(ms)
<1>1. PICK n \in Nat, m \in Nat : n = Len(old) /\ m = Len(ms) BY DEF Digests
<1>2. \A i \in 1..m : ms[i] \in Msg /\ ms[i].id \in Nat /\ ms[i].edits \in Nat
  <2>1. \A i \in 1..m : ms[i] \in Msg BY <1>1
  <2> QED BY <2>1 DEF Msg
<1>3. PICK tx : tx = Texts(ms) OBVIOUS
<1>4. tx = [i \in 1..m |-> <<ms[i].id, ms[i].edits>>] BY <1>1, <1>3 DEF Texts, Text
<1>5. tx \in Seq(Nat \X Nat) /\ Len(tx) = m BY <1>2, <1>4
<1>6. PICK dg : dg = old \o tx OBVIOUS
<1>7. /\ dg \in Seq(Nat \X Nat) /\ Len(dg) = n + m
      /\ \A i \in 1..(n + m) : dg[i] = IF i <= n THEN old[i] ELSE tx[i - n]
  <2>1. PICK S : S = Nat \X Nat OBVIOUS
  <2>2. old \in Seq(S) /\ tx \in Seq(S) BY <1>5, <2>1 DEF Digests
  <2>a. old \o tx \in Seq(S) BY <2>2
  <2>b. Len(old \o tx) = Len(old) + Len(tx) BY <2>2
  <2>3. dg \in Seq(S) /\ Len(dg) = n + m BY <1>1, <1>5, <1>6, <2>a, <2>b
  <2>4. \A i \in 1..(n + m) : dg[i] = IF i <= n THEN old[i] ELSE tx[i - n]
    BY <1>1, <1>5, <1>6, <2>2
  <2> QED BY <2>1, <2>3, <2>4
<1>8. DigestIds(dg) = {dg[i][1] : i \in 1..(n + m)} /\ DigestIds(old) = {old[i][1] : i \in 1..n}
  <2>1. DOMAIN dg = 1..(n + m) /\ DOMAIN old = 1..n BY <1>1, <1>7 DEF Digests
  <2> QED BY <2>1 DEF DigestIds, Range
<1>9. IdSet(ms) = {ms[i].id : i \in 1..m} BY <1>1, IdsAre
<1>10. \A k \in 1..m : dg[n + k][1] = ms[k].id
  <2>1. ASSUME NEW k \in 1..m PROVE dg[n + k] = tx[k]
    <3>1. n + k \in 1..(n + m) /\ ~(n + k <= n) /\ (n + k) - n = k BY <1>1
    <3> QED BY <1>7, <3>1
  <2>2. \A k \in 1..m : tx[k][1] = ms[k].id BY <1>4
  <2> QED BY <2>1, <2>2
<1>11. \A i \in 1..(n + m) : i \in 1..n \/ (i - n \in 1..m /\ i = n + (i - n)) OBVIOUS
<1>12. \A k \in 1..m : n + k \in 1..(n + m) OBVIOUS
<1>13. \A i \in 1..n : i \in 1..(n + m) /\ dg[i] = old[i]
  BY <1>1, <1>5, <1>6 DEF Digests
<1>14. DigestIds(dg) \subseteq DigestIds(old) \cup IdSet(ms)
  <2> SUFFICES ASSUME NEW i \in 1..(n + m) PROVE dg[i][1] \in DigestIds(old) \cup IdSet(ms) BY <1>8
  <2>1. CASE i \in 1..n BY <1>8, <1>13, <2>1
  <2>2. CASE i - n \in 1..m /\ i = n + (i - n)
    <3>1. dg[i][1] = ms[i - n].id BY <1>10, <2>2
    <3> QED BY <1>9, <2>2, <3>1
  <2> QED BY <1>11, <2>1, <2>2
<1>15. DigestIds(old) \subseteq DigestIds(dg) BY <1>8, <1>13
<1>16. IdSet(ms) \subseteq DigestIds(dg) BY <1>8, <1>9, <1>10, <1>12
<1> QED BY <1>3, <1>6, <1>7, <1>14, <1>15, <1>16 DEF Digests

LEMMA EmptyDigest ==
  /\ <<>> \in Digests /\ DigestIds(<<>>) = {}
  /\ \A ms \in Seq(Msg) : <<>> \o Texts(ms) = Texts(ms)
<1>1. <<>> \in Digests BY DEF Digests
<1>2. DigestIds(<<>>) = {} BY DEF DigestIds, Range
<1>3. ASSUME NEW ms \in Seq(Msg) PROVE <<>> \o Texts(ms) = Texts(ms)
  <2>1. PICK m \in Nat : m = Len(ms) OBVIOUS
  <2>2. Texts(ms) \in Seq({Text(ms[i]) : i \in 1..m}) BY <2>1 DEF Texts
  <2> QED BY <2>2
<1> QED BY <1>1, <1>2, <1>3

\* The summary of a conversation that has one.
LEMMA SummaryIs ==
  ASSUME ConvInv, NEW c \in Convs, convSums[c] # <<>>
  PROVE  latest_summary(c) \in SummaryRow
<1>1. convSums[c] \in Summaries BY DEF ConvInv, ConvTypeOK
<1>2. PICK s \in SummaryRow : convSums[c] = <<s>> BY <1>1 DEF Summaries
<1> QED BY <1>2 DEF latest_summary

\* The messages between two of them, the later one included.
LEMMA BetweenIs ==
  ASSUME NEW ms \in Seq(Msg), Rising(ms), NEW p \in 1..Len(ms), NEW n \in Nat,
         1 <= n, n <= Len(ms) - p,
         NEW tail, tail = SubSeq(ms, p + 1, Len(ms))
  PROVE  /\ tail \in Seq(Msg) /\ Len(tail) = Len(ms) - p /\ tail[n] = ms[p + n]
         /\ SubSeq(tail, 1, n) \in Seq(Msg)
         /\ IdSet(SubSeq(tail, 1, n)) = {k \in IdSet(ms) : ms[p].id < k /\ k <= ms[p + n].id}
<1>0. PICK len \in Nat : len = Len(ms) OBVIOUS
<1>a. p \in Nat /\ 1 <= p /\ p <= len BY <1>0
<1>1. /\ tail \in Seq(Msg) /\ Len(tail) = len - p
      /\ \A i \in 1..(len - p) : tail[i] = ms[p + i]
  <2>1. tail \in Seq(Msg) BY <1>0, <1>a
  <2>2. Len(tail) = len - p BY <1>0, <1>a
  <2>3. \A i \in 1..(len - p) : tail[i] = ms[p + i] BY <1>0, <1>a
  <2> QED BY <2>1, <2>2, <2>3
<1>b. n \in 1..(len - p) BY <1>0, <1>a
<1>2. PICK cut : cut = SubSeq(tail, 1, n) OBVIOUS
<1>3. cut \in Seq(Msg) /\ Len(cut) = n /\ \A i \in 1..n : cut[i] = tail[i]
  BY <1>0, <1>1, <1>2, <1>a, <1>b
<1>4. \A i \in 1..n : cut[i] = ms[p + i] BY <1>0, <1>1, <1>3, <1>a, <1>b
<1>5. IdSet(cut) = {ms[p + i].id : i \in 1..n}
  <2>1. IdSet(cut) = {cut[i].id : i \in 1..n} BY <1>3, IdsAre
  <2> QED BY <1>4, <2>1
<1>6. IdSet(ms) = {ms[i].id : i \in 1..len} BY <1>0, IdsAre
<1>7. ASSUME NEW i \in 1..len
      PROVE  (ms[p].id < ms[i].id /\ ms[i].id <= ms[p + n].id) <=> (p < i /\ i <= p + n)
  <2>1. i \in 1..Len(ms) /\ p \in 1..Len(ms) /\ p + n \in 1..Len(ms) BY <1>0, <1>a, <1>b
  <2>2. ms[i].id \in Nat /\ ms[p].id \in Nat /\ ms[p + n].id \in Nat BY <2>1, MessageAt
  <2>3. /\ i < p => ms[i].id < ms[p].id
        /\ p < i => ms[p].id < ms[i].id
        /\ i < p + n => ms[i].id < ms[p + n].id
        /\ p + n < i => ms[p + n].id < ms[i].id
    BY <2>1 DEF Rising
  <2>4. i = p \/ i < p \/ p < i BY <1>a
  <2>5. i = p + n \/ i < p + n \/ p + n < i BY <1>a
  <2>6. ms[p].id < ms[i].id <=> p < i BY <1>a, <2>2, <2>3, <2>4
  <2>7. ms[i].id <= ms[p + n].id <=> i <= p + n
    <3>1. PICK q \in Nat : q = p + n BY <1>a
    <3>2. ms[q].id \in Nat /\ (i < q => ms[i].id < ms[q].id) /\ (q < i => ms[q].id < ms[i].id)
      BY <2>2, <2>3, <3>1
    <3>3. i = q \/ i < q \/ q < i BY <2>5, <3>1
    <3>4. ms[i].id <= ms[q].id <=> i <= q
      <4>1. CASE i = q BY <2>2, <3>1, <3>2, <4>1
      <4>2. CASE i < q BY <2>2, <3>1, <3>2, <4>2
      <4>3. CASE q < i BY <2>2, <3>1, <3>2, <4>3
      <4> QED BY <3>3, <4>1, <4>2, <4>3
    <3> QED BY <3>1, <3>4
  <2> QED BY <2>6, <2>7
<1>8. IdSet(cut) \subseteq {k \in IdSet(ms) : ms[p].id < k /\ k <= ms[p + n].id}
  <2> SUFFICES ASSUME NEW i \in 1..n
               PROVE  ms[p + i].id \in IdSet(ms) /\ ms[p].id < ms[p + i].id /\ ms[p + i].id <= ms[p + n].id
    BY <1>5
  <2>1. p + i \in 1..len /\ p < p + i /\ p + i <= p + n BY <1>a, <1>b
  <2> QED BY <1>6, <1>7, <2>1
<1>9. {k \in IdSet(ms) : ms[p].id < k /\ k <= ms[p + n].id} \subseteq IdSet(cut)
  <2> SUFFICES ASSUME NEW i \in 1..len, ms[p].id < ms[i].id, ms[i].id <= ms[p + n].id
               PROVE  ms[i].id \in IdSet(cut)
    BY <1>6
  <2>1. i - p \in 1..n /\ p + (i - p) = i BY <1>7, <1>a, <1>b
  <2> QED BY <1>5, <2>1
<1> QED BY <1>0, <1>1, <1>2, <1>3, <1>8, <1>9, <1>b

\* plan_summary_at: a digest of everything up to its anchor.
LEMMA PlanAt ==
  ASSUME ConvInv, NEW c \in Convs, NEW id \in IdSet(convMsgs[c])
  PROVE  /\ plan_summary_at(c, id) \in PlanRow /\ plan_summary_at(c, id).covered < convNext
         /\ Covers(convMsgs[c], plan_summary_at(c, id).digest, plan_summary_at(c, id).covered)
<1>1. PICK ms \in Seq(Msg) : ms = convMsgs[c] BY DEF ConvInv, ConvTypeOK
<1>2. Rising(ms) /\ \A i \in 1..Len(ms) : ms[i].id < convNext BY <1>1 DEF ConvInv, MessagesInv
<1>3. /\ UpTo(ms, id) \in Seq(Msg) /\ IdSet(UpTo(ms, id)) = {k \in IdSet(ms) : k <= id}
  BY <1>1, <1>2, UpToIs
<1>4. id \in Nat /\ id < convNext BY <1>1, <1>2, IdsAre
<1>5. PICK dg : dg = Texts(UpTo(ms, id)) OBVIOUS
<1>6. dg \in Digests /\ DigestIds(dg) = {k \in IdSet(ms) : k <= id}
  <2>1. <<>> \o Texts(UpTo(ms, id)) = dg BY <1>3, <1>5, EmptyDigest
  <2>2. /\ <<>> \o Texts(UpTo(ms, id)) \in Digests
        /\ DigestIds(<<>> \o Texts(UpTo(ms, id))) = DigestIds(<<>>) \cup IdSet(UpTo(ms, id))
    BY <1>3, EmptyDigest, DigestIs
  <2> QED BY <1>3, <2>1, <2>2, EmptyDigest
<1>7. plan_summary_at(c, id) = [covered |-> id, digest |-> dg] BY <1>1, <1>5 DEF plan_summary_at
<1> QED BY <1>1, <1>4, <1>6, <1>7 DEF PlanRow, Covers

\* plan_summary: the digest there is and what follows it, up to the last
\* message that is folded.
LEMMA PlanIs ==
  ASSUME ConvInv, NEW c \in Convs, plan_summary(c) # NoPlan
  PROVE  /\ plan_summary(c) \in PlanRow /\ plan_summary(c).covered < convNext
         /\ Covers(convMsgs[c], plan_summary(c).digest, plan_summary(c).covered)
<1>1. PICK all \in Seq(Msg) : all = convMsgs[c] BY DEF ConvInv, ConvTypeOK
<1>2. Rising(all) /\ \A i \in 1..Len(all) : all[i].id < convNext BY <1>1 DEF ConvInv, MessagesInv
<1>0. PICK len \in Nat : len = Len(all) OBVIOUS
<1>3. CASE convSums[c] = <<>>
  <2>1. PICK kept : kept = len - SummaryKeepTail OBVIOUS
  <2>2. /\ ~(kept <= 0)
        /\ plan_summary(c) = [covered |-> all[kept].id, digest |-> <<>> \o Texts(SubSeq(all, 1, kept))]
    BY <1>0, <1>1, <1>3, <2>1 DEF plan_summary
  <2>3. kept \in 1..Len(all) BY <1>0, <2>1, <2>2, SummaryAssumption
  <2>4. all[kept].id \in IdSet(all) BY <2>3, IdsAre
  <2>5. UpTo(all, all[kept].id) = SubSeq(all, 1, kept) BY <1>2, <2>3, PositionIs DEF UpTo
  <2>6. SubSeq(all, 1, kept) \in Seq(Msg) BY <1>2, <2>4, <2>5, UpToIs
  <2>7. plan_summary(c) = plan_summary_at(c, all[kept].id)
    BY <1>1, <2>2, <2>5, <2>6, EmptyDigest DEF plan_summary_at
  <2> QED BY <1>1, <2>4, <2>7, PlanAt
<1>4. CASE convSums[c] # <<>>
  <2>1. PICK s \in SummaryRow : s = latest_summary(c) BY <1>4, SummaryIs
  <2>2. s.covered \in IdSet(all) /\ Covers(all, s.digest, s.covered)
    BY <1>1, <1>4, <2>1 DEF ConvInv, SummarySound
  <2>3. s.digest \in Digests /\ DigestIds(s.digest) = {k \in IdSet(all) : k <= s.covered}
    BY <2>2 DEF SummaryRow, Covers
  <2>4. PICK p \in 1..Len(all) : p = Position(all, s.covered) /\ all[p].id = s.covered
    BY <1>2, <2>2, UpToIs
  <2>5. PICK tail : tail = SubSeq(all, p + 1, Len(all)) OBVIOUS
  <2>6. messages_after_covered_id(all, s.covered) = tail
    BY <2>2, <2>4, <2>5 DEF messages_after_covered_id
  <2>7. PICK kept : kept = Len(tail) - SummaryKeepTail OBVIOUS
  <2>8. /\ ~(kept <= 0)
        /\ plan_summary(c) = [covered |-> tail[kept].id, digest |-> s.digest \o Texts(SubSeq(tail, 1, kept))]
    BY <1>1, <1>4, <2>1, <2>6, <2>7 DEF plan_summary
  <2>9. Len(tail) = Len(all) - p
    <3>1. p \in Nat /\ 1 <= p /\ p <= len /\ len \in Nat BY <1>0
    <3> QED BY <1>0, <2>5, <3>1
  <2>10. kept \in Nat /\ 1 <= kept /\ kept <= Len(all) - p
    <3>1. p \in Nat /\ len \in Nat BY <1>0
    <3> QED BY <1>0, <2>7, <2>8, <2>9, <3>1, SummaryAssumption
  <2>11. /\ tail[kept] = all[p + kept] /\ SubSeq(tail, 1, kept) \in Seq(Msg)
         /\ IdSet(SubSeq(tail, 1, kept)) = {k \in IdSet(all) : all[p].id < k /\ k <= all[p + kept].id}
    BY <1>2, <2>5, <2>10, BetweenIs
  <2>12. PICK dg : dg = s.digest \o Texts(SubSeq(tail, 1, kept)) OBVIOUS
  <2>13. dg \in Digests /\ DigestIds(dg) = DigestIds(s.digest) \cup IdSet(SubSeq(tail, 1, kept))
    BY <2>3, <2>11, <2>12, DigestIs
  <2>14. p + kept \in 1..Len(all) /\ p < p + kept
    <3>1. p \in Nat /\ len \in Nat BY <1>0
    <3> QED BY <1>0, <2>10, <3>1
  <2>15. PICK id : id = all[p + kept].id OBVIOUS
  <2>16. id \in Nat /\ id < convNext /\ s.covered < id /\ s.covered \in Nat
    BY <1>2, <2>4, <2>14, <2>15, MessageAt DEF Rising
  <2>17. IdSet(all) \in SUBSET Nat BY IdsAre
  <2>18. DigestIds(dg) = {k \in IdSet(all) : k <= id}
    BY <2>3, <2>4, <2>11, <2>13, <2>15, <2>16, <2>17
  <2>19. plan_summary(c) = [covered |-> id, digest |-> dg] BY <2>8, <2>11, <2>12, <2>15
  <2> QED BY <1>1, <2>13, <2>16, <2>18, <2>19 DEF PlanRow, Covers
<1> QED BY <1>3, <1>4

-----------------------------------------------------------------------------
\* A step that leaves the messages and the summaries: commands settle, or one
\* of them has just planned.
LEMMA CommandKeeps ==
  ASSUME ConvInv, UNCHANGED <<convMsgs, convSums, convNext>>,
         convLive' \in [Convs -> BOOLEAN],
         \A d \in Convs : convLive[d] => convLive'[d],
         convJobs' \in [CvJobs -> {Free} \cup CommandRow],
         \A j \in CvJobs : \/ convJobs'[j] = convJobs[j]
                           \/ convJobs'[j].stage # "folding"
                           \/ /\ convJobs'[j].plan.covered < convNext
                              /\ Covers(convMsgs[convJobs'[j].conv], convJobs'[j].plan.digest,
                                        convJobs'[j].plan.covered)
  PROVE  ConvInv'
<1>1. ConvTypeOK' BY DEF ConvInv, ConvTypeOK
<1>2. ASSUME NEW d \in Convs
      PROVE  ~convLive'[d] => convMsgs[d] = <<>> /\ convSums[d] = <<>>
  BY DEF ConvInv, MessagesInv
<1>3. MessagesInv' BY <1>2 DEF ConvInv, MessagesInv, Rising
<1>4. \A c \in Convs : SummarySound(c)' BY DEF ConvInv, SummarySound, latest_summary, Covers
<1>5. ASSUME NEW j \in CvJobs PROVE CommandSound(j)'
  <2> SUFFICES ASSUME convJobs'[j].stage = "folding"
               PROVE  /\ convJobs'[j].plan.covered < convNext
                      /\ Covers(convMsgs[convJobs'[j].conv], convJobs'[j].plan.digest,
                                convJobs'[j].plan.covered)
    BY DEF CommandSound, Covers
  <2>1. CASE convJobs'[j] = convJobs[j]
    <3>1. CommandSound(j) BY DEF ConvInv
    <3> QED BY <2>1, <3>1 DEF CommandSound
  <2>2. CASE convJobs'[j] # convJobs[j] BY <2>2
  <2> QED BY <2>1, <2>2
<1> QED BY <1>1, <1>3, <1>4, <1>5 DEF ConvInv

\* A command that moves on without planning.
LEMMA MovesOn ==
  ASSUME ConvInv, NEW j \in CvJobs, NEW job \in {Free} \cup CommandRow, SetJob(j, job),
         job.stage # "folding"
  PROVE  JobsSettle
<1>1. convJobs \in [CvJobs -> {Free} \cup CommandRow] BY DEF ConvInv, ConvTypeOK
<1>2. convJobs' = [convJobs EXCEPT ![j] = job] BY DEF SetJob
<1>3. convJobs' \in [CvJobs -> {Free} \cup CommandRow] /\ convJobs'[j] = job
      /\ \A k \in CvJobs \ {j} : convJobs'[k] = convJobs[k]
  BY <1>1, <1>2
<1> QED BY <1>3 DEF JobsSettle

LEMMA SettledKeeps ==
  ASSUME ConvInv, JobsSettle, UNCHANGED <<convLive, convMsgs, convSums, convNext>>
  PROVE  ConvInv'
<1>1. convLive \in [Convs -> BOOLEAN] BY DEF ConvInv, ConvTypeOK
<1>2. convLive' \in [Convs -> BOOLEAN] /\ \A d \in Convs : convLive[d] => convLive'[d]
  BY <1>1
<1> QED BY <1>2, CommandKeeps DEF JobsSettle

LEMMA CreateKeeps ==
  ASSUME ConvInv, CreateConversation
  PROVE  ConvInv'
<1>1. convLive \in [Convs -> BOOLEAN] /\ convJobs \in [CvJobs -> {Free} \cup CommandRow]
  BY DEF ConvInv, ConvTypeOK
<1>2. PICK c \in Convs : convLive' = [convLive EXCEPT ![c] = TRUE]
  BY DEF CreateConversation, create_conversation
<1>3. UNCHANGED <<convMsgs, convSums, convNext, convJobs>> BY DEF CreateConversation
<1>4. convLive' \in [Convs -> BOOLEAN] /\ \A d \in Convs : convLive'[d] = convLive[d] \/ convLive'[d] = TRUE
  BY <1>1, <1>2
<1>5. \A d \in Convs : convLive[d] => convLive'[d] BY <1>4, Zenon
<1> QED BY <1>1, <1>3, <1>4, <1>5, CommandKeeps

\* The commands' rows.
LEMMA NewCommand ==
  ASSUME NEW c \in Convs, NEW asked \in Nat, NEW plan \in PlanRow,
         NEW stage \in {"answering", "answered", "planning", "folding"}
  PROVE  /\ [stage |-> stage, conv |-> c, asked |-> asked, plan |-> plan] \in CommandRow
  BY DEF CommandRow

LEMMA NoPlanIsPlan == NoPlan \in PlanRow
  BY EmptyDigest DEF NoPlan, PlanRow

LEMMA RowOf ==
  ASSUME ConvInv, NEW j \in CvJobs, convJobs[j].stage # "free"
  PROVE  \E c \in Convs, asked \in Nat, plan \in PlanRow,
            stage \in {"answering", "answered", "planning", "folding"} :
           convJobs[j] = [stage |-> stage, conv |-> c, asked |-> asked, plan |-> plan]
<1>1. convJobs[j] \in CommandRow BY JobType
<1> QED BY <1>1 DEF CommandRow

LEMMA StartChatKeeps ==
  ASSUME ConvInv, NEW j \in CvJobs, StartChat(j)
  PROVE  ConvInv'
<1>1. PICK c \in Convs :
        /\ convLive[c] /\ append_message(c, "user")
        /\ SetJob(j, [stage |-> "answering", conv |-> c, asked |-> convNext, plan |-> NoPlan])
  BY DEF StartChat
<1>2. UNCHANGED <<convLive, convSums>> BY DEF StartChat
<1>3. convNext \in Nat BY DEF ConvInv, ConvTypeOK
<1>4. PICK job \in CommandRow :
        job = [stage |-> "answering", conv |-> c, asked |-> convNext, plan |-> NoPlan]
  BY <1>3, NoPlanIsPlan DEF CommandRow
<1>5. JobsSettle
  <2>1. job.stage # "folding" /\ SetJob(j, job) BY <1>1, <1>4
  <2> QED BY <2>1, MovesOn
<1> QED BY <1>1, <1>2, <1>5, AppendKeeps

LEMMA RunEndsKeeps ==
  ASSUME ConvInv, NEW j \in CvJobs, RunEnds(j)
  PROVE  ConvInv'
<1>1. convJobs[j].stage = "answering" BY DEF RunEnds
<1>2. PICK c \in Convs, asked \in Nat, plan \in PlanRow,
           stage \in {"answering", "answered", "planning", "folding"} :
        convJobs[j] = [stage |-> stage, conv |-> c, asked |-> asked, plan |-> plan]
  BY <1>1, RowOf
<1>3. PICK job \in {Free} \cup CommandRow : SetJob(j, job) /\ job.stage # "folding"
  <2>1. PICK old : old = convJobs[j] OBVIOUS
  <2>2. [old EXCEPT !.stage = "answered"] = [stage |-> "answered", conv |-> c, asked |-> asked, plan |-> plan]
    BY <1>2, <2>1
  <2>3. SetJob(j, Free) \/ SetJob(j, [old EXCEPT !.stage = "answered"]) BY <2>1 DEF RunEnds
  <2>4. Free.stage # "folding" BY DEF Free
  <2> QED BY <2>2, <2>3, <2>4, NewCommand
<1>4. JobsSettle BY <1>3, MovesOn
<1>5. UNCHANGED <<convLive, convMsgs, convSums, convNext>> BY DEF RunEnds
<1> QED BY <1>4, <1>5, SettledKeeps

LEMMA AppendAnswerKeeps ==
  ASSUME ConvInv, NEW j \in CvJobs, AppendAnswer(j)
  PROVE  ConvInv'
<1>1. convJobs[j].stage = "answered" BY DEF AppendAnswer
<1>2. PICK c \in Convs, asked \in Nat, plan \in PlanRow,
           stage \in {"answering", "answered", "planning", "folding"} :
        convJobs[j] = [stage |-> stage, conv |-> c, asked |-> asked, plan |-> plan]
  BY <1>1, RowOf
<1>3. convJobs[j].conv = c BY <1>2
<1>4. UNCHANGED <<convLive, convSums>> BY DEF AppendAnswer
<1>5. CASE convLive[c]
  <2>1. PICK old : old = convJobs[j] OBVIOUS
  <2>2. append_message(c, "agent") /\ SetJob(j, [old EXCEPT !.stage = "planning"])
    BY <1>3, <1>5, <2>1 DEF AppendAnswer
  <2>3. PICK job \in CommandRow :
          job = [stage |-> "planning", conv |-> c, asked |-> asked, plan |-> plan]
    BY NewCommand
  <2>4. [old EXCEPT !.stage = "planning"] = job BY <1>2, <2>1, <2>3
  <2>5. job.stage # "folding" /\ SetJob(j, job) BY <2>2, <2>3, <2>4
  <2>6. JobsSettle BY <2>5, MovesOn
  <2> QED BY <1>4, <1>5, <2>2, <2>6, AppendKeeps
<1>6. CASE ~convLive[c]
  <2>1. SetJob(j, Free) /\ UNCHANGED <<convMsgs, convNext>> BY <1>3, <1>6 DEF AppendAnswer
  <2>2. Free.stage # "folding" BY DEF Free
  <2>3. JobsSettle BY <2>1, <2>2, MovesOn
  <2> QED BY <1>4, <2>1, <2>3, SettledKeeps
<1> QED BY <1>5, <1>6

\* A command that has planned.
LEMMA PlannedKeeps ==
  ASSUME ConvInv, NEW j \in CvJobs, NEW c \in Convs, NEW asked \in Nat, NEW plan \in PlanRow,
         plan.covered < convNext, Covers(convMsgs[c], plan.digest, plan.covered),
         SetJob(j, [stage |-> "folding", conv |-> c, asked |-> asked, plan |-> plan]),
         UNCHANGED <<convLive, convMsgs, convSums, convNext>>
  PROVE  ConvInv'
<1>1. PICK job \in CommandRow :
        job = [stage |-> "folding", conv |-> c, asked |-> asked, plan |-> plan]
  BY NewCommand
<1>2. job.conv = c /\ job.plan = plan BY <1>1
<1>3. convJobs \in [CvJobs -> {Free} \cup CommandRow] /\ convLive \in [Convs -> BOOLEAN]
  BY DEF ConvInv, ConvTypeOK
<1>4. convJobs' = [convJobs EXCEPT ![j] = job] BY <1>1 DEF SetJob
<1>5. convJobs' \in [CvJobs -> {Free} \cup CommandRow] /\ convJobs'[j] = job
      /\ \A k \in CvJobs \ {j} : convJobs'[k] = convJobs[k]
  BY <1>3, <1>4
<1>6. \A k \in CvJobs : \/ convJobs'[k] = convJobs[k]
                        \/ convJobs'[k].stage # "folding"
                        \/ /\ convJobs'[k].plan.covered < convNext
                           /\ Covers(convMsgs[convJobs'[k].conv], convJobs'[k].plan.digest,
                                     convJobs'[k].plan.covered)
  BY <1>2, <1>5
<1>7. convLive' \in [Convs -> BOOLEAN] /\ \A d \in Convs : convLive[d] => convLive'[d] BY <1>3
<1> QED BY <1>5, <1>6, <1>7, CommandKeeps

LEMMA PlanAfterChatKeeps ==
  ASSUME ConvInv, NEW j \in CvJobs, PlanAfterChat(j)
  PROVE  ConvInv'
<1>1. convJobs[j].stage = "planning" BY DEF PlanAfterChat
<1>2. PICK c \in Convs, asked \in Nat, old \in PlanRow,
           stage \in {"answering", "answered", "planning", "folding"} :
        convJobs[j] = [stage |-> stage, conv |-> c, asked |-> asked, plan |-> old]
  BY <1>1, RowOf
<1>3. convJobs[j].conv = c BY <1>2
<1>4. UNCHANGED <<convLive, convMsgs, convSums, convNext>> BY DEF PlanAfterChat
<1>5. CASE convLive[c] /\ plan_summary(c) # NoPlan
  <2>1. PICK job, plan : job = convJobs[j] /\ plan = plan_summary(c) OBVIOUS
  <2>2. SetJob(j, [job EXCEPT !.stage = "folding", !.plan = plan])
    BY <1>3, <1>5, <2>1 DEF PlanAfterChat
  <2>3. [job EXCEPT !.stage = "folding", !.plan = plan]
          = [stage |-> "folding", conv |-> c, asked |-> asked, plan |-> plan]
    <3>1. job = [stage |-> stage, conv |-> c, asked |-> asked, plan |-> old] BY <1>2, <2>1
    <3>2. PICK mid : mid = [job EXCEPT !.stage = "folding"] OBVIOUS
    <3>3. mid = [stage |-> "folding", conv |-> c, asked |-> asked, plan |-> old] BY <3>1, <3>2
    <3>4. [mid EXCEPT !.plan = plan] = [stage |-> "folding", conv |-> c, asked |-> asked, plan |-> plan]
      BY <3>3
    <3>5. [job EXCEPT !.stage = "folding", !.plan = plan] = [mid EXCEPT !.plan = plan] BY <3>2, Zenon
    <3> QED BY <3>4, <3>5
  <2>4. plan \in PlanRow /\ plan.covered < convNext /\ Covers(convMsgs[c], plan.digest, plan.covered)
    BY <1>5, <2>1, PlanIs
  <2>5. SetJob(j, [stage |-> "folding", conv |-> c, asked |-> asked, plan |-> plan]) BY <2>2, <2>3
  <2> QED BY <1>4, <2>4, <2>5, PlannedKeeps
<1>6. CASE ~(convLive[c] /\ plan_summary(c) # NoPlan)
  <2>1. SetJob(j, Free) BY <1>3, <1>6 DEF PlanAfterChat
  <2>2. Free.stage # "folding" BY DEF Free
  <2>3. JobsSettle BY <2>1, <2>2, MovesOn
  <2> QED BY <1>4, <2>3, SettledKeeps
<1> QED BY <1>5, <1>6

LEMMA PlanOnRequestKeeps ==
  ASSUME ConvInv, NEW j \in CvJobs, PlanOnRequest(j)
  PROVE  ConvInv'
<1>1. PICK c \in Convs :
        \E plan \in {plan_summary(c)} \cup {plan_summary_at(c, id) : id \in IdSet(convMsgs[c])} :
           /\ plan # NoPlan
           /\ SetJob(j, [stage |-> "folding", conv |-> c, asked |-> 0, plan |-> plan])
  BY DEF PlanOnRequest
<1>2. PICK plan \in {plan_summary(c)} \cup {plan_summary_at(c, id) : id \in IdSet(convMsgs[c])} :
           /\ plan # NoPlan
           /\ SetJob(j, [stage |-> "folding", conv |-> c, asked |-> 0, plan |-> plan])
  BY <1>1
<1>3. UNCHANGED <<convLive, convMsgs, convSums, convNext>> BY DEF PlanOnRequest
<1>4. plan \in PlanRow /\ plan.covered < convNext /\ Covers(convMsgs[c], plan.digest, plan.covered)
  <2>1. CASE plan = plan_summary(c) BY <1>2, <2>1, PlanIs
  <2>2. CASE \E id \in IdSet(convMsgs[c]) : plan = plan_summary_at(c, id) BY <2>2, PlanAt
  <2> QED BY <1>2, <2>1, <2>2
<1> QED BY <1>2, <1>3, <1>4, PlannedKeeps

LEMMA QuitKeeps ==
  ASSUME ConvInv, Quit
  PROVE  ConvInv'
<1>1. convJobs' = [j \in CvJobs |-> Free] BY DEF Quit
<1>2. Free.stage # "folding" BY DEF Free
<1>3. JobsSettle BY <1>1, <1>2 DEF JobsSettle
<1> QED BY <1>3, SettledKeeps DEF Quit

\* The one step that saves: the plan still covers what is there, because the
\* message it ends with is.
LEMMA SaveSummaryKeeps ==
  ASSUME ConvInv, NEW j \in CvJobs, SaveSummary(j)
  PROVE  ConvInv'
<1>0. /\ convLive \in [Convs -> BOOLEAN] /\ convMsgs \in [Convs -> Seq(Msg)]
      /\ convSums \in [Convs -> Summaries] /\ convNext \in Nat
      /\ convJobs \in [CvJobs -> {Free} \cup CommandRow]
  BY DEF ConvInv, ConvTypeOK
<1>1. convJobs[j].stage = "folding" /\ SetJob(j, Free) BY DEF SaveSummary
<1>2. JobsSettle
  <2>1. Free.stage # "folding" BY DEF Free
  <2> QED BY <1>1, <2>1, MovesOn
<1>3. UNCHANGED <<convLive, convMsgs, convNext>> BY DEF SaveSummary
<1>4. CASE UNCHANGED convSums BY <1>2, <1>3, <1>4, SettledKeeps
<1>5. CASE convSums' # convSums
  <2>1. PICK c \in Convs, plan \in PlanRow : c = convJobs[j].conv /\ plan = convJobs[j].plan
    BY <1>1, JobType
  <2>2. CanSave(c, plan.covered) /\ save_summary(c, plan) BY <1>5, <2>1 DEF SaveSummary
  <2>3. PICK ms \in Seq(Msg) : ms = convMsgs[c] BY <1>0
  <2>4. Rising(ms) /\ plan.covered \in IdSet(ms) /\ convLive[c]
        /\ \A i \in 1..Len(ms) : ms[i].id < convNext
    BY <2>2, <2>3 DEF CanSave, ConvInv, MessagesInv
  <2>5. Covers(ms, plan.digest, plan.covered) BY <1>1, <2>1, <2>3 DEF ConvInv, CommandSound
  <2>6. PICK src : src = IdsOf(UpTo(ms, plan.covered)) OBVIOUS
  <2>7. src \in Seq(Nat)
    <3>1. UpTo(ms, plan.covered) \in Seq(Msg) BY <2>4, UpToIs
    <3> QED BY <2>6, <3>1, IdsAre
  <2>8. PICK s \in SummaryRow :
          s = [digest |-> plan.digest, covered |-> plan.covered, sources |-> src]
    BY <2>7 DEF PlanRow, SummaryRow
  <2>9. convSums' = [convSums EXCEPT ![c] = <<s>>] BY <2>2, <2>3, <2>6, <2>8 DEF save_summary
  <2>10. convSums' \in [Convs -> Summaries] /\ convSums'[c] = <<s>>
         /\ \A d \in Convs \ {c} : convSums'[d] = convSums[d]
    <3>1. <<s>> \in Summaries BY <2>8 DEF Summaries
    <3> QED BY <1>0, <2>9, <3>1
  <2>11. SummarySound(c)'
    <3>1. latest_summary(c)' = s BY <2>10 DEF latest_summary
    <3>2. convMsgs'[c] = ms BY <1>3, <2>3
    <3>3. s.covered = plan.covered /\ s.digest = plan.digest /\ s.sources = src BY <2>8
    <3> QED BY <2>4, <2>5, <2>6, <3>1, <3>2, <3>3 DEF SummarySound, Covers
  <2>12. convMsgs' = [convMsgs EXCEPT ![c] = ms] /\ PrefixKept(convMsgs[c], ms)
    <3>1. convMsgs = [convMsgs EXCEPT ![c] = ms] BY <1>0, <2>3
    <3> QED BY <1>3, <2>3, <3>1 DEF PrefixKept
  <2>13. /\ convLive' \in [Convs -> BOOLEAN] /\ convNext' \in Nat /\ convNext <= convNext'
         /\ \A d \in Convs \ {c} : convLive'[d] = convLive[d]
         /\ \A i \in 1..Len(ms) : ms[i].id < convNext'
    BY <1>0, <1>3, <2>4
  <2>14. convLive'[c] \/ (ms = <<>> /\ convSums'[c] = <<>>) BY <1>3, <2>4, Zenon
  <2>15. Rising(ms) BY <2>4
  <2> QED
    BY <1>2, <2>10, <2>11, <2>12, <2>13, <2>14, <2>15, OneConversation, ZenonT(30)
<1> QED BY <1>4, <1>5

LEMMA ConvStep == ConvInv /\ [ConvNext]_convVars => ConvInv'
<1> SUFFICES ASSUME ConvInv, [ConvNext]_convVars PROVE ConvInv' OBVIOUS
<1>0. convJobs \in [CvJobs -> {Free} \cup CommandRow] BY DEF ConvInv, ConvTypeOK
<1>1. CASE CreateConversation BY <1>1, CreateKeeps
<1>2. CASE DeleteConversation BY <1>2, DeleteKeeps
<1>3. CASE EditMessage BY <1>3, EditKeeps
<1>4. CASE Truncate BY <1>4, TruncateKeeps
<1>5. CASE Fork BY <1>5, ForkKeeps
<1>6. CASE AppendRow
  <2>1. PICK c \in Convs, role \in {"user", "agent"} : convLive[c] /\ append_message(c, role)
    BY <1>6 DEF AppendRow
  <2>2. UNCHANGED <<convLive, convSums, convJobs>> BY <1>6 DEF AppendRow
  <2>3. JobsSettle BY <1>0, <2>2 DEF JobsSettle
  <2> QED BY <2>1, <2>2, <2>3, AppendKeeps
<1>7. CASE Quit BY <1>7, QuitKeeps
<1>8. CASE \E j \in CvJobs : StartChat(j) \/ RunEnds(j) \/ AppendAnswer(j) \/ PlanAfterChat(j)
                             \/ PlanOnRequest(j) \/ SaveSummary(j)
  BY <1>8, StartChatKeeps, RunEndsKeeps, AppendAnswerKeeps, PlanAfterChatKeeps,
     PlanOnRequestKeeps, SaveSummaryKeeps
<1>9. CASE UNCHANGED convVars
  <2>1. JobsSettle BY <1>0, <1>9 DEF convVars, JobsSettle
  <2> QED BY <1>9, <2>1, SettledKeeps DEF convVars
<1> QED BY <1>1, <1>2, <1>3, <1>4, <1>5, <1>6, <1>7, <1>8, <1>9 DEF ConvNext

LEMMA ConvStart == ConvInit => ConvInv
<1> SUFFICES ASSUME ConvInit PROVE ConvInv OBVIOUS
<1>1. ConvTypeOK BY DEF ConvInit, ConvTypeOK, Summaries
<1>2. \A c \in Convs : convMsgs[c] = <<>> /\ convSums[c] = <<>> BY DEF ConvInit
<1>3. MessagesInv
  <2>1. 1..Len(<<>>) = {} OBVIOUS
  <2> QED BY <1>2, <2>1 DEF MessagesInv, Rising
<1>4. \A c \in Convs : SummarySound(c) BY <1>2 DEF SummarySound
<1>5. \A j \in CvJobs : CommandSound(j) BY DEF ConvInit, CommandSound, Free
<1> QED BY <1>1, <1>3, <1>4, <1>5 DEF ConvInv

\* Messages stand in the order of their ids, a stored summary accounts for all
\* messages up to its anchor, and so does every summary still being written
\* whose anchor is still there (Conversations.ConvNext).
THEOREM ConversationsInvariant == ConvSpec => []ConvInv
  BY ConvStart, ConvStep, PTL DEF ConvSpec

\* The context of the next question never speaks of a message that is no
\* longer in the conversation (SummaryIsAnchored).
THEOREM SummariesAreAnchored == ConvSpec => []SummaryIsAnchored
<1>1. ConvInv => SummaryIsAnchored
  <2> SUFFICES ASSUME ConvInv, NEW c \in Convs
               PROVE  /\ ContextIds(c).folded \subseteq IdSet(convMsgs[c])
                      /\ convSums[c] # <<>> =>
                           /\ latest_summary(c).sources
                                = IdsOf(UpTo(convMsgs[c], latest_summary(c).covered))
                           /\ ContextIds(c).folded = Range(latest_summary(c).sources)
    BY DEF SummaryIsAnchored
  <2>1. CASE convSums[c] = <<>> BY <2>1 DEF ContextIds
  <2>2. CASE convSums[c] # <<>>
    <3>1. PICK s : s = latest_summary(c) OBVIOUS
    <3>2. PICK ms \in Seq(Msg) : ms = convMsgs[c] BY DEF ConvInv, ConvTypeOK
    <3>3. ContextIds(c).folded = DigestIds(s.digest) BY <2>2, <3>1 DEF ContextIds, DigestIds
    <3>4. /\ s.covered \in IdSet(ms) /\ s.sources = IdsOf(UpTo(ms, s.covered))
          /\ DigestIds(s.digest) = {k \in IdSet(ms) : k <= s.covered}
      BY <2>2, <3>1, <3>2 DEF ConvInv, SummarySound, Covers
    <3>5. Rising(ms) BY <3>2 DEF ConvInv, MessagesInv
    <3>6. Range(s.sources) = {k \in IdSet(ms) : k <= s.covered}
      BY <3>4, <3>5, UpToIs DEF IdSet
    <3> QED BY <3>1, <3>2, <3>3, <3>4, <3>6
  <2> QED BY <2>1, <2>2
<1> QED BY <1>1, ConversationsInvariant, PTL

-----------------------------------------------------------------------------
(***************************************************************************)
(* MCP servers: FailedCommandLeavesStore. Whoever holds the database lock  *)
(* has in its snapshot what every secret it has touched was before, and    *)
(* nothing else differs from what it found; the others hold nothing they   *)
(* would write without reading it again.                                   *)
(***************************************************************************)

Values == {NoValue, "old"} \cup McpCmds
Store == [ServerSecrets -> Values]
Some == UNION {[N -> Values] : N \in SUBSET ServerSecrets}
ServerRows == {NotInstalled} \cup SUBSET EnvNames
Section == {"apply", "audit", "rollback", "failed", "mixed"}

\* What a command holds, by what it is and how far it is.
IdleCmds == [op : {"none"}, at : {"new", "done"}]
SaveCmds == [op : {"save"}, at : {"lock"}, existing : ServerRows, in : Inputs,
             names : SUBSET EnvNames]
DeleteCmds == [op : {"delete"}, at : {"stop", "lock"}, existing : ServerRows,
               names : SUBSET EnvNames]
RestartCmds == [op : {"restart"}, at : {"stop", "connect"}, existing : ServerRows,
                names : SUBSET EnvNames]
InsertCmds == [op : {"restart"}, at : {"insert"}, names : SUBSET EnvNames, uses : Some]
Found == [row : ServerRows, secrets : Store]
SectionCmds == [op : {"save", "delete"}, at : Section, names : SUBSET EnvNames,
                want : Some, snapshot : Some, before : Found]
StoppingCmds == [op : {"save"}, at : {"stop"}, names : SUBSET EnvNames,
                 want : Some, snapshot : Some, before : Found]
Commands == IdleCmds \cup SaveCmds \cup DeleteCmds \cup RestartCmds \cup InsertCmds
              \cup SectionCmds \cup StoppingCmds

McpTypes ==
  /\ server \in ServerRows /\ secret \in Store
  /\ cmd \in [McpCmds -> Commands]
  /\ dbLock \in McpCmds \cup {NoHolder}

\* Only the holder of the lock is between its first write and its last.
LockHeld == \A c \in McpCmds : cmd[c].at \in Section => dbLock = c

\* What a command that has not written the row yet can go back to.
Restorable(x, rec, store) ==
  /\ x.before.row = rec
  /\ DOMAIN x.want = DOMAIN x.snapshot
  /\ \A n \in ServerSecrets :
       IF n \in DOMAIN x.snapshot THEN x.snapshot[n] = x.before.secrets[n]
       ELSE store[n] = x.before.secrets[n]
  /\ x.at = "failed" => \A n \in DOMAIN x.snapshot : store[n] = x.snapshot[n]

McpInv ==
  /\ McpTypes /\ LockHeld
  /\ \A c \in McpCmds :
       cmd[c].at \in {"apply", "rollback", "failed"} => Restorable(cmd[c], server, secret)

LEMMA CommandKinds ==
  ASSUME McpTypes, NEW c \in McpCmds
  PROVE  /\ cmd[c].at = "lock" => cmd[c] \in SaveCmds \cup DeleteCmds
         /\ cmd[c].at \in Section => cmd[c] \in SectionCmds
         /\ cmd[c].at = "stop" => cmd[c] \in DeleteCmds \cup RestartCmds \cup StoppingCmds
         /\ cmd[c].at = "connect" => cmd[c] \in RestartCmds
         /\ cmd[c].at = "insert" => cmd[c] \in InsertCmds
BY DEF McpTypes, Commands, IdleCmds, SaveCmds, DeleteCmds, RestartCmds, InsertCmds,
       SectionCmds, StoppingCmds, Section

LEMMA CmdAfter ==
  ASSUME McpTypes, NEW c \in McpCmds, NEW x \in Commands, cmd' = [cmd EXCEPT ![c] = x]
  PROVE  /\ cmd' \in [McpCmds -> Commands] /\ cmd'[c] = x
         /\ \A d \in McpCmds : d # c => cmd'[d] = cmd[d]
BY DEF McpTypes

LEMMA CmdToAfter ==
  ASSUME McpTypes, NEW c \in McpCmds, NEW step, CmdTo(c, step)
  PROVE  cmd' = [cmd EXCEPT ![c] = IF step = "done" THEN CmdDone ELSE [cmd[c] EXCEPT !.at = step]]
BY DEF McpTypes, CmdTo

\* A step that leaves the row and the credentials alone and is not in the
\* section: whoever is in it keeps what it can go back to.
LEMMA OutsideSection ==
  ASSUME McpInv, NEW c \in McpCmds, NEW x \in Commands, cmd' = [cmd EXCEPT ![c] = x],
         x.at \notin Section, UNCHANGED <<server, secret>>,
         \/ dbLock' = dbLock
         \/ dbLock = c /\ dbLock' = NoHolder
  PROVE  McpInv'
<1>1. McpTypes /\ LockHeld  BY DEF McpInv
<1>2. /\ cmd' \in [McpCmds -> Commands] /\ cmd'[c] = x
      /\ \A d \in McpCmds : d # c => cmd'[d] = cmd[d]
  BY <1>1, CmdAfter
<1>3. McpTypes'
  BY <1>1, <1>2 DEF McpTypes
<1>4. LockHeld'
  BY <1>1, <1>2 DEF LockHeld
<1>5. ASSUME NEW d \in McpCmds, cmd'[d].at \in {"apply", "rollback", "failed"}
      PROVE  Restorable(cmd'[d], server', secret')
  <2>1. d # c /\ cmd'[d] = cmd[d]
    BY <1>2, <1>5 DEF Section
  <2>2. Restorable(cmd[d], server, secret)
    BY <1>5, <2>1 DEF McpInv
  <2> QED  BY <2>1, <2>2
<1> QED  BY <1>3, <1>4, <1>5 DEF McpInv

\* A step of the section, of the command that holds the lock.
LEMMA InSection ==
  ASSUME McpInv, NEW c \in McpCmds, dbLock' = c, dbLock \in {c, NoHolder},
         NEW x \in SectionCmds, cmd' = [cmd EXCEPT ![c] = x],
         server' \in ServerRows, secret' \in Store,
         x.at \in {"apply", "rollback", "failed"} => Restorable(x, server', secret')
  PROVE  McpInv'
<1>1. McpTypes /\ LockHeld  BY DEF McpInv
<1>2. x \in Commands  BY DEF Commands
<1>3. /\ cmd' \in [McpCmds -> Commands] /\ cmd'[c] = x
      /\ \A d \in McpCmds : d # c => cmd'[d] = cmd[d]
  BY <1>1, <1>2, CmdAfter
<1>4. McpTypes'
  BY <1>3 DEF McpTypes
<1>5. \A d \in McpCmds : d # c => cmd'[d].at \notin Section
  BY <1>1, <1>3, McpCmdsAssumption DEF LockHeld
<1>6. LockHeld'
  BY <1>5 DEF LockHeld
<1>7. ASSUME NEW d \in McpCmds, cmd'[d].at \in {"apply", "rollback", "failed"}
      PROVE  Restorable(cmd'[d], server', secret')
  <2>1. d = c
    BY <1>5, <1>7 DEF Section
  <2> QED  BY <1>3, <1>7, <2>1
<1> QED  BY <1>4, <1>6, <1>7 DEF McpInv

LEMMA BeginSteps ==
  ASSUME McpInv, NEW c \in McpCmds,
         (\E in \in Inputs : SaveServer(c, in)) \/ DeleteServer(c) \/ RestartServer(c)
  PROVE  McpInv'
<1>0. server \in ServerRows
  BY DEF McpInv, McpTypes
<1>1. ASSUME NEW in \in Inputs, SaveServer(c, in)
      PROVE  McpInv'
  <2> DEFINE x == [op |-> "save", at |-> "lock", existing |-> server, in |-> in,
                   names |-> input_config(server, in)]
  <2>1. input_config(server, in) \in SUBSET EnvNames
    BY <1>0 DEF input_config, Inputs, ServerRows
  <2>2. x \in Commands /\ x.at \notin Section
    BY <1>0, <2>1 DEF Commands, SaveCmds, Section
  <2>3. cmd' = [cmd EXCEPT ![c] = x] /\ UNCHANGED <<server, secret, dbLock>>
    BY <1>1 DEF SaveServer
  <2> HIDE DEF x
  <2> QED  BY <2>2, <2>3, OutsideSection
<1>2. ASSUME NEW o \in {"delete", "restart"}, server # NotInstalled,
             cmd' = [cmd EXCEPT ![c] = [op |-> o, at |-> "stop", existing |-> server,
                                        names |-> server]],
             UNCHANGED <<server, secret, dbLock>>
      PROVE  McpInv'
  <2> DEFINE x == [op |-> o, at |-> "stop", existing |-> server, names |-> server]
  <2>1. x \in Commands /\ x.at \notin Section
    BY <1>0, <1>2 DEF Commands, DeleteCmds, RestartCmds, Section, ServerRows
  <2> HIDE DEF x
  <2>2. cmd' = [cmd EXCEPT ![c] = x]
    BY <1>2 DEF x
  <2> QED  BY <1>2, <2>1, <2>2, OutsideSection
<1> QED  BY <1>1, <1>2 DEF DeleteServer, RestartServer

LEMMA EnterKeeps ==
  ASSUME McpInv, NEW c \in McpCmds, EnterLock(c)
  PROVE  McpInv'
<1> DEFINE N == secret_names(c)
           w == desired_secrets(c)
           s == [n \in N |-> secret[n]]
           b == [row |-> server, secrets |-> secret]
           x == [op |-> cmd[c].op, at |-> "apply", names |-> cmd[c].names,
                 want |-> w, snapshot |-> s, before |-> b]
<1>0. /\ cmd[c].at = "lock" /\ dbLock = NoHolder /\ dbLock' = c
      /\ UNCHANGED <<server, secret>>
      /\ cmd' = [cmd EXCEPT ![c] = x]
  BY DEF EnterLock, CmdAt, DbFree, McpInv, McpTypes
<1>1. server \in ServerRows /\ secret \in Store /\ McpTypes
  BY DEF McpInv, McpTypes
<1>2. cmd[c] \in SaveCmds \cup DeleteCmds
  BY <1>0, <1>1, CommandKinds
<1>3. cmd[c].op \in {"save", "delete"} /\ cmd[c].names \in SUBSET EnvNames
  BY <1>2 DEF SaveCmds, DeleteCmds
<1>4. N \in SUBSET ServerSecrets
  BY <1>2, <1>3 DEF secret_names, ServerSecrets, SaveCmds, DeleteCmds, ServerRows
<1>5. \A n \in N : secret[n] \in Values
  BY <1>1, <1>4 DEF Store
<1>6. w \in [N -> Values]
  <2>1. CASE cmd[c].op = "delete"
    BY <2>1 DEF desired_secrets, Values
  <2>2. CASE cmd[c].op # "delete"
    <3> DEFINE in == cmd[c].in
               v(n) == CASE n = "bearer" -> (CASE in.bearer = "keep" -> secret[n]
                                  [] in.bearer = "clear" -> NoValue
                                  [] OTHER -> c)
                         [] n # "bearer" /\ in.env = KeepEnv -> secret[n]
                         [] OTHER -> IF n \in in.env THEN c ELSE NoValue
    <3>1. w = [n \in N |-> v(n)]
      BY <2>2 DEF desired_secrets
    <3>2. \A n \in N : v(n) \in Values
      BY <1>5 DEF Values
    <3> HIDE DEF v
    <3> QED  BY <3>1, <3>2
  <2> QED  BY <2>1, <2>2
<1>7. s \in [N -> Values]
  BY <1>5
<1>8. b \in Found /\ b.row = server /\ b.secrets = secret
  BY <1>1 DEF Found
<1>9. w \in Some /\ s \in Some /\ DOMAIN w = N /\ DOMAIN s = N /\ \A n \in N : s[n] = secret[n]
  BY <1>4, <1>6, <1>7 DEF Some
<1> HIDE DEF N, w, s, b
<1>10. /\ x \in SectionCmds /\ x.at = "apply" /\ x.want = w /\ x.snapshot = s
       /\ x.before = b
  BY <1>3, <1>8, <1>9 DEF SectionCmds, Section
<1> HIDE DEF x
<1>11. Restorable(x, server', secret')
  BY <1>0, <1>8, <1>9, <1>10 DEF Restorable
<1> QED  BY <1>0, <1>1, <1>10, <1>11, InSection

\* The section up to the audit: each step writes one credential, or the row.
LEMMA SectionSteps ==
  ASSUME McpInv, NEW c \in McpCmds, apply_secrets(c) \/ WriteRow(c) \/ with_rollback(c)
  PROVE  McpInv'
<1>0. /\ cmd[c].at \in {"apply", "rollback"} /\ dbLock' = dbLock
      /\ server \in ServerRows /\ secret \in Store /\ McpTypes
  BY DEF apply_secrets, WriteRow, with_rollback, CmdAt, McpInv, McpTypes
<1>1. /\ cmd[c] \in SectionCmds /\ dbLock = c /\ Restorable(cmd[c], server, secret)
      /\ cmd[c] \in Commands
  BY <1>0, CommandKinds DEF McpInv, LockHeld, Section, McpTypes
<1>2. ASSUME NEW a \in Section, CmdTo(c, a), secret' = secret, server' \in ServerRows,
             a \in {"rollback", "failed"} => server' = server,
             a = "failed" => Differs(cmd[c].snapshot) = {}, a # "apply"
      PROVE  McpInv'
  <2> DEFINE x == [cmd[c] EXCEPT !.at = a]
  <2>1. cmd' = [cmd EXCEPT ![c] = x]
    BY <1>0, <1>2, CmdToAfter DEF Section
  <2>2. /\ x \in SectionCmds /\ x.at = a /\ x.before = cmd[c].before
        /\ x.want = cmd[c].want /\ x.snapshot = cmd[c].snapshot
    BY <1>1, <1>2 DEF SectionCmds
  <2> HIDE DEF x
  <2>3. a \in {"rollback", "failed"} => Restorable(x, server', secret')
    BY <1>1, <1>2, <2>2 DEF Restorable, Differs
  <2> QED  BY <1>0, <1>1, <1>2, <2>1, <2>2, <2>3, InSection
<1>3. ASSUME NEW goal \in {cmd[c].want, cmd[c].snapshot}, NEW n \in Differs(goal),
             secret' = [secret EXCEPT ![n] = goal[n]], UNCHANGED <<server, cmd>>
      PROVE  McpInv'
  <2>1. goal \in Some /\ DOMAIN goal = DOMAIN cmd[c].snapshot
    BY <1>1, <1>3 DEF SectionCmds, Restorable
  <2>2. n \in DOMAIN goal /\ n \in ServerSecrets /\ goal[n] \in Values
    BY <2>1, <1>3 DEF Differs, Some
  <2>3. secret' \in Store /\ \A m \in ServerSecrets : m # n => secret'[m] = secret[m]
    BY <1>0, <1>3, <2>2 DEF Store
  <2>4. Restorable(cmd[c], server', secret')
    BY <1>0, <1>1, <1>3, <2>1, <2>2, <2>3 DEF Restorable
  <2>5. cmd' = [cmd EXCEPT ![c] = cmd[c]]
    BY <1>0, <1>3 DEF McpTypes
  <2> QED  BY <1>0, <1>1, <1>3, <2>3, <2>4, <2>5, InSection
<1>4. CASE apply_secrets(c)
  BY <1>0, <1>2, <1>3, <1>4 DEF apply_secrets, Section
<1>5. CASE WriteRow(c)
  <2>1. cmd[c].names \in ServerRows /\ NotInstalled \in ServerRows
    BY <1>1 DEF SectionCmds, ServerRows
  <2>2. (IF cmd[c].op = "save" THEN cmd[c].names ELSE NotInstalled) \in ServerRows
    BY <2>1
  <2> QED  BY <1>0, <1>2, <1>5, <2>2 DEF WriteRow, Section
<1>6. CASE with_rollback(c)
  BY <1>0, <1>2, <1>3, <1>6 DEF with_rollback, Section
<1> QED  BY <1>4, <1>5, <1>6

LEMMA LeaveSteps ==
  ASSUME McpInv, NEW c \in McpCmds, RecordAudit(c) \/ GiveUp(c)
  PROVE  McpInv'
<1>0. cmd[c].at \in Section /\ dbLock' = NoHolder /\ UNCHANGED <<server, secret>> /\ McpTypes
  BY DEF RecordAudit, GiveUp, CmdAt, Section, McpInv
<1>1. cmd[c] \in SectionCmds /\ dbLock = c
  BY <1>0, CommandKinds DEF McpInv, LockHeld
<1>2. CASE CmdTo(c, "done")
  <2>1. cmd' = [cmd EXCEPT ![c] = CmdDone]
    BY <1>0, <1>2, CmdToAfter
  <2>2. CmdDone \in Commands /\ CmdDone.at \notin Section
    BY DEF CmdDone, Commands, IdleCmds, Section
  <2> HIDE DEF CmdDone
  <2> QED  BY <1>0, <1>1, <2>1, <2>2, OutsideSection
<1>3. CASE cmd[c].op = "save" /\ CmdTo(c, "stop")
  <2> DEFINE x == [cmd[c] EXCEPT !.at = "stop"]
  <2>1. cmd' = [cmd EXCEPT ![c] = x]
    BY <1>0, <1>3, CmdToAfter
  <2>2. x \in StoppingCmds /\ x.at = "stop"
    BY <1>1, <1>3 DEF SectionCmds, StoppingCmds
  <2>3. x \in Commands /\ x.at \notin Section
    BY <2>2 DEF Commands, Section
  <2> HIDE DEF x
  <2> QED  BY <1>0, <1>1, <2>1, <2>3, OutsideSection
<1> QED  BY <1>2, <1>3 DEF RecordAudit, GiveUp

LEMMA ConnectionSteps ==
  ASSUME McpInv, NEW c \in McpCmds, shutdown_active(c) \/ connect(c) \/ InsertSupervisor(c)
  PROVE  McpInv'
<1>0. UNCHANGED <<server, secret, dbLock>> /\ McpTypes /\ secret \in Store
  BY DEF shutdown_active, connect, InsertSupervisor, McpInv, McpTypes
<1>1. CASE CmdTo(c, "done")
  <2>1. cmd' = [cmd EXCEPT ![c] = CmdDone]
    BY <1>0, <1>1, CmdToAfter
  <2>2. CmdDone \in Commands /\ CmdDone.at \notin Section
    BY DEF CmdDone, Commands, IdleCmds, Section
  <2> HIDE DEF CmdDone
  <2> QED  BY <1>0, <2>1, <2>2, OutsideSection
<1>2. ASSUME NEW a \in {"connect", "lock"}, CmdTo(c, a), cmd[c].at = "stop",
             a = "connect" => cmd[c].op = "restart", a = "lock" => cmd[c].op = "delete"
      PROVE  McpInv'
  <2> DEFINE x == [cmd[c] EXCEPT !.at = a]
  <2>1. cmd' = [cmd EXCEPT ![c] = x]
    BY <1>0, <1>2, CmdToAfter
  <2>2. cmd[c] \in DeleteCmds \cup RestartCmds \cup StoppingCmds
    BY <1>0, <1>2, CommandKinds
  <2>3. x \in DeleteCmds \cup RestartCmds /\ x.at = a
    <3>1. CASE a = "connect"
      <4>1. cmd[c] \in RestartCmds
        BY <1>2, <2>2, <3>1 DEF DeleteCmds, StoppingCmds
      <4> QED  BY <4>1, <3>1 DEF RestartCmds
    <3>2. CASE a = "lock"
      <4>1. cmd[c] \in DeleteCmds
        BY <1>2, <2>2, <3>2 DEF RestartCmds, StoppingCmds
      <4> QED  BY <4>1, <3>2 DEF DeleteCmds
    <3> QED  BY <3>1, <3>2, <1>2
  <2>4. x \in Commands /\ x.at \notin Section
    BY <1>2, <2>3 DEF Commands, Section
  <2> HIDE DEF x
  <2> QED  BY <1>0, <2>1, <2>4, OutsideSection
<1>3. CASE shutdown_active(c)
  BY <1>1, <1>2, <1>3 DEF shutdown_active, CmdAt
<1>4. CASE connect(c)
  <2> DEFINE u == [n \in cmd[c].names \cup {"bearer"} |-> secret[n]]
             x == [op |-> cmd[c].op, at |-> "insert", names |-> cmd[c].names, uses |-> u]
  <2>1. CASE cmd' = [cmd EXCEPT ![c] = x]
    <3>1. cmd[c] \in RestartCmds
      BY <1>0, <1>4, CommandKinds DEF connect, CmdAt
    <3>2. cmd[c].op = "restart" /\ cmd[c].names \in SUBSET EnvNames
      BY <3>1 DEF RestartCmds
    <3>3. u \in Some
      <4>1. cmd[c].names \cup {"bearer"} \in SUBSET ServerSecrets
        BY <3>2 DEF ServerSecrets
      <4>2. u \in [cmd[c].names \cup {"bearer"} -> Values]
        BY <4>1, <1>0 DEF Store
      <4> QED  BY <4>1, <4>2 DEF Some
    <3> HIDE DEF u
    <3>4. x \in InsertCmds /\ x.at = "insert"
      BY <3>2, <3>3 DEF InsertCmds
    <3>5. x \in Commands /\ x.at \notin Section
      BY <3>4 DEF Commands, Section
    <3> HIDE DEF x
    <3> QED  BY <1>0, <2>1, <3>5, OutsideSection
  <2>2. CASE CmdTo(c, "done")
    BY <1>1, <2>2
  <2>3. cmd' = [cmd EXCEPT ![c] = x] \/ CmdTo(c, "done")
    BY <1>0, <1>4 DEF connect, McpTypes
  <2> QED  BY <2>1, <2>2, <2>3
<1>5. CASE InsertSupervisor(c)
  BY <1>1, <1>5 DEF InsertSupervisor
<1> QED  BY <1>3, <1>4, <1>5

LEMMA McpCrashKeeps ==
  ASSUME McpInv, McpCrash
  PROVE  McpInv'
<1>1. NewCmd \in Commands /\ CmdDone \in Commands /\ NewCmd.at \notin Section
      /\ CmdDone.at \notin Section
  BY DEF NewCmd, CmdDone, Commands, IdleCmds, Section
<1>2. /\ cmd' = [c \in McpCmds |-> IF CmdAt(c, "new") THEN NewCmd ELSE CmdDone]
      /\ UNCHANGED <<server, secret>> /\ dbLock' = NoHolder
  BY DEF McpCrash
<1> HIDE DEF NewCmd, CmdDone
<1>3. cmd' \in [McpCmds -> Commands] /\ \A c \in McpCmds : cmd'[c].at \notin Section
  BY <1>1, <1>2
<1>4. McpTypes'
  BY <1>2, <1>3 DEF McpInv, McpTypes
<1> QED  BY <1>3, <1>4 DEF McpInv, LockHeld, Section

\* For any number of overlapping commands and failures: a command is between its
\* first and its last write of the secret store only while it holds the
\* connection's lock, and until it writes the row every credential it may have
\* changed is in its snapshot.
THEOREM ServersInvariant == McpSpec => []McpInv
<1>1. McpInit => McpInv
  <2> SUFFICES ASSUME McpInit
               PROVE  McpInv
    OBVIOUS
  <2>1. NewCmd \in Commands /\ NewCmd.at \notin Section
    BY DEF NewCmd, Commands, IdleCmds, Section
  <2>2. cmd = [c \in McpCmds |-> NewCmd]
    BY DEF McpInit
  <2> HIDE DEF NewCmd
  <2>3. cmd \in [McpCmds -> Commands] /\ \A c \in McpCmds : cmd[c].at \notin Section
    BY <2>1, <2>2
  <2>4. McpTypes
    BY <2>3 DEF McpInit, McpTypes, ServerRows, Store, Values
  <2> QED  BY <2>3, <2>4 DEF McpInv, LockHeld, Section
<1>2. McpInv /\ [McpNext]_mcpVars => McpInv'
  <2> SUFFICES ASSUME McpInv, [McpNext]_mcpVars
               PROVE  McpInv'
    OBVIOUS
  <2>1. CASE McpNext
    BY <2>1, BeginSteps, EnterKeeps, SectionSteps, LeaveSteps, ConnectionSteps, McpCrashKeeps
       DEF McpNext
  <2>2. CASE UNCHANGED mcpVars
    BY <2>2 DEF mcpVars, McpInv, McpTypes, LockHeld
  <2> QED  BY <2>1, <2>2
<1> QED  BY <1>1, <1>2, PTL DEF McpSpec

\* A save or a deletion of an MCP server that failed and wrote its credentials
\* back leaves the row and every credential as it found them, whatever other
\* commands did meanwhile (with_rollback of app/mcp_commands).
THEOREM FailedCommandsLeaveNothing == McpSpec => []FailedCommandLeavesStore
<1>1. McpInv => FailedCommandLeavesStore
  <2> SUFFICES ASSUME McpInv, NEW c \in McpCmds, cmd[c].at = "failed"
               PROVE  cmd[c].before = [row |-> server, secrets |-> secret]
    BY DEF FailedCommandLeavesStore, CmdAt
  <2>1. cmd[c] \in SectionCmds /\ Restorable(cmd[c], server, secret) /\ secret \in Store
    BY CommandKinds DEF McpInv, Section, McpTypes
  <2>2. cmd[c].before \in Found
    BY <2>1 DEF SectionCmds
  <2>3. cmd[c].before.secrets \in Store /\ cmd[c].before.row = server
    BY <2>1, <2>2 DEF Found, Restorable
  <2>4. \A n \in ServerSecrets : cmd[c].before.secrets[n] = secret[n]
    BY <2>1 DEF Restorable
  <2>5. cmd[c].before.secrets = secret
    BY <2>1, <2>3, <2>4 DEF Store
  <2> QED  BY <2>2, <2>3, <2>5 DEF Found
<1> QED  BY <1>1, ServersInvariant, PTL

-----------------------------------------------------------------------------
(***************************************************************************)
(* The MCP event stream: MessagesInOrder. The messages received and those  *)
(* in the channel together count up without a gap to the last event id     *)
(* while the reader task lives.                                            *)
(***************************************************************************)

\* The messages received, then those in the channel, count up from 1; while the
\* task runs the last of them is the last event id, and the connection goes on
\* with the one after it.
StreamInv ==
  /\ lastId \in Nat /\ next \in Nat /\ got \in Seq(Nat) /\ queue \in Seq(Nat)
  /\ \A i \in 1..Len(got) : got[i] = i
  /\ \A i \in 1..Len(queue) : queue[i] = Len(got) + i
  /\ task # "gone" => lastId = Len(got) + Len(queue)
  /\ task = "read" => next \in {0, lastId + 1}

LEMMA StreamStepKeeps ==
  ASSUME StreamInv, StNext
  PROVE  StreamInv'
<1>1. CASE Connect
  BY <1>1 DEF Connect, StreamInv, set_stream_error, wait_before_retry
<1>2. CASE WakeUp
  BY <1>2 DEF WakeUp, StreamInv
<1>3. CASE push
  BY <1>3 DEF push, StreamInv
<1>4. CASE DispatchEndpoint
  BY <1>4 DEF DispatchEndpoint, StreamInv, set_stream_error
<1>5. CASE DispatchMessage
  <2>1. next = lastId + 1 /\ lastId = Len(got) + Len(queue) /\ got' = got
        /\ lastId' = next /\ next' = next + 1
    BY <1>5 DEF DispatchMessage, StreamInv
  <2>2. CASE task' = "gone" /\ queue' = queue
    BY <2>1, <2>2 DEF StreamInv
  <2>3. CASE queue' = Append(queue, next) /\ task' = task
    <3>1. queue' \in Seq(Nat) /\ Len(queue') = Len(queue) + 1
          /\ queue'[Len(queue) + 1] = next
          /\ \A i \in 1..Len(queue) : queue'[i] = queue[i]
      BY <2>3 DEF StreamInv
    <3>2. ASSUME NEW i \in 1..Len(queue')
          PROVE  queue'[i] = Len(got) + i
      <4>0. Len(queue) \in Nat /\ Len(got) \in Nat  BY DEF StreamInv
      <4>1. i \in 1..Len(queue) \/ i = Len(queue) + 1  BY <3>1, <4>0
      <4>2. CASE i \in 1..Len(queue)
        BY <4>2, <3>1 DEF StreamInv
      <4>3. CASE i = Len(queue) + 1
        BY <4>0, <4>3, <2>1, <3>1
      <4> QED  BY <4>1, <4>2, <4>3
    <3> QED  BY <2>1, <2>3, <3>1, <3>2 DEF StreamInv
  <2> QED  BY <1>5, <2>2, <2>3 DEF DispatchMessage
<1>6. CASE StreamBreaks
  BY <1>6 DEF StreamBreaks, StreamInv, set_stream_error, wait_before_retry
<1>7. CASE start
  BY <1>7 DEF start, StreamInv
<1>8. CASE receive
  <2>1. queue # <<>> /\ got' = Append(got, Head(queue)) /\ queue' = Tail(queue)
        /\ UNCHANGED <<task, lastId, next>>
    BY <1>8 DEF receive
  <2>2. Len(queue) > 0 /\ Head(queue) = Len(got) + 1
    BY <2>1 DEF StreamInv
  <2>3. got' \in Seq(Nat) /\ Len(got') = Len(got) + 1 /\ got'[Len(got) + 1] = Head(queue)
        /\ \A i \in 1..Len(got) : got'[i] = got[i]
    BY <2>1, <2>2 DEF StreamInv
  <2>4. queue' \in Seq(Nat) /\ Len(queue') = Len(queue) - 1
        /\ \A i \in 1..Len(queue') : queue'[i] = queue[i + 1]
    BY <2>1, <2>2 DEF StreamInv
  <2>5. ASSUME NEW i \in 1..Len(got')
        PROVE  got'[i] = i
    <3>0. Len(got) \in Nat  BY DEF StreamInv
    <3>1. i \in 1..Len(got) \/ i = Len(got) + 1  BY <2>3, <3>0
    <3>2. CASE i \in 1..Len(got)
      BY <3>2, <2>3 DEF StreamInv
    <3>3. CASE i = Len(got) + 1
      BY <3>3, <2>2, <2>3
    <3> QED  BY <3>1, <3>2, <3>3
  <2>6. \A i \in 1..Len(queue') : queue'[i] = Len(got') + i
    <3> SUFFICES ASSUME NEW i \in 1..Len(queue')
                 PROVE  queue'[i] = Len(got') + i
      OBVIOUS
    <3>1. i + 1 \in 1..Len(queue)  BY <2>2, <2>4 DEF StreamInv
    <3>2. queue[i + 1] = Len(got) + (i + 1)  BY <3>1 DEF StreamInv
    <3> QED  BY <2>3, <2>4, <3>2 DEF StreamInv
  <2>7. Len(got') + Len(queue') = Len(got) + Len(queue)
    BY <2>3, <2>4 DEF StreamInv
  <2> QED  BY <2>1, <2>3, <2>4, <2>5, <2>6, <2>7 DEF StreamInv
<1>9. CASE CloseStream
  BY <1>9 DEF CloseStream, StreamInv
<1> QED  BY <1>1, <1>2, <1>3, <1>4, <1>5, <1>6, <1>7, <1>8, <1>9 DEF StNext

\* For any number of messages, retries and breaks: a message is counted by its
\* id when it is handed over and not before, so a reconnection with
\* Last-Event-ID continues exactly after the last one handed over.
THEOREM StreamInvariant == StSpec => []StreamInv
<1>1. StInit => StreamInv
  BY DEF StInit, StreamInv
<1>2. StreamInv /\ [StNext]_streamVars => StreamInv'
  <2>1. ASSUME StreamInv, UNCHANGED streamVars
        PROVE  StreamInv'
    BY <2>1 DEF StreamInv, streamVars
  <2> QED  BY <2>1, StreamStepKeeps
<1> QED  BY <1>1, <1>2, PTL DEF StSpec

\* The owner of an SSE connection gets the messages of the session in order,
\* none twice and none left out, wherever the stream breaks (mcp/sse.rs).
THEOREM MessagesArriveInOrder == StSpec => []MessagesInOrder
<1>1. StreamInv => MessagesInOrder
  <2> SUFFICES ASSUME StreamInv, NEW i \in 1..Len(got \o queue)
               PROVE  (got \o queue)[i] = i
    BY DEF MessagesInOrder
  <2>1. Len(got \o queue) = Len(got) + Len(queue)
    BY DEF StreamInv
  <2>2. CASE i <= Len(got)
    BY <2>1, <2>2 DEF StreamInv
  <2>3. CASE i > Len(got)
    <3>1. (got \o queue)[i] = queue[i - Len(got)] /\ i - Len(got) \in 1..Len(queue)
      BY <2>1, <2>3 DEF StreamInv
    <3> QED  BY <2>3, <3>1 DEF StreamInv
  <2> QED  BY <2>2, <2>3 DEF StreamInv
<1> QED  BY <1>1, StreamInvariant, PTL

-----------------------------------------------------------------------------
(***************************************************************************)
(* Provider profiles: CredentialIsIntended. The entry that comes into use  *)
(* next holds the secret meant for it at every step of a command: what the *)
(* sweep deleted is kept with its value, what a set replaced is kept as    *)
(* previous, and a credential name the profile does not have now has no    *)
(* secret of generation 0, which it would start with.                      *)
(***************************************************************************)

CredNames == Credentials \cup {NoName}
ProfileRow == [kind : ProviderKind, name : CredNames, enabled : BOOLEAN, generation : Nat]
KeyringKeys == Profiles \X CredNames \X Nat
Keyring == UNION {[K -> Nat] : K \in SUBSET KeyringKeys}

ChangeCmds == [op : {"save", "delete"}, step : {"sweep", "commit", "restore"}, p : Profiles,
               row : ProfileRow \cup {NoProfile}, name : CredNames, generation : Nat,
               last : Nat, deleted : Keyring]
SecretSteps == {"next", "read", "current", "activate", "undo_next", "undo_stale", "undo_current"}
SecretCmds == [op : {"set", "delete_secret"}, step : SecretSteps, p : Profiles,
               name : CredNames, generation : Nat, value : Nat, staleNext : Nat,
               previous : Nat]

PfTypes ==
    /\ pfRow \in [Profiles -> ProfileRow \cup {NoProfile}]
    /\ pfStore \in Keyring
    /\ pfCmd \in {NoCommand} \cup ChangeCmds \cup SecretCmds
    /\ pfIntended \in [Profiles -> Nat]
    /\ pfDamaged \in SUBSET Profiles
    /\ pfSecret \in Nat

\* The secret under a key, 0 for none, and the one a row answers with.
SecretAt(store, key) == IF key \in DOMAIN store THEN store[key] ELSE 0
CurrentKey(p, rec) == <<p, rec.name, rec.generation>>
Named(rec) == rec # NoProfile /\ rec.name # NoName
Answer(p, rec, store) == IF Named(rec) THEN SecretAt(store, CurrentKey(p, rec)) ELSE 0

\* v is the secret meant for p; that of a damaged profile may be gone.
Meant(p, v) ==
    /\ v \in {0, pfIntended[p]}
    /\ p \notin pfDamaged => v = pfIntended[p]

Busy(p) == pfCmd # NoCommand /\ pfCmd.p = p

\* A profile never answers with another secret than the intended one, and a
\* credential name it does not have now has no secret of generation 0, the one
\* it would start with.
ProfileFits(p) ==
    /\ Answer(p, pfRow[p], pfStore) \in {0, pfIntended[p]}
    /\ \A n \in Credentials \ {NoName} :
         (Exists(p) => pfRow[p].name # n) => SecretAt(pfStore, <<p, n, 0>>) = 0
    /\ Busy(p) \/ Meant(p, Answer(p, pfRow[p], pfStore))

\* A save or a deletion: what it will store, and what it has swept.
Sweeps(x) == Named(pfRow[x.p]) /\ (x.op = "save" => pfRow[x.p].name # x.row.name)

ChangeFits(x) ==
    LET p == x.p
        key == CurrentKey(p, pfRow[p])
    IN  /\ x.op = "delete" => Exists(p) /\ x.row = NoProfile
        /\ x.op = "save" =>
             /\ x.row \in ProfileRow
             /\ x.row.generation = IF Exists(p) /\ pfRow[p].name = x.row.name
                                   THEN pfRow[p].generation ELSE 0
        /\ Sweeps(x) =>
             /\ x.name = pfRow[p].name /\ x.last = pfRow[p].generation
             /\ x.step = "sweep" /\ x.generation > 0 => SecretAt(pfStore, <<p, x.name, 0>>) = 0
             /\ x.step = "commit" => SecretAt(pfStore, <<p, x.name, 0>>) = 0
             /\ \A k \in DOMAIN x.deleted : k[1] = p /\ k[2] = x.name
             /\ x.step = "sweep" => \A k \in DOMAIN x.deleted : k[3] < x.generation
        /\ ~Sweeps(x) => x.step # "sweep" /\ DOMAIN x.deleted = {}
        /\ Meant(p, IF Named(pfRow[p]) /\ key \in DOMAIN x.deleted THEN x.deleted[key]
                    ELSE Answer(p, pfRow[p], pfStore))

\* A secret that is being stored or deleted: the entry that becomes the current
\* one has the new value, and the old value can be put back.
SecretFits(x) ==
    LET p == x.p
        now == Answer(p, pfRow[p], pfStore)
    IN  /\ Named(pfRow[p]) /\ x.name = pfRow[p].name /\ x.generation = pfRow[p].generation
        /\ x.op = "delete_secret" => x.value = 0
        /\ x.step = "read" => x.op = "delete_secret"
        /\ x.step \in {"read", "current", "activate"} =>
             SecretAt(pfStore, <<p, x.name, x.generation + 1>>) = x.value
        /\ x.step \in {"next", "read"} => x.previous = 0
        /\ x.step = "current" => x.previous = now
        /\ x.step \in {"next", "read", "current"} => Meant(p, now)
        /\ x.previous # 0 => Meant(p, x.previous)
        /\ x.previous = 0 => Meant(p, now)

PfInv ==
    /\ PfTypes
    /\ \A p \in Profiles : ProfileFits(p)
    /\ pfCmd \in ChangeCmds => ChangeFits(pfCmd)
    /\ pfCmd \in SecretCmds => SecretFits(pfCmd)

-----------------------------------------------------------------------------
LEMMA EntryPut ==
    ASSUME NEW store \in Keyring, NEW key \in KeyringKeys, NEW v \in Nat
    PROVE  /\ PutSecret(store, key, v) \in Keyring
           /\ \A k : SecretAt(PutSecret(store, key, v), k) = IF k = key THEN v ELSE SecretAt(store, k)
           /\ DOMAIN PutSecret(store, key, v) = DOMAIN store \cup {key}
<1>1. PICK K \in SUBSET KeyringKeys : store \in [K -> Nat]
  BY DEF Keyring
<1>2. PutSecret(store, key, v) \in [K \cup {key} -> Nat]
  BY <1>1 DEF PutSecret
<1>3. PutSecret(store, key, v) \in Keyring
  BY <1>2 DEF Keyring
<1> QED  BY <1>1, <1>3 DEF PutSecret, SecretAt

LEMMA EntryDropped ==
    ASSUME NEW store \in Keyring, NEW key
    PROVE  /\ DropSecret(store, key) \in Keyring
           /\ \A k : SecretAt(DropSecret(store, key), k) = IF k = key THEN 0 ELSE SecretAt(store, k)
           /\ DOMAIN DropSecret(store, key) = DOMAIN store \ {key}
           /\ \A k \in DOMAIN store \ {key} : DropSecret(store, key)[k] = store[k]
<1>1. PICK K \in SUBSET KeyringKeys : store \in [K -> Nat]
  BY DEF Keyring
<1>2. DropSecret(store, key) \in [K \ {key} -> Nat]
  BY <1>1 DEF DropSecret
<1>3. DropSecret(store, key) \in Keyring
  BY <1>2 DEF Keyring
<1> QED  BY <1>1, <1>3 DEF DropSecret, SecretAt

\* The same of a keyring that has become another one.
LEMMA StorePut ==
    ASSUME NEW store \in Keyring, NEW key \in KeyringKeys, NEW v \in Nat,
           NEW new, new = PutSecret(store, key, v)
    PROVE  new \in Keyring /\ \A k : SecretAt(new, k) = IF k = key THEN v ELSE SecretAt(store, k)
<1>1. PICK K \in SUBSET KeyringKeys : store \in [K -> Nat]
  BY DEF Keyring
<1>2. new \in [K \cup {key} -> Nat]
  BY <1>1 DEF PutSecret
<1>3. new \in Keyring
  BY <1>2 DEF Keyring
<1> QED  BY <1>1, <1>3 DEF PutSecret, SecretAt

LEMMA StoreDrop ==
    ASSUME NEW store \in Keyring, NEW key, NEW new, new = DropSecret(store, key)
    PROVE  new \in Keyring /\ \A k : SecretAt(new, k) = IF k = key THEN 0 ELSE SecretAt(store, k)
BY EntryDropped

LEMMA KeyringValues ==
    ASSUME NEW store \in Keyring
    PROVE  /\ DOMAIN store \in SUBSET KeyringKeys
           /\ \A k \in DOMAIN store : store[k] \in Nat
           /\ \A k : SecretAt(store, k) \in Nat
<1>1. PICK K \in SUBSET KeyringKeys : store \in [K -> Nat]
  BY DEF Keyring
<1> QED  BY <1>1 DEF SecretAt

LEMMA EmptyKeyring == <<>> \in Keyring /\ DOMAIN <<>> = {}
<1>1. <<>> \in [{} -> Nat] /\ DOMAIN <<>> = {}
  OBVIOUS
<1> QED  BY <1>1 DEF Keyring

LEMMA CommandForms ==
    ASSUME PfTypes
    PROVE  /\ pfCmd.op \in {"save", "delete"} => pfCmd \in ChangeCmds
           /\ pfCmd.op \in {"set", "delete_secret"} => pfCmd \in SecretCmds
           /\ pfCmd # NoCommand => pfCmd \in ChangeCmds \cup SecretCmds /\ pfCmd.p \in Profiles
           /\ NoCommand \notin ChangeCmds \cup SecretCmds
           /\ \A x \in ChangeCmds : x \notin SecretCmds
BY DEF PfTypes, ChangeCmds, SecretCmds, NoCommand

LEMMA AnswerIs ==
    ASSUME NEW p
    PROVE  profile_credential(p) = Answer(p, pfRow[p], pfStore)
BY DEF profile_credential, Answer, Named, Exists, optional_secret, SecretAt, CurrentKey

\* A step about one profile leaves the others as they are.
LEMMA OtherProfiles ==
    ASSUME PfInv, PfTypes', NEW p \in Profiles,
           pfCmd = NoCommand \/ pfCmd.p = p, pfCmd' = NoCommand \/ pfCmd'.p = p,
           \A q \in Profiles : q # p =>
               /\ pfRow'[q] = pfRow[q] /\ pfIntended'[q] = pfIntended[q]
               /\ q \in pfDamaged' <=> q \in pfDamaged
               /\ \A n, g : SecretAt(pfStore', <<q, n, g>>) = SecretAt(pfStore, <<q, n, g>>),
           ProfileFits(p)',
           pfCmd' \in ChangeCmds => ChangeFits(pfCmd)',
           pfCmd' \in SecretCmds => SecretFits(pfCmd)'
    PROVE  PfInv'
<1>1. ASSUME NEW q \in Profiles, q # p
      PROVE  ProfileFits(q)'
  <2>1. ProfileFits(q) /\ ~Busy(q)
    BY <1>1 DEF PfInv, Busy
  <2>2. Answer(q, pfRow'[q], pfStore') = Answer(q, pfRow[q], pfStore)
    BY <1>1 DEF Answer, CurrentKey
  <2> QED  BY <1>1, <2>1, <2>2 DEF ProfileFits, Meant, Exists
<1> QED  BY <1>1 DEF PfInv

\* A command that only takes the lock leaves every profile as it is.
LEMMA BeginChange ==
    ASSUME PfInv, NEW p \in Profiles, pfCmd = NoCommand,
           UNCHANGED <<pfRow, pfStore, pfIntended, pfDamaged, pfSecret>>,
           NEW x \in ChangeCmds, pfCmd' = x, x.p = p, x.deleted = <<>>, x.generation = 0,
           x.op = "delete" => Exists(p) /\ x.row = NoProfile,
           x.op = "save" =>
             /\ x.row \in ProfileRow
             /\ x.row.generation = IF Exists(p) /\ pfRow[p].name = x.row.name
                                   THEN pfRow[p].generation ELSE 0,
           Sweeps(x) => /\ x.step = "sweep"
                        /\ x.name = pfRow[p].name /\ x.last = pfRow[p].generation,
           ~Sweeps(x) => x.step # "sweep"
    PROVE  PfInv'
<1>1. PfTypes'
  BY DEF PfInv, PfTypes
<1>2. ProfileFits(p) /\ ~Busy(p)
  BY DEF PfInv, Busy
<1>3. Meant(p, Answer(p, pfRow[p], pfStore))
  BY <1>2 DEF ProfileFits
<1>4. ProfileFits(p)'
  BY <1>2, <1>3 DEF ProfileFits, Exists, Meant
<1>5. ChangeFits(pfCmd)'
  BY <1>3, EmptyKeyring DEF ChangeFits, Sweeps, Exists, Meant
<1>6. pfCmd' \notin SecretCmds
  BY DEF ChangeCmds, SecretCmds
<1> QED  BY <1>1, <1>4, <1>5, <1>6, OtherProfiles

LEMMA RowIs ==
    ASSUME PfTypes, NEW p \in Profiles
    PROVE  /\ Exists(p) => pfRow[p] \in ProfileRow
           /\ pfRow[p] \in ProfileRow \cup {NoProfile}
BY DEF PfTypes, Exists

LEMMA SaveBegins ==
    ASSUME PfInv, NEW p \in Profiles, SaveProfile(p)
    PROVE  PfInv'
<1>1. PICK kind \in Kinds, name \in Credentials \cup {NoName}, enabled \in BOOLEAN :
          IF Exists(p) /\ pfRow[p].name \notin {NoName, name}
          THEN Sweep("save", p, save_record(p, kind, name, enabled), pfRow[p].name, pfRow[p].generation)
          ELSE CommitOnly("save", p, save_record(p, kind, name, enabled))
  BY DEF SaveProfile
<1> DEFINE rec == save_record(p, kind, name, enabled)
<1>2. Exists(p) => pfRow[p] \in ProfileRow
  BY RowIs DEF PfInv
<1>3. /\ rec \in ProfileRow /\ rec.name = name
      /\ rec.generation = IF Exists(p) /\ pfRow[p].name = rec.name THEN pfRow[p].generation ELSE 0
  BY <1>2, KindsKnown DEF save_record, ProfileRow, CredNames
<1> HIDE DEF rec
<1>4. CASE Exists(p) /\ pfRow[p].name \notin {NoName, name}
  <2> DEFINE x == [op |-> "save", step |-> "sweep", p |-> p, row |-> rec, name |-> pfRow[p].name,
              generation |-> 0, last |-> pfRow[p].generation, deleted |-> <<>>]
  <2>1. pfCmd' = x
    BY <1>1, <1>4 DEF Sweep, rec
  <2>2. x \in ChangeCmds
    BY <1>2, <1>3, <1>4, EmptyKeyring DEF ChangeCmds, ProfileRow
  <2>3. /\ x.p = p /\ x.deleted = <<>> /\ x.generation = 0 /\ x.op = "save" /\ x.row = rec
        /\ x.step = "sweep" /\ x.name = pfRow[p].name /\ x.last = pfRow[p].generation
    OBVIOUS
  <2> HIDE DEF x
  <2>4. Sweeps(x)
    BY <1>3, <1>4, <2>3 DEF Sweeps, Named, Exists
  <2> QED  BY <1>3, <2>1, <2>2, <2>3, <2>4, BeginChange DEF SaveProfile
<1>5. CASE ~(Exists(p) /\ pfRow[p].name \notin {NoName, name})
  <2> DEFINE x == [op |-> "save", step |-> "commit", p |-> p, row |-> rec, name |-> NoName,
              generation |-> 0, last |-> 0, deleted |-> <<>>]
  <2>1. pfCmd' = x
    BY <1>1, <1>5 DEF CommitOnly, rec
  <2>2. x \in ChangeCmds
    BY <1>3, EmptyKeyring DEF ChangeCmds, CredNames
  <2>3. /\ x.p = p /\ x.deleted = <<>> /\ x.generation = 0 /\ x.op = "save" /\ x.row = rec
        /\ x.step = "commit"
    OBVIOUS
  <2> HIDE DEF x
  <2>4. ~Sweeps(x)
    BY <1>3, <1>5, <2>3 DEF Sweeps, Named, Exists
  <2> QED  BY <1>3, <2>1, <2>2, <2>3, <2>4, BeginChange DEF SaveProfile
<1> QED  BY <1>4, <1>5

LEMMA DeleteBegins ==
    ASSUME PfInv, NEW p \in Profiles, DeleteProfile(p)
    PROVE  PfInv'
<1>2. Exists(p) /\ pfRow[p] \in ProfileRow
  BY RowIs DEF PfInv, DeleteProfile
<1>4. CASE pfRow[p].name # NoName
  <2> DEFINE x == [op |-> "delete", step |-> "sweep", p |-> p, row |-> NoProfile, name |-> pfRow[p].name,
              generation |-> 0, last |-> pfRow[p].generation, deleted |-> <<>>]
  <2>1. pfCmd' = x
    BY <1>4 DEF Sweep, DeleteProfile
  <2>2. x \in ChangeCmds
    BY <1>2, EmptyKeyring DEF ChangeCmds, ProfileRow
  <2>3. /\ x.p = p /\ x.deleted = <<>> /\ x.generation = 0 /\ x.op = "delete" /\ x.row = NoProfile
        /\ x.step = "sweep" /\ x.name = pfRow[p].name /\ x.last = pfRow[p].generation
    OBVIOUS
  <2> HIDE DEF x
  <2>4. Sweeps(x)
    BY <1>2, <1>4, <2>3 DEF Sweeps, Named, Exists
  <2> QED  BY <1>2, <2>1, <2>2, <2>3, <2>4, BeginChange DEF DeleteProfile
<1>5. CASE pfRow[p].name = NoName
  <2> DEFINE x == [op |-> "delete", step |-> "commit", p |-> p, row |-> NoProfile, name |-> NoName,
              generation |-> 0, last |-> 0, deleted |-> <<>>]
  <2>1. pfCmd' = x
    BY <1>5 DEF CommitOnly, DeleteProfile
  <2>2. x \in ChangeCmds
    BY EmptyKeyring DEF ChangeCmds, CredNames
  <2>3. /\ x.p = p /\ x.deleted = <<>> /\ x.generation = 0 /\ x.op = "delete" /\ x.row = NoProfile
        /\ x.step = "commit"
    OBVIOUS
  <2> HIDE DEF x
  <2>4. ~Sweeps(x)
    BY <1>5, <2>3 DEF Sweeps, Named
  <2> QED  BY <1>2, <2>1, <2>2, <2>3, <2>4, BeginChange DEF DeleteProfile
<1> QED  BY <1>4, <1>5

LEMMA SecretBegins ==
    ASSUME PfInv, NEW p \in Profiles, NEW op \in {"set", "delete_secret"}, SecretBegin(op, p)
    PROVE  PfInv'
<1>1. Exists(p) /\ pfRow[p] \in ProfileRow /\ pfSecret \in Nat /\ pfRow[p].name # NoName
  BY RowIs DEF PfInv, PfTypes, SecretBegin
<1> DEFINE v == IF op = "set" THEN pfSecret ELSE 0
           x == [op |-> op, step |-> "next", p |-> p, name |-> pfRow[p].name,
                 generation |-> pfRow[p].generation, value |-> v, staleNext |-> 0, previous |-> 0]
<1>2. v \in Nat /\ (op = "delete_secret" => v = 0)
  BY <1>1
<1>3. pfCmd' = x
  BY DEF SecretBegin
<1> HIDE DEF v
<1>4. x \in SecretCmds
  BY <1>1, <1>2 DEF SecretCmds, SecretSteps, ProfileRow
<1>5. /\ x.op = op /\ x.step = "next" /\ x.p = p /\ x.name = pfRow[p].name
      /\ x.generation = pfRow[p].generation /\ x.value = v /\ x.previous = 0
  OBVIOUS
<1> HIDE DEF x
<1>6. UNCHANGED <<pfRow, pfStore, pfIntended, pfDamaged>> /\ pfCmd = NoCommand
  BY DEF SecretBegin
<1>7. pfSecret' \in Nat
  BY <1>1 DEF SecretBegin
<1>8. PfTypes'
  BY <1>3, <1>4, <1>6, <1>7 DEF PfInv, PfTypes
<1>9. ProfileFits(p) /\ ~Busy(p)
  BY <1>6 DEF PfInv, Busy
<1>10. Meant(p, Answer(p, pfRow[p], pfStore))
  BY <1>9 DEF ProfileFits
<1>11. ProfileFits(p)'
  BY <1>6, <1>9, <1>10 DEF ProfileFits, Exists, Meant
<1>12. SecretFits(pfCmd)'
  BY <1>1, <1>2, <1>3, <1>5, <1>6, <1>10 DEF SecretFits, Meant, Named, Exists
<1>13. pfCmd' \notin ChangeCmds
  BY <1>3, <1>4 DEF ChangeCmds, SecretCmds
<1> QED  BY <1>3, <1>5, <1>6, <1>8, <1>11, <1>12, <1>13, OtherProfiles

\* What the steps of a save or a deletion start from.
LEMMA ChangeFacts ==
    ASSUME PfInv, pfCmd \in ChangeCmds
    PROVE  /\ pfCmd.p \in Profiles /\ pfCmd # NoCommand /\ pfCmd \notin SecretCmds
           /\ pfRow[pfCmd.p] \in ProfileRow \cup {NoProfile}
           /\ ChangeFits(pfCmd) /\ ProfileFits(pfCmd.p)
           /\ pfStore \in Keyring /\ pfCmd.deleted \in Keyring
           /\ pfCmd.name \in CredNames /\ pfCmd.generation \in Nat
BY CommandForms DEF PfInv, PfTypes, ChangeCmds

LEMMA SweepKeeps ==
    ASSUME PfInv, delete_secret_generations,
           NEW x \in ChangeCmds, pfCmd = x, NEW p \in Profiles, x.p = p,
           NEW rec, pfRow[p] = rec
    PROVE  PfInv'
<1>0. PICK key, cur : key = <<p, x.name, x.generation>> /\ cur = CurrentKey(p, rec)
  OBVIOUS
<1> DEFINE then == IF x.generation = x.last THEN "commit" ELSE "sweep"
           half == [x EXCEPT !.step = then]
           rest == [x EXCEPT !.step = then, !.generation = @ + 1]
<1>1. x \in ChangeCmds /\ x.step = "sweep"
  BY CommandForms DEF delete_secret_generations, PfAt, PfInv
<1>2. /\ p \in Profiles /\ x # NoCommand /\ ChangeFits(x) /\ ProfileFits(p)
      /\ pfStore \in Keyring /\ x.deleted \in Keyring
      /\ x.name \in CredNames /\ x.generation \in Nat
  BY <1>1, ChangeFacts
<1>3. key \in KeyringKeys
  BY <1>0, <1>2 DEF KeyringKeys
<1>4. Sweeps(x) /\ x.name = rec.name /\ Named(rec)
  BY <1>1, <1>2 DEF ChangeFits, Sweeps
<1>5. UNCHANGED <<pfRow, pfIntended, pfDamaged, pfSecret>>
  BY DEF delete_secret_generations
<1>6. then \in {"commit", "sweep"}
  OBVIOUS
<1>7. /\ rest \in ChangeCmds /\ rest.op = x.op /\ rest.p = p /\ rest.row = x.row
      /\ rest.name = x.name /\ rest.last = x.last /\ rest.deleted = x.deleted
      /\ rest.step \in {"commit", "sweep"} /\ rest.generation = x.generation + 1
  <2> HIDE DEF then
  <2>1. /\ half \in ChangeCmds /\ half.op = x.op /\ half.p = p /\ half.row = x.row
        /\ half.name = x.name /\ half.last = x.last /\ half.deleted = x.deleted
        /\ half.step \in {"commit", "sweep"} /\ half.generation = x.generation
    BY <1>1, <1>2, <1>6 DEF ChangeCmds
  <2>2. rest = [half EXCEPT !.generation = x.generation + 1]
    OBVIOUS
  <2> HIDE DEF half, rest
  <2> QED  BY <1>2, <2>1, <2>2 DEF ChangeCmds
<1>8. CASE /\ key \in DOMAIN pfStore
           /\ pfStore' = DropSecret(pfStore, key)
           /\ pfCmd' = [rest EXCEPT !.deleted = PutSecret(@, key, pfStore[key])]
  <2>0. key \in DOMAIN pfStore /\ pfStore' = DropSecret(pfStore, key)
    BY <1>8
  <2> DEFINE gone == PutSecret(x.deleted, key, pfStore[key])
  <2>1. /\ gone \in Keyring /\ DOMAIN gone = DOMAIN x.deleted \cup {key}
        /\ \A k : SecretAt(gone, k) = IF k = key THEN pfStore[key] ELSE SecretAt(x.deleted, k)
    <3>1. PICK v \in Nat : v = pfStore[key]
      BY <1>2, <2>0, KeyringValues
    <3>2. PICK d \in Keyring : d = x.deleted
      BY <1>2
    <3>3. gone = PutSecret(d, key, v)
      BY <3>1, <3>2
    <3>4. /\ PutSecret(d, key, v) \in Keyring
          /\ \A k : SecretAt(PutSecret(d, key, v), k) = IF k = key THEN v ELSE SecretAt(d, k)
          /\ DOMAIN PutSecret(d, key, v) = DOMAIN d \cup {key}
      BY <1>3, EntryPut
    <3> HIDE DEF gone
    <3> QED  BY <3>1, <3>2, <3>3, <3>4
  <2> HIDE DEF gone
  <2> DEFINE y == [rest EXCEPT !.deleted = gone]
  <2>2. /\ y \in ChangeCmds /\ y.op = x.op /\ y.p = p /\ y.row = x.row
        /\ y.name = x.name /\ y.last = x.last /\ y.deleted = gone
        /\ y.step \in {"commit", "sweep"} /\ y.generation = x.generation + 1
    <3> HIDE DEF rest
    <3> QED  BY <1>7, <2>1 DEF ChangeCmds
  <2>3. /\ pfStore' \in Keyring
        /\ \A k : SecretAt(pfStore', k) = IF k = key THEN 0 ELSE SecretAt(pfStore, k)
    BY <1>2, <2>0, EntryDropped
  <2>4. pfCmd' = y
    <3>1. rest.deleted = x.deleted
      BY <1>7
    <3> HIDE DEF rest
    <3> QED  BY <1>8, <3>1 DEF gone
  <2> HIDE DEF rest, y
  <2>5. PfTypes'
    BY <1>5, <2>2, <2>3, <2>4 DEF PfInv, PfTypes
  <2>6. pfCmd' # NoCommand /\ pfCmd' \notin SecretCmds
    BY <2>2, <2>4 DEF ChangeCmds, SecretCmds, NoCommand
  <2>7. Answer(p, rec, pfStore') = IF cur = key THEN 0 ELSE Answer(p, rec, pfStore)
    BY <1>0, <1>4, <2>3 DEF Answer
  <2>8. ProfileFits(p)'
    BY <1>0, <1>2, <1>5, <2>2, <2>3, <2>4, <2>6, <2>7 DEF ProfileFits, Busy, Exists
  <2>9. SecretAt(pfStore', <<p, x.name, 0>>) = 0
    BY <1>0, <1>1, <1>2, <1>4, <2>3 DEF ChangeFits
  <2>10. \A k \in DOMAIN gone : k[1] = p /\ k[2] = x.name /\ k[3] < x.generation + 1
    <3>1. \A k \in DOMAIN x.deleted : k[1] = p /\ k[2] = x.name /\ k[3] < x.generation /\ k[3] \in Nat
      BY <1>1, <1>2, <1>4, KeyringValues DEF ChangeFits, KeyringKeys
    <3> QED  BY <1>0, <1>2, <2>1, <3>1
  <2>11. Meant(p, IF cur \in DOMAIN gone THEN gone[cur] ELSE Answer(p, rec, pfStore'))
    <3>1. Meant(p, IF cur \in DOMAIN x.deleted THEN x.deleted[cur] ELSE Answer(p, rec, pfStore))
      BY <1>0, <1>2, <1>4 DEF ChangeFits
    <3>2. CASE cur = key
      <4>1. cur \notin DOMAIN x.deleted
        BY <1>0, <1>1, <1>2, <1>4, <3>2 DEF ChangeFits
      <4>2. gone[cur] = pfStore[cur] /\ Answer(p, rec, pfStore) = pfStore[cur]
        BY <1>0, <1>4, <2>0, <2>1, <3>2 DEF SecretAt, Answer
      <4> QED  BY <2>1, <3>1, <3>2, <4>1, <4>2
    <3>3. CASE cur # key
      <4>1. cur \in DOMAIN gone => gone[cur] = x.deleted[cur]
        BY <2>1, <3>3 DEF SecretAt
      <4> QED  BY <2>1, <2>7, <3>1, <3>3, <4>1
    <3> QED  BY <3>2, <3>3
  <2>12. ChangeFits(pfCmd)'
    BY <1>0, <1>2, <1>4, <1>5, <2>2, <2>4, <2>9, <2>10, <2>11 DEF ChangeFits, Sweeps, Exists, Meant
  <2>13. \A q \in Profiles : q # p => \A n, g : SecretAt(pfStore', <<q, n, g>>) = SecretAt(pfStore, <<q, n, g>>)
    BY <1>0, <2>3
  <2> QED  BY <1>2, <1>5, <2>2, <2>4, <2>5, <2>6, <2>8, <2>12, <2>13, OtherProfiles
<1>9. ASSUME key \notin DOMAIN pfStore, pfCmd' = rest, UNCHANGED pfStore
      PROVE  PfInv'
  <2> DEFINE y == rest
  <2> HIDE DEF y
  <2>2. /\ y \in ChangeCmds /\ y.op = x.op /\ y.p = p /\ y.row = x.row
        /\ y.name = x.name /\ y.last = x.last /\ y.deleted = x.deleted
        /\ y.step \in {"commit", "sweep"} /\ y.generation = x.generation + 1
    BY <1>7 DEF y
  <2>4. pfCmd' = y
    BY <1>9 DEF y
  <2> HIDE DEF rest
  <2>5. PfTypes'
    BY <1>5, <1>9, <2>2, <2>4 DEF PfInv, PfTypes
  <2>6. pfCmd' # NoCommand /\ pfCmd' \notin SecretCmds
    BY <2>2, <2>4 DEF ChangeCmds, SecretCmds, NoCommand
  <2>8. ProfileFits(p)'
    BY <1>2, <1>5, <1>9, <2>2, <2>4, <2>6 DEF ProfileFits, Busy, Exists
  <2>9. SecretAt(pfStore, <<p, x.name, 0>>) = 0
    BY <1>0, <1>1, <1>2, <1>4, <1>9 DEF ChangeFits, SecretAt
  <2>10. \A k \in DOMAIN x.deleted : k[1] = p /\ k[2] = x.name /\ k[3] < x.generation + 1
    <3>1. \A k \in DOMAIN x.deleted : k[1] = p /\ k[2] = x.name /\ k[3] < x.generation /\ k[3] \in Nat
      BY <1>1, <1>2, <1>4, KeyringValues DEF ChangeFits, KeyringKeys
    <3> QED  BY <1>2, <3>1
  <2>12. ChangeFits(pfCmd)'
    BY <1>2, <1>4, <1>5, <1>9, <2>2, <2>4, <2>9, <2>10 DEF ChangeFits, Sweeps, Exists, Meant
  <2> QED  BY <1>2, <1>5, <1>9, <2>2, <2>4, <2>5, <2>6, <2>8, <2>12, OtherProfiles
<1>10. CASE PfGoto("restore") /\ UNCHANGED pfStore
  <2> DEFINE y == [x EXCEPT !.step = "restore"]
  <2>2. /\ y \in ChangeCmds /\ y.op = x.op /\ y.p = p /\ y.row = x.row
        /\ y.name = x.name /\ y.last = x.last /\ y.deleted = x.deleted
        /\ y.step = "restore"
    BY <1>1 DEF ChangeCmds
  <2>4. pfCmd' = y
    BY <1>10 DEF PfGoto
  <2> HIDE DEF rest, y
  <2>5. PfTypes'
    BY <1>5, <1>10, <2>2, <2>4 DEF PfInv, PfTypes
  <2>6. pfCmd' # NoCommand /\ pfCmd' \notin SecretCmds
    BY <2>2, <2>4 DEF ChangeCmds, SecretCmds, NoCommand
  <2>8. ProfileFits(p)'
    BY <1>2, <1>5, <1>10, <2>2, <2>4, <2>6 DEF ProfileFits, Busy, Exists
  <2>12. ChangeFits(pfCmd)'
    BY <1>2, <1>4, <1>5, <1>10, <2>2, <2>4 DEF ChangeFits, Sweeps, Exists, Meant
  <2> QED  BY <1>2, <1>5, <1>10, <2>2, <2>4, <2>5, <2>6, <2>8, <2>12, OtherProfiles
<1> QED  BY <1>0, <1>8, <1>9, <1>10 DEF delete_secret_generations

LEMMA RestoreKeeps ==
    ASSUME PfInv, restore_deleted_generations,
           NEW x \in ChangeCmds, pfCmd = x, NEW p \in Profiles, x.p = p,
           NEW rec, pfRow[p] = rec
    PROVE  PfInv'
<1>0. PICK cur : cur = CurrentKey(p, rec)
  OBVIOUS
<1>1. x \in ChangeCmds /\ x.step = "restore"
  BY CommandForms DEF restore_deleted_generations, PfAt, PfInv
<1>2. /\ p \in Profiles /\ x # NoCommand /\ ChangeFits(x) /\ ProfileFits(p)
      /\ pfStore \in Keyring /\ x.deleted \in Keyring
      /\ x.name \in CredNames /\ x.generation \in Nat
  BY <1>1, ChangeFacts
<1>3. UNCHANGED <<pfRow, pfIntended, pfSecret>>
  BY DEF restore_deleted_generations
<1>4. Meant(p, IF Named(rec) /\ cur \in DOMAIN x.deleted THEN x.deleted[cur]
               ELSE Answer(p, rec, pfStore))
  BY <1>0, <1>2 DEF ChangeFits
<1>5. CASE x.deleted = <<>> /\ PfDone /\ UNCHANGED <<pfStore, pfDamaged>>
  <2>1. Meant(p, Answer(p, rec, pfStore))
    BY <1>4, <1>5, EmptyKeyring
  <2>2. PfTypes'
    BY <1>3, <1>5 DEF PfInv, PfTypes, PfDone
  <2>3. ProfileFits(p)'
    BY <1>2, <1>3, <1>5, <2>1 DEF ProfileFits, Exists, Meant
  <2> QED  BY <1>2, <1>3, <1>5, <2>2, <2>3, CommandForms, OtherProfiles DEF PfDone, PfInv
<1>6. ASSUME NEW key \in DOMAIN x.deleted, pfCmd' = [x EXCEPT !.deleted = DropSecret(@, key)],
             \/ pfStore' = PutSecret(pfStore, key, x.deleted[key]) /\ UNCHANGED pfDamaged
             \/ Damage(TRUE) /\ UNCHANGED pfStore
      PROVE  PfInv'
  <2> DEFINE left == DropSecret(x.deleted, key)
             y == [x EXCEPT !.deleted = left]
  <2>1. /\ left \in Keyring /\ DOMAIN left = DOMAIN x.deleted \ {key}
        /\ \A k \in DOMAIN x.deleted \ {key} : left[k] = x.deleted[k]
    BY <1>2, EntryDropped
  <2> HIDE DEF left
  <2>2. /\ y \in ChangeCmds /\ y.op = x.op /\ y.p = p /\ y.row = x.row
        /\ y.name = x.name /\ y.last = x.last /\ y.deleted = left
        /\ y.step = "restore"
    BY <1>1, <2>1 DEF ChangeCmds
  <2>3. pfCmd' = y
    BY <1>6 DEF left
  <2> HIDE DEF y
  <2>4. pfCmd' # NoCommand /\ pfCmd' \notin SecretCmds
    BY <2>2, <2>3 DEF ChangeCmds, SecretCmds, NoCommand
  <2>5. Sweeps(x) /\ Named(rec) /\ key[1] = p /\ key[2] = rec.name /\ x.name = rec.name
    BY <1>2 DEF ChangeFits, Sweeps
  <2>6. key \in KeyringKeys /\ x.deleted[key] \in Nat
    BY <1>2, KeyringValues
  <2>7. CASE pfStore' = PutSecret(pfStore, key, x.deleted[key]) /\ UNCHANGED pfDamaged
    <3>1. /\ pfStore' \in Keyring
          /\ \A k : SecretAt(pfStore', k) = IF k = key THEN x.deleted[key] ELSE SecretAt(pfStore, k)
      BY <1>2, <2>6, <2>7, StorePut
    <3>2. PfTypes'
      BY <1>3, <2>2, <2>3, <2>7, <3>1 DEF PfInv, PfTypes
    <3>3. Answer(p, rec, pfStore') = IF cur = key THEN x.deleted[cur] ELSE Answer(p, rec, pfStore)
      BY <1>0, <2>5, <3>1 DEF Answer
    <3>4. ProfileFits(p)'
      <4>1. Answer(p, rec, pfStore') \in {0, pfIntended[p]}
        BY <1>2, <1>4, <2>5, <3>3 DEF Meant, ProfileFits
      <4>2. \A n \in Credentials \ {NoName} : n # rec.name => SecretAt(pfStore', <<p, n, 0>>) = SecretAt(pfStore, <<p, n, 0>>)
        BY <2>5, <3>1
      <4> QED  BY <1>2, <1>3, <2>2, <2>3, <2>4, <2>5, <4>1, <4>2 DEF ProfileFits, Busy, Exists, Named
    <3>5. Meant(p, IF Named(rec) /\ cur \in DOMAIN left THEN left[cur] ELSE Answer(p, rec, pfStore'))
      BY <1>4, <2>1, <2>5, <3>3
    <3>6. ChangeFits(pfCmd)'
      BY <1>0, <1>2, <1>3, <2>1, <2>2, <2>3, <2>5, <2>7, <3>5 DEF ChangeFits, Sweeps, Exists, Meant
    <3>7. \A q \in Profiles : q # p => \A n, g : SecretAt(pfStore', <<q, n, g>>) = SecretAt(pfStore, <<q, n, g>>)
      BY <2>5, <3>1
    <3> QED  BY <1>2, <1>3, <2>2, <2>3, <2>4, <2>7, <3>2, <3>4, <3>6, <3>7, OtherProfiles
  <2>8. CASE Damage(TRUE) /\ UNCHANGED pfStore
    <3>1. pfDamaged' = pfDamaged \cup {p}
      BY <2>8 DEF Damage
    <3>2. PfTypes'
      BY <1>2, <1>3, <2>2, <2>3, <2>8, <3>1 DEF PfInv, PfTypes
    <3>4. ProfileFits(p)'
      BY <1>2, <1>3, <2>2, <2>3, <2>4, <2>8 DEF ProfileFits, Busy, Exists
    <3>5. (IF Named(rec) /\ cur \in DOMAIN left THEN left[cur] ELSE Answer(p, rec, pfStore)) \in {0, pfIntended[p]}
      BY <1>2, <1>4, <2>1 DEF Meant, ProfileFits
    <3>6. ChangeFits(pfCmd)'
      BY <1>0, <1>2, <1>3, <2>1, <2>2, <2>3, <2>5, <2>8, <3>1, <3>5 DEF ChangeFits, Sweeps, Exists, Meant
    <3> QED  BY <1>2, <1>3, <2>2, <2>3, <2>4, <2>8, <3>1, <3>2, <3>4, <3>6, OtherProfiles
  <2> QED  BY <1>6, <2>7, <2>8
<1> QED  BY <1>5, <1>6 DEF restore_deleted_generations

\* A transaction that fails leaves the rows, and the swept secrets go back.
LEMMA CommitFailsKeeps ==
    ASSUME PfInv, CommitFails, UNCHANGED <<pfStore, pfSecret>>,
           NEW x \in ChangeCmds, pfCmd = x, NEW p \in Profiles, x.p = p
    PROVE  PfInv'
<1>1. ChangeFits(x) /\ ProfileFits(p) /\ x # NoCommand
  BY ChangeFacts
<1>2. UNCHANGED <<pfRow, pfIntended, pfDamaged>>
  BY DEF CommitFails
<1> DEFINE y == [x EXCEPT !.step = "restore"]
<1>3. /\ y \in ChangeCmds /\ y.op = x.op /\ y.p = p /\ y.row = x.row
      /\ y.name = x.name /\ y.last = x.last /\ y.deleted = x.deleted
      /\ y.step = "restore"
  BY DEF ChangeCmds
<1>4. pfCmd' = y
  BY DEF CommitFails, PfGoto
<1> HIDE DEF y
<1>5. PfTypes'
  BY <1>2, <1>3, <1>4 DEF PfInv, PfTypes
<1>6. pfCmd' # NoCommand /\ pfCmd' \notin SecretCmds
  BY <1>3, <1>4 DEF ChangeCmds, SecretCmds, NoCommand
<1>7. ProfileFits(p)'
  BY <1>1, <1>2, <1>3, <1>4, <1>6 DEF ProfileFits, Busy, Exists
<1>8. ChangeFits(pfCmd)'
  BY <1>1, <1>2, <1>3, <1>4 DEF ChangeFits, Sweeps, Exists, Meant
<1> QED  BY <1>1, <1>2, <1>3, <1>4, <1>5, <1>6, <1>7, <1>8, OtherProfiles

LEMMA CommitSaveKeeps ==
    ASSUME PfInv, CommitSave,
           NEW x \in ChangeCmds, pfCmd = x, NEW p \in Profiles, x.p = p,
           NEW rec, pfRow[p] = rec
    PROVE  PfInv'
<1>1. /\ ChangeFits(x) /\ ProfileFits(p) /\ x # NoCommand /\ rec \in ProfileRow \cup {NoProfile}
      /\ x.op = "save" /\ x.step = "commit" /\ UNCHANGED <<pfStore, pfSecret>>
  BY ChangeFacts DEF CommitSave, PfAt
<1>2. CASE CommitFails
  BY <1>1, <1>2, CommitFailsKeeps
<1>3. ASSUME pfRow' = [pfRow EXCEPT ![p] = x.row],
             NEW renamed, renamed = (~Exists(p) \/ pfRow[p].name # x.row.name),
             pfIntended' = [pfIntended EXCEPT ![p] = IF renamed THEN 0 ELSE @],
             pfDamaged' = IF renamed THEN pfDamaged \ {p} ELSE pfDamaged,
             PfDone
      PROVE  PfInv'
  <2>1. /\ x.row \in ProfileRow /\ pfRow' = [pfRow EXCEPT ![p] = x.row] /\ pfRow'[p] = x.row
        /\ pfRow' \in [Profiles -> ProfileRow \cup {NoProfile}]
        /\ \A q \in Profiles : q # p => pfRow'[q] = pfRow[q]
    BY <1>1, <1>3 DEF ChangeFits, PfInv, PfTypes
  <2>2. /\ pfIntended' \in [Profiles -> Nat]
        /\ pfIntended'[p] = IF renamed THEN 0 ELSE pfIntended[p]
        /\ \A q \in Profiles : q # p => pfIntended'[q] = pfIntended[q]
    BY <1>3 DEF PfInv, PfTypes
  <2>3. /\ pfDamaged' \in SUBSET Profiles
        /\ \A q \in Profiles : q # p => (q \in pfDamaged' <=> q \in pfDamaged)
    BY <1>3 DEF PfInv, PfTypes
  <2>4. pfCmd' = NoCommand
    BY <1>3 DEF PfDone
  <2>5. PfTypes'
    BY <1>1, <2>1, <2>2, <2>3, <2>4 DEF PfInv, PfTypes
  <2>6. CASE renamed
    <3>1. x.row.generation = 0
      BY <1>1, <1>3, <2>6 DEF ChangeFits
    <3>2. ASSUME NEW n \in Credentials \ {NoName}
          PROVE  SecretAt(pfStore, <<p, n, 0>>) = 0
      <4>1. CASE Exists(p) /\ rec.name = n /\ n # x.row.name
        BY <1>1, <3>2, <4>1 DEF ChangeFits, Sweeps, Named, Exists
      <4>2. CASE Exists(p) => rec.name # n
        BY <1>1, <3>2, <4>2 DEF ProfileFits
      <4> QED  BY <1>3, <2>6, <4>1, <4>2
    <3>3. Answer(p, x.row, pfStore) = 0
      BY <2>1, <3>1, <3>2 DEF Answer, Named, CurrentKey, ProfileRow, CredNames
    <3>4. ProfileFits(p)'
      BY <1>1, <2>1, <2>2, <2>6, <3>2, <3>3 DEF ProfileFits, Meant
    <3> QED  BY <1>1, <2>1, <2>2, <2>3, <2>4, <2>5, <3>4, CommandForms, OtherProfiles DEF PfInv
  <2>7. CASE ~renamed
    <3>1. Exists(p) /\ rec.name = x.row.name /\ x.row.generation = rec.generation /\ rec # NoProfile
      BY <1>1, <1>3, <2>7 DEF ChangeFits, Exists
    <3>2. x.row # NoProfile
      BY <2>1 DEF ProfileRow, NoProfile
    <3>3. Answer(p, x.row, pfStore) = Answer(p, rec, pfStore)
      BY <3>1, <3>2 DEF Answer, Named, CurrentKey
    <3>4. Meant(p, Answer(p, rec, pfStore))
      <4>1. ~Sweeps(x)
        BY <1>1, <3>1 DEF Sweeps
      <4> QED  BY <1>1, <4>1 DEF ChangeFits
    <3>5. UNCHANGED pfDamaged
      BY <1>3, <2>7
    <3>6. ProfileFits(p)'
      BY <1>1, <2>1, <2>2, <2>7, <3>1, <3>2, <3>3, <3>4, <3>5 DEF ProfileFits, Meant, Exists
    <3> QED  BY <1>1, <2>1, <2>2, <2>3, <2>4, <2>5, <3>6, CommandForms, OtherProfiles DEF PfInv
  <2> QED  BY <2>6, <2>7
<1> QED  BY <1>2, <1>3 DEF CommitSave

LEMMA CommitDeleteKeeps ==
    ASSUME PfInv, CommitDelete,
           NEW x \in ChangeCmds, pfCmd = x, NEW p \in Profiles, x.p = p,
           NEW rec, pfRow[p] = rec
    PROVE  PfInv'
<1>1. /\ ChangeFits(x) /\ ProfileFits(p) /\ x # NoCommand /\ rec \in ProfileRow \cup {NoProfile}
      /\ x.op = "delete" /\ x.step = "commit" /\ UNCHANGED <<pfStore, pfSecret>>
  BY ChangeFacts DEF CommitDelete, PfAt
<1>2. CASE CommitFails
  BY <1>1, <1>2, CommitFailsKeeps
<1>3. ASSUME pfRow' = [pfRow EXCEPT ![p] = NoProfile],
             pfIntended' = [pfIntended EXCEPT ![p] = 0],
             pfDamaged' = pfDamaged \ {p},
             PfDone
      PROVE  PfInv'
  <2>1. /\ pfRow'[p] = NoProfile
        /\ pfRow' \in [Profiles -> ProfileRow \cup {NoProfile}]
        /\ \A q \in Profiles : q # p => pfRow'[q] = pfRow[q]
    BY <1>1, <1>3 DEF PfInv, PfTypes
  <2>2. /\ pfIntended' \in [Profiles -> Nat]
        /\ pfIntended'[p] = 0
        /\ \A q \in Profiles : q # p => pfIntended'[q] = pfIntended[q]
    BY <1>3 DEF PfInv, PfTypes
  <2>3. /\ pfDamaged' \in SUBSET Profiles
        /\ \A q \in Profiles : q # p => (q \in pfDamaged' <=> q \in pfDamaged)
    BY <1>3 DEF PfInv, PfTypes
  <2>4. pfCmd' = NoCommand
    BY <1>3 DEF PfDone
  <2>5. PfTypes'
    BY <1>1, <2>1, <2>2, <2>3, <2>4 DEF PfInv, PfTypes
  <2>6. ASSUME NEW n \in Credentials \ {NoName}
        PROVE  SecretAt(pfStore, <<p, n, 0>>) = 0
    <3>1. CASE Exists(p) /\ rec.name = n
      BY <1>1, <2>6, <3>1 DEF ChangeFits, Sweeps, Named, Exists
    <3>2. CASE Exists(p) => rec.name # n
      BY <1>1, <2>6, <3>2 DEF ProfileFits
    <3> QED  BY <3>1, <3>2
  <2>7. Answer(p, NoProfile, pfStore) = 0
    BY DEF Answer, Named
  <2>8. ProfileFits(p)'
    BY <1>1, <2>1, <2>2, <2>6, <2>7 DEF ProfileFits, Meant
  <2> QED  BY <1>1, <2>1, <2>2, <2>3, <2>4, <2>5, <2>8, CommandForms, OtherProfiles DEF PfInv
<1> QED  BY <1>2, <1>3 DEF CommitDelete

\* What the steps of storing or deleting a secret start from.
LEMMA SecretFacts ==
    ASSUME PfInv, NEW x \in SecretCmds, pfCmd = x, NEW p \in Profiles, x.p = p,
           NEW rec, pfRow[p] = rec
    PROVE  /\ x # NoCommand /\ rec \in ProfileRow
           /\ SecretFits(x) /\ ProfileFits(p) /\ pfStore \in Keyring
           /\ rec # NoProfile /\ Named(rec) /\ rec.generation \in Nat
           /\ current_ref = CurrentKey(p, rec) /\ current_ref \in KeyringKeys
           /\ next_ref = <<p, rec.name, rec.generation + 1>> /\ next_ref \in KeyringKeys
           /\ next_ref # current_ref
           /\ optional_secret(current_ref) = Answer(p, rec, pfStore)
           /\ Answer(p, rec, pfStore) \in Nat
<1>1. x # NoCommand /\ SecretFits(x) /\ ProfileFits(p) /\ pfStore \in Keyring
  BY CommandForms DEF PfInv, PfTypes
<1>2. Named(rec) /\ rec # NoProfile /\ x.name = rec.name /\ x.generation = rec.generation
  BY <1>1 DEF SecretFits, Named
<1>3. rec \in ProfileRow
  BY <1>2, RowIs, CommandForms DEF Exists, PfInv
<1>4. rec.generation \in Nat /\ rec.name \in CredNames
  BY <1>3 DEF ProfileRow
<1>5. current_ref = CurrentKey(p, rec) /\ next_ref = <<p, rec.name, rec.generation + 1>>
  BY <1>2 DEF current_ref, next_ref, CurrentKey
<1>6. current_ref \in KeyringKeys /\ next_ref \in KeyringKeys /\ next_ref # current_ref
  BY <1>4, <1>5 DEF KeyringKeys, CurrentKey
<1>7. optional_secret(current_ref) = Answer(p, rec, pfStore)
  BY <1>2, <1>5 DEF optional_secret, Answer, SecretAt
<1>8. Answer(p, rec, pfStore) \in Nat
  BY <1>1, <1>2, KeyringValues DEF Answer
<1> QED  BY <1>1, <1>2, <1>3, <1>4, <1>5, <1>6, <1>7, <1>8

\* A step that leaves the row of its profile and what is meant for it.
LEMMA SecretStep ==
    ASSUME PfInv, NEW x \in SecretCmds, pfCmd = x, NEW p \in Profiles, x.p = p,
           NEW rec, pfRow[p] = rec,
           UNCHANGED <<pfRow, pfIntended, pfSecret>>,
           pfDamaged' \in {pfDamaged, pfDamaged \cup {p}},
           pfStore' \in Keyring,
           \A k : k \notin {current_ref, next_ref} => SecretAt(pfStore', k) = SecretAt(pfStore, k),
           Answer(p, rec, pfStore') \in {0, pfIntended[p]},
           NEW y, pfCmd' = y,
           \/ /\ y = NoCommand
              /\ p \notin pfDamaged' => Answer(p, rec, pfStore') = pfIntended[p]
           \/ y \in SecretCmds /\ y.p = p /\ SecretFits(pfCmd)'
    PROVE  PfInv'
<1>1. /\ x # NoCommand /\ ProfileFits(p) /\ rec # NoProfile
      /\ current_ref = CurrentKey(p, rec) /\ next_ref = <<p, rec.name, rec.generation + 1>>
      /\ NoCommand \notin ChangeCmds \cup SecretCmds
  BY SecretFacts, CommandForms DEF PfInv
<1>2. PfTypes'
  BY DEF PfInv, PfTypes
<1>3. \A n \in Credentials \ {NoName} : n # rec.name =>
          SecretAt(pfStore', <<p, n, 0>>) = SecretAt(pfStore, <<p, n, 0>>)
  BY <1>1 DEF CurrentKey
<1>4. \A q \in Profiles : q # p => \A n, g : SecretAt(pfStore', <<q, n, g>>) = SecretAt(pfStore, <<q, n, g>>)
  BY <1>1 DEF CurrentKey
<1>5. ProfileFits(p)'
  BY <1>1, <1>3 DEF ProfileFits, Busy, Exists, Meant
<1>6. y \notin ChangeCmds
  BY <1>1 DEF ChangeCmds, SecretCmds
<1> QED  BY <1>1, <1>2, <1>4, <1>5, <1>6, OtherProfiles

LEMMA SetNextKeeps ==
    ASSUME PfInv, SetNext, NEW x \in SecretCmds, pfCmd = x, NEW p \in Profiles, x.p = p,
           NEW rec, pfRow[p] = rec
    PROVE  PfInv'
<1>1. PICK now : now = Answer(p, rec, pfStore)
  OBVIOUS
<1>2. /\ x # NoCommand /\ SecretFits(x) /\ ProfileFits(p) /\ pfStore \in Keyring
      /\ Named(rec) /\ rec.generation \in Nat /\ now \in Nat /\ x.op = "set" /\ x.step = "next"
      /\ current_ref = CurrentKey(p, rec) /\ next_ref = <<p, rec.name, rec.generation + 1>>
      /\ next_ref \in KeyringKeys /\ next_ref # current_ref /\ optional_secret(current_ref) = now
  BY <1>1, SecretFacts DEF SetNext, PfAt
<1>3. UNCHANGED <<pfRow, pfIntended, pfDamaged, pfSecret>>
  BY DEF SetNext
<1>4. Meant(p, now) /\ now \in {0, pfIntended[p]}
  BY <1>1, <1>2 DEF SecretFits, Meant
<1>5. ASSUME pfStore' = PutSecret(pfStore, next_ref, x.value),
             pfCmd' = [x EXCEPT !.step = "current", !.previous = now]
      PROVE  PfInv'
  <2> DEFINE y == [x EXCEPT !.step = "current", !.previous = now]
  <2>1. /\ y \in SecretCmds /\ y.op = x.op /\ y.p = p /\ y.name = x.name /\ y.value = x.value
        /\ y.generation = x.generation /\ y.step = "current" /\ y.previous = now
    BY <1>2 DEF SecretCmds, SecretSteps
  <2>0. pfCmd' = y
    BY <1>5
  <2> HIDE DEF y
  <2>2. /\ pfStore' \in Keyring
        /\ \A k : SecretAt(pfStore', k) = IF k = next_ref THEN x.value ELSE SecretAt(pfStore, k)
    <3>1. x.value \in Nat
      BY DEF SecretCmds
    <3> QED  BY <1>2, <1>5, <3>1, StorePut
  <2>3. Answer(p, rec, pfStore') = now
    BY <1>1, <1>2, <2>2 DEF Answer
  <2>4. SecretAt(pfStore', <<p, x.name, x.generation + 1>>) = x.value
    BY <1>2, <2>2 DEF SecretFits
  <2>5. SecretFits(pfCmd)'
    BY <1>2, <1>3, <1>4, <2>0, <2>1, <2>3, <2>4 DEF SecretFits, Meant
  <2> QED  BY <1>2, <1>3, <1>4, <2>0, <2>1, <2>2, <2>3, <2>5, SecretStep
<1>6. CASE PfDone /\ UNCHANGED pfStore
  BY <1>1, <1>2, <1>3, <1>4, <1>6, SecretStep DEF PfDone, Meant
<1> QED  BY <1>2, <1>5, <1>6 DEF SetNext

LEMMA DeleteNextKeeps ==
    ASSUME PfInv, DeleteNext, NEW x \in SecretCmds, pfCmd = x, NEW p \in Profiles, x.p = p,
           NEW rec, pfRow[p] = rec
    PROVE  PfInv'
<1>1. PICK now, stale : now = Answer(p, rec, pfStore) /\ stale = optional_secret(next_ref)
  OBVIOUS
<1>2. /\ x # NoCommand /\ SecretFits(x) /\ ProfileFits(p) /\ pfStore \in Keyring
      /\ Named(rec) /\ rec.generation \in Nat /\ now \in Nat /\ x.op = "delete_secret" /\ x.step = "next"
      /\ current_ref = CurrentKey(p, rec) /\ next_ref = <<p, rec.name, rec.generation + 1>>
      /\ next_ref \in KeyringKeys /\ next_ref # current_ref
  BY <1>1, SecretFacts DEF DeleteNext, PfAt
<1>3. UNCHANGED <<pfRow, pfIntended, pfDamaged, pfSecret>>
  BY DEF DeleteNext
<1>4. Meant(p, now) /\ now \in {0, pfIntended[p]}
  BY <1>1, <1>2 DEF SecretFits, Meant
<1>5. stale \in Nat
  <2>1. optional_secret(next_ref) = SecretAt(pfStore, next_ref)
    BY DEF optional_secret, SecretAt
  <2> QED  BY <1>1, <1>2, <2>1, KeyringValues
<1>6. ASSUME NEW step \in {"read", "undo_next"},
             pfCmd' = [x EXCEPT !.step = step, !.staleNext = stale],
             \/ step = "read" /\ pfStore' = DropSecret(pfStore, next_ref)
             \/ step = "undo_next" /\ UNCHANGED pfStore
      PROVE  PfInv'
  <2> DEFINE y == [x EXCEPT !.step = step, !.staleNext = stale]
  <2>1. /\ y \in SecretCmds /\ y.op = x.op /\ y.p = p /\ y.name = x.name /\ y.value = x.value
        /\ y.generation = x.generation /\ y.step = step /\ y.previous = x.previous
    BY <1>2, <1>5, <1>6 DEF SecretCmds, SecretSteps
  <2>2. pfCmd' = y
    BY <1>6
  <2> HIDE DEF y
  <2>3. /\ pfStore' \in Keyring
        /\ \A k : k # next_ref => SecretAt(pfStore', k) = SecretAt(pfStore, k)
        /\ step = "read" => SecretAt(pfStore', next_ref) = 0
    BY <1>2, <1>6, StoreDrop
  <2>4. Answer(p, rec, pfStore') = now
    BY <1>1, <1>2, <2>3 DEF Answer
  <2>5. SecretFits(pfCmd)'
    BY <1>2, <1>3, <1>4, <1>6, <2>1, <2>2, <2>3, <2>4 DEF SecretFits, Meant
  <2> QED  BY <1>2, <1>3, <1>4, <2>1, <2>2, <2>3, <2>4, <2>5, SecretStep
<1> QED
  <2>1. \/ pfStore' = DropSecret(pfStore, next_ref) /\ pfCmd' = [x EXCEPT !.step = "read", !.staleNext = stale]
        \/ UNCHANGED pfStore /\ pfCmd' = [x EXCEPT !.step = "undo_next", !.staleNext = stale]
    BY <1>1 DEF DeleteNext
  <2>2. CASE pfStore' = DropSecret(pfStore, next_ref) /\ pfCmd' = [x EXCEPT !.step = "read", !.staleNext = stale]
    BY <2>2, <1>6
  <2>3. CASE UNCHANGED pfStore /\ pfCmd' = [x EXCEPT !.step = "undo_next", !.staleNext = stale]
    BY <2>3, <1>6
  <2> QED  BY <2>1, <2>2, <2>3

LEMMA ReadCurrentKeeps ==
    ASSUME PfInv, ReadCurrent, NEW x \in SecretCmds, pfCmd = x, NEW p \in Profiles, x.p = p,
           NEW rec, pfRow[p] = rec
    PROVE  PfInv'
<1>1. PICK now : now = Answer(p, rec, pfStore)
  OBVIOUS
<1>2. /\ x # NoCommand /\ SecretFits(x) /\ ProfileFits(p) /\ pfStore \in Keyring
      /\ Named(rec) /\ now \in Nat /\ x.step = "read" /\ optional_secret(current_ref) = now
  BY <1>1, SecretFacts DEF ReadCurrent, PfAt
<1>3. UNCHANGED <<pfRow, pfStore, pfIntended, pfDamaged, pfSecret>>
  BY DEF ReadCurrent
<1>4. Meant(p, now) /\ now \in {0, pfIntended[p]}
  BY <1>1, <1>2 DEF SecretFits, Meant
<1>5. CASE pfCmd' = [x EXCEPT !.step = "current", !.previous = now]
  <2> DEFINE y == [x EXCEPT !.step = "current", !.previous = now]
  <2>1. /\ y \in SecretCmds /\ y.op = x.op /\ y.p = p /\ y.name = x.name /\ y.value = x.value
        /\ y.generation = x.generation /\ y.step = "current" /\ y.previous = now
    BY <1>2 DEF SecretCmds, SecretSteps
  <2>2. pfCmd' = y
    BY <1>5
  <2> HIDE DEF y
  <2>3. SecretFits(pfCmd)'
    BY <1>1, <1>2, <1>3, <1>4, <2>1, <2>2 DEF SecretFits, Meant
  <2> QED  BY <1>1, <1>2, <1>3, <1>4, <2>1, <2>2, <2>3, SecretStep
<1>6. CASE PfDone
  BY <1>1, <1>2, <1>3, <1>4, <1>6, SecretStep DEF PfDone, Meant
<1> QED  BY <1>2, <1>5, <1>6 DEF ReadCurrent

LEMMA DeleteCurrentKeeps ==
    ASSUME PfInv, DeleteCurrent, NEW x \in SecretCmds, pfCmd = x, NEW p \in Profiles, x.p = p,
           NEW rec, pfRow[p] = rec
    PROVE  PfInv'
<1>1. PICK now : now = Answer(p, rec, pfStore)
  OBVIOUS
<1>2. /\ x # NoCommand /\ SecretFits(x) /\ ProfileFits(p) /\ pfStore \in Keyring
      /\ Named(rec) /\ rec.generation \in Nat /\ now \in Nat /\ x.step = "current"
      /\ current_ref = CurrentKey(p, rec) /\ next_ref = <<p, rec.name, rec.generation + 1>>
      /\ next_ref # current_ref
  BY <1>1, SecretFacts DEF DeleteCurrent, PfAt
<1>3. UNCHANGED <<pfRow, pfIntended, pfDamaged, pfSecret>>
  BY DEF DeleteCurrent
<1>4. Meant(p, now) /\ now \in {0, pfIntended[p]} /\ x.previous = now
  BY <1>1, <1>2 DEF SecretFits, Meant
<1>5. ASSUME NEW step \in {"activate", "undo_next"}, PfGoto(step),
             \/ step = "activate" /\ pfStore' = DropSecret(pfStore, current_ref)
             \/ step = "undo_next" /\ UNCHANGED pfStore
      PROVE  PfInv'
  <2> DEFINE y == [x EXCEPT !.step = step]
  <2>1. /\ y \in SecretCmds /\ y.op = x.op /\ y.p = p /\ y.name = x.name /\ y.value = x.value
        /\ y.generation = x.generation /\ y.step = step /\ y.previous = x.previous
    BY <1>5 DEF SecretCmds, SecretSteps
  <2>2. pfCmd' = y
    BY <1>5 DEF PfGoto
  <2> HIDE DEF y
  <2>3. /\ pfStore' \in Keyring
        /\ \A k : k # current_ref => SecretAt(pfStore', k) = SecretAt(pfStore, k)
        /\ SecretAt(pfStore', current_ref) \in {0, SecretAt(pfStore, current_ref)}
    BY <1>2, <1>5, StoreDrop
  <2>4. Answer(p, rec, pfStore') \in {0, now}
    BY <1>1, <1>2, <2>3 DEF Answer
  <2>5. SecretAt(pfStore', <<p, x.name, x.generation + 1>>) = x.value
    BY <1>2, <2>3 DEF SecretFits
  <2>6. SecretFits(pfCmd)'
    BY <1>2, <1>3, <1>4, <1>5, <2>1, <2>2, <2>4, <2>5 DEF SecretFits, Meant
  <2> QED  BY <1>2, <1>3, <1>4, <2>1, <2>2, <2>3, <2>4, <2>6, SecretStep
<1> QED  BY <1>5 DEF DeleteCurrent

LEMMA ActivateKeeps ==
    ASSUME PfInv, activate_secret_generation, NEW x \in SecretCmds, pfCmd = x,
           NEW p \in Profiles, x.p = p, NEW rec, pfRow[p] = rec
    PROVE  PfInv'
<1>2. /\ x # NoCommand /\ SecretFits(x) /\ ProfileFits(p) /\ pfStore \in Keyring /\ rec \in ProfileRow
      /\ Named(rec) /\ rec # NoProfile /\ rec.generation \in Nat /\ x.step = "activate"
      /\ NoCommand \notin ChangeCmds \cup SecretCmds
  BY SecretFacts, CommandForms DEF activate_secret_generation, PfAt, PfInv
<1>3. UNCHANGED <<pfStore, pfSecret>>
  BY DEF activate_secret_generation
<1>4. ASSUME pfRow' = [pfRow EXCEPT ![p].generation = @ + 1],
             pfIntended' = [pfIntended EXCEPT ![p] = x.value],
             pfDamaged' = pfDamaged \ {p}, PfDone
      PROVE  PfInv'
  <2> DEFINE r == [rec EXCEPT !.generation = rec.generation + 1]
  <2>1. r \in ProfileRow /\ r.name = rec.name /\ r.generation = rec.generation + 1
    BY <1>2 DEF ProfileRow
  <2>2. pfRow' = [pfRow EXCEPT ![p] = r]
    BY <1>4
  <2> HIDE DEF r
  <2>3. /\ pfRow'[p] = r /\ pfRow' \in [Profiles -> ProfileRow \cup {NoProfile}]
        /\ \A q \in Profiles : q # p => pfRow'[q] = pfRow[q]
    BY <2>1, <2>2 DEF PfInv, PfTypes
  <2>4. /\ pfIntended' \in [Profiles -> Nat] /\ pfIntended'[p] = x.value
        /\ \A q \in Profiles : q # p => pfIntended'[q] = pfIntended[q]
    BY <1>4 DEF PfInv, PfTypes, SecretCmds
  <2>5. pfCmd' = NoCommand
    BY <1>4 DEF PfDone
  <2>6. PfTypes'
    BY <1>3, <1>4, <2>3, <2>4, <2>5 DEF PfInv, PfTypes
  <2>7. r # NoProfile
    BY <2>1 DEF ProfileRow, NoProfile
  <2>8. Answer(p, r, pfStore) = x.value
    BY <1>2, <2>1, <2>7 DEF Answer, Named, SecretFits, CurrentKey
  <2>9. ProfileFits(p)'
    BY <1>2, <1>3, <2>1, <2>3, <2>4, <2>7, <2>8 DEF ProfileFits, Meant, Exists
  <2> QED  BY <1>2, <1>3, <1>4, <2>3, <2>4, <2>5, <2>6, <2>9, OtherProfiles
<1>5. CASE PfGoto("undo_next") /\ UNCHANGED <<pfRow, pfIntended, pfDamaged>>
  <2> DEFINE y == [x EXCEPT !.step = "undo_next"]
  <2>1. /\ y \in SecretCmds /\ y.op = x.op /\ y.p = p /\ y.name = x.name /\ y.value = x.value
        /\ y.generation = x.generation /\ y.step = "undo_next" /\ y.previous = x.previous
    BY <1>5 DEF SecretCmds, SecretSteps
  <2>2. pfCmd' = y
    BY <1>5 DEF PfGoto
  <2> HIDE DEF y
  <2>3. SecretFits(pfCmd)'
    BY <1>2, <1>3, <1>5, <2>1, <2>2 DEF SecretFits, Meant
  <2>4. Answer(p, rec, pfStore) \in {0, pfIntended[p]}
    BY <1>2 DEF ProfileFits
  <2> QED  BY <1>2, <1>3, <1>5, <2>1, <2>2, <2>3, <2>4, SecretStep
<1> QED  BY <1>4, <1>5 DEF activate_secret_generation

LEMMA RollbackKeeps ==
    ASSUME PfInv, rollback_secret_transition, NEW x \in SecretCmds, pfCmd = x,
           NEW p \in Profiles, x.p = p, NEW rec, pfRow[p] = rec
    PROVE  PfInv'
<1>1. PICK now : now = Answer(p, rec, pfStore)
  OBVIOUS
<1>2. /\ x # NoCommand /\ SecretFits(x) /\ ProfileFits(p) /\ pfStore \in Keyring
      /\ Named(rec) /\ rec.generation \in Nat /\ now \in Nat
      /\ current_ref = CurrentKey(p, rec) /\ next_ref = <<p, rec.name, rec.generation + 1>>
      /\ next_ref # current_ref /\ next_ref \in KeyringKeys /\ current_ref \in KeyringKeys
  BY <1>1, SecretFacts
<1>3. UNCHANGED <<pfRow, pfIntended, pfSecret>>
  BY DEF rollback_secret_transition
<1>4. now \in {0, pfIntended[p]}
  BY <1>1, <1>2 DEF ProfileFits
<1>5. ASSUME NEW step \in {"undo_stale", "undo_current"}, PfGoto(step), UNCHANGED pfDamaged,
             \/ pfStore' = DropSecret(pfStore, next_ref)
             \/ pfStore' = PutSecret(pfStore, next_ref, x.staleNext)
             \/ UNCHANGED pfStore
      PROVE  PfInv'
  <2> DEFINE y == [x EXCEPT !.step = step]
  <2>1. /\ y \in SecretCmds /\ y.op = x.op /\ y.p = p /\ y.name = x.name /\ y.value = x.value
        /\ y.generation = x.generation /\ y.step = step /\ y.previous = x.previous
    BY <1>5 DEF SecretCmds, SecretSteps
  <2>2. pfCmd' = y
    BY <1>5 DEF PfGoto
  <2> HIDE DEF y
  <2>3. /\ pfStore' \in Keyring
        /\ \A k : k # next_ref => SecretAt(pfStore', k) = SecretAt(pfStore, k)
    <3>1. CASE pfStore' = DropSecret(pfStore, next_ref)
      BY <1>2, <3>1, StoreDrop
    <3>2. CASE pfStore' = PutSecret(pfStore, next_ref, x.staleNext)
      <4>1. x.staleNext \in Nat
        BY DEF SecretCmds
      <4> QED  BY <1>2, <3>2, <4>1, StorePut
    <3>3. CASE UNCHANGED pfStore
      BY <1>2, <3>3
    <3> QED  BY <1>5, <3>1, <3>2, <3>3
  <2>4. Answer(p, rec, pfStore') = now
    BY <1>1, <1>2, <2>3 DEF Answer
  <2>5. SecretFits(pfCmd)'
    BY <1>1, <1>2, <1>3, <1>5, <2>1, <2>2, <2>4 DEF SecretFits, Meant
  <2> QED  BY <1>2, <1>3, <1>4, <1>5, <2>1, <2>2, <2>3, <2>4, <2>5, SecretStep
<1>6. ASSUME PfDone,
             \/ x.previous = 0 /\ UNCHANGED <<pfStore, pfDamaged>>
             \/ /\ x.previous # 0 /\ pfStore' = PutSecret(pfStore, current_ref, x.previous)
                /\ UNCHANGED pfDamaged
             \/ x.previous # 0 /\ Damage(TRUE) /\ UNCHANGED pfStore
      PROVE  PfInv'
  <2>1. pfCmd' = NoCommand
    BY <1>6 DEF PfDone
  <2>2. CASE x.previous = 0 /\ UNCHANGED <<pfStore, pfDamaged>>
    <3>1. Meant(p, now)
      BY <1>1, <1>2, <2>2 DEF SecretFits
    <3> QED  BY <1>1, <1>2, <1>3, <2>1, <2>2, <3>1, SecretStep DEF Meant
  <2>3. CASE x.previous # 0 /\ pfStore' = PutSecret(pfStore, current_ref, x.previous) /\ UNCHANGED pfDamaged
    <3>1. Meant(p, x.previous)
      BY <1>2, <2>3 DEF SecretFits
    <3>2. /\ pfStore' \in Keyring
          /\ \A k : SecretAt(pfStore', k) = IF k = current_ref THEN x.previous ELSE SecretAt(pfStore, k)
      <4>1. x.previous \in Nat
        BY DEF SecretCmds
      <4> QED  BY <1>2, <2>3, <4>1, StorePut
    <3>3. Answer(p, rec, pfStore') = x.previous
      BY <1>2, <3>2 DEF Answer
    <3> QED  BY <1>2, <1>3, <2>1, <2>3, <3>1, <3>2, <3>3, SecretStep DEF Meant
  <2>4. CASE x.previous # 0 /\ Damage(TRUE) /\ UNCHANGED pfStore
    <3>1. pfDamaged' = pfDamaged \cup {p}
      BY <2>4 DEF Damage
    <3> QED  BY <1>1, <1>2, <1>3, <1>4, <2>1, <2>4, <3>1, SecretStep
  <2> QED  BY <1>6, <2>2, <2>3, <2>4
<1> QED  BY <1>5, <1>6 DEF rollback_secret_transition


LEMMA CrashKeeps ==
    ASSUME PfInv, PfCrash
    PROVE  PfInv'
<1>1. PICK p \in Profiles : pfCmd.p = p
  BY CommandForms DEF PfCrash, PfInv
<1>2. /\ pfDamaged' = pfDamaged \cup {p} /\ pfCmd' = NoCommand
      /\ UNCHANGED <<pfRow, pfStore, pfIntended, pfSecret>>
  BY <1>1 DEF PfCrash, Damage, PfDone
<1>3. PfTypes'
  BY <1>2 DEF PfInv, PfTypes
<1>4. ProfileFits(p)'
  BY <1>2 DEF PfInv, ProfileFits, Meant, Exists
<1> QED  BY <1>1, <1>2, <1>3, <1>4, CommandForms, OtherProfiles DEF PfInv

LEMMA DefaultKeeps ==
    ASSUME PfInv, UNCHANGED <<pfRow, pfStore, pfCmd, pfIntended, pfDamaged, pfSecret>>
    PROVE  PfInv'
BY DEF PfInv, PfTypes, ProfileFits, ChangeFits, SecretFits, Meant, Busy, Exists, Sweeps

LEMMA PfNextKeeps ==
    ASSUME PfInv, [PfNext]_pfVars
    PROVE  PfInv'
<1>1. CASE UNCHANGED pfVars \/ SetDefault
  BY <1>1, DefaultKeeps DEF pfVars, SetDefault
<1>2. CASE \E p \in Profiles : SaveProfile(p) \/ DeleteProfile(p)
                           \/ SecretBegin("set", p) \/ SecretBegin("delete_secret", p)
  BY <1>2, SaveBegins, DeleteBegins, SecretBegins
<1>3. CASE delete_secret_generations \/ restore_deleted_generations \/ CommitSave \/ CommitDelete
  <2>1. pfCmd \in ChangeCmds
    BY <1>3, CommandForms DEF delete_secret_generations, restore_deleted_generations, CommitSave, CommitDelete, PfAt, PfInv
  <2>2. PICK x \in ChangeCmds, p \in Profiles : pfCmd = x /\ x.p = p
    BY <2>1, ChangeFacts
  <2>3. PICK rec : pfRow[p] = rec
    OBVIOUS
  <2> QED  BY <1>3, <2>2, <2>3, SweepKeeps, RestoreKeeps, CommitSaveKeeps, CommitDeleteKeeps
<1>4. CASE SetNext \/ DeleteNext \/ ReadCurrent \/ DeleteCurrent \/ activate_secret_generation
           \/ rollback_secret_transition
  <2>1. pfCmd \in SecretCmds
    BY <1>4, CommandForms DEF SetNext, DeleteNext, ReadCurrent, DeleteCurrent,
          activate_secret_generation, rollback_secret_transition, PfAt, PfInv
  <2>2. PICK x \in SecretCmds, p \in Profiles : pfCmd = x /\ x.p = p
    BY <2>1 DEF SecretCmds
  <2>3. PICK rec : pfRow[p] = rec
    OBVIOUS
  <2> QED  BY <1>4, <2>2, <2>3, SetNextKeeps, DeleteNextKeeps, ReadCurrentKeeps, DeleteCurrentKeeps,
              ActivateKeeps, RollbackKeeps
<1>5. CASE PfCrash
  BY <1>5, CrashKeeps
<1> QED  BY <1>1, <1>2, <1>3, <1>4, <1>5 DEF PfNext

\* Over every command on profiles and secrets, every failing keyring call and
\* every end of the process, the rows, the keyring and what the command at work
\* has read or swept fit together: whatever entry can come into use next holds
\* the secret meant for it.
THEOREM ProfilesInvariant == PfSpec => []PfInv
<1>1. PfInit => PfInv
  <2> SUFFICES ASSUME PfInit PROVE PfInv
    OBVIOUS
  <2>1. PfTypes
    BY EmptyKeyring DEF PfInit, PfTypes
  <2>2. \A p \in Profiles : Answer(p, pfRow[p], pfStore) = 0 /\ pfIntended[p] = 0
    BY DEF PfInit, Answer, Named
  <2>3. \A k : SecretAt(pfStore, k) = 0
    BY EmptyKeyring DEF PfInit, SecretAt
  <2>4. \A p \in Profiles : ProfileFits(p)
    BY <2>2, <2>3 DEF ProfileFits, Meant
  <2>5. pfCmd \notin ChangeCmds \cup SecretCmds
    BY CommandForms, <2>1 DEF PfInit
  <2> QED  BY <2>1, <2>4, <2>5 DEF PfInv
<1>2. PfInv /\ [PfNext]_pfVars => PfInv'
  BY PfNextKeeps
<1> QED  BY <1>1, <1>2, PTL DEF PfSpec

\* The secret a profile answers with between commands is the one the user last
\* stored for it and has not deleted, or none after a rollback that failed or
\* was cut off (set_profile_secret, delete_profile_secret, save, delete).
THEOREM CredentialsAreIntended == PfSpec => []CredentialIsIntended
<1>1. PfInv => CredentialIsIntended
  BY AnswerIs DEF PfInv, ProfileFits, Busy, Meant, CredentialIsIntended
<1> QED  BY <1>1, ProfilesInvariant, PTL

=============================================================================
