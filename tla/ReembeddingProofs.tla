------------------------- MODULE ReembeddingProofs --------------------------
(***************************************************************************)
(* Proofs about Reembedding, for every set of memories, models, requests    *)
(* and loops: a migration that reaches `validating' or `committed' has      *)
(* embedded what it had to, and a forgotten memory stays forgotten.         *)
(***************************************************************************)
EXTENDS Reembedding, TLAPS

Started(g) == status[g] \notin {"unused", "starting"}

\* Migration g owes memory m nothing.
Done(g, m) == shred[m] = "no" /\ Embeddable(m) => emb[m][target[g]] # "none"

AllDone(g) == \A m \in before[g] : Done(g, m)

\* What the texts of a pass may be at each point of it.
PassTyped ==
    \A w \in Loops :
        /\ loop[w].pc = "keys" => loop[w].got \in [Memories -> Docs]
        /\ loop[w].pc = "write" => loop[w].got \in [Memories -> Contents]
        /\ loop[w].pc # "idle" => loop[w].mig \in Migrations /\ Started(loop[w].mig)

\* A memory that is not shredded still has its document and its key.
RowsIntact ==
    \A m \in Memories :
        /\ shred[m] # "no" => m \in rows /\ m \notin dek
        /\ storing[m].on => m \notin rows
        /\ shred[m] = "no" /\ (m \in rows \/ storing[m].on) => doc[m] = StoredDoc(m)

\* An administrator's pending write is about a migration in a state that
\* allows it to be pending, and each start has a migration of its own.
AdminsIntact ==
    \A a \in Admins :
        /\ admin[a].op # "idle" => admin[a].mig \in Migrations
        /\ admin[a].op = "start" => status[admin[a].mig] = "starting"
        /\ admin[a].op \in {"committed", "aborted"} => Started(admin[a].mig)
        /\ admin[a].op = "committed" => AllDone(admin[a].mig)
        /\ \A b \in Admins \ {a} :
              admin[a].op = "start" /\ admin[b].op = "start" => admin[a].mig # admin[b].mig

MigrationsIntact ==
    \A g \in Migrations :
        /\ ~ Started(g) => before[g] = {} /\ cursor[g] = 0
        /\ before[g] \subseteq rows
        /\ \A m \in before[g] : m <= cursor[g] => Done(g, m)
        /\ status[g] \in {"validating", "committed"} => AllDone(g)

\* A pass owes what lies between its first and its last row to its batch, and
\* has the text of what can be read.
Covers(p) ==
    /\ p.pc \in {"nodes", "finish"} => AllDone(p.mig)
    /\ p.batch \subseteq rows
    /\ p.pc \in {"docs", "keys", "write"} =>
          \A m \in before[p.mig] : m <= p.last => Done(p.mig, m) \/ m \in p.batch
    /\ p.pc = "keys" => \A m \in p.batch : shred[m] = "no" => p.got[m] = StoredDoc(m)
    /\ p.pc = "write" =>
          \A m \in p.batch : shred[m] = "no" /\ Embeddable(m) => p.got[m] # "none"

PassCovers == \A w \in Loops : Covers(loop[w])

IInv == TypeOK /\ PassTyped /\ RowsIntact /\ AdminsIntact /\ MigrationsIntact /\ PassCovers

-----------------------------------------------------------------------------
\* The type invariant.

USE VectorsAssumption, MigrationAssumption, SweepAssumption

LEMMA Numbers ==
    /\ Memories \subseteq Nat
    /\ MigrationTypeOK => \A g \in Migrations : cursor[g] \in Nat
<1>1. Memories \subseteq Nat
  BY VectorsAssumption
<1>2. ASSUME MigrationTypeOK, NEW g \in Migrations
      PROVE  cursor[g] \in Nat
  <2>1. cursor[g] \in {0} \cup Memories
    BY <1>2 DEF MigrationTypeOK
  <2>2. CASE cursor[g] = 0
    BY <2>2
  <2>3. CASE cursor[g] \in Memories
    BY <1>1, <2>3
  <2> QED
    BY <2>1, <2>2, <2>3
<1> QED
  BY <1>1, <1>2

LEMMA DecryptType == \A m, d, key : Decrypt(m, d, key) \in Contents
BY DEF Decrypt, Contents

\* Without a key only a plaintext document gives the text.
LEMMA NoKeyNoText == \A m, d : d \in Docs \ {"plain"} => Decrypt(m, d, FALSE) # "plain"
BY DEF Decrypt, Docs

LEMMA TextOfType == \A m : TextOf(m) \in Contents /\ FallbackText(m) \in Contents
BY DecryptType DEF TextOf, FallbackText, Contents

\* A pass that a loop may be in.
Okay(p) ==
    /\ p.pc = "keys" => p.got \in [Memories -> Docs]
    /\ p.pc = "write" => p.got \in [Memories -> Contents]
    /\ p.pc # "idle" => p.mig \in Migrations /\ Started(p.mig)

LEMMA NoTextType == NoText \in [Memories -> Contents \cup Docs]
BY DEF NoText, Contents

LEMMA PassType ==
    ASSUME NEW pc \in {"idle", "docs", "keys", "write", "nodes", "finish"},
           NEW g \in Migrations, NEW last \in {0} \cup Memories, NEW batch \in SUBSET Memories
    PROVE  Pass(pc, g, last, batch) \in LoopPass
<1>1. g \in 0..MaxMigrations
  BY DEF Migrations
<1> QED
  BY <1>1, NoTextType DEF Pass, LoopPass

LEMMA IdleOkay == IdleLoop \in LoopPass /\ Okay(IdleLoop)
<1>1. 0 \in 0..MaxMigrations
  OBVIOUS
<1> QED
  BY <1>1, NoTextType DEF IdleLoop, Pass, LoopPass, Okay

LEMMA TypeInit == Init => TypeOK /\ PassTyped
<1> SUFFICES ASSUME Init PROVE TypeOK /\ PassTyped
  OBVIOUS
<1> USE DEF Init, VectorsInit, MigrationInit, ShreddingInit
<1>1. VectorsTypeOK
  BY DEF VectorsTypeOK, Docs, Contents, StoredDoc
<1>2. MigrationTypeOK
  BY IdleOkay DEF MigrationTypeOK, IdleAdmin, NotStoring, Migrations
<1>3. SweepTypeOK
  BY DEF SweepTypeOK, IdleSweep, Contents
<1>4. PassTyped
  BY DEF PassTyped, IdleLoop, Pass
<1> QED
  BY <1>1, <1>2, <1>3, <1>4 DEF TypeOK

LEMMA AdminType ==
    ASSUME MigrationTypeOK, PassTyped, AdminNext, rows \subseteq Memories,
           \A a \in Admins : admin[a].op # "idle" => admin[a].mig \in Migrations
    PROVE  MigrationTypeOK' /\ PassTyped'
<1> DEFINE Goal == MigrationTypeOK' /\ PassTyped'
<1>1. ASSUME NEW a \in Admins, NEW g \in Migrations, NEW k \in Models, StartCheck(a, g, k)
      PROVE  Goal
  BY <1>1 DEF StartCheck, MigrationTypeOK, LoopPass, IdleAdmin, PassTyped, Started, Live, Migrations
<1>2. ASSUME NEW a \in Admins, NEW g \in Migrations, NEW to \in {"committed", "aborted"},
             StatusCheck(a, g, to)
      PROVE  Goal
  BY <1>2 DEF StatusCheck, MigrationTypeOK, LoopPass, IdleAdmin, PassTyped, Started, Migrations
<1>3. ASSUME NEW a \in Admins, StartCommit(a)
      PROVE  Goal
  BY <1>3 DEF StartCommit, MigrationTypeOK, LoopPass, IdleAdmin, PassTyped, Started, Migrations
<1>4. ASSUME NEW a \in Admins, CommitWrite(a)
      PROVE  Goal
  BY <1>4 DEF CommitWrite, MigrationTypeOK, LoopPass, IdleAdmin, PassTyped, Started, Migrations
<1>5. ASSUME NEW a \in Admins, AbortWrite(a)
      PROVE  Goal
  BY <1>5 DEF AbortWrite, MigrationTypeOK, LoopPass, IdleAdmin, PassTyped, Started, Migrations
<1> HIDE DEF Goal
<1>6. Goal
  BY <1>1, <1>2, <1>3, <1>4, <1>5 DEF AdminNext
<1> QED
  BY <1>6 DEF Goal

\* One step of a loop, its faults included.
LoopAct(w) == LoopStep(w) \/ ((KeysFail(w) \/ LoopFails(w)) /\ UNCHANGED vectorVars)

LEMMA MoveType ==
    ASSUME MigrationTypeOK, PassTyped, NEW w \in Loops, NEW p \in LoopPass, Okay(p), Move(w, p),
           \A g \in Migrations : Started(g) => Started(g)'
    PROVE  loop' \in [Loops -> LoopPass] /\ PassTyped'
<1>1. loop' \in [Loops -> LoopPass]
  BY DEF MigrationTypeOK, Move
<1>2. ASSUME NEW v \in Loops
      PROVE  (/\ loop[v].pc = "keys" => loop[v].got \in [Memories -> Docs]
              /\ loop[v].pc = "write" => loop[v].got \in [Memories -> Contents]
              /\ loop[v].pc # "idle" => loop[v].mig \in Migrations /\ Started(loop[v].mig))'
  <2>1. loop'[v] = IF v = w THEN p ELSE loop[v]
    BY DEF MigrationTypeOK, Move
  <2>2. /\ loop'[v].pc = "keys" => loop'[v].got \in [Memories -> Docs]
        /\ loop'[v].pc = "write" => loop'[v].got \in [Memories -> Contents]
        /\ loop'[v].pc # "idle" => loop'[v].mig \in Migrations /\ Started(loop'[v].mig)
    BY <2>1 DEF PassTyped, Okay
  <2> QED
    BY <2>2 DEF Started
<1> QED
  BY <1>1, <1>2 DEF PassTyped

LEMMA LoopType ==
    ASSUME VectorsTypeOK, MigrationTypeOK, PassTyped, NEW w \in Loops, LoopAct(w)
    PROVE  VectorsTypeOK' /\ MigrationTypeOK' /\ PassTyped'
<1> DEFINE Goal == MigrationTypeOK' /\ PassTyped'
<1>1. ASSUME NEW g \in Migrations, PickBatch(w, g)
      PROVE  Goal
  <2>1. PICK last \in Left(g) :
           Move(w, Pass("docs", g, last, UpTo(Left(g), last)))
    BY <1>1 DEF PickBatch
  <2> DEFINE p == Pass("docs", g, last, UpTo(Left(g), last))
  <2>2. last \in Memories /\ UpTo(Left(g), last) \subseteq Memories
    BY DEF Left, UpTo, VectorsTypeOK
  <2>3. p \in LoopPass
    BY <2>2, PassType
  <2>4. Okay(p)
    BY <1>1 DEF Pass, Okay, PickBatch, Picks, Started
  <2> HIDE DEF p
  <2>5. \A h \in Migrations : Started(h) => Started(h)'
    BY <1>1 DEF PickBatch, Started, control
  <2>6. loop' \in [Loops -> LoopPass] /\ PassTyped'
    BY <2>1, <2>3, <2>4, <2>5, MoveType DEF p
  <2> QED
    BY <1>1, <2>6 DEF PickBatch, MigrationTypeOK, control
<1>2. ASSUME NEW g \in Migrations, PickNodes(w, g)
      PROVE  Goal
  <2> DEFINE p == Pass(IF nodesDone[g] THEN "finish" ELSE "nodes", g, 0, {})
  <2>1. p \in LoopPass /\ Okay(p)
    <3>1. p \in LoopPass
      BY PassType
    <3> QED
      BY <1>2, <3>1 DEF PickNodes, Picks, Started, Okay, Pass
  <2>2. Move(w, p) /\ \A h \in Migrations : Started(h) => Started(h)'
    BY <1>2 DEF PickNodes, Started, control
  <2> HIDE DEF p
  <2>3. loop' \in [Loops -> LoopPass] /\ PassTyped'
    BY <2>1, <2>2, MoveType DEF Okay
  <2> QED
    BY <1>2, <2>3 DEF PickNodes, MigrationTypeOK, control
<1>0. loop[w] \in LoopPass /\ (loop[w].pc # "idle" => loop[w].mig \in Migrations /\ Started(loop[w].mig))
  BY DEF MigrationTypeOK, PassTyped
<1>3. ASSUME ReadDocs(w)
      PROVE  Goal
  <2> DEFINE p == [loop[w] EXCEPT !.pc = "keys",
               !.got = [m \in Memories |-> IF m \in loop[w].batch THEN doc[m] ELSE "none"]]
  <2>1. p \in LoopPass /\ Okay(p)
    BY <1>0, <1>3 DEF ReadDocs, LoopPass, Okay, VectorsTypeOK, Docs
  <2>2. Move(w, p) /\ \A h \in Migrations : Started(h) => Started(h)'
    BY <1>3 DEF ReadDocs, Started, control
  <2> HIDE DEF p
  <2>3. loop' \in [Loops -> LoopPass] /\ PassTyped'
    BY <2>1, <2>2, MoveType DEF Okay
  <2> QED
    BY <1>3, <2>3 DEF ReadDocs, MigrationTypeOK, control
<1>4. ASSUME ReadKeys(w)
      PROVE  Goal
  <2> DEFINE text == [m \in Memories |-> Decrypt(m, loop[w].got[m], m \in dek)]
             p == [loop[w] EXCEPT !.pc = "write", !.got = text]
  <2>1. text \in [Memories -> Contents]
    BY DecryptType
  <2>2. Move(w, p) /\ \A h \in Migrations : Started(h) => Started(h)'
    BY <1>4 DEF ReadKeys, TextsWith, Started, control
  <2> HIDE DEF text
  <2>3. p \in LoopPass /\ Okay(p)
    BY <1>0, <1>4, <2>1 DEF ReadKeys, LoopPass, Okay
  <2> HIDE DEF p
  <2>4. loop' \in [Loops -> LoopPass] /\ PassTyped'
    BY <2>2, <2>3, MoveType
  <2> QED
    BY <1>4, <2>4 DEF ReadKeys, MigrationTypeOK, control
<1>5. ASSUME KeysFail(w)
      PROVE  Goal
  <2> DEFINE text == [m \in Memories |-> Decrypt(m, loop[w].got[m], m \in {})]
             p == [loop[w] EXCEPT !.pc = "write", !.got = text]
  <2>1. text \in [Memories -> Contents]
    BY DecryptType
  <2>2. Move(w, p) /\ \A h \in Migrations : Started(h) => Started(h)'
    BY <1>5 DEF KeysFail, TextsWith, Started, control
  <2> HIDE DEF text
  <2>3. p \in LoopPass /\ Okay(p)
    BY <1>0, <1>5, <2>1 DEF KeysFail, LoopPass, Okay
  <2> HIDE DEF p
  <2>4. loop' \in [Loops -> LoopPass] /\ PassTyped'
    BY <2>2, <2>3, MoveType
  <2> QED
    BY <1>5, <2>4 DEF KeysFail, LoopFault, MigrationTypeOK, control
<1>6. ASSUME WriteBatch(w)
      PROVE  Goal
  <2>1. Move(w, IdleLoop) /\ \A h \in Migrations : Started(h) => Started(h)'
    BY <1>6, <1>0 DEF WriteBatch, Started, control
  <2>2. loop' \in [Loops -> LoopPass] /\ PassTyped'
    BY <2>1, IdleOkay, MoveType
  <2> QED
    BY <1>6, <1>0, <2>2 DEF WriteBatch, MigrationTypeOK, control, LoopPass
<1>7. ASSUME WriteNodes(w)
      PROVE  Goal
  <2>1. Move(w, IdleLoop) /\ \A h \in Migrations : Started(h) => Started(h)'
    BY <1>7, <1>0 DEF WriteNodes, Started, control
  <2>2. loop' \in [Loops -> LoopPass] /\ PassTyped'
    BY <2>1, IdleOkay, MoveType
  <2> QED
    BY <1>7, <1>0, <2>2 DEF WriteNodes, MigrationTypeOK, control
<1>8. ASSUME MarkValidating(w)
      PROVE  Goal
  <2>1. Move(w, IdleLoop) /\ \A h \in Migrations : Started(h) => Started(h)'
    BY <1>8, <1>0 DEF MarkValidating, Started, control, MigrationTypeOK
  <2>2. loop' \in [Loops -> LoopPass] /\ PassTyped'
    BY <2>1, IdleOkay, MoveType
  <2> QED
    BY <1>8, <1>0, <2>2 DEF MarkValidating, MigrationTypeOK, control
<1>9. ASSUME LoopFails(w)
      PROVE  Goal
  <2>1. Move(w, IdleLoop) /\ \A h \in Migrations : Started(h) => Started(h)'
    BY <1>9, <1>0 DEF LoopFails, Started, control
  <2>2. loop' \in [Loops -> LoopPass] /\ PassTyped'
    BY <2>1, IdleOkay, MoveType
  <2> QED
    BY <1>9, <1>0, <2>2 DEF LoopFails, MigrationTypeOK, control, LoopFault
<1> HIDE DEF Goal
<1>10. CASE WriteBatch(w) /\ UNCHANGED <<rows, doc, dek, vec, stamped, shred>>
  <2>1. emb' \in [Memories -> [Models -> Contents]]
    BY <1>10 DEF WriteBatch, VectorsTypeOK, PassTyped
  <2> QED
    BY <1>6, <1>10, <2>1 DEF VectorsTypeOK, Goal
<1>11. CASE ~ WriteBatch(w) /\ UNCHANGED vectorVars
  <2>1. VectorsTypeOK'
    BY <1>11 DEF VectorsTypeOK, vectorVars
  <2>2. Goal
    BY <1>1, <1>2, <1>3, <1>4, <1>5, <1>7, <1>8, <1>9, <1>11 DEF LoopAct, LoopStep
  <2> QED
    BY <2>1, <2>2 DEF Goal
<1>12. WriteBatch(w) => UNCHANGED <<rows, doc, dek, vec, stamped, shred>>
  BY DEF LoopAct, LoopStep, vectorVars
<1>13. ~ WriteBatch(w) => UNCHANGED vectorVars
  BY DEF LoopAct, LoopStep
<1> QED
  BY <1>10, <1>11, <1>12, <1>13

LEMMA StoreType ==
    ASSUME VectorsTypeOK, MigrationTypeOK, PassTyped, NEW m \in Memories,
           StoreBegin(m) \/ StoreCommit(m)
    PROVE  VectorsTypeOK' /\ MigrationTypeOK' /\ PassTyped'
<1>1. CASE StoreBegin(m)
  BY <1>1 DEF StoreBegin, StoredDoc, VectorsTypeOK, MigrationTypeOK, LoopPass, PassTyped, Started, Migrations, control, Move, Contents, Docs
<1>2. CASE StoreCommit(m)
  BY <1>2 DEF StoreCommit, NotStoring, VectorsTypeOK, MigrationTypeOK, LoopPass, PassTyped, Started, Migrations, control, Move, Contents, Docs
<1> QED
  BY <1>1, <1>2

LEMMA SweepType ==
    ASSUME VectorsTypeOK, SweepTypeOK, ShreddingNext
    PROVE  VectorsTypeOK' /\ SweepTypeOK'
<1> DEFINE Goal == VectorsTypeOK' /\ SweepTypeOK'
<1> USE DEF VectorsTypeOK, SweepTypeOK, vectorVars, sweepVars, Contents, Docs
<1>1. ASSUME NEW m \in Memories, ShredCommit(m)
      PROVE  Goal
  BY <1>1 DEF ShredCommit
<1>2. ASSUME NEW m \in Memories, Tombstone(m)
      PROVE  Goal
  BY <1>2 DEF Tombstone
<1>3. ASSUME FetchStale
      PROVE  Goal
  <2> DEFINE left == {m \in Stale : m > sweep.cursor}
  <2>1. left \subseteq Memories /\ \A last : UpTo(left, last) \subseteq Memories
    BY DEF Stale, UpTo
  <2>2. CASE sweep' = IdleSweep
    BY <1>3, <2>2 DEF FetchStale, IdleSweep
  <2>3. ASSUME NEW last \in left,
               sweep' = [sweep EXCEPT !.pc = "keys", !.last = last, !.batch = UpTo(left, last)]
        PROVE  Goal
    <3> HIDE DEF left
    <3> QED
      BY <1>3, <2>1, <2>3 DEF FetchStale
  <2> QED
    BY <1>3, <2>2, <2>3 DEF FetchStale
<1>4. ASSUME FetchKeys
      PROVE  Goal
  <2>1. dek \cap sweep.batch \subseteq Memories
    OBVIOUS
  <2>2. PICK keys \in SUBSET Memories : sweep' = [sweep EXCEPT !.pc = "docs", !.keys = keys]
    <3>1. CASE sweep' = [sweep EXCEPT !.pc = "docs", !.keys = dek \cap sweep.batch]
      BY <2>1, <3>1
    <3>2. CASE sweep' = [sweep EXCEPT !.pc = "docs", !.keys = {}]
      BY <3>2
    <3> QED
      BY <1>4, <3>1, <3>2 DEF FetchKeys
  <2>3. sweepFaults' \in 0..MaxSweepFaults
    BY <1>4 DEF FetchKeys, SweepFault
  <2>4. SweepTypeOK'
    BY <2>2, <2>3
  <2> QED
    BY <1>4, <2>4 DEF FetchKeys
<1>5. ASSUME ResolveTexts
      PROVE  Goal
  <2>1. PICK lost : Resolved(lost)
    BY <1>5 DEF ResolveTexts
  <2> DEFINE text == [m \in Memories |-> IF m \notin sweep.batch THEN "none"
                                   ELSE IF m \in lost THEN FallbackText(m) ELSE TextOf(m)]
  <2>2. text \in [Memories -> Contents]
    BY TextOfType
  <2>3. sweep' = [sweep EXCEPT !.pc = "write", !.keys = {}, !.got = text]
    BY <2>1 DEF Resolved
  <2>4. sweepFaults' \in 0..MaxSweepFaults
    BY <1>5 DEF ResolveTexts, SweepFault
  <2> HIDE DEF text
  <2> QED
    BY <1>5, <2>2, <2>3, <2>4 DEF ResolveTexts
<1>6. ASSUME UpdateBatch
      PROVE  Goal
  BY <1>6 DEF UpdateBatch, IdleSweep
<1>7. ASSUME SweepFails
      PROVE  Goal
  BY <1>7 DEF SweepFails, SweepFault, IdleSweep
<1> HIDE DEF Goal, VectorsTypeOK, SweepTypeOK
<1>8. Goal
  BY <1>1, <1>2, <1>3, <1>4, <1>5, <1>6, <1>7 DEF ShreddingNext, SweepStep
<1> QED
  BY <1>8 DEF Goal

-----------------------------------------------------------------------------
\* The rest of the inductive invariant.

Intact == RowsIntact /\ AdminsIntact /\ MigrationsIntact /\ PassCovers

LEMMA IntactInit == Init => Intact
<1> SUFFICES ASSUME Init PROVE Intact
  OBVIOUS
<1> USE DEF Init, VectorsInit, MigrationInit
<1>1. RowsIntact
  BY DEF RowsIntact, NotStoring
<1>2. AdminsIntact
  BY DEF AdminsIntact, IdleAdmin
<1>3. MigrationsIntact
  BY DEF MigrationsIntact, Started, AllDone
<1>4. PassCovers
  BY DEF PassCovers, Covers, IdleLoop, Pass
<1> QED
  BY <1>1, <1>2, <1>3, <1>4 DEF Intact

LEMMA AdminIntact ==
    ASSUME IInv, AdminNext
    PROVE  Intact'
<1> USE DEF IInv, TypeOK
<1>0. UNCHANGED vectorVars
  BY DEF AdminNext
<1>a. RowsIntact'
  <2>1. UNCHANGED storing
    BY DEF AdminNext, StartCheck, StatusCheck, StartCommit, CommitWrite, AbortWrite
  <2> QED
    BY <1>0, <2>1 DEF RowsIntact, vectorVars
<1>1. ASSUME NEW a \in Admins, NEW g \in Migrations, NEW k \in Models, StartCheck(a, g, k)
      PROVE  Intact'
  <2> USE <1>0, <1>1 DEF StartCheck, vectorVars, MigrationTypeOK
  <2>1. \A h \in Migrations : /\ h # g => status'[h] = status[h] /\ target'[h] = target[h]
                             /\ before'[h] = before[h] /\ (Started(h)' <=> Started(h))
    BY DEF Started
  <2>2. before[g] = {} /\ cursor[g] = 0
    BY DEF MigrationsIntact, Started
  <2>3. \A h \in Migrations : AllDone(h) => AllDone(h)'
    BY <2>1, <2>2 DEF AllDone, Done
  <2>4. AdminsIntact'
    BY <2>1, <2>3 DEF AdminsIntact, Started
  <2>5. MigrationsIntact'
    BY <2>1, <2>2, <2>3 DEF MigrationsIntact, Started, Done
  <2>6. PassCovers'
    BY <2>1, <2>2, <2>3 DEF PassCovers, Covers, PassTyped, Done
  <2> QED
    BY <1>a, <2>4, <2>5, <2>6 DEF Intact
<1>2. ASSUME NEW a \in Admins, NEW g \in Migrations, NEW to \in {"committed", "aborted"},
             StatusCheck(a, g, to)
      PROVE  Intact'
  <2> USE <1>0, <1>2 DEF StatusCheck, vectorVars, MigrationTypeOK
  <2>1. Started(g) /\ (to = "committed" => AllDone(g))
    BY DEF Live, ValidTransitions, Started, MigrationsIntact
  <2>2. AdminsIntact'
    BY <2>1 DEF AdminsIntact, Started, AllDone, Done
  <2>3. MigrationsIntact' /\ PassCovers'
    BY DEF MigrationsIntact, PassCovers, Covers, Started, AllDone, Done
  <2> QED
    BY <1>a, <2>2, <2>3 DEF Intact
<1>3. ASSUME NEW a \in Admins, StartCommit(a)
      PROVE  Intact'
  <2> DEFINE g == admin[a].mig
  <2> USE <1>0, <1>3 DEF StartCommit, vectorVars, MigrationTypeOK, VectorsTypeOK
  <2>1. g \in Migrations /\ status[g] = "starting" /\ cursor[g] = 0
    BY DEF AdminsIntact, MigrationsIntact, Started
  <2>2. \A h \in Migrations : h # g => status'[h] = status[h] /\ before'[h] = before[h]
    BY <2>1
  <2>3. \A h \in Migrations : Started(h) => h # g /\ Started(h)' /\ (AllDone(h) => AllDone(h)')
    BY <2>1, <2>2 DEF Started, AllDone, Done
  <2>4. AdminsIntact'
    BY <2>1, <2>2, <2>3 DEF AdminsIntact, IdleAdmin
  <2>5. MigrationsIntact'
    BY <2>1, <2>2, <2>3 DEF MigrationsIntact, Started, AllDone, Done
  <2>6. ASSUME NEW w \in Loops PROVE Covers(loop[w])'
    <3>1. Covers(loop[w]) /\ (loop[w].pc # "idle" => loop[w].mig \in Migrations /\ Started(loop[w].mig))
      BY DEF PassCovers, PassTyped
    <3>2. UNCHANGED <<rows, shred, emb, loop, target>>
      OBVIOUS
    <3>3. \A h \in Migrations : Started(h) => before'[h] = before[h]
      BY <2>2, <2>3
    <3> HIDE <1>0, <1>3 DEF StartCommit, g
    <3> QED
      BY <3>1, <3>2, <3>3 DEF Covers, AllDone, Done
  <2> QED
    BY <1>a, <2>4, <2>5, <2>6 DEF Intact, PassCovers
<1>4. ASSUME NEW a \in Admins, CommitWrite(a) \/ AbortWrite(a)
      PROVE  Intact'
  <2> DEFINE g == admin[a].mig
  <2> USE <1>0, <1>4 DEF CommitWrite, AbortWrite, vectorVars, MigrationTypeOK
  <2>1. g \in Migrations /\ Started(g) /\ (admin[a].op = "committed" => AllDone(g))
    BY DEF AdminsIntact
  <2>2. \A h \in Migrations : (h # g => status'[h] = status[h]) /\ (Started(h) <=> Started(h)')
    BY <2>1 DEF Started
  <2>3. \A h \in Migrations : AllDone(h) <=> AllDone(h)'
    BY DEF AllDone, Done
  <2>4. AdminsIntact'
    BY <2>1, <2>2, <2>3 DEF AdminsIntact, IdleAdmin, Started
  <2>5. MigrationsIntact'
    BY <2>1, <2>2, <2>3 DEF MigrationsIntact, Done
  <2>6. PassCovers'
    <3>1. UNCHANGED <<rows, shred, emb, loop, before, target>>
      OBVIOUS
    <3> HIDE <1>0, <1>4 DEF CommitWrite, AbortWrite
    <3> QED
      BY <3>1 DEF PassCovers, Covers, AllDone, Done
  <2> QED
    BY <1>a, <2>4, <2>5, <2>6 DEF Intact
<1> HIDE DEF IInv
<1> QED
  BY <1>1, <1>2, <1>3, <1>4 DEF AdminNext

LEMMA StoreIntact ==
    ASSUME IInv, NEW s \in Memories, StoreBegin(s) \/ StoreCommit(s)
    PROVE  Intact'
<1> USE DEF IInv, TypeOK, MigrationTypeOK, VectorsTypeOK
<1>1. /\ s \notin rows /\ rows \subseteq rows' /\ rows' \subseteq rows \cup {s}
      /\ UNCHANGED <<shred, status, target, cursor, before, admin, loop>>
      /\ \A m \in Memories \ {s} : emb'[m] = emb[m] /\ doc'[m] = doc[m]
                                   /\ storing'[m] = storing[m] /\ (m \in dek' <=> m \in dek)
  BY DEF StoreBegin, StoreCommit, RowsIntact
<1>2. RowsIntact'
  <2>1. shred[s] = "no"
    BY <1>1 DEF RowsIntact
  <2>2. CASE StoreBegin(s)
    BY <1>1, <2>1, <2>2 DEF StoreBegin, RowsIntact
  <2>3. CASE StoreCommit(s)
    BY <1>1, <2>1, <2>3 DEF StoreCommit, RowsIntact, NotStoring
  <2> QED
    BY <2>2, <2>3
<1>3. \A g \in Migrations : s \notin before[g]
  BY <1>1 DEF MigrationsIntact
<1>4. \A g \in Migrations : \A m \in Memories \ {s} : Done(g, m) => Done(g, m)'
  BY <1>1 DEF Done
<1>5. \A g \in Migrations : AllDone(g) => AllDone(g)'
  BY <1>1, <1>3, <1>4 DEF AllDone
<1>6. AdminsIntact'
  BY <1>1, <1>5 DEF AdminsIntact, Started
<1>7. MigrationsIntact'
  <2> SUFFICES ASSUME NEW g \in Migrations
               PROVE  (/\ ~ Started(g) => before[g] = {} /\ cursor[g] = 0
                       /\ before[g] \subseteq rows
                       /\ \A m \in before[g] : m <= cursor[g] => Done(g, m)
                       /\ status[g] \in {"validating", "committed"} => AllDone(g))'
    BY DEF MigrationsIntact
  <2>1. \A m \in before[g] : Done(g, m) => Done(g, m)'
    BY <1>3, <1>4
  <2>2. before[g] \subseteq rows /\ \A m \in before[g] : m <= cursor[g] => Done(g, m)
    BY DEF MigrationsIntact
  <2>3. (~ Started(g) => before[g] = {} /\ cursor[g] = 0)'
    BY <1>1 DEF MigrationsIntact, Started
  <2>4. (status[g] \in {"validating", "committed"} => AllDone(g))'
    BY <1>1, <1>5 DEF MigrationsIntact
  <2> QED
    BY <1>1, <2>1, <2>2, <2>3, <2>4
<1>8. PassCovers'
  <2> SUFFICES ASSUME NEW w \in Loops
               PROVE  Covers(loop[w])'
    BY DEF PassCovers
  <2>1. Covers(loop[w]) /\ (loop[w].pc # "idle" => loop[w].mig \in Migrations)
    BY DEF PassCovers, PassTyped
  <2>2. \A g \in Migrations : \A m \in before[g] : Done(g, m) => Done(g, m)'
    BY <1>3, <1>4
  <2>3. loop'[w] = loop[w] /\ (loop[w].pc # "idle" => before'[loop[w].mig] = before[loop[w].mig])
    BY <1>1, <2>1
  <2> QED
    BY <1>1, <1>5, <2>1, <2>2, <2>3 DEF Covers
<1> QED
  BY <1>2, <1>6, <1>7, <1>8 DEF Intact

LEMMA ShredIntact ==
    ASSUME IInv, ShreddingNext, UNCHANGED migrationVars
    PROVE  Intact'
<1> USE DEF IInv, TypeOK, MigrationTypeOK, VectorsTypeOK
<1>1. /\ UNCHANGED rows
      /\ \A m \in Memories : shred'[m] = "no" =>
            /\ shred[m] = "no" /\ emb'[m] = emb[m] /\ doc'[m] = doc[m]
      /\ \A m \in Memories : shred'[m] # "no" => m \in rows' /\ m \notin dek'
  <2> DEFINE Gentle ==
        /\ UNCHANGED rows
        /\ \A m \in Memories : shred'[m] = "no" =>
              /\ shred[m] = "no" /\ emb'[m] = emb[m] /\ doc'[m] = doc[m]
        /\ \A m \in Memories : shred'[m] # "no" => m \in rows' /\ m \notin dek'
  <2>1. ASSUME NEW m \in Memories, ShredCommit(m)
        PROVE  Gentle
    BY <2>1 DEF ShredCommit, RowsIntact
  <2>2. ASSUME NEW m \in Memories, Tombstone(m)
        PROVE  Gentle
    BY <2>2 DEF Tombstone, RowsIntact
  <2>3. ASSUME SweepStep \/ SweepFails
        PROVE  UNCHANGED <<rows, doc, dek, emb, shred>>
    BY <2>3 DEF SweepStep, SweepFails, FetchStale, FetchKeys, ResolveTexts, UpdateBatch, vectorVars
  <2>4. UNCHANGED <<rows, doc, dek, emb, shred>> => Gentle
    BY DEF RowsIntact
  <2> QED
    BY <2>1, <2>2, <2>3, <2>4 DEF ShreddingNext
<1>2. UNCHANGED <<status, target, cursor, before, admin, storing, loop>>
  BY DEF migrationVars
<1>3. RowsIntact'
  BY <1>1, <1>2 DEF RowsIntact
<1>4. \A g \in Migrations : \A m \in Memories : Done(g, m) => Done(g, m)'
  BY <1>1, <1>2 DEF Done
<1>5. \A g \in Migrations : AllDone(g) => AllDone(g)'
  BY <1>2, <1>4 DEF AllDone
<1>6. AdminsIntact'
  BY <1>2, <1>5 DEF AdminsIntact, Started
<1>7. MigrationsIntact'
  BY <1>1, <1>2, <1>4, <1>5 DEF MigrationsIntact, Started
<1>8. PassCovers'
  <2> SUFFICES ASSUME NEW w \in Loops
               PROVE  Covers(loop[w])'
    BY DEF PassCovers
  <2>1. Covers(loop[w]) /\ (loop[w].pc # "idle" => loop[w].mig \in Migrations)
    BY DEF PassCovers, PassTyped
  <2>2. loop[w].batch \subseteq Memories
    BY DEF LoopPass
  <2> QED
    BY <1>1, <1>2, <1>4, <1>5, <2>1, <2>2 DEF Covers
<1> QED
  BY <1>3, <1>6, <1>7, <1>8 DEF Intact

LEMMA LoopIntact ==
    ASSUME IInv, NEW w \in Loops, LoopAct(w)
    PROVE  Intact'
<1> USE DEF IInv, TypeOK, MigrationTypeOK
<1> DEFINE p == loop[w]
<1>0. p \in LoopPass /\ Covers(p) /\ (p.pc # "idle" => p.mig \in Migrations /\ Started(p.mig))
  BY DEF PassCovers, PassTyped
<1>1. UNCHANGED <<rows, doc, dek, shred, target, before, admin, storing>>
  BY DEF LoopAct, LoopStep, PickBatch, PickNodes, ReadDocs, ReadKeys, KeysFail, WriteBatch,
         WriteNodes, MarkValidating, LoopFails, control, vectorVars
<1>2. \A m \in Memories, k \in Models : emb[m][k] # "none" => emb'[m][k] # "none"
  <2>1. CASE WriteBatch(w)
    BY <2>1 DEF WriteBatch, VectorsTypeOK
  <2>2. CASE ~ WriteBatch(w)
    BY <2>2 DEF LoopAct, LoopStep, vectorVars
  <2> QED
    BY <2>1, <2>2
<1>3. \A g \in Migrations : \A m \in Memories : Done(g, m) => Done(g, m)'
  BY <1>1, <1>2 DEF Done
<1>4. \A g \in Migrations : AllDone(g) => AllDone(g)'
  BY <1>1, <1>3 DEF AllDone
<1>5. UNCHANGED status \/ MarkValidating(w)
  BY DEF LoopAct, LoopStep, PickBatch, PickNodes, ReadDocs, ReadKeys, KeysFail, WriteBatch,
         WriteNodes, LoopFails, control
<1>6. UNCHANGED cursor \/ WriteBatch(w)
  BY DEF LoopAct, LoopStep, PickBatch, PickNodes, ReadDocs, ReadKeys, KeysFail, MarkValidating,
         WriteNodes, LoopFails
<1>7. /\ \A g \in Migrations : Started(g) <=> Started(g)'
      /\ \A g \in Migrations : status'[g] # status[g] => status'[g] = "validating" /\ AllDone(g)
      /\ \A g \in Migrations : status[g] = "starting" => status'[g] = "starting"
  <2>1. CASE UNCHANGED status
    BY <2>1 DEF Started
  <2>2. CASE MarkValidating(w)
    BY <1>0, <2>2 DEF MarkValidating, Covers, Started
  <2> QED
    BY <1>5, <2>1, <2>2
<1>8. RowsIntact'
  BY <1>1 DEF RowsIntact
<1>9. AdminsIntact'
  BY <1>1, <1>4, <1>7 DEF AdminsIntact
<1>10. ASSUME WriteBatch(w), ~ UNCHANGED cursor, NEW g \in Migrations, g = p.mig,
              NEW m \in before[g], m <= p.last
       PROVE  Done(g, m)'
  <2>1. m \in Memories
    OBVIOUS
  <2>2. CASE Done(g, m)
    BY <1>3, <2>1, <2>2
  <2>3. CASE m \in p.batch
    <3>1. shred[m] = "no" /\ Embeddable(m) => p.got[m] # "none"
      BY <1>0, <1>10, <2>3 DEF WriteBatch, Covers
    <3>2. target[g] \in Models
      OBVIOUS
    <3>3. emb' = [n \in Memories |-> [k \in Models |->
                    IF k = target[g] /\ emb[n][k] = "none" THEN p.got[n] ELSE emb[n][k]]]
      BY <1>10 DEF WriteBatch
    <3>4. emb'[m][target[g]] = IF emb[m][target[g]] = "none" THEN p.got[m] ELSE emb[m][target[g]]
      BY <2>1, <3>2, <3>3
    <3> QED
      BY <1>1, <3>1, <3>4 DEF Done
  <2> QED
    BY <1>0, <1>10, <2>2, <2>3 DEF WriteBatch, Covers
<1>11. MigrationsIntact'
  <2> SUFFICES ASSUME NEW g \in Migrations
               PROVE  (/\ ~ Started(g) => before[g] = {} /\ cursor[g] = 0
                       /\ before[g] \subseteq rows
                       /\ \A m \in before[g] : m <= cursor[g] => Done(g, m)
                       /\ status[g] \in {"validating", "committed"} => AllDone(g))'
    BY DEF MigrationsIntact
  <2>1. (status[g] \in {"validating", "committed"} => AllDone(g))'
    BY <1>4, <1>7 DEF MigrationsIntact
  <2>2. before'[g] \subseteq rows'
    BY <1>1 DEF MigrationsIntact
  <2>3. cursor'[g] # cursor[g] => WriteBatch(w) /\ p.mig = g /\ cursor'[g] = p.last
    BY <1>0, <1>6 DEF WriteBatch
  <2>4. (~ Started(g) => before[g] = {} /\ cursor[g] = 0)'
    BY <1>0, <1>1, <1>7, <2>3 DEF MigrationsIntact, WriteBatch
  <2>5. ASSUME NEW m \in before[g], m <= cursor'[g]
        PROVE  Done(g, m)'
    <3>1. CASE cursor'[g] = cursor[g]
      BY <1>3, <2>5, <3>1 DEF MigrationsIntact
    <3>2. CASE cursor'[g] # cursor[g]
      <4>1. p.mig = g /\ m <= p.last /\ WriteBatch(w) /\ ~ UNCHANGED cursor
        BY <2>3, <2>5, <3>2
      <4> QED
        BY <1>10, <4>1
    <3> QED
      BY <3>1, <3>2
  <2> QED
    BY <1>1, <2>1, <2>2, <2>4, <2>5
<1>12. ASSUME NEW v \in Loops \ {w}
       PROVE  Covers(loop[v])'
  <2>1. loop'[v] = loop[v]
    BY DEF LoopAct, LoopStep, PickBatch, PickNodes, ReadDocs, ReadKeys, KeysFail, WriteBatch,
           WriteNodes, MarkValidating, LoopFails, TextsWith, Move
  <2>2. Covers(loop[v]) /\ (loop[v].pc # "idle" => loop[v].mig \in Migrations)
    BY DEF PassCovers, PassTyped
  <2>3. \A g \in Migrations : \A m \in before[g] : Done(g, m) => Done(g, m)'
    BY <1>3
  <2> QED
    BY <1>1, <1>4, <2>1, <2>2, <2>3 DEF Covers
<1>13. Covers(loop[w])'
  <2>1. ASSUME NEW g \in Migrations, PickBatch(w, g)
        PROVE  Covers(loop[w])'
    <3>1. PICK last \in Left(g) : loop'[w] = Pass("docs", g, last, UpTo(Left(g), last))
      BY <2>1 DEF PickBatch, Move
    <3>2. ASSUME NEW m \in before[g], m <= last
          PROVE  Done(g, m) \/ m \in UpTo(Left(g), last)
      <4>1. m \in rows /\ (m <= cursor[g] => Done(g, m))
        BY DEF MigrationsIntact
      <4>2. m \in Nat /\ cursor[g] \in Nat
        BY <4>1, Numbers DEF VectorsTypeOK
      <4> QED
        BY <3>2, <4>1, <4>2 DEF Left, UpTo
    <3>3. \A m \in before'[g] : m <= last => Done(g, m)' \/ m \in UpTo(Left(g), last)
      BY <1>1, <1>3, <3>2
    <3>4. UpTo(Left(g), last) \subseteq rows'
      BY <1>1 DEF UpTo, Left
    <3> QED
      BY <3>1, <3>3, <3>4 DEF Covers, Pass
  <2>2. ASSUME NEW g \in Migrations, PickNodes(w, g)
        PROVE  Covers(loop[w])'
    <3>1. AllDone(g)
      <4> SUFFICES ASSUME NEW m \in before[g] PROVE Done(g, m)
        BY DEF AllDone
      <4>1. m \in rows /\ (m <= cursor[g] => Done(g, m))
        BY DEF MigrationsIntact
      <4>2. m \in Nat /\ cursor[g] \in Nat
        BY <4>1, Numbers DEF VectorsTypeOK
      <4> QED
        BY <2>2, <4>1, <4>2 DEF PickNodes, Left
    <3>2. AllDone(g)'
      BY <1>4, <3>1
    <3>3. loop'[w] = Pass(IF nodesDone[g] THEN "finish" ELSE "nodes", g, 0, {})
      BY <2>2 DEF PickNodes, Move
    <3> QED
      BY <3>2, <3>3 DEF Covers, Pass
  <2>3. ASSUME ReadDocs(w)
        PROVE  Covers(loop[w])'
    <3> DEFINE text == [m \in Memories |-> IF m \in p.batch THEN doc[m] ELSE "none"]
    <3>1. loop'[w] = [p EXCEPT !.pc = "keys", !.got = text]
      BY <2>3 DEF ReadDocs, Move
    <3>2. \A m \in p.batch : shred[m] = "no" => text[m] = StoredDoc(m)
      BY <1>0 DEF Covers, RowsIntact, LoopPass
    <3> HIDE DEF text
    <3>3. /\ loop'[w].pc = "keys" /\ loop'[w].got = text /\ loop'[w].mig = p.mig
          /\ loop'[w].last = p.last /\ loop'[w].batch = p.batch
      BY <1>0, <3>1 DEF LoopPass
    <3>4. \A m \in before'[p.mig] : m <= p.last => Done(p.mig, m) \/ m \in p.batch
      BY <1>0, <1>1, <2>3 DEF Covers, ReadDocs
    <3>5. \A g \in Migrations : \A m \in before[g] : Done(g, m) => Done(g, m)'
      BY <1>3
    <3> QED
      BY <1>0, <1>1, <2>3, <3>2, <3>3, <3>4, <3>5 DEF Covers, ReadDocs
  <2>4. ASSUME ReadKeys(w) \/ KeysFail(w)
        PROVE  Covers(loop[w])'
    <3>1. PICK keys : loop'[w] = [p EXCEPT !.pc = "write",
               !.got = [m \in Memories |-> Decrypt(m, p.got[m], m \in keys)]]
      <4>1. ASSUME NEW keys, TextsWith(w, keys)
            PROVE  loop'[w] = [p EXCEPT !.pc = "write",
                      !.got = [m \in Memories |-> Decrypt(m, p.got[m], m \in keys)]]
        BY <4>1 DEF TextsWith, Move
      <4> QED
        BY <2>4, <4>1 DEF ReadKeys, KeysFail
    <3> DEFINE text == [m \in Memories |-> Decrypt(m, p.got[m], m \in keys)]
    <3>2. \A m \in p.batch : shred[m] = "no" /\ Embeddable(m) => text[m] # "none"
      BY <1>0, <2>4 DEF ReadKeys, KeysFail, Covers, LoopPass, StoredDoc, Decrypt, Embeddable
    <3> HIDE DEF text
    <3>3. /\ loop'[w].pc = "write" /\ loop'[w].got = text /\ loop'[w].mig = p.mig
          /\ loop'[w].last = p.last /\ loop'[w].batch = p.batch
      BY <1>0, <3>1 DEF LoopPass, text
    <3>4. \A m \in before'[p.mig] : m <= p.last => Done(p.mig, m) \/ m \in p.batch
      BY <1>0, <1>1, <2>4 DEF Covers, ReadKeys, KeysFail
    <3>5. \A g \in Migrations : \A m \in before[g] : Done(g, m) => Done(g, m)'
      BY <1>3
    <3> QED
      BY <1>0, <1>1, <2>4, <3>2, <3>3, <3>4, <3>5 DEF Covers, ReadKeys, KeysFail
  <2>5. ASSUME WriteBatch(w) \/ WriteNodes(w) \/ MarkValidating(w) \/ LoopFails(w)
        PROVE  Covers(loop[w])'
    <3>1. loop'[w] = IdleLoop
      BY <2>5 DEF WriteBatch, WriteNodes, MarkValidating, LoopFails, Move
    <3> QED
      BY <3>1 DEF Covers, IdleLoop, Pass
  <2> HIDE DEF IInv
  <2> QED
    BY <2>1, <2>2, <2>3, <2>4, <2>5 DEF LoopAct, LoopStep
<1>14. PassCovers'
  BY <1>12, <1>13 DEF PassCovers
<1> QED
  BY <1>8, <1>9, <1>11, <1>14 DEF Intact

\* The invariant is inductive.
LEMMA IStep == IInv /\ [Next]_vars => IInv'
<1> SUFFICES ASSUME IInv, [Next]_vars PROVE IInv'
  OBVIOUS
<1>0. IInv = (VectorsTypeOK /\ MigrationTypeOK /\ SweepTypeOK /\ PassTyped /\ Intact)
  BY DEF IInv, TypeOK, Intact
<1>0a. IInv' = (VectorsTypeOK /\ MigrationTypeOK /\ SweepTypeOK /\ PassTyped /\ Intact)'
  BY DEF IInv, TypeOK, Intact
<1>0b. rows \subseteq Memories /\ \A a \in Admins : admin[a].op # "idle" => admin[a].mig \in Migrations
  BY DEF IInv, TypeOK, VectorsTypeOK, AdminsIntact
<1>1. ASSUME UNCHANGED sweepVars PROVE SweepTypeOK'
  BY <1>0, <1>1 DEF sweepVars, SweepTypeOK
<1>2. CASE AdminNext /\ UNCHANGED sweepVars
  <2>1. VectorsTypeOK'
    BY <1>0, <1>2 DEF AdminNext, vectorVars, VectorsTypeOK
  <2> QED
    BY <1>0, <1>0a, <1>0b, <1>1, <1>2, <2>1, AdminType, AdminIntact
<1>3. ASSUME NEW m \in Memories, StoreBegin(m) \/ StoreCommit(m), UNCHANGED sweepVars
      PROVE  IInv'
  BY <1>0, <1>0a, <1>1, <1>3, StoreType, StoreIntact
<1>4. ASSUME NEW w \in Loops, LoopAct(w), UNCHANGED sweepVars
      PROVE  IInv'
  BY <1>0, <1>0a, <1>1, <1>4, LoopType, LoopIntact
<1>5. CASE ShreddingNext /\ UNCHANGED migrationVars
  <2>1. MigrationTypeOK' /\ PassTyped'
    BY <1>0, <1>5 DEF migrationVars, MigrationTypeOK, PassTyped, Started
  <2> QED
    BY <1>0, <1>0a, <1>5, <2>1, SweepType, ShredIntact
<1>6. CASE UNCHANGED vars
  <2>1. TypeOK' /\ PassTyped'
    BY <1>6 DEF IInv, vars, vectorVars, migrationVars, sweepVars, TypeOK, VectorsTypeOK, MigrationTypeOK,
            SweepTypeOK, PassTyped, Started
  <2>2. RowsIntact' /\ AdminsIntact' /\ MigrationsIntact' /\ PassCovers'
    BY <1>6 DEF IInv, vars, vectorVars, migrationVars, RowsIntact, AdminsIntact, MigrationsIntact,
            PassCovers, Covers, Started, AllDone, Done
  <2> QED
    BY <2>1, <2>2 DEF IInv
<1> QED
  BY <1>2, <1>3, <1>4, <1>5, <1>6 DEF Next, MigrationNext, LoopAct

LEMMA IInit == Init => IInv
BY TypeInit, IntactInit DEF IInv, Intact

\* Every reachable state satisfies the inductive invariant.
THEOREM Inductive == Spec => []IInv
BY IInit, IStep, PTL DEF Spec

\* The tables, the loops' passes and the sweep keep their types, whatever the
\* numbers of memories, models, requests and loops.
THEOREM TypeCorrect == Spec => []TypeOK
<1>1. IInv => TypeOK
  BY DEF IInv
<1> QED
  BY <1>1, Inductive, PTL

\* A migration that is validating or committed has embedded every readable,
\* unshredded memory that existed when it started, with any number of loops
\* of any batch size, and any number of failed or restarted passes.
THEOREM Backfill == Spec => []BackfillComplete
<1>1. IInv => BackfillComplete
  BY DEF IInv, MigrationsIntact, AllDone, Done, BackfillComplete
<1> QED
  BY <1>1, Inductive, PTL

\* What is forgotten stays forgotten: no step of any loop, sweep, request or
\* retry makes a vector from the text of a memory that is shredded, has its
\* tombstone and is in no batch in flight.
THEOREM Forgetting == Spec => ForgottenForGood
<1>1. IInv /\ [Next]_vars => [\A m \in Memories : Forgotten(m) => Forgotten(m)']_vars
  <2> SUFFICES ASSUME IInv, Next, NEW m \in Memories, Forgotten(m)
               PROVE  Forgotten(m)'
    BY DEF vars
  <2>0. m \in rows /\ m \notin dek /\ ~ storing[m].on
    BY DEF IInv, RowsIntact, Forgotten
  <2>a. VectorsTypeOK /\ SweepTypeOK /\ loop \in [Loops -> LoopPass]
    BY DEF IInv, TypeOK, MigrationTypeOK
  <2>b. /\ shred[m] # "no" /\ doc[m] \notin {"plain", "code"} /\ vec[m] # "plain"
        /\ \A k \in Models : emb[m][k] # "plain"
        /\ \A v \in Loops : loop[v].got[m] # "plain"
        /\ sweep.got[m] # "plain" /\ m \notin sweep.keys
    BY DEF Forgotten, InFlight
  <2>c. MigrationTypeOK
    BY DEF IInv, TypeOK
  <2>1. CASE AdminNext /\ UNCHANGED sweepVars
    <3>1. UNCHANGED <<vectorVars, loop, sweep>>
      BY <2>1 DEF AdminNext, StartCheck, StatusCheck, StartCommit, CommitWrite, AbortWrite, sweepVars
    <3> QED
      BY <3>1 DEF vectorVars, Forgotten, InFlight
  <2>2. ASSUME NEW s \in Memories, StoreBegin(s) \/ StoreCommit(s), UNCHANGED sweepVars
        PROVE  Forgotten(m)'
    <3>1. s # m
      BY <2>0, <2>2 DEF StoreBegin, StoreCommit
    <3>2. /\ UNCHANGED <<shred, loop, sweep>> /\ doc'[m] = doc[m] /\ vec'[m] = vec[m]
          /\ emb'[m] = emb[m]
      BY <2>2, <2>a, <3>1 DEF VectorsTypeOK, StoreBegin, StoreCommit, sweepVars
    <3> QED
      BY <3>2 DEF Forgotten, InFlight
  <2>3. ASSUME NEW w \in Loops, LoopAct(w), UNCHANGED sweepVars
        PROVE  Forgotten(m)'
    <3>1. UNCHANGED <<shred, doc, vec, sweep>>
      BY <2>3 DEF LoopAct, LoopStep, vectorVars, sweepVars
    <3>2. \A v \in Loops : loop[v] \in LoopPass /\ loop[v].got[m] # "plain"
      BY <2>a, <2>b
    <3>3. \A v \in Loops \ {w} : loop'[v] = loop[v]
      BY <2>3, <2>a DEF LoopAct, LoopStep, PickBatch, PickNodes, ReadDocs, ReadKeys, KeysFail, WriteBatch,
                  WriteNodes, MarkValidating, LoopFails, TextsWith, Move
    <3>4. loop'[w].got[m] # "plain"
      <4>1. CASE \E g \in Migrations : PickBatch(w, g) \/ PickNodes(w, g)
        BY <2>a, <4>1 DEF PickBatch, PickNodes, Move, Pass, NoText
      <4>2. CASE ReadDocs(w)
        <5> DEFINE text == [n \in Memories |-> IF n \in loop[w].batch THEN doc[n] ELSE "none"]
        <5>1. text[m] # "plain"
          BY <2>b
        <5>2. loop'[w] = [loop[w] EXCEPT !.pc = "keys", !.got = text]
          BY <2>a, <4>2 DEF ReadDocs, Move
        <5> HIDE DEF text
        <5>3. loop'[w].got = text
          BY <3>2, <5>2 DEF LoopPass
        <5> QED
          BY <5>1, <5>3
      <4>3. ASSUME NEW keys, m \notin keys, TextsWith(w, keys), loop[w].pc = "keys"
            PROVE  loop'[w].got[m] # "plain"
        <5> DEFINE text == [n \in Memories |-> Decrypt(n, loop[w].got[n], n \in keys)]
        <5>1. text[m] # "plain"
          <6>1. loop[w].got[m] \in Docs
            BY <4>3 DEF IInv, PassTyped
          <6>2. (m \in keys) = FALSE
            BY <4>3
          <6>3. text[m] = Decrypt(m, loop[w].got[m], m \in keys)
            OBVIOUS
          <6> QED
            BY <2>b, <6>1, <6>2, <6>3, NoKeyNoText
        <5>2. loop'[w] = [loop[w] EXCEPT !.pc = "write", !.got = text]
          BY <2>a, <4>3 DEF TextsWith, Move
        <5> HIDE DEF text
        <5>3. loop'[w].got = text
          BY <3>2, <5>2 DEF LoopPass
        <5> QED
          BY <5>1, <5>3
      <4>4. CASE ReadKeys(w) \/ KeysFail(w)
        BY <2>0, <4>3, <4>4 DEF ReadKeys, KeysFail
      <4>5. CASE WriteBatch(w) \/ WriteNodes(w) \/ MarkValidating(w) \/ LoopFails(w)
        BY <2>a, <4>5 DEF WriteBatch, WriteNodes, MarkValidating, LoopFails, Move, IdleLoop, Pass, NoText
      <4> QED
        BY <2>3, <4>1, <4>2, <4>4, <4>5 DEF LoopAct, LoopStep
    <3>5. \A k \in Models : emb'[m][k] # "plain"
      <4>1. CASE WriteBatch(w)
        <5>1. CASE UNCHANGED emb
          BY <2>b, <5>1
        <5>2. CASE emb' = [n \in Memories |-> [k \in Models |->
                     IF k = target[loop[w].mig] /\ emb[n][k] = "none" THEN loop[w].got[n]
                     ELSE emb[n][k]]]
          BY <2>b, <5>2
        <5> QED
          BY <4>1, <5>1, <5>2 DEF WriteBatch
      <4>2. CASE ~ WriteBatch(w)
        BY <2>3, <2>b, <4>2 DEF LoopAct, LoopStep, vectorVars
      <4> QED
        BY <4>1, <4>2
    <3>6. \A v \in Loops : loop'[v].got[m] # "plain"
      BY <3>2, <3>3, <3>4
    <3> QED
      BY <3>1, <3>5, <3>6 DEF Forgotten, InFlight
  <2>4. ASSUME ShreddingNext, UNCHANGED migrationVars
        PROVE  Forgotten(m)'
    <3>1. UNCHANGED loop
      BY <2>4 DEF migrationVars
    <3>2. ASSUME NEW n \in Memories, ShredCommit(n)
          PROVE  Forgotten(m)'
      BY <2>a, <2>b, <3>1, <3>2 DEF VectorsTypeOK, ShredCommit, sweepVars, Forgotten, InFlight
    <3>3. ASSUME NEW n \in Memories, Tombstone(n)
          PROVE  Forgotten(m)'
      BY <2>a, <2>b, <3>1, <3>3 DEF VectorsTypeOK, Tombstone, sweepVars, Forgotten, InFlight
    <3>4. ASSUME FetchStale \/ FetchKeys \/ SweepFails
          PROVE  Forgotten(m)'
      <4>1. UNCHANGED vectorVars /\ sweep'.got[m] # "plain" /\ m \notin sweep'.keys
        <5>1. CASE FetchStale
          <6>1. sweep' = IdleSweep \/ \E l, b :
                   sweep' = [sweep EXCEPT !.pc = "keys", !.last = l, !.batch = b]
            BY <5>1 DEF FetchStale
          <6>2. sweep'.got[m] # "plain" /\ m \notin sweep'.keys
            <7>1. CASE sweep' = IdleSweep
              BY <7>1 DEF IdleSweep
            <7>2. ASSUME NEW l, NEW b,
                         sweep' = [sweep EXCEPT !.pc = "keys", !.last = l, !.batch = b]
                  PROVE  sweep'.got = sweep.got /\ sweep'.keys = sweep.keys
              BY <2>a, <7>2 DEF SweepTypeOK
            <7> QED
              BY <2>b, <6>1, <7>1, <7>2
          <6> QED
            BY <5>1, <6>2 DEF FetchStale
        <5>2. CASE FetchKeys
          <6>1. \E keys : m \notin keys /\ sweep' = [sweep EXCEPT !.pc = "docs", !.keys = keys]
            <7>1. m \notin dek \cap sweep.batch /\ m \notin {}
              BY <2>0
            <7> QED
              BY <5>2, <7>1 DEF FetchKeys
          <6>2. sweep'.got[m] # "plain" /\ m \notin sweep'.keys
            BY <2>a, <2>b, <6>1 DEF SweepTypeOK
          <6> QED
            BY <5>2, <6>2 DEF FetchKeys
        <5>3. CASE SweepFails
          BY <5>3 DEF SweepFails, IdleSweep
        <5> QED
          BY <3>4, <5>1, <5>2, <5>3
      <4> QED
        BY <3>1, <4>1 DEF vectorVars, Forgotten, InFlight
    <3>5. ASSUME ResolveTexts
          PROVE  Forgotten(m)'
      <4>0. PICK lost : Resolved(lost)
        BY <3>5 DEF ResolveTexts
      <4> DEFINE text == [n \in Memories |-> IF n \notin sweep.batch THEN "none"
                                   ELSE IF n \in lost THEN FallbackText(n) ELSE TextOf(n)]
      <4>1. text[m] # "plain"
        <5>2. (m \in sweep.keys) = FALSE
          BY <2>b
        <5>3. Decrypt(m, doc[m], m \in sweep.keys) # "plain"
          BY <2>a, <2>b, <5>2, NoKeyNoText DEF VectorsTypeOK
        <5>4. TextOf(m) # "plain" /\ FallbackText(m) # "plain"
          BY <2>b, <5>3 DEF TextOf, FallbackText
        <5> QED
          BY <5>4
      <4>2. sweep' = [sweep EXCEPT !.pc = "write", !.keys = {}, !.got = text]
        BY <4>0 DEF Resolved
      <4> HIDE DEF text
      <4>3. sweep'.got[m] # "plain" /\ m \notin sweep'.keys
        BY <2>a, <4>1, <4>2 DEF SweepTypeOK
      <4> QED
        BY <3>1, <3>5, <4>3 DEF ResolveTexts, vectorVars, Forgotten, InFlight
    <3>6. ASSUME UpdateBatch
          PROVE  Forgotten(m)'
      <4>1. sweep'.got[m] # "plain" /\ m \notin sweep'.keys
        BY <3>6 DEF UpdateBatch, IdleSweep
      <4>2. vec'[m] # "plain"
        BY <2>b, <3>6 DEF UpdateBatch
      <4> QED
        BY <3>1, <3>6, <4>1, <4>2 DEF UpdateBatch, Forgotten, InFlight
    <3> QED
      BY <2>4, <3>2, <3>3, <3>4, <3>5, <3>6 DEF ShreddingNext, SweepStep
  <2> QED
    BY <2>1, <2>2, <2>3, <2>4 DEF Next, MigrationNext, LoopAct
<1> QED
  BY <1>1, Inductive, PTL DEF Spec, ForgottenForGood
=============================================================================
