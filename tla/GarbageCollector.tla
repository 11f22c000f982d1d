-------------------------- MODULE GarbageCollector --------------------------
(***************************************************************************)
(* The orphan collection pass of nce/garbage_collector.py: the forward      *)
(* sweep (MongoDB documents no memories row refers to), the MinIO sweep and *)
(* the reverse sweep (live rows whose document is gone).  The pass reads    *)
(* and deletes in separate steps, while sagas go on.                        *)
(*                                                                          *)
(* The paged reads are taken as one read: rows are never deleted, so pages  *)
(* read later can only add references.  The cascade over memory_salience    *)
(* and contradictions only touches dependants of rows that do not exist,    *)
(* and is left out.                                                         *)
(***************************************************************************)
EXTENDS MemorySaga

VARIABLES
    gcPc,      \* phase of the pass
    gcFull,    \* the pass found candidates, so it ends with the reverse sweep
    gcTodo     \* items still to be handled in the current phase

gcVars == <<gcPc, gcFull, gcTodo>>

GcStates == {"idle", "refs", "delete", "minioRefs", "minioDelete", "reverse", "retire"}

GcInit ==
    /\ gcPc = "idle"
    /\ gcFull = FALSE
    /\ gcTodo = {}

\* Mutant: no age guard.
OldDocs_AnyAge == docs

\* Documents with ingested_at < cutoff.
OldDocs == docs \cap aged

\* payload_refs of all memories rows, retired ones included.
PgRefs == {s \in Sagas : mem[s] # "none"}

GcGoto(from, to) == gcPc = from /\ gcPc' = to

\* Mutant: without candidates the pass returns at once.
GcCandidates_ReturnEarly ==
    /\ gcPc = "idle"
    /\ gcTodo' = OldDocs
    /\ gcFull' = (OldDocs # {})
    /\ gcPc' = IF OldDocs = {} THEN "idle" ELSE "refs"
    /\ UNCHANGED sagaVars

\* No candidates: the pass runs the MinIO sweep and returns.
GcCandidates ==
    /\ gcPc = "idle"
    /\ gcTodo' = OldDocs
    /\ gcFull' = (OldDocs # {})
    /\ gcPc' = IF OldDocs = {} THEN "minioRefs" ELSE "refs"
    /\ UNCHANGED sagaVars

\* An error here is raised and ends the pass.
GcFetchPgRefs ==
    /\ \/ /\ GcGoto("refs", "delete")
          /\ gcTodo' = gcTodo \ PgRefs
          /\ UNCHANGED gcFull
          /\ NoFault
       \/ /\ GcGoto("refs", "idle")
          /\ gcTodo' = {} /\ gcFull' = FALSE
          /\ Fault
    /\ UNCHANGED <<pc, log, docs, objs, mem, indoubt, aged>>

GcDeleteDoc(s) ==
    /\ gcPc = "delete"
    /\ s \in gcTodo
    /\ gcTodo' = gcTodo \ {s}
    /\ \/ docs' = docs \ {s} /\ NoFault
       \/ UNCHANGED docs /\ Fault
    /\ UNCHANGED <<gcPc, gcFull, pc, log, objs, mem, indoubt, aged>>

GcDeleteDone ==
    /\ GcGoto("delete", "minioRefs")
    /\ gcTodo = {}
    /\ UNCHANGED <<gcFull, gcTodo, sagaVars>>

AfterMinio == IF gcFull THEN "reverse" ELSE "idle"

\* object_names of all memories rows, and the listing of old objects, with one
\* cutoff (the listing follows the references by far less than the window); an
\* error skips the MinIO sweep only.
GcFetchMinioRefs ==
    /\ \/ /\ GcGoto("minioRefs", "minioDelete")
          /\ gcTodo' = (objs \cap aged) \ PgRefs
          /\ NoFault
       \/ /\ GcGoto("minioRefs", AfterMinio)
          /\ gcTodo' = {}
          /\ Fault
    /\ UNCHANGED <<gcFull, pc, log, docs, objs, mem, indoubt, aged>>

GcDeleteObject(s) ==
    /\ gcPc = "minioDelete"
    /\ s \in gcTodo
    /\ gcTodo' = gcTodo \ {s}
    /\ \/ objs' = objs \ {s} /\ NoFault
       \/ UNCHANGED objs /\ Fault
    /\ UNCHANGED <<gcPc, gcFull, pc, log, docs, mem, indoubt, aged>>

GcMinioDone ==
    /\ GcGoto("minioDelete", AfterMinio)
    /\ gcTodo = {}
    /\ UNCHANGED <<gcFull, gcTodo, sagaVars>>

\* Live rows older than the cutoff; an error skips the namespace.
GcReverseCandidates ==
    /\ \/ /\ GcGoto("reverse", "retire")
          /\ gcTodo' = {s \in aged : mem[s] = "live"}
          /\ NoFault
       \/ /\ GcGoto("reverse", "idle")
          /\ gcTodo' = {}
          /\ Fault
    /\ UNCHANGED <<gcFull, pc, log, docs, objs, mem, indoubt, aged>>

\* find_one, then UPDATE ... WHERE valid_to IS NULL if the document is missing.
\* A missing document never comes back, so one step; an error in either skips s.
GcReverseOne(s) ==
    /\ gcPc = "retire"
    /\ s \in gcTodo
    /\ gcTodo' = gcTodo \ {s}
    /\ \/ /\ mem' = [mem EXCEPT ![s] = IF s \notin docs /\ @ = "live" THEN "retired" ELSE @]
          /\ NoFault
       \/ UNCHANGED mem /\ Fault
    /\ UNCHANGED <<gcPc, gcFull, pc, log, docs, objs, indoubt, aged>>

GcReverseDone ==
    /\ GcGoto("retire", "idle")
    /\ gcTodo = {}
    /\ UNCHANGED <<gcFull, gcTodo, sagaVars>>

GcCrash ==
    /\ gcPc # "idle"
    /\ Fault
    /\ gcPc' = "idle"
    /\ gcFull' = FALSE /\ gcTodo' = {}
    /\ UNCHANGED <<pc, log, docs, objs, mem, indoubt, aged>>

GcStep ==
    \/ GcCandidates \/ GcFetchPgRefs \/ GcDeleteDone
    \/ GcFetchMinioRefs \/ GcMinioDone \/ GcReverseCandidates \/ GcReverseDone
    \/ \E s \in Sagas : GcDeleteDoc(s) \/ GcDeleteObject(s) \/ GcReverseOne(s)

GcNext == GcStep \/ GcCrash

GcTypeOK ==
    /\ gcPc \in GcStates
    /\ gcFull \in BOOLEAN
    /\ gcTodo \subseteq Sagas
=============================================================================
