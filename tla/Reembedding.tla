---------------------------- MODULE Reembedding -----------------------------
(***************************************************************************)
(* Migrations, the in-place re-embedding job, store_memory and shred_memory *)
(* on the same memories.                                                    *)
(***************************************************************************)
EXTENDS EmbeddingMigration, Shredding

vars == <<vectorVars, migrationVars, sweepVars>>

Init == VectorsInit /\ MigrationInit /\ ShreddingInit

Next ==
    \/ MigrationNext /\ UNCHANGED sweepVars
    \/ ShreddingNext /\ UNCHANGED migrationVars

Spec == Init /\ [][Next]_vars

\* Each loop polls for ever; cron runs the sweep again and again.
Fairness ==
    /\ \A w \in Loops : WF_vars(LoopStep(w) /\ UNCHANGED sweepVars)
    /\ WF_vars(SweepStep /\ UNCHANGED migrationVars)

FairSpec == Spec /\ Fairness

-----------------------------------------------------------------------------
TypeOK == VectorsTypeOK /\ MigrationTypeOK /\ SweepTypeOK

\* A text the re_embedder can get as long as the memory is not shredded.
Embeddable(m) == m \notin Unreadable \cup CodeChunks

\* A migration offered for validation or committed has given every memory
\* that existed when it started, could be read and was not shredded, a vector
\* of the target model, however many loops share the cursor, fail half way or
\* go on after the migration was aborted.
BackfillComplete ==
    \A g \in Migrations : status[g] \in {"validating", "committed"} =>
        \A m \in before[g] :
            shred[m] = "no" /\ Embeddable(m) => emb[m][target[g]] # "none"

\* Someone has read the text of m, or may still read it with a key it holds.
InFlight(m) ==
    \/ \E w \in Loops : loop[w].got[m] = "plain"
    \/ sweep.got[m] = "plain" \/ m \in sweep.keys

\* m is shredded and nothing in the stores or in flight leads to its text.
Forgotten(m) ==
    /\ shred[m] # "no"
    /\ doc[m] \notin {"plain", "code"}
    /\ vec[m] # "plain" /\ \A k \in Models : emb[m][k] # "plain"
    /\ ~ InFlight(m)

\* shred_memory's "cryptographically unrecoverable": once a shredded memory is
\* gone from the stores and from every batch in flight, no migration, sweep or
\* retry ever computes a vector from its text again.
ForgottenForGood == [][\A m \in Memories : Forgotten(m) => Forgotten(m)']_vars

\* The batch at the cursor of g holds no text.
TextlessBatch(g) ==
    \E last \in Left(g) :
        /\ EndsBatch(Left(g), BatchSize, last)
        /\ \A m \in UpTo(Left(g), last) : Decrypt(m, doc[m], m \in dek) = "none"

\* A running migration leaves that state, unless the loops are stuck at a
\* batch of which no memory has a text.
RunsToTheEnd ==
    \A g \in Migrations :
        status[g] = "running" ~>
            \/ status[g] # "running"
            \/ \E h \in Migrations : status[h] = "running" /\ TextlessBatch(h)

\* The sweep finds something to embed for m.
Readable(m) ==
    doc[m] = "code" \/ Decrypt(m, doc[m], m \in dek) # "none" \/ m \in Named \ Unreadable

\* A row whose vector is of another model is swept in the end, wherever the
\* runs' cursors are when it is stored, unless it has nothing to embed.
SweepCatchesUp ==
    \A m \in Memories : m \in Stale ~> (m \notin Stale \/ ~ Readable(m))

\* VALID_TRANSITIONS is what migrations do.
OnlyValidTransitions ==
    [][\A g \in Migrations :
          status[g] \notin {"unused", "starting"} /\ status'[g] # status[g] =>
              Live(g) /\ status'[g] \in ValidTransitions[status[g]]]_vars
=============================================================================
