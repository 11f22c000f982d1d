--------------------------- MODULE MemoryVectors ----------------------------
(***************************************************************************)
(* The tables that re-embedding and forgetting share: the memories rows     *)
(* with their wrapped keys and in-place vectors, memory_embeddings, and the *)
(* episode documents in MongoDB.  A vector is represented by what it was    *)
(* computed from: the plaintext, the ciphertext taken for text, or only the *)
(* row's name and path.                                                     *)
(***************************************************************************)
EXTENDS Integers, FiniteSets

CONSTANTS
    Memories,    \* memory ids in the order of the keyset pagination
    Models,      \* rows of embedding_models
    ActiveModel, \* the model in use at the start
    Preloaded,   \* memories stored before the first migration
    Encrypted,   \* memories stored with envelope encryption on
    Unreadable,  \* encrypted ones whose wrapped key cannot be unwrapped
    CodeChunks,  \* memories whose text is in code_files, not in episodes
    Named        \* memories with a name or a path to fall back on

ASSUME VectorsAssumption ==
    /\ Memories \subseteq Nat \ {0} /\ IsFiniteSet(Memories)
    /\ ActiveModel \in Models
    /\ Preloaded \subseteq Memories /\ Encrypted \subseteq Memories
    /\ Unreadable \subseteq Encrypted
    /\ CodeChunks \subseteq Preloaded \ Encrypted /\ Named \subseteq Memories

VARIABLES
    rows,      \* memories with a row
    doc,       \* the payload in MongoDB: raw_data of the episode, or code
    dek,       \* memories whose wrapped_dek is set
    vec,       \* memories.embedding
    stamped,   \* memories.embedding_model_id is the running code's model
    emb,       \* memory_embeddings
    shred      \* progress of shred_memory

vectorVars == <<rows, doc, dek, vec, stamped, emb, shred>>

Docs == {"none", "plain", "cipher", "code", "tombstone"}

Contents == {"none", "plain", "cipher", "meta"}

StoredDoc(m) ==
    IF m \in CodeChunks THEN "code" ELSE IF m \in Encrypted THEN "cipher" ELSE "plain"

VectorsInit ==
    /\ rows = Preloaded
    /\ doc = [m \in Memories |-> IF m \in Preloaded THEN StoredDoc(m) ELSE "none"]
    /\ dek = Preloaded \cap Encrypted
    /\ vec = [m \in Memories |-> IF m \in Preloaded THEN "plain" ELSE "none"]
    /\ stamped = {}
    /\ emb = [m \in Memories |-> [k \in Models |->
                IF m \in Preloaded /\ k = ActiveModel THEN "plain" ELSE "none"]]
    /\ shred = [m \in Memories |-> "no"]

\* maybe_decrypt_raw_data on an episode d of memory m, with or without its
\* wrapped key: no key means legacy plaintext, so ciphertext is taken as text.
Decrypt(m, d, key) ==
    CASE d \in {"none", "code", "tombstone"} -> "none"
      [] d = "plain"                         -> "plain"
      [] d = "cipher" /\ ~key                -> "cipher"
      [] OTHER                               -> IF m \in Unreadable THEN "none" ELSE "plain"

UpTo(S, last) == {m \in S : m <= last}

\* last ends the batch SELECT ... FROM S ORDER BY id LIMIT n.
EndsBatch(S, n, last) ==
    \/ Cardinality(UpTo(S, last)) = n
    \/ Cardinality(UpTo(S, last)) < n /\ UpTo(S, last) = S

VectorsTypeOK ==
    /\ rows \subseteq Memories
    /\ doc \in [Memories -> Docs]
    /\ dek \subseteq Memories
    /\ vec \in [Memories -> Contents]
    /\ stamped \subseteq Memories
    /\ emb \in [Memories -> [Models -> Contents]]
    /\ shred \in [Memories -> {"no", "durable", "done"}]
=============================================================================
