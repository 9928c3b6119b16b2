------------------------------ MODULE RagEngine ------------------------------
(***************************************************************************)
(* retrieve_context (tools/tools.py): the engine cache of the process, the *)
(* RAGEngine objects with their RepoIndexer, and the two files of an index *)
(* on disk, index.faiss with the vectors and metadata.json with the        *)
(* chunks, which belong together by position.  The cache has no lock.      *)
(*                                                                         *)
(* An index is known by the number of the build that collected its chunks. *)
(***************************************************************************)
EXTENDS Naturals, FiniteSets

CONSTANT Fetchers   \* the threads that may be in retrieve_context

VARIABLES
  disk,      \* build of index.faiss and of metadata.json (0: no file), and which of them is torn
  engines,   \* the RAGEngine objects
  cached,    \* the one in _rag_engine_cache, or 0
  fetch,     \* per thread: the call it is in
  builds,    \* builds so far
  mixed,     \* history: two threads were at the files together, or a save stopped midway
  crossed    \* history: the searches during which another thread changed the engine's chunks

ragVars == <<disk, engines, cached, fetch, builds, mixed, crossed>>

\* vectors: what faiss has made of the build.  taken: what was read from an index or an indexer
\* and is to be put to use.
NoFetch == [stage |-> "idle", force |-> FALSE, eng |-> 0, since |-> 0, vectors |-> 0, taken |-> 0]

\* index, chunks: what searches use.  ixIndex, ixChunks: the attributes of the indexer.
NewEngine == [index |-> 0, chunks |-> 0, ixIndex |-> 0, ixChunks |-> 0]

\* No more than the cached one and one in the hands of each thread are alive.
EngineIds == 1..(Cardinality(Fetchers) + 1)

Reading == {"load"}
Saving == {"writeIndex", "saveChunks", "writeChunks"}
Building == {"collect", "saveIndex", "adopt", "adoptChunks"} \cup Saving
FetchStages ==
  {"idle", "lookup", "return", "search", "resolve", "ok", "failed"} \cup Reading \cup Building

RagInit ==
  /\ disk = [index |-> 0, chunks |-> 0, torn |-> {}]
  /\ engines = [e \in EngineIds |-> NewEngine]
  /\ cached = 0
  /\ fetch = [r \in Fetchers |-> NoFetch]
  /\ builds = 0
  /\ mixed = FALSE
  /\ crossed = {}

At(r, stage) == fetch[r].stage = stage
Move(r, stage) == fetch' = [fetch EXCEPT ![r].stage = stage]
OthersIn(r, stages) == \E q \in Fetchers \ {r} : fetch[q].stage \in stages
Mine(r) == engines[fetch[r].eng]

\* Nobody refers to the other objects any more.
Kept ==
  engines' = [e \in EngineIds |->
    IF e = cached' \/ \E r \in Fetchers : fetch'[r].eng = e THEN engines[e] ELSE NewEngine]

\* The call returns.
Finish(r, stage) == fetch' = [fetch EXCEPT ![r] = [NoFetch EXCEPT !.stage = stage]]

-----------------------------------------------------------------------------
(* _get_rag_engine *)

\* A forced call drops the cached engine first.
StartFetch(r, force) ==
  /\ fetch' = [fetch EXCEPT ![r] = [NoFetch EXCEPT !.stage = "lookup", !.force = force,
                                                   !.since = IF force THEN builds ELSE 0]]
  /\ cached' = IF force THEN 0 ELSE cached
  /\ UNCHANGED <<disk, builds, mixed, crossed>>
  /\ Kept

UseCached(r) ==
  /\ At(r, "lookup")
  /\ cached # 0
  /\ Move(r, "return")
  /\ UNCHANGED <<disk, engines, cached, builds, mixed, crossed>>

\* RAGEngine(auto_load = True): both files are there, or a new index is built.
Construct(r) ==
  /\ At(r, "lookup")
  /\ cached = 0
  /\ LET load == disk.index # 0 /\ disk.chunks # 0
         new == CHOOSE e \in EngineIds : \A q \in Fetchers : fetch[q].eng # e
     IN  /\ engines' = [engines EXCEPT ![new] = NewEngine]
         /\ fetch' = [fetch EXCEPT ![r].eng = new,
                                   ![r].stage = IF load THEN "load" ELSE "collect"]
         /\ mixed' = (mixed \/ OthersIn(r, IF load THEN Building ELSE Building \cup Reading))
  /\ UNCHANGED <<disk, cached, builds, crossed>>

\* RepoIndexer.load.  A save may have come as far as index.faiss.
Load(r) ==
  /\ At(r, "load")
  /\ disk.torn = {}
  /\ engines' = [engines EXCEPT ![fetch[r].eng].ixIndex = disk.index,
                                ![fetch[r].eng].ixChunks = disk.chunks]
  /\ Move(r, "adopt")
  /\ UNCHANGED <<disk, cached, builds, mixed, crossed>>

\* faiss.read_index and json.loads raise on an empty or partial file, whatever the call was
\* made for.
LoadFails(r) ==
  /\ At(r, "load")
  /\ disk.torn # {}
  /\ Finish(r, "failed")
  /\ UNCHANGED <<disk, cached, builds, mixed, crossed>>
  /\ Kept

-----------------------------------------------------------------------------
(* RepoIndexer.build and save *)

Collect(r) ==
  /\ At(r, "collect")
  /\ builds' = builds + 1
  /\ engines' = [engines EXCEPT ![fetch[r].eng].ixChunks = builds']
  /\ fetch' = [fetch EXCEPT ![r].stage = "saveIndex", ![r].vectors = builds']
  /\ UNCHANGED <<disk, cached, mixed, crossed>>

\* The embedder, or the collection, raises before anything is written.
BuildFails(r) ==
  /\ At(r, "saveIndex")
  /\ Finish(r, "failed")
  /\ UNCHANGED <<disk, cached, builds, mixed, crossed>>
  /\ Kept

\* faiss.write_index empties the file before it writes, as write_text does.
OpenIndex(r) ==
  /\ At(r, "saveIndex")
  /\ engines' = [engines EXCEPT ![fetch[r].eng].ixIndex = fetch[r].vectors]
  /\ disk' = [disk EXCEPT !.torn = @ \cup {"index"}, !.index = fetch[r].vectors]
  /\ Move(r, "writeIndex")
  /\ UNCHANGED <<cached, builds, mixed, crossed>>

WriteIndex(r) ==
  /\ At(r, "writeIndex")
  /\ disk' = [disk EXCEPT !.torn = @ \ {"index"}, !.index = fetch[r].vectors]
  /\ Move(r, "saveChunks")
  /\ UNCHANGED <<engines, cached, builds, mixed, crossed>>

OpenChunks(r) ==
  /\ At(r, "saveChunks")
  /\ disk' = [disk EXCEPT !.torn = @ \cup {"chunks"}, !.chunks = Mine(r).ixChunks]
  /\ Move(r, "writeChunks")
  /\ UNCHANGED <<engines, cached, builds, mixed, crossed>>

WriteChunks(r) ==
  /\ At(r, "writeChunks")
  /\ disk' = [disk EXCEPT !.torn = @ \ {"chunks"}, !.chunks = Mine(r).ixChunks]
  /\ Move(r, "adopt")
  /\ UNCHANGED <<engines, cached, builds, mixed, crossed>>

\* A full disk: index.faiss is torn, or it is new already and metadata.json is old or torn.
SaveFails(r) ==
  /\ fetch[r].stage \in Saving
  /\ Finish(r, "failed")
  /\ mixed' = TRUE
  /\ UNCHANGED <<disk, cached, builds, crossed>>
  /\ Kept

-----------------------------------------------------------------------------
(* Back in load_or_build or rebuild, and in _get_rag_engine *)

\* The two results of the indexer are assigned one after the other.
AdoptIndex(r) ==
  /\ At(r, "adopt")
  /\ engines' = [engines EXCEPT ![fetch[r].eng].index = Mine(r).ixIndex]
  /\ fetch' = [fetch EXCEPT ![r].stage = "adoptChunks", ![r].taken = Mine(r).ixChunks]
  /\ UNCHANGED <<disk, cached, builds, mixed, crossed>>

\* The other threads that are at this stage with the engine of this one.
Beside(r, stage) == {q \in Fetchers \ {r} : At(q, stage) /\ fetch[q].eng = fetch[r].eng}

\* A new engine is stored in the cache; a rebuilt one is searched.
AfterAdopt(r) ==
  IF Mine(r).chunks = 0
  THEN cached' = fetch[r].eng /\ Move(r, "return")
  ELSE UNCHANGED cached /\ Move(r, "search")

\* Mutation: a rebuild keeps the chunks the engine had.
AdoptNewOnly(r) ==
  /\ At(r, "adoptChunks")
  /\ engines' = [engines EXCEPT ![fetch[r].eng].chunks = IF @ = 0 THEN fetch[r].taken ELSE @]
  /\ crossed' = crossed \cup Beside(r, "resolve")
  /\ AfterAdopt(r)
  /\ UNCHANGED <<disk, builds, mixed>>

AdoptChunks(r) ==
  /\ At(r, "adoptChunks")
  /\ engines' = [engines EXCEPT ![fetch[r].eng].chunks = fetch[r].taken]
  /\ crossed' = crossed \cup Beside(r, "resolve")
  /\ AfterAdopt(r)
  /\ UNCHANGED <<disk, builds, mixed>>

\* The cache is read once more: another thread may have put its own engine there, or have
\* dropped the entry, and then the KeyError is the result.
Return(r) ==
  /\ At(r, "return")
  /\ IF cached = 0
     THEN Finish(r, "failed")
     ELSE fetch' = [fetch EXCEPT ![r].eng = cached,
                                 ![r].stage = IF fetch[r].force THEN "collect" ELSE "search"]
  /\ mixed' = (mixed \/ (cached # 0 /\ fetch[r].force /\ OthersIn(r, Building \cup Reading)))
  /\ UNCHANGED <<disk, cached, builds, crossed>>
  /\ Kept

\* similarity_search: the index gives positions.
SearchIndex(r) ==
  /\ At(r, "search")
  /\ fetch' = [fetch EXCEPT ![r].stage = "resolve", ![r].taken = Mine(r).index]
  /\ crossed' = IF Beside(r, "adoptChunks") = {} THEN crossed \ {r} ELSE crossed \cup {r}
  /\ UNCHANGED <<disk, engines, cached, builds, mixed>>

\* The embedder raises, for one.
SearchFails(r) ==
  /\ At(r, "search")
  /\ Finish(r, "failed")
  /\ UNCHANGED <<disk, cached, builds, mixed, crossed>>
  /\ Kept

\* The positions are looked up in the chunks, one by one, and the results ranked, which can
\* fail as well.
Resolve(r) ==
  /\ At(r, "resolve")
  /\ \E result \in {"ok", "failed"} : Finish(r, result)
  /\ crossed' = crossed \ {r}
  /\ UNCHANGED <<disk, cached, builds, mixed>>
  /\ Kept

FetchStep(r) ==
  \/ UseCached(r) \/ Construct(r) \/ Load(r) \/ LoadFails(r)
  \/ Collect(r) \/ BuildFails(r) \/ OpenIndex(r) \/ WriteIndex(r) \/ OpenChunks(r)
  \/ WriteChunks(r) \/ SaveFails(r)
  \/ AdoptIndex(r) \/ AdoptChunks(r) \/ Return(r)
  \/ SearchIndex(r) \/ SearchFails(r) \/ Resolve(r)

\* Calls for other workspaces fill the cache and push this engine out.
EvictEngine ==
  /\ cached # 0
  /\ cached' = 0
  /\ UNCHANGED <<disk, fetch, builds, mixed, crossed>>
  /\ Kept

\* The process dies; the files stay.
LoseEngines ==
  /\ cached' = 0
  /\ fetch' = [r \in Fetchers |-> NoFetch]
  /\ Kept
  /\ mixed' = (mixed \/ \E r \in Fetchers : fetch[r].stage \in Saving)
  /\ crossed' = {}
  /\ UNCHANGED <<disk, builds>>
=============================================================================
