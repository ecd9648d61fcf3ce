--------------------------- MODULE DatabaseProofs ---------------------------
(***************************************************************************)
(* What queries read against what the engine holds, for every set of       *)
(* identifiers, records and batches, and any number of writes, rebuilds,   *)
(* crashes and restarts:                                                   *)
(*                                                                         *)
(*   the published maps        PublishedIsEngineAlways                     *)
(*   the unique keys           KeyLookupAlways                             *)
(*   labels, times, edges and  IndexIsRebuiltAlways                        *)
(*   vector candidates                                                     *)
(*   a session's overlay       OverlayAgreesAlways                         *)
(*   the vectors searched      RuntimeIsCurrentAlways, PinnedSearchAlways  *)
(***************************************************************************)
EXTENDS Database, IndexProofs

-----------------------------------------------------------------------------
(* The published maps                                                      *)

\* The published maps are the engine's maps on every key that no failed
\* metadata write and no rewired edge has touched since the last rebuild,
\* for every set of identifiers, records and batches.
THEOREM PublishedIsEngineAlways == Spec => []PublishedIsEngine
<1>1. Init => PublishedIsEngine
  BY DEF Init, PublishedIsEngine
<1>2. PublishedIsEngine /\ [Next]_vars => PublishedIsEngine'
  <2> SUFFICES ASSUME PublishedIsEngine, [Next]_vars, pc' # "down",
                      NEW k \in Keys \ suspect'
               PROVE  published'.graph[k] = graph'[k]
    BY DEF PublishedIsEngine, Up
  <2>1. ASSUME NEW b \in Batches, Write(b) PROVE published'.graph[k] = graph'[k]
    <3> DEFINE m == plan_batch_mutation(graph, b)
    <3>1. b \in WriteBatches
      BY DatabaseAssumption
    <3>2. /\ graph' = apply_batch_to_maps_unchecked(graph, b)
          /\ suspect' = suspect \cup Rewired(graph, b)
          /\ pc = "ready"
      BY <2>1 DEF Write, EngineApply
    <3>3. published'.graph = MutatedGraph(published.graph, m)
      <4>1. PICK full : ApplyMutation(m, full)
        BY <2>1 DEF Write
      <4> HIDE DEF m
      <4>2. published'.graph = SnapshotGraph(m)
        BY <4>1 DEF ApplyMutation
      <4> QED BY <4>2 DEF SnapshotGraph
    <3>4. k \in Keys \ Rewired(graph, b) /\ published.graph[k] = graph[k]
      BY <3>2 DEF PublishedIsEngine, Up
    <3>5. MutatedGraph(graph, m)[k] = apply_batch_to_maps_unchecked(graph, b)[k]
      BY <3>1, <3>4, PlannedKey
    <3>6. MutatedGraph(published.graph, m)[k] = MutatedGraph(graph, m)[k]
      BY <3>4, MutatedAlike
    <3> QED BY <3>2, <3>3, <3>5, <3>6
  <2>2. ASSUME NEW b \in Batches, WriteUnrecorded(b)
        PROVE  published'.graph[k] = graph'[k]
    <3>1. b \in WriteBatches
      BY DatabaseAssumption
    <3>2. /\ graph' = apply_batch_to_maps_unchecked(graph, b)
          /\ suspect' = suspect \cup batch_effects(graph, b)
          /\ pc = "ready" /\ published' = published
      BY <2>2 DEF WriteUnrecorded, EngineApply
    <3>3. published.graph[k] = graph[k]
      BY <3>2 DEF PublishedIsEngine, Up
    <3>4. graph'[k] = graph[k]
      BY <3>1, <3>2, AppliedOutside
    <3> QED BY <3>2, <3>3, <3>4
  <2>3. CASE rebuild_indexes \/ RefreshAfterCompaction
    BY <2>3 DEF rebuild_indexes, RefreshAfterCompaction, Refresh, engine
  <2>4. CASE compact \/ graceful_shutdown
    BY <2>4 DEF compact, graceful_shutdown, history, PublishedIsEngine, Up
  <2>5. CASE PersistFiles
    BY <2>5 DEF PersistFiles, Finished, Stopped, history, PublishedIsEngine, Up
  <2>6. CASE PersistManifest
    BY <2>6 DEF PersistManifest, Finished, Stopped, history, PublishedIsEngine, Up
  <2>7. CASE PersistFails
    BY <2>7 DEF PersistFails, engine, history, PublishedIsEngine, Up
  <2>8. CASE Crash
    BY <2>8 DEF Crash, Stopped
  <2>9. CASE Reopen
    BY <2>9 DEF Reopen
  <2>10. CASE Pin \/ Unpin
    BY <2>10 DEF Pin, Unpin, engine, PublishedIsEngine, Up
  <2>11. CASE UNCHANGED vars
    BY <2>11 DEF vars, engine, history, PublishedIsEngine, Up
  <2> QED
    BY <2>1, <2>2, <2>3, <2>4, <2>5, <2>6, <2>7, <2>8, <2>9, <2>10, <2>11 DEF Next
<1> QED BY <1>1, <1>2, PTL DEF Spec

-----------------------------------------------------------------------------
(* The engine's graphs                                                     *)

\* The engine holds a graph with finitely many nodes, and so does the opening.
EngineInv ==
    /\ graph \in Graphs /\ FiniteLive(graph)
    /\ recoverable # Absent => recoverable \in Graphs /\ FiniteLive(recoverable)

LEMMA EngineApplyFinite ==
    ASSUME EngineInv, NEW b \in Batches, EngineApply(b)
    PROVE  EngineInv'
<1>1. b \in WriteBatches
  BY DatabaseAssumption
<1>2. graph' \in Graphs /\ FiniteLive(graph')
  BY <1>1, ApplyType, AppliedFinite DEF EngineInv, EngineApply
<1>3. ASSUME recoverable' # Absent
      PROVE  recoverable' \in Graphs /\ FiniteLive(recoverable')
  <2>1. CASE recoverable' = recoverable
    BY <1>3, <2>1 DEF EngineInv
  <2>2. CASE /\ recoverable # Absent
             /\ recoverable' = apply_batch_to_maps_unchecked(recoverable, b)
    BY <1>1, <2>2, ApplyType, AppliedFinite DEF EngineInv
  <2> QED BY <1>3, <2>1, <2>2 DEF EngineApply
<1> QED BY <1>2, <1>3 DEF EngineInv

LEMMA EngineInvStep == EngineInv /\ [Next]_vars => EngineInv'
<1> SUFFICES ASSUME EngineInv, [Next]_vars PROVE EngineInv'
  OBVIOUS
<1>1. ASSUME NEW b \in Batches, Write(b) \/ WriteUnrecorded(b) PROVE EngineInv'
  BY <1>1, EngineApplyFinite DEF Write, WriteUnrecorded
<1>2. CASE rebuild_indexes \/ RefreshAfterCompaction \/ PersistFails \/ Pin \/ Unpin
  BY <1>2 DEF rebuild_indexes, RefreshAfterCompaction, PersistFails, Pin, Unpin,
              engine, EngineInv
<1>3. CASE compact \/ graceful_shutdown
  BY <1>3 DEF compact, graceful_shutdown, EngineInv
<1>4. CASE PersistFiles \/ PersistManifest \/ Crash
  <2>1. recoverable' = recoverable /\ graph' \in {graph, EmptyGraph}
    BY <1>4 DEF PersistFiles, PersistManifest, Crash, Finished, Stopped
  <2> QED BY <2>1, EmptyGraphFinite DEF EngineInv
<1>5. CASE Reopen
  BY <1>5 DEF Reopen, EngineInv
<1>6. CASE UNCHANGED vars
  BY <1>6 DEF vars, engine, EngineInv
<1> QED BY <1>1, <1>2, <1>3, <1>4, <1>5, <1>6 DEF Next

-----------------------------------------------------------------------------
(* What a step does to the index                                           *)

\* A step that leaves graph, index and snapshot alone.
Leaves == UNCHANGED << graph, indexes, published, suspect, collided, mixed >>

\* A process that runs after a step has written, refreshed, opened or left
\* its index alone.
LEMMA StepKinds ==
    ASSUME [Next]_vars, pc' # "down"
    PROVE  \/ \E b \in Batches : Write(b) \/ WriteUnrecorded(b)
           \/ pc # "down" /\ Refresh /\ graph' = graph
           \/ Reopen
           \/ pc # "down" /\ Leaves
<1>1. CASE rebuild_indexes \/ RefreshAfterCompaction
  BY <1>1 DEF rebuild_indexes, RefreshAfterCompaction, engine
<1>2. CASE compact \/ graceful_shutdown
  BY <1>2 DEF compact, graceful_shutdown, history, Leaves
<1>3. CASE PersistFiles
  BY <1>3 DEF PersistFiles, Finished, Stopped, history, Leaves
<1>4. CASE PersistManifest
  BY <1>4 DEF PersistManifest, Finished, Stopped, history, Leaves
<1>5. CASE PersistFails
  BY <1>5 DEF PersistFails, engine, history, Leaves
<1>6. CASE Crash
  BY <1>6 DEF Crash, Stopped
<1>7. CASE Pin
  BY <1>7 DEF Pin, engine, Leaves
<1>8. CASE Unpin
  <2>1. pc # "down"
    BY <1>8 DEF Unpin
  <2> QED BY <1>8, <2>1 DEF Unpin, engine, Leaves
<1>9. CASE UNCHANGED vars
  BY <1>9 DEF vars, engine, history, Leaves
<1> QED
  BY <1>1, <1>2, <1>3, <1>4, <1>5, <1>6, <1>7, <1>8, <1>9 DEF Next

-----------------------------------------------------------------------------
(* Unique keys                                                             *)

LEMMA KeyLookupIs ==
    KeyLookup <=> (Up => Finds(published.index.structure, graph, suspect, collided))
BY DEF KeyLookup, Finds

\* unique_key finds only a node that has the key, and every node whose key was
\* never shared since the last rebuild: rebuilt, updated in place by any
\* sequence of writes, or opened, for every set of identifiers and batches.
THEOREM KeyLookupAlways == Spec => []KeyLookup
<1> DEFINE Inv == EngineInv /\ KeyLookup
<1>1. Init => Inv
  <2> SUFFICES ASSUME Init PROVE Inv
    OBVIOUS
  <2>1. EngineInv
    BY EmptyGraphFinite DEF Init, EngineInv
  <2>2. /\ published.index.structure = RebuiltStructure(EmptyGraph)
        /\ graph = EmptyGraph /\ collided = {}
    BY DEF Init, EmptyIndex
  <2>3. Finds(RebuiltStructure(EmptyGraph), EmptyGraph, suspect, Shared(EmptyGraph))
    BY RebuildFinds, EmptyGraphFinite
  <2>4. \A key : Owners(EmptyGraph, key) = {}
    BY DEF Owners, LiveNodes, Live, EmptyGraph, Keys
  <2>5. Finds(RebuiltStructure(EmptyGraph), EmptyGraph, suspect, {})
    BY <2>3, <2>4 DEF Finds
  <2> QED BY <2>1, <2>2, <2>5, KeyLookupIs
<1>2. Inv /\ [Next]_vars => Inv'
  <2> SUFFICES ASSUME Inv, [Next]_vars, pc' # "down"
               PROVE  Finds(published'.index.structure, graph', suspect', collided')
    BY EngineInvStep DEF KeyLookup, Finds, Up
  <2>1. ASSUME NEW b \in Batches, Write(b)
        PROVE  Finds(published'.index.structure, graph', suspect', collided')
    <3> DEFINE m == plan_batch_mutation(graph, b)
    <3>1. b \in WriteBatches
      BY DatabaseAssumption
    <3>2. /\ graph' = apply_batch_to_maps_unchecked(graph, b)
          /\ suspect' = suspect \cup Rewired(graph, b)
          /\ collided' = collided \cup Shared(graph')
          /\ pc = "ready"
      BY <2>1 DEF Write, EngineApply, Observe, Shared
    <3>3. published'.index.structure = MutatedStructure(published.index.structure, m)
      <4>1. PICK full : ApplyMutation(m, full)
        BY <2>1 DEF Write
      <4> HIDE DEF m
      <4>2. PICK spaces : published'.index = SnapshotIndex(m, spaces)
        BY <4>1 DEF ApplyMutation
      <4> QED BY <4>2 DEF SnapshotIndex
    <3>4. Finds(published.index.structure, graph, suspect, collided)
      BY <3>2, KeyLookupIs DEF Up
    <3> QED BY <3>1, <3>2, <3>3, <3>4, MutationFinds DEF EngineInv
  <2>2. ASSUME NEW b \in Batches, WriteUnrecorded(b)
        PROVE  Finds(published'.index.structure, graph', suspect', collided')
    <3>1. b \in WriteBatches
      BY DatabaseAssumption
    <3>2. /\ graph' = apply_batch_to_maps_unchecked(graph, b)
          /\ suspect' = suspect \cup batch_effects(graph, b)
          /\ collided' = collided \cup Shared(graph')
          /\ pc = "ready" /\ published' = published
      BY <2>2 DEF WriteUnrecorded, EngineApply, Observe, Shared
    <3>3. Finds(published.index.structure, graph, suspect, collided)
      BY <3>2, KeyLookupIs DEF Up
    <3> QED BY <3>1, <3>2, <3>3, UnrecordedFinds
  <2>3. CASE pc # "down" /\ Refresh /\ graph' = graph
    <3>1. /\ published'.index.structure = RebuiltStructure(graph)
          /\ collided' = Shared(graph)
      BY <2>3 DEF Refresh, Rebuilt, Shared
    <3> QED BY <2>3, <3>1, RebuildFinds DEF EngineInv
  <2>4. CASE Reopen
    <3>1. /\ published'.index = indexes'
          /\ indexes'.structure = RebuiltStructure(recoverable)
          /\ collided' = Shared(recoverable)
          /\ graph' = recoverable /\ recoverable # Absent
      <4>1. /\ published'.index = indexes'
            /\ collided' = Shared(recoverable)
            /\ graph' = recoverable /\ recoverable # Absent
        BY <2>4 DEF Reopen, Shared
      <4>2. PICK spaces : indexes' = [BaseIndex EXCEPT !.spaces = spaces]
        BY <2>4 DEF Reopen
      <4> QED BY <4>1, <4>2 DEF BaseIndex
    <3> QED BY <3>1, RebuildFinds DEF EngineInv
  <2>5. CASE pc # "down" /\ Leaves
    BY <2>5, KeyLookupIs DEF Leaves, Up
  <2> QED BY <2>1, <2>2, <2>3, <2>4, <2>5, StepKinds
<1>3. Inv => KeyLookup
  OBVIOUS
<1> QED BY <1>1, <1>2, <1>3, PTL DEF Spec

-----------------------------------------------------------------------------
(* The shape of indexes, runtimes and files                                *)

IsSnapshot(s) ==
    /\ s = [graph |-> s.graph, index |-> s.index]
    /\ IsIndex(s.index)

ShapeInv ==
    /\ IsIndex(indexes)
    /\ IsSnapshot(published)
    /\ pinned # Absent => IsSnapshot(pinned)
    /\ heap = [name \in VectorNames |-> [r \in Refs |-> heap[name][r]]]
    /\ \A name \in VectorNames : \A r \in Refs : IsContent(heap[name][r])
    /\ \A f \in Sidecars : sidecars[f] # Absent => IsContent(sidecars[f])

Own(name, m, full) ==
    MutatedSpace(indexes.spaces[name], ContentOf(indexes.spaces[name], heap[name]),
                 name, m, full)

Row(name, m, full) ==
    [r \in Refs |-> IF r = indexes.spaces[name].runtime
                    THEN Own(name, m, full).content ELSE heap[name][r]]

Clone(name, m, full) ==
    MutatedSpace(published.index.spaces[name],
                 ContentOf(published.index.spaces[name], Row(name, m, full)),
                 name, m, full)

LEMMA ApplyMutationIs ==
    ASSUME NEW m, NEW full, ApplyMutation(m, full), ShapeInv
    PROVE  /\ indexes' = [structure |-> MutatedStructure(indexes.structure, m),
                          spaces |-> [name \in VectorNames |-> Own(name, m, full).space],
                          max_nodes |-> indexes.max_nodes]
           /\ published' =
                [graph |-> MutatedGraph(published.graph, m),
                 index |->
                   [structure |-> MutatedStructure(published.index.structure, m),
                    spaces |-> [name \in VectorNames |-> Clone(name, m, full).space],
                    max_nodes |-> published.index.max_nodes]]
           /\ heap' = [name \in VectorNames |-> [r \in Refs |->
                         IF r = published.index.spaces[name].runtime
                         THEN Clone(name, m, full).content ELSE Row(name, m, full)[r]]]
<1>1. indexes = [structure |-> indexes.structure, spaces |-> indexes.spaces,
                 max_nodes |-> indexes.max_nodes]
  BY DEF ShapeInv, IsIndex
<1>2. indexes' = [indexes EXCEPT
                    !.structure = MutatedStructure(@, m),
                    !.spaces = [name \in VectorNames |-> Own(name, m, full).space]]
  BY Zenon DEF ApplyMutation, Own, ContentOf
<1>3. published' = [graph |-> SnapshotGraph(m),
                    index |-> SnapshotIndex(m,
                       [name \in VectorNames |-> Clone(name, m, full).space])]
  BY Zenon DEF ApplyMutation, Own, ContentOf, Row, Clone
<1>4. heap' = [name \in VectorNames |-> [r \in Refs |->
                 IF r = published.index.spaces[name].runtime
                 THEN Clone(name, m, full).content ELSE Row(name, m, full)[r]]]
  BY Zenon DEF ApplyMutation, Own, ContentOf, Row, Clone
<1>5. indexes' = [structure |-> MutatedStructure(indexes.structure, m),
                  spaces |-> [name \in VectorNames |-> Own(name, m, full).space],
                  max_nodes |-> indexes.max_nodes]
  BY <1>1, <1>2
<1> QED BY <1>3, <1>4, <1>5 DEF SnapshotGraph, SnapshotIndex

\* Both mutated spaces are spaces again, and so are the runtimes between.
LEMMA CloneStates ==
    ASSUME ShapeInv, EngineInv, NEW b \in WriteBatches, NEW full,
           NEW name \in VectorNames
    PROVE  LET m == plan_batch_mutation(graph, b)
               s == indexes.spaces[name]
               t == published.index.spaces[name]
           IN  /\ IsState([space |-> s, content |-> ContentOf(s, heap[name])])
               /\ IsState(Own(name, m, full)) /\ IsSpace(Own(name, m, full).space)
               /\ \A r \in Refs : IsContent(Row(name, m, full)[r])
               /\ IsState([space |-> t, content |-> ContentOf(t, Row(name, m, full))])
               /\ IsState(Clone(name, m, full)) /\ IsSpace(Clone(name, m, full).space)
<1> DEFINE m == plan_batch_mutation(graph, b)
           s == indexes.spaces[name]
           t == published.index.spaces[name]
<1>1. IsSpace(s) /\ IsSpace(t) /\ \A r \in Refs : IsContent(heap[name][r])
  BY DEF ShapeInv, IsSnapshot, IsIndex
<1>2. graph \in Graphs /\ FiniteLive(graph)
  BY DEF EngineInv
<1>3. IsState([space |-> s, content |-> ContentOf(s, heap[name])])
  BY <1>1, StateOf
<1>4. /\ IsState(Own(name, m, full))
      /\ Own(name, m, full).space.runtime \in {0, s.runtime}
  BY <1>2, <1>3, SpaceMutated DEF Own
<1> HIDE DEF m
<1>5. IsSpace(Own(name, m, full).space)
  BY <1>1, <1>4 DEF IsSpace, IsState
<1>6. \A r \in Refs : IsContent(Row(name, m, full)[r])
  <2>1. IsContent(Own(name, m, full).content)
    BY <1>4 DEF IsState, IsContent
  <2> QED BY <1>1, <2>1 DEF Row
<1>7. IsState([space |-> t, content |-> ContentOf(t, Row(name, m, full))])
  BY <1>1, <1>6, StateOf
<1>8. /\ IsState(Clone(name, m, full))
      /\ Clone(name, m, full).space.runtime \in {0, t.runtime}
  BY <1>2, <1>7, SpaceMutated DEF Clone, m
<1>9. IsSpace(Clone(name, m, full).space)
  BY <1>1, <1>8 DEF IsSpace, IsState
<1> QED BY <1>3, <1>4, <1>5, <1>6, <1>7, <1>8, <1>9 DEF m

LEMMA FreshIs ==
    ASSUME NEW name, Free(name) # {}
    PROVE  Fresh(name) \in Free(name) /\ Fresh(name) \in Refs
<1>1. Fresh(name) \in Free(name)
  BY DEF Fresh
<1> QED BY <1>1 DEF Free

LEMMA EmptyShapes ==
    /\ IsIndex(EmptyIndex)
    /\ IsSnapshot([graph |-> EmptyGraph, index |-> EmptyIndex])
    /\ NoRuntimes = [name \in VectorNames |-> [r \in Refs |-> NoRuntimes[name][r]]]
    /\ \A name \in VectorNames : \A r \in Refs : IsContent(NoRuntimes[name][r])
<1>1. IsContent(EmptyContent)
  BY DEF IsContent, EmptyContent
<1>2. IsSpace(NoSpace)
  BY DEF IsSpace, NoSpace
<1>3. IsIndex(EmptyIndex)
  BY <1>2 DEF IsIndex, EmptyIndex
<1>4. IsSnapshot([graph |-> EmptyGraph, index |-> EmptyIndex])
  BY <1>3 DEF IsSnapshot
<1> HIDE DEF EmptyContent
<1>5. /\ NoRuntimes = [name \in VectorNames |-> [r \in Refs |-> NoRuntimes[name][r]]]
      /\ \A name \in VectorNames : \A r \in Refs : NoRuntimes[name][r] = EmptyContent
  BY DEF NoRuntimes
<1> QED BY <1>1, <1>3, <1>4, <1>5

\* persist_index_snapshot writes what runtimes hold.
LEMMA FilesShape ==
    ASSUME ShapeInv, NEW names \in SUBSET WithRuntime, NEW fs \in FilesOf(names),
           NEW f \in Sidecars, fs[f] # Absent
    PROVE  /\ IsContent(fs[f])
           /\ \E name \in names : /\ SidecarOf[name] = f
                                  /\ fs[f] = heap[name][indexes.spaces[name].runtime]
<1>1. PICK name \in names : /\ SidecarOf[name] = f
                            /\ fs[f] = heap[name][indexes.spaces[name].runtime]
  BY DEF FilesOf
<1>2. name \in VectorNames /\ indexes.spaces[name].runtime \in Refs
  BY DEF WithRuntime, ShapeInv, IsIndex, IsSpace
<1> QED BY <1>1, <1>2 DEF ShapeInv

\* Opening: what Reopen computes, by name.
BaseSpace(name) == RebuiltSpace(recoverable, name, FirstRef)

LEMMA ReopenIs ==
    ASSUME Reopen
    PROVE  \E loaded \in Loadable :
             /\ indexes' = [structure |-> RebuiltStructure(recoverable),
                            spaces |-> [name \in VectorNames |->
                                          OpenedSpace(name, loaded)],
                            max_nodes |-> Cardinality(LiveNodes(recoverable))]
             /\ published' = [graph |-> recoverable, index |-> indexes']
             /\ heap' = [name \in VectorNames |->
                  [NoRuntimes[name] EXCEPT ![FirstRef] = OpenedContent(name, loaded)]]
<1>1. PICK loaded \in Loadable :
         /\ indexes' = [BaseIndex EXCEPT !.spaces =
                          [name \in VectorNames |-> OpenedSpace(name, loaded)]]
         /\ heap' = [name \in VectorNames |->
              [NoRuntimes[name] EXCEPT ![FirstRef] = OpenedContent(name, loaded)]]
  BY DEF Reopen
<1>2. indexes' = [structure |-> RebuiltStructure(recoverable),
                  spaces |-> [name \in VectorNames |-> OpenedSpace(name, loaded)],
                  max_nodes |-> Cardinality(LiveNodes(recoverable))]
  BY <1>1 DEF BaseIndex
<1>3. published' = [graph |-> recoverable, index |-> indexes']
  BY DEF Reopen
<1> QED BY <1>1, <1>2, <1>3, Zenon

LEMMA BaseSpaceIs ==
    ASSUME NEW name \in VectorNames
    PROVE  BaseIndex.spaces[name] = BaseSpace(name)
BY DEF BaseIndex, BaseSpace

\* A space is loaded only if it has candidates and a file.
LEMMA LoadedIs ==
    ASSUME NEW loaded \in Loadable, NEW name \in loaded
    PROVE  /\ name \in VectorNames /\ LoadsFiles
           /\ BaseSpace(name).candidates # {}
           /\ sidecars[SidecarOf[name]] # Absent
<1>1. /\ name \in VectorNames /\ LoadsFiles
      /\ BaseIndex.spaces[name].candidates # {}
      /\ sidecars[SidecarOf[name]] # Absent
  BY DEF Loadable
<1> QED BY <1>1, BaseSpaceIs

\* What an opening leaves in memory.
LEMMA OpenedShape ==
    ASSUME ShapeInv, Reopen
    PROVE  /\ IsIndex(indexes') /\ IsSnapshot(published')
           /\ heap' = [name \in VectorNames |-> [r \in Refs |-> heap'[name][r]]]
           /\ \A name \in VectorNames : \A r \in Refs : IsContent(heap'[name][r])
           /\ \E loaded \in Loadable : \A name \in VectorNames :
                 /\ indexes'.spaces[name] = OpenedSpace(name, loaded)
                 /\ heap'[name][FirstRef] = OpenedContent(name, loaded)
<1>1. FirstRef \in Refs
  BY IndexAssumption DEF FirstRef
<1> PICK loaded \in Loadable :
          /\ indexes' = [structure |-> RebuiltStructure(recoverable),
                         spaces |-> [name \in VectorNames |->
                                       OpenedSpace(name, loaded)],
                         max_nodes |-> Cardinality(LiveNodes(recoverable))]
          /\ published' = [graph |-> recoverable, index |-> indexes']
          /\ heap' = [name \in VectorNames |->
               [NoRuntimes[name] EXCEPT ![FirstRef] = OpenedContent(name, loaded)]]
  BY ReopenIs
<1>2. ASSUME NEW name \in VectorNames PROVE IsSpace(OpenedSpace(name, loaded))
  <2>1. IsSpace(BaseIndex.spaces[name])
    BY <1>1, RebuiltSpaceIs, BaseSpaceIs DEF BaseSpace
  <2> QED BY <1>1, <2>1 DEF OpenedSpace, IsSpace
<1>3. IsIndex(indexes')
  BY <1>2 DEF IsIndex
<1>4. IsSnapshot(published')
  BY <1>3 DEF IsSnapshot
<1>5. ASSUME NEW name \in VectorNames PROVE IsContent(OpenedContent(name, loaded))
  <2>1. IsContent(EmptyContent) /\ IsContent(BuiltContent(recoverable, name))
    BY BuiltContentIs DEF IsContent, EmptyContent
  <2>2. name \in loaded => IsContent(sidecars[SidecarOf[name]])
    BY LoadedIs DEF ShapeInv, Sidecars
  <2> QED BY <2>1, <2>2 DEF OpenedContent
<1>6. ASSUME NEW name \in VectorNames
      PROVE  heap'[name] = [r \in Refs |-> IF r = FirstRef
                                           THEN OpenedContent(name, loaded)
                                           ELSE EmptyContent]
  <2>1. heap'[name] = [NoRuntimes[name] EXCEPT ![FirstRef] = OpenedContent(name, loaded)]
    OBVIOUS
  <2>2. NoRuntimes[name] = [r \in Refs |-> EmptyContent]
    BY DEF NoRuntimes
  <2> QED BY <2>1, <2>2
<1>7. IsContent(EmptyContent)
  BY DEF IsContent, EmptyContent
<1>8. heap' = [name \in VectorNames |-> heap'[name]]
  OBVIOUS
<1>9. heap' = [name \in VectorNames |-> [r \in Refs |-> heap'[name][r]]]
  <2>1. \A name \in VectorNames : heap'[name] = [r \in Refs |-> heap'[name][r]]
    BY <1>6
  <2>2. [name \in VectorNames |-> heap'[name]]
          = [name \in VectorNames |-> [r \in Refs |-> heap'[name][r]]]
    BY <2>1, Zenon
  <2> QED BY <1>8, <2>2
<1>10. \A name \in VectorNames : \A r \in Refs : IsContent(heap'[name][r])
  BY <1>5, <1>6, <1>7
<1>11. \A name \in VectorNames :
          /\ indexes'.spaces[name] = OpenedSpace(name, loaded)
          /\ heap'[name][FirstRef] = OpenedContent(name, loaded)
  BY <1>1, <1>6
<1> QED BY <1>3, <1>4, <1>9, <1>10, <1>11

\* The files after a step: as they were, or what runtimes held.
LEMMA FilesStep ==
    ASSUME ShapeInv, [Next]_vars, NEW f \in Sidecars, sidecars'[f] # Absent
    PROVE  IsContent(sidecars'[f])
<1>1. ASSUME NEW names \in SUBSET WithRuntime, sidecars' \in FilesOf(names)
      PROVE  IsContent(sidecars'[f])
  BY <1>1, FilesShape
<1>2. CASE sidecars' = sidecars
  BY <1>2 DEF ShapeInv
<1>9. CASE PartlyReplaced
  BY <1>1, <1>9 DEF PartlyReplaced, Replaced, ShapeInv
<1>3. CASE PersistFiles
  BY <1>1, <1>3 DEF PersistFiles, Replaced
<1>4. CASE PersistFails
  BY <1>2, <1>4, <1>9 DEF PersistFails
<1>5. CASE Crash
  BY <1>2, <1>5, <1>9 DEF Crash
<1>6. ASSUME NEW b \in Batches, Write(b) \/ WriteUnrecorded(b)
      PROVE  sidecars' = sidecars
  BY <1>6 DEF Write, WriteUnrecorded, files
<1>7. CASE \/ rebuild_indexes \/ compact \/ RefreshAfterCompaction
           \/ graceful_shutdown \/ PersistManifest \/ Reopen \/ Pin \/ Unpin
  <2>1. sidecars' = sidecars
    BY <1>7 DEF rebuild_indexes, compact, RefreshAfterCompaction, graceful_shutdown,
                PersistManifest, Reopen, Pin, Unpin, files
  <2> QED BY <1>2, <2>1
<1>8. CASE UNCHANGED vars
  BY <1>2, <1>8 DEF vars, files
<1> QED BY <1>2, <1>3, <1>4, <1>5, <1>6, <1>7, <1>8 DEF Next

\* A process that has ended has no memory.
DownInv ==
    pc = "down" =>
        /\ graph = EmptyGraph
        /\ indexes = EmptyIndex
        /\ published = [graph |-> EmptyGraph, index |-> EmptyIndex]
        /\ pinned = Absent
        /\ heap = NoRuntimes
        /\ suspect = {} /\ collided = {} /\ mixed = {} /\ touched = {}
        /\ stale_load = FALSE

\* The memory after a step, when the process has ended.
LEMMA DownStep ==
    ASSUME [Next]_vars, DownInv, pc' = "down"
    PROVE  \/ Stopped
           \/ UNCHANGED << pc, graph, indexes, published, pinned, heap, suspect,
                           collided, mixed, touched, stale_load >>
<1>1. ASSUME NEW b \in Batches, Write(b) \/ WriteUnrecorded(b) PROVE FALSE
  BY <1>1 DEF Write, WriteUnrecorded
<1>2. CASE rebuild_indexes \/ compact \/ RefreshAfterCompaction \/ graceful_shutdown
  BY <1>2 DEF rebuild_indexes, compact, RefreshAfterCompaction, graceful_shutdown
<1>3. CASE PersistFiles
  BY <1>3 DEF PersistFiles, Finished
<1>4. CASE PersistManifest
  BY <1>4 DEF PersistManifest, Finished
<1>5. CASE PersistFails
  BY <1>5 DEF PersistFails
<1>6. CASE Crash
  BY <1>6 DEF Crash
<1>7. CASE Reopen
  BY <1>7 DEF Reopen
<1>8. CASE Pin
  BY <1>8 DEF Pin
<1>9. CASE UNCHANGED vars
  BY <1>9 DEF vars, engine, history
<1>10. CASE Unpin
  BY <1>10 DEF Unpin, DownInv
<1> QED
  BY <1>1, <1>2, <1>3, <1>4, <1>5, <1>6, <1>7, <1>8, <1>9, <1>10 DEF Next

LEMMA DownInvStep == DownInv /\ [Next]_vars => DownInv'
<1> SUFFICES ASSUME DownInv, [Next]_vars, pc' = "down" PROVE DownInv'
  BY DEF DownInv
<1>1. CASE Stopped
  BY <1>1 DEF Stopped, DownInv
<1>2. CASE UNCHANGED << pc, graph, indexes, published, pinned, heap, suspect,
                        collided, mixed, touched, stale_load >>
  BY <1>2 DEF DownInv
<1> QED BY <1>1, <1>2, DownStep

LEMMA InitShape == Init => ShapeInv /\ DownInv /\ EngineInv
<1> SUFFICES ASSUME Init PROVE ShapeInv /\ DownInv /\ EngineInv
  OBVIOUS
<1>1. EngineInv
  BY EmptyGraphFinite DEF Init, EngineInv
<1>2. DownInv
  BY DEF Init, DownInv
<1>3. \A f \in Sidecars : sidecars[f] = Absent
  BY DEF Init, NoFiles
<1>4. ShapeInv
  BY <1>3, EmptyShapes DEF Init, ShapeInv
<1> QED BY <1>1, <1>2, <1>4

\* Row by row: a heap with contents only.
IsHeap(h) ==
    /\ h = [name \in VectorNames |-> [r \in Refs |-> h[name][r]]]
    /\ \A name \in VectorNames : \A r \in Refs : IsContent(h[name][r])

LEMMA HeapIs ==
    ASSUME NEW h, h = [name \in VectorNames |-> h[name]],
           \A name \in VectorNames : h[name] = [r \in Refs |-> h[name][r]],
           \A name \in VectorNames : \A r \in Refs : IsContent(h[name][r])
    PROVE  IsHeap(h)
<1>1. [name \in VectorNames |-> h[name]]
        = [name \in VectorNames |-> [r \in Refs |-> h[name][r]]]
  BY Zenon
<1>2. h = [name \in VectorNames |-> [r \in Refs |-> h[name][r]]]
  BY <1>1
<1> QED BY <1>2 DEF IsHeap

LEMMA ShapeInvStep == ShapeInv /\ DownInv /\ EngineInv /\ [Next]_vars => ShapeInv'
<1> SUFFICES ASSUME ShapeInv, DownInv, EngineInv, [Next]_vars PROVE ShapeInv'
  OBVIOUS
<1>1. \A f \in Sidecars : sidecars'[f] # Absent => IsContent(sidecars'[f])
  BY FilesStep
<1>2. IsHeap(heap)
  BY DEF ShapeInv, IsHeap
<1>3. SUFFICES /\ IsIndex(indexes') /\ IsSnapshot(published')
               /\ pinned' # Absent => IsSnapshot(pinned')
               /\ IsHeap(heap')
  BY <1>1 DEF ShapeInv, IsHeap
<1> DEFINE Goal == /\ IsIndex(indexes') /\ IsSnapshot(published')
                   /\ pinned' # Absent => IsSnapshot(pinned')
                   /\ IsHeap(heap')
<1>4. CASE UNCHANGED << indexes, published, pinned, heap >>
  BY <1>2, <1>4 DEF ShapeInv
<1>5. ASSUME NEW b \in Batches, Write(b) PROVE Goal
  <2> DEFINE m == plan_batch_mutation(graph, b)
  <2>1. b \in WriteBatches /\ pinned' = pinned
    BY <1>5, DatabaseAssumption DEF Write
  <2>2. PICK full : ApplyMutation(m, full)
    BY <1>5 DEF Write
  <2>3. ASSUME NEW name \in VectorNames
        PROVE  /\ IsState(Own(name, m, full)) /\ IsSpace(Own(name, m, full).space)
               /\ \A r \in Refs : IsContent(Row(name, m, full)[r])
               /\ IsState(Clone(name, m, full)) /\ IsSpace(Clone(name, m, full).space)
    BY <2>1, CloneStates
  <2> HIDE DEF m
  <2>4. /\ indexes' = [structure |-> MutatedStructure(indexes.structure, m),
                       spaces |-> [name \in VectorNames |-> Own(name, m, full).space],
                       max_nodes |-> indexes.max_nodes]
        /\ published' =
             [graph |-> MutatedGraph(published.graph, m),
              index |->
                [structure |-> MutatedStructure(published.index.structure, m),
                 spaces |-> [name \in VectorNames |-> Clone(name, m, full).space],
                 max_nodes |-> published.index.max_nodes]]
        /\ heap' = [name \in VectorNames |-> [r \in Refs |->
                      IF r = published.index.spaces[name].runtime
                      THEN Clone(name, m, full).content ELSE Row(name, m, full)[r]]]
    BY <2>2, ApplyMutationIs
  <2>5. IsIndex(indexes')
    BY <2>3, <2>4 DEF IsIndex
  <2>6. IsIndex(published'.index)
    BY <2>3, <2>4 DEF IsIndex
  <2>7. IsSnapshot(published')
    BY <2>4, <2>6 DEF IsSnapshot
  <2>8. IsHeap(heap')
    <3> DEFINE row(name, r) == IF r = published.index.spaces[name].runtime
                               THEN Clone(name, m, full).content
                               ELSE Row(name, m, full)[r]
    <3>1. \A name \in VectorNames : IsContent(Clone(name, m, full).content)
      BY <2>3 DEF IsState, IsContent
    <3>2. \A name \in VectorNames : \A r \in Refs : IsContent(row(name, r))
      BY <2>3, <3>1
    <3>3. heap' = [name \in VectorNames |-> [r \in Refs |-> row(name, r)]]
      BY <2>4
    <3> HIDE DEF row
    <3>4. /\ heap' = [name \in VectorNames |-> heap'[name]]
          /\ \A name \in VectorNames : heap'[name] = [r \in Refs |-> row(name, r)]
      BY <3>3
    <3>5. \A name \in VectorNames : heap'[name] = [r \in Refs |-> heap'[name][r]]
      BY <3>4
    <3>6. \A name \in VectorNames : \A r \in Refs : heap'[name][r] = row(name, r)
      BY <3>4
    <3> QED BY <3>2, <3>4, <3>5, <3>6, HeapIs
  <2> QED BY <2>1, <2>5, <2>7, <2>8 DEF ShapeInv
<1>6. ASSUME Refresh, pinned' = pinned PROVE Goal
  <2>1. ASSUME NEW name \in VectorNames
        PROVE  /\ Fresh(name) \in Refs
               /\ IsSpace(RebuiltSpace(graph, name, Fresh(name)))
    BY <1>6, FreshIs, RebuiltSpaceIs DEF Refresh
  <2>2. IsIndex(Rebuilt(graph))
    BY <2>1 DEF Rebuilt, IsIndex
  <2>3. IsIndex(indexes') /\ IsSnapshot(published')
    BY <1>6, <2>2 DEF Refresh, IsSnapshot
  <2>4. IsHeap(heap')
    <3> DEFINE row(name, r) == IF r = RebuiltSpace(graph, name, Fresh(name)).runtime
                               THEN BuiltContent(graph, name)
                               ELSE IF pinned # Absent /\ r = pinned.index.spaces[name].runtime
                               THEN heap[name][r] ELSE EmptyContent
    <3>1. IsContent(EmptyContent)
      BY DEF IsContent, EmptyContent
    <3>2. \A name \in VectorNames : \A r \in Refs : IsContent(row(name, r))
      BY <1>2, <3>1, BuiltContentIs DEF IsHeap
    <3>3. heap' = [name \in VectorNames |-> [r \in Refs |-> row(name, r)]]
      BY <1>6 DEF Refresh, HeapWith
    <3> HIDE DEF row
    <3>4. /\ heap' = [name \in VectorNames |-> heap'[name]]
          /\ \A name \in VectorNames : heap'[name] = [r \in Refs |-> row(name, r)]
      BY <3>3
    <3>5. \A name \in VectorNames : heap'[name] = [r \in Refs |-> heap'[name][r]]
      BY <3>4
    <3>6. \A name \in VectorNames : \A r \in Refs : heap'[name][r] = row(name, r)
      BY <3>4
    <3> QED BY <3>2, <3>4, <3>5, <3>6, HeapIs
  <2> QED BY <1>6, <2>3, <2>4 DEF ShapeInv
<1>7. CASE Reopen
  <2>1. pinned' = pinned
    BY <1>7 DEF Reopen
  <2>2. IsHeap(heap')
    BY <1>7, OpenedShape DEF IsHeap
  <2> QED BY <1>7, <2>1, <2>2, OpenedShape DEF ShapeInv
<1>8. CASE Pin
  <2>1. pinned' = published /\ UNCHANGED << indexes, published, heap >>
    BY <1>8 DEF Pin
  <2> QED BY <1>2, <2>1 DEF ShapeInv
<1>9. CASE Unpin
  <2>1. /\ pinned' = Absent /\ UNCHANGED << indexes, published >>
        /\ heap' = [name \in VectorNames |-> [r \in Refs |->
                      IF r = published.index.spaces[name].runtime
                      THEN heap[name][r] ELSE EmptyContent]]
    BY <1>9 DEF Unpin
  <2>2. IsHeap(heap')
    <3> DEFINE row(name, r) == IF r = published.index.spaces[name].runtime
                               THEN heap[name][r] ELSE EmptyContent
    <3>1. IsContent(EmptyContent)
      BY DEF IsContent, EmptyContent
    <3>2. \A name \in VectorNames : \A r \in Refs : IsContent(row(name, r))
      BY <1>2, <3>1 DEF IsHeap
    <3>3. heap' = [name \in VectorNames |-> [r \in Refs |-> row(name, r)]]
      BY <2>1
    <3> HIDE DEF row
    <3>4. /\ heap' = [name \in VectorNames |-> heap'[name]]
          /\ \A name \in VectorNames : heap'[name] = [r \in Refs |-> row(name, r)]
      BY <3>3
    <3>5. \A name \in VectorNames : heap'[name] = [r \in Refs |-> heap'[name][r]]
      BY <3>4
    <3>6. \A name \in VectorNames : \A r \in Refs : heap'[name][r] = row(name, r)
      BY <3>4
    <3> QED BY <3>2, <3>4, <3>5, <3>6, HeapIs
  <2> QED BY <2>1, <2>2 DEF ShapeInv
<1>10. ASSUME Stopped PROVE Goal
  BY <1>10, EmptyShapes DEF Stopped, IsHeap
<1>11. ASSUME NEW b \in Batches, WriteUnrecorded(b) PROVE Goal
  BY <1>4, <1>11 DEF WriteUnrecorded
<1>12. CASE rebuild_indexes \/ RefreshAfterCompaction
  BY <1>6, <1>12 DEF rebuild_indexes, RefreshAfterCompaction
<1>13. CASE compact \/ graceful_shutdown \/ PersistFails
  BY <1>4, <1>13 DEF compact, graceful_shutdown, PersistFails
<1>14. CASE PersistFiles
  BY <1>4, <1>10, <1>14 DEF PersistFiles, Finished
<1>15. CASE PersistManifest
  BY <1>4, <1>10, <1>15 DEF PersistManifest, Finished
<1>16. CASE Crash
  BY <1>10, <1>16 DEF Crash
<1>17. CASE UNCHANGED vars
  BY <1>4, <1>17 DEF vars
<1> QED
  BY <1>5, <1>7, <1>8, <1>9, <1>11, <1>12, <1>13, <1>14, <1>15, <1>16, <1>17 DEF Next

-----------------------------------------------------------------------------
(* The index is what a rebuild would give                                  *)

ExactInv(ix) ==
    Loose \/ \A name \in VectorNames \ mixed : Exact(ix.spaces[name], graph, name)

IndexInv ==
    Up => /\ Structured(indexes.structure, graph, suspect)
          /\ Structured(published.index.structure, graph, suspect)
          /\ ExactInv(indexes) /\ ExactInv(published.index)

LEMMA AgreesIs ==
    ASSUME NEW ix, Structured(ix.structure, graph, suspect), ExactInv(ix)
    PROVE  Agrees(ix)
<1>1. LET r == RebuiltStructure(graph)
      IN  /\ r.node_ids = LiveNodes(graph) /\ r.buckets = AllBuckets(graph)
          /\ r.adjacency = Outgoing(graph) /\ r.reverse_adjacency = Incoming(graph)
  BY DEF RebuiltStructure
<1>2. Loose \/ \A name \in VectorNames \ mixed :
                  ix.spaces[name].candidates = Holders(graph, name)
  BY DEF ExactInv, Exact
<1> QED BY <1>1, <1>2 DEF Agrees, Structured, AllBucketNames

LEMMA InitIndex == Init => IndexInv
<1> SUFFICES ASSUME Init PROVE IndexInv
  OBVIOUS
<1>1. /\ indexes = EmptyIndex /\ published.index = EmptyIndex /\ graph = EmptyGraph
      /\ EmptyIndex.structure = RebuiltStructure(EmptyGraph)
      /\ \A name \in VectorNames : EmptyIndex.spaces[name] = NoSpace
  BY DEF Init, EmptyIndex
<1>2. \A name : Holders(EmptyGraph, name) = {}
  BY DEF Holders, LiveNodes, Live, EmptyGraph, Keys
<1>3. ExactInv(EmptyIndex)
  BY <1>1, <1>2 DEF ExactInv, Exact, NoSpace
<1> QED BY <1>1, <1>3, RebuiltStructured DEF IndexInv

LEMMA WriteIndex ==
    ASSUME ShapeInv, EngineInv, IndexInv, NEW b \in Batches, Write(b)
    PROVE  IndexInv'
<1> DEFINE m == plan_batch_mutation(graph, b)
           h == apply_batch_to_maps_unchecked(graph, b)
<1>1. b \in WriteBatches /\ graph \in Graphs /\ FiniteLive(graph)
  BY DatabaseAssumption DEF EngineInv
<1>2. /\ graph' = h /\ suspect' = suspect \cup Rewired(graph, b) /\ pc = "ready"
      /\ mixed' = mixed \cup {name \in VectorNames : \E n, o \in Holders(graph', name) :
            DimensionOf[Vec(graph'[n], name)] # DimensionOf[Vec(graph'[o], name)]}
  BY DEF Write, EngineApply, Observe
<1>3. PICK full : ApplyMutation(m, full)
  BY DEF Write
<1>4. ASSUME NEW name \in VectorNames
      PROVE  /\ IsState([space |-> indexes.spaces[name],
                         content |-> ContentOf(indexes.spaces[name], heap[name])])
             /\ IsState([space |-> published.index.spaces[name],
                         content |-> ContentOf(published.index.spaces[name],
                                               Row(name, m, full))])
  BY <1>1, CloneStates
<1>5. /\ Structured(MutatedStructure(indexes.structure, m), h, suspect \cup Rewired(graph, b))
      /\ Structured(MutatedStructure(published.index.structure, m), h,
                    suspect \cup Rewired(graph, b))
  BY <1>1, <1>2, MutatedStructured DEF IndexInv, Up
<1>6. ASSUME ~Loose, NEW name \in VectorNames \ mixed'
      PROVE  Exact(Own(name, m, full).space, h, name)
             /\ Exact(Clone(name, m, full).space, h, name)
  <2>1. Exact(indexes.spaces[name], graph, name)
        /\ Exact(published.index.spaces[name], graph, name)
    BY <1>2, <1>6 DEF IndexInv, Up, ExactInv
  <2>2. \A n, o \in Holders(h, name) :
           DimensionOf[Vec(h[n], name)] = DimensionOf[Vec(h[o], name)]
    <3> HIDE DEF h
    <3> QED BY <1>2, <1>6
  <2>3. Exact(Own(name, m, full).space, h, name)
    BY <1>1, <1>4, <2>1, <2>2, SpaceStaysExact DEF Own
  <2>4. Exact(Clone(name, m, full).space, h, name)
    BY <1>1, <1>4, <2>1, <2>2, SpaceStaysExact DEF Clone
  <2> QED BY <2>3, <2>4
<1> HIDE DEF m, h
<1>7. /\ indexes'.structure = MutatedStructure(indexes.structure, m)
      /\ published'.index.structure = MutatedStructure(published.index.structure, m)
      /\ \A name \in VectorNames :
            /\ indexes'.spaces[name] = Own(name, m, full).space
            /\ published'.index.spaces[name] = Clone(name, m, full).space
  <2>1. /\ indexes' = [structure |-> MutatedStructure(indexes.structure, m),
                       spaces |-> [name \in VectorNames |-> Own(name, m, full).space],
                       max_nodes |-> indexes.max_nodes]
        /\ published' =
             [graph |-> MutatedGraph(published.graph, m),
              index |->
                [structure |-> MutatedStructure(published.index.structure, m),
                 spaces |-> [name \in VectorNames |-> Clone(name, m, full).space],
                 max_nodes |-> published.index.max_nodes]]
    BY <1>3, ApplyMutationIs
  <2> QED BY <2>1
<1>8. Loose => Loose'
  BY <1>2 DEF Loose
<1>9. /\ Structured(indexes'.structure, graph', suspect')
      /\ Structured(published'.index.structure, graph', suspect')
  BY <1>2, <1>5, <1>7
<1>10. /\ Loose' \/ \A name \in VectorNames \ mixed' : Exact(indexes'.spaces[name], graph', name)
       /\ Loose' \/ \A name \in VectorNames \ mixed' :
                       Exact(published'.index.spaces[name], graph', name)
  BY <1>2, <1>6, <1>7, <1>8
<1> QED BY <1>9, <1>10 DEF IndexInv, ExactInv

LEMMA UnrecordedIndex ==
    ASSUME IndexInv, NEW b \in Batches, WriteUnrecorded(b)
    PROVE  IndexInv'
<1>1. b \in WriteBatches
  BY DatabaseAssumption
<1>2. /\ graph' = apply_batch_to_maps_unchecked(graph, b)
      /\ suspect' = suspect \cup batch_effects(graph, b) /\ pc = "ready"
      /\ mixed \subseteq mixed' /\ indexes' = indexes /\ published' = published
  BY DEF WriteUnrecorded, EngineApply, Observe
<1>3. /\ Structured(indexes.structure, graph', suspect')
      /\ Structured(published.index.structure, graph', suspect')
  BY <1>1, <1>2, UnrecordedStructured DEF IndexInv, Up
<1>4. ASSUME ~Loose', NEW name \in VectorNames \ mixed'
      PROVE  /\ Exact(indexes.spaces[name], graph', name)
             /\ Exact(published.index.spaces[name], graph', name)
  <2>1. ~Loose /\ NodeIds \cap batch_effects(graph, b) = {}
    BY <1>2, <1>4 DEF Loose
  <2>2. \A n \in NodeIds : graph'[n] = graph[n]
    BY <1>1, <1>2, <2>1, AppliedOutside DEF Keys
  <2>3. /\ Exact(indexes.spaces[name], graph, name)
        /\ Exact(published.index.spaces[name], graph, name)
    BY <1>2, <1>4, <2>1 DEF IndexInv, Up, ExactInv
  <2> QED BY <2>2, <2>3, HoldersAlike
<1> QED BY <1>2, <1>3, <1>4 DEF IndexInv, ExactInv

LEMMA RefreshIndex ==
    ASSUME Refresh, graph' = graph
    PROVE  IndexInv'
<1>1. /\ indexes' = Rebuilt(graph) /\ published'.index = Rebuilt(graph)
      /\ mixed' = {name \in VectorNames :
                     indexes'.spaces[name].candidates # Holders(graph, name)}
  BY DEF Refresh
<1>2. /\ Rebuilt(graph).structure = RebuiltStructure(graph)
      /\ \A name \in VectorNames :
            Rebuilt(graph).spaces[name] = RebuiltSpace(graph, name, Fresh(name))
  BY DEF Rebuilt
<1>3. \A name \in VectorNames \ mixed' : Exact(Rebuilt(graph).spaces[name], graph, name)
  BY <1>1, <1>2, RebuiltExact
<1> QED BY <1>1, <1>2, <1>3, RebuiltStructured DEF IndexInv, ExactInv

LEMMA ReopenIndex ==
    ASSUME Reopen
    PROVE  IndexInv'
<1> PICK loaded \in Loadable :
          /\ indexes' = [structure |-> RebuiltStructure(recoverable),
                         spaces |-> [name \in VectorNames |->
                                       OpenedSpace(name, loaded)],
                         max_nodes |-> Cardinality(LiveNodes(recoverable))]
          /\ published' = [graph |-> recoverable, index |-> indexes']
  BY ReopenIs
<1>1. /\ indexes'.structure = RebuiltStructure(recoverable)
      /\ \A name \in VectorNames : indexes'.spaces[name] = OpenedSpace(name, loaded)
      /\ published'.index = indexes' /\ graph' = recoverable
      /\ mixed' = {name \in VectorNames : BaseSpace(name).candidates
                                            # Holders(recoverable, name)}
  BY BaseSpaceIs DEF Reopen
<1>2. ASSUME NEW name \in VectorNames
      PROVE  /\ OpenedSpace(name, loaded).candidates = BaseSpace(name).candidates
             /\ OpenedSpace(name, loaded).dimension = BaseSpace(name).dimension
  <2>1. FirstRef \in Refs
    BY IndexAssumption DEF FirstRef
  <2>2. IsSpace(BaseSpace(name)) /\ BaseIndex.spaces[name] = BaseSpace(name)
    BY <2>1, RebuiltSpaceIs, BaseSpaceIs DEF BaseSpace
  <2> QED BY <2>2 DEF OpenedSpace, IsSpace
<1>3. ASSUME NEW name \in VectorNames \ mixed'
      PROVE  Exact(OpenedSpace(name, loaded), recoverable, name)
  <2>1. Exact(BaseSpace(name), recoverable, name)
    BY <1>1, <1>3, RebuiltExact DEF BaseSpace
  <2> QED BY <1>2, <2>1 DEF Exact
<1> QED BY <1>1, <1>3, RebuiltStructured DEF IndexInv, ExactInv

\* After any sequence of writes, failed metadata writes, rebuilds, compactions,
\* crashes and openings the index, and the clone in the published snapshot,
\* hold the nodes, the label and time buckets, the adjacency and the vector
\* candidates that a rebuild from the engine would give, outside the keys
\* that a failed metadata write or a rewired edge has left uncertain.
THEOREM IndexIsRebuiltAlways == Spec => []IndexIsRebuilt
<1> DEFINE Inv == EngineInv /\ DownInv /\ ShapeInv /\ IndexInv
<1>1. Init => Inv
  BY InitShape, InitIndex
<1>2. Inv /\ [Next]_vars => Inv'
  <2> SUFFICES ASSUME Inv, [Next]_vars PROVE IndexInv'
    BY EngineInvStep, DownInvStep, ShapeInvStep
  <2>1. CASE pc' = "down"
    BY <2>1 DEF IndexInv, Up
  <2>2. CASE pc' # "down"
    <3>1. CASE pc # "down" /\ Leaves
      BY <3>1 DEF Leaves, IndexInv, Up, ExactInv, Loose
    <3>2. ASSUME NEW b \in Batches, Write(b) \/ WriteUnrecorded(b) PROVE IndexInv'
      BY <3>2, WriteIndex, UnrecordedIndex
    <3> QED BY <2>2, <3>1, <3>2, StepKinds, RefreshIndex, ReopenIndex
  <2> QED BY <2>1, <2>2
<1>3. Inv => IndexIsRebuilt
  BY AgreesIs DEF IndexInv, IndexIsRebuilt
<1> QED BY <1>1, <1>2, <1>3, PTL DEF Spec

-----------------------------------------------------------------------------
(* A session's overlay                                                     *)

KeysInv == Up => KeysTyped(published.index.structure)

LEMMA KeysInvInit == Init => KeysInv
<1> SUFFICES ASSUME Init PROVE KeysTyped(published.index.structure)
  BY DEF KeysInv
<1>1. published.index.structure = RebuiltStructure(EmptyGraph)
  BY DEF Init, EmptyIndex
<1> QED BY <1>1, RebuiltKeysTyped, EmptyGraphFinite

LEMMA KeysInvStep == EngineInv /\ ShapeInv /\ KeysInv /\ [Next]_vars => KeysInv'
<1> SUFFICES ASSUME EngineInv, ShapeInv, KeysInv, [Next]_vars, pc' # "down"
             PROVE  KeysTyped(published'.index.structure)
  BY DEF KeysInv, KeysTyped, Up
<1>1. ASSUME NEW b \in Batches, Write(b) PROVE KeysTyped(published'.index.structure)
  <2> DEFINE m == plan_batch_mutation(graph, b)
  <2>1. b \in WriteBatches /\ pc = "ready"
    BY <1>1, DatabaseAssumption DEF Write
  <2>2. FiniteLive(m.added)
    BY <2>1, PlanFinite
  <2>3. PICK full : ApplyMutation(m, full)
    BY <1>1 DEF Write
  <2> HIDE DEF m
  <2>4. published'.index.structure = MutatedStructure(published.index.structure, m)
    <3>1. PICK spaces : published'.index = SnapshotIndex(m, spaces)
      BY <2>3 DEF ApplyMutation
    <3> QED BY <3>1 DEF SnapshotIndex
  <2>5. KeysTyped(published.index.structure)
    BY <2>1 DEF KeysInv, Up
  <2> QED BY <2>2, <2>4, <2>5, MutatedKeysTyped
<1>2. ASSUME NEW b \in Batches, WriteUnrecorded(b)
      PROVE  KeysTyped(published'.index.structure)
  BY <1>2 DEF WriteUnrecorded, KeysInv, Up
<1>3. CASE pc # "down" /\ Refresh /\ graph' = graph
  <2>1. published'.index.structure = RebuiltStructure(graph)
    BY <1>3 DEF Refresh, Rebuilt
  <2> QED BY <2>1, RebuiltKeysTyped DEF EngineInv
<1>4. CASE Reopen
  <2>1. published'.index.structure = RebuiltStructure(recoverable) /\ recoverable # Absent
    <3>1. PICK spaces, size : indexes' = [structure |-> RebuiltStructure(recoverable),
                                          spaces |-> spaces, max_nodes |-> size]
      BY <1>4, ReopenIs
    <3>2. published'.index = indexes' /\ recoverable # Absent
      BY <1>4 DEF Reopen
    <3> QED BY <3>1, <3>2
  <2> QED BY <2>1, RebuiltKeysTyped DEF EngineInv
<1>5. CASE pc # "down" /\ Leaves
  BY <1>5 DEF Leaves, KeysInv, Up
<1> QED BY <1>1, <1>2, <1>3, <1>4, <1>5, StepKinds

\* What the overlay shows for a key is what the staged batch makes of it.
LEMMA OverlaidIs ==
    ASSUME graph \in Graphs, NEW p, \A k \in Keys : p[k] = graph[k],
           NEW b, NEW k \in Keys
    PROVE  LET h == apply_batch_to_maps_unchecked(graph, b)
               d == SessionDelta(b)
           IN  /\ Overlaid(p, d)[k] = h[k]
               /\ d.added[k] = IF h[k] # graph[k] THEN h[k] ELSE Absent
<1> DEFINE h == apply_batch_to_maps_unchecked(graph, b)
           d == SessionDelta(b)
<1>1. /\ d.removed[k] = IF h[k] # graph[k] THEN graph[k] ELSE Absent
      /\ d.added[k] = IF h[k] # graph[k] THEN h[k] ELSE Absent
  BY DEF SessionDelta
<1>2. Overlaid(p, d)[k] = IF d.added[k] # Absent THEN d.added[k]
                          ELSE IF d.removed[k] # Absent THEN Absent ELSE p[k]
  BY DEF Overlaid, MutatedGraph, Live
<1> HIDE DEF d, h
<1>3. Overlaid(p, d)[k] = h[k]
  BY <1>1, <1>2
<1> QED BY <1>1, <1>3 DEF d, h

\* The overlay of one staged batch against the index after its commit.
LEMMA OverlayAgrees ==
    ASSUME graph \in Graphs, FiniteLive(graph), NEW b \in WriteBatches,
           Rewired(graph, b) = {},
           NEW p, \A k \in Keys : p[k] = graph[k],
           NEW s, Structured(s, graph, {}), KeysTyped(s),
           NEW shared, Finds(s, graph, {}, shared)
    PROVE  LET d == SessionDelta(b)
               t == MutatedStructure(s, plan_batch_mutation(graph, b))
           IN  /\ \A c \in AllBucketNames : OverlayByBucket(p, s, d, c) = ByBucket(t, c)
               /\ \A n \in NodeIds : OverlayEdgesFor(p, s, d, n) = EdgesFor(t, n)
               /\ \A key \in UniqueKeys :
                    (key \notin shared
                       /\ Cardinality(Owners(Overlaid(graph, d), key)) <= 1) =>
                    OverlayLookup(p, s, d, key) = lookup_unique_key(t, key)
<1> DEFINE m == plan_batch_mutation(graph, b)
           h == apply_batch_to_maps_unchecked(graph, b)
           d == SessionDelta(b)
           t == MutatedStructure(s, m)
           o == Overlaid(p, d)
<1>1. Structured(t, h, {}) /\ Finds(t, h, {}, shared \cup Shared(h)) /\ KeysTyped(t)
  <2>1. Structured(t, h, {} \cup Rewired(graph, b))
    BY MutatedStructured
  <2>2. Finds(t, h, {} \cup Rewired(graph, b), shared \cup Shared(h))
    BY MutationFinds
  <2>3. KeysTyped(t)
    BY PlanFinite, MutatedKeysTyped
  <2> QED BY <2>1, <2>2, <2>3
<1>2. FiniteLive(h)
  BY AppliedFinite
<1>3. \A k \in Keys : /\ o[k] = h[k]
                      /\ d.added[k] = IF h[k] # graph[k] THEN h[k] ELSE Absent
  BY OverlaidIs
<1>4. \A k \in Keys : Overlaid(graph, d)[k] = h[k]
  BY OverlaidIs
<1>5. NodeIds \subseteq Keys /\ EdgeIds \subseteq Keys
  BY DEF Keys
<1> HIDE DEF m, h, d, t
<1>6. ASSUME NEW c \in AllBucketNames PROVE OverlayByBucket(p, s, d, c) = ByBucket(t, c)
  <2>1. OverlayByBucket(p, s, d, c) =
          {n \in ByBucket(s, c) : Live(o, n) /\ c \in BucketsOf[o[n].body]}
            \cup {n \in LiveNodes(d.added) : c \in BucketsOf[d.added[n].body]}
    BY DEF OverlayByBucket
  <2> HIDE DEF o
  <2>2. ASSUME NEW n \in NodeIds
        PROVE  /\ n \in ByBucket(s, c) <=> Live(graph, n) /\ c \in BucketsOf[graph[n].body]
               /\ n \in ByBucket(t, c) <=> Live(h, n) /\ c \in BucketsOf[h[n].body]
    <3>1. /\ <<c, n>> \in s.buckets <=> <<c, n>> \in AllBuckets(graph)
          /\ <<c, n>> \in t.buckets <=> <<c, n>> \in AllBuckets(h)
      BY <1>1 DEF Structured
    <3> QED BY <3>1, BucketOf DEF ByBucket
  <2>3. ByBucket(s, c) \subseteq NodeIds /\ ByBucket(t, c) \subseteq NodeIds
        /\ LiveNodes(d.added) \subseteq NodeIds
    BY DEF ByBucket, LiveNodes
  <2>4. ASSUME NEW n \in NodeIds
        PROVE  n \in OverlayByBucket(p, s, d, c) <=> n \in ByBucket(t, c)
    <3>1. /\ o[n] = h[n]
          /\ d.added[n] = IF h[n] # graph[n] THEN h[n] ELSE Absent
      BY <1>3, <1>5
    <3>2. n \in LiveNodes(d.added) <=> d.added[n] # Absent
      BY DEF LiveNodes, Live
    <3> QED BY <2>1, <2>2, <3>1, <3>2 DEF Live
  <2>5. OverlayByBucket(p, s, d, c) \subseteq NodeIds
    BY <2>1, <2>3
  <2> QED BY <2>3, <2>4, <2>5
<1>7. ASSUME NEW n \in NodeIds PROVE OverlayEdgesFor(p, s, d, n) = EdgesFor(t, n)
  <2>1. OverlayEdgesFor(p, s, d, n) =
          {e \in EdgesFor(s, n) : Live(o, e) /\ Touches(o[e], n)}
            \cup {e \in LiveEdges(d.added) : Touches(d.added[e], n)}
    BY DEF OverlayEdgesFor
  <2> HIDE DEF o
  <2>2. ASSUME NEW e \in EdgeIds
        PROVE  /\ e \in EdgesFor(s, n) <=> Live(graph, e) /\ Touches(graph[e], n)
               /\ e \in EdgesFor(t, n) <=> Live(h, e) /\ Touches(h[e], n)
    <3>1. /\ <<n, e>> \in s.adjacency <=> <<n, e>> \in Outgoing(graph)
          /\ <<n, e>> \in s.reverse_adjacency <=> <<n, e>> \in Incoming(graph)
          /\ <<n, e>> \in t.adjacency <=> <<n, e>> \in Outgoing(h)
          /\ <<n, e>> \in t.reverse_adjacency <=> <<n, e>> \in Incoming(h)
      BY <1>1 DEF Structured
    <3> QED BY <3>1, EdgeAt DEF EdgesFor, Touches
  <2>3. EdgesFor(s, n) \subseteq EdgeIds /\ EdgesFor(t, n) \subseteq EdgeIds
        /\ LiveEdges(d.added) \subseteq EdgeIds
    BY DEF EdgesFor, LiveEdges
  <2>4. ASSUME NEW e \in EdgeIds
        PROVE  e \in OverlayEdgesFor(p, s, d, n) <=> e \in EdgesFor(t, n)
    <3>1. /\ o[e] = h[e]
          /\ d.added[e] = IF h[e] # graph[e] THEN h[e] ELSE Absent
      BY <1>3, <1>5
    <3>2. e \in LiveEdges(d.added) <=> d.added[e] # Absent
      BY DEF LiveEdges, Live
    <3> QED BY <2>1, <2>2, <3>1, <3>2 DEF Live
  <2>5. OverlayEdgesFor(p, s, d, n) \subseteq EdgeIds
    BY <2>1, <2>3
  <2> QED BY <2>3, <2>4, <2>5
<1>8. ASSUME NEW key \in UniqueKeys, key \notin shared,
             Cardinality(Owners(Overlaid(graph, d), key)) <= 1
      PROVE  OverlayLookup(p, s, d, key) = lookup_unique_key(t, key)
  <2> DEFINE base == lookup_unique_key(s, key)
             later == lookup_unique_key(t, key)
             A == Owners(d.added, key)
  <2>1. \A g : Owners(g, key) = {n \in NodeIds : g[n] # Absent /\ KeyOf[g[n].body] = key}
    BY DEF Owners, LiveNodes, Live
  <2>2. Owners(Overlaid(graph, d), key) = Owners(h, key) /\ Owners(o, key) = Owners(h, key)
    <3> DEFINE q == Overlaid(graph, d)
    <3>1. \A n \in NodeIds : o[n] = h[n] /\ q[n] = h[n]
      BY <1>3, <1>4, <1>5
    <3> HIDE DEF o, q
    <3>2. Owners(q, key) = Owners(h, key)
      BY <3>1 DEF Owners, LiveNodes, Live
    <3>3. Owners(o, key) = Owners(h, key)
      BY <3>1 DEF Owners, LiveNodes, Live
    <3> QED BY <3>2, <3>3 DEF q
  <2>3. ~(Cardinality(Owners(h, key)) > 1)
    <3>1. Owners(h, key) \in SUBSET LiveNodes(h)
      BY DEF Owners
    <3>2. Cardinality(Owners(h, key)) \in Nat
      BY <1>2, <3>1, FS_Subset, FS_CardinalityType DEF FiniteLive
    <3> QED BY <1>8, <2>2, <3>2
  <2>4. /\ later \in NodeIds => later \in Owners(h, key)
        /\ \A x \in Owners(h, key) : later = x
        /\ later \in NodeIds \cup {Absent}
    BY <1>1, <1>8, <2>3 DEF Finds, Shared, KeysTyped
  <2>5. \A x \in Owners(graph, key) : base = x
    BY <1>8 DEF Finds
  <2>6. OverlayLookup(p, s, d, key) =
          IF A # {} THEN CHOOSE n \in A : \A x \in A : IdOrder[n] <= IdOrder[x]
          ELSE IF base \in Owners(o, key) THEN base ELSE Absent
    BY DEF OverlayLookup
  <2>7. A \subseteq Owners(h, key)
    BY <1>3, <1>5, <2>1
  <2> HIDE DEF o, base, later
  <2>8. CASE A # {}
    <3>1. PICK x \in A : TRUE
      BY <2>8
    <3>2. A = {x} /\ later = x /\ x \in NodeIds
      BY <2>1, <2>4, <2>7, <3>1
    <3>3. IdOrder[x] <= IdOrder[x]
      BY <3>2, IndexAssumption
    <3> HIDE DEF A
    <3>4. (CHOOSE n \in A : \A y \in A : IdOrder[n] <= IdOrder[y]) = x
      BY <3>2, <3>3
    <3> QED BY <2>6, <2>8, <3>2, <3>4 DEF later
  <2>9. CASE A = {}
    <3>1. ASSUME NEW x \in Owners(h, key) PROVE x \in Owners(graph, key)
      <4>1. x \in NodeIds /\ h[x] # Absent /\ KeyOf[h[x].body] = key
        BY <2>1
      <4>2. h[x] = graph[x]
        BY <1>3, <1>5, <2>1, <2>9, <4>1
      <4> QED BY <2>1, <4>1, <4>2
    <3>2. CASE Owners(h, key) = {}
      <4>1. later = Absent
        BY <2>4, <3>2
      <4>2. OverlayLookup(p, s, d, key) = Absent
        BY <2>2, <2>6, <2>9, <3>2
      <4> QED BY <4>1, <4>2 DEF later
    <3>3. CASE Owners(h, key) # {}
      <4>1. PICK x \in Owners(h, key) : TRUE
        BY <3>3
      <4>2. later = x /\ base = x
        BY <2>4, <2>5, <3>1, <4>1
      <4>3. OverlayLookup(p, s, d, key) = base
        BY <2>2, <2>6, <2>9, <4>1, <4>2
      <4> QED BY <4>2, <4>3 DEF later
    <3> QED BY <3>2, <3>3
  <2> QED BY <2>8, <2>9
<1> QED BY <1>6, <1>7, <1>8 DEF d, t, m

\* A session reads before its commit what everyone reads after it, by label,
\* by time, by edge and by unique key, for every graph the database reaches
\* and every batch a session may have staged.
THEOREM OverlayAgreesAlways == Spec => []OverlayAgreesWithCommit
<1>1. Spec => [](EngineInv /\ DownInv /\ ShapeInv /\ KeysInv)
  <2>1. Init => EngineInv /\ DownInv /\ ShapeInv /\ KeysInv
    BY InitShape, KeysInvInit
  <2>2. EngineInv /\ DownInv /\ ShapeInv /\ KeysInv /\ [Next]_vars
          => (EngineInv /\ DownInv /\ ShapeInv /\ KeysInv)'
    BY EngineInvStep, DownInvStep, ShapeInvStep, KeysInvStep
  <2> QED BY <2>1, <2>2, PTL DEF Spec
<1>2. /\ EngineInv /\ KeysInv /\ IndexIsRebuilt /\ PublishedIsEngine /\ KeyLookup
      => OverlayAgreesWithCommit
  <2> SUFFICES ASSUME EngineInv, KeysInv, IndexIsRebuilt, PublishedIsEngine, KeyLookup,
                      pc = "ready", suspect = {},
                      NEW b \in Batches, Accepted(b), Rewired(graph, b) = {}
               PROVE  LET d == SessionDelta(b)
                          base == published.index.structure
                          later == MutatedStructure(base, plan_batch_mutation(graph, b))
                      IN  /\ \A bucket \in UNION {BucketsOf[body] : body \in Bodies} :
                               OverlayByBucket(published.graph, base, d, bucket)
                                  = ByBucket(later, bucket)
                          /\ \A n \in NodeIds :
                               OverlayEdgesFor(published.graph, base, d, n)
                                  = EdgesFor(later, n)
                          /\ \A key \in UniqueKeys :
                               (key \notin collided
                                  /\ Cardinality(Owners(Overlaid(graph, d), key)) <= 1) =>
                               OverlayLookup(published.graph, base, d, key)
                                  = lookup_unique_key(later, key)
    BY DEF OverlayAgreesWithCommit
  <2>1. b \in WriteBatches /\ graph \in Graphs /\ FiniteLive(graph)
    BY DatabaseAssumption DEF EngineInv
  <2>2. \A k \in Keys : published.graph[k] = graph[k]
    BY DEF PublishedIsEngine, Up
  <2>3. Structured(published.index.structure, graph, {})
    <3>1. Agrees(published.index)
      BY DEF IndexIsRebuilt, Up
    <3>2. LET r == RebuiltStructure(graph)
          IN  /\ r.node_ids = LiveNodes(graph) /\ r.buckets = AllBuckets(graph)
              /\ r.adjacency = Outgoing(graph) /\ r.reverse_adjacency = Incoming(graph)
      BY DEF RebuiltStructure
    <3> QED BY <3>1, <3>2 DEF Agrees, Structured, AllBucketNames
  <2>4. KeysTyped(published.index.structure)
    BY DEF KeysInv, Up
  <2>5. Finds(published.index.structure, graph, {}, collided)
    BY KeyLookupIs DEF Up
  <2> QED BY <2>1, <2>2, <2>3, <2>4, <2>5, OverlayAgrees DEF AllBucketNames
<1> QED BY <1>1, <1>2, IndexIsRebuiltAlways, PublishedIsEngineAlways, KeyLookupAlways, PTL

-----------------------------------------------------------------------------
(* Runtimes: the two clones of a space                                     *)

\* The index and its clone in the snapshot have the same spaces.
ClonesInv == indexes.spaces = published.index.spaces

LEMMA ClonesInvStep == EngineInv /\ DownInv /\ ShapeInv /\ ClonesInv /\ [Next]_vars
                         => ClonesInv'
<1> SUFFICES ASSUME EngineInv, DownInv, ShapeInv, ClonesInv, [Next]_vars PROVE ClonesInv'
  OBVIOUS
<1>1. ASSUME NEW b \in Batches, Write(b) PROVE ClonesInv'
  <2> DEFINE m == plan_batch_mutation(graph, b)
  <2>1. b \in WriteBatches /\ graph \in Graphs /\ FiniteLive(graph)
    BY DatabaseAssumption DEF EngineInv
  <2>2. PICK full : ApplyMutation(m, full)
    BY <1>1 DEF Write
  <2>3. ASSUME NEW name \in VectorNames
        PROVE  Own(name, m, full).space = Clone(name, m, full).space
    <3> DEFINE s == indexes.spaces[name]
               c1 == ContentOf(s, heap[name])
               c2 == ContentOf(s, Row(name, m, full))
    <3>1. published.index.spaces[name] = s
      BY DEF ClonesInv
    <3>2. IsState([space |-> s, content |-> c1]) /\ IsState([space |-> s, content |-> c2])
      BY <2>1, <3>1, CloneStates
    <3>3. /\ Own(name, m, full) = MutatedSpace(s, c1, name, m, full)
          /\ Clone(name, m, full) = MutatedSpace(s, c2, name, m, full)
      BY <3>1 DEF Own, Clone
    <3> HIDE DEF s, c1, c2
    <3> QED BY <2>1, <3>2, <3>3, MutatedAlikeSpaces
  <2> HIDE DEF m
  <2>4. /\ indexes'.spaces = [name \in VectorNames |-> Own(name, m, full).space]
        /\ published'.index.spaces = [name \in VectorNames |-> Clone(name, m, full).space]
    BY <2>2, ApplyMutationIs
  <2>5. [name \in VectorNames |-> Own(name, m, full).space]
          = [name \in VectorNames |-> Clone(name, m, full).space]
    BY <2>3, Zenon
  <2> QED BY <2>4, <2>5 DEF ClonesInv
<1>2. ASSUME NEW b \in Batches, WriteUnrecorded(b) PROVE ClonesInv'
  BY <1>2 DEF WriteUnrecorded, ClonesInv
<1>3. CASE Refresh
  BY <1>3 DEF Refresh, ClonesInv
<1>4. CASE Reopen
  BY <1>4 DEF Reopen, ClonesInv
<1>5. CASE Leaves
  BY <1>5 DEF Leaves, ClonesInv
<1>6. CASE pc' = "down"
  <2>1. CASE Stopped
    BY <2>1 DEF Stopped, ClonesInv
  <2>2. CASE UNCHANGED << indexes, published >>
    BY <2>2 DEF ClonesInv
  <2> QED BY <1>6, <2>1, <2>2, DownStep
<1> QED BY <1>1, <1>2, <1>3, <1>4, <1>5, <1>6, StepKinds

-----------------------------------------------------------------------------
(* Positions: the generation and the LSN of manifest, memory and files      *)

\* The position comes before that of the next record.
Before(e, lsn) ==
    /\ e \in Nat /\ lsn \in Nat
    /\ e < generation \/ (e = generation /\ lsn < next_lsn)

\* Every position in use has been handed out.  Memory is never behind the
\* manifest in the manifest's generation, and what recovery replays is the end
\* of the log.  Files that a manifest of the index vouches for are of the
\* manifest's LSN, unless they are of another generation.
PositionInv ==
    /\ next_lsn \in Nat /\ generation \in Nat
    /\ Before(epoch, latest_applied_lsn)
    /\ Before(manifest.epoch, manifest.lsn)
    /\ Before(sidecars_of.epoch, sidecars_of.lsn)
    /\ vector_manifest # Absent => Before(vector_manifest.epoch, vector_manifest.lsn)
    /\ epoch = manifest.epoch => latest_applied_lsn >= manifest.lsn
    /\ latest_applied_lsn > manifest.lsn => next_lsn > latest_applied_lsn
    /\ pc \in {"persist_manifest", "persist_manifest_and_stop"} =>
          sidecars_of.epoch = epoch /\ sidecars_of.lsn = latest_applied_lsn
    /\ (/\ vector_manifest # Absent
        /\ vector_manifest.epoch = manifest.epoch /\ vector_manifest.lsn = manifest.lsn
        /\ sidecars_of.epoch = manifest.epoch /\ latest_applied_lsn <= manifest.lsn)
       => sidecars_of.lsn = manifest.lsn

LEMMA InitPosition == Init => PositionInv
BY DEF Init, PositionInv, Before

\* What a step does to the positions.
Positions == << next_lsn, generation, epoch, latest_applied_lsn, manifest >>

LEMMA PositionInvStep == PositionInv /\ [Next]_vars => PositionInv'
<1> SUFFICES ASSUME PositionInv, [Next]_vars PROVE PositionInv'
  OBVIOUS
<1>1. ASSUME NEW b \in Batches, Write(b) \/ WriteUnrecorded(b) PROVE PositionInv'
  <2>1. /\ latest_applied_lsn' = next_lsn /\ next_lsn' = next_lsn + 1
        /\ epoch' = generation /\ pc = "ready" /\ pc' = "ready"
        /\ UNCHANGED << manifest, generation, sidecars_of, vector_manifest >>
    BY <1>1 DEF Write, WriteUnrecorded, EngineApply, files
  <2> QED BY <2>1 DEF PositionInv, Before
<1>2. CASE compact
  <2>1. /\ latest_applied_lsn' = next_lsn /\ next_lsn' = 1
        /\ manifest' = [lsn |-> next_lsn, clean |-> TRUE, epoch |-> generation]
        /\ epoch' = generation /\ generation' = generation + 1 /\ pc' = "refresh"
        /\ UNCHANGED << sidecars_of, vector_manifest >>
    BY <1>2 DEF compact, files
  <2>2. manifest'.lsn = next_lsn /\ manifest'.epoch = generation
    BY <2>1
  <2> QED BY <2>1, <2>2 DEF PositionInv, Before
<1>3. CASE graceful_shutdown
  <2>1. /\ latest_applied_lsn' = next_lsn /\ next_lsn' = next_lsn + 1
        /\ manifest' = [lsn |-> next_lsn, clean |-> TRUE, epoch |-> generation]
        /\ epoch' = generation /\ pc' = "persist_files_and_stop"
        /\ UNCHANGED << generation, sidecars_of, vector_manifest >>
    BY <1>3 DEF graceful_shutdown, files
  <2>2. manifest'.lsn = next_lsn /\ manifest'.epoch = generation
    BY <2>1
  <2> QED BY <2>1, <2>2 DEF PositionInv, Before
<1>4. ASSUME UNCHANGED << Positions, sidecars_of, vector_manifest >>,
             pc' \in {"persist_manifest", "persist_manifest_and_stop"}
                => pc \in {"persist_manifest", "persist_manifest_and_stop"}
      PROVE  PositionInv'
  BY <1>4 DEF PositionInv, Before, Positions
<1>5. ASSUME NEW names, Replaced(names), UNCHANGED Positions,
             vector_manifest' \in {vector_manifest, Absent}
      PROVE  PositionInv'
  <2>1. /\ sidecars_of'.lsn = latest_applied_lsn /\ sidecars_of'.epoch = epoch
        /\ UNCHANGED << next_lsn, generation, epoch, latest_applied_lsn, manifest >>
    BY <1>5 DEF Replaced, Positions
  <2> QED BY <1>5, <2>1 DEF PositionInv, Before
<1>6. ASSUME PartlyReplaced, UNCHANGED << Positions, vector_manifest >>,
             pc' \notin {"persist_manifest", "persist_manifest_and_stop"}
      PROVE  PositionInv'
  BY <1>4, <1>5, <1>6 DEF PartlyReplaced
<1>7. CASE rebuild_indexes \/ RefreshAfterCompaction \/ Pin \/ Unpin
  BY <1>4, <1>7 DEF rebuild_indexes, RefreshAfterCompaction, Pin, Unpin, engine,
                    files, Positions
<1>8. CASE PersistFiles
  BY <1>5, <1>8 DEF PersistFiles, Positions
<1>9. CASE PersistManifest
  <2>1. /\ vector_manifest'.lsn = latest_applied_lsn /\ vector_manifest'.epoch = epoch
        /\ UNCHANGED << next_lsn, generation, epoch, latest_applied_lsn, manifest,
                        sidecars_of >>
        /\ pc \in {"persist_manifest", "persist_manifest_and_stop"}
        /\ pc' \in {"ready", "down"}
    BY <1>9 DEF PersistManifest, Finished, Stopped
  <2> QED BY <2>1 DEF PositionInv, Before
<1>10. CASE PersistFails
  BY <1>4, <1>6, <1>10 DEF PersistFails, engine, Positions
<1>11. CASE Crash
  BY <1>4, <1>6, <1>11 DEF Crash, Stopped, Positions
<1>12. CASE Reopen
  <2>1. /\ latest_applied_lsn' = IF latest_applied_lsn > manifest.lsn
                                 THEN latest_applied_lsn ELSE manifest.lsn
        /\ epoch' = IF latest_applied_lsn > manifest.lsn THEN epoch ELSE manifest.epoch
        /\ UNCHANGED << next_lsn, generation, manifest, sidecars_of, vector_manifest >>
        /\ pc' = "persist_files"
    BY <1>12 DEF Reopen, Replayed, files
  <2> QED BY <2>1 DEF PositionInv, Before
<1>13. CASE UNCHANGED vars
  BY <1>4, <1>13 DEF vars, engine, files, Positions
<1> QED
  BY <1>1, <1>2, <1>3, <1>7, <1>8, <1>9, <1>10, <1>11, <1>12, <1>13 DEF Next

-----------------------------------------------------------------------------
(* What runtimes and files hold                                            *)

\* The runtime of a space in the published snapshot holds the vectors of the
\* published nodes.
RuntimeInv ==
    (Up /\ ~stale_load) =>
        \A name \in VectorNames :
            LET r == published.index.spaces[name].runtime
            IN  Unshared(name) /\ r # 0
                  => heap[name][r] = BuiltContent(published.graph, name)

\* Memory at the manifest's position is what recovery gives.
ManifestInv ==
    (Up /\ epoch = manifest.epoch /\ latest_applied_lsn = manifest.lsn)
        => graph = recoverable

\* Files of the manifest's position hold the vectors of the recovered graph,
\* unless recovery replays records or the index was not current.
FileInv ==
    (/\ ~Replayed /\ ~sidecars_of.loose
     /\ sidecars_of.epoch = manifest.epoch /\ sidecars_of.lsn = manifest.lsn) =>
        \A name \in VectorNames :
            (Unshared(name) /\ sidecars[SidecarOf[name]] # Absent)
               => sidecars[SidecarOf[name]] = BuiltContent(recoverable, name)

\* A batch writes through to the runtimes: the one of the snapshot takes the
\* mutation, and no runtime changes for a node outside the plan.
LEMMA RuntimesMutated ==
    ASSUME EngineInv, ShapeInv, NEW b \in WriteBatches, NEW full,
           ApplyMutation(plan_batch_mutation(graph, b), full), NEW name \in VectorNames
    PROVE  LET m == plan_batch_mutation(graph, b)
               in == LiveNodes(m.added)
               out == LiveNodes(m.removed)
               r == published.index.spaces[name].runtime
               q == published'.index.spaces[name].runtime
           IN  /\ q \in {0, r}
               /\ q # 0 => \A k \in NodeIds : heap'[name][q][k] =
                             IF k \in in THEN Vec(m.added[k], name)
                             ELSE IF k \in out THEN Absent ELSE heap[name][q][k]
               /\ \A ref \in Refs : \A k \in NodeIds \ (in \cup out) :
                     heap'[name][ref][k] = heap[name][ref][k]
<1> DEFINE m == plan_batch_mutation(graph, b)
           in == LiveNodes(m.added)
           out == LiveNodes(m.removed)
           s == indexes.spaces[name]
           t == published.index.spaces[name]
           c == ContentOf(s, heap[name])
           x == Own(name, m, full)
           row == Row(name, m, full)
           e == ContentOf(t, row)
           y == Clone(name, m, full)
<1>1. graph \in Graphs /\ FiniteLive(graph)
  BY DEF EngineInv
<1>2. /\ IsState([space |-> s, content |-> c])
      /\ IsState([space |-> t, content |-> e])
  BY CloneStates
<1>3. \A k \in NodeIds \ (in \cup out) : x.content[k] = c[k]
  BY <1>1, <1>2, SpaceMutated DEF Own
<1>4. /\ y.space.runtime \in {0, t.runtime}
      /\ \A k \in NodeIds \ (in \cup out) : y.content[k] = e[k]
      /\ y.space.runtime # 0 =>
           \A k \in NodeIds : y.content[k] = IF k \in in THEN Vec(m.added[k], name)
                                             ELSE IF k \in out THEN Absent ELSE e[k]
  BY <1>1, <1>2, SpaceMutated DEF Clone
<1>5. /\ published'.index.spaces[name] = y.space
      /\ \A ref \in Refs : heap'[name][ref] =
            IF ref = t.runtime THEN y.content ELSE row[ref]
      /\ \A ref \in Refs : row[ref] = IF ref = s.runtime THEN x.content ELSE heap[name][ref]
  BY ApplyMutationIs DEF Row
<1>6. /\ s.runtime # 0 => c = heap[name][s.runtime]
      /\ t.runtime # 0 => e = row[t.runtime]
  BY DEF ContentOf
<1>7. 0 \notin Refs /\ t.runtime \in Refs \cup {0}
  BY IndexAssumption DEF ShapeInv, IsSnapshot, IsIndex, IsSpace
<1> HIDE DEF m, in, out, s, t, c, x, row, e, y
<1>8. \A ref \in Refs : \A k \in NodeIds \ (in \cup out) : row[ref][k] = heap[name][ref][k]
  BY <1>3, <1>5, <1>6, <1>7
<1>9. \A ref \in Refs : \A k \in NodeIds \ (in \cup out) :
         heap'[name][ref][k] = heap[name][ref][k]
  BY <1>4, <1>5, <1>6, <1>7, <1>8
<1>10. ASSUME y.space.runtime # 0, NEW k \in NodeIds
       PROVE  heap'[name][y.space.runtime][k] =
                IF k \in in THEN Vec(m.added[k], name)
                ELSE IF k \in out THEN Absent ELSE heap[name][y.space.runtime][k]
  <2>1. y.space.runtime = t.runtime /\ t.runtime \in Refs
    BY <1>4, <1>7, <1>10
  <2>2. heap'[name][t.runtime][k] = y.content[k]
    BY <1>5, <2>1
  <2>3. k \notin in \cup out => e[k] = heap[name][t.runtime][k]
    BY <1>6, <1>8, <1>10, <2>1
  <2> QED BY <1>4, <1>10, <2>1, <2>2, <2>3
<1> QED BY <1>4, <1>5, <1>9, <1>10 DEF m, in, out, t

LEMMA ManifestInvStep == PositionInv /\ ManifestInv /\ [Next]_vars => ManifestInv'
<1> SUFFICES ASSUME PositionInv, ManifestInv, [Next]_vars PROVE ManifestInv'
  OBVIOUS
<1>1. ASSUME NEW b \in Batches, Write(b) \/ WriteUnrecorded(b) PROVE ManifestInv'
  <2>1. /\ latest_applied_lsn' = next_lsn /\ epoch' = generation /\ manifest' = manifest
    BY <1>1 DEF Write, WriteUnrecorded, EngineApply
  <2>2. ~(epoch' = manifest'.epoch /\ latest_applied_lsn' = manifest'.lsn)
    BY <2>1 DEF PositionInv, Before
  <2> QED BY <2>2 DEF ManifestInv
<1>2. CASE compact \/ graceful_shutdown
  BY <1>2 DEF compact, graceful_shutdown, ManifestInv
<1>3. CASE Reopen
  BY <1>3 DEF Reopen, ManifestInv
<1>4. CASE /\ pc' # "down" => pc # "down" /\ graph' = graph
           /\ UNCHANGED << epoch, manifest, latest_applied_lsn, recoverable >>
  BY <1>4 DEF ManifestInv, Up
<1>5. CASE rebuild_indexes \/ RefreshAfterCompaction \/ Pin
  BY <1>4, <1>5 DEF rebuild_indexes, RefreshAfterCompaction, Pin, engine
<1>6. CASE PersistFiles
  BY <1>4, <1>6 DEF PersistFiles, Finished, Stopped
<1>7. CASE PersistManifest
  BY <1>4, <1>7 DEF PersistManifest, Finished, Stopped
<1>8. CASE PersistFails
  BY <1>4, <1>8 DEF PersistFails, engine
<1>9. CASE Crash
  BY <1>4, <1>9 DEF Crash, Stopped
<1>10. CASE Unpin
  BY <1>4, <1>10 DEF Unpin, engine
<1>11. CASE UNCHANGED vars
  BY <1>4, <1>11 DEF vars, engine
<1> QED
  BY <1>1, <1>2, <1>3, <1>5, <1>6, <1>7, <1>8, <1>9, <1>10, <1>11 DEF Next

\* What persist_index_snapshot writes is current at the engine's position.
LEMMA WrittenFiles ==
    ASSUME ShapeInv, ClonesInv, RuntimeInv, ManifestInv, PublishedIsEngine, Up,
           NEW names \in SUBSET WithRuntime, Replaced(names),
           UNCHANGED << latest_applied_lsn, manifest, recoverable >>
    PROVE  FileInv'
<1> SUFFICES ASSUME ~sidecars_of'.loose, sidecars_of'.epoch = manifest'.epoch,
                    sidecars_of'.lsn = manifest'.lsn,
                    NEW name \in VectorNames, Unshared(name),
                    sidecars'[SidecarOf[name]] # Absent
             PROVE  sidecars'[SidecarOf[name]] = BuiltContent(recoverable', name)
  BY DEF FileInv, Unshared
<1>1. /\ ~Loose /\ ~stale_load
      /\ epoch = manifest.epoch /\ latest_applied_lsn = manifest.lsn
  BY DEF Replaced
<1>2. SidecarOf[name] \in Sidecars
  BY DEF Sidecars
<1>3. PICK other \in names :
         /\ SidecarOf[other] = SidecarOf[name]
         /\ sidecars'[SidecarOf[name]] = heap[other][indexes.spaces[other].runtime]
  <2>1. sidecars' \in FilesOf(names)
    BY DEF Replaced
  <2> QED BY <1>2, <2>1, FilesShape
<1>4. other = name /\ indexes.spaces[name].runtime # 0
  BY <1>3 DEF Unshared, WithRuntime
<1>5. heap[name][indexes.spaces[name].runtime] = BuiltContent(published.graph, name)
  BY <1>1, <1>4 DEF RuntimeInv, ClonesInv
<1>6. \A n \in NodeIds : published.graph[n] = graph[n]
  BY <1>1 DEF PublishedIsEngine, Loose, Keys
<1>7. BuiltContent(published.graph, name) = BuiltContent(graph, name)
  BY <1>6, ContentAlike
<1>8. graph = recoverable
  BY <1>1 DEF ManifestInv
<1> QED BY <1>3, <1>4, <1>5, <1>7, <1>8

LEMMA FileInvStep ==
    ASSUME ShapeInv, ClonesInv, RuntimeInv, ManifestInv, PositionInv, PublishedIsEngine,
           FileInv, [Next]_vars
    PROVE  FileInv'
<1>1. ASSUME NEW b \in Batches, Write(b) \/ WriteUnrecorded(b) PROVE FileInv'
  <2>1. /\ latest_applied_lsn' = next_lsn /\ UNCHANGED << manifest, sidecars, sidecars_of >>
        /\ recoverable = Absent \/ next_lsn <= manifest.lsn => recoverable' = recoverable
    BY <1>1 DEF Write, WriteUnrecorded, EngineApply, files
  <2>2. CASE next_lsn > manifest.lsn
    BY <2>1, <2>2 DEF FileInv, Replayed
  <2>3. CASE ~(next_lsn > manifest.lsn)
    <3>1. ~Replayed /\ recoverable' = recoverable
      BY <2>1, <2>3 DEF PositionInv, Before, Replayed
    <3> QED BY <2>1, <3>1 DEF FileInv, Unshared
  <2> QED BY <2>2, <2>3
<1>2. CASE compact \/ graceful_shutdown
  <2>1. /\ manifest' = [lsn |-> next_lsn, clean |-> TRUE, epoch |-> generation]
        /\ UNCHANGED sidecars_of
    BY <1>2 DEF compact, graceful_shutdown
  <2>2. manifest'.lsn = next_lsn /\ manifest'.epoch = generation
    BY <2>1
  <2>3. ~(sidecars_of'.epoch = manifest'.epoch /\ sidecars_of'.lsn = manifest'.lsn)
    BY <2>1, <2>2 DEF PositionInv, Before
  <2> QED BY <2>3 DEF FileInv
<1>3. ASSUME UNCHANGED << latest_applied_lsn, manifest, recoverable, sidecars, sidecars_of >>
      PROVE  FileInv'
  BY <1>3 DEF FileInv, Replayed, Unshared
<1>4. ASSUME PartlyReplaced, Up, UNCHANGED << latest_applied_lsn, manifest, recoverable >>
      PROVE  FileInv'
  <2>1. ASSUME NEW kept \in SUBSET Sidecars, UNCHANGED sidecars_of,
               sidecars' = [f \in Sidecars |-> IF f \in kept THEN sidecars[f] ELSE Absent]
        PROVE  FileInv'
    <3>1. \A name \in VectorNames :
             sidecars'[SidecarOf[name]] \in {sidecars[SidecarOf[name]], Absent}
      BY <2>1 DEF Sidecars
    <3> QED BY <1>4, <2>1, <3>1 DEF FileInv, Replayed, Unshared
  <2> QED BY <1>4, <2>1, WrittenFiles DEF PartlyReplaced
<1>5. CASE rebuild_indexes \/ RefreshAfterCompaction \/ Pin \/ Unpin
  BY <1>3, <1>5 DEF rebuild_indexes, RefreshAfterCompaction, Pin, Unpin, engine, files
<1>6. CASE PersistFiles
  <2>1. Up
    BY <1>6 DEF PersistFiles, Up
  <2> QED BY <1>6, <2>1, WrittenFiles DEF PersistFiles
<1>7. CASE PersistManifest
  BY <1>3, <1>7 DEF PersistManifest
<1>8. CASE PersistFails
  BY <1>3, <1>4, <1>8 DEF PersistFails, Up, engine
<1>9. CASE Crash
  BY <1>3, <1>4, <1>9 DEF Crash, Up
<1>10. CASE Reopen
  <2>1. /\ Replayed' => Replayed
        /\ ~Replayed => ~Replayed'
        /\ UNCHANGED << manifest, recoverable, sidecars, sidecars_of >>
    BY <1>10 DEF Reopen, Replayed, PositionInv, Before, files
  <2>2. Replayed => Replayed'
    BY <1>10 DEF Reopen, Replayed
  <2> QED BY <2>1, <2>2 DEF FileInv, Unshared
<1>11. CASE UNCHANGED vars
  BY <1>3, <1>11 DEF vars, engine, files
<1> QED
  BY <1>1, <1>2, <1>5, <1>6, <1>7, <1>8, <1>9, <1>10, <1>11 DEF Next

\* One space of a search: the runtime of the snapshot, and that of the query.
PublishedExact(name) ==
    LET r == published.index.spaces[name].runtime
    IN  r # 0 => heap[name][r] = BuiltContent(published.graph, name)

PinnedExact(name) ==
    LET r == pinned.index.spaces[name].runtime
    IN  r # 0 => \A n \in NodeIds \ touched :
                    heap[name][r][n] = BuiltContent(pinned.graph, name)[n]

LEMMA SearchIs ==
    /\ RuntimeInv <=> (Up /\ ~stale_load =>
          \A name \in VectorNames : Unshared(name) => PublishedExact(name))
    /\ PinnedSearchStable <=> (Up /\ pinned # Absent /\ ~stale_load =>
          \A name \in VectorNames : Unshared(name) => PinnedExact(name))
BY DEF RuntimeInv, PinnedSearchStable, PublishedExact, PinnedExact

LEMMA WriteSearch ==
    ASSUME EngineInv, ShapeInv, ShapeInv', RuntimeInv, PinnedSearchStable,
           NEW b \in Batches, Write(b)
    PROVE  RuntimeInv' /\ PinnedSearchStable'
<1> DEFINE m == plan_batch_mutation(graph, b)
           in == LiveNodes(m.added)
           out == LiveNodes(m.removed)
<1>1. /\ b \in WriteBatches /\ Up
      /\ UNCHANGED << pinned, stale_load >>
      /\ pinned # Absent => touched' = touched \cup (batch_effects(graph, b) \cap NodeIds)
  BY DatabaseAssumption DEF Write, Observe, Up
<1>2. PICK full : ApplyMutation(m, full)
  BY DEF Write
<1>3. in \cup out \subseteq batch_effects(graph, b) \cap NodeIds
  <2>1. in \cup out \subseteq NodeIds
    BY DEF LiveNodes
  <2>2. ASSUME NEW n \in in \cup out PROVE n \in batch_effects(graph, b) \cap NodeIds
    BY <1>1, <2>1, <2>2, PlanTouches
  <2> QED BY <2>2
<1>4. published'.graph = MutatedGraph(published.graph, m)
  BY <1>2, ApplyMutationIs
<1>5. ASSUME NEW name \in VectorNames
      PROVE  LET r == published.index.spaces[name].runtime
                 q == published'.index.spaces[name].runtime
             IN  /\ q \in {0, r}
                 /\ q # 0 => \A k \in NodeIds : heap'[name][q][k] =
                               IF k \in in THEN Vec(m.added[k], name)
                               ELSE IF k \in out THEN Absent ELSE heap[name][q][k]
                 /\ \A ref \in Refs : \A k \in NodeIds \ (in \cup out) :
                       heap'[name][ref][k] = heap[name][ref][k]
  BY <1>1, <1>2, RuntimesMutated
<1>6. ASSUME NEW name \in VectorNames, NEW k \in NodeIds
      PROVE  BuiltContent(published'.graph, name)[k] =
               IF k \in in THEN Vec(m.added[k], name)
               ELSE IF k \in out THEN Absent ELSE BuiltContent(published.graph, name)[k]
  BY <1>4, BuiltMutated
<1> HIDE DEF m, in, out
<1>7. ASSUME NEW name \in VectorNames, PublishedExact(name) PROVE PublishedExact(name)'
  <2> DEFINE q == published'.index.spaces[name].runtime
  <2> SUFFICES ASSUME q # 0
               PROVE  heap'[name][q] = BuiltContent(published'.graph, name)
    BY DEF PublishedExact
  <2>1. /\ q = published.index.spaces[name].runtime
        /\ \A k \in NodeIds : heap'[name][q][k] =
              IF k \in in THEN Vec(m.added[k], name)
              ELSE IF k \in out THEN Absent ELSE heap[name][q][k]
    BY <1>5
  <2>2. heap[name][q] = BuiltContent(published.graph, name)
    BY <1>7, <2>1 DEF PublishedExact
  <2>3. \A k \in NodeIds : heap'[name][q][k] = BuiltContent(published'.graph, name)[k]
    BY <1>6, <2>1, <2>2
  <2>4. IsContent(heap'[name][q])
    <3>1. q \in Refs
      BY DEF ShapeInv, IsSnapshot, IsIndex, IsSpace
    <3> QED BY <3>1 DEF ShapeInv
  <2>5. IsContent(BuiltContent(published'.graph, name))
    BY BuiltContentIs
  <2> HIDE DEF q
  <2> QED BY <2>3, <2>4, <2>5, SameContent
<1>8. ASSUME pinned # Absent, NEW name \in VectorNames, PinnedExact(name)
      PROVE  PinnedExact(name)'
  <2> DEFINE r == pinned.index.spaces[name].runtime
  <2> SUFFICES ASSUME r # 0, NEW n \in NodeIds \ touched'
               PROVE  heap'[name][r][n] = BuiltContent(pinned.graph, name)[n]
    BY <1>1 DEF PinnedExact
  <2>1. r \in Refs
    BY <1>8 DEF ShapeInv, IsSnapshot, IsIndex, IsSpace
  <2>2. n \in NodeIds \ (in \cup out) /\ n \in NodeIds \ touched
    BY <1>1, <1>3, <1>8
  <2>3. heap'[name][r][n] = heap[name][r][n]
    BY <1>5, <2>1, <2>2
  <2> QED BY <1>8, <2>2, <2>3 DEF PinnedExact
<1>9. RuntimeInv'
  BY <1>1, <1>7, SearchIs DEF RuntimeInv, PublishedExact, Unshared
<1>10. PinnedSearchStable'
  BY <1>1, <1>8, SearchIs DEF PinnedSearchStable, PinnedExact, Unshared
<1> QED BY <1>9, <1>10

LEMMA RefreshSearch ==
    ASSUME ShapeInv, PinnedSearchStable, Up, Refresh, UNCHANGED << pinned, touched >>
    PROVE  RuntimeInv' /\ PinnedSearchStable'
<1>1. ASSUME NEW name \in VectorNames
      PROVE  /\ published'.index.spaces[name] = RebuiltSpace(graph, name, Fresh(name))
             /\ published'.graph = graph
             /\ Fresh(name) \in Free(name) /\ Fresh(name) \in Refs
             /\ RebuiltSpace(graph, name, Fresh(name)).runtime \in {0, Fresh(name)}
             /\ \A r \in Refs : heap'[name][r] =
                  IF r = RebuiltSpace(graph, name, Fresh(name)).runtime
                  THEN BuiltContent(graph, name)
                  ELSE IF pinned # Absent /\ r = pinned.index.spaces[name].runtime
                  THEN heap[name][r] ELSE EmptyContent
  <2>1. published'.graph = graph /\ published'.index = Rebuilt(graph) /\ heap' = HeapWith(graph)
    BY DEF Refresh
  <2>2. published'.index.spaces[name] = RebuiltSpace(graph, name, Fresh(name))
    BY <2>1 DEF Rebuilt
  <2>3. Fresh(name) \in Free(name) /\ Fresh(name) \in Refs
    BY FreshIs DEF Refresh
  <2>4. RebuiltSpace(graph, name, Fresh(name)).runtime \in {0, Fresh(name)}
    BY RebuiltRuntime
  <2>5. \A r \in Refs : heap'[name][r] =
          IF r = RebuiltSpace(graph, name, Fresh(name)).runtime
          THEN BuiltContent(graph, name)
          ELSE IF pinned # Absent /\ r = pinned.index.spaces[name].runtime
          THEN heap[name][r] ELSE EmptyContent
    BY <2>1 DEF HeapWith
  <2> QED BY <2>1, <2>2, <2>3, <2>4, <2>5
<1>2. ASSUME NEW name \in VectorNames PROVE PublishedExact(name)'
  BY <1>1 DEF PublishedExact
<1>3. ASSUME pinned # Absent, NEW name \in VectorNames, PinnedExact(name)
      PROVE  PinnedExact(name)'
  <2> DEFINE r == pinned.index.spaces[name].runtime
  <2> SUFFICES ASSUME r # 0, NEW n \in NodeIds \ touched
               PROVE  heap'[name][r][n] = BuiltContent(pinned.graph, name)[n]
    BY DEF PinnedExact
  <2>1. r \in Refs
    BY <1>3 DEF ShapeInv, IsSnapshot, IsIndex, IsSpace
  <2>2. r # RebuiltSpace(graph, name, Fresh(name)).runtime
    BY <1>1, <1>3 DEF Free
  <2>3. heap'[name][r] = heap[name][r]
    BY <1>1, <1>3, <2>1, <2>2
  <2> QED BY <1>3, <2>3 DEF PinnedExact
<1>4. RuntimeInv'
  BY <1>2 DEF RuntimeInv, PublishedExact
<1>5. stale_load' = (stale_load /\ pinned # Absent)
  BY DEF Refresh
<1>6. PinnedSearchStable'
  BY <1>3, <1>5, SearchIs DEF PinnedSearchStable, PinnedExact, Unshared
<1> QED BY <1>4, <1>6

LEMMA ReopenSearch ==
    ASSUME ShapeInv, DownInv, PositionInv, FileInv, Reopen
    PROVE  RuntimeInv' /\ PinnedSearchStable'
<1>1. pinned' = Absent
  BY DEF Reopen, DownInv
<1>2. PinnedSearchStable'
  BY <1>1 DEF PinnedSearchStable
<1>3. PICK loaded \in Loadable : \A name \in VectorNames :
         /\ indexes'.spaces[name] = OpenedSpace(name, loaded)
         /\ heap'[name][FirstRef] = OpenedContent(name, loaded)
  BY OpenedShape
<1>4. published'.graph = recoverable /\ published'.index = indexes'
  BY DEF Reopen
<1>5. ASSUME NEW name \in VectorNames, Unshared(name), ~stale_load',
             published'.index.spaces[name].runtime # 0
      PROVE  heap'[name][published'.index.spaces[name].runtime]
               = BuiltContent(recoverable, name)
  <2>1. FirstRef \in Refs
    BY IndexAssumption DEF FirstRef
  <2>2. BaseIndex.spaces[name] = BaseSpace(name) /\ IsSpace(BaseSpace(name))
    BY <2>1, BaseSpaceIs, RebuiltSpaceIs DEF BaseSpace
  <2>3. BaseSpace(name).runtime \in {0, FirstRef}
    BY RebuiltRuntime DEF BaseSpace
  <2>4. OpenedSpace(name, loaded).runtime
          = IF name \in loaded THEN FirstRef ELSE BaseSpace(name).runtime
    BY <2>2 DEF OpenedSpace, IsSpace
  <2>5. published'.index.spaces[name].runtime = FirstRef
    BY <1>3, <1>4, <1>5, <2>3, <2>4
  <2>6. heap'[name][FirstRef] = OpenedContent(name, loaded)
    BY <1>3
  <2>7. CASE name \in loaded
    <3>1. LoadsFiles /\ sidecars[SidecarOf[name]] # Absent
      BY <2>7, LoadedIs
    <3>2. /\ vector_manifest # Absent /\ ~Replayed
          /\ vector_manifest.lsn = manifest.lsn
      BY <3>1 DEF LoadsFiles, matches_manifest
    <3>3. /\ vector_manifest.epoch = manifest.epoch
          /\ sidecars_of.epoch = manifest.epoch /\ ~sidecars_of.loose
      BY <1>5, <3>1 DEF Reopen
    <3>4. sidecars_of.lsn = manifest.lsn
      BY <3>2, <3>3 DEF PositionInv, Before, Replayed
    <3>5. sidecars[SidecarOf[name]] = BuiltContent(recoverable, name)
      BY <1>5, <3>1, <3>2, <3>3, <3>4 DEF FileInv
    <3> QED BY <2>5, <2>6, <2>7, <3>5 DEF OpenedContent
  <2>8. CASE name \notin loaded
    <3>1. BaseSpace(name).runtime = FirstRef
      BY <1>3, <1>4, <1>5, <2>3, <2>4, <2>8
    <3> QED BY <2>2, <2>5, <2>6, <2>8, <3>1 DEF OpenedContent
  <2> QED BY <2>7, <2>8
<1>6. RuntimeInv'
  BY <1>4, <1>5 DEF RuntimeInv, Unshared
<1> QED BY <1>2, <1>6

LEMMA SearchStep ==
    ASSUME EngineInv, ShapeInv, ShapeInv', DownInv, PositionInv, FileInv,
           RuntimeInv, PinnedSearchStable, [Next]_vars
    PROVE  RuntimeInv' /\ PinnedSearchStable'
<1> DEFINE Goal == RuntimeInv' /\ PinnedSearchStable'
<1>1. ASSUME NEW b \in Batches, Write(b) PROVE Goal
  BY <1>1, WriteSearch
<1>2. ASSUME NEW b \in Batches, WriteUnrecorded(b) PROVE Goal
  <2>1. /\ UNCHANGED << published, pinned, heap, stale_load >> /\ Up
        /\ touched \subseteq touched'
    BY <1>2 DEF WriteUnrecorded, Observe, Up
  <2> QED BY <2>1 DEF RuntimeInv, PinnedSearchStable, Unshared
<1>3. CASE rebuild_indexes \/ RefreshAfterCompaction
  <2>1. Up /\ Refresh /\ UNCHANGED << pinned, touched >>
    BY <1>3 DEF rebuild_indexes, RefreshAfterCompaction, Up
  <2> QED BY <2>1, RefreshSearch
<1>4. CASE /\ pc' # "down" => pc # "down"
           /\ UNCHANGED << published, pinned, heap, touched, stale_load >>
  BY <1>4 DEF RuntimeInv, PinnedSearchStable, Up, Unshared
<1>5. CASE pc' = "down"
  BY <1>5 DEF RuntimeInv, PinnedSearchStable, Up
<1>6. CASE compact \/ graceful_shutdown
  BY <1>4, <1>6 DEF compact, graceful_shutdown, history
<1>7. CASE PersistFiles
  BY <1>4, <1>5, <1>7 DEF PersistFiles, Finished, Stopped, history
<1>8. CASE PersistManifest
  BY <1>4, <1>5, <1>8 DEF PersistManifest, Finished, Stopped, history
<1>9. CASE PersistFails
  BY <1>4, <1>9 DEF PersistFails, history
<1>10. CASE Crash
  BY <1>5, <1>10 DEF Crash, Stopped
<1>11. CASE Reopen
  BY <1>11, ReopenSearch
<1>12. CASE Pin
  <2>1. /\ pinned' = published /\ UNCHANGED << published, heap, stale_load >> /\ Up
    BY <1>12 DEF Pin, Up
  <2> QED BY <2>1 DEF RuntimeInv, PinnedSearchStable, Unshared
<1>13. CASE Unpin
  <2>1. /\ pinned' = Absent /\ UNCHANGED << pc, published, stale_load >>
        /\ heap' = [name \in VectorNames |-> [r \in Refs |->
                      IF r = published.index.spaces[name].runtime
                      THEN heap[name][r] ELSE EmptyContent]]
    BY <1>13 DEF Unpin
  <2>2. ASSUME NEW name \in VectorNames, published.index.spaces[name].runtime # 0
        PROVE  heap'[name][published.index.spaces[name].runtime]
                 = heap[name][published.index.spaces[name].runtime]
    <3>1. published.index.spaces[name].runtime \in Refs
      BY <2>2 DEF ShapeInv, IsSnapshot, IsIndex, IsSpace
    <3> QED BY <2>1, <3>1
  <2>3. RuntimeInv'
    BY <2>1, <2>2 DEF RuntimeInv, Unshared, Up
  <2>4. PinnedSearchStable'
    BY <2>1 DEF PinnedSearchStable
  <2> QED BY <2>3, <2>4
<1>14. CASE UNCHANGED vars
  BY <1>4, <1>14 DEF vars, history
<1> QED
  BY <1>1, <1>2, <1>3, <1>6, <1>7, <1>8, <1>9, <1>10, <1>11, <1>12, <1>13, <1>14 DEF Next

\* The invariants that a vector search rests on, in memory and in the files.
SearchInv ==
    /\ EngineInv /\ DownInv /\ ShapeInv /\ ClonesInv
    /\ PositionInv /\ ManifestInv /\ FileInv
    /\ RuntimeInv /\ PinnedSearchStable

LEMMA InitSearch == Init => SearchInv
<1> SUFFICES ASSUME Init PROVE SearchInv
  OBVIOUS
<1>1. EngineInv /\ DownInv /\ ShapeInv /\ PositionInv
  BY InitShape, InitPosition
<1>2. ClonesInv /\ ManifestInv
  BY DEF Init, ClonesInv, ManifestInv
<1>3. \A name \in VectorNames : sidecars[SidecarOf[name]] = Absent
  BY DEF Init, NoFiles, Sidecars
<1>4. FileInv
  BY <1>3 DEF FileInv
<1>5. \A name \in VectorNames : published.index.spaces[name].runtime = 0
  BY DEF Init, EmptyIndex, NoSpace
<1>6. RuntimeInv
  BY <1>5 DEF RuntimeInv
<1>7. PinnedSearchStable
  BY DEF Init, PinnedSearchStable
<1> QED BY <1>1, <1>2, <1>4, <1>6, <1>7 DEF SearchInv

LEMMA SearchInvAlways == Spec => []SearchInv
<1>1. SearchInv /\ PublishedIsEngine /\ [Next]_vars => SearchInv'
  <2> SUFFICES ASSUME SearchInv, PublishedIsEngine, [Next]_vars PROVE SearchInv'
    OBVIOUS
  <2>1. EngineInv' /\ DownInv' /\ ShapeInv'
    BY EngineInvStep, DownInvStep, ShapeInvStep DEF SearchInv
  <2>2. ClonesInv' /\ PositionInv' /\ ManifestInv'
    BY ClonesInvStep, PositionInvStep, ManifestInvStep DEF SearchInv
  <2>3. FileInv'
    BY FileInvStep DEF SearchInv
  <2>4. RuntimeInv' /\ PinnedSearchStable'
    BY <2>1, SearchStep DEF SearchInv
  <2> QED BY <2>1, <2>2, <2>3, <2>4 DEF SearchInv
<1> QED BY <1>1, InitSearch, PublishedIsEngineAlways, PTL DEF Spec

\* A vector search looks at today's vectors in every process that did not load
\* files of another generation: what was built, updated in place by any number
\* of writes, saved, and loaded after any number of crashes and restarts holds
\* exactly the vectors that the nodes of the engine hold.
THEOREM RuntimeIsCurrentAlways == Spec => []RuntimeIsCurrent
<1>1. SearchInv /\ PublishedIsEngine => RuntimeIsCurrent
  <2> SUFFICES ASSUME RuntimeInv, PublishedIsEngine, Up, ~Loose, ~stale_load,
                      NEW name \in VectorNames, Unshared(name),
                      published.index.spaces[name].runtime # 0
               PROVE  heap[name][published.index.spaces[name].runtime]
                        = BuiltContent(graph, name)
    BY DEF SearchInv, RuntimeIsCurrent
  <2>1. \A n \in NodeIds : published.graph[n] = graph[n]
    BY DEF PublishedIsEngine, Loose, Keys
  <2>2. BuiltContent(published.graph, name) = BuiltContent(graph, name)
    BY <2>1, ContentAlike
  <2> QED BY <2>2 DEF RuntimeInv
<1> QED BY <1>1, SearchInvAlways, PublishedIsEngineAlways, PTL

\* A query that runs without the database lock keeps finding every node that
\* was not written meanwhile under the vector its snapshot has, through any
\* writes, rebuilds and compactions beside it.
THEOREM PinnedSearchAlways == Spec => []PinnedSearchStable
<1>1. SearchInv => PinnedSearchStable
  BY DEF SearchInv
<1> QED BY <1>1, SearchInvAlways, PTL
=============================================================================
