------------------------------ MODULE Entities ------------------------------
(***************************************************************************)
(* entity::entity_manager: threads create and destroy entities, which are  *)
(* in the pool and in the map of ids, and give them names; the manager's   *)
(* entities are stored to a stream and loaded from it again. A component   *)
(* is its type with the value of its properties. Storing and loading is    *)
(* for when nobody changes entities; several threads may store.            *)
(***************************************************************************)
EXTENDS Naturals, Sequences, FiniteSets, SequencesExt

CONSTANTS EntThreads, NameSet, CompTypes, CompValues, NoValue, Configs, MaxId

ASSUME EntitiesAssumption ==
  /\ NoValue \notin CompValues
  /\ Configs \subseteq [CompTypes -> CompValues \cup {NoValue}]
  /\ MaxId \in Nat

Ids == 1 .. MaxId
NoId == 0

\* What an entity is made of: a value for each of its components.
Bodies == [CompTypes -> CompValues \cup {NoValue}]
NoComponents == [k \in CompTypes |-> NoValue]

VARIABLES
  entNextId,
  entInPool,      \* entities
  idMap,       \* the domain of entity_id_map
  entBody,        \* components of the entities in the pool
  entNames,    \* entity_name_map
  readOnly,    \* read_only_mode
  entPc, entId,    \* per thread: place, entity in work
  oldMode,     \* old_readonly_mode of a thread that stores
  snapshot, snapNames,   \* what was stored last
  overlapped   \* two threads have stored at the same time

entities == <<entNextId, entInPool, idMap, entBody>>
stream   == <<snapshot, snapNames>>
entVars  == <<entities, entNames, readOnly, entPc, entId, oldMode, stream, overlapped>>

EntitiesInit ==
  /\ entNextId = 1 /\ entInPool = {} /\ idMap = {} /\ entBody = [i \in Ids |-> NoComponents]
  /\ entNames = [n \in NameSet |-> NoId] /\ readOnly = FALSE
  /\ entPc = [t \in EntThreads |-> "idle"] /\ entId = [t \in EntThreads |-> NoId]
  /\ oldMode = [t \in EntThreads |-> FALSE]
  /\ snapshot = <<>> /\ snapNames = [n \in NameSet |-> NoId]
  /\ overlapped = FALSE

EntGoes(t, from, to) == entPc[t] = from /\ entPc' = [entPc EXCEPT ![t] = to]

Storing == {t \in EntThreads : entPc[t] \in {"store", "restore"}}

(***************************************************************************)
(* create_entity and destroy_entity                                        *)
(***************************************************************************)

\* The id and a place in the pool; the assertion allows it outside the read-only mode.
EmplaceEntity(t) ==
  /\ ~readOnly /\ Storing = {}
  /\ entNextId \in Ids
  /\ EntGoes(t, "idle", "components")
  /\ entNextId' = entNextId + 1
  /\ entInPool' = entInPool \cup {entNextId}
  /\ entId' = [entId EXCEPT ![t] = entNextId]
  /\ UNCHANGED <<idMap, entBody, entNames, readOnly, oldMode, stream, overlapped>>

\* create_components of a configuration.
CreateComponents(t) ==
  /\ EntGoes(t, "components", "register")
  /\ \E c \in Configs : entBody' = [entBody EXCEPT ![entId[t]] = c]
  /\ UNCHANGED <<entNextId, entInPool, idMap, entNames, readOnly, entId, oldMode, stream, overlapped>>

\* A factory throws: the entity stays in the pool, with what it had got.
CreateThrows(t) ==
  /\ EntGoes(t, "components", "idle")
  /\ entId' = [entId EXCEPT ![t] = NoId]
  /\ UNCHANGED <<entities, entNames, readOnly, oldMode, stream, overlapped>>

RegisterEntity(t) ==
  /\ EntGoes(t, "register", "idle")
  /\ idMap' = idMap \cup {entId[t]}
  /\ entId' = [entId EXCEPT ![t] = NoId]
  /\ UNCHANGED <<entNextId, entInPool, entBody, entNames, readOnly, oldMode, stream, overlapped>>

\* By id or by pointer: only the thread that takes it out of the map destroys it, others throw.
UnmapEntity(t, i) ==
  /\ ~readOnly /\ Storing = {}
  /\ i \in idMap
  /\ EntGoes(t, "idle", "erase")
  /\ idMap' = idMap \ {i}
  /\ entId' = [entId EXCEPT ![t] = i]
  /\ UNCHANGED <<entNextId, entInPool, entBody, entNames, readOnly, oldMode, stream, overlapped>>

EraseEntity(t) ==
  /\ EntGoes(t, "erase", "idle")
  /\ entInPool' = entInPool \ {entId[t]}
  /\ entBody' = [entBody EXCEPT ![entId[t]] = NoComponents]
  /\ entId' = [entId EXCEPT ![t] = NoId]
  /\ UNCHANGED <<entNextId, idMap, entNames, readOnly, oldMode, stream, overlapped>>

\* assign_entity_name, of an entity the caller has found.
NameEntity(t, n, i) ==
  /\ ~readOnly /\ Storing = {} /\ entPc[t] = "idle"
  /\ i \in idMap
  /\ entNames' = [entNames EXCEPT ![n] = i]
  /\ UNCHANGED <<entities, readOnly, entPc, entId, oldMode, stream, overlapped>>

\* find_entity(name)
FindName(n) == IF entNames[n] \in idMap THEN entNames[n] ELSE NoId

EntitiesIdle == \A u \in EntThreads : entPc[u] = "idle"

ClearEntities ==
  /\ EntitiesIdle /\ ~readOnly
  /\ entInPool' = {} /\ idMap' = {}
  /\ entBody' = [i \in Ids |-> NoComponents]
  /\ entNames' = [n \in NameSet |-> NoId]
  /\ UNCHANGED <<entNextId, readOnly, entPc, entId, oldMode, stream, overlapped>>

(***************************************************************************)
(* store_entities_to_bstream, load_entities_from_bstream                   *)
(***************************************************************************)

\* The atomic exchange of the mode.
EnterReadOnly(t) ==
  /\ \A u \in EntThreads : entPc[u] = "idle" \/ u \in Storing
  /\ EntGoes(t, "idle", "store")
  /\ oldMode' = [oldMode EXCEPT ![t] = readOnly]
  /\ readOnly' = TRUE
  /\ overlapped' = (overlapped \/ Storing # {})
  /\ UNCHANGED <<entities, entNames, entId, stream>>

\* The pool iterates in the order of its entries, which the ids need not follow.
Stored(order) == [k \in DOMAIN order |-> [id |-> order[k], body |-> entBody[order[k]]]]

StoreEntities(t) ==
  /\ EntGoes(t, "store", "restore")
  /\ \E order \in SetToSeqs(entInPool) : snapshot' = Stored(order)
  /\ snapNames' = entNames
  /\ UNCHANGED <<entities, entNames, readOnly, entId, oldMode, overlapped>>

MutantLeaveReadOnly(t) ==
  /\ EntGoes(t, "restore", "idle")
  /\ UNCHANGED <<entities, entNames, readOnly, entId, oldMode, stream, overlapped>>

\* finally: back to the mode it found.
LeaveReadOnly(t) ==
  /\ EntGoes(t, "restore", "idle")
  /\ readOnly' = oldMode[t]
  /\ oldMode' = [oldMode EXCEPT ![t] = FALSE]
  /\ UNCHANGED <<entities, entNames, entId, stream, overlapped>>

MutantLoadBody(old, new) == [k \in CompTypes |-> IF old[k] # NoValue /\ new[k] = NoValue THEN old[k] ELSE new[k]]

\* entity::load_from_bstream: components that were not stored go, missing ones are created, all are read.
LoadBody(old, new) == [k \in CompTypes |-> new[k]]

\* A stored entity goes to the one that has its id, or to a new one.
LoadEntity(m, e) ==
  LET found == e.id \in m.ids
      i == IF found THEN e.id ELSE m.next
  IN [next |-> IF found THEN m.next ELSE m.next + 1, ids |-> m.ids \cup {i},
      body |-> [m.body EXCEPT ![i] = LoadBody(@, e.body)], as |-> Append(m.as, i)]

\* What the manager has after the first entities of the stream, and under which ids.
Loaded(last) ==
  LET after[k \in 0 .. Len(snapshot)] ==
        IF k = 0 THEN [next |-> entNextId, ids |-> idMap, body |-> entBody, as |-> <<>>]
        ELSE LoadEntity(after[k - 1], snapshot[k])
  IN after[last]

\* An entity of an unknown component type loses its components that were not stored, and is left.
Broken(m, e) ==
  LET left == LoadEntity(m, [e EXCEPT !.body = [k \in CompTypes |-> NoValue]])
      i == left.as[Len(left.as)]
  IN [left EXCEPT !.body[i] =
       [k \in CompTypes |-> IF i \in m.ids /\ e.body[k] # NoValue THEN entBody[i][k] ELSE NoValue]]

\* The names are assigned to the ids of the stream, not to the renamed ones.
LoadedNames == [n \in NameSet |-> IF snapNames[n] # NoId THEN snapNames[n] ELSE entNames[n]]

LoadInto(m) ==
  /\ EntitiesIdle /\ ~readOnly
  /\ snapshot' = <<>> /\ snapNames' = [n \in NameSet |-> NoId]   \* the stream has been read
  /\ entNextId' = m.next
  /\ idMap' = m.ids
  /\ entInPool' = entInPool \cup (m.ids \ idMap)
  /\ entBody' = m.body
  /\ UNCHANGED <<readOnly, entPc, entId, oldMode, overlapped>>

\* create_entity has ids for the entities to come.
IdsLeft == snapshot # <<>> /\ entNextId + Len(snapshot) - 1 \in Ids

LoadEntities ==
  /\ IdsLeft
  /\ LoadInto(Loaded(Len(snapshot)))
  /\ entNames' = LoadedNames

\* The stream ends early, or an entity in it has a component type that is not registered.
LoadThrows ==
  /\ IdsLeft
  /\ \E k \in DOMAIN snapshot :
       \/ LoadInto(Loaded(k - 1))
       \/ LoadInto(Broken(Loaded(k - 1), snapshot[k]))
  /\ UNCHANGED entNames

\* Another manager, in another run of the program, to load what this one has stored.
NewManager ==
  /\ EntitiesIdle
  /\ entNextId' = 1 /\ entInPool' = {} /\ idMap' = {} /\ entBody' = [i \in Ids |-> NoComponents]
  /\ entNames' = [n \in NameSet |-> NoId] /\ readOnly' = FALSE
  /\ UNCHANGED <<entPc, entId, oldMode, stream, overlapped>>

EntityStep(t) ==
  \/ EmplaceEntity(t) \/ CreateComponents(t) \/ CreateThrows(t) \/ RegisterEntity(t)
  \/ \E i \in Ids : UnmapEntity(t, i) \/ \E n \in NameSet : NameEntity(t, n, i)
  \/ EraseEntity(t)
  \/ EnterReadOnly(t) \/ StoreEntities(t) \/ LeaveReadOnly(t)

EntitiesNext ==
  \/ \E t \in EntThreads : EntityStep(t)
  \/ ClearEntities \/ LoadEntities \/ LoadThrows \/ NewManager

EntitiesSpec == EntitiesInit /\ [][EntitiesNext]_entVars

(***************************************************************************)
(* Properties                                                              *)
(***************************************************************************)

\* An entity that can be found is in the pool, though the two are not changed together: it enters the
\* pool first and leaves the map first, and no two threads destroy it.
EntTypeOK ==
  /\ entNextId \in 1 .. MaxId + 1
  /\ idMap \subseteq entInPool /\ entInPool \subseteq 1 .. entNextId - 1
  /\ \A t \in EntThreads : entPc[t] \in {"components", "register", "erase"} => entId[t] \in entInPool \ idMap
  /\ \A i \in Ids \ entInPool : entBody[i] = NoComponents

\* A manager that nobody stores is not left in the read-only mode, nor is it writable while somebody
\* does; unless two threads stored at once, when the first to finish ends the mode of the other, or
\* the last restores what the first had set.
ReadOnlyWhileStored == ~overlapped => (readOnly <=> Storing # {})

As == Loaded(Len(snapshot)).as

\* A new id that a later entity of the stream has, which is then taken for the same entity.
Collides == \E j, k \in DOMAIN snapshot : j < k /\ As[j] = snapshot[k].id /\ snapshot[j].id # As[j]

\* After loading, each stored entity is there with the stored components, under its id or a new one;
\* the others are as they were; and a stored name finds the entity it was stored with, unless that got
\* a new id. All unless a new id collides with an id of the stream.
LoadRestores ==
  [][LoadEntities /\ ~Collides =>
      /\ \A k \in DOMAIN snapshot : As[k] \in idMap' /\ entBody'[As[k]] = snapshot[k].body
      /\ \A i \in idMap \ {snapshot[k].id : k \in DOMAIN snapshot} : i \in idMap' /\ entBody'[i] = entBody[i]
      /\ \A n \in NameSet, k \in DOMAIN snapshot :
           snapNames[n] = snapshot[k].id /\ As[k] = snapshot[k].id => FindName(n)' = As[k]]_entVars

\* Loading restores the state of the entities as it was stored: what a name finds has the components
\* of the entity that had the name.
StateReloaded ==
  [][LoadEntities =>
      \A n \in NameSet, k \in DOMAIN snapshot :
        snapNames[n] = snapshot[k].id
          => entNames'[n] \in idMap' /\ entBody'[entNames'[n]] = snapshot[k].body]_entVars

\* Types, and the mode is that of the stores in progress.
EntitiesSafe == EntTypeOK /\ ReadOnlyWhileStored
=============================================================================
