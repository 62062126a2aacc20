----------------------------- MODULE GraphStore -----------------------------
(***************************************************************************)
(* The knowledge graph of a tenant (db/graph_store.py): the collections    *)
(* `entities` and `relationships`, and the two operations that change      *)
(* them, each a sequence of awaited calls:                                 *)
(*                                                                         *)
(*   a build     build_graph: clear what an earlier build left, find the   *)
(*               known entities, upsert the entities and relationships of  *)
(*               the document                                              *)
(*   a removal   delete_doc_graph_data, called by delete and reprocess     *)
(*               (and by a build, to clear)                                *)
(*                                                                         *)
(* Pipeline says when they run; here any of them may run at any time, also *)
(* two for one document.  update_many and delete_many are atomic for each  *)
(* entity they visit and not for all of them.                              *)
(***************************************************************************)
EXTENDS Naturals, FiniteSets

CONSTANTS
  Docs,      \* the documents of the tenant
  Names,     \* the entity names (with their type) that texts mention
  Spelling,  \* the name without its type
  Keys,      \* the names in lower case, without a type
  Lower,     \* the lower-case form of each name
  Close,     \* the names of its type similar enough to be taken for a name
  NamesIn,   \* the names the text of a document mentions
  RelsIn,    \* the pairs of lower-case names its sentences relate
  Builds,    \* the jobs of the graph worker
  Removals,  \* the removals by delete and reprocess
  MaxCuts,   \* bound on the builds and removals cut short
  None       \* no document, no name

ASSUME GraphStoreAssumption ==
  /\ IsFiniteSet(Docs)
  /\ Lower \in [Names -> Keys]
  /\ Close \in [Names -> SUBSET Names]
  /\ \A n \in Names : n \in Close[n]
  /\ NamesIn \in [Docs -> SUBSET Names]
  /\ RelsIn \in [Docs -> SUBSET (Keys \X Keys)]
  /\ Builds \cap Removals = {}
  /\ MaxCuts \in Nat

Actors == Builds \cup Removals

VARIABLES
  entities,       \* the entity of each name; id 0 when there is none
  relationships,  \* each with the ids of its two entities and its doc_ids
  nextId,         \* the next ObjectId
  marked,         \* the documents with a graph_status
  actors,         \* what each build or removal is at
  cuts,           \* how many have been cut short
  troubled        \* the documents two of them have worked on at one time,
                  \* or a removal of which has been cut short (auxiliary)

vars == <<entities, relationships, nextId, marked, actors, cuts, troubled>>

-----------------------------------------------------------------------------
Entity == [id : Nat, docs : SUBSET Docs, mentions : Nat]

NoEntity == [id |-> 0, docs |-> {}, mentions |-> 0]

Relationship == [source : Nat, target : Nat, docs : SUBSET Docs]

(* name and match are those of the upsert in progress; lookup gives the id *)
(* entity_lookup holds for a lower-case name, 0 for none.                  *)
Actor ==
  [pc : {"idle", "mark", "pull", "purge", "find", "upsert", "id", "relate",
         "done", "cut"},
   doc : Docs \cup {None}, stale : BOOLEAN, todo : SUBSET Names,
   rels : BOOLEAN, known : SUBSET Names, name : Names \cup {None},
   match : Names \cup {None}, lookup : [Keys -> Nat],
   pairs : SUBSET (Keys \X Keys)]

Idle ==
  [pc |-> "idle", doc |-> None, stale |-> FALSE, todo |-> {}, rels |-> FALSE,
   known |-> {}, name |-> None, match |-> None, lookup |-> [k \in Keys |-> 0],
   pairs |-> {}]

Present(n) == entities[n].id # 0

Active(a) == actors[a].pc \notin {"idle", "done", "cut"}

At(a, pc) == actors[a].pc = pc

(* Mutant: the count goes down for every entity of the tenant. *)
Forget_AlwaysDecrements(entity, d) ==
  [entity EXCEPT !.docs = @ \ {d}, !.mentions = @ - 1]

(* $pull doc_ids and $inc mention_count -1, where doc_ids has d *)
Forget(entity, d) ==
  IF d \in entity.docs
  THEN [entity EXCEPT !.docs = @ \ {d}, !.mentions = @ - 1]
  ELSE entity

(* Mutant: the document is recorded only with the first mention. *)
Mention_OnInsert(entity, d) == [entity EXCEPT !.mentions = @ + 1]

(* $addToSet doc_ids and $inc mention_count, on an entity there is *)
Mention(entity, d) ==
  [entity EXCEPT !.docs = @ \cup {d}, !.mentions = @ + 1]

(* Mutant: an entity nobody mentions is an orphan. *)
Orphan_Unmentioned(entity) == entity.id # 0 /\ entity.mentions = 0

(* doc_ids: {$size: 0} *)
Orphan(entity) == entity.id # 0 /\ entity.docs = {}

(* resolve_entity: the known names that match n best, n itself or another  *)
(* spelling of it before one that is only similar; n when there is none.   *)
Resolve(n, known) ==
  LET close == known \cap Close[n]
      same == {m \in close : Lower[m] = Lower[n]}
  IN  IF same # {} THEN same ELSE IF close # {} THEN close ELSE {n}

-----------------------------------------------------------------------------
(* Starting *)

(* An auxiliary record of the documents that are worked on twice at once. *)
NoteOverlap(a, d) ==
  troubled' = IF \E b \in Actors \ {a} : Active(b) /\ actors[b].doc = d
              THEN troubled \cup {d}
              ELSE troubled

Begin(a, pc, d, stale) ==
  /\ actors' = [actors EXCEPT ![a] =
                  [Idle EXCEPT !.pc = pc, !.doc = d, !.stale = stale,
                               !.todo = Names, !.rels = TRUE]]
  /\ NoteOverlap(a, d)
  /\ UNCHANGED <<entities, relationships, nextId, marked, cuts>>

(* delete_doc_graph_data for a delete or a reprocess *)
StartRemoval(a) ==
  /\ a \in Removals
  /\ At(a, "idle")
  /\ \E d \in Docs : Begin(a, "pull", d, TRUE)

(* The record a build reads tells it to clear when it has a version above  *)
(* 1 or a graph_status.                                                    *)
StartBuild(a) ==
  /\ a \in Builds
  /\ At(a, "idle")
  /\ \E d \in Docs, stale \in BOOLEAN :
       (d \in marked => stale) /\ Begin(a, "mark", d, stale)

(* arq runs a build again whose worker died. *)
RestartBuild(a) ==
  /\ a \in Builds
  /\ At(a, "cut")
  /\ LET d == actors[a].doc IN
     \E stale \in BOOLEAN :
       (d \in marked => stale) /\ Begin(a, "mark", d, stale)

MarkBuilding(a) ==
  /\ At(a, "mark")
  /\ marked' = marked \cup {actors[a].doc}
  /\ actors' = [actors EXCEPT ![a].pc = IF actors[a].stale THEN "pull" ELSE "find"]
  /\ UNCHANGED <<entities, relationships, nextId, cuts, troubled>>

-----------------------------------------------------------------------------
(* Removal: pull the document everywhere, then delete the orphans *)

Visited(a, n) == actors' = [actors EXCEPT ![a].todo = @ \ {n}]

PullEntity(a, n) ==
  /\ At(a, "pull")
  /\ n \in actors[a].todo
  /\ entities' = [entities EXCEPT ![n] = Forget(@, actors[a].doc)]
  /\ Visited(a, n)
  /\ UNCHANGED <<relationships, nextId, marked, cuts, troubled>>

PullRelationships(a) ==
  /\ At(a, "pull")
  /\ actors[a].rels
  /\ relationships' =
       {[r EXCEPT !.docs = @ \ {actors[a].doc}] : r \in relationships}
  /\ actors' = [actors EXCEPT ![a].rels = FALSE]
  /\ UNCHANGED <<entities, nextId, marked, cuts, troubled>>

(* The first gather waits for both updates. *)
StartPurge(a) ==
  /\ At(a, "pull")
  /\ actors[a].todo = {} /\ ~actors[a].rels
  /\ actors' = [actors EXCEPT ![a].pc = "purge", ![a].todo = Names,
                              ![a].rels = TRUE]
  /\ UNCHANGED <<entities, relationships, nextId, marked, cuts, troubled>>

(* Mutant: the entities that only this document mentioned are deleted by   *)
(* the ids collected before the update, whatever they hold by now.         *)
PurgeEntity_ByCount(a, n) ==
  /\ At(a, "purge")
  /\ n \in actors[a].todo
  /\ entities' = [entities EXCEPT ![n] = IF @.mentions <= 1 THEN NoEntity ELSE @]
  /\ Visited(a, n)
  /\ UNCHANGED <<relationships, nextId, marked, cuts, troubled>>

PurgeEntity(a, n) ==
  /\ At(a, "purge")
  /\ n \in actors[a].todo
  /\ entities' = [entities EXCEPT ![n] = IF Orphan(@) THEN NoEntity ELSE @]
  /\ Visited(a, n)
  /\ UNCHANGED <<relationships, nextId, marked, cuts, troubled>>

PurgeRelationships(a) ==
  /\ At(a, "purge")
  /\ actors[a].rels
  /\ relationships' = {r \in relationships : r.docs # {}}
  /\ actors' = [actors EXCEPT ![a].rels = FALSE]
  /\ UNCHANGED <<entities, nextId, marked, cuts, troubled>>

EndPurge(a) ==
  /\ At(a, "purge")
  /\ actors[a].todo = {} /\ ~actors[a].rels
  /\ actors' = [actors EXCEPT ![a] =
                  IF a \in Builds THEN [@ EXCEPT !.pc = "find"]
                  ELSE [Idle EXCEPT !.pc = "done"]]
  /\ UNCHANGED <<entities, relationships, nextId, marked, cuts, troubled>>

-----------------------------------------------------------------------------
(* Build *)

(* find_entities_by_names, before the first upsert: the entities of a name *)
(* the text mentions, whatever their type                                  *)
FindKnown(a) ==
  /\ At(a, "find")
  /\ LET mine == NamesIn[actors[a].doc] IN
     actors' = [actors EXCEPT ![a].pc = "upsert", ![a].todo = mine,
                  ![a].known = {n \in Names : /\ Present(n)
                                               /\ \E m \in mine : Spelling[m] = Spelling[n]},
                  ![a].lookup = [k \in Keys |-> 0],
                  ![a].pairs = RelsIn[actors[a].doc]]
  /\ UNCHANGED <<entities, relationships, nextId, marked, cuts, troubled>>

(* upsert_entity: the new id is returned at once, that of an entity there  *)
(* is already takes another request.                                       *)
UpsertEntity(a, n) ==
  /\ At(a, "upsert")
  /\ n \in actors[a].todo
  /\ \E m \in Resolve(n, actors[a].known) :
       IF Present(m)
       THEN /\ entities' = [entities EXCEPT ![m] = Mention(@, actors[a].doc)]
            /\ actors' = [actors EXCEPT ![a].pc = "id", ![a].name = n,
                                        ![a].match = m, ![a].todo = @ \ {n}]
            /\ UNCHANGED nextId
       ELSE /\ entities' = [entities EXCEPT ![m] =
                 [id |-> nextId, docs |-> {actors[a].doc}, mentions |-> 1]]
            /\ nextId' = nextId + 1
            /\ actors' = [actors EXCEPT ![a].todo = @ \ {n},
                                        ![a].lookup[Lower[n]] = nextId]
  /\ UNCHANGED <<relationships, marked, cuts, troubled>>

(* The id is empty when the entity is gone in between. *)
FindId(a) ==
  /\ At(a, "id")
  /\ actors' = [actors EXCEPT ![a].pc = "upsert",
                  ![a].lookup[Lower[actors[a].name]] =
                     entities[actors[a].match].id,
                  ![a].name = None, ![a].match = None]
  /\ UNCHANGED <<entities, relationships, nextId, marked, cuts, troubled>>

StartRelating(a) ==
  /\ At(a, "upsert")
  /\ actors[a].todo = {}
  /\ actors' = [actors EXCEPT ![a].pc = "relate", ![a].known = {}]
  /\ UNCHANGED <<entities, relationships, nextId, marked, cuts, troubled>>

(* upsert_relationship, one per pair of source and target: a pair without  *)
(* both ids is skipped.                                                    *)
UpsertRelationship(a, pair) ==
  LET source == actors[a].lookup[pair[1]]
      target == actors[a].lookup[pair[2]]
      there == {r \in relationships : r.source = source /\ r.target = target}
      docs == UNION {r.docs : r \in there}
  IN
  /\ At(a, "relate")
  /\ pair \in actors[a].pairs
  /\ relationships' =
       IF source = 0 \/ target = 0 THEN relationships
       ELSE (relationships \ there) \cup
              {[source |-> source, target |-> target,
                docs |-> docs \cup {actors[a].doc}]}
  /\ actors' = [actors EXCEPT ![a].pairs = @ \ {pair}]
  /\ UNCHANGED <<entities, nextId, marked, cuts, troubled>>

EndBuild(a) ==
  /\ At(a, "relate")
  /\ actors[a].pairs = {}
  /\ actors' = [actors EXCEPT ![a] = [Idle EXCEPT !.pc = "done"]]
  /\ UNCHANGED <<entities, relationships, nextId, marked, cuts, troubled>>

(* An exception, a timeout or the death of the process.  A delete goes on  *)
(* without the rest of its removal.                                        *)
Cut(a) ==
  /\ Active(a)
  /\ cuts < MaxCuts
  /\ cuts' = cuts + 1
  /\ actors' = [actors EXCEPT ![a] =
                  [Idle EXCEPT !.pc = "cut", !.doc = actors[a].doc]]
  /\ troubled' = IF At(a, "pull") THEN troubled \cup {actors[a].doc} ELSE troubled
  /\ UNCHANGED <<entities, relationships, nextId, marked>>

-----------------------------------------------------------------------------
Init ==
  /\ entities = [n \in Names |-> NoEntity]
  /\ relationships = {}
  /\ nextId = 1
  /\ marked = {}
  /\ actors = [a \in Actors |-> Idle]
  /\ cuts = 0
  /\ troubled = {}

Remove(a) ==
  \/ \E n \in Names : PullEntity(a, n) \/ PurgeEntity(a, n)
  \/ PullRelationships(a) \/ StartPurge(a)
  \/ PurgeRelationships(a) \/ EndPurge(a)

Build(a) ==
  \/ MarkBuilding(a)
  \/ FindKnown(a)
  \/ \E n \in Names : UpsertEntity(a, n)
  \/ FindId(a)
  \/ StartRelating(a)
  \/ \E pair \in Keys \X Keys : UpsertRelationship(a, pair)
  \/ EndBuild(a)

Next ==
  \E a \in Actors :
    \/ StartRemoval(a) \/ StartBuild(a) \/ RestartBuild(a)
    \/ Remove(a) \/ Build(a) \/ Cut(a)

Spec == Init /\ [][Next]_vars

-----------------------------------------------------------------------------
(* Type invariant of the graph collections and of the work on them. *)
TypeOK ==
  /\ entities \in [Names -> Entity]
  /\ \A r \in relationships : r \in Relationship
  /\ nextId \in Nat \ {0}
  /\ marked \subseteq Docs
  /\ actors \in [Actors -> Actor]
  /\ cuts \in 0 .. MaxCuts
  /\ troubled \subseteq Docs

(* mention_count is incremented with every upsert and decremented once per *)
(* removed document, and the two run at the same time: it never falls      *)
(* below the number of documents that mention the entity.                  *)
MentionsCoverDocuments ==
  \A n \in Names : entities[n].mentions >= Cardinality(entities[n].docs)

(* What will still delete the entity of n if it is an orphan. *)
WillPurge(a, n) ==
  \/ At(a, "pull")
  \/ At(a, "purge") /\ n \in actors[a].todo
  \/ At(a, "mark") /\ actors[a].stale
  \/ At(a, "cut")

(* An entity whose last document is removed does not outlive the removals  *)
(* in progress, unless one of them is cut short.                           *)
OrphansAwaitPurge ==
  \A n \in Names :
    Present(n) /\ entities[n].docs = {} => \E a \in Actors : WillPurge(a, n)

(* A rebuild of the communities joins the entities of a relationship: the  *)
(* two exist and are of the same document, as long as no two operations    *)
(* worked on that document at one time and none of its removals was cut.   *)
(* Builds and removals of other documents may overlap as they like.        *)
RelationshipsConnect ==
  \A r \in relationships : \A d \in r.docs \ troubled :
    \/ \E a \in Actors : At(a, "pull") /\ actors[a].doc = d
    \/ \A id \in {r.source, r.target} :
         \E n \in Names : entities[n].id = id /\ d \in entities[n].docs

(* A document disappears from an entity, with the entity or without, only  *)
(* by a removal of that document.                                          *)
OnlyOwnRemovals ==
  [][\A n \in Names : \A d \in entities[n].docs \ entities'[n].docs :
       \E a \in Actors : At(a, "pull") /\ actors[a].doc = d]_vars
=============================================================================
