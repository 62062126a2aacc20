-------------------------- MODULE GraphStoreProofs --------------------------
(***************************************************************************)
(* Theorems about GraphStore, for any documents, names, builds, removals   *)
(* and cuts.                                                               *)
(***************************************************************************)
EXTENDS GraphStore, FiniteSetTheorems, TLAPS

(* What an actor at work knows of its document and of its upsert; M stands *)
(* for the marked documents.                                               *)
ActorOK(a, actor, M) ==
  /\ actor \in Actor
  /\ actor.pc \notin {"idle", "done"} => actor.doc \in Docs
  /\ actor.pc = "id" => actor.name \in Names /\ actor.match \in Names
  /\ actor.pc \in {"mark", "find", "upsert", "id", "relate"} => a \in Builds
  /\ actor.pc \in {"pull", "purge"} /\ a \in Builds => actor.doc \in M

ActorsOK ==
  /\ actors \in [Actors -> Actor]
  /\ \A a \in Actors : ActorOK(a, actors[a], marked)

(* The actors an orphan entity of n is left to: a build whose document is  *)
(* marked clears again when it is restarted; a removal that was cut short  *)
(* is never resumed, and OrphansAwaitPurge excuses it.                     *)
Responsible(a, actor, M, n) ==
  \/ actor.pc = "pull"
  \/ actor.pc = "purge" /\ n \in actor.todo
  \/ actor.pc = "mark" /\ actor.stale /\ actor.doc \in M
  \/ actor.pc = "cut" /\ (a \in Removals \/ actor.doc \in M)

OrphanOf(n) == Present(n) /\ entities[n].docs = {}

OrphansHandled ==
  \A n \in Names :
    OrphanOf(n) => \E a \in Actors : Responsible(a, actors[a], marked, n)

(* mention_count covers the documents of the entity, and an entity there   *)
(* is not has none.                                                        *)
Covered(entity) ==
  /\ entity.mentions >= Cardinality(entity.docs)
  /\ entity.id = 0 => entity.docs = {}

EntitiesOK ==
  /\ entities \in [Names -> Entity]
  /\ \A n \in Names : Covered(entities[n])

OthersOK ==
  /\ \A r \in relationships : r \in Relationship
  /\ nextId \in Nat \ {0}
  /\ marked \subseteq Docs
  /\ cuts \in 0 .. MaxCuts
  /\ troubled \subseteq Docs

Inv == EntitiesOK /\ OthersOK /\ ActorsOK /\ OrphansHandled

-----------------------------------------------------------------------------
(* Entities *)

LEMMA DocsAreFinite ==
  ASSUME NEW S \in SUBSET Docs
  PROVE  IsFiniteSet(S) /\ Cardinality(S) \in Nat
BY FS_Subset, FS_CardinalityType, GraphStoreAssumption

LEMMA ForgetCovers ==
  ASSUME NEW entity \in Entity, NEW d, Covered(entity)
  PROVE  Forget(entity, d) \in Entity /\ Covered(Forget(entity, d))
<1>1. CASE d \notin entity.docs
  BY <1>1 DEF Forget
<1>2. CASE d \in entity.docs
  <2> DEFINE rest == entity.docs \ {d}
  <2>1. entity.docs \in SUBSET Docs /\ entity.mentions \in Nat
    BY DEF Entity
  <2>2. /\ Cardinality(entity.docs) \in Nat
        /\ Cardinality(rest) \in Nat
        /\ Cardinality(rest) = Cardinality(entity.docs) - 1
    BY <1>2, <2>1, DocsAreFinite, FS_RemoveElement
  <2>3. entity.mentions - 1 \in Nat /\ entity.mentions - 1 >= Cardinality(rest)
    BY <2>1, <2>2 DEF Covered
  <2>4. ASSUME NEW m \in Nat, m >= Cardinality(rest)
        PROVE  LET new == [entity EXCEPT !.docs = rest, !.mentions = m]
               IN  new \in Entity /\ Covered(new)
    BY <2>1, <2>4 DEF Entity, Covered
  <2>5. Forget(entity, d) =
          [entity EXCEPT !.docs = rest, !.mentions = entity.mentions - 1]
    BY <1>2 DEF Forget, Entity
  <2> QED
    BY <2>3, <2>4, <2>5
<1> QED
  BY <1>1, <1>2

LEMMA MentionCovers ==
  ASSUME NEW entity \in Entity, NEW d \in Docs, Covered(entity),
         entity.id # 0
  PROVE  Mention(entity, d) \in Entity /\ Covered(Mention(entity, d))
<1> DEFINE all == entity.docs \cup {d}
<1>1. entity.docs \in SUBSET Docs /\ all \in SUBSET Docs /\ entity.mentions \in Nat
  BY DEF Entity
<1>2. /\ Cardinality(entity.docs) \in Nat
      /\ Cardinality(all) \in Nat
      /\ Cardinality(all) <= Cardinality(entity.docs) + 1
  BY <1>1, DocsAreFinite, FS_AddElement
<1>3. entity.mentions + 1 \in Nat /\ entity.mentions + 1 >= Cardinality(all)
  BY <1>1, <1>2 DEF Covered
<1>4. ASSUME NEW m \in Nat, m >= Cardinality(all)
      PROVE  LET new == [entity EXCEPT !.docs = all, !.mentions = m]
             IN  new \in Entity /\ Covered(new)
  BY <1>1, <1>4 DEF Entity, Covered
<1>5. Mention(entity, d) =
        [entity EXCEPT !.docs = all, !.mentions = entity.mentions + 1]
  BY DEF Mention, Entity
<1> QED
  BY <1>3, <1>4, <1>5

LEMMA NoEntityCovers == NoEntity \in Entity /\ Covered(NoEntity)
BY FS_EmptySet DEF NoEntity, Entity, Covered

LEMMA NewEntityCovers ==
  ASSUME NEW id \in Nat \ {0}, NEW d \in Docs
  PROVE  LET new == [id |-> id, docs |-> {d}, mentions |-> 1]
         IN  new \in Entity /\ Covered(new)
BY FS_Singleton DEF Entity, Covered

LEMMA OneEntityChanges ==
  ASSUME EntitiesOK, NEW n \in Names, NEW new \in Entity, Covered(new),
         entities' = [entities EXCEPT ![n] = new]
  PROVE  EntitiesOK'
BY DEF EntitiesOK, Covered

-----------------------------------------------------------------------------
(* Actors *)

LEMMA IdleType == Idle \in Actor
BY DEF Idle, Actor

LEMMA OneActorChanges ==
  ASSUME ActorsOK, NEW a \in Actors, NEW new, ActorOK(a, new, marked'),
         actors' = [actors EXCEPT ![a] = new], marked \subseteq marked'
  PROVE  ActorsOK'
<1>1. actors' \in [Actors -> Actor]
  BY DEF ActorsOK, ActorOK
<1>2. ASSUME NEW b \in Actors PROVE ActorOK(b, actors'[b], marked')
  BY DEF ActorsOK, ActorOK
<1> QED
  BY <1>1, <1>2 DEF ActorsOK

(* An orphan keeps somebody responsible when the actor that changes passes *)
(* on its responsibility, and every new orphan is its own.                 *)
LEMMA OrphansStayHandled ==
  ASSUME ActorsOK, OrphansHandled, NEW a \in Actors, NEW new,
         actors' = [actors EXCEPT ![a] = new], marked \subseteq marked',
         \A n \in Names :
           OrphanOf(n)' =>
             \/ Responsible(a, new, marked', n)
             \/ OrphanOf(n) /\ ~Responsible(a, actors[a], marked, n)
  PROVE  OrphansHandled'
<1> SUFFICES ASSUME NEW n \in Names, OrphanOf(n)'
             PROVE  \E b \in Actors : Responsible(b, actors'[b], marked', n)
  BY DEF OrphansHandled
<1>1. actors'[a] = new
  BY DEF ActorsOK
<1>2. CASE Responsible(a, new, marked', n)
  BY <1>1, <1>2
<1>3. CASE OrphanOf(n) /\ ~Responsible(a, actors[a], marked, n)
  <2>1. PICK b \in Actors : Responsible(b, actors[b], marked, n)
    BY <1>3 DEF OrphansHandled
  <2>2. b # a /\ actors'[b] = actors[b]
    BY <1>3, <2>1 DEF ActorsOK
  <2>3. Responsible(b, actors'[b], marked', n)
    BY <2>1, <2>2 DEF Responsible
  <2> QED
    BY <2>3
<1> QED
  BY <1>2, <1>3

(* The steps that leave the entities alone. *)
LEMMA ActorStep ==
  ASSUME Inv, NEW a \in Actors, NEW new, ActorOK(a, new, marked'),
         actors' = [actors EXCEPT ![a] = new],
         marked \subseteq marked', entities' = entities, OthersOK',
         \A n \in Names :
           Responsible(a, actors[a], marked, n) /\ OrphanOf(n) =>
             Responsible(a, new, marked', n)
  PROVE  Inv'
<1>1. EntitiesOK'
  BY DEF Inv, EntitiesOK
<1>2. \A n \in Names : OrphanOf(n)' <=> OrphanOf(n)
  BY DEF OrphanOf, Present
<1>3. ActorsOK'
  BY OneActorChanges DEF Inv
<1>4. OrphansHandled'
  BY <1>2, OrphansStayHandled DEF Inv
<1> QED
  BY <1>1, <1>3, <1>4 DEF Inv

-----------------------------------------------------------------------------
(* Starting and stopping *)

LEMMA BeginKeepsInv ==
  ASSUME Inv, NEW a \in Actors, NEW pc \in {"mark", "pull"}, NEW d \in Docs,
         NEW stale \in BOOLEAN, Begin(a, pc, d, stale),
         pc = "mark" => a \in Builds,
         pc = "pull" => a \in Removals,
         At(a, "idle") \/ At(a, "cut"),
         At(a, "cut") => pc = "mark" /\ actors[a].doc = d,
         d \in marked => stale
  PROVE  Inv'
<1> DEFINE new == [Idle EXCEPT !.pc = pc, !.doc = d, !.stale = stale,
                               !.todo = Names, !.rels = TRUE]
<1>1. actors' = [actors EXCEPT ![a] = new] /\ marked' = marked
  BY DEF Begin
<1>2. /\ new \in Actor
      /\ new.pc = pc
      /\ new.doc = d
      /\ new.stale = stale
  BY DEF Idle, Actor
<1>3. ActorOK(a, new, marked')
  BY <1>1, <1>2, GraphStoreAssumption DEF ActorOK
<1>4. OthersOK'
  BY DEF Begin, NoteOverlap, Inv, OthersOK
<1>5. ASSUME NEW n \in Names, Responsible(a, actors[a], marked, n)
      PROVE  Responsible(a, new, marked', n)
  BY <1>1, <1>2, <1>5, GraphStoreAssumption DEF Responsible, At
<1> QED
  BY <1>1, <1>3, <1>4, <1>5, ActorStep DEF Begin

LEMMA StartKeepsInv ==
  ASSUME Inv, NEW a \in Actors, StartRemoval(a) \/ StartBuild(a) \/ RestartBuild(a)
  PROVE  Inv'
<1>1. CASE StartRemoval(a)
  BY <1>1, BeginKeepsInv DEF StartRemoval, At
<1>2. CASE StartBuild(a)
  BY <1>2, BeginKeepsInv DEF StartBuild, At
<1>3. CASE RestartBuild(a)
  <2>1. actors[a].doc \in Docs
    BY <1>3 DEF RestartBuild, At, Inv, ActorsOK, ActorOK
  <2> QED
    BY <1>3, <2>1, BeginKeepsInv DEF RestartBuild, At
<1> QED
  BY <1>1, <1>2, <1>3

LEMMA MarkKeepsInv ==
  ASSUME Inv, NEW a \in Actors, MarkBuilding(a)
  PROVE  Inv'
<1> DEFINE new == [actors[a] EXCEPT !.pc = IF actors[a].stale THEN "pull" ELSE "find"]
<1>1. actors[a] \in Actor /\ ActorOK(a, actors[a], marked)
  BY DEF Inv, ActorsOK, ActorOK
<1>2. /\ actors[a].pc = "mark"
      /\ a \in Builds
      /\ actors[a].doc \in Docs
      /\ marked' = marked \cup {actors[a].doc}
  BY <1>1 DEF MarkBuilding, At, ActorOK
<1>3. /\ new \in Actor
      /\ new.pc = IF actors[a].stale THEN "pull" ELSE "find"
      /\ new.doc = actors[a].doc
  BY <1>1 DEF Actor
<1>4. ActorOK(a, new, marked')
  BY <1>2, <1>3 DEF ActorOK
<1>5. OthersOK'
  BY <1>2 DEF MarkBuilding, Inv, OthersOK
<1>6. ASSUME NEW n \in Names, Responsible(a, actors[a], marked, n)
      PROVE  Responsible(a, new, marked', n)
  BY <1>2, <1>3, <1>6 DEF Responsible
<1>7. actors' = [actors EXCEPT ![a] = new] /\ entities' = entities
  BY DEF MarkBuilding
<1> QED
  BY <1>2, <1>4, <1>5, <1>6, <1>7, ActorStep

LEMMA CutKeepsInv ==
  ASSUME Inv, NEW a \in Actors, Cut(a)
  PROVE  Inv'
<1> DEFINE new == [Idle EXCEPT !.pc = "cut", !.doc = actors[a].doc]
<1>1. actors[a] \in Actor /\ ActorOK(a, actors[a], marked)
  BY DEF Inv, ActorsOK, ActorOK
<1>2. actors[a].doc \in Docs /\ marked' = marked
  BY <1>1 DEF Cut, Active, ActorOK
<1>3. /\ new \in Actor
      /\ new.pc = "cut"
      /\ new.doc = actors[a].doc
  BY <1>1, <1>2 DEF Idle, Actor
<1>4. ActorOK(a, new, marked')
  BY <1>2, <1>3 DEF ActorOK
<1>5. OthersOK'
  BY <1>2, GraphStoreAssumption DEF Cut, Inv, OthersOK
<1>6. ASSUME NEW n \in Names, Responsible(a, actors[a], marked, n)
      PROVE  Responsible(a, new, marked', n)
  BY <1>1, <1>2, <1>3, <1>6 DEF Responsible, ActorOK, Actors, Cut, Active
<1>7. actors' = [actors EXCEPT ![a] = new] /\ entities' = entities
  BY DEF Cut
<1> QED
  BY <1>2, <1>4, <1>5, <1>6, <1>7, ActorStep

-----------------------------------------------------------------------------
(* Removal *)

LEMMA VisitedType ==
  ASSUME NEW actor \in Actor, NEW n
  PROVE  LET new == [actor EXCEPT !.todo = @ \ {n}] IN
         /\ new \in Actor
         /\ new.pc = actor.pc
         /\ new.doc = actor.doc
         /\ new.name = actor.name
         /\ new.match = actor.match
         /\ new.todo = actor.todo \ {n}
BY DEF Actor

LEMMA PullEntityKeepsInv ==
  ASSUME Inv, NEW a \in Actors, NEW n \in Names, PullEntity(a, n)
  PROVE  Inv'
<1> DEFINE new == [actors[a] EXCEPT !.todo = @ \ {n}]
<1>1. actors[a] \in Actor /\ ActorOK(a, actors[a], marked)
  BY DEF Inv, ActorsOK, ActorOK
<1>2. ActorOK(a, new, marked') /\ new.pc = "pull"
  BY <1>1, VisitedType DEF PullEntity, At, ActorOK
<1>3. actors' = [actors EXCEPT ![a] = new] /\ marked' = marked
  BY DEF PullEntity, Visited
<1>4. EntitiesOK'
  <2>1. entities[n] \in Entity /\ Covered(entities[n])
    BY DEF Inv, EntitiesOK
  <2>2. entities' = [entities EXCEPT ![n] = Forget(entities[n], actors[a].doc)]
    BY DEF PullEntity
  <2> QED
    BY <2>1, <2>2, ForgetCovers, OneEntityChanges DEF Inv
<1>5. OthersOK'
  BY DEF PullEntity, Inv, OthersOK
<1>6. \A m \in Names : Responsible(a, new, marked', m)
  BY <1>2 DEF Responsible
<1>7. ActorsOK'
  BY <1>2, <1>3, OneActorChanges DEF Inv
<1>8. OrphansHandled'
  BY <1>3, <1>6, OrphansStayHandled DEF Inv
<1> QED
  BY <1>4, <1>5, <1>7, <1>8 DEF Inv

LEMMA PurgeEntityKeepsInv ==
  ASSUME Inv, NEW a \in Actors, NEW n \in Names, PurgeEntity(a, n)
  PROVE  Inv'
<1> DEFINE new == [actors[a] EXCEPT !.todo = @ \ {n}]
           left == IF Orphan(entities[n]) THEN NoEntity ELSE entities[n]
<1>1. actors[a] \in Actor /\ ActorOK(a, actors[a], marked)
  BY DEF Inv, ActorsOK, ActorOK
<1>2. /\ ActorOK(a, new, marked')
      /\ actors[a].pc = "purge"
      /\ new.pc = "purge"
      /\ new.todo = actors[a].todo \ {n}
  BY <1>1, VisitedType DEF PurgeEntity, At, ActorOK
<1>3. actors' = [actors EXCEPT ![a] = new] /\ marked' = marked
  BY DEF PurgeEntity, Visited
<1>4. entities' = [entities EXCEPT ![n] = left]
  BY DEF PurgeEntity
<1>5. EntitiesOK'
  BY <1>4, NoEntityCovers, OneEntityChanges DEF Inv, EntitiesOK
<1>6. OthersOK'
  BY DEF PurgeEntity, Inv, OthersOK
<1>7. ASSUME NEW m \in Names, OrphanOf(m)'
      PROVE  \/ Responsible(a, new, marked', m)
             \/ OrphanOf(m) /\ ~Responsible(a, actors[a], marked, m)
  <2>1. entities'[m] = IF m = n THEN left ELSE entities[m]
    BY <1>4 DEF Inv, EntitiesOK
  <2>2. m # n /\ OrphanOf(m)
    BY <1>7, <2>1 DEF OrphanOf, Present, Orphan, NoEntity
  <2> QED
    BY <1>2, <2>2 DEF Responsible
<1>8. ActorsOK'
  BY <1>2, <1>3, OneActorChanges DEF Inv
<1>9. OrphansHandled'
  BY <1>3, <1>7, OrphansStayHandled DEF Inv
<1> QED
  BY <1>5, <1>6, <1>8, <1>9 DEF Inv

(* The steps of a removal that visit no entity. *)
LEMMA RemoveKeepsInv ==
  ASSUME Inv, NEW a \in Actors,
         \/ PullRelationships(a) \/ StartPurge(a)
         \/ PurgeRelationships(a) \/ EndPurge(a)
  PROVE  Inv'
<1>1. actors[a] \in Actor /\ ActorOK(a, actors[a], marked)
  BY DEF Inv, ActorsOK, ActorOK
<1>2. marked' = marked /\ entities' = entities
  BY DEF PullRelationships, StartPurge, PurgeRelationships, EndPurge
<1>3. \A r \in relationships' : r \in Relationship
  <2>1. CASE PullRelationships(a)
    BY <2>1 DEF PullRelationships, Inv, OthersOK, Relationship
  <2>2. CASE relationships' \subseteq relationships
    BY <2>2 DEF Inv, OthersOK
  <2> QED
    BY <2>1, <2>2 DEF StartPurge, PurgeRelationships, EndPurge
<1>4. OthersOK'
  BY <1>3 DEF PullRelationships, StartPurge, PurgeRelationships, EndPurge,
              Inv, OthersOK
<1>5. CASE PullRelationships(a) \/ PurgeRelationships(a)
  <2> DEFINE new == [actors[a] EXCEPT !.rels = FALSE]
  <2>1. /\ new \in Actor
        /\ new.pc = actors[a].pc
        /\ new.doc = actors[a].doc
        /\ new.todo = actors[a].todo
        /\ new.stale = actors[a].stale
        /\ new.name = actors[a].name
        /\ new.match = actors[a].match
    BY <1>1 DEF Actor
  <2>2. ActorOK(a, new, marked')
    BY <1>1, <1>2, <2>1 DEF ActorOK
  <2>3. \A n \in Names :
          Responsible(a, actors[a], marked, n) => Responsible(a, new, marked', n)
    BY <1>2, <2>1 DEF Responsible
  <2>4. actors' = [actors EXCEPT ![a] = new]
    BY <1>5 DEF PullRelationships, PurgeRelationships
  <2> QED
    BY <1>2, <1>4, <2>2, <2>3, <2>4, ActorStep
<1>6. CASE StartPurge(a)
  <2> DEFINE new == [actors[a] EXCEPT !.pc = "purge", !.todo = Names, !.rels = TRUE]
  <2>1. /\ new \in Actor
        /\ new.pc = "purge"
        /\ new.doc = actors[a].doc
        /\ new.todo = Names
    BY <1>1 DEF Actor
  <2>2. ActorOK(a, new, marked')
    BY <1>1, <1>2, <1>6, <2>1 DEF ActorOK, StartPurge, At
  <2>3. \A n \in Names : Responsible(a, new, marked', n)
    BY <2>1 DEF Responsible
  <2>4. actors' = [actors EXCEPT ![a] = new]
    BY <1>6 DEF StartPurge
  <2> QED
    BY <1>2, <1>4, <2>2, <2>3, <2>4, ActorStep
<1>7. CASE EndPurge(a)
  <2> DEFINE new == IF a \in Builds THEN [actors[a] EXCEPT !.pc = "find"]
                    ELSE [Idle EXCEPT !.pc = "done"]
  <2>1. ActorOK(a, new, marked')
    <3>1. CASE a \in Builds
      <4>1. new \in Actor /\ new.pc = "find" /\ new.doc = actors[a].doc
        BY <1>1, <3>1 DEF Actor
      <4> QED
        BY <1>1, <1>7, <3>1, <4>1 DEF ActorOK, EndPurge, At
    <3>2. CASE a \notin Builds
      <4>1. new \in Actor /\ new.pc = "done"
        BY <3>2, IdleType DEF Actor
      <4> QED
        BY <4>1 DEF ActorOK
    <3> QED
      BY <3>1, <3>2
  <2>2. \A n \in Names : ~Responsible(a, actors[a], marked, n)
    BY <1>7 DEF EndPurge, At, Responsible
  <2>3. actors' = [actors EXCEPT ![a] = new]
    BY <1>7 DEF EndPurge
  <2> QED
    BY <1>2, <1>4, <2>1, <2>2, <2>3, ActorStep
<1> QED
  BY <1>5, <1>6, <1>7

-----------------------------------------------------------------------------
(* Build *)

(* A build past its clearing is responsible for no orphan, so that it may  *)
(* go to any stage of the build.                                           *)
LEMMA BuildStep ==
  ASSUME Inv, NEW a \in Actors, NEW new, ActorOK(a, new, marked'),
         actors[a].pc \in {"find", "upsert", "id", "relate"},
         actors' = [actors EXCEPT ![a] = new],
         UNCHANGED <<marked, entities>>, OthersOK'
  PROVE  Inv'
<1>1. \A n \in Names : ~Responsible(a, actors[a], marked, n)
  BY DEF Responsible
<1> QED
  BY <1>1, ActorStep

LEMMA BuildKeepsInv ==
  ASSUME Inv, NEW a \in Actors,
         FindKnown(a) \/ FindId(a) \/ StartRelating(a) \/ EndBuild(a)
  PROVE  Inv'
<1>1. actors[a] \in Actor /\ ActorOK(a, actors[a], marked)
  BY DEF Inv, ActorsOK, ActorOK
<1>2. /\ UNCHANGED <<marked, entities>>
      /\ actors[a].pc \in {"find", "upsert", "id", "relate"}
  BY DEF FindKnown, FindId, StartRelating, EndBuild, At
<1>3. a \in Builds /\ actors[a].doc \in Docs
  BY <1>1, <1>2 DEF ActorOK
<1>4. OthersOK'
  BY DEF FindKnown, FindId, StartRelating, EndBuild, Inv, OthersOK
<1>5. CASE FindKnown(a)
  <2> DEFINE mine == NamesIn[actors[a].doc]
             new == [actors[a] EXCEPT !.pc = "upsert", !.todo = mine,
                       !.known = {n \in Names : /\ Present(n)
                                    /\ \E m \in mine : Spelling[m] = Spelling[n]},
                       !.lookup = [k \in Keys |-> 0],
                       !.pairs = RelsIn[actors[a].doc]]
  <2>1. mine \in SUBSET Names /\ RelsIn[actors[a].doc] \in SUBSET (Keys \X Keys)
    BY <1>3, GraphStoreAssumption
  <2>2. new \in Actor /\ new.pc = "upsert" /\ new.doc = actors[a].doc
    BY <1>1, <2>1 DEF Actor
  <2>3. ActorOK(a, new, marked')
    BY <1>2, <1>3, <2>2 DEF ActorOK
  <2>4. actors' = [actors EXCEPT ![a] = new]
    BY <1>5 DEF FindKnown
  <2> QED
    BY <1>2, <1>4, <2>3, <2>4, BuildStep
<1>6. CASE FindId(a)
  <2> DEFINE k == Lower[actors[a].name]
             id == entities[actors[a].match].id
             new == [actors[a] EXCEPT !.pc = "upsert", !.lookup[k] = id,
                                      !.name = None, !.match = None]
  <2>1. actors[a].name \in Names /\ actors[a].match \in Names
    BY <1>1, <1>6 DEF FindId, At, ActorOK
  <2>2. k \in Keys /\ id \in Nat
    BY <2>1, GraphStoreAssumption DEF Inv, EntitiesOK, Entity
  <2> HIDE DEF k, id
  <2>3. new \in Actor /\ new.pc = "upsert" /\ new.doc = actors[a].doc
    BY <1>1, <2>2 DEF Actor
  <2>4. ActorOK(a, new, marked')
    BY <1>2, <1>3, <2>3 DEF ActorOK
  <2>5. actors' = [actors EXCEPT ![a] = new]
    BY <1>6 DEF FindId, k, id
  <2> QED
    BY <1>2, <1>4, <2>4, <2>5, BuildStep
<1>7. CASE StartRelating(a)
  <2> DEFINE new == [actors[a] EXCEPT !.pc = "relate", !.known = {}]
  <2>1. new \in Actor /\ new.pc = "relate" /\ new.doc = actors[a].doc
    BY <1>1 DEF Actor
  <2>2. ActorOK(a, new, marked')
    BY <1>2, <1>3, <2>1 DEF ActorOK
  <2>3. actors' = [actors EXCEPT ![a] = new]
    BY <1>7 DEF StartRelating
  <2> QED
    BY <1>2, <1>4, <2>2, <2>3, BuildStep
<1>8. CASE EndBuild(a)
  <2> DEFINE new == [Idle EXCEPT !.pc = "done"]
  <2>1. new \in Actor /\ new.pc = "done"
    BY IdleType DEF Actor
  <2>2. ActorOK(a, new, marked')
    BY <2>1 DEF ActorOK
  <2>3. actors' = [actors EXCEPT ![a] = new]
    BY <1>8 DEF EndBuild
  <2> QED
    BY <1>2, <1>4, <2>2, <2>3, BuildStep
<1> QED
  BY <1>5, <1>6, <1>7, <1>8

LEMMA ResolveType ==
  ASSUME NEW n \in Names, NEW known \in SUBSET Names,
         NEW m \in Resolve(n, known)
  PROVE  m \in Names
BY DEF Resolve

LEMMA UpsertEntityKeepsInv ==
  ASSUME Inv, NEW a \in Actors, NEW n \in Names, UpsertEntity(a, n)
  PROVE  Inv'
<1> DEFINE d == actors[a].doc
<1>1. actors[a] \in Actor /\ ActorOK(a, actors[a], marked)
  BY DEF Inv, ActorsOK, ActorOK
<1>2. actors[a].pc = "upsert" /\ a \in Builds /\ d \in Docs /\ marked' = marked
  BY <1>1 DEF UpsertEntity, At, ActorOK
<1>3. \A o \in Names : ~Responsible(a, actors[a], marked, o)
  BY <1>2 DEF Responsible
<1>4. PICK m \in Resolve(n, actors[a].known) :
        IF Present(m)
        THEN /\ entities' = [entities EXCEPT ![m] = Mention(@, d)]
             /\ actors' = [actors EXCEPT ![a].pc = "id", ![a].name = n,
                                         ![a].match = m, ![a].todo = @ \ {n}]
             /\ nextId' = nextId
        ELSE /\ entities' = [entities EXCEPT ![m] =
                  [id |-> nextId, docs |-> {d}, mentions |-> 1]]
             /\ nextId' = nextId + 1
             /\ actors' = [actors EXCEPT ![a].todo = @ \ {n},
                                         ![a].lookup[Lower[n]] = nextId]
  BY DEF UpsertEntity
<1>5. m \in Names /\ entities[m] \in Entity /\ Covered(entities[m])
  BY <1>1, <1>4, ResolveType DEF Actor, Inv, EntitiesOK
<1>6. nextId \in Nat \ {0} /\ nextId + 1 \in Nat \ {0}
  BY DEF Inv, OthersOK
<1>7. OthersOK'
  BY <1>4, <1>6 DEF UpsertEntity, Inv, OthersOK
<1>8. ASSUME NEW new, ActorOK(a, new, marked'),
             actors' = [actors EXCEPT ![a] = new],
             NEW entity \in Entity, Covered(entity), entity.docs # {},
             entities' = [entities EXCEPT ![m] = entity]
      PROVE  Inv'
  <2>1. EntitiesOK'
    BY <1>5, <1>8, OneEntityChanges DEF Inv
  <2>2. ActorsOK'
    BY <1>2, <1>8, OneActorChanges DEF Inv
  <2>3. \A o \in Names : OrphanOf(o)' => OrphanOf(o)
    BY <1>5, <1>8 DEF OrphanOf, Present, Inv, EntitiesOK
  <2>4. OrphansHandled'
    BY <1>2, <1>3, <1>8, <2>3, OrphansStayHandled DEF Inv
  <2> QED
    BY <1>7, <2>1, <2>2, <2>4 DEF Inv
<1>9. CASE Present(m)
  <2> DEFINE new == [actors[a] EXCEPT !.pc = "id", !.name = n, !.match = m,
                                      !.todo = @ \ {n}]
             entity == Mention(entities[m], d)
  <2>1. /\ new \in Actor
        /\ new.pc = "id"
        /\ new.doc = d
        /\ new.name = n
        /\ new.match = m
    BY <1>1, <1>5 DEF Actor
  <2>2. ActorOK(a, new, marked')
    BY <1>2, <1>5, <2>1 DEF ActorOK
  <2>3. entity \in Entity /\ Covered(entity) /\ entity.docs # {}
    BY <1>2, <1>5, <1>9, MentionCovers DEF Mention, Entity, Present
  <2>4. actors' = [actors EXCEPT ![a] = new]
    BY <1>4, <1>9
  <2>5. entities' = [entities EXCEPT ![m] = entity]
    BY <1>4, <1>9
  <2> QED
    BY <1>8, <2>2, <2>3, <2>4, <2>5
<1>10. CASE ~Present(m)
  <2> DEFINE k == Lower[n]
             new == [actors[a] EXCEPT !.todo = @ \ {n}, !.lookup[k] = nextId]
             entity == [id |-> nextId, docs |-> {d}, mentions |-> 1]
  <2>1. k \in Keys
    BY GraphStoreAssumption
  <2>2. actors' = [actors EXCEPT ![a] = new]
    BY <1>4, <1>10
  <2>3. entities' = [entities EXCEPT ![m] = entity]
    BY <1>4, <1>10
  <2>4. entity \in Entity /\ Covered(entity) /\ entity.docs # {}
    BY <1>2, <1>6, NewEntityCovers
  <2> HIDE DEF k, entity
  <2>5. /\ new \in Actor
        /\ new.pc = "upsert"
        /\ new.doc = d
    BY <1>1, <1>2, <1>6, <2>1 DEF Actor
  <2>6. ActorOK(a, new, marked')
    BY <1>2, <2>5 DEF ActorOK
  <2> QED
    BY <1>8, <2>2, <2>3, <2>4, <2>6
<1> QED
  BY <1>9, <1>10

LEMMA UpsertRelationshipKeepsInv ==
  ASSUME Inv, NEW a \in Actors, NEW pair \in Keys \X Keys,
         UpsertRelationship(a, pair)
  PROVE  Inv'
<1> DEFINE new == [actors[a] EXCEPT !.pairs = @ \ {pair}]
           source == actors[a].lookup[pair[1]]
           target == actors[a].lookup[pair[2]]
           there == {r \in relationships : r.source = source /\ r.target = target}
           docs == UNION {r.docs : r \in there}
<1>1. actors[a] \in Actor /\ ActorOK(a, actors[a], marked)
  BY DEF Inv, ActorsOK, ActorOK
<1>2. /\ UNCHANGED <<marked, entities>>
      /\ actors[a].pc = "relate" /\ a \in Builds /\ actors[a].doc \in Docs
  BY <1>1 DEF UpsertRelationship, At, ActorOK
<1>3. new \in Actor /\ new.pc = "relate" /\ new.doc = actors[a].doc
  BY <1>1, <1>2 DEF Actor
<1>4. ActorOK(a, new, marked')
  BY <1>2, <1>3 DEF ActorOK
<1>5. source \in Nat /\ target \in Nat /\ docs \subseteq Docs
  BY <1>1 DEF Actor, Inv, OthersOK, Relationship
<1>6. relationships' \subseteq relationships \cup
        {[source |-> source, target |-> target, docs |-> docs \cup {actors[a].doc}]}
  BY DEF UpsertRelationship
<1>7. OthersOK'
  BY <1>2, <1>5, <1>6 DEF UpsertRelationship, Inv, OthersOK, Relationship
<1>8. actors' = [actors EXCEPT ![a] = new]
  BY DEF UpsertRelationship
<1> QED
  BY <1>2, <1>4, <1>7, <1>8, BuildStep

-----------------------------------------------------------------------------
(* The theorems *)

LEMMA InitInv ==
  ASSUME Init
  PROVE  Inv
<1>1. EntitiesOK
  BY NoEntityCovers DEF Init, EntitiesOK
<1>2. OthersOK
  BY GraphStoreAssumption DEF Init, OthersOK
<1>3. ActorsOK
  BY IdleType DEF Init, ActorsOK, ActorOK, Idle
<1>4. OrphansHandled
  BY DEF Init, OrphansHandled, OrphanOf, Present, NoEntity
<1> QED
  BY <1>1, <1>2, <1>3, <1>4 DEF Inv

LEMMA NextInv ==
  ASSUME Inv, [Next]_vars
  PROVE  Inv'
<1>1. ASSUME NEW a \in Actors, Remove(a) PROVE Inv'
  BY <1>1, PullEntityKeepsInv, PurgeEntityKeepsInv, RemoveKeepsInv DEF Remove
<1>2. ASSUME NEW a \in Actors, Build(a) PROVE Inv'
  BY <1>2, MarkKeepsInv, BuildKeepsInv, UpsertEntityKeepsInv,
     UpsertRelationshipKeepsInv DEF Build
<1>3. CASE UNCHANGED vars
  BY <1>3 DEF vars, Inv, EntitiesOK, OthersOK, ActorsOK, OrphansHandled,
              OrphanOf, Present
<1> QED
  BY <1>1, <1>2, <1>3, StartKeepsInv, CutKeepsInv DEF Next

(* What every entity and actor satisfies, and that every orphan has an     *)
(* actor that will delete it.                                              *)
THEOREM GraphInvariance == Spec => []Inv
<1> QED
  BY InitInv, NextInv, PTL DEF Spec

(* The graph collections and the work on them keep their types. *)
THEOREM GraphTypeCorrect == Spec => []TypeOK
<1>1. Inv => TypeOK
  BY DEF Inv, EntitiesOK, OthersOK, ActorsOK, TypeOK
<1> QED
  BY <1>1, GraphInvariance, PTL

(* mention_count never falls below the number of documents of the entity,  *)
(* whatever builds and removals overlap and however many are cut short.    *)
THEOREM MentionsAreEnough == Spec => []MentionsCoverDocuments
<1>1. Inv => MentionsCoverDocuments
  BY DEF Inv, EntitiesOK, Covered, MentionsCoverDocuments
<1> QED
  BY <1>1, GraphInvariance, PTL

(* An entity without documents is about to be deleted, unless a build or a *)
(* removal has been cut short.                                             *)
THEOREM OrphansAreDeleted == Spec => []OrphansAwaitPurge
<1>1. Inv => OrphansAwaitPurge
  BY DEF Inv, OrphansHandled, OrphanOf, Responsible, OrphansAwaitPurge,
         WillPurge, At
<1> QED
  BY <1>1, GraphInvariance, PTL

(* A document disappears from an entity only by a removal of that document:*)
(* no other step takes one away, and a deleted entity has none.            *)
THEOREM DocumentsLeaveByRemoval == Spec => OnlyOwnRemovals
<1> DEFINE Removed(n, d) == \E a \in Actors : At(a, "pull") /\ actors[a].doc = d
           Kept == \A n \in Names : \A d \in entities[n].docs \ entities'[n].docs :
                     Removed(n, d)
<1>1. ASSUME Inv, entities' = entities PROVE Kept
  BY <1>1
<1>2. ASSUME Inv, NEW a \in Actors, NEW n \in Names, PullEntity(a, n) PROVE Kept
  <2>1. entities' = [entities EXCEPT ![n] = Forget(entities[n], actors[a].doc)]
    BY <1>2 DEF PullEntity
  <2>2. \A d \in entities[n].docs \ Forget(entities[n], actors[a].doc).docs :
          d = actors[a].doc
    BY <1>2 DEF Forget, Inv, EntitiesOK, Entity
  <2> QED
    BY <1>2, <2>1, <2>2 DEF PullEntity, Inv, EntitiesOK
<1>3. ASSUME Inv, NEW a \in Actors, NEW n \in Names, PurgeEntity(a, n) PROVE Kept
  BY <1>3 DEF PurgeEntity, Orphan, Inv, EntitiesOK
<1>4. ASSUME Inv, NEW a \in Actors, NEW n \in Names, UpsertEntity(a, n) PROVE Kept
  <2>1. PICK m \in Names :
          /\ entities' = [entities EXCEPT ![m] = entities'[m]]
          /\ entities[m].docs \subseteq entities'[m].docs
    <3>1. actors[a] \in Actor
      BY <1>4 DEF Inv, ActorsOK
    <3>2. PICK m \in Resolve(n, actors[a].known) :
            \/ Present(m) /\ entities' =
                  [entities EXCEPT ![m] = Mention(entities[m], actors[a].doc)]
            \/ ~Present(m) /\ entities' =
                  [entities EXCEPT ![m] =
                     [id |-> nextId, docs |-> {actors[a].doc}, mentions |-> 1]]
      BY <1>4 DEF UpsertEntity
    <3>3. m \in Names
      BY <3>1, <3>2, ResolveType DEF Actor
    <3>4. CASE Present(m)
      <4>1. entities[m].docs \subseteq Mention(entities[m], actors[a].doc).docs
        BY <1>4, <3>3 DEF Mention, Inv, EntitiesOK, Entity
      <4> QED
        BY <1>4, <3>2, <3>3, <3>4, <4>1 DEF Inv, EntitiesOK
    <3>5. CASE ~Present(m)
      <4>1. entities[m].docs = {}
        BY <1>4, <3>3, <3>5 DEF Present, Inv, EntitiesOK, Covered
      <4> QED
        BY <1>4, <3>2, <3>3, <3>5, <4>1 DEF Inv, EntitiesOK
    <3> QED
      BY <3>4, <3>5
  <2> QED
    BY <1>4, <2>1 DEF Inv, EntitiesOK
<1>5. ASSUME Inv, Next PROVE Kept
  <2>1. PICK a \in Actors :
          \/ StartRemoval(a) \/ StartBuild(a) \/ RestartBuild(a)
          \/ Remove(a) \/ Build(a) \/ Cut(a)
    BY <1>5 DEF Next
  <2>2. CASE StartRemoval(a) \/ StartBuild(a) \/ RestartBuild(a) \/ Cut(a)
    BY <1>1, <1>5, <2>2 DEF StartRemoval, StartBuild, RestartBuild, Begin, Cut
  <2>3. CASE Remove(a)
    BY <1>1, <1>2, <1>3, <1>5, <2>3
       DEF Remove, PullRelationships, StartPurge, PurgeRelationships, EndPurge
  <2>4. CASE Build(a)
    BY <1>1, <1>4, <1>5, <2>4
       DEF Build, MarkBuilding, FindKnown, FindId, StartRelating,
           UpsertRelationship, EndBuild
  <2> QED
    BY <2>1, <2>2, <2>3, <2>4
<1>6. Inv /\ [Next]_vars => [Kept]_vars
  BY <1>5
<1> QED
  BY <1>6, GraphInvariance, PTL DEF Spec, OnlyOwnRemovals
-----------------------------------------------------------------------------
(* Relationships lead to entities *)

Linked(E, id, d) == \E n \in Names : E[n].id = id /\ d \in E[n].docs

(* What the only actor at work on a document knows: each id it has looked  *)
(* up is that of an entity of its document, and once a removal has updated *)
(* the relationships none of them has the document.                        *)
KnowsOK(E, R, actor) ==
  /\ actor.pc = "mark" => actor.rels
  /\ actor.pc = "pull" /\ ~actor.rels => \A r \in R : actor.doc \notin r.docs
  /\ actor.pc = "id" => actor.doc \in E[actor.match].docs
  /\ actor.pc \in {"upsert", "id", "relate"} =>
       \A k \in Keys : actor.lookup[k] # 0 => Linked(E, actor.lookup[k], actor.doc)

Pulled(d) == \E a \in Actors : At(a, "pull") /\ actors[a].doc = d

Connects(r, d) == Linked(entities, r.source, d) /\ Linked(entities, r.target, d)

ConnectInv ==
  /\ Inv
  /\ \A a, b \in Actors :
       a # b /\ Active(a) /\ Active(b) /\ actors[a].doc = actors[b].doc =>
         actors[a].doc \in troubled
  /\ \A a \in Actors :
       Active(a) /\ actors[a].doc \notin troubled =>
         KnowsOK(entities, relationships, actors[a])
  /\ \A r \in relationships : \A d \in r.docs \ troubled :
       Pulled(d) \/ Connects(r, d)

LEMMA StepOf ==
  ASSUME Next
  PROVE  \E a \in Actors :
           \/ StartRemoval(a) \/ StartBuild(a) \/ RestartBuild(a)
           \/ Remove(a) \/ Build(a) \/ Cut(a)
BY DEF Next

(* An entity keeps its id and its documents, but for those being pulled.   *)
LEMMA EntitiesLast ==
  ASSUME Inv, Next, NEW d, ~Pulled(d), NEW n \in Names, d \in entities[n].docs
  PROVE  entities'[n].id = entities[n].id /\ d \in entities'[n].docs
<1>1. PICK a \in Actors :
        \/ StartRemoval(a) \/ StartBuild(a) \/ RestartBuild(a)
        \/ Remove(a) \/ Build(a) \/ Cut(a)
  BY StepOf
<1>2. entities \in [Names -> Entity] /\ actors[a] \in Actor
  BY DEF Inv, EntitiesOK, ActorsOK
<1>3. CASE entities' = entities
  BY <1>3
<1>4. ASSUME NEW m \in Names, PullEntity(a, m)
      PROVE  entities'[n].id = entities[n].id /\ d \in entities'[n].docs
  <2>1. d # actors[a].doc
    BY <1>4 DEF PullEntity, Pulled
  <2>2. entities' = [entities EXCEPT ![m] = Forget(entities[m], actors[a].doc)]
    BY <1>4 DEF PullEntity
  <2>3. /\ Forget(entities[m], actors[a].doc).id = entities[m].id
        /\ entities[m].docs \ {actors[a].doc}
             \subseteq Forget(entities[m], actors[a].doc).docs
    BY <1>2 DEF Forget, Entity
  <2> QED
    BY <1>2, <2>1, <2>2, <2>3
<1>5. ASSUME NEW m \in Names, PurgeEntity(a, m)
      PROVE  entities'[n].id = entities[n].id /\ d \in entities'[n].docs
  BY <1>2, <1>5 DEF PurgeEntity, Orphan
<1>6. ASSUME NEW o \in Names, UpsertEntity(a, o)
      PROVE  entities'[n].id = entities[n].id /\ d \in entities'[n].docs
  <2>1. PICK m \in Resolve(o, actors[a].known) :
          \/ Present(m) /\ entities' =
                [entities EXCEPT ![m] = Mention(entities[m], actors[a].doc)]
          \/ ~Present(m) /\ entities' =
                [entities EXCEPT ![m] =
                   [id |-> nextId, docs |-> {actors[a].doc}, mentions |-> 1]]
    BY <1>6 DEF UpsertEntity
  <2>2. m \in Names
    BY <1>2, <2>1, ResolveType DEF Actor
  <2>3. CASE Present(m)
    <3>1. /\ Mention(entities[m], actors[a].doc).id = entities[m].id
          /\ entities[m].docs \subseteq Mention(entities[m], actors[a].doc).docs
      BY <1>2, <2>2 DEF Mention, Entity
    <3> QED
      BY <1>2, <2>1, <2>2, <2>3, <3>1
  <2>4. CASE ~Present(m)
    <3>1. n # m
      BY <2>4 DEF Present, Inv, EntitiesOK, Covered
    <3> QED
      BY <1>2, <2>1, <2>4, <3>1
  <2> QED
    BY <2>3, <2>4
<1> QED
  BY <1>1, <1>3, <1>4, <1>5, <1>6
     DEF StartRemoval, StartBuild, RestartBuild, Begin, Remove, Build, Cut,
         PullRelationships, StartPurge, PurgeRelationships, EndPurge,
         MarkBuilding, FindKnown, FindId, StartRelating, UpsertRelationship,
         EndBuild

LEMMA LinksLast ==
  ASSUME Inv, Next, NEW d, ~Pulled(d), NEW id, Linked(entities, id, d)
  PROVE  Linked(entities', id, d)
BY EntitiesLast DEF Linked

(* A document comes to a relationship only from an upsert of a build of    *)
(* that document, which has both ids.                                      *)
Upserted(a, r) ==
  /\ At(a, "relate")
  /\ \E pair \in Keys \X Keys :
       /\ r.source = actors[a].lookup[pair[1]] /\ r.source # 0
       /\ r.target = actors[a].lookup[pair[2]] /\ r.target # 0

LEMMA RelationshipsCome ==
  ASSUME Inv, NEW a \in Actors,
         \/ StartRemoval(a) \/ StartBuild(a) \/ RestartBuild(a)
         \/ Remove(a) \/ Build(a) \/ Cut(a),
         NEW r \in relationships', NEW d \in r.docs
  PROVE  \/ \E old \in relationships :
              /\ old.source = r.source /\ old.target = r.target
              /\ d \in old.docs
         \/ d = actors[a].doc /\ Upserted(a, r) /\ entities' = entities
<1>1. \A old \in relationships : old \in Relationship
  BY DEF Inv, OthersOK
<1>2. CASE relationships' = relationships
  BY <1>2
<1>3. CASE PullRelationships(a)
  <2>1. PICK old \in relationships :
          r = [old EXCEPT !.docs = @ \ {actors[a].doc}]
    BY <1>3 DEF PullRelationships
  <2>2. r.source = old.source /\ r.target = old.target /\ r.docs \subseteq old.docs
    BY <1>1, <2>1 DEF Relationship
  <2> QED
    BY <2>2
<1>4. CASE PurgeRelationships(a)
  BY <1>4 DEF PurgeRelationships
<1>5. ASSUME NEW pair \in Keys \X Keys, UpsertRelationship(a, pair)
      PROVE  \/ \E old \in relationships :
                  /\ old.source = r.source /\ old.target = r.target
                  /\ d \in old.docs
             \/ d = actors[a].doc /\ Upserted(a, r) /\ entities' = entities
  <2> DEFINE source == actors[a].lookup[pair[1]]
             target == actors[a].lookup[pair[2]]
             there == {old \in relationships :
                         old.source = source /\ old.target = target}
             docs == UNION {old.docs : old \in there}
             new == [source |-> source, target |-> target,
                     docs |-> docs \cup {actors[a].doc}]
  <2>1. r \in relationships \/ (source # 0 /\ target # 0 /\ r = new)
    BY <1>5 DEF UpsertRelationship
  <2>2. CASE r \in relationships
    BY <2>2
  <2>3. CASE source # 0 /\ target # 0 /\ r = new
    <3>1. /\ r.source = source /\ r.target = target
          /\ d \in docs \/ d = actors[a].doc
      BY <2>3
    <3>2. CASE d \in docs
      BY <3>1, <3>2
    <3>3. CASE d = actors[a].doc
      BY <1>5, <2>3, <3>1, <3>3 DEF Upserted, UpsertRelationship
    <3> QED
      BY <3>1, <3>2, <3>3
  <2> QED
    BY <2>1, <2>2, <2>3
<1> QED
  BY <1>2, <1>3, <1>4, <1>5
     DEF StartRemoval, StartBuild, RestartBuild, Begin, Remove, Build, Cut,
         PullEntity, PurgeEntity, StartPurge, EndPurge, MarkBuilding,
         FindKnown, UpsertEntity, FindId, StartRelating, EndBuild

(* A document in hand stays in hand, unless the actor is done or starts.   *)
Starting(a) == StartRemoval(a) \/ StartBuild(a) \/ RestartBuild(a)

LEMMA ActorsMoveOn ==
  ASSUME Inv, NEW a \in Actors,
         Starting(a) \/ Remove(a) \/ Build(a) \/ Cut(a)
  PROVE  /\ troubled \subseteq troubled'
         /\ \A b \in Actors : b # a => actors'[b] = actors[b]
         /\ Starting(a) =>
              /\ actors'[a].pc \in {"mark", "pull"} /\ actors'[a].rels
              /\ entities' = entities /\ relationships' = relationships
              /\ ~Active(a)
              /\ \A b \in Actors :
                   b # a /\ Active(b) /\ actors[b].doc = actors'[a].doc =>
                     actors[b].doc \in troubled'
         /\ ~Starting(a) /\ Active(a)' =>
              Active(a) /\ actors'[a].doc = actors[a].doc
<1>1. actors \in [Actors -> Actor]
  BY DEF Inv, ActorsOK
<1>2. ASSUME NEW pc \in {"mark", "pull"}, NEW d, NEW stale, Begin(a, pc, d, stale)
      PROVE  /\ troubled \subseteq troubled'
             /\ \A b \in Actors : b # a => actors'[b] = actors[b]
             /\ actors'[a].pc \in {"mark", "pull"} /\ actors'[a].rels
             /\ entities' = entities /\ relationships' = relationships
             /\ \A b \in Actors :
                  b # a /\ Active(b) /\ actors[b].doc = actors'[a].doc =>
                    actors[b].doc \in troubled'
  <2> DEFINE new == [Idle EXCEPT !.pc = pc, !.doc = d, !.stale = stale,
                                 !.todo = Names, !.rels = TRUE]
  <2>1. new.pc = pc /\ new.doc = d /\ new.rels = TRUE
    BY DEF Idle
  <2>2. actors' = [actors EXCEPT ![a] = new]
    BY <1>2 DEF Begin
  <2> HIDE DEF new
  <2>3. actors'[a] = new /\ \A b \in Actors : b # a => actors'[b] = actors[b]
    BY <1>1, <2>2
  <2> QED
    BY <1>2, <2>1, <2>3 DEF Begin, NoteOverlap
<1>3. CASE Starting(a)
  <2>1. ~Active(a)
    BY <1>3 DEF Starting, StartRemoval, StartBuild, RestartBuild, At, Active
  <2> QED
    BY <1>2, <1>3, <2>1 DEF Starting, StartRemoval, StartBuild, RestartBuild
<1>4. CASE Remove(a) \/ Build(a) \/ Cut(a)
  <2>1. troubled \subseteq troubled'
    BY <1>4
       DEF Remove, Build, Cut, PullEntity, PurgeEntity, PullRelationships,
           StartPurge, PurgeRelationships, EndPurge, MarkBuilding, FindKnown,
           UpsertEntity, FindId, StartRelating, UpsertRelationship, EndBuild
  <2>2. \A b \in Actors : b # a => actors'[b] = actors[b]
    BY <1>1, <1>4
       DEF Remove, Build, Cut, PullEntity, PurgeEntity, PullRelationships,
           StartPurge, PurgeRelationships, EndPurge, MarkBuilding, FindKnown,
           UpsertEntity, FindId, StartRelating, UpsertRelationship, EndBuild,
           Visited
  <2>3. Active(a)
    BY <1>4
       DEF Remove, Build, Cut, PullEntity, PurgeEntity, PullRelationships,
           StartPurge, PurgeRelationships, EndPurge, MarkBuilding, FindKnown,
           UpsertEntity, FindId, StartRelating, UpsertRelationship, EndBuild,
           At, Active
  <2>4. Active(a)' => actors'[a].doc = actors[a].doc
    <3>1. actors[a] \in Actor
      BY <1>1
    <3>2. CASE Remove(a)
      <4>1. ASSUME NEW n \in Names, PullEntity(a, n) \/ PurgeEntity(a, n)
            PROVE  actors'[a].doc = actors[a].doc
        BY <1>1, <3>1, <4>1 DEF PullEntity, PurgeEntity, Visited, Actor
      <4>2. CASE EndPurge(a)
        <5>1. CASE a \in Builds
          BY <1>1, <3>1, <4>2, <5>1 DEF EndPurge, Actor
        <5>2. CASE a \notin Builds
          BY <1>1, <4>2, <5>2 DEF EndPurge, Active, Idle
        <5> QED
          BY <5>1, <5>2
      <4>3. CASE PullRelationships(a) \/ StartPurge(a) \/ PurgeRelationships(a)
        BY <1>1, <3>1, <4>3
           DEF PullRelationships, StartPurge, PurgeRelationships, Actor
      <4> QED
        BY <3>2, <4>1, <4>2, <4>3 DEF Remove
    <3>3. CASE Cut(a) \/ EndBuild(a)
      BY <1>1, <3>3 DEF Cut, EndBuild, Active, Idle
    <3>4. CASE MarkBuilding(a) \/ StartRelating(a)
      BY <1>1, <3>1, <3>4 DEF MarkBuilding, StartRelating, Actor
    <3>5. CASE FindKnown(a)
      <4>1. PICK todo, known, lookup, pairs :
              actors' = [actors EXCEPT ![a].pc = "upsert", ![a].todo = todo,
                                       ![a].known = known, ![a].lookup = lookup,
                                       ![a].pairs = pairs]
        BY <3>5 DEF FindKnown
      <4> QED
        BY <1>1, <3>1, <4>1 DEF Actor
    <3>6. ASSUME NEW pair \in Keys \X Keys, UpsertRelationship(a, pair)
          PROVE  actors'[a].doc = actors[a].doc
      BY <1>1, <3>1, <3>6 DEF UpsertRelationship, Actor
    <3>7. CASE FindId(a)
      BY <1>1, <3>1, <3>7 DEF FindId, Actor
    <3>8. ASSUME NEW n \in Names, UpsertEntity(a, n)
          PROVE  actors'[a].doc = actors[a].doc
      <4>1. PICK m \in Resolve(n, actors[a].known) :
              actors' =
                IF Present(m)
                THEN [actors EXCEPT ![a].pc = "id", ![a].name = n,
                                    ![a].match = m, ![a].todo = @ \ {n}]
                ELSE [actors EXCEPT ![a].todo = @ \ {n},
                                    ![a].lookup[Lower[n]] = nextId]
        BY <3>8 DEF UpsertEntity
      <4>2. CASE Present(m)
        BY <1>1, <3>1, <4>1, <4>2 DEF Actor
      <4>3. CASE ~Present(m)
        BY <1>1, <3>1, <4>1, <4>3 DEF Actor
      <4> QED
        BY <4>2, <4>3
    <3> QED
      BY <1>4, <3>2, <3>3, <3>4, <3>5, <3>6, <3>7, <3>8 DEF Build
  <2>5. ~Starting(a)
    BY <2>3 DEF Starting, StartRemoval, StartBuild, RestartBuild, At, Active
  <2> QED
    BY <2>1, <2>2, <2>3, <2>4, <2>5
<1> QED
  BY <1>3, <1>4

(* Nobody else works on a document that is not troubled.                   *)
LEMMA OnlyActor ==
  ASSUME ConnectInv, NEW a \in Actors, Active(a), actors[a].doc \notin troubled
  PROVE  /\ KnowsOK(entities, relationships, actors[a])
         /\ \A b \in Actors : b # a /\ Active(b) => actors[b].doc # actors[a].doc
         /\ ~At(a, "pull") => ~Pulled(actors[a].doc)
<1>1. \A b \in Actors : b # a /\ Active(b) => actors[b].doc # actors[a].doc
  BY DEF ConnectInv
<1>2. ASSUME Pulled(actors[a].doc) PROVE At(a, "pull")
  BY <1>1, <1>2 DEF Pulled, At, Active
<1> QED
  BY <1>1, <1>2 DEF ConnectInv

(* An id that a build gets is that of an entity of its document.           *)
LEMMA UpsertKnows ==
  ASSUME Inv, NEW a \in Actors, NEW n \in Names, UpsertEntity(a, n), Next,
         ~Pulled(actors[a].doc), KnowsOK(entities, relationships, actors[a])
  PROVE  KnowsOK(entities', relationships', actors'[a])
<1> DEFINE d == actors[a].doc
<1>1. /\ actors \in [Actors -> Actor] /\ actors[a] \in Actor
      /\ entities \in [Names -> Entity] /\ nextId # 0
  BY DEF Inv, ActorsOK, EntitiesOK, OthersOK
<1>2. actors[a].pc = "upsert"
  BY DEF UpsertEntity, At
<1>3. \A k \in Keys :
        actors[a].lookup[k] # 0 => Linked(entities', actors[a].lookup[k], d)
  <2>1. \A k \in Keys :
          actors[a].lookup[k] # 0 => Linked(entities, actors[a].lookup[k], d)
    BY <1>2 DEF KnowsOK
  <2> QED
    BY <2>1, LinksLast
<1>4. PICK m \in Resolve(n, actors[a].known) :
        IF Present(m)
        THEN /\ entities' = [entities EXCEPT ![m] = Mention(@, d)]
             /\ actors' = [actors EXCEPT ![a].pc = "id", ![a].name = n,
                                         ![a].match = m, ![a].todo = @ \ {n}]
             /\ UNCHANGED nextId
        ELSE /\ entities' = [entities EXCEPT ![m] =
                  [id |-> nextId, docs |-> {d}, mentions |-> 1]]
             /\ nextId' = nextId + 1
             /\ actors' = [actors EXCEPT ![a].todo = @ \ {n},
                                         ![a].lookup[Lower[n]] = nextId]
  BY DEF UpsertEntity
<1>5. m \in Names
  BY <1>1, <1>4, ResolveType DEF Actor
<1>6. CASE Present(m)
  <2>1. /\ actors'[a].pc = "id" /\ actors'[a].doc = d
        /\ actors'[a].match = m
        /\ actors'[a].lookup = actors[a].lookup
    BY <1>1, <1>4, <1>6 DEF Actor
  <2>2. d \in Mention(entities[m], d).docs
    BY <1>1, <1>5 DEF Mention, Entity
  <2>3. d \in entities'[m].docs
    BY <1>1, <1>4, <1>5, <1>6, <2>2
  <2> QED
    BY <1>3, <2>1, <2>3 DEF KnowsOK
<1>7. CASE ~Present(m)
  <2>1. /\ actors'[a].pc = "upsert" /\ actors'[a].doc = d
        /\ actors'[a].lookup = [actors[a].lookup EXCEPT ![Lower[n]] = nextId]
    BY <1>1, <1>2, <1>4, <1>7 DEF Actor
  <2>2. entities'[m].id = nextId /\ d \in entities'[m].docs
    BY <1>1, <1>4, <1>5, <1>7
  <2>3. Linked(entities', nextId, d)
    BY <1>5, <2>2 DEF Linked
  <2>4. actors[a].lookup \in [Keys -> Nat]
    BY <1>1 DEF Actor
  <2>5. ASSUME NEW k \in Keys, actors'[a].lookup[k] # 0
        PROVE  Linked(entities', actors'[a].lookup[k], d)
    BY <1>3, <2>1, <2>3, <2>4, <2>5
  <2> QED
    BY <2>1, <2>5 DEF KnowsOK
<1> QED
  BY <1>6, <1>7

LEMMA FindKnows ==
  ASSUME Inv, NEW a \in Actors, FindId(a),
         KnowsOK(entities, relationships, actors[a])
  PROVE  KnowsOK(entities', relationships', actors'[a])
<1> DEFINE d == actors[a].doc
           k0 == Lower[actors[a].name]
           id == entities[actors[a].match].id
<1>1. actors \in [Actors -> Actor] /\ actors[a] \in Actor /\ actors[a].pc = "id"
  BY DEF Inv, ActorsOK, FindId, At
<1>2. actors[a].match \in Names /\ d \in entities[actors[a].match].docs
  BY <1>1 DEF Inv, ActorsOK, ActorOK, KnowsOK
<1>3. Linked(entities, id, d)
  BY <1>2 DEF Linked
<1>4. /\ actors'[a].pc = "upsert" /\ actors'[a].doc = d
      /\ actors'[a].lookup = [actors[a].lookup EXCEPT ![k0] = id]
  BY <1>1 DEF FindId, Actor
<1>5. actors[a].lookup \in [Keys -> Nat] /\ entities' = entities
  BY <1>1 DEF FindId, Actor
<1>6. \A k \in Keys :
        actors[a].lookup[k] # 0 => Linked(entities, actors[a].lookup[k], d)
  BY <1>1 DEF KnowsOK
<1> HIDE DEF id, k0
<1>7. ASSUME NEW k \in Keys, actors'[a].lookup[k] # 0
      PROVE  Linked(entities', actors'[a].lookup[k], d)
  BY <1>3, <1>4, <1>5, <1>6, <1>7
<1> QED
  BY <1>4, <1>7 DEF KnowsOK

LEMMA OwnKnowledge ==
  ASSUME ConnectInv, Next, NEW a \in Actors,
         Starting(a) \/ Remove(a) \/ Build(a) \/ Cut(a),
         Active(a)', actors'[a].doc \notin troubled'
  PROVE  KnowsOK(entities', relationships', actors'[a])
<1>1. /\ Inv /\ actors \in [Actors -> Actor] /\ actors[a] \in Actor
  BY DEF ConnectInv, Inv, ActorsOK
<1>2. CASE Starting(a)
  BY <1>1, <1>2, ActorsMoveOn DEF KnowsOK
<1>3. CASE ~Starting(a)
  <2>1. /\ Active(a) /\ actors'[a].doc = actors[a].doc
        /\ actors[a].doc \notin troubled
    BY <1>1, <1>3, ActorsMoveOn
  <2>2. /\ KnowsOK(entities, relationships, actors[a])
        /\ ~At(a, "pull") => ~Pulled(actors[a].doc)
    BY <2>1, OnlyActor
  <2>3. CASE actors'[a].pc \in {"purge", "find"}
    BY <2>3 DEF KnowsOK
  <2>4. CASE MarkBuilding(a)
    <3>1. /\ actors[a].pc = "mark" /\ actors'[a].pc \in {"pull", "find"}
          /\ actors'[a].rels = actors[a].rels
      BY <1>1, <2>4 DEF MarkBuilding, At, Actor
    <3> QED
      BY <2>2, <3>1 DEF KnowsOK
  <2>5. ASSUME NEW n \in Names, PullEntity(a, n)
        PROVE  KnowsOK(entities', relationships', actors'[a])
    <3>1. /\ actors'[a].pc = "pull" /\ actors'[a].rels = actors[a].rels
          /\ actors[a].pc = "pull" /\ relationships' = relationships
      BY <1>1, <2>5 DEF PullEntity, Visited, At, Actor
    <3> QED
      BY <2>1, <2>2, <3>1 DEF KnowsOK
  <2>6. CASE PullRelationships(a)
    <3>1. actors'[a].pc = "pull"
      BY <1>1, <2>6 DEF PullRelationships, At, Actor
    <3>2. \A r \in relationships' : actors[a].doc \notin r.docs
      BY <1>1, <2>6 DEF PullRelationships, Inv, OthersOK, Relationship
    <3> QED
      BY <2>1, <3>1, <3>2 DEF KnowsOK
  <2>7. ASSUME NEW n \in Names, PurgeEntity(a, n)
        PROVE  actors'[a].pc = "purge"
    BY <1>1, <2>7 DEF PurgeEntity, Visited, At, Actor
  <2>8. CASE StartPurge(a) \/ PurgeRelationships(a)
    BY <1>1, <2>3, <2>8 DEF StartPurge, PurgeRelationships, At, Actor
  <2>9. CASE EndPurge(a)
    <3>1. CASE a \in Builds
      BY <1>1, <2>3, <2>9, <3>1 DEF EndPurge, Actor
    <3>2. CASE a \notin Builds
      BY <1>1, <2>9, <3>2 DEF EndPurge, Active, Idle
    <3> QED
      BY <3>1, <3>2
  <2>10. CASE FindKnown(a)
    <3>1. PICK todo, known, pairs :
            actors' = [actors EXCEPT ![a].pc = "upsert", ![a].todo = todo,
                                     ![a].known = known,
                                     ![a].lookup = [k \in Keys |-> 0],
                                     ![a].pairs = pairs]
      BY <2>10 DEF FindKnown
    <3>2. /\ actors'[a].pc = "upsert"
          /\ actors'[a].lookup = [k \in Keys |-> 0]
      BY <1>1, <3>1 DEF Actor
    <3> QED
      BY <3>2 DEF KnowsOK
  <2>11. ASSUME NEW n \in Names, UpsertEntity(a, n)
         PROVE  KnowsOK(entities', relationships', actors'[a])
    <3>1. ~Pulled(actors[a].doc)
      BY <2>2, <2>11 DEF UpsertEntity, At
    <3> QED
      BY <1>1, <2>2, <2>11, <3>1, UpsertKnows
  <2>12. CASE FindId(a)
    BY <1>1, <2>2, <2>12, FindKnows
  <2>13. CASE \/ StartRelating(a)
              \/ \E pair \in Keys \X Keys : UpsertRelationship(a, pair)
    <3>1. /\ actors'[a].pc = "relate" /\ actors[a].pc \in {"upsert", "relate"}
          /\ actors'[a].lookup = actors[a].lookup /\ entities' = entities
      <4>1. CASE StartRelating(a)
        BY <1>1, <4>1 DEF StartRelating, At, Actor
      <4>2. ASSUME NEW pair \in Keys \X Keys, UpsertRelationship(a, pair)
            PROVE  /\ actors'[a].pc = "relate" /\ actors[a].pc = "relate"
                   /\ actors'[a].lookup = actors[a].lookup
                   /\ entities' = entities
        BY <1>1, <4>2 DEF UpsertRelationship, At, Actor
      <4> QED
        BY <2>13, <4>1, <4>2
    <3> QED
      BY <2>1, <2>2, <3>1 DEF KnowsOK
  <2>14. CASE EndBuild(a) \/ Cut(a)
    BY <1>1, <2>14 DEF EndBuild, Cut, Active, Idle
  <2> QED
    BY <1>3, <2>3, <2>4, <2>5, <2>6, <2>7, <2>8, <2>9, <2>10, <2>11, <2>12,
       <2>13, <2>14 DEF Remove, Build
<1> QED
  BY <1>2, <1>3

(* What the others know stays true. *)
LEMMA OthersKnow ==
  ASSUME ConnectInv, Next, NEW a \in Actors,
         Starting(a) \/ Remove(a) \/ Build(a) \/ Cut(a),
         NEW b \in Actors, b # a, Active(b), actors[b].doc \notin troubled'
  PROVE  KnowsOK(entities', relationships', actors[b])
<1> DEFINE d == actors[b].doc
<1>1. Inv /\ d \notin troubled /\ actors[b] \in Actor
  BY ActorsMoveOn DEF ConnectInv, Inv, ActorsOK
<1>2. /\ KnowsOK(entities, relationships, actors[b])
      /\ ~At(b, "pull") => ~Pulled(d)
      /\ \A c \in Actors : c # b /\ Active(c) => actors[c].doc # d
  BY <1>1, OnlyActor
<1>3. ASSUME actors[b].pc = "pull", ~actors[b].rels,
             NEW r \in relationships', d \in r.docs
      PROVE  FALSE
  <2>1. \/ \E old \in relationships : d \in old.docs
        \/ d = actors[a].doc /\ At(a, "relate")
    BY <1>1, <1>3, RelationshipsCome DEF Starting, Upserted
  <2>2. ~(d = actors[a].doc /\ At(a, "relate"))
    BY <1>2 DEF At, Active
  <2> QED
    BY <1>2, <1>3, <2>1, <2>2 DEF KnowsOK
<1>4. ASSUME actors[b].pc = "id" PROVE d \in entities'[actors[b].match].docs
  <2>1. actors[b].match \in Names /\ d \in entities[actors[b].match].docs
    BY <1>1, <1>2, <1>4 DEF KnowsOK, Inv, ActorsOK, ActorOK
  <2>2. ~Pulled(d)
    BY <1>2, <1>4 DEF At
  <2> QED
    BY <1>1, <2>1, <2>2, EntitiesLast
<1>5. ASSUME actors[b].pc \in {"upsert", "id", "relate"}, NEW k \in Keys,
             actors[b].lookup[k] # 0
      PROVE  Linked(entities', actors[b].lookup[k], d)
  <2>1. Linked(entities, actors[b].lookup[k], d)
    BY <1>2, <1>5 DEF KnowsOK
  <2>2. ~Pulled(d)
    BY <1>2, <1>5 DEF At
  <2> QED
    BY <1>1, <2>1, <2>2, LinksLast
<1>6. actors[b].pc = "mark" => actors[b].rels
  BY <1>2 DEF KnowsOK
<1> QED
  BY <1>3, <1>4, <1>5, <1>6 DEF KnowsOK

(* As long as a document is pulled, its relationships may lead nowhere;    *)
(* the pull ends when none is left.                                        *)
LEMMA PulledLasts ==
  ASSUME ConnectInv, Next, NEW a \in Actors,
         Starting(a) \/ Remove(a) \/ Build(a) \/ Cut(a),
         NEW r \in relationships, NEW d \in r.docs, d \notin troubled', Pulled(d)
  PROVE  Pulled(d)'
<1>1. PICK c \in Actors : At(c, "pull") /\ actors[c].doc = d
  BY DEF Pulled
<1>2. /\ Inv /\ actors \in [Actors -> Actor] /\ d \notin troubled
      /\ \A b \in Actors : b # a => actors'[b] = actors[b]
  BY ActorsMoveOn DEF ConnectInv, Inv, ActorsOK
<1>3. KnowsOK(entities, relationships, actors[c])
  BY <1>1, <1>2, OnlyActor DEF At, Active
<1>4. CASE c # a
  BY <1>1, <1>2, <1>4 DEF Pulled, At
<1>5. CASE c = a
  <2>1. ~StartPurge(a)
    BY <1>1, <1>3, <1>5 DEF StartPurge, KnowsOK, At
  <2>2. ~Cut(a)
    BY <1>1, <1>5 DEF Cut
  <2>3. actors'[a].pc = "pull" /\ actors'[a].doc = d
    BY <1>1, <1>2, <1>5, <2>1, <2>2
       DEF At, Starting, StartRemoval, StartBuild, RestartBuild, Remove, Build,
           PullEntity, PullRelationships, PurgeEntity, PurgeRelationships,
           EndPurge, MarkBuilding, FindKnown, UpsertEntity, FindId,
           StartRelating, UpsertRelationship, EndBuild, Visited, Actor
  <2> QED
    BY <2>3 DEF Pulled, At
<1> QED
  BY <1>4, <1>5

LEMMA NextConnectInv ==
  ASSUME ConnectInv, Next
  PROVE  ConnectInv'
<1>1. PICK a \in Actors : Starting(a) \/ Remove(a) \/ Build(a) \/ Cut(a)
  BY StepOf DEF Starting
<1>2. /\ Inv /\ troubled \subseteq troubled'
      /\ \A b \in Actors : b # a => actors'[b] = actors[b]
  BY <1>1, ActorsMoveOn DEF ConnectInv
<1>3. Inv'
  BY <1>2, NextInv
<1>4. ASSUME NEW b \in Actors, b # a, Active(a)', Active(b),
             actors'[a].doc = actors[b].doc
      PROVE  actors[b].doc \in troubled'
  <2>1. CASE Starting(a)
    BY <1>1, <1>2, <1>4, <2>1, ActorsMoveOn
  <2>2. CASE ~Starting(a)
    <3>1. Active(a) /\ actors'[a].doc = actors[a].doc
      BY <1>1, <1>2, <1>4, <2>2, ActorsMoveOn
    <3> QED
      BY <1>2, <1>4, <3>1 DEF ConnectInv
  <2> QED
    BY <2>1, <2>2
<1>5. \A b \in Actors : b # a => (Active(b)' <=> Active(b))
  BY <1>2 DEF Active
<1>6. ASSUME NEW b \in Actors, NEW c \in Actors, b # c, Active(b)', Active(c)',
             actors'[b].doc = actors'[c].doc
      PROVE  actors'[b].doc \in troubled'
  <2>1. CASE b # a /\ c # a
    BY <1>2, <1>5, <1>6, <2>1 DEF ConnectInv
  <2>2. CASE b = a \/ c = a
    BY <1>2, <1>4, <1>5, <1>6, <2>2
  <2> QED
    BY <2>1, <2>2
<1>7. ASSUME NEW b \in Actors, Active(b)', actors'[b].doc \notin troubled'
      PROVE  KnowsOK(entities', relationships', actors'[b])
  BY <1>1, <1>2, <1>5, <1>7, OwnKnowledge, OthersKnow
<1>8. ASSUME NEW r \in relationships', NEW d \in r.docs, d \notin troubled'
      PROVE  Pulled(d)' \/ Connects(r, d)'
  <2>1. CASE \E old \in relationships :
               /\ old.source = r.source /\ old.target = r.target
               /\ d \in old.docs
    <3>1. PICK old \in relationships :
            /\ old.source = r.source /\ old.target = r.target
            /\ d \in old.docs
      BY <2>1
    <3>2. CASE Pulled(d)
      BY <1>1, <1>8, <3>1, <3>2, PulledLasts
    <3>3. CASE ~Pulled(d)
      <4>1. Linked(entities, r.source, d) /\ Linked(entities, r.target, d)
        BY <1>2, <1>8, <3>1, <3>3 DEF ConnectInv, Connects
      <4>2. Linked(entities', r.source, d) /\ Linked(entities', r.target, d)
        BY <1>2, <3>3, <4>1, LinksLast
      <4> QED
        BY <4>2 DEF Connects, Linked
    <3> QED
      BY <3>2, <3>3
  <2>2. CASE d = actors[a].doc /\ Upserted(a, r) /\ entities' = entities
    <3>1. /\ Active(a) /\ actors[a].doc \notin troubled
          /\ actors[a].pc = "relate"
      BY <1>2, <1>8, <2>2 DEF Upserted, At, Active
    <3>2. Linked(entities, r.source, d) /\ Linked(entities, r.target, d)
      BY <2>2, <3>1, OnlyActor DEF Upserted, KnowsOK
    <3> QED
      BY <2>2, <3>2 DEF Connects, Linked
  <2> QED
    BY <1>1, <1>2, <2>1, <2>2, RelationshipsCome DEF Starting
<1> QED
  BY <1>3, <1>6, <1>7, <1>8 DEF ConnectInv

(* A relationship leads from and to entities that exist and are of the     *)
(* same document, whatever builds and removals of other documents do       *)
(* meanwhile, as long as no two worked on that document at one time and no *)
(* removal of it was cut short.                                            *)
THEOREM RelationshipsLeadToEntities == Spec => []RelationshipsConnect
<1>1. Init => ConnectInv
  BY InitInv DEF Init, ConnectInv, Active, Idle
<1>2. ConnectInv /\ [Next]_vars => ConnectInv'
  <2>1. ASSUME ConnectInv, UNCHANGED vars PROVE ConnectInv'
    BY <2>1, NextInv
       DEF vars, ConnectInv, Active, Pulled, At, Connects, Linked
  <2> QED
    BY <2>1, NextConnectInv
<1>3. ConnectInv => RelationshipsConnect
  BY DEF ConnectInv, RelationshipsConnect, Pulled, Connects, Linked
<1> QED
  BY <1>1, <1>2, <1>3, PTL DEF Spec

=============================================================================
