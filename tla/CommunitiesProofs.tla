------------------------- MODULE CommunitiesProofs -------------------------
(***************************************************************************)
(* What Communities keeps to, for all graphs, names and rebuilds.          *)
(***************************************************************************)
EXTENDS Communities, FiniteSetTheorems, WellFoundedInduction, TLAPS

Linkable(C) ==
  /\ DOMAIN C \subseteq Keys
  /\ C \in [DOMAIN C -> [members : SUBSET Entities, parent : DOMAIN C \cup {None},
                         children : SUBSET DOMAIN C]]

Shape ==
  /\ graph \in Graphs
  /\ runs \in 0..MaxRuns
  /\ Linkable(communities)
  /\ rebuild \in [Rebuilds -> Progress \cup {None}]
  /\ cut \subseteq DOMAIN communities
  /\ last \subseteq Groups

(* What a rebuild has still to do is in keeping with where it is.          *)
InOrder(C, b) ==
  /\ b.at = "relationships" => b.done = {}
  /\ \A g \in b.done : Key(g) \in DOMAIN C
  /\ b.at \in {"link", "child"} => b.todo \subseteq b.done
  /\ b.at = "child" => /\ b.todo # {} /\ b.parent \in DOMAIN C
                       /\ b.parent.level < First(b.todo).level

Told(C, R, k) ==
  \E r \in Rebuilds : /\ R[r] # None /\ R[r].at = "child"
                      /\ Key(First(R[r].todo)) = k /\ R[r].parent = C[k].parent

LinksMeet(C, R, X) ==
  \A k \in DOMAIN C : C[k].parent # None =>
    k \in C[C[k].parent].children \/ Told(C, R, k) \/ k \in X

Coarser(C) ==
  \A k \in DOMAIN C :
    /\ C[k].parent # None => C[k].parent.level < k.level
    /\ \A c \in C[k].children : k.level < c.level

Stored(C, groups, g) ==
  /\ Key(g) \in DOMAIN C
  /\ \E h \in groups : Key(h) = Key(g) /\ C[Key(g)].members = h.members

Linked(C, groups, g) ==
  BestParents(groups, g) # {} =>
    \E h \in groups : /\ Key(h) = Key(g)
                      /\ C[Key(g)].parent \in {Key(p) : p \in BestParents(groups, h)}

(* What a rebuild that wrote alone has achieved so far.                    *)
Achieved(C, b) ==
  b.alone =>
    /\ \A g \in b.done : Stored(C, b.done, g)
    /\ b.at \in {"link", "child"} => \A g \in b.done \ b.todo : Linked(C, b.done, g)
    /\ b.at = "child" => Linked(C, b.done, First(b.todo))

LinksInv == LinksMeet(communities, rebuild, cut) /\ Coarser(communities)

RebuildsInv ==
  \A r \in Rebuilds : rebuild[r] # None => InOrder(communities, rebuild[r])

AchievedInv ==
  /\ \A r \in Rebuilds : rebuild[r] # None => Achieved(communities, rebuild[r])
  /\ \A g \in last : Stored(communities, last, g) /\ Linked(communities, last, g)

CommunitiesInv == Shape /\ RebuildsInv /\ LinksInv

-----------------------------------------------------------------------------
(* Data: least elements, the order of groups, titles.                      *)

(* A set of numbers has a least one.                                       *)
LEMMA LeastNumber ==
  ASSUME NEW N \in SUBSET Nat, N # {}
  PROVE  \E n \in N : \A m \in N : n <= m
<1> DEFINE below == {0..n : n \in N}
<1>1. below \subseteq FiniteSubsetsOf(Nat)
  <2> SUFFICES ASSUME NEW n \in N PROVE 0..n \in SUBSET Nat /\ IsFiniteSet(0..n)
    BY DEF FiniteSubsetsOf
  <2> QED BY FS_Interval
<1>2. IsWellFoundedOn(StrictSubsetOrdering(Nat), FiniteSubsetsOf(Nat))
  BY FS_StrictSubsetOrderingWellFounded
<1>3. PICK least \in below : \A s \in below : <<s, least>> \notin StrictSubsetOrdering(Nat)
  <2>1. below # {}
    OBVIOUS
  <2> HIDE DEF below
  <2> QED BY <1>1, <1>2, <2>1, WFMin
<1>4. PICK n \in N : least = 0..n
  OBVIOUS
<1>5. ASSUME NEW m \in N, m < n
      PROVE  FALSE
  <2>1. 0..m \in below /\ 0..m \subseteq 0..n /\ n \in 0..n /\ n \notin 0..m
    BY <1>5
  <2>2. <<0..m, 0..n>> \in StrictSubsetOrdering(Nat)
    BY <2>1 DEF StrictSubsetOrdering
  <2> QED BY <1>3, <1>4, <2>1, <2>2
<1> QED BY <1>5

(* A group has a first vertex.                                             *)
LEMMA FirstVertexIn ==
  ASSUME NEW members \in (SUBSET Entities) \ {{}}
  PROVE  FirstVertex(members) \in members /\ FirstVertex(members) \in Nat
<1>1. members \in SUBSET Nat /\ members # {}
  BY CommunitiesAssumption
<1>2. \E e \in members : \A x \in members : e <= x
  BY <1>1, LeastNumber
<1> QED BY <1>1, <1>2 DEF FirstVertex

(* Of groups that are there, one comes first.                              *)
LEMMA FirstIn ==
  ASSUME NEW groups \in SUBSET Groups, groups # {}
  PROVE  First(groups) \in groups
<1>0. \A g \in groups : g.level \in Nat /\ FirstVertex(g.members) \in Nat
  <2> TAKE g \in groups
  <2>1. g.level \in Nat /\ g.members \in (SUBSET Entities) \ {{}}
    BY CommunitiesAssumption DEF Groups, Levels
  <2> QED BY <2>1, FirstVertexIn
<1> DEFINE levels == {g.level : g \in groups}
<1>1. PICK level \in levels : \A other \in levels : level <= other
  <2>1. levels \in SUBSET Nat /\ levels # {}
    BY <1>0
  <2> HIDE DEF levels
  <2> QED BY <2>1, LeastNumber
<1> DEFINE coarse == {g \in groups : g.level = level}
           vertices == {FirstVertex(g.members) : g \in coarse}
<1>2. PICK vertex \in vertices : \A other \in vertices : vertex <= other
  <2>1. vertices \in SUBSET Nat /\ vertices # {}
    BY <1>0, <1>1
  <2> HIDE DEF vertices
  <2> QED BY <2>1, LeastNumber
<1>3. PICK g \in coarse : vertex = FirstVertex(g.members)
  BY <1>2
<1>4. \A h \in groups : \/ g.level < h.level
                        \/ /\ g.level = h.level
                           /\ FirstVertex(g.members) <= FirstVertex(h.members)
  BY <1>0, <1>1, <1>2, <1>3
<1> QED BY <1>3, <1>4 DEF First

(* sorted() by mentions, then by index, gives every place to one entity.   *)
LEMMA EveryPlaceIsTaken ==
  ASSUME NEW mentions \in [Entities -> Nat], NEW members \in SUBSET Entities,
         NEW n \in 1..Cardinality(members)
  PROVE  \E e \in members : Rank(mentions, members, e) = n - 1
<1> DEFINE above(e) == {x \in members : MoreMentioned(mentions, x, e)}
           size == Cardinality(members)
           rank == [e \in members |-> Cardinality(above(e))]
<1>0. members \subseteq Nat /\ IsFiniteSet(members) /\ size \in Nat
  BY CommunitiesAssumption, FS_Subset, FS_CardinalityType
<1>1. ASSUME NEW e \in members
      PROVE  rank[e] \in 0..(size - 1)
  <2>1. e \notin above(e) /\ above(e) \in SUBSET (members \ {e})
    BY <1>0 DEF MoreMentioned
  <2>2. IsFiniteSet(members \ {e}) /\ Cardinality(members \ {e}) = size - 1
    BY <1>0, FS_RemoveElement
  <2>3. IsFiniteSet(above(e)) /\ Cardinality(above(e)) <= size - 1
    BY <2>1, <2>2, FS_Subset
  <2>4. Cardinality(above(e)) \in Nat
    BY <2>3, FS_CardinalityType
  <2> QED BY <1>0, <2>3, <2>4
<1>2. ASSUME NEW a \in members, NEW b \in members, MoreMentioned(mentions, a, b)
      PROVE  rank[a] # rank[b]
  <2>0. \A x \in members : x \in Nat /\ mentions[x] \in Nat
    BY <1>0
  <2>1. a \in above(b) /\ a \notin above(a)
    BY <2>0, <1>2 DEF MoreMentioned
  <2>2. ASSUME NEW x \in above(a)
        PROVE  x \in above(b)
    BY <2>0, <1>2 DEF MoreMentioned
  <2>3. IsFiniteSet(above(b))
    BY <1>0, FS_Subset
  <2>4. Cardinality(above(a)) = Cardinality(above(b)) => above(a) = above(b)
    BY <2>2, <2>3, FS_Subset
  <2> QED BY <2>1, <2>4
<1>3. ASSUME NEW a \in members, NEW b \in members, a # b
      PROVE  rank[a] # rank[b]
  <2>1. MoreMentioned(mentions, a, b) \/ MoreMentioned(mentions, b, a)
    BY <1>0, <1>3 DEF MoreMentioned
  <2> QED BY <1>2, <2>1
<1>4. rank \in Injection(members, 0..(size - 1))
  BY <1>1, <1>3 DEF Injection, IsInjective
<1>5. IsFiniteSet(0..(size - 1)) /\ Cardinality(0..(size - 1)) = size
  <2>1. 0 \in Int /\ size - 1 \in Int
    BY <1>0
  <2>2. IsFiniteSet(0..(size - 1))
        /\ Cardinality(0..(size - 1)) = IF 0 > size - 1 THEN 0 ELSE size - 1 - 0 + 1
    BY <2>1, FS_Interval
  <2> QED BY <1>0, <2>2
<1>6. rank \in Surjection(members, 0..(size - 1))
  BY <1>4, <1>5, FS_Injection
<1>7. PICK e \in members : rank[e] = n - 1
  <2>1. n - 1 \in 0..(size - 1)
    BY <1>0
  <2> QED BY <1>6, <2>1 DEF Surjection
<1> QED BY <1>7 DEF Rank

(* _generate_community_title gives a title of at most TitleSize names.     *)
LEMMA TitleIn ==
  ASSUME NEW mentions \in [Entities -> Nat], NEW members \in SUBSET Entities,
         Cardinality(members) >= 2
  PROVE  Title(mentions, members) \in Titles
<1> DEFINE size == Cardinality(members)
           names == IF size < TitleSize THEN size ELSE TitleSize
           at(n) == CHOOSE e \in members : Rank(mentions, members, e) = n - 1
<1>1. size \in Nat /\ TitleSize \in Nat \ {0} /\ size >= 2
  BY CommunitiesAssumption, FS_Subset, FS_CardinalityType
<1>2. names \in 1..TitleSize /\ 1..names \subseteq 1..size
  BY <1>1
<1>3. \A n \in 1..names : at(n) \in members
  BY <1>2, EveryPlaceIsTaken
<1>4. [n \in 1..names |-> NameOf[at(n)]] \in [1..names -> {NameOf[e] : e \in Entities}]
  BY <1>3
<1>5. Title(mentions, members) = [n \in 1..names |-> NameOf[at(n)]]
  BY DEF Title
<1> QED BY <1>2, <1>4, <1>5 DEF Titles

LEMMA KeyIn ==
  ASSUME NEW g \in Groups
  PROVE  Key(g) \in Keys /\ Key(g).level = g.level
BY DEF Groups, Keys, Key

(* Every group is of two entities or more, of one level, and titled.       *)
LEMMA GroupsOfIn ==
  ASSUME NEW mentions \in [Entities -> Nat], NEW entities \in SUBSET Entities,
         NEW edges, NEW partition \in [Levels -> Partitions(entities, edges)]
  PROVE  GroupsOf(mentions, partition) \in SUBSET Groups
<1> SUFFICES ASSUME NEW g \in GroupsOf(mentions, partition)
             PROVE  g \in Groups
  OBVIOUS
<1> DEFINE labelled(level) == {{w \in DOMAIN partition[level] : partition[level][w] = v}
                                 : v \in DOMAIN partition[level]}
<1>1. PICK level \in Levels : \E members \in labelled(level) :
        /\ Cardinality(members) >= 2
        /\ g = [level |-> level, members |-> members, title |-> Title(mentions, members)]
  BY DEF GroupsOf
<1>2. PICK members \in labelled(level) :
        /\ Cardinality(members) >= 2
        /\ g = [level |-> level, members |-> members, title |-> Title(mentions, members)]
  BY <1>1
<1>3. DOMAIN partition[level] = entities
  BY DEF Partitions
<1>4. members \in SUBSET Entities
  BY <1>3
<1>5. members # {}
  <2>1. Cardinality({}) = 0
    BY FS_EmptySet
  <2>2. ~ (0 >= 2)
    OBVIOUS
  <2> HIDE DEF labelled
  <2> QED BY <1>2, <2>1, <2>2
<1>6. Title(mentions, members) \in Titles
  BY <1>2, <1>4, TitleIn
<1> QED BY <1>2, <1>4, <1>5, <1>6 DEF Groups

LEMMA BestParentsIn ==
  ASSUME NEW groups \in SUBSET Groups, NEW child
  PROVE  /\ BestParents(groups, child) \in SUBSET groups
         /\ \A p \in BestParents(groups, child) : p.level < child.level
BY DEF BestParents, NextCoarser

-----------------------------------------------------------------------------
(* Steps that write no community: a rebuild moves on, begins or ends.      *)

LEMMA MovesOn ==
  ASSUME Shape, RebuildsInv, LinksInv,
         NEW r \in Rebuilds, NEW b \in Progress \cup {None},
         rebuild' = [rebuild EXCEPT ![r] = b],
         communities' = communities, graph' = graph, runs' \in 0..MaxRuns,
         cut' \in SUBSET DOMAIN communities, cut \subseteq cut',
         last' \in SUBSET Groups,
         b # None => InOrder(communities, b),
         rebuild[r] # None /\ rebuild[r].at = "child" => Key(First(rebuild[r].todo)) \in cut'
  PROVE  Shape' /\ RebuildsInv' /\ LinksInv'
<1>1. \A q \in Rebuilds : rebuild'[q] = IF q = r THEN b ELSE rebuild[q]
  BY DEF Shape
<1>2. Shape'
  <2>1. rebuild' \in [Rebuilds -> Progress \cup {None}]
    BY DEF Shape
  <2> QED BY <2>1 DEF Shape, Linkable
<1>3. RebuildsInv'
  BY <1>1 DEF RebuildsInv, InOrder
<1>4. LinksMeet(communities, rebuild', cut')
  <2> SUFFICES ASSUME NEW k \in DOMAIN communities, communities[k].parent # None,
                      k \notin communities[communities[k].parent].children, k \notin cut'
               PROVE  Told(communities, rebuild', k)
    BY DEF LinksMeet
  <2>1. Told(communities, rebuild, k)
    BY DEF LinksInv, LinksMeet
  <2> QED BY <1>1, <2>1 DEF Told
<1> QED BY <1>2, <1>3, <1>4 DEF LinksInv

LEMMA LoadEntitiesKeeps ==
  ASSUME Shape, RebuildsInv, LinksInv, NEW r \in Rebuilds, LoadEntities(r)
  PROVE  Shape' /\ RebuildsInv' /\ LinksInv'
<1> DEFINE b == [at |-> "relationships", mentions |-> graph.mentions, todo |-> {}, done |-> {},
                 parent |-> None, alone |-> TRUE]
<1>1. b \in Progress
  <2>1. graph.mentions \in [Entities -> Nat]
    BY CommunitiesAssumption DEF Shape
  <2> QED BY <2>1 DEF Progress
<1>2. InOrder(communities, b)
  BY DEF InOrder
<1>3. runs' \in 0..MaxRuns
  BY CommunitiesAssumption DEF LoadEntities, Shape
<1>4. rebuild' = [rebuild EXCEPT ![r] = b] /\ rebuild[r] = None
  BY DEF LoadEntities
<1> HIDE DEF b
<1> QED BY <1>1, <1>2, <1>3, <1>4, MovesOn DEF LoadEntities, Shape

LEMMA LoadRelationshipsKeeps ==
  ASSUME Shape, RebuildsInv, LinksInv, NEW r \in Rebuilds, LoadRelationships(r)
  PROVE  Shape' /\ RebuildsInv' /\ LinksInv'
<1> DEFINE b == rebuild[r]
           entities == {e \in Entities : b.mentions[e] > 0}
<1>1. b \in Progress /\ b # None /\ b.at = "relationships"
  BY DEF LoadRelationships, Shape
<1>2. CASE Stop(r)
  BY <1>1, <1>2, MovesOn DEF LoadRelationships, Stop, Shape
<1>3. ASSUME NEW partition \in [Levels -> Partitions(entities, Edges(entities, graph.rels))],
             rebuild' = [rebuild EXCEPT ![r].at = "upsert",
                           ![r].todo = GroupsOf(b.mentions, partition)]
      PROVE  Shape' /\ RebuildsInv' /\ LinksInv'
  <2> DEFINE new == [b EXCEPT !.at = "upsert", !.todo = GroupsOf(b.mentions, partition)]
  <2>1. rebuild' = [rebuild EXCEPT ![r] = new]
    BY <1>3 DEF Shape
  <2>2. GroupsOf(b.mentions, partition) \in SUBSET Groups
    <3>1. b.mentions \in [Entities -> Nat]
      BY <1>1 DEF Progress
    <3> QED BY <3>1, GroupsOfIn
  <2>3. new \in Progress /\ new.at = "upsert" /\ new.done = b.done
    BY <1>1, <2>2 DEF Progress
  <2>4. InOrder(communities, new)
    BY <1>1, <2>3 DEF InOrder, RebuildsInv
  <2> HIDE DEF new
  <2> QED BY <1>1, <2>1, <2>3, <2>4, MovesOn DEF LoadRelationships, Shape
<1> QED BY <1>2, <1>3 DEF LoadRelationships

LEMMA StartLinkingKeeps ==
  ASSUME Shape, RebuildsInv, LinksInv, NEW r \in Rebuilds, StartLinking(r)
  PROVE  Shape' /\ RebuildsInv' /\ LinksInv'
<1> DEFINE b == rebuild[r]
           new == [b EXCEPT !.at = "link", !.todo = b.done]
<1>1. b \in Progress /\ b # None /\ b.at = "upsert"
  BY DEF StartLinking, Shape
<1>2. rebuild' = [rebuild EXCEPT ![r] = new]
  BY DEF StartLinking, Shape
<1>3. new \in Progress /\ new.at = "link" /\ new.done = b.done /\ new.todo = b.done
  BY <1>1 DEF Progress
<1>4. InOrder(communities, new)
  BY <1>1, <1>3 DEF InOrder, RebuildsInv
<1> HIDE DEF new
<1> QED BY <1>1, <1>2, <1>3, <1>4, MovesOn DEF StartLinking, Shape

LEMMA SkipOrphanKeeps ==
  ASSUME Shape, RebuildsInv, LinksInv, NEW r \in Rebuilds, SkipOrphan(r)
  PROVE  Shape' /\ RebuildsInv' /\ LinksInv'
<1> DEFINE b == rebuild[r]
           new == [b EXCEPT !.todo = b.todo \ {First(b.todo)}]
<1>1. b \in Progress /\ b # None /\ b.at = "link"
  BY DEF SkipOrphan, Shape
<1>2. rebuild' = [rebuild EXCEPT ![r] = new]
  BY DEF SkipOrphan, Shape
<1>3. /\ new \in Progress /\ new.at = "link" /\ new.done = b.done
      /\ new.todo \subseteq b.todo
  BY <1>1 DEF Progress
<1>4. InOrder(communities, new)
  BY <1>1, <1>3 DEF InOrder, RebuildsInv
<1> HIDE DEF new
<1> QED BY <1>1, <1>2, <1>3, <1>4, MovesOn DEF SkipOrphan, Shape

LEMMA FinishKeeps ==
  ASSUME Shape, RebuildsInv, LinksInv, NEW r \in Rebuilds, Finish(r)
  PROVE  Shape' /\ RebuildsInv' /\ LinksInv'
<1>1. rebuild[r] \in Progress /\ rebuild[r].at = "link"
  BY DEF Finish, Shape
<1>2. last' \in SUBSET Groups
  BY <1>1 DEF Finish, Shape, Progress
<1> QED BY <1>1, <1>2, MovesOn DEF Finish, Stop, Shape

LEMMA CutKeeps ==
  ASSUME Shape, RebuildsInv, LinksInv, NEW r \in Rebuilds, Cut(r)
  PROVE  Shape' /\ RebuildsInv' /\ LinksInv'
<1> DEFINE b == rebuild[r]
<1>1. b \in Progress /\ b # None /\ InOrder(communities, b)
  BY DEF Cut, Shape, RebuildsInv
<1>2. ASSUME b.at = "child"
      PROVE  Key(First(b.todo)) \in DOMAIN communities
  <2>1. First(b.todo) \in b.todo
    BY <1>1, <1>2, FirstIn DEF InOrder, Progress
  <2>2. First(b.todo) \in b.done
    <3>1. b.todo # {} /\ b.todo \in SUBSET Groups
      BY <1>1, <1>2 DEF InOrder, Progress
    <3> QED BY <1>1, <1>2, <2>1 DEF InOrder
  <2> QED BY <1>1, <2>2 DEF InOrder
<1>3. /\ cut' \in SUBSET DOMAIN communities /\ cut \subseteq cut'
      /\ b.at = "child" => Key(First(b.todo)) \in cut'
  BY <1>2 DEF Cut, Shape
<1> QED BY <1>1, <1>3, MovesOn DEF Cut, Stop, Shape

-----------------------------------------------------------------------------
(* Steps that write a community.                                           *)

(* The rebuild that writes goes on as b; the others stay where they are.   *)
LEMMA OthersStay ==
  ASSUME Shape, NEW r \in Rebuilds, NEW b \in Progress, Go(r, b)
  PROVE  /\ rebuild' \in [Rebuilds -> Progress \cup {None}]
         /\ rebuild'[r] = b /\ b # None
         /\ \A q \in Rebuilds \ {r} :
              /\ rebuild'[q] = None <=> rebuild[q] = None
              /\ rebuild[q] # None =>
                   /\ rebuild'[q].at = rebuild[q].at
                   /\ rebuild'[q].todo = rebuild[q].todo
                   /\ rebuild'[q].done = rebuild[q].done
                   /\ rebuild'[q].parent = rebuild[q].parent
                   /\ rebuild'[q].alone = FALSE
<1>1. ASSUME NEW q \in Rebuilds \ {r}, rebuild[q] # None
      PROVE  /\ rebuild'[q] \in Progress
             /\ rebuild'[q].at = rebuild[q].at
             /\ rebuild'[q].todo = rebuild[q].todo
             /\ rebuild'[q].done = rebuild[q].done
             /\ rebuild'[q].parent = rebuild[q].parent
             /\ rebuild'[q].alone = FALSE
  <2>1. rebuild[q] \in Progress
    BY <1>1 DEF Shape
  <2>2. rebuild'[q] = [rebuild[q] EXCEPT !.alone = FALSE]
    BY <1>1 DEF Go
  <2> QED BY <2>1, <2>2 DEF Progress
<1>2. ASSUME NEW q \in Rebuilds \ {r}, rebuild[q] = None
      PROVE  rebuild'[q] = None
  BY <1>2 DEF Go
<1>3. None \notin Progress
  BY CommunitiesAssumption
<1>4. rebuild'[r] = b /\ rebuild' = [q \in Rebuilds |-> rebuild'[q]]
  BY DEF Go
<1>5. \A q \in Rebuilds : rebuild'[q] \in Progress \cup {None}
  BY <1>1, <1>2, <1>4
<1> QED BY <1>1, <1>2, <1>3, <1>4, <1>5

LEMMA WriteKeepsOrder ==
  ASSUME Shape, RebuildsInv, NEW r \in Rebuilds, NEW b \in Progress, Go(r, b),
         Linkable(communities'), DOMAIN communities \subseteq DOMAIN communities',
         InOrder(communities', b), cut' \subseteq DOMAIN communities'
  PROVE  Shape' /\ RebuildsInv'
<1>1. Shape'
  BY OthersStay DEF Shape, Go
<1>2. ASSUME NEW q \in Rebuilds, rebuild'[q] # None
      PROVE  InOrder(communities', rebuild'[q])
  <2>1. CASE q = r
    BY <2>1, OthersStay
  <2>2. CASE q # r
    <3>1. InOrder(communities, rebuild[q])
      BY <1>2, <2>2, OthersStay DEF RebuildsInv
    <3>2. /\ rebuild'[q].at = rebuild[q].at /\ rebuild'[q].todo = rebuild[q].todo
          /\ rebuild'[q].done = rebuild[q].done /\ rebuild'[q].parent = rebuild[q].parent
      BY <1>2, <2>2, OthersStay
    <3> QED BY <3>1, <3>2 DEF InOrder
  <2> QED BY <2>1, <2>2
<1> QED BY <1>1, <1>2 DEF RebuildsInv

(* What a rebuild that does not write is about to tell stays to be told.   *)
LEMMA StaysTold ==
  ASSUME Shape, NEW r \in Rebuilds, NEW b \in Progress, Go(r, b),
         NEW k, Told(communities, rebuild, k),
         communities'[k].parent = communities[k].parent,
         rebuild[r].at # "child" \/ Key(First(rebuild[r].todo)) # k
           \/ rebuild[r].parent # communities[k].parent
  PROVE  Told(communities', rebuild', k)
<1>1. PICK q \in Rebuilds : /\ rebuild[q] # None /\ rebuild[q].at = "child"
                            /\ Key(First(rebuild[q].todo)) = k
                            /\ rebuild[q].parent = communities[k].parent
  BY DEF Told
<1>2. q \in Rebuilds \ {r}
  BY <1>1
<1> QED BY <1>1, <1>2, OthersStay DEF Told

(* The community that an upsert writes, and where the rebuild then is.     *)
LEMMA Upserts ==
  ASSUME Shape, RebuildsInv, NEW r \in Rebuilds, UpsertCommunity(r)
  PROVE  LET b == rebuild[r]
             g == First(b.todo)
             new == [b EXCEPT !.todo = @ \ {g}, !.done = @ \cup {g}]
         IN  /\ b \in Progress /\ b # None /\ b.at = "upsert" /\ g \in Groups
             /\ g \in b.todo /\ new \in Progress /\ Go(r, new)
             /\ new.at = b.at /\ new.alone = b.alone
             /\ new.todo = b.todo \ {g} /\ new.done = b.done \cup {g}
             /\ DOMAIN communities' = DOMAIN communities \cup {Key(g)}
             /\ communities'[Key(g)].members = g.members
             /\ \A k \in DOMAIN communities :
                  /\ communities'[k].parent = communities[k].parent
                  /\ communities'[k].children = communities[k].children
                  /\ k # Key(g) => communities'[k] = communities[k]
             /\ Key(g) \notin DOMAIN communities =>
                  communities'[Key(g)] = [members |-> g.members, parent |-> None, children |-> {}]
             /\ Linkable(communities')
<1> DEFINE b == rebuild[r]
           g == First(b.todo)
           new == [b EXCEPT !.todo = @ \ {g}, !.done = @ \cup {g}]
           old == IF Known(Key(g)) THEN communities[Key(g)]
                  ELSE [members |-> {}, parent |-> None, children |-> {}]
           written == [old EXCEPT !.members = g.members]
           Links == [members : SUBSET Entities, parent : DOMAIN communities \cup {None},
                     children : SUBSET DOMAIN communities]
<1>1. b \in Progress /\ b # None /\ b.at = "upsert" /\ b.todo # {}
  BY DEF UpsertCommunity, Shape
<1>2. g \in b.todo /\ g \in Groups
  <2>1. b.todo \in SUBSET Groups
    BY <1>1 DEF Progress
  <2> HIDE DEF b
  <2> QED BY <1>1, <2>1, FirstIn
<1>3. /\ new \in Progress /\ new.at = b.at /\ new.alone = b.alone
      /\ new.todo = b.todo \ {g} /\ new.done = b.done \cup {g}
  BY <1>1, <1>2 DEF Progress
<1>4. communities' = [k \in DOMAIN communities \cup {Key(g)} |->
                        IF k = Key(g) THEN written ELSE communities[k]]
      /\ Go(r, new)
  BY DEF UpsertCommunity
<1>5. g.members \in SUBSET Entities
  BY <1>2 DEF Groups
<1>6. Key(g) \in Keys
  BY <1>2, KeyIn
<1>7. \A k \in DOMAIN communities : communities[k] \in Links
  BY DEF Shape, Linkable
<1>8. old \in Links /\ (Known(Key(g)) => old = communities[Key(g)])
      /\ (~Known(Key(g)) => old = [members |-> {}, parent |-> None, children |-> {}])
  BY <1>7 DEF Known
<1> HIDE DEF old, b, g
<1>9. /\ written \in Links /\ written.members = g.members /\ written.parent = old.parent
      /\ written.children = old.children
      /\ ~Known(Key(g)) => written = [members |-> g.members, parent |-> None, children |-> {}]
  BY <1>5, <1>8
<1> HIDE DEF written
<1>10. \A k \in DOMAIN communities' :
         communities'[k] = IF k = Key(g) THEN written ELSE communities[k]
  BY <1>4
<1>11. Linkable(communities')
  <2>1. DOMAIN communities' = DOMAIN communities \cup {Key(g)} /\ DOMAIN communities' \subseteq Keys
    BY <1>4, <1>6 DEF Shape, Linkable
  <2>2. \A k \in DOMAIN communities' :
          communities'[k] \in [members : SUBSET Entities, parent : DOMAIN communities' \cup {None},
                               children : SUBSET DOMAIN communities']
    BY <1>7, <1>9, <1>10, <2>1
  <2>3. communities' = [k \in DOMAIN communities' |-> communities'[k]]
    BY <1>4
  <2> QED BY <2>1, <2>2, <2>3 DEF Linkable
<1> QED BY <1>1, <1>2, <1>3, <1>4, <1>8, <1>9, <1>10, <1>11 DEF Known, b, g

LEMMA UpsertKeeps ==
  ASSUME Shape, RebuildsInv, LinksInv, NEW r \in Rebuilds, UpsertCommunity(r)
  PROVE  Shape' /\ RebuildsInv' /\ LinksInv'
<1> DEFINE b == rebuild[r]
           g == First(b.todo)
           new == [b EXCEPT !.todo = @ \ {g}, !.done = @ \cup {g}]
<1>1. /\ b \in Progress /\ b # None /\ b.at = "upsert" /\ g \in Groups
      /\ g \in b.todo /\ new \in Progress /\ Go(r, new)
      /\ new.at = b.at /\ new.todo = b.todo \ {g} /\ new.done = b.done \cup {g}
      /\ DOMAIN communities' = DOMAIN communities \cup {Key(g)}
      /\ Linkable(communities')
  BY Upserts
<1>2. \A k \in DOMAIN communities :
        /\ communities'[k].parent = communities[k].parent
        /\ communities'[k].children = communities[k].children
  BY Upserts
<1>3. Key(g) \notin DOMAIN communities =>
        communities'[Key(g)] = [members |-> g.members, parent |-> None, children |-> {}]
  BY Upserts
<1>4. InOrder(communities, b) /\ cut' = cut
  BY <1>1 DEF RebuildsInv, UpsertCommunity
<1> HIDE DEF new, g
<1>5. InOrder(communities', new)
  BY <1>1, <1>4 DEF InOrder
<1>6. Shape' /\ RebuildsInv'
  BY <1>1, <1>4, <1>5, WriteKeepsOrder DEF Shape
<1>7. \A k \in DOMAIN communities' : k \notin DOMAIN communities =>
        communities'[k].parent = None /\ communities'[k].children = {}
  BY <1>1, <1>3
<1>8. Coarser(communities')
  BY <1>2, <1>7 DEF Coarser, LinksInv
<1>9. ASSUME NEW k \in DOMAIN communities', communities'[k].parent # None
      PROVE  \/ k \in communities'[communities'[k].parent].children
             \/ Told(communities', rebuild', k)
             \/ k \in cut'
  <2>1. k \in DOMAIN communities /\ communities'[k].parent = communities[k].parent
    BY <1>2, <1>7, <1>9
  <2>2. communities[k].parent \in DOMAIN communities
    BY <1>9, <2>1 DEF Shape, Linkable
  <2>3. CASE k \in communities[communities[k].parent].children \/ k \in cut
    BY <1>2, <1>4, <2>1, <2>2, <2>3
  <2>4. CASE Told(communities, rebuild, k)
    BY <1>1, <2>1, <2>4, StaysTold
  <2> QED BY <1>9, <2>1, <2>3, <2>4 DEF LinksInv, LinksMeet
<1> QED BY <1>6, <1>8, <1>9 DEF LinksInv, LinksMeet

(* The community whose parent is set, and where the rebuild then is.       *)
LEMMA SetsParent ==
  ASSUME Shape, RebuildsInv, NEW r \in Rebuilds, SetParent(r)
  PROVE  LET b == rebuild[r]
             child == First(b.todo)
             parent == First(BestParents(b.done, child))
             new == [b EXCEPT !.at = "child", !.parent = Key(parent)]
         IN  /\ b \in Progress /\ b # None /\ b.at = "link" /\ b.todo # {}
             /\ child \in b.todo /\ child \in b.done /\ b.todo \subseteq b.done
             /\ child \in Groups /\ Key(child) \in DOMAIN communities
             /\ BestParents(b.done, child) # {} /\ parent \in BestParents(b.done, child)
             /\ parent \in b.done /\ Key(parent) \in DOMAIN communities
             /\ Key(parent).level < child.level /\ Key(child).level = child.level
             /\ new \in Progress /\ Go(r, new)
             /\ new.at = "child" /\ new.alone = b.alone /\ new.parent = Key(parent)
             /\ new.todo = b.todo /\ new.done = b.done
             /\ DOMAIN communities' = DOMAIN communities
             /\ communities'[Key(child)].parent = Key(parent)
             /\ \A k \in DOMAIN communities :
                  /\ communities'[k].members = communities[k].members
                  /\ communities'[k].children = communities[k].children
                  /\ k # Key(child) => communities'[k] = communities[k]
             /\ Linkable(communities')
<1> DEFINE b == rebuild[r]
           child == First(b.todo)
           parent == First(BestParents(b.done, child))
           new == [b EXCEPT !.at = "child", !.parent = Key(parent)]
           Links == [members : SUBSET Entities, parent : DOMAIN communities \cup {None},
                     children : SUBSET DOMAIN communities]
           written == [communities[Key(child)] EXCEPT !.parent = Key(parent)]
<1>1. b \in Progress /\ b # None /\ b.at = "link" /\ b.todo # {} /\ InOrder(communities, b)
  BY DEF SetParent, Shape, RebuildsInv
<1>2. b.todo \in SUBSET Groups /\ b.done \in SUBSET Groups /\ b.todo \subseteq b.done
  BY <1>1 DEF Progress, InOrder
<1>3. BestParents(b.done, child) # {} /\ Go(r, new)
      /\ communities' = [communities EXCEPT ![Key(child)].parent = Key(parent)]
  BY DEF SetParent
<1> HIDE DEF b
<1>4. child \in b.todo /\ child \in b.done /\ child \in Groups
  BY <1>1, <1>2, FirstIn
<1> HIDE DEF child
<1>5. parent \in BestParents(b.done, child) /\ parent \in b.done /\ parent \in Groups
      /\ parent.level < child.level
  <2>1. BestParents(b.done, child) \in SUBSET b.done
        /\ \A p \in BestParents(b.done, child) : p.level < child.level
    BY <1>2, BestParentsIn
  <2>2. parent \in BestParents(b.done, child)
    BY <1>2, <1>3, <2>1, FirstIn
  <2> QED BY <1>2, <2>1, <2>2
<1> HIDE DEF parent
<1>6. /\ Key(child) \in DOMAIN communities /\ Key(parent) \in DOMAIN communities
      /\ Key(child).level = child.level /\ Key(parent).level = parent.level
      /\ Key(parent) \in Keys
  BY <1>1, <1>4, <1>5, KeyIn DEF InOrder
<1>7. /\ new \in Progress /\ new.at = "child" /\ new.alone = b.alone
      /\ new.parent = Key(parent) /\ new.todo = b.todo /\ new.done = b.done
  BY <1>1, <1>6 DEF Progress
<1>8. \A k \in DOMAIN communities : communities[k] \in Links
  BY DEF Shape, Linkable
<1>9. /\ DOMAIN communities' = DOMAIN communities
      /\ \A k \in DOMAIN communities :
           communities'[k] = IF k = Key(child) THEN written ELSE communities[k]
      /\ communities' = [k \in DOMAIN communities |-> communities'[k]]
  BY <1>3, <1>6 DEF Shape, Linkable
<1>10. /\ written \in Links /\ written.parent = Key(parent)
       /\ written.members = communities[Key(child)].members
       /\ written.children = communities[Key(child)].children
  BY <1>6, <1>8
<1> HIDE DEF written
<1>11. Linkable(communities')
  <2>1. \A k \in DOMAIN communities' : communities'[k] \in Links
    BY <1>8, <1>9, <1>10
  <2> QED BY <1>9, <2>1 DEF Linkable, Shape
<1> QED BY <1>1, <1>2, <1>3, <1>4, <1>5, <1>6, <1>7, <1>9, <1>10, <1>11 DEF b, child, parent

LEMMA SetParentKeeps ==
  ASSUME Shape, RebuildsInv, LinksInv, NEW r \in Rebuilds, SetParent(r)
  PROVE  Shape' /\ RebuildsInv' /\ LinksInv'
<1> DEFINE b == rebuild[r]
           child == First(b.todo)
           parent == First(BestParents(b.done, child))
           new == [b EXCEPT !.at = "child", !.parent = Key(parent)]
<1>1. /\ b.at = "link" /\ b.todo # {} /\ b.todo \subseteq b.done
      /\ Key(child) \in DOMAIN communities /\ Key(parent) \in DOMAIN communities
      /\ Key(parent).level < child.level /\ Key(child).level = child.level
  BY SetsParent
<1>2. /\ new \in Progress /\ Go(r, new)
      /\ new.at = "child" /\ new.parent = Key(parent)
      /\ new.todo = b.todo /\ new.done = b.done
  BY SetsParent
<1>3. /\ DOMAIN communities' = DOMAIN communities
      /\ communities'[Key(child)].parent = Key(parent)
      /\ \A k \in DOMAIN communities :
           /\ communities'[k].children = communities[k].children
           /\ k # Key(child) => communities'[k] = communities[k]
      /\ Linkable(communities')
  BY SetsParent
<1>4. InOrder(communities, b) /\ cut' = cut \ {Key(child)}
  BY DEF SetParent, RebuildsInv
<1>5. child = First(new.todo)
  BY <1>2
<1> HIDE DEF new, child, parent
<1>6. InOrder(communities', new)
  BY <1>1, <1>2, <1>3, <1>4, <1>5 DEF InOrder
<1>7. Shape' /\ RebuildsInv'
  BY <1>2, <1>3, <1>4, <1>6, WriteKeepsOrder DEF Shape
<1>8. Coarser(communities')
  BY <1>1, <1>3 DEF Coarser, LinksInv
<1>9. ASSUME NEW k \in DOMAIN communities', communities'[k].parent # None
      PROVE  \/ k \in communities'[communities'[k].parent].children
             \/ Told(communities', rebuild', k)
             \/ k \in cut'
  <2>1. CASE k = Key(child)
    <3>1. rebuild'[r] = new /\ rebuild'[r] # None
      BY <1>2, OthersStay
    <3>2. Key(First(rebuild'[r].todo)) = k /\ rebuild'[r].parent = communities'[k].parent
      BY <1>2, <1>3, <1>5, <2>1, <3>1
    <3> QED BY <1>2, <3>1, <3>2 DEF Told
  <2>2. CASE k # Key(child)
    <3>1. communities'[k] = communities[k] /\ communities[k].parent \in DOMAIN communities
      BY <1>3, <1>9, <2>2 DEF Shape, Linkable
    <3>2. CASE k \in communities[communities[k].parent].children \/ k \in cut
      BY <1>3, <1>4, <2>2, <3>1, <3>2
    <3>3. CASE Told(communities, rebuild, k)
      BY <1>1, <1>2, <3>1, <3>3, StaysTold
    <3> QED BY <1>3, <1>9, <3>1, <3>2, <3>3 DEF LinksInv, LinksMeet
  <2> QED BY <2>1, <2>2
<1> QED BY <1>7, <1>8, <1>9 DEF LinksInv, LinksMeet

(* The community that is told of a child, and where the rebuild then is.   *)
LEMMA AddsChild ==
  ASSUME Shape, RebuildsInv, NEW r \in Rebuilds, AddChild(r)
  PROVE  LET b == rebuild[r]
             child == First(b.todo)
             new == [b EXCEPT !.at = "link", !.parent = None, !.todo = @ \ {child}]
         IN  /\ b \in Progress /\ b # None /\ b.at = "child" /\ b.todo \subseteq b.done
             /\ child \in b.todo /\ child \in Groups /\ Key(child) \in DOMAIN communities
             /\ b.parent \in DOMAIN communities
             /\ b.parent.level < Key(child).level
             /\ new \in Progress /\ Go(r, new)
             /\ new.at = "link" /\ new.alone = b.alone
             /\ new.todo = b.todo \ {child} /\ new.done = b.done
             /\ DOMAIN communities' = DOMAIN communities
             /\ communities'[b.parent].children = communities[b.parent].children \cup {Key(child)}
             /\ \A k \in DOMAIN communities :
                  /\ communities'[k].members = communities[k].members
                  /\ communities'[k].parent = communities[k].parent
                  /\ k # b.parent => communities'[k] = communities[k]
             /\ Linkable(communities')
<1> DEFINE b == rebuild[r]
           child == First(b.todo)
           new == [b EXCEPT !.at = "link", !.parent = None, !.todo = @ \ {child}]
           Links == [members : SUBSET Entities, parent : DOMAIN communities \cup {None},
                     children : SUBSET DOMAIN communities]
           written == [communities[b.parent] EXCEPT !.children = @ \cup {Key(child)}]
<1>1. b \in Progress /\ b # None /\ b.at = "child" /\ InOrder(communities, b)
  BY DEF AddChild, Shape, RebuildsInv
<1>2. /\ Go(r, new)
      /\ communities' = [communities EXCEPT ![b.parent].children = @ \cup {Key(child)}]
  BY DEF AddChild
<1> HIDE DEF b
<1>3. /\ b.todo # {} /\ b.todo \in SUBSET Groups /\ b.todo \subseteq b.done
      /\ b.parent \in DOMAIN communities /\ b.parent.level < child.level
  BY <1>1 DEF Progress, InOrder
<1>4. child \in b.todo /\ child \in Groups
  BY <1>3, FirstIn
<1> HIDE DEF child
<1>5. Key(child) \in DOMAIN communities /\ Key(child).level = child.level
  BY <1>1, <1>3, <1>4, KeyIn DEF InOrder
<1>6. /\ new \in Progress /\ new.at = "link" /\ new.alone = b.alone
      /\ new.todo = b.todo \ {child} /\ new.done = b.done
  BY <1>1 DEF Progress
<1>7. \A k \in DOMAIN communities : communities[k] \in Links
  BY DEF Shape, Linkable
<1>8. /\ DOMAIN communities' = DOMAIN communities
      /\ \A k \in DOMAIN communities :
           communities'[k] = IF k = b.parent THEN written ELSE communities[k]
      /\ communities' = [k \in DOMAIN communities |-> communities'[k]]
  BY <1>2, <1>3 DEF Shape, Linkable
<1>9. /\ written \in Links /\ written.parent = communities[b.parent].parent
      /\ written.members = communities[b.parent].members
      /\ written.children = communities[b.parent].children \cup {Key(child)}
  BY <1>3, <1>5, <1>7
<1> HIDE DEF written
<1>10. Linkable(communities')
  <2>1. \A k \in DOMAIN communities' : communities'[k] \in Links
    BY <1>7, <1>8, <1>9
  <2> QED BY <1>8, <2>1 DEF Linkable, Shape
<1> QED BY <1>1, <1>2, <1>3, <1>4, <1>5, <1>6, <1>8, <1>9, <1>10 DEF b, child

LEMMA AddChildKeeps ==
  ASSUME Shape, RebuildsInv, LinksInv, NEW r \in Rebuilds, AddChild(r)
  PROVE  Shape' /\ RebuildsInv' /\ LinksInv'
<1> DEFINE b == rebuild[r]
           child == First(b.todo)
           new == [b EXCEPT !.at = "link", !.parent = None, !.todo = @ \ {child}]
<1>1. /\ b.at = "child" /\ b.todo \subseteq b.done
      /\ Key(child) \in DOMAIN communities /\ b.parent \in DOMAIN communities
      /\ b.parent.level < Key(child).level
  BY AddsChild
<1>2. /\ new \in Progress /\ Go(r, new) /\ new.at = "link"
      /\ new.todo = b.todo \ {child} /\ new.done = b.done
  BY AddsChild
<1>3. /\ DOMAIN communities' = DOMAIN communities
      /\ communities'[b.parent].children = communities[b.parent].children \cup {Key(child)}
      /\ \A k \in DOMAIN communities :
           /\ communities'[k].parent = communities[k].parent
           /\ k # b.parent => communities'[k] = communities[k]
      /\ Linkable(communities')
  BY AddsChild
<1>4. InOrder(communities, b) /\ cut' = cut
  BY DEF AddChild, RebuildsInv
<1>5. child = First(b.todo)
  OBVIOUS
<1> HIDE DEF new, child
<1>6. InOrder(communities', new)
  BY <1>1, <1>2, <1>3, <1>4 DEF InOrder
<1>7. Shape' /\ RebuildsInv'
  BY <1>2, <1>3, <1>4, <1>6, WriteKeepsOrder DEF Shape
<1>8. Coarser(communities')
  BY <1>1, <1>3 DEF Coarser, LinksInv
<1>9. ASSUME NEW k \in DOMAIN communities', communities'[k].parent # None
      PROVE  \/ k \in communities'[communities'[k].parent].children
             \/ Told(communities', rebuild', k)
             \/ k \in cut'
  <2>1. k \in DOMAIN communities /\ communities'[k].parent = communities[k].parent
        /\ communities[k].parent \in DOMAIN communities
    BY <1>3, <1>9 DEF Shape, Linkable
  <2>2. CASE Key(child) = k /\ b.parent = communities[k].parent
    BY <1>3, <2>1, <2>2
  <2>3. CASE k \in communities[communities[k].parent].children \/ k \in cut
    BY <1>3, <1>4, <2>1, <2>3
  <2>4. CASE Told(communities, rebuild, k) /\ (Key(child) # k \/ b.parent # communities[k].parent)
    BY <1>2, <1>5, <2>1, <2>4, StaysTold
  <2> QED BY <1>9, <2>1, <2>2, <2>3, <2>4 DEF LinksInv, LinksMeet
<1> QED BY <1>7, <1>8, <1>9 DEF LinksInv, LinksMeet

-----------------------------------------------------------------------------
LEMMA InitInv ==
  ASSUME Init
  PROVE  CommunitiesInv
<1>1. DOMAIN communities = {} /\ communities = [k \in DOMAIN communities |-> communities[k]]
  BY DEF Init
<1>2. Shape
  BY <1>1, CommunitiesAssumption DEF Init, Shape, Linkable
<1>3. RebuildsInv
  BY DEF Init, RebuildsInv
<1>4. LinksInv
  BY <1>1 DEF LinksInv, LinksMeet, Coarser
<1> QED BY <1>2, <1>3, <1>4 DEF CommunitiesInv

LEMMA NextInv ==
  ASSUME CommunitiesInv, [Next]_vars
  PROVE  CommunitiesInv'
<1> USE DEF CommunitiesInv
<1>1. CASE UNCHANGED vars
  BY <1>1 DEF vars, Shape, Linkable, RebuildsInv, InOrder, LinksInv, LinksMeet, Told, Coarser
<1>2. CASE ChangeGraph
  BY <1>2 DEF ChangeGraph, Shape, Linkable, RebuildsInv, InOrder, LinksInv, LinksMeet, Told,
              Coarser
<1>3. ASSUME NEW r \in Rebuilds, Rebuild(r)
      PROVE  CommunitiesInv'
  BY <1>3, LoadEntitiesKeeps, LoadRelationshipsKeeps, UpsertKeeps, StartLinkingKeeps,
     SetParentKeeps, AddChildKeeps, SkipOrphanKeeps, FinishKeeps, CutKeeps DEF Rebuild
<1> QED BY <1>1, <1>2, <1>3 DEF Next

THEOREM Invariance == Spec => []CommunitiesInv
BY InitInv, NextInv, PTL DEF Spec

(* Communities and rebuilds have their shape, and links lead to            *)
(* communities that are there (db/graph_store.py).                         *)
THEOREM CommunitiesAreWellFormed == Spec => []TypeOK
<1>1. ASSUME CommunitiesInv
      PROVE  TypeOK
  <2>1. \A k \in DOMAIN communities :
          /\ k.level \in Levels /\ Len(k.title) \in 1..TitleSize
          /\ communities[k].members \subseteq Entities
          /\ communities[k].parent # None => Known(communities[k].parent)
          /\ \A c \in communities[k].children : Known(c)
    <3> TAKE k \in DOMAIN communities
    <3>1. k.level \in Levels /\ k.title \in Titles
      BY <1>1 DEF CommunitiesInv, Shape, Linkable, Keys
    <3>2. PICK n \in 1..TitleSize : k.title \in [1..n -> {NameOf[e] : e \in Entities}]
      BY <3>1 DEF Titles
    <3>3. Len(k.title) = n
      <4>1. n \in Nat
        BY CommunitiesAssumption
      <4>2. k.title \in Seq({NameOf[e] : e \in Entities})
        BY <3>2, <4>1
      <4> QED BY <3>2, <4>1, <4>2
    <3>4. communities[k] \in [members : SUBSET Entities, parent : DOMAIN communities \cup {None},
                              children : SUBSET DOMAIN communities]
      BY <1>1 DEF CommunitiesInv, Shape, Linkable
    <3> QED BY <3>1, <3>3, <3>4 DEF Known
  <2>2. \A r \in Rebuilds : rebuild[r] # None =>
          /\ rebuild[r].at \in {"relationships", "upsert", "link", "child"}
          /\ rebuild[r].at = "child" => Known(rebuild[r].parent)
          /\ \A g \in rebuild[r].done : Known(Key(g))
    BY <1>1 DEF CommunitiesInv, Shape, RebuildsInv, InOrder, Progress, Known
  <2> QED BY <1>1, <2>1, <2>2 DEF CommunitiesInv, Shape, TypeOK, Known
<1> QED BY <1>1, Invariance, PTL

(* Whatever rebuilds overlap, a parent lists the community that points to  *)
(* it, unless the rebuild that set it is just about to tell the parent or  *)
(* was cut short in between (build_communities, post-processing).          *)
THEOREM ParentsKnowTheirChildren == Spec => []ParentKnowsChild
<1>1. ASSUME CommunitiesInv
      PROVE  ParentKnowsChild
  BY <1>1 DEF CommunitiesInv, LinksInv, LinksMeet, Told, ParentKnowsChild, AboutToTell
<1> QED BY <1>1, Invariance, PTL

(* The links of all the rebuilds together have no cycle: a parent is of a  *)
(* coarser level than its children.                                        *)
THEOREM LinksHaveNoCycle == Spec => []ParentsAreCoarser
<1>1. ASSUME CommunitiesInv
      PROVE  ParentsAreCoarser
  BY <1>1 DEF CommunitiesInv, LinksInv, Coarser, ParentsAreCoarser
<1> QED BY <1>1, Invariance, PTL

-----------------------------------------------------------------------------
(* What a rebuild achieves that no other disturbs.                         *)

LEMMA MovesOnAchieved ==
  ASSUME Shape, AchievedInv, NEW r \in Rebuilds, NEW b,
         rebuild' = [rebuild EXCEPT ![r] = b],
         communities' = communities,
         b # None => Achieved(communities, b),
         last' = last \/ \A g \in last' : Stored(communities, last', g) /\ Linked(communities, last', g)
  PROVE  AchievedInv'
<1>1. \A q \in Rebuilds : rebuild'[q] = IF q = r THEN b ELSE rebuild[q]
  BY DEF Shape
<1>2. ASSUME NEW q \in Rebuilds, rebuild'[q] # None
      PROVE  Achieved(communities', rebuild'[q])
  BY <1>1, <1>2 DEF AchievedInv
<1>3. \A g \in last' : Stored(communities', last', g) /\ Linked(communities', last', g)
  BY DEF AchievedInv
<1> QED BY <1>2, <1>3 DEF AchievedInv

LEMMA WritesAchieved ==
  ASSUME Shape, NEW r \in Rebuilds, NEW b \in Progress, Go(r, b), Achieved(communities', b)
  PROVE  AchievedInv'
<1>1. last' = {}
  BY DEF Go
<1>2. ASSUME NEW q \in Rebuilds, rebuild'[q] # None
      PROVE  Achieved(communities', rebuild'[q])
  <2>1. CASE q = r
    BY <2>1, OthersStay
  <2>2. CASE q # r
    <3>1. rebuild'[q].alone = FALSE
      BY <1>2, <2>2, OthersStay
    <3> QED BY <3>1 DEF Achieved
  <2> QED BY <2>1, <2>2
<1> QED BY <1>1, <1>2 DEF AchievedInv

LEMMA UpsertAchieves ==
  ASSUME Shape, RebuildsInv, AchievedInv, NEW r \in Rebuilds, UpsertCommunity(r)
  PROVE  AchievedInv'
<1> DEFINE b == rebuild[r]
           g == First(b.todo)
           new == [b EXCEPT !.todo = @ \ {g}, !.done = @ \cup {g}]
<1>1. /\ b # None /\ b.at = "upsert" /\ new \in Progress /\ Go(r, new)
      /\ new.at = b.at /\ new.alone = b.alone /\ new.done = b.done \cup {g}
      /\ DOMAIN communities' = DOMAIN communities \cup {Key(g)}
      /\ communities'[Key(g)].members = g.members
      /\ \A k \in DOMAIN communities : k # Key(g) => communities'[k] = communities[k]
  BY Upserts
<1>2. Achieved(communities, b)
  BY <1>1 DEF AchievedInv
<1> HIDE DEF new, g
<1>3. ASSUME b.alone, NEW x \in new.done
      PROVE  Stored(communities', new.done, x)
  <2>1. CASE Key(x) = Key(g)
    BY <1>1, <2>1 DEF Stored
  <2>2. CASE Key(x) # Key(g)
    <3>1. Stored(communities, b.done, x)
      BY <1>1, <1>2, <1>3, <2>2 DEF Achieved
    <3> QED BY <1>1, <2>2, <3>1 DEF Stored
  <2> QED BY <2>1, <2>2
<1>4. Achieved(communities', new)
  BY <1>1, <1>3 DEF Achieved
<1> QED BY <1>1, <1>4, WritesAchieved

LEMMA SetParentAchieves ==
  ASSUME Shape, RebuildsInv, AchievedInv, NEW r \in Rebuilds, SetParent(r)
  PROVE  AchievedInv'
<1> DEFINE b == rebuild[r]
           child == First(b.todo)
           parent == First(BestParents(b.done, child))
           new == [b EXCEPT !.at = "child", !.parent = Key(parent)]
<1>1. /\ b # None /\ b.at = "link" /\ child \in b.done
      /\ parent \in BestParents(b.done, child)
      /\ new \in Progress /\ Go(r, new)
      /\ new.at = "child" /\ new.alone = b.alone /\ new.todo = b.todo /\ new.done = b.done
  BY SetsParent
<1>2. /\ DOMAIN communities' = DOMAIN communities
      /\ communities'[Key(child)].parent = Key(parent)
      /\ \A k \in DOMAIN communities :
           /\ communities'[k].members = communities[k].members
           /\ k # Key(child) => communities'[k] = communities[k]
  BY SetsParent
<1>3. Achieved(communities, b) /\ InOrder(communities, b)
  BY <1>1 DEF AchievedInv, RebuildsInv
<1>4. child = First(new.todo)
  BY <1>1
<1> HIDE DEF new, child, parent
<1>5. ASSUME b.alone, NEW x \in b.done
      PROVE  Stored(communities', b.done, x)
  BY <1>2, <1>3, <1>5 DEF Achieved, Stored
<1>6. ASSUME b.alone, NEW x \in (b.done \ b.todo) \cup {child}
      PROVE  Linked(communities', b.done, x)
  <2>1. CASE Key(x) = Key(child)
    BY <1>1, <1>2, <2>1 DEF Linked
  <2>2. CASE Key(x) # Key(child)
    <3>1. x \in b.done \ b.todo /\ Linked(communities, b.done, x)
      BY <1>1, <1>3, <1>6, <2>2 DEF Achieved
    <3>2. communities'[Key(x)] = communities[Key(x)]
      BY <1>2, <1>3, <2>2, <3>1 DEF InOrder
    <3> QED BY <3>1, <3>2 DEF Linked
  <2> QED BY <2>1, <2>2
<1>7. Achieved(communities', new)
  BY <1>1, <1>4, <1>5, <1>6 DEF Achieved
<1> QED BY <1>1, <1>7, WritesAchieved

LEMMA AddChildAchieves ==
  ASSUME Shape, RebuildsInv, AchievedInv, NEW r \in Rebuilds, AddChild(r)
  PROVE  AchievedInv'
<1> DEFINE b == rebuild[r]
           child == First(b.todo)
           new == [b EXCEPT !.at = "link", !.parent = None, !.todo = @ \ {child}]
<1>1. /\ b # None /\ b.at = "child"
      /\ new \in Progress /\ Go(r, new) /\ new.at = "link" /\ new.alone = b.alone
      /\ new.todo = b.todo \ {child} /\ new.done = b.done
  BY AddsChild
<1>2. /\ DOMAIN communities' = DOMAIN communities
      /\ \A k \in DOMAIN communities :
           /\ communities'[k].members = communities[k].members
           /\ communities'[k].parent = communities[k].parent
  BY AddsChild
<1>3. Achieved(communities, b) /\ InOrder(communities, b)
  BY <1>1 DEF AchievedInv, RebuildsInv
<1>4. child = First(b.todo)
  OBVIOUS
<1> HIDE DEF new, child
<1>5. ASSUME b.alone, NEW x \in b.done
      PROVE  Stored(communities', b.done, x)
  BY <1>2, <1>3, <1>5 DEF Achieved, Stored
<1>6. ASSUME b.alone, NEW x \in b.done \ new.todo
      PROVE  Linked(communities', b.done, x)
  <2>1. Linked(communities, b.done, x) /\ Key(x) \in DOMAIN communities
    BY <1>1, <1>3, <1>4, <1>6 DEF Achieved, InOrder
  <2> QED BY <1>2, <2>1 DEF Linked
<1>7. Achieved(communities', new)
  BY <1>1, <1>5, <1>6 DEF Achieved
<1> QED BY <1>1, <1>7, WritesAchieved

LEMMA OthersAchieve ==
  ASSUME Shape, RebuildsInv, AchievedInv, NEW r \in Rebuilds,
         \/ LoadEntities(r) \/ LoadRelationships(r) \/ StartLinking(r)
         \/ SkipOrphan(r) \/ Finish(r) \/ Cut(r)
  PROVE  AchievedInv'
<1> DEFINE b == rebuild[r]
<1>0. b # None => /\ b \in Progress /\ InOrder(communities, b) /\ Achieved(communities, b)
  BY DEF Shape, RebuildsInv, AchievedInv
<1>1. CASE LoadEntities(r)
  <2> DEFINE new == [at |-> "relationships", mentions |-> graph.mentions, todo |-> {},
                     done |-> {}, parent |-> None, alone |-> TRUE]
  <2>1. rebuild' = [rebuild EXCEPT ![r] = new] /\ communities' = communities /\ last' = last
    BY <1>1 DEF LoadEntities
  <2>2. Achieved(communities, new)
    BY DEF Achieved
  <2> HIDE DEF new
  <2> QED BY <2>1, <2>2, MovesOnAchieved
<1>2. CASE LoadRelationships(r)
  <2>1. b # None /\ b.at = "relationships" /\ communities' = communities /\ last' = last
    BY <1>2 DEF LoadRelationships
  <2>2. CASE Stop(r)
    BY <2>1, <2>2, MovesOnAchieved DEF Stop
  <2>3. ASSUME NEW todo,
               rebuild' = [rebuild EXCEPT ![r].at = "upsert", ![r].todo = todo]
        PROVE  AchievedInv'
    <3> DEFINE new == [b EXCEPT !.at = "upsert", !.todo = todo]
    <3>1. rebuild' = [rebuild EXCEPT ![r] = new]
      BY <2>3 DEF Shape
    <3>2. new.done = {} /\ new.at = "upsert"
      BY <1>0, <2>1 DEF Progress, InOrder
    <3>3. Achieved(communities, new)
      BY <3>2 DEF Achieved
    <3> HIDE DEF new
    <3> QED BY <2>1, <3>1, <3>3, MovesOnAchieved
  <2> QED BY <1>2, <2>2, <2>3 DEF LoadRelationships
<1>3. CASE StartLinking(r)
  <2> DEFINE new == [b EXCEPT !.at = "link", !.todo = b.done]
  <2>1. /\ b # None /\ communities' = communities /\ last' = last
        /\ rebuild' = [rebuild EXCEPT ![r] = new]
    BY <1>3 DEF StartLinking, Shape
  <2>2. /\ new.at = "link" /\ new.done = b.done /\ new.todo = b.done /\ new.alone = b.alone
    BY <1>0, <2>1 DEF Progress
  <2>3. Achieved(communities, new)
    BY <1>0, <2>1, <2>2 DEF Achieved
  <2> HIDE DEF new
  <2> QED BY <2>1, <2>3, MovesOnAchieved
<1>4. CASE SkipOrphan(r)
  <2> DEFINE child == First(b.todo)
             new == [b EXCEPT !.todo = b.todo \ {child}]
  <2>1. /\ b # None /\ b.at = "link" /\ communities' = communities /\ last' = last
        /\ rebuild' = [rebuild EXCEPT ![r] = new] /\ BestParents(b.done, child) = {}
    BY <1>4 DEF SkipOrphan, Shape
  <2>2. /\ new.at = "link" /\ new.done = b.done /\ new.todo = b.todo \ {child}
        /\ new.alone = b.alone
    BY <1>0, <2>1 DEF Progress
  <2> HIDE DEF new, child
  <2>3. Linked(communities, b.done, child)
    BY <2>1 DEF Linked
  <2>4. Achieved(communities, new)
    BY <1>0, <2>1, <2>2, <2>3 DEF Achieved
  <2> QED BY <2>1, <2>4, MovesOnAchieved
<1>5. CASE Finish(r)
  <2>1. /\ b # None /\ b.at = "link" /\ b.todo = {} /\ communities' = communities
        /\ last' = (IF b.alone THEN b.done ELSE last)
        /\ rebuild' = [rebuild EXCEPT ![r] = None]
    BY <1>5 DEF Finish, Stop
  <2>2. ASSUME b.alone
        PROVE  \A g \in b.done : Stored(communities, b.done, g) /\ Linked(communities, b.done, g)
    BY <1>0, <2>1, <2>2 DEF Achieved
  <2> QED BY <2>1, <2>2, MovesOnAchieved
<1>6. CASE Cut(r)
  BY <1>6, MovesOnAchieved DEF Cut, Stop
<1> QED BY <1>1, <1>2, <1>3, <1>4, <1>5, <1>6

LEMMA NextAchieves ==
  ASSUME CommunitiesInv, AchievedInv, [Next]_vars
  PROVE  AchievedInv'
<1> USE DEF CommunitiesInv
<1>1. CASE UNCHANGED vars \/ ChangeGraph
  <2>1. communities' = communities /\ rebuild' = rebuild /\ last' = last
    BY <1>1 DEF vars, ChangeGraph
  <2>2. /\ \A r \in Rebuilds : rebuild'[r] # None => Achieved(communities', rebuild'[r])
        /\ \A g \in last' : Stored(communities', last', g) /\ Linked(communities', last', g)
    BY <2>1 DEF AchievedInv
  <2> QED BY <2>2 DEF AchievedInv
<1>2. ASSUME NEW r \in Rebuilds, Rebuild(r)
      PROVE  AchievedInv'
  BY <1>2, OthersAchieve, UpsertAchieves, SetParentAchieves, AddChildAchieves DEF Rebuild
<1> QED BY <1>1, <1>2 DEF Next

(* A rebuild during which no other wrote leaves each of its communities    *)
(* with its members and under one that has the most of them in common      *)
(* (build_communities).                                                    *)
THEOREM TheLastRebuildIsStored == Spec => []LastRebuildIsStored
<1>1. Init => AchievedInv
  BY DEF Init, AchievedInv
<1>2. CommunitiesInv /\ AchievedInv /\ [Next]_vars => AchievedInv'
  BY NextAchieves
<1>3. ASSUME AchievedInv
      PROVE  LastRebuildIsStored
  <2> SUFFICES ASSUME NEW g \in last
               PROVE  LET same == {h \in last : Key(h) = Key(g)}
                      IN  /\ Known(Key(g))
                          /\ \E h \in same : communities[Key(g)].members = h.members
                          /\ BestParents(last, g) # {} =>
                               \E h \in same : communities[Key(g)].parent
                                                 \in {Key(p) : p \in BestParents(last, h)}
    BY DEF LastRebuildIsStored
  <2>1. Stored(communities, last, g) /\ Linked(communities, last, g)
    BY <1>3 DEF AchievedInv
  <2> QED BY <2>1 DEF Stored, Linked, Known
<1> QED BY <1>1, <1>2, <1>3, Invariance, PTL DEF Spec
=============================================================================
