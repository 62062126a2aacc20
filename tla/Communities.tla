---------------------------- MODULE Communities ----------------------------
(***************************************************************************)
(* POST /v1/graph/communities/rebuild: build_communities reads the graph   *)
(* of the tenant, finds communities at each resolution, writes them one by *)
(* one and links them level by level.  Nothing keeps two rebuilds apart,   *)
(* and nothing removes the communities of an earlier one.  The graph       *)
(* changes meanwhile: GraphStore.                                          *)
(*                                                                         *)
(* A community is identified by its level and its title, the names of its  *)
(* most mentioned entities.  Entities are numbered in the order in which   *)
(* the database returns them.                                              *)
(***************************************************************************)
EXTENDS Naturals, FiniteSets, Sequences

CONSTANTS
  Entities,   \* numbers
  NameOf,     \* the name of each entity; other types may have the same name
  MaxLevel,   \* the levels of resolution are 0..MaxLevel
  TitleSize,  \* the names in a title
  Graphs,     \* the graphs that may be found: mentions and relationships
  Rebuilds,
  MaxRuns,    \* bound: the rebuilds that are started
  None        \* no community, no parent, no rebuild

VARIABLES
  graph,        \* the entities with their mentions (0: gone), relationships
  communities,  \* the communities by level and title
  rebuild,      \* what each rebuild has read and has still to write
  runs,         \* the rebuilds started
  cut,          \* the communities whose parent was set by a rebuild that
                \* was cut short before it told the parent (auxiliary)
  last          \* the groups written by a rebuild, from its end until the
                \* next write, when no other wrote meanwhile (auxiliary)

vars == <<graph, communities, rebuild, runs, cut, last>>

Levels == 0..MaxLevel

Titles == UNION {[1..n -> {NameOf[e] : e \in Entities}] : n \in 1..TitleSize}

Keys == [level : Levels, title : Titles]

Groups == [level : Levels, members : (SUBSET Entities) \ {{}}, title : Titles]

(* A rebuild under way: where it is, the mentions it has read, the groups  *)
(* still to write or link, those written, the parent still to be told, and *)
(* whether no other rebuild wrote since it began.                          *)
Progress ==
  [at : {"relationships", "upsert", "link", "child"}, mentions : [Entities -> Nat],
   todo : SUBSET Groups, done : SUBSET Groups, parent : Keys \cup {None}, alone : BOOLEAN]

ASSUME CommunitiesAssumption ==
  /\ IsFiniteSet(Entities) /\ Entities \subseteq Nat
  /\ MaxLevel \in Nat /\ TitleSize \in Nat \ {0} /\ MaxRuns \in Nat
  /\ Graphs \subseteq [mentions : [Entities -> Nat], rels : SUBSET (Entities \X Entities)]
  /\ None \notin Progress

Present(g) == {e \in Entities : g.mentions[e] > 0}

(* sorted() by mention_count is stable.                                    *)
MoreMentioned(mentions, a, b) ==
  \/ mentions[a] > mentions[b]
  \/ mentions[a] = mentions[b] /\ a < b

Rank(mentions, members, e) == Cardinality({x \in members : MoreMentioned(mentions, x, e)})

Title_All(mentions, members) ==
  LET at(n) == CHOOSE e \in members : Rank(mentions, members, e) = n - 1
  IN  [n \in 1..Cardinality(members) |-> NameOf[at(n)]]

(* _generate_community_title                                               *)
Title(mentions, members) ==
  LET size == Cardinality(members)
      at(n) == CHOOSE e \in members : Rank(mentions, members, e) = n - 1
  IN  [n \in 1..(IF size < TitleSize THEN size ELSE TitleSize) |-> NameOf[at(n)]]

Key(g) == [level |-> g.level, title |-> g.title]

Known(key) == key \in DOMAIN communities

(* communities in the order in which they are written: level by level,     *)
(* then by their first vertex.                                             *)
FirstVertex(members) == CHOOSE e \in members : \A x \in members : e <= x

First(groups) ==
  CHOOSE g \in groups : \A h \in groups :
    \/ g.level < h.level
    \/ g.level = h.level /\ FirstVertex(g.members) <= FirstVertex(h.members)

-----------------------------------------------------------------------------
ChangeGraph ==
  /\ graph' \in Graphs
  /\ UNCHANGED <<communities, rebuild, runs, cut, last>>

LoadEntities(r) ==
  /\ rebuild[r] = None
  /\ runs < MaxRuns
  /\ runs' = runs + 1
  /\ rebuild' = [rebuild EXCEPT ![r] =
       [at |-> "relationships", mentions |-> graph.mentions, todo |-> {}, done |-> {},
        parent |-> None, alone |-> TRUE]]
  /\ UNCHANGED <<graph, communities, cut, last>>

(* _build_graph: an undirected edge for each pair of loaded entities that  *)
(* some relationship connects; one may name an entity that is gone.        *)
Edges(entities, rels) ==
  {{r[1], r[2]} : r \in {q \in rels : q[1] \in entities /\ q[2] \in entities /\ q[1] # q[2]}}

Connected(group, edges) ==
  \A part \in (SUBSET group) \ {{}, group} :
    \E edge \in edges : edge \cap part # {} /\ edge \cap (group \ part) # {}

(* The Leiden algorithm, external: each vertex is labelled by the first    *)
(* vertex of its community, and communities are connected.                 *)
Partitions(vertices, edges) ==
  {label \in [vertices -> vertices] :
     /\ \A v \in vertices : label[v] <= v /\ label[label[v]] = label[v]
     /\ \A v \in vertices : Connected({w \in vertices : label[w] = label[v]}, edges)}

(* Each group of at least two entities of a partition for each level.      *)
GroupsOf(mentions, partition) ==
  UNION {{[level |-> level, members |-> members, title |-> Title(mentions, members)] :
            members \in {m \in {{w \in DOMAIN partition[level] : partition[level][w] = v}
                                  : v \in DOMAIN partition[level]} : Cardinality(m) >= 2}}
         : level \in Levels}

Stop(r) == rebuild' = [rebuild EXCEPT ![r] = None]

(* The relationships are read after the entities.  A small graph ends it.  *)
LoadRelationships(r) ==
  LET b == rebuild[r]
      entities == {e \in Entities : b.mentions[e] > 0}
  IN  /\ b # None /\ b.at = "relationships"
      /\ IF Cardinality(entities) < 3 \/ graph.rels = {}
         THEN Stop(r)
         ELSE \E partition \in [Levels -> Partitions(entities, Edges(entities, graph.rels))] :
                rebuild' = [rebuild EXCEPT ![r].at = "upsert",
                              ![r].todo = GroupsOf(b.mentions, partition)]
      /\ UNCHANGED <<graph, communities, runs, cut, last>>

(* A write of r: whatever else is in progress does not run alone.          *)
Go(r, b) ==
  /\ rebuild' = [q \in Rebuilds |->
       IF q = r THEN b ELSE IF rebuild[q] = None THEN None
       ELSE [rebuild[q] EXCEPT !.alone = FALSE]]
  /\ last' = {}
  /\ UNCHANGED <<graph, runs>>

UpsertCommunity_OnInsert(r) ==
  LET b == rebuild[r]
      g == First(b.todo)
      old == IF Known(Key(g)) THEN communities[Key(g)]
             ELSE [members |-> g.members, parent |-> None, children |-> {}]
  IN  /\ b # None /\ b.at = "upsert" /\ b.todo # {}
      /\ communities' = [k \in DOMAIN communities \cup {Key(g)} |->
           IF k = Key(g) THEN old ELSE communities[k]]
      /\ Go(r, [b EXCEPT !.todo = @ \ {g}, !.done = @ \cup {g}])
      /\ UNCHANGED cut

(* upsert_community keeps the links of a community that is there.          *)
UpsertCommunity(r) ==
  LET b == rebuild[r]
      g == First(b.todo)
      old == IF Known(Key(g)) THEN communities[Key(g)]
             ELSE [members |-> {}, parent |-> None, children |-> {}]
  IN  /\ b # None /\ b.at = "upsert" /\ b.todo # {}
      /\ communities' = [k \in DOMAIN communities \cup {Key(g)} |->
           IF k = Key(g) THEN [old EXCEPT !.members = g.members] ELSE communities[k]]
      /\ Go(r, [b EXCEPT !.todo = @ \ {g}, !.done = @ \cup {g}])
      /\ UNCHANGED cut

(* The hierarchy is linked once every community is written.                *)
StartLinking(r) ==
  /\ rebuild[r] # None /\ rebuild[r].at = "upsert" /\ rebuild[r].todo = {}
  /\ rebuild' = [rebuild EXCEPT ![r].at = "link", ![r].todo = rebuild[r].done]
  /\ UNCHANGED <<graph, communities, runs, cut, last>>

NextCoarser_Same(groups, level) == {g \in groups : g.level = level}

(* The groups of the next coarser level that has any.                      *)
NextCoarser(groups, level) ==
  {g \in groups : g.level < level /\ \A h \in groups : h.level <= g.level \/ h.level >= level}

Overlap(g, h) == Cardinality(g.members \cap h.members)

BestParents(groups, child) ==
  {p \in NextCoarser(groups, child.level) :
     /\ Overlap(p, child) > 0
     /\ \A q \in NextCoarser(groups, child.level) : Overlap(q, child) <= Overlap(p, child)}

SetParent(r) ==
  LET b == rebuild[r]
      child == First(b.todo)
      parent == First(BestParents(b.done, child))
  IN  /\ b # None /\ b.at = "link" /\ b.todo # {}
      /\ BestParents(b.done, child) # {}
      /\ communities' = [communities EXCEPT ![Key(child)].parent = Key(parent)]
      /\ cut' = cut \ {Key(child)}
      /\ Go(r, [b EXCEPT !.at = "child", !.parent = Key(parent)])

AddChild_Replaces(r) ==
  LET b == rebuild[r]
      child == First(b.todo)
  IN  /\ b # None /\ b.at = "child"
      /\ communities' = [communities EXCEPT ![b.parent].children = {Key(child)}]
      /\ Go(r, [b EXCEPT !.at = "link", !.parent = None, !.todo = @ \ {child}])
      /\ UNCHANGED cut

AddChild(r) ==
  LET b == rebuild[r]
      child == First(b.todo)
  IN  /\ b # None /\ b.at = "child"
      /\ communities' = [communities EXCEPT ![b.parent].children = @ \cup {Key(child)}]
      /\ Go(r, [b EXCEPT !.at = "link", !.parent = None, !.todo = @ \ {child}])
      /\ UNCHANGED cut

SkipOrphan(r) ==
  LET b == rebuild[r]
      child == First(b.todo)
  IN  /\ b # None /\ b.at = "link" /\ b.todo # {}
      /\ BestParents(b.done, child) = {}
      /\ rebuild' = [rebuild EXCEPT ![r].todo = @ \ {child}]
      /\ UNCHANGED <<graph, communities, runs, cut, last>>

Finish(r) ==
  /\ rebuild[r] # None /\ rebuild[r].at = "link" /\ rebuild[r].todo = {}
  /\ last' = IF rebuild[r].alone THEN rebuild[r].done ELSE last
  /\ Stop(r)
  /\ UNCHANGED <<graph, communities, runs, cut>>

(* A call raises or the API process dies.                                  *)
Cut(r) ==
  /\ rebuild[r] # None
  /\ cut' = IF rebuild[r].at = "child" THEN cut \cup {Key(First(rebuild[r].todo))} ELSE cut
  /\ Stop(r)
  /\ UNCHANGED <<graph, communities, runs, last>>

-----------------------------------------------------------------------------
Init ==
  /\ graph \in Graphs
  /\ communities = [k \in {} |-> None]
  /\ rebuild = [r \in Rebuilds |-> None]
  /\ runs = 0
  /\ cut = {}
  /\ last = {}

Rebuild(r) ==
  \/ LoadEntities(r) \/ LoadRelationships(r) \/ UpsertCommunity(r) \/ StartLinking(r)
  \/ SetParent(r) \/ AddChild(r) \/ SkipOrphan(r) \/ Finish(r) \/ Cut(r)

Next == ChangeGraph \/ \E r \in Rebuilds : Rebuild(r)

Spec == Init /\ [][Next]_vars

-----------------------------------------------------------------------------
(* Communities, graphs and rebuilds have their shape, and links lead to    *)
(* communities that are there.                                             *)
TypeOK ==
  /\ graph \in Graphs
  /\ runs \in 0..MaxRuns
  /\ \A k \in DOMAIN communities :
       /\ k.level \in Levels /\ Len(k.title) \in 1..TitleSize
       /\ communities[k].members \subseteq Entities
       /\ communities[k].parent # None => Known(communities[k].parent)
       /\ \A c \in communities[k].children : Known(c)
  /\ \A r \in Rebuilds : rebuild[r] # None =>
       /\ rebuild[r].at \in {"relationships", "upsert", "link", "child"}
       /\ rebuild[r].at = "child" => Known(rebuild[r].parent)
       /\ \A g \in rebuild[r].done : Known(Key(g))
  /\ \A k \in cut : Known(k)

AboutToTell(k) ==
  \E r \in Rebuilds : /\ rebuild[r] # None /\ rebuild[r].at = "child"
                      /\ Key(First(rebuild[r].todo)) = k
                      /\ rebuild[r].parent = communities[k].parent

(* Whatever rebuilds overlap, a parent lists the community that points to  *)
(* it, unless the rebuild that set it is just about to tell the parent or  *)
(* was cut short in between (build_communities, post-processing).          *)
ParentKnowsChild ==
  \A k \in DOMAIN communities : communities[k].parent # None =>
    \/ k \in communities[communities[k].parent].children
    \/ AboutToTell(k)
    \/ k \in cut

(* The links of all the rebuilds together have no cycle: a parent is of a  *)
(* coarser level than its children.                                        *)
ParentsAreCoarser ==
  \A k \in DOMAIN communities :
    /\ communities[k].parent # None => communities[k].parent.level < k.level
    /\ \A c \in communities[k].children : k.level < c.level

(* A rebuild during which no other wrote leaves each of its communities    *)
(* with its members and, when a community of the next coarser level has    *)
(* entities in common with it, under one that has the most.  Only groups   *)
(* whose most mentioned entities have the same names, by homonyms of       *)
(* another type, share one community (_generate_community_title).          *)
LastRebuildIsStored ==
  \A g \in last :
    LET same == {h \in last : Key(h) = Key(g)}
    IN  /\ Known(Key(g))
        /\ \E h \in same : communities[Key(g)].members = h.members
        /\ BestParents(last, g) # {} =>
             \E h \in same : communities[Key(g)].parent \in {Key(p) : p \in BestParents(last, h)}
=============================================================================
