-------------------------- MODULE SdpGraphProofs --------------------------
(***************************************************************************)
(* The edges of SdpGraph for any names, links and number of items.         *)
(***************************************************************************)
EXTENDS SdpGraph, TLAPS

\* The map of names holds a node of the name, if there is one.
NameInv ==
  \A name \in Names :
    /\ nodesByGUN[name] /= 0 =>
         nodesByGUN[name] \in Used /\ nodesByID[nodesByGUN[name]].gun = name
    /\ nodesByGUN[name] = 0 => \A id \in Used : nodesByID[id].gun /= name

\* Every node waits for each name that no item has, as often as it links it.
WaitInv ==
  \A name \in Names, u \in Ids :
    /\ u \notin Used => unseenEdges[name][u] = 0
    /\ u \in Used /\ nodesByGUN[name] = 0 =>
         unseenEdges[name][u] = nodesByID[u].links[name]

\* Edges join nodes.
EndsInv ==
  \A u, v \in Ids : u \notin Used \/ v \notin Used => edges[u][v] = 0

\* EdgesAreLinks, of the edges themselves.
EdgeInv ==
  \A u, v \in Used :
    OnlyOfItsName(v) /\ (undirected => OnlyOfItsName(u)) =>
      edges[u][v] = LinksTo(u, v) + (IF undirected THEN LinksTo(v, u) ELSE 0)

\* LinksLeadToTheirName, of the edges themselves.
LeadInv ==
  \A u \in Used, name \in Names :
    nodesByGUN[name] /= 0 =>
      \E v \in Used : /\ nodesByID[v].gun = name
                      /\ edges[u][v] >= nodesByID[u].links[name]

Inv == TypeOK /\ NameInv /\ WaitInv /\ EndsInv /\ EdgeInv
       /\ EdgesAreBidirectional /\ LeadInv

---------------------------------------------------------------------------
LEMMA InitInv == Init => Inv
<1> SUFFICES ASSUME Init PROVE Inv
  OBVIOUS
<1>1. Used = {} BY DEF Init, Used, Unused, Ids
<1>2. TypeOK BY MaxNodesAssumption DEF Init, TypeOK, Ids
<1>3. NameInv BY <1>1 DEF Init, NameInv
<1>4. WaitInv BY <1>1 DEF Init, WaitInv
<1>5. EndsInv BY DEF Init, EndsInv
<1>6. EdgeInv BY <1>1 DEF EdgeInv
<1>7. EdgesAreBidirectional BY DEF Init, EdgesAreBidirectional
<1>8. LeadInv BY <1>1 DEF LeadInv
<1> QED BY <1>2, <1>3, <1>4, <1>5, <1>6, <1>7, <1>8 DEF Inv

\* What AddItem does to the nodes.
LEMMA AddedNode ==
  ASSUME TypeOK, NEW id \in Ids \ Used, NEW gun \in Names,
         NEW links \in Links, AddItem(id, gun, links)
  PROVE  /\ Used' = Used \cup {id}
         /\ id \notin Used
         /\ nodesByID'[id].gun = gun /\ nodesByID'[id].links = links
         /\ \A u \in Ids : u /= id => nodesByID'[u] = nodesByID[u]
         /\ nodesByGUN'[gun] = id
         /\ \A name \in Names : name /= gun => nodesByGUN'[name] = nodesByGUN[name]
BY DEF TypeOK, AddItem, Used, Node, Unused

\* What a node has: a name, links and edges that can be counted.
LEMMA NodeTypes ==
  ASSUME TypeOK
  PROVE  /\ \A u \in Used : /\ nodesByID[u].gun \in Names
                            /\ \A name \in Names : nodesByID[u].links[name] \in Nat
         /\ Used \subseteq Ids
<1>1. \A u \in Used : nodesByID[u] \in Node
  <2>1. ~ Unused.used BY DEF Unused
  <2>2. \A u \in Used : nodesByID[u] /= Unused BY <2>1 DEF Used
  <2>3. \A u \in Used : nodesByID[u] \in Node \cup {Unused} BY DEF TypeOK, Used
  <2> QED BY <2>2, <2>3
<1>2. \A links \in Links, name \in Names : links[name] \in Nat
  BY LinksAssumption
<1> QED BY <1>1, <1>2 DEF Node, Used

\* What AddItem does to the edges and to those that wait.
LEMMA AddedTypes ==
  ASSUME Inv, NEW id \in Ids \ Used, NEW gun \in Names,
         NEW links \in Links, AddItem(id, gun, links)
  PROVE  /\ \A name \in Names, u \in Ids :
              unseenEdges'[name][u] =
                unseenEdges[name][u]
                  + (IF u = id /\ nodesByGUN'[name] = 0 THEN links[name] ELSE 0)
         /\ unseenEdges' \in [Names -> [Ids -> Nat]]
         /\ \A u, v \in Ids : /\ SeenEdges(id, links, u, v) \in Nat
                              /\ LateEdges(id, gun, u, v) \in Nat
         /\ \A u, v \in Ids :
              edges'[u][v] = edges[u][v] + AddedEdges(id, gun, links, u, v)
<1> USE DEF Inv
<1>1. \A name \in Names : links[name] \in Nat BY LinksAssumption
<1>2. unseenEdges' = [name \in Names |->
                        IF nodesByGUN'[name] /= 0 THEN unseenEdges[name]
                        ELSE [unseenEdges[name] EXCEPT ![id] = @ + links[name]]]
  BY DEF AddItem, Remember, Exists
<1>3. ASSUME NEW name \in Names, NEW u \in Ids
      PROVE  /\ unseenEdges'[name][u] =
                  unseenEdges[name][u]
                   + (IF u = id /\ nodesByGUN'[name] = 0 THEN links[name] ELSE 0)
             /\ unseenEdges'[name] \in [Ids -> Nat]
  <2>1. unseenEdges[name] \in [Ids -> Nat] BY DEF TypeOK
  <2>2. links[name] \in Nat BY <1>1
  <2>3. CASE nodesByGUN'[name] /= 0 BY <1>2, <2>1, <2>3
  <2>4. CASE nodesByGUN'[name] = 0 BY <1>2, <2>1, <2>2, <2>4
  <2> QED BY <2>3, <2>4
<1>4. unseenEdges' \in [Names -> [Ids -> Nat]]
  <2>1. id \in Ids OBVIOUS
  <2>2. \A name \in Names : unseenEdges'[name] \in [Ids -> Nat] BY <1>3, <2>1
  <2> QED BY <1>2, <2>2
<1>5. ASSUME NEW u \in Ids, NEW v \in Ids
      PROVE  /\ SeenEdges(id, links, u, v) \in Nat
             /\ LateEdges(id, gun, u, v) \in Nat
  <2>1. LateEdges(id, gun, u, v) \in Nat BY <1>4 DEF LateEdges
  <2>2. nodesByID'[v].used => nodesByID'[v].gun \in Names
    <3>1. CASE v = id BY <3>1, AddedNode
    <3>2. CASE v /= id BY <3>2, AddedNode, NodeTypes DEF Used
    <3> QED BY <3>1, <3>2
  <2>3. SeenEdges(id, links, u, v) \in Nat BY <1>1, <2>2 DEF SeenEdges
  <2> QED BY <2>1, <2>3
<1>6. ASSUME NEW u \in Ids, NEW v \in Ids
      PROVE  edges'[u][v] = edges[u][v] + AddedEdges(id, gun, links, u, v)
  BY DEF AddItem
<1> QED BY <1>3, <1>4, <1>5, <1>6

LEMMA AddItemInv ==
  ASSUME Inv, NEW id \in Ids \ Used, NEW gun \in Names, NEW links \in Links,
         AddItem(id, gun, links)
  PROVE  Inv'
<1> USE DEF Inv
<1>1. TypeOK'
  <2>1. nodesByID' \in [Ids -> Node \cup {Unused}]
    BY DEF TypeOK, AddItem, Node
  <2>2. nodesByGUN' \in [Names -> Ids \cup {0}] BY DEF TypeOK, AddItem
  <2>3. \A u, v \in Ids : edges'[u][v] \in Nat
    <3> SUFFICES ASSUME NEW u \in Ids, NEW v \in Ids PROVE edges'[u][v] \in Nat
      OBVIOUS
    <3>1. edges[u][v] \in Nat BY DEF TypeOK
    <3>2. AddedEdges(id, gun, links, u, v) \in Nat
      BY AddedTypes DEF AddedEdges, NewEdges
    <3> QED BY <3>1, <3>2, AddedTypes
  <2>4. edges' \in [Ids -> [Ids -> Nat]] BY <2>3 DEF AddItem
  <2>5. undirected' \in BOOLEAN BY DEF TypeOK, AddItem
  <2> QED BY <2>1, <2>2, <2>4, <2>5, AddedTypes DEF TypeOK
<1>2. NameInv'
  <2> SUFFICES ASSUME NEW name \in Names
               PROVE  /\ nodesByGUN'[name] /= 0 =>
                           /\ nodesByGUN'[name] \in Used'
                           /\ nodesByID'[nodesByGUN'[name]].gun = name
                      /\ nodesByGUN'[name] = 0 =>
                           \A u \in Used' : nodesByID'[u].gun /= name
    BY DEF NameInv
  <2>1. id /= 0 BY MaxNodesAssumption DEF Ids
  <2>2. CASE name = gun BY <2>1, <2>2, AddedNode
  <2>3. CASE name /= gun
    <3>1. nodesByGUN'[name] = nodesByGUN[name] BY <2>3, AddedNode
    <3>2. CASE nodesByGUN[name] /= 0
      <4>1. /\ nodesByGUN[name] \in Used
            /\ nodesByID[nodesByGUN[name]].gun = name
        BY <3>2 DEF NameInv
      <4>2. nodesByGUN[name] /= id /\ nodesByGUN[name] \in Ids
        BY <4>1 DEF Used
      <4> QED BY <3>1, <3>2, <4>1, <4>2, AddedNode
    <3>3. CASE nodesByGUN[name] = 0
      <4>1. \A u \in Used : nodesByID[u].gun /= name BY <3>3 DEF NameInv
      <4>2. \A u \in Used' : u /= id => u \in Used /\ u \in Ids
        BY AddedNode DEF Used
      <4> QED BY <2>3, <3>1, <3>3, <4>1, <4>2, AddedNode
    <3> QED BY <3>2, <3>3
  <2> QED BY <2>2, <2>3
<1>3. WaitInv'
  <2> SUFFICES ASSUME NEW name \in Names, NEW u \in Ids
               PROVE  /\ u \notin Used' => unseenEdges'[name][u] = 0
                      /\ u \in Used' /\ nodesByGUN'[name] = 0 =>
                           unseenEdges'[name][u] = nodesByID'[u].links[name]
    BY DEF WaitInv
  <2>1. unseenEdges[name][u] \in Nat BY DEF TypeOK
  <2>2. links[name] \in Nat BY LinksAssumption
  <2>3. nodesByGUN'[name] = 0 => nodesByGUN[name] = 0
    BY AddedNode, MaxNodesAssumption DEF Ids
  <2>4. unseenEdges'[name][u] = unseenEdges[name][u]
          + (IF u = id /\ nodesByGUN'[name] = 0 THEN links[name] ELSE 0)
    BY AddedTypes
  <2>5. /\ u \notin Used => unseenEdges[name][u] = 0
        /\ u \in Used /\ nodesByGUN[name] = 0 =>
             unseenEdges[name][u] = nodesByID[u].links[name]
    BY DEF WaitInv
  <2>6. CASE u = id BY <2>2, <2>4, <2>5, <2>6, AddedNode
  <2>7. CASE u /= id BY <2>1, <2>3, <2>4, <2>5, <2>7, AddedNode
  <2> QED BY <2>6, <2>7
<1>4. EndsInv'
  <2> SUFFICES ASSUME NEW u \in Ids, NEW v \in Ids,
                      u \notin Used' \/ v \notin Used'
               PROVE  edges'[u][v] = 0
    BY DEF EndsInv
  <2>1. edges[u][v] = 0 BY AddedNode DEF EndsInv
  <2>2. ASSUME NEW a \in Ids, NEW b \in Ids, a \notin Used' \/ b \notin Used'
        PROVE  NewEdges(id, gun, links, a, b) = 0
    <3>1. SeenEdges(id, links, a, b) = 0
      BY <2>2, AddedNode DEF SeenEdges, Used
    <3>2. LateEdges(id, gun, a, b) = 0
      BY <2>2, <1>3, AddedNode DEF LateEdges, WaitInv
    <3> QED BY <3>1, <3>2 DEF NewEdges
  <2>3. AddedEdges(id, gun, links, u, v) = 0 BY <2>2 DEF AddedEdges
  <2> QED BY <2>1, <2>3, AddedTypes
<1>5. EdgesAreBidirectional'
  <2> SUFFICES ASSUME undirected', NEW u \in Ids, NEW v \in Ids
               PROVE  edges'[u][v] = edges'[v][u]
    BY DEF EdgesAreBidirectional
  <2>1. undirected BY DEF AddItem
  <2>2. edges[u][v] = edges[v][u] BY <2>1 DEF EdgesAreBidirectional
  <2>3. /\ NewEdges(id, gun, links, u, v) \in Nat
        /\ NewEdges(id, gun, links, v, u) \in Nat
    BY AddedTypes DEF NewEdges
  <2>4. AddedEdges(id, gun, links, u, v) = AddedEdges(id, gun, links, v, u)
    BY <2>1, <2>3 DEF AddedEdges
  <2> QED BY <2>2, <2>4, AddedTypes
<1>6. LeadInv'
  <2> SUFFICES ASSUME NEW u \in Used', NEW name \in Names,
                      nodesByGUN'[name] /= 0
               PROVE  \E v \in Used' : /\ nodesByID'[v].gun = name
                                       /\ edges'[u][v] >= nodesByID'[u].links[name]
    BY DEF LeadInv
  <2>1. u \in Ids /\ id \in Ids /\ id \in Used' /\ Used \subseteq Used'
    BY AddedNode, NodeTypes
  <2>2. \A v \in Ids :
          /\ edges[u][v] \in Nat
          /\ edges'[u][v] >= edges[u][v]
          /\ edges'[u][v] >= SeenEdges(id, links, u, v)
          /\ edges'[u][v] >= LateEdges(id, gun, u, v)
    <3> SUFFICES ASSUME NEW v \in Ids
                 PROVE  /\ edges[u][v] \in Nat
                        /\ edges'[u][v] >= edges[u][v]
                        /\ edges'[u][v] >= SeenEdges(id, links, u, v)
                        /\ edges'[u][v] >= LateEdges(id, gun, u, v)
      OBVIOUS
    <3>1. edges[u][v] \in Nat BY <2>1 DEF TypeOK
    <3>2. /\ NewEdges(id, gun, links, v, u) \in Nat
          /\ SeenEdges(id, links, u, v) \in Nat
          /\ LateEdges(id, gun, u, v) \in Nat
      BY <2>1, AddedTypes DEF NewEdges
    <3>3. edges'[u][v] = edges[u][v] + AddedEdges(id, gun, links, u, v)
      BY <2>1, AddedTypes
    <3> QED BY <3>1, <3>2, <3>3 DEF AddedEdges, NewEdges
  <2>3. CASE u = id
    <3> DEFINE w == nodesByGUN'[name]
    <3>1. w \in Used' /\ nodesByID'[w].gun = name BY <1>2 DEF NameInv
    <3>2. w \in Ids /\ nodesByID'[w].used BY <3>1 DEF Used
    <3>3. SeenEdges(id, links, u, w) = links[name]
      BY <2>3, <3>1, <3>2 DEF SeenEdges
    <3>4. nodesByID'[u].links[name] = links[name] BY <2>3, AddedNode
    <3> QED BY <2>2, <3>1, <3>2, <3>3, <3>4
  <2>4. CASE u /= id /\ nodesByGUN[name] = 0
    <3>1. u \in Used /\ name = gun BY <2>4, AddedNode
    <3>2. unseenEdges[gun][u] = nodesByID[u].links[gun]
      BY <2>1, <2>4, <3>1 DEF WaitInv
    <3>3. nodesByID[u].links[gun] \in Nat BY <3>1, NodeTypes
    <3>4. LateEdges(id, gun, u, id) = nodesByID[u].links[gun]
      BY <2>1, <2>4, <3>2, <3>3, AddedTypes DEF LateEdges
    <3>5. nodesByID'[u] = nodesByID[u] BY <2>1, <2>4, AddedNode
    <3> QED BY <2>1, <2>2, <3>1, <3>4, <3>5, AddedNode
  <2>5. CASE u /= id /\ nodesByGUN[name] /= 0
    <3>1. u \in Used BY <2>5, AddedNode
    <3>2. PICK v \in Used : /\ nodesByID[v].gun = name
                            /\ edges[u][v] >= nodesByID[u].links[name]
      BY <2>5, <3>1 DEF LeadInv
    <3>3. v \in Ids /\ v /= id BY AddedNode, NodeTypes
    <3>4. nodesByID'[u] = nodesByID[u] /\ nodesByID'[v] = nodesByID[v]
      BY <2>1, <2>5, <3>3, AddedNode
    <3>5. nodesByID[u].links[name] \in Nat BY <3>1, NodeTypes
    <3>6. edges'[u][v] >= nodesByID[u].links[name]
      <4>1. edges'[u][v] \in Nat BY <1>1, <2>1, <3>3 DEF TypeOK
      <4> QED BY <2>2, <3>2, <3>3, <3>5, <4>1
    <3> QED BY <2>1, <3>2, <3>4, <3>6
  <2> QED BY <2>3, <2>4, <2>5
<1>7. EdgeInv'
  <2>1. ASSUME NEW a \in Used', NEW b \in Used', OnlyOfItsName(b)'
        PROVE  NewEdges(id, gun, links, a, b) =
                 IF a = id \/ b = id THEN LinksTo(a, b)' ELSE 0
    <3>1. a \in Ids /\ b \in Ids /\ id \in Ids /\ id \in Used' /\ id /= 0
      BY AddedNode, NodeTypes, MaxNodesAssumption DEF Ids
    <3>2. \A w \in Used' : nodesByID'[w].gun = nodesByID'[b].gun => w = b
      BY <2>1 DEF OnlyOfItsName
    <3>3. CASE a = id /\ b = id
      <4>1. links[gun] \in Nat BY LinksAssumption
      <4>2. SeenEdges(id, links, a, b) = links[gun]
        BY <3>1, <3>3, AddedNode DEF SeenEdges, Used
      <4>3. LateEdges(id, gun, a, b) = 0
        BY <3>1, <3>3, AddedNode, AddedTypes DEF LateEdges, WaitInv
      <4> QED BY <3>3, <4>1, <4>2, <4>3, AddedNode DEF NewEdges, LinksTo
    <3>4. CASE a = id /\ b /= id
      <4>1. b \in Used /\ nodesByID'[b] = nodesByID[b]
        BY <3>1, <3>4, AddedNode
      <4>2. nodesByID[b].gun \in Names /\ nodesByID[b].gun /= gun
        BY <3>1, <3>2, <3>4, <4>1, AddedNode, NodeTypes
      <4>3. nodesByGUN'[nodesByID[b].gun] = b
        <5>1. nodesByGUN[nodesByID[b].gun] /= 0 BY <4>1, <4>2 DEF NameInv
        <5>2. nodesByGUN'[nodesByID[b].gun] /= 0 BY <4>2, <5>1, AddedNode
        <5> QED BY <1>2, <3>2, <4>1, <4>2, <5>2 DEF NameInv
      <4>4. links[nodesByID[b].gun] \in Nat BY <4>2, LinksAssumption
      <4>5. SeenEdges(id, links, a, b) = links[nodesByID[b].gun]
        BY <3>4, <4>1, <4>3 DEF SeenEdges, Used
      <4>6. LateEdges(id, gun, a, b) = 0 BY <3>4 DEF LateEdges
      <4> QED BY <3>4, <4>1, <4>4, <4>5, <4>6, AddedNode DEF NewEdges, LinksTo
    <3>5. CASE a /= id /\ b = id
      <4>1. a \in Used /\ nodesByID'[a] = nodesByID[a]
        BY <3>1, <3>5, AddedNode
      <4>2. nodesByGUN[gun] = 0
        <5>1. SUFFICES ASSUME nodesByGUN[gun] /= 0 PROVE FALSE
          OBVIOUS
        <5>2. PICK w \in Used : nodesByID[w].gun = gun BY <5>1 DEF NameInv
        <5>3. w \in Used' /\ w /= id /\ nodesByID'[w] = nodesByID[w]
          BY AddedNode, NodeTypes
        <5> QED BY <3>2, <3>5, <5>2, <5>3, AddedNode
      <4>3. unseenEdges[gun][a] = nodesByID[a].links[gun]
        BY <3>1, <4>1, <4>2 DEF WaitInv
      <4>4. nodesByID[a].links[gun] \in Nat BY <4>1, NodeTypes
      <4>5. LateEdges(id, gun, a, b) = nodesByID[a].links[gun]
        BY <3>1, <3>5, <4>3, <4>4, AddedTypes DEF LateEdges
      <4>6. SeenEdges(id, links, a, b) = 0 BY <3>5 DEF SeenEdges
      <4> QED BY <3>5, <4>1, <4>4, <4>5, <4>6, AddedNode DEF NewEdges, LinksTo
    <3>6. CASE a /= id /\ b /= id
      BY <3>6 DEF NewEdges, SeenEdges, LateEdges
    <3> QED BY <3>3, <3>4, <3>5, <3>6
  <2> SUFFICES ASSUME NEW u \in Used', NEW v \in Used', OnlyOfItsName(v)',
                      undirected' => OnlyOfItsName(u)'
               PROVE  edges'[u][v] = LinksTo(u, v)'
                        + (IF undirected' THEN LinksTo(v, u)' ELSE 0)
    BY DEF EdgeInv
  <2>2. u \in Ids /\ v \in Ids /\ undirected' = undirected
    BY NodeTypes DEF AddItem, Used
  <2>3. edges'[u][v] = edges[u][v] + AddedEdges(id, gun, links, u, v)
    BY <2>2, AddedTypes
  <2>4. CASE u = id \/ v = id
    <3>1. edges[u][v] = 0 BY <2>2, <2>4, AddedNode DEF EndsInv
    <3>2. NewEdges(id, gun, links, u, v) = LinksTo(u, v)' BY <2>1, <2>4
    <3>3. undirected => NewEdges(id, gun, links, v, u) = LinksTo(v, u)'
      BY <2>1, <2>2, <2>4
    <3>4. /\ NewEdges(id, gun, links, u, v) \in Nat
          /\ NewEdges(id, gun, links, v, u) \in Nat
      BY <2>2, AddedTypes DEF NewEdges
    <3> QED BY <2>2, <2>3, <3>1, <3>2, <3>3, <3>4 DEF AddedEdges
  <2>5. CASE u /= id /\ v /= id
    <3>1. u \in Used /\ v \in Used BY <2>5, AddedNode
    <3>2. /\ nodesByID'[u] = nodesByID[u] /\ nodesByID'[v] = nodesByID[v]
          /\ \A w \in Used : w \in Used' /\ nodesByID'[w] = nodesByID[w]
      BY <2>2, <2>5, AddedNode, NodeTypes
    <3>3. OnlyOfItsName(v) /\ (undirected => OnlyOfItsName(u))
      BY <2>2, <3>1, <3>2 DEF OnlyOfItsName
    <3>4. edges[u][v] = LinksTo(u, v) + (IF undirected THEN LinksTo(v, u) ELSE 0)
      BY <3>1, <3>3 DEF EdgeInv
    <3>5. NewEdges(id, gun, links, u, v) = 0 BY <2>1, <2>5
    <3>6. undirected => NewEdges(id, gun, links, v, u) = 0 BY <2>1, <2>2, <2>5
    <3>7. AddedEdges(id, gun, links, u, v) = 0 BY <3>5, <3>6 DEF AddedEdges
    <3>8. edges[u][v] \in Nat BY <2>2 DEF TypeOK
    <3>9. LinksTo(u, v)' = LinksTo(u, v) /\ LinksTo(v, u)' = LinksTo(v, u)
      BY <3>2 DEF LinksTo
    <3> QED BY <2>2, <2>3, <3>4, <3>7, <3>8, <3>9
  <2> QED BY <2>4, <2>5
<1> QED BY <1>1, <1>2, <1>3, <1>4, <1>5, <1>6, <1>7

LEMMA NextInv == Inv /\ [Next]_vars => Inv'
<1> SUFFICES ASSUME Inv, [Next]_vars PROVE Inv'
  OBVIOUS
<1>1. ASSUME NEW id \in Ids, NEW gun \in Names, NEW links \in Links,
             NewID(id), AddItem(id, gun, links)
      PROVE  Inv'
  BY <1>1, AddItemInv DEF NewID
<1>2. CASE UNCHANGED vars
  BY <1>2 DEF vars, Inv, TypeOK, NameInv, WaitInv, EndsInv, EdgeInv,
     EdgesAreBidirectional, LeadInv, Used, OnlyOfItsName, LinksTo
<1> QED BY <1>1, <1>2 DEF Next, Full

LEMMA Invariance == Spec => []Inv
BY InitInv, NextInv, PTL DEF Spec

---------------------------------------------------------------------------
\* The nodes, the maps and the counts of the graph keep their types.
THEOREM TypeCorrect == Spec => []TypeOK
<1>1. Inv => TypeOK BY DEF Inv
<1> QED BY <1>1, Invariance, PTL

\* Whatever the order in which items are added, the edges to a node that is
\* the only one of its name are the links to it, and the graph answers so.
THEOREM EdgesFollowLinks == Spec => []EdgesAreLinks
<1>1. ASSUME Inv, NEW u \in Used, NEW v \in Used, OnlyOfItsName(v)
      PROVE  /\ (undirected => OnlyOfItsName(u)) =>
                  From(u)[v] = LinksTo(u, v) + (IF undirected THEN LinksTo(v, u) ELSE 0)
             /\ OnlyOfItsName(u) =>
                  (HasEdgeBetween(u, v) <=> LinksTo(u, v) > 0 \/ LinksTo(v, u) > 0)
  <2>1. u \in Ids /\ v \in Ids BY DEF Used
  <2>2. From(u)[v] = edges[u][v] BY <2>1 DEF From
  <2>3. LinksTo(u, v) \in Nat /\ LinksTo(v, u) \in Nat
    BY <1>1, NodeTypes DEF Inv, LinksTo
  <2>4. OnlyOfItsName(u) =>
          /\ edges[u][v] = LinksTo(u, v) + (IF undirected THEN LinksTo(v, u) ELSE 0)
          /\ edges[v][u] = LinksTo(v, u) + (IF undirected THEN LinksTo(u, v) ELSE 0)
    BY <1>1 DEF Inv, EdgeInv
  <2>5. OnlyOfItsName(u) =>
          (HasEdgeBetween(u, v) <=> LinksTo(u, v) > 0 \/ LinksTo(v, u) > 0)
    BY <2>3, <2>4 DEF HasEdgeBetween, HasEdgeFromTo
  <2>6. (undirected => OnlyOfItsName(u)) =>
          From(u)[v] = LinksTo(u, v) + (IF undirected THEN LinksTo(v, u) ELSE 0)
    BY <1>1, <2>2 DEF Inv, EdgeInv
  <2> QED BY <2>5, <2>6
<1>2. Inv => EdgesAreLinks BY <1>1 DEF EdgesAreLinks
<1> QED BY <1>2, Invariance, PTL

\* An undirected graph has each edge in both directions, equally often.
THEOREM UndirectedIsSymmetric == Spec => []EdgesAreBidirectional
<1>1. Inv => EdgesAreBidirectional BY DEF Inv
<1> QED BY <1>1, Invariance, PTL

\* Every link to a name that some item has leads to a node of that name.
THEOREM LinksLead == Spec => []LinksLeadToTheirName
<1>1. \A u, v \in Used : From(u)[v] = edges[u][v] BY DEF From, Used
<1>2. Inv => LinksLeadToTheirName
  BY <1>1 DEF Inv, LeadInv, LinksLeadToTheirName
<1> QED BY <1>2, Invariance, PTL
============================================================================
