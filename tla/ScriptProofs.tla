----------------------------- MODULE ScriptProofs -----------------------------
(***************************************************************************)
(* What holds of every graph a build script declares (BuildScript): both   *)
(* ends of every edge agree, and a node waits for exactly the nodes of the *)
(* paths it names.  Then, of the scripts of src/templates                  *)
(* (TemplateScript): the shape of the graph they declare, that it has no   *)
(* cycle, what prepare finds dirty in it, and that the invariant of        *)
(* ScriptInv, from which their properties follow, is inductive.            *)
(***************************************************************************)
EXTENDS BuildScript, ScriptInv, BuildPrepareProofs

-----------------------------------------------------------------------------
(* How often something occurs in a sequence is a number. *)
LEMMA TimesType ==
  ASSUME NEW S, NEW s \in Seq(S), NEW y
  PROVE  /\ IsFiniteSet({i \in DOMAIN s : s[i] = y})
         /\ Times(s, y) \in Nat
<1>1. DOMAIN s = 1 .. Len(s) /\ Len(s) \in Nat
  BY LenProperties
<1>2. IsFiniteSet(1 .. Len(s))
  BY <1>1, FS_Interval
<1>3. {i \in DOMAIN s : s[i] = y} \subseteq 1 .. Len(s)
  BY <1>1
<1>4. IsFiniteSet({i \in DOMAIN s : s[i] = y})
  BY <1>2, <1>3, FS_Subset
<1> QED BY <1>4, FS_CardinalityType DEF Times

(* Appending counts for what is appended and for nothing else. *)
LEMMA TimesAppend ==
  ASSUME NEW S, NEW s \in Seq(S), NEW x \in S, NEW y
  PROVE  Times(Append(s, x), y) = Times(s, y) + (IF x = y THEN 1 ELSE 0)
<1> DEFINE At(q) == {i \in DOMAIN q : q[i] = y}
<1>1. /\ DOMAIN s = 1 .. Len(s) /\ Len(s) \in Nat
      /\ DOMAIN Append(s, x) = 1 .. Len(s) + 1
      /\ \A i \in 1 .. Len(s) : Append(s, x)[i] = s[i]
      /\ Append(s, x)[Len(s) + 1] = x
  BY LenProperties, AppendProperties
<1>2. IsFiniteSet(At(s)) /\ Times(s, y) \in Nat
  BY TimesType
<1>3. CASE x = y
  <2>1. At(Append(s, x)) = At(s) \cup {Len(s) + 1}
    BY <1>1, <1>3
  <2>2. Len(s) + 1 \notin At(s)
    BY <1>1
  <2>3. Cardinality(At(Append(s, x))) = Cardinality(At(s)) + 1
    BY <1>2, <2>1, <2>2, FS_AddElement
  <2> QED BY <1>3, <2>3 DEF Times
<1>4. CASE x # y
  <2>1. At(Append(s, x)) = At(s)
    BY <1>1, <1>4
  <2>2. Times(Append(s, x), y) = Times(s, y)
    BY <2>1 DEF Times
  <2> QED BY <1>2, <1>4, <2>2
<1> QED BY <1>3, <1>4

(* What is not among the elements occurs no time. *)
LEMMA TimesAbsent ==
  ASSUME NEW S, NEW s \in Seq(S), NEW y, y \notin S
  PROVE  Times(s, y) = 0
<1>1. {i \in DOMAIN s : s[i] = y} = {}
  BY ElementOfSeq, LenProperties
<1> QED BY <1>1, FS_EmptySet DEF Times

(* Nothing is in the empty sequence.                                         *)
LEMMA TimesEmpty == \A y : Times(<<>>, y) = 0
<1> SUFFICES ASSUME NEW y PROVE Times(<<>>, y) = 0
  OBVIOUS
<1>1. {i \in DOMAIN <<>> : <<>>[i] = y} = {}
  OBVIOUS
<1> QED BY <1>1, FS_EmptySet DEF Times
-----------------------------------------------------------------------------
(* get_or_put_node: the new node takes the next id, which no edge mentions,  *)
(* and a path that no node names.                                            *)
LEMMA GetOrPutEffect ==
  ASSUME NEW g, GraphClosed(g), NEW p, p \notin DOMAIN g.nodeMap
  PROVE  LET h == GetOrPut(g, p) IN
         /\ h = [size |-> g.size + 1, nodes |-> h.nodes, nodeMap |-> h.nodeMap]
         /\ Ids(h) = Ids(g) \cup {g.size} /\ g.size \notin Ids(g)
         /\ h.nodes = [i \in Ids(h) |-> h.nodes[i]]
         /\ \A i \in Ids(g) : h.nodes[i] = g.nodes[i]
         /\ h.nodes[g.size] = NewNode(p)
         /\ h.nodeMap = [q \in DOMAIN g.nodeMap \cup {p} |-> h.nodeMap[q]]
         /\ \A q \in DOMAIN g.nodeMap : h.nodeMap[q] = g.nodeMap[q]
         /\ h.nodeMap[p] = g.size
<1>1. g.size \in Nat /\ Ids(g) = 0 .. g.size - 1
  BY DEF GraphClosed, Ids
<1>2. 0 .. g.size = Ids(g) \cup {g.size} /\ g.size \notin Ids(g)
  BY <1>1
<1> QED BY <1>1, <1>2 DEF GetOrPut, AppendNode, Ids

(* get_or_put_node keeps the invariant: it adds a node that nobody knows yet,*)
(* or nothing.                                                               *)
LEMMA GetOrPutKeeps ==
  ASSUME NEW g, WellFormed(g), NEW p \in Path \cup {EmptyPath}
  PROVE  /\ WellFormed(GetOrPut(g, p))
         /\ p \in DOMAIN GetOrPut(g, p).nodeMap
         /\ Ids(g) \subseteq Ids(GetOrPut(g, p))
         /\ \A i \in Ids(g) : GetOrPut(g, p).nodes[i] = g.nodes[i]
<1>1. CASE p \in DOMAIN g.nodeMap
  BY <1>1 DEF GetOrPut
<1>2. CASE p \notin DOMAIN g.nodeMap
  <2> DEFINE h == GetOrPut(g, p)
             n == g.size
             K == DOMAIN g.nodeMap
  <2>0. /\ GraphClosed(g) /\ MapExact(g) /\ EdgesMirrored(g) /\ WaitsExact(g)
        /\ SourcesPlain(g)
    BY DEF WellFormed
  <2>1. /\ h = [size |-> n + 1, nodes |-> h.nodes, nodeMap |-> h.nodeMap]
        /\ Ids(h) = Ids(g) \cup {n} /\ n \notin Ids(g)
        /\ h.nodes = [i \in Ids(h) |-> h.nodes[i]]
        /\ \A i \in Ids(g) : h.nodes[i] = g.nodes[i]
        /\ h.nodes[n] = NewNode(p)
        /\ h.nodeMap = [q \in K \cup {p} |-> h.nodeMap[q]]
        /\ \A q \in K : h.nodeMap[q] = g.nodeMap[q]
        /\ h.nodeMap[p] = n
    BY <1>2, <2>0, GetOrPutEffect
  <2> HIDE DEF h
  <2>2. /\ n \in Nat /\ K \subseteq Path \cup {EmptyPath}
        /\ g.nodeMap \in [K -> Ids(g)]
        /\ \A i \in Ids(g) : g.nodes[i] \in NodeOver(Ids(g), K)
    BY <2>0 DEF GraphClosed
  <2>3. NewNode(p) \in NodeOver(Ids(h), DOMAIN h.nodeMap)
    BY <2>1 DEF NewNode, NodeOver
  <2>4. NodeOver(Ids(g), K) \subseteq NodeOver(Ids(h), DOMAIN h.nodeMap)
    BY <2>1, SeqMonotonic DEF NodeOver
  <2>5. GraphClosed(h)
    <3>1. h.nodeMap \in [DOMAIN h.nodeMap -> Ids(h)]
      BY <2>1, <2>2
    <3>2. h.nodes \in [Ids(h) -> NodeOver(Ids(h), DOMAIN h.nodeMap)]
      BY <2>1, <2>2, <2>3, <2>4
    <3>3. DOMAIN h.nodeMap = K \cup {p} /\ h.size = n + 1
      BY <2>1
    <3>4. h = [size |-> n + 1, nodes |-> h.nodes, nodeMap |-> h.nodeMap]
      BY <2>1
    <3>5. h \in [size    : Nat,
                 nodes   : [Ids(h) -> NodeOver(Ids(h), DOMAIN h.nodeMap)],
                 nodeMap : [DOMAIN h.nodeMap -> Ids(h)]]
      <4> DEFINE ns == h.nodes
                 nm == h.nodeMap
                 N  == [Ids(h) -> NodeOver(Ids(h), DOMAIN h.nodeMap)]
                 M  == [DOMAIN h.nodeMap -> Ids(h)]
      <4>1. n + 1 \in Nat /\ ns \in N /\ nm \in M
        BY <2>2, <3>1, <3>2
      <4>2. h = [size |-> n + 1, nodes |-> ns, nodeMap |-> nm]
        BY <3>4
      <4> HIDE DEF ns, nm, N, M, n
      <4>3. h \in [size : Nat, nodes : N, nodeMap : M]
        BY <4>1, <4>2
      <4> QED BY <4>3 DEF N, M
    <3> QED BY <2>2, <3>3, <3>5 DEF GraphClosed
  <2>6. /\ NewNode(p).output = p
        /\ NewNode(p).sources = <<>> /\ NewNode(p).deps = <<>>
        /\ NewNode(p).dependents = <<>> /\ NewNode(p).waitsOn = <<>>
    BY DEF NewNode
  <2>7. \A i \in Ids(g) :
           /\ g.nodes[i].output \in K
           /\ g.nodes[i].sources \in Seq(K) /\ g.nodes[i].deps \in Seq(K)
           /\ g.nodes[i].dependents \in Seq(Ids(g))
           /\ g.nodes[i].waitsOn \in Seq(Ids(g))
    BY <2>2 DEF NodeOver
  <2>8. MapExact(h)
    <3>1. ASSUME NEW q \in DOMAIN h.nodeMap PROVE h.nodes[h.nodeMap[q]].output = q
      <4>1. CASE q \in K
        <5>1. h.nodeMap[q] = g.nodeMap[q] /\ g.nodeMap[q] \in Ids(g)
          BY <2>1, <2>2, <4>1
        <5>2. g.nodes[g.nodeMap[q]].output = q
          BY <2>0, <4>1 DEF MapExact
        <5> QED BY <2>1, <5>1, <5>2
      <4>2. CASE q = p
        BY <2>1, <2>6, <4>2
      <4> QED BY <2>1, <3>1, <4>1, <4>2
    <3>2. ASSUME NEW i \in Ids(h)
          PROVE  /\ h.nodes[i].output \in DOMAIN h.nodeMap
                 /\ h.nodeMap[h.nodes[i].output] = i
      <4>1. CASE i \in Ids(g)
        <5>1. h.nodes[i].output = g.nodes[i].output /\ g.nodes[i].output \in K
          BY <2>1, <2>7, <4>1
        <5>2. g.nodeMap[g.nodes[i].output] = i
          BY <2>0, <4>1 DEF MapExact
        <5> QED BY <2>1, <5>1, <5>2
      <4>2. CASE i = n
        BY <2>1, <2>6, <4>2
      <4> QED BY <2>1, <3>2, <4>1, <4>2
    <3> QED BY <3>1, <3>2 DEF MapExact
  <2>9. EdgesMirrored(h)
    <3> SUFFICES ASSUME NEW d \in Ids(h), NEW t \in Ids(h)
                 PROVE  Times(h.nodes[d].dependents, t) = Times(h.nodes[t].waitsOn, d)
      BY DEF EdgesMirrored
    <3>1. CASE d \in Ids(g) /\ t \in Ids(g)
      BY <2>0, <2>1, <3>1 DEF EdgesMirrored
    <3>2. CASE d = n /\ t \in Ids(g)
      BY <2>1, <2>6, <2>7, <3>2, TimesAbsent, TimesEmpty
    <3>3. CASE d \in Ids(g) /\ t = n
      BY <2>1, <2>6, <2>7, <3>3, TimesAbsent, TimesEmpty
    <3>4. CASE d = n /\ t = n
      BY <2>1, <2>6, <3>4, TimesEmpty
    <3> QED BY <2>1, <3>1, <3>2, <3>3, <3>4
  <2>10. WaitsExact(h)
    <3> SUFFICES ASSUME NEW t \in Ids(h), NEW d \in Ids(h)
                 PROVE  Times(h.nodes[t].waitsOn, d) =
                          Times(h.nodes[t].sources, h.nodes[d].output) +
                          Times(h.nodes[t].deps, h.nodes[d].output)
      BY DEF WaitsExact
    <3>1. CASE d \in Ids(g) /\ t \in Ids(g)
      BY <2>0, <2>1, <3>1 DEF WaitsExact
    <3>2. CASE d = n /\ t \in Ids(g)
      BY <1>2, <2>1, <2>6, <2>7, <3>2, TimesAbsent
    <3>3. CASE t = n
      BY <2>1, <2>6, <3>3, TimesEmpty
    <3> QED BY <2>1, <3>1, <3>2, <3>3
  <2>11. SourcesPlain(h)
    BY <2>0, <2>1 DEF SourcesPlain, NewNode
  <2> QED BY <2>1, <2>5, <2>8, <2>9, <2>10, <2>11 DEF WellFormed, h
<1> QED BY <1>1, <1>2
-----------------------------------------------------------------------------
(* Changing one field of a node keeps it a node of its graph, and changing   *)
(* one node keeps the graph closed.                                          *)
LEMMA NodeFields ==
  ASSUME NEW I, NEW K, NEW n \in NodeOver(I, K)
  PROVE  /\ \A v \in Seq(K) : [n EXCEPT !.sources = v] \in NodeOver(I, K)
         /\ \A v \in Seq(K) : [n EXCEPT !.deps = v] \in NodeOver(I, K)
         /\ \A v \in Seq(I) : [n EXCEPT !.dependents = v] \in NodeOver(I, K)
         /\ \A v \in Seq(I) : [n EXCEPT !.waitsOn = v] \in NodeOver(I, K)
         /\ \A b \in BOOLEAN :
              /\ [n EXCEPT !.builder = b] \in NodeOver(I, K)
              /\ [n EXCEPT !.target = b] \in NodeOver(I, K)
              /\ [n EXCEPT !.phony = b] \in NodeOver(I, K)
              /\ [n EXCEPT !.always = b] \in NodeOver(I, K)
BY DEF NodeOver

(* A node that is replaced.                                                  *)
LEMMA SetNode ==
  ASSUME NEW g, GraphClosed(g), NEW i \in Ids(g),
         NEW m \in NodeOver(Ids(g), DOMAIN g.nodeMap)
  PROVE  LET h == [g EXCEPT !.nodes = [g.nodes EXCEPT ![i] = m]] IN
         /\ GraphClosed(h)
         /\ Ids(h) = Ids(g) /\ h.nodeMap = g.nodeMap
         /\ h.nodes[i] = m
         /\ \A j \in Ids(g) : j # i => h.nodes[j] = g.nodes[j]
<1> DEFINE N == NodeOver(Ids(g), DOMAIN g.nodeMap)
           h == [g EXCEPT !.nodes = [g.nodes EXCEPT ![i] = m]]
<1>1. /\ g \in [size : Nat, nodes : [Ids(g) -> N],
                nodeMap : [DOMAIN g.nodeMap -> Ids(g)]]
      /\ DOMAIN g.nodeMap \subseteq Path \cup {EmptyPath}
  BY DEF GraphClosed
<1> HIDE DEF N
<1>2. /\ h.size = g.size /\ h.nodeMap = g.nodeMap
      /\ h.nodes = [g.nodes EXCEPT ![i] = m]
  BY <1>1
<1>3. Ids(h) = Ids(g)
  BY <1>2 DEF Ids
<1>4. [g.nodes EXCEPT ![i] = m] \in [Ids(g) -> N]
  BY <1>1 DEF N
<1>5. h \in [size : Nat, nodes : [Ids(g) -> N],
             nodeMap : [DOMAIN g.nodeMap -> Ids(g)]]
  BY <1>1, <1>4
<1>6. GraphClosed(h)
  <2> HIDE DEF h
  <2> QED BY <1>1, <1>2, <1>3, <1>5 DEF GraphClosed, N
<1> QED BY <1>1, <1>2, <1>3, <1>6
(* get_or_put_node does not look at what was just written to a node.         *)
LEMMA PutAfterSet ==
  ASSUME NEW g, GraphClosed(g), NEW t \in Ids(g), NEW m, NEW p
  PROVE  GetOrPut([g EXCEPT !.nodes = [g.nodes EXCEPT ![t] = m]], p) =
           [GetOrPut(g, p) EXCEPT !.nodes = [GetOrPut(g, p).nodes EXCEPT ![t] = m]]
<1> DEFINE e == [g EXCEPT !.nodes = [g.nodes EXCEPT ![t] = m]]
           h == GetOrPut(g, p)
<1>0. /\ g = [size |-> g.size, nodes |-> g.nodes, nodeMap |-> g.nodeMap]
      /\ g.size \in Nat /\ t \in 0 .. g.size - 1
      /\ g.nodes = [i \in 0 .. g.size - 1 |-> g.nodes[i]]
  BY DEF GraphClosed, Ids
<1>1. /\ e.size = g.size /\ e.nodeMap = g.nodeMap
      /\ e.nodes = [g.nodes EXCEPT ![t] = m]
  BY <1>0
<1>2. CASE p \in DOMAIN g.nodeMap
  BY <1>1, <1>2 DEF GetOrPut
<1>3. CASE p \notin DOMAIN g.nodeMap
  <2>1. /\ GetOrPut(e, p) = AppendNode(e, p, e.size)
        /\ GetOrPut(g, p) = AppendNode(g, p, g.size)
    BY <1>1, <1>3 DEF GetOrPut
  <2> DEFINE old == [i \in 0 .. g.size |-> IF i = g.size THEN NewNode(p) ELSE g.nodes[i]]
             new == [i \in 0 .. g.size |->
                       IF i = g.size THEN NewNode(p)
                       ELSE [g.nodes EXCEPT ![t] = m][i]]
             map == [q \in DOMAIN g.nodeMap \cup {p} |->
                       IF q = p THEN g.size ELSE g.nodeMap[q]]
  <2>2. AppendNode(g, p, g.size) =
          [size |-> g.size + 1, nodes |-> old, nodeMap |-> map]
    BY DEF AppendNode
  <2>3. AppendNode(e, p, e.size) =
          [size |-> g.size + 1, nodes |-> new, nodeMap |-> map]
    <3> HIDE DEF e
    <3> QED BY <1>1 DEF AppendNode
  <2>4. new = [old EXCEPT ![t] = m]
    <3>1. t \in 0 .. g.size /\ t # g.size
      BY <1>0
    <3>2. ASSUME NEW i \in 0 .. g.size
          PROVE  new[i] = [old EXCEPT ![t] = m][i]
      <4>1. DOMAIN g.nodes = 0 .. g.size - 1 /\ (i # g.size => i \in DOMAIN g.nodes)
        BY <1>0, <3>2
      <4>2. CASE i = g.size
        BY <3>1, <3>2, <4>2
      <4>3. CASE i # g.size
        <5>1. [g.nodes EXCEPT ![t] = m][i] = IF i = t THEN m ELSE g.nodes[i]
          BY <4>1, <4>3
        <5> QED BY <3>2, <4>3, <5>1
      <4> QED BY <4>2, <4>3
    <3> QED BY <3>2
  <2>5. GetOrPut(e, p) = [h EXCEPT !.nodes = [h.nodes EXCEPT ![t] = m]]
    <3> HIDE DEF old, new, map, e
    <3> QED BY <2>1, <2>2, <2>3, <2>4
  <2> QED BY <2>5
<1> QED BY <1>2, <1>3

(* An edge from d to t, after t became m: what the code does to the graph    *)
(* once both nodes are there.                                                *)
WithEdge(h, t, d, m) ==
  LET e == [h EXCEPT !.nodes = [h.nodes EXCEPT ![t] = m]]
  IN  [e EXCEPT !.nodes[d].dependents = Append(@, t),
                !.nodes[t].waitsOn = Append(@, d)]

SameFlags(m, n) ==
  /\ m.target = n.target /\ m.builder = n.builder
  /\ m.phony = n.phony /\ m.always = n.always

(* What the edge adds, and what it leaves.                                   *)
Linked(h, t, d, m, r) ==
  /\ GraphClosed(r)
  /\ Ids(r) = Ids(h) /\ r.nodeMap = h.nodeMap
  /\ r.nodes[t].sources = m.sources /\ r.nodes[t].deps = m.deps
  /\ SameFlags(r.nodes[t], m)
  /\ \A i \in Ids(h) :
       /\ r.nodes[i].output = h.nodes[i].output
       /\ i # t => /\ r.nodes[i].sources = h.nodes[i].sources
                   /\ r.nodes[i].deps = h.nodes[i].deps
                   /\ SameFlags(r.nodes[i], h.nodes[i])
       /\ r.nodes[i].dependents =
            IF i = d THEN Append(h.nodes[i].dependents, t)
            ELSE h.nodes[i].dependents
       /\ r.nodes[i].waitsOn =
            IF i = t THEN Append(h.nodes[i].waitsOn, d)
            ELSE h.nodes[i].waitsOn

(* What an edge from node d to node t does to a graph whose edges agree. *)
LEMMA LinkEffect ==
  ASSUME NEW h, GraphClosed(h), NEW t \in Ids(h), NEW d \in Ids(h),
         NEW m \in NodeOver(Ids(h), DOMAIN h.nodeMap),
         m.dependents = h.nodes[t].dependents,
         m.waitsOn = h.nodes[t].waitsOn,
         m.output = h.nodes[t].output
  PROVE  Linked(h, t, d, m, WithEdge(h, t, d, m))
<1> DEFINE I  == Ids(h)
           K  == DOMAIN h.nodeMap
           e  == [h EXCEPT !.nodes = [h.nodes EXCEPT ![t] = m]]
           md == [e.nodes[d] EXCEPT !.dependents = Append(@, t)]
           f  == [e EXCEPT !.nodes = [e.nodes EXCEPT ![d] = md]]
           mt == [f.nodes[t] EXCEPT !.waitsOn = Append(@, d)]
           r  == [f EXCEPT !.nodes = [f.nodes EXCEPT ![t] = mt]]
<1>1. /\ GraphClosed(e) /\ Ids(e) = I /\ e.nodeMap = h.nodeMap
      /\ e.nodes[t] = m
      /\ \A j \in I : j # t => e.nodes[j] = h.nodes[j]
  BY SetNode
<1> HIDE DEF e
<1>2. e.nodes[d] \in NodeOver(I, K)
  BY <1>1 DEF GraphClosed
<1>3. md \in NodeOver(I, K)
  <2>1. Append(e.nodes[d].dependents, t) \in Seq(I)
    BY <1>2, AppendProperties DEF NodeOver
  <2> QED BY <1>2, <2>1, NodeFields
<1>4. /\ GraphClosed(f) /\ Ids(f) = I /\ f.nodeMap = h.nodeMap
      /\ f.nodes[d] = md
      /\ \A j \in I : j # d => f.nodes[j] = e.nodes[j]
  <2> HIDE DEF md
  <2> QED BY <1>1, <1>3, SetNode
<1>5. /\ md.output = e.nodes[d].output /\ md.sources = e.nodes[d].sources
      /\ md.deps = e.nodes[d].deps /\ md.waitsOn = e.nodes[d].waitsOn
      /\ md.dependents = Append(e.nodes[d].dependents, t)
      /\ SameFlags(md, e.nodes[d])
  BY <1>2 DEF NodeOver, SameFlags
<1> HIDE DEF f, md
<1>6. f.nodes[t] \in NodeOver(I, K)
  BY <1>4 DEF GraphClosed
<1>7. mt \in NodeOver(I, K)
  <2>1. Append(f.nodes[t].waitsOn, d) \in Seq(I)
    BY <1>6, AppendProperties DEF NodeOver
  <2> QED BY <1>6, <2>1, NodeFields
<1>8. /\ GraphClosed(r) /\ Ids(r) = I /\ r.nodeMap = h.nodeMap
      /\ r.nodes[t] = mt
      /\ \A j \in I : j # t => r.nodes[j] = f.nodes[j]
  <2> HIDE DEF mt
  <2> QED BY <1>4, <1>7, SetNode
<1>9. /\ mt.output = f.nodes[t].output /\ mt.sources = f.nodes[t].sources
      /\ mt.deps = f.nodes[t].deps /\ mt.dependents = f.nodes[t].dependents
      /\ mt.waitsOn = Append(f.nodes[t].waitsOn, d)
      /\ SameFlags(mt, f.nodes[t])
  BY <1>6 DEF NodeOver, SameFlags
<1>10. WithEdge(h, t, d, m) = r
  BY DEF WithEdge, r, mt, f, md, e
<1> HIDE DEF r, mt
<1>11. /\ r.nodes[t].sources = m.sources /\ r.nodes[t].deps = m.deps
       /\ SameFlags(r.nodes[t], m)
  BY <1>1, <1>4, <1>5, <1>8, <1>9 DEF SameFlags
<1>12. ASSUME NEW i \in I
       PROVE  /\ r.nodes[i].output = h.nodes[i].output
              /\ i # t => /\ r.nodes[i].sources = h.nodes[i].sources
                          /\ r.nodes[i].deps = h.nodes[i].deps
              /\ r.nodes[i].dependents =
                   IF i = d THEN Append(h.nodes[i].dependents, t)
                   ELSE h.nodes[i].dependents
              /\ r.nodes[i].waitsOn =
                   IF i = t THEN Append(h.nodes[i].waitsOn, d)
                   ELSE h.nodes[i].waitsOn
  <2>1. CASE i = t /\ i = d
    BY <1>1, <1>4, <1>5, <1>8, <1>9, <2>1
  <2>2. CASE i = t /\ i # d
    BY <1>1, <1>4, <1>5, <1>8, <1>9, <2>2
  <2>3. CASE i # t /\ i = d
    BY <1>1, <1>4, <1>5, <1>8, <1>9, <2>3
  <2>4. CASE i # t /\ i # d
    BY <1>1, <1>4, <1>5, <1>8, <1>9, <1>12, <2>4
  <2> QED BY <2>1, <2>2, <2>3, <2>4
<1>13. ASSUME NEW i \in I, i # t PROVE SameFlags(r.nodes[i], h.nodes[i])
  BY <1>1, <1>4, <1>5, <1>8, <1>13 DEF SameFlags
<1> QED BY <1>8, <1>10, <1>11, <1>12, <1>13 DEF Linked

(* A node that names one more path and gets the edge for it: one dependent   *)
(* more at one end, one input more at the other, and one name more.          *)
LEMMA LinkKeeps ==
  ASSUME NEW h, WellFormed(h), NEW t \in Ids(h), NEW p \in DOMAIN h.nodeMap,
         NEW m \in NodeOver(Ids(h), DOMAIN h.nodeMap),
         m.dependents = h.nodes[t].dependents,
         m.waitsOn = h.nodes[t].waitsOn,
         m.output = h.nodes[t].output, m.target,
         \A q : Times(m.sources, q) + Times(m.deps, q) =
                  Times(h.nodes[t].sources, q) + Times(h.nodes[t].deps, q) +
                  (IF q = p THEN 1 ELSE 0)
  PROVE  WellFormed(WithEdge(h, t, h.nodeMap[p], m))
<1> DEFINE d == h.nodeMap[p]
           r == WithEdge(h, t, d, m)
<1>0. /\ GraphClosed(h) /\ MapExact(h) /\ EdgesMirrored(h) /\ WaitsExact(h)
      /\ SourcesPlain(h)
  BY DEF WellFormed
<1>1. d \in Ids(h)
  BY <1>0 DEF GraphClosed
<1>2. Linked(h, t, d, m, r)
  <2> HIDE DEF d
  <2> QED BY <1>0, <1>1, LinkEffect
<1> HIDE DEF r
<1> USE DEF Linked
<1>3. \A i \in Ids(h) :
        /\ h.nodes[i].sources \in Seq(DOMAIN h.nodeMap)
        /\ h.nodes[i].deps \in Seq(DOMAIN h.nodeMap)
        /\ h.nodes[i].dependents \in Seq(Ids(h))
        /\ h.nodes[i].waitsOn \in Seq(Ids(h))
        /\ h.nodes[i].output \in DOMAIN h.nodeMap
  BY <1>0 DEF GraphClosed, NodeOver
<1>4. \A i \in Ids(h) : h.nodes[i].output = p <=> i = d
  BY <1>0, <1>3 DEF MapExact
<1>5. MapExact(r)
  BY <1>0, <1>2 DEF MapExact, GraphClosed
<1>6. ASSUME NEW a \in Ids(h), NEW b \in Ids(h)
      PROVE  /\ Times(r.nodes[a].dependents, b) =
                  Times(h.nodes[a].dependents, b) +
                  (IF a = d /\ b = t THEN 1 ELSE 0)
             /\ Times(r.nodes[b].waitsOn, a) =
                  Times(h.nodes[b].waitsOn, a) +
                  (IF a = d /\ b = t THEN 1 ELSE 0)
             /\ Times(h.nodes[a].dependents, b) \in Nat
             /\ Times(h.nodes[b].waitsOn, a) \in Nat
  <2> HIDE DEF d
  <2>1. Times(h.nodes[a].dependents, b) \in Nat /\ Times(h.nodes[b].waitsOn, a) \in Nat
    BY <1>3, TimesType
  <2>2. Times(Append(h.nodes[a].dependents, t), b) =
          Times(h.nodes[a].dependents, b) + (IF t = b THEN 1 ELSE 0)
    BY <1>3, TimesAppend
  <2>3. Times(Append(h.nodes[b].waitsOn, d), a) =
          Times(h.nodes[b].waitsOn, a) + (IF d = a THEN 1 ELSE 0)
    BY <1>1, <1>3, TimesAppend
  <2> QED BY <1>2, <2>1, <2>2, <2>3
<1>7. EdgesMirrored(r)
  BY <1>0, <1>2, <1>6 DEF EdgesMirrored
<1>8. WaitsExact(r)
  <2> SUFFICES ASSUME NEW a \in Ids(h), NEW b \in Ids(h)
               PROVE  Times(r.nodes[b].waitsOn, a) =
                        Times(r.nodes[b].sources, r.nodes[a].output) +
                        Times(r.nodes[b].deps, r.nodes[a].output)
    BY <1>2 DEF WaitsExact
  <2> DEFINE q == h.nodes[a].output
  <2>1. Times(h.nodes[b].waitsOn, a) =
          Times(h.nodes[b].sources, q) + Times(h.nodes[b].deps, q)
    BY <1>0 DEF WaitsExact
  <2>2. r.nodes[a].output = q /\ (q = p <=> a = d)
    BY <1>2, <1>4
  <2>3. Times(h.nodes[b].sources, q) \in Nat /\ Times(h.nodes[b].deps, q) \in Nat
    BY <1>3, TimesType
  <2> HIDE DEF q, d
  <2>4. CASE b = t
    BY <1>2, <1>6, <2>1, <2>2, <2>3, <2>4
  <2>5. CASE b # t
    BY <1>2, <1>6, <2>1, <2>2, <2>3, <2>5
  <2> QED BY <2>4, <2>5
<1>9. SourcesPlain(r)
  <2> SUFFICES ASSUME NEW i \in Ids(h)
               PROVE  LET n == r.nodes[i] IN
                      n.target \/ (n.waitsOn = <<>> /\ ~n.builder /\ ~n.phony /\ ~n.always)
    BY <1>2 DEF SourcesPlain
  <2>1. CASE i = t
    BY <1>2, <2>1 DEF SameFlags
  <2>2. CASE i # t
    <3>1. r.nodes[i].waitsOn = h.nodes[i].waitsOn /\ SameFlags(r.nodes[i], h.nodes[i])
      BY <1>2, <2>2
    <3> QED BY <1>0, <3>1 DEF SourcesPlain, SameFlags
  <2> QED BY <2>1, <2>2
<1> QED BY <1>2, <1>5, <1>7, <1>8, <1>9 DEF WellFormed, r, d

-----------------------------------------------------------------------------
(* An edge made for a name that was just written to a node, whether or not   *)
(* the named node is already there.                                          *)
LEMMA EdgeKeeps ==
  ASSUME NEW g, WellFormed(g), NEW t \in Ids(g), NEW p \in Path \cup {EmptyPath},
         NEW m \in NodeOver(Ids(g), DOMAIN g.nodeMap \cup {p}),
         m.dependents = g.nodes[t].dependents,
         m.waitsOn = g.nodes[t].waitsOn,
         m.output = g.nodes[t].output, m.target,
         \A q : Times(m.sources, q) + Times(m.deps, q) =
                  Times(g.nodes[t].sources, q) + Times(g.nodes[t].deps, q) +
                  (IF q = p THEN 1 ELSE 0)
  PROVE  LET h == GetOrPut(g, p)
             r == AddEdge([g EXCEPT !.nodes = [g.nodes EXCEPT ![t] = m]], t, p)
         IN  WellFormed(r) /\ Linked(h, t, h.nodeMap[p], m, r)
<1> DEFINE h == GetOrPut(g, p)
           e == [g EXCEPT !.nodes = [g.nodes EXCEPT ![t] = m]]
<1>1. /\ WellFormed(h) /\ p \in DOMAIN h.nodeMap
      /\ Ids(g) \subseteq Ids(h) /\ h.nodes[t] = g.nodes[t]
  BY GetOrPutKeeps
<1>2. GetOrPut(e, p) = [h EXCEPT !.nodes = [h.nodes EXCEPT ![t] = m]]
  BY PutAfterSet DEF WellFormed
<1> HIDE DEF h, e
<1>3. m \in NodeOver(Ids(h), DOMAIN h.nodeMap)
  <2>1. DOMAIN g.nodeMap \cup {p} \subseteq DOMAIN h.nodeMap
    <3>1. DOMAIN g.nodeMap \subseteq DOMAIN h.nodeMap
      BY DEF h, GetOrPut, AppendNode
    <3> QED BY <1>1, <3>1
  <2> QED BY <1>1, <2>1, SeqMonotonic DEF NodeOver
<1>4. [h EXCEPT !.nodes = [h.nodes EXCEPT ![t] = m]].nodeMap = h.nodeMap
  BY <1>1 DEF WellFormed, GraphClosed
<1>5. AddEdge(e, t, p) = WithEdge(h, t, h.nodeMap[p], m)
  BY <1>2, <1>4 DEF AddEdge, WithEdge
<1>6. WellFormed(WithEdge(h, t, h.nodeMap[p], m))
  BY <1>1, <1>3, LinkKeeps
<1>7. Linked(h, t, h.nodeMap[p], m, WithEdge(h, t, h.nodeMap[p], m))
  <2>1. h.nodeMap[p] \in Ids(h) /\ t \in Ids(h) /\ GraphClosed(h)
    BY <1>1 DEF WellFormed, GraphClosed
  <2> QED BY <1>1, <1>3, <2>1, LinkEffect
<1> QED BY <1>5, <1>6, <1>7 DEF e, h

(* zmm_tg_add_src.                                                           *)
LEMMA AddSrcKeeps ==
  ASSUME NEW g, WellFormed(g), NEW t \in Ids(g), g.nodes[t].target,
         NEW p \in Path \cup {EmptyPath}
  PROVE  /\ WellFormed(AddSrc(g, t, p))
         /\ p # EmptyPath =>
              LET h == GetOrPut(g, p)
                  m == [g.nodes[t] EXCEPT !.sources = Append(@, p)]
              IN  Linked(h, t, h.nodeMap[p], m, AddSrc(g, t, p))
<1> DEFINE n == g.nodes[t]
           m == [n EXCEPT !.sources = Append(@, p)]
           K == DOMAIN g.nodeMap \cup {p}
<1>1. /\ n \in NodeOver(Ids(g), K)
      /\ n.sources \in Seq(K) /\ n.deps \in Seq(K)
  <2>1. n \in NodeOver(Ids(g), DOMAIN g.nodeMap)
    BY DEF WellFormed, GraphClosed
  <2> QED BY <2>1, SeqMonotonic DEF NodeOver
<1>2. m \in NodeOver(Ids(g), K)
  BY <1>1, AppendProperties, NodeFields
<1>3. /\ m.dependents = n.dependents /\ m.waitsOn = n.waitsOn
      /\ m.output = n.output /\ m.deps = n.deps /\ m.target
      /\ m.sources = Append(n.sources, p)
  BY <1>1 DEF NodeOver
<1>4. ASSUME NEW q
      PROVE  Times(m.sources, q) + Times(m.deps, q) =
               Times(n.sources, q) + Times(n.deps, q) + (IF q = p THEN 1 ELSE 0)
  <2>1. Times(n.sources, q) \in Nat /\ Times(n.deps, q) \in Nat
    BY <1>1, TimesType
  <2>2. Times(Append(n.sources, p), q) =
          Times(n.sources, q) + (IF p = q THEN 1 ELSE 0)
    BY <1>1, TimesAppend
  <2> HIDE DEF m, n
  <2> QED BY <1>3, <2>1, <2>2
<1>5. LET h == GetOrPut(g, p)
          r == AddEdge([g EXCEPT !.nodes = [g.nodes EXCEPT ![t] = m]], t, p)
      IN  WellFormed(r) /\ Linked(h, t, h.nodeMap[p], m, r)
  <2> HIDE DEF m
  <2> QED BY <1>2, <1>3, <1>4, EdgeKeeps
<1>6. [g EXCEPT !.nodes[t].sources = Append(@, p)]
        = [g EXCEPT !.nodes = [g.nodes EXCEPT ![t] = m]]
  OBVIOUS
<1> QED BY <1>5, <1>6 DEF AddSrc

(* zmm_tg_add_dep.                                                           *)
LEMMA AddDepKeeps ==
  ASSUME NEW g, WellFormed(g), NEW t \in Ids(g), g.nodes[t].target,
         NEW p \in Path \cup {EmptyPath}
  PROVE  /\ WellFormed(AddDep(g, t, p))
         /\ p # EmptyPath =>
              LET h == GetOrPut(g, p)
                  m == [g.nodes[t] EXCEPT !.deps = Append(@, p)]
              IN  Linked(h, t, h.nodeMap[p], m, AddDep(g, t, p))
<1> DEFINE n == g.nodes[t]
           m == [n EXCEPT !.deps = Append(@, p)]
           K == DOMAIN g.nodeMap \cup {p}
<1>1. /\ n \in NodeOver(Ids(g), K)
      /\ n.sources \in Seq(K) /\ n.deps \in Seq(K)
  <2>1. n \in NodeOver(Ids(g), DOMAIN g.nodeMap)
    BY DEF WellFormed, GraphClosed
  <2> QED BY <2>1, SeqMonotonic DEF NodeOver
<1>2. m \in NodeOver(Ids(g), K)
  BY <1>1, AppendProperties, NodeFields
<1>3. /\ m.dependents = n.dependents /\ m.waitsOn = n.waitsOn
      /\ m.output = n.output /\ m.sources = n.sources /\ m.target
      /\ m.deps = Append(n.deps, p)
  BY <1>1 DEF NodeOver
<1>4. ASSUME NEW q
      PROVE  Times(m.sources, q) + Times(m.deps, q) =
               Times(n.sources, q) + Times(n.deps, q) + (IF q = p THEN 1 ELSE 0)
  <2>1. Times(n.sources, q) \in Nat /\ Times(n.deps, q) \in Nat
    BY <1>1, TimesType
  <2>2. Times(Append(n.deps, p), q) =
          Times(n.deps, q) + (IF p = q THEN 1 ELSE 0)
    BY <1>1, TimesAppend
  <2> HIDE DEF m, n
  <2> QED BY <1>3, <2>1, <2>2
<1>5. LET h == GetOrPut(g, p)
          r == AddEdge([g EXCEPT !.nodes = [g.nodes EXCEPT ![t] = m]], t, p)
      IN  WellFormed(r) /\ Linked(h, t, h.nodeMap[p], m, r)
  <2> HIDE DEF m
  <2> QED BY <1>2, <1>3, <1>4, EdgeKeeps
<1>6. [g EXCEPT !.nodes[t].deps = Append(@, p)]
        = [g EXCEPT !.nodes = [g.nodes EXCEPT ![t] = m]]
  OBVIOUS
<1> QED BY <1>5, <1>6 DEF AddDep

(* Of the flags of a node that is a target the invariant only sees that.     *)
LEMMA FlagKeeps ==
  ASSUME NEW g, WellFormed(g), NEW i \in Ids(g),
         NEW m \in NodeOver(Ids(g), DOMAIN g.nodeMap),
         m.output = g.nodes[i].output, m.target,
         m.sources = g.nodes[i].sources, m.deps = g.nodes[i].deps,
         m.dependents = g.nodes[i].dependents, m.waitsOn = g.nodes[i].waitsOn
  PROVE  WellFormed([g EXCEPT !.nodes = [g.nodes EXCEPT ![i] = m]])
<1> DEFINE h == [g EXCEPT !.nodes = [g.nodes EXCEPT ![i] = m]]
<1>1. /\ GraphClosed(g) /\ MapExact(g) /\ EdgesMirrored(g) /\ WaitsExact(g)
      /\ SourcesPlain(g)
  BY DEF WellFormed
<1>2. /\ GraphClosed(h) /\ Ids(h) = Ids(g) /\ h.nodeMap = g.nodeMap
      /\ h.nodes[i] = m
      /\ \A j \in Ids(g) : j # i => h.nodes[j] = g.nodes[j]
  BY <1>1, SetNode
<1> HIDE DEF h
<1>3. \A j \in Ids(g) :
        /\ h.nodes[j].output = g.nodes[j].output
        /\ h.nodes[j].sources = g.nodes[j].sources
        /\ h.nodes[j].deps = g.nodes[j].deps
        /\ h.nodes[j].dependents = g.nodes[j].dependents
        /\ h.nodes[j].waitsOn = g.nodes[j].waitsOn
  BY <1>2
<1>4. MapExact(h)
  <2>1. \A p \in DOMAIN g.nodeMap : g.nodeMap[p] \in Ids(g)
    BY <1>1 DEF GraphClosed
  <2>2. \A j \in Ids(g) : h.nodes[j].output = g.nodes[j].output
    BY <1>3
  <2> QED BY <1>1, <1>2, <2>1, <2>2 DEF MapExact
<1>5. EdgesMirrored(h)
  BY <1>1, <1>2, <1>3 DEF EdgesMirrored
<1>6. WaitsExact(h)
  BY <1>1, <1>2, <1>3 DEF WaitsExact
<1>7. SourcesPlain(h)
  BY <1>1, <1>2 DEF SourcesPlain
<1> QED BY <1>2, <1>4, <1>5, <1>6, <1>7 DEF WellFormed, h

(* zmm_tg_init, with or without a builder.                                   *)
LEMMA TgInitKeeps ==
  ASSUME NEW g, WellFormed(g), NEW p \in Path \cup {EmptyPath}, NEW b \in BOOLEAN
  PROVE  WellFormed(TgInit(g, p, b))
<1> DEFINE h == GetOrPut(g, p)
           t == h.nodeMap[p]
           n == h.nodes[t]
           m == [[n EXCEPT !.target = TRUE] EXCEPT !.builder = b]
<1>1. WellFormed(h) /\ p \in DOMAIN h.nodeMap
  BY GetOrPutKeeps
<1> HIDE DEF h
<1>2. t \in Ids(h)
  BY <1>1 DEF WellFormed, GraphClosed
<1>3. n \in NodeOver(Ids(h), DOMAIN h.nodeMap)
  BY <1>1, <1>2 DEF WellFormed, GraphClosed
<1>4. m \in NodeOver(Ids(h), DOMAIN h.nodeMap)
  BY <1>3, NodeFields
<1>5. /\ m.output = n.output /\ m.sources = n.sources /\ m.deps = n.deps
      /\ m.dependents = n.dependents /\ m.waitsOn = n.waitsOn /\ m.target
  BY <1>3 DEF NodeOver
<1>6. TgInit(g, p, b) = [h EXCEPT !.nodes = [h.nodes EXCEPT ![t] = m]]
  BY <1>1, <1>2 DEF TgInit, h, WellFormed, GraphClosed
<1> HIDE DEF m
<1>7. WellFormed([h EXCEPT !.nodes = [h.nodes EXCEPT ![t] = m]])
  <2> HIDE DEF t
  <2> QED BY <1>1, <1>2, <1>4, <1>5, FlagKeeps
<1> QED BY <1>6, <1>7

(* The two flag setters.                                                     *)
LEMMA SetFlagKeeps ==
  ASSUME NEW g, WellFormed(g), NEW t \in Ids(g), g.nodes[t].target
  PROVE  WellFormed(SetPhony(g, t)) /\ WellFormed(SetAlwaysDirty(g, t))
<1> DEFINE n == g.nodes[t]
           K == DOMAIN g.nodeMap
<1>1. n \in NodeOver(Ids(g), K)
  BY DEF WellFormed, GraphClosed
<1>2. ASSUME NEW m \in NodeOver(Ids(g), K),
             m = [n EXCEPT !.phony = TRUE] \/ m = [n EXCEPT !.always = TRUE]
      PROVE  WellFormed([g EXCEPT !.nodes = [g.nodes EXCEPT ![t] = m]])
  <2>1. /\ m.output = n.output /\ m.sources = n.sources /\ m.deps = n.deps
        /\ m.dependents = n.dependents /\ m.waitsOn = n.waitsOn /\ m.target
    BY <1>1, <1>2 DEF NodeOver
  <2> QED BY <2>1, FlagKeeps
<1>3. /\ [n EXCEPT !.phony = TRUE] \in NodeOver(Ids(g), K)
      /\ [n EXCEPT !.always = TRUE] \in NodeOver(Ids(g), K)
  BY <1>1, NodeFields
<1> QED BY <1>2, <1>3 DEF SetPhony, SetAlwaysDirty

(* The graph of zmm_bg_init has no node.                                     *)
LEMMA EmptyGraphGood == WellFormed(EmptyGraph)
<1>1. /\ EmptyGraph.size = 0 /\ Ids(EmptyGraph) = {}
      /\ DOMAIN EmptyGraph.nodeMap = {}
  BY DEF EmptyGraph, Ids
<1>2. GraphClosed(EmptyGraph)
  BY <1>1 DEF GraphClosed, EmptyGraph
<1> QED BY <1>1, <1>2 DEF WellFormed, MapExact, EdgesMirrored, WaitsExact, SourcesPlain

-----------------------------------------------------------------------------
(* Every call keeps the invariant.                                           *)
THEOREM GraphInvariant == ScriptSpec => []WellFormed(graph)
<1>1. ScriptBegins => WellFormed(graph)
  BY EmptyGraphGood DEF ScriptBegins
<1>2. WellFormed(graph) /\ [ScriptNext]_<<graph, calls>> => WellFormed(graph)'
  <2> SUFFICES ASSUME WellFormed(graph), [ScriptNext]_<<graph, calls>> PROVE WellFormed(graph')
    OBVIOUS
  <2>1. CASE ScriptInit
    BY <2>1, TgInitKeeps DEF ScriptInit
  <2>2. CASE ScriptAddSrc
    BY <2>2, AddSrcKeeps DEF ScriptAddSrc, Handles
  <2>3. CASE ScriptAddDep
    BY <2>3, AddDepKeeps DEF ScriptAddDep, Handles
  <2>4. CASE ScriptSetFlag
    BY <2>4, SetFlagKeeps DEF ScriptSetFlag, Handles
  <2>5. CASE UNCHANGED <<graph, calls>>
    BY <2>5
  <2> QED BY <2>1, <2>2, <2>3, <2>4, <2>5 DEF ScriptNext
<1> QED BY <1>1, <1>2, PTL DEF ScriptSpec

(* In every graph a script can make, a path finds its node and both ends of  *)
(* every edge agree on how often it is there: what worker_fn counts down     *)
(* through `dependents' is what zmm_bg_prepare counted up through `waits_on'.*)
THEOREM GraphsAreExact == ScriptSpec => []GraphExact
<1>1. WellFormed(graph) => GraphExact
  BY DEF WellFormed, GraphExact
<1> QED BY <1>1, GraphInvariant, PTL

(* In every graph a script can make, a node waits for the nodes of the paths *)
(* it names, as often as it names them, and for no other: zmm_bg_prepare     *)
(* recurses into exactly the inputs whose timestamps it compares.            *)
THEOREM InputsAreWaitedFor == ScriptSpec => []WaitsForInputs
<1>1. WellFormed(graph) => WaitsForInputs
  BY DEF WellFormed, WaitsExact, WaitsForInputs
<1> QED BY <1>1, GraphInvariant, PTL

-----------------------------------------------------------------------------
(* What a script has declared: the outputs X, all with a builder, the first  *)
(* of them r; and pairs of an output and a path that is a source of it (S)   *)
(* or a dep (D).                                                             *)
Shape(g, r, X, S, D) ==
  /\ WellFormed(g)
  /\ r \in X /\ X \subseteq DOMAIN g.nodeMap /\ g.nodeMap[r] = 0
  /\ \A x, p : <<x, p>> \in S \cup D => x \in X
  /\ \A i \in Ids(g) :
       LET n == g.nodes[i] IN
       /\ (n.target <=> n.output \in X) /\ (n.builder <=> n.output \in X)
       /\ ~n.phony /\ ~n.always
       /\ \A p : p \in Range(n.sources) <=> <<n.output, p>> \in S
       /\ \A p : p \in Range(n.deps) <=> <<n.output, p>> \in D

(* A path keeps its node.                                                    *)
Extends(h, g) ==
  \A q \in DOMAIN g.nodeMap : q \in DOMAIN h.nodeMap /\ h.nodeMap[q] = g.nodeMap[q]

(* What occurs in a sequence that x was appended to. *)
LEMMA RangeAppend ==
  ASSUME NEW T, NEW s \in Seq(T), NEW x \in T
  PROVE  Range(Append(s, x)) = Range(s) \cup {x}
<1>1. /\ Len(s) \in Nat /\ DOMAIN s = 1 .. Len(s)
      /\ DOMAIN Append(s, x) = 1 .. Len(s) + 1
      /\ \A i \in 1 .. Len(s) : Append(s, x)[i] = s[i]
      /\ Append(s, x)[Len(s) + 1] = x
  BY LenProperties, AppendProperties
<1>2. 1 .. Len(s) + 1 = 1 .. Len(s) \cup {Len(s) + 1}
  BY <1>1
<1> QED BY <1>1, <1>2 DEF Range

(* Nothing occurs in the empty sequence. *)
LEMMA RangeEmpty == Range(<<>>) = {}
<1>1. DOMAIN <<>> = {}
  OBVIOUS
<1> QED BY <1>1 DEF Range

(* get_or_put_node, whether or not the path is there.                        *)
LEMMA PutIs ==
  ASSUME NEW g, WellFormed(g), NEW p \in Path \cup {EmptyPath}, NEW h, h = GetOrPut(g, p)
  PROVE  /\ WellFormed(h) /\ p \in DOMAIN h.nodeMap /\ h.nodeMap[p] \in Ids(h)
         /\ Ids(g) \subseteq Ids(h)
         /\ DOMAIN h.nodeMap = DOMAIN g.nodeMap \cup {p}
         /\ \A q \in DOMAIN g.nodeMap : h.nodeMap[q] = g.nodeMap[q]
         /\ \A i \in Ids(g) : h.nodes[i] = g.nodes[i]
         /\ \A i \in Ids(h) \ Ids(g) : p \notin DOMAIN g.nodeMap /\ h.nodes[i] = NewNode(p)
<1>1. /\ WellFormed(h) /\ p \in DOMAIN h.nodeMap /\ Ids(g) \subseteq Ids(h)
      /\ \A i \in Ids(g) : h.nodes[i] = g.nodes[i]
  BY GetOrPutKeeps
<1>2. h.nodeMap[p] \in Ids(h)
  BY <1>1 DEF WellFormed, GraphClosed
<1>3. CASE p \in DOMAIN g.nodeMap
  <2>1. h = g
    BY <1>3 DEF GetOrPut
  <2> QED BY <1>1, <1>2, <1>3, <2>1
<1>4. CASE p \notin DOMAIN g.nodeMap
  <2>1. /\ Ids(h) = Ids(g) \cup {g.size} /\ g.size \notin Ids(g)
        /\ h.nodes[g.size] = NewNode(p)
        /\ \A q \in DOMAIN g.nodeMap : h.nodeMap[q] = g.nodeMap[q]
    <3> DEFINE k == GetOrPut(g, p)
    <3>1. GraphClosed(g)
      BY DEF WellFormed
    <3>2. /\ Ids(k) = Ids(g) \cup {g.size} /\ g.size \notin Ids(g)
          /\ k.nodes[g.size] = NewNode(p)
          /\ \A q \in DOMAIN g.nodeMap : k.nodeMap[q] = g.nodeMap[q]
      BY <1>4, <3>1, GetOrPutEffect
    <3> QED BY <3>2
  <2>2. DOMAIN h.nodeMap = DOMAIN g.nodeMap \cup {p}
    BY <1>4 DEF GetOrPut, AppendNode
  <2>3. \A i \in Ids(h) \ Ids(g) : i = g.size
    BY <2>1
  <2> QED BY <1>1, <1>2, <1>4, <2>1, <2>2, <2>3
<1> QED BY <1>3, <1>4

(* get_or_put_node declares no output and no edge. *)
LEMMA ShapePut ==
  ASSUME NEW g, NEW r, NEW X, NEW S, NEW D, Shape(g, r, X, S, D),
         NEW p \in Path \cup {EmptyPath}
  PROVE  Shape(GetOrPut(g, p), r, X, S, D) /\ Extends(GetOrPut(g, p), g)
<1> DEFINE h == GetOrPut(g, p)
<1>1. /\ WellFormed(h) /\ Ids(g) \subseteq Ids(h)
      /\ DOMAIN h.nodeMap = DOMAIN g.nodeMap \cup {p}
      /\ \A q \in DOMAIN g.nodeMap : h.nodeMap[q] = g.nodeMap[q]
      /\ \A i \in Ids(g) : h.nodes[i] = g.nodes[i]
      /\ \A i \in Ids(h) \ Ids(g) : p \notin DOMAIN g.nodeMap /\ h.nodes[i] = NewNode(p)
  BY PutIs DEF Shape
<1> HIDE DEF h
<1>2. ASSUME NEW i \in Ids(h) \ Ids(g)
      PROVE  LET n == h.nodes[i] IN
             /\ (n.target <=> n.output \in X) /\ (n.builder <=> n.output \in X)
             /\ ~n.phony /\ ~n.always
             /\ \A q : q \in Range(n.sources) <=> <<n.output, q>> \in S
             /\ \A q : q \in Range(n.deps) <=> <<n.output, q>> \in D
  <2>1. h.nodes[i] = NewNode(p) /\ p \notin X
    BY <1>1, <1>2 DEF Shape
  <2>2. /\ h.nodes[i].output = p /\ h.nodes[i].sources = <<>> /\ h.nodes[i].deps = <<>>
        /\ ~h.nodes[i].target /\ ~h.nodes[i].builder
        /\ h.nodes[i].target = FALSE /\ h.nodes[i].builder = FALSE
        /\ ~h.nodes[i].phony /\ ~h.nodes[i].always
    BY <2>1 DEF NewNode
  <2>3. \A q : <<p, q>> \notin S /\ <<p, q>> \notin D
    BY <2>1 DEF Shape
  <2> DEFINE n == h.nodes[i]
  <2>4. /\ n.output \notin X /\ n.target = FALSE /\ n.builder = FALSE
        /\ ~n.phony /\ ~n.always
        /\ \A q : q \notin Range(n.sources) /\ <<n.output, q>> \notin S
        /\ \A q : q \notin Range(n.deps) /\ <<n.output, q>> \notin D
    BY <2>1, <2>2, <2>3, RangeEmpty
  <2> HIDE DEF n
  <2>5. /\ (n.target <=> n.output \in X) /\ (n.builder <=> n.output \in X)
        /\ ~n.phony /\ ~n.always
        /\ \A q : q \in Range(n.sources) <=> <<n.output, q>> \in S
        /\ \A q : q \in Range(n.deps) <=> <<n.output, q>> \in D
    BY <2>4
  <2> QED BY <2>5 DEF n
<1>3. ASSUME NEW i \in Ids(g)
      PROVE  LET n == h.nodes[i] IN
             /\ (n.target <=> n.output \in X) /\ (n.builder <=> n.output \in X)
             /\ ~n.phony /\ ~n.always
             /\ \A q : q \in Range(n.sources) <=> <<n.output, q>> \in S
             /\ \A q : q \in Range(n.deps) <=> <<n.output, q>> \in D
  BY <1>1, <1>3 DEF Shape
<1>4. /\ r \in X /\ X \subseteq DOMAIN h.nodeMap /\ h.nodeMap[r] = 0
      /\ \A x, q : <<x, q>> \in S \cup D => x \in X
  BY <1>1 DEF Shape
<1>5. \A i \in Ids(h) : i \in Ids(g) \/ i \in Ids(h) \ Ids(g)
  OBVIOUS
<1>6. Extends(h, g)
  BY <1>1 DEF Extends
<1> QED BY <1>1, <1>2, <1>3, <1>4, <1>5, <1>6 DEF Shape, h

(* zmm_tg_init, with a builder.                                              *)
LEMMA InitIs ==
  ASSUME NEW g, WellFormed(g), NEW p \in Path \cup {EmptyPath}
  PROVE  LET h == GetOrPut(g, p) k == TgInit(g, p, TRUE) IN
         /\ WellFormed(k) /\ Ids(k) = Ids(h) /\ k.nodeMap = h.nodeMap
         /\ \A i \in Ids(h) :
              LET n == h.nodes[i] m == k.nodes[i] IN
              /\ m.output = n.output /\ m.sources = n.sources /\ m.deps = n.deps
              /\ m.phony = n.phony /\ m.always = n.always
              /\ i # h.nodeMap[p] => m.target = n.target /\ m.builder = n.builder
              /\ i = h.nodeMap[p] => m.target = TRUE /\ m.builder = TRUE
<1> DEFINE h == GetOrPut(g, p)
           k == TgInit(g, p, TRUE)
<1>1. WellFormed(k)
  BY TgInitKeeps
<1>2. WellFormed(h) /\ p \in DOMAIN h.nodeMap /\ h.nodeMap[p] \in Ids(h)
  BY PutIs
<1>0. k = [h EXCEPT !.nodes[h.nodeMap[p]].target = TRUE,
                    !.nodes[h.nodeMap[p]].builder = TRUE]
  BY DEF TgInit
<1> HIDE DEF h, k
<1> DEFINE t == h.nodeMap[p]
           n == h.nodes[t]
           m == [[n EXCEPT !.target = TRUE] EXCEPT !.builder = TRUE]
<1>3. n \in NodeOver(Ids(h), DOMAIN h.nodeMap)
  BY <1>2 DEF WellFormed, GraphClosed
<1>4. m \in NodeOver(Ids(h), DOMAIN h.nodeMap)
  BY <1>3, NodeFields
<1>5. /\ m.output = n.output /\ m.sources = n.sources /\ m.deps = n.deps
      /\ m.phony = n.phony /\ m.always = n.always /\ m.target = TRUE /\ m.builder = TRUE
  BY <1>3 DEF NodeOver
<1>6. k = [h EXCEPT !.nodes = [h.nodes EXCEPT ![t] = m]]
  BY <1>0, <1>2 DEF WellFormed, GraphClosed
<1> HIDE DEF m, t
<1>7. /\ Ids(k) = Ids(h) /\ k.nodeMap = h.nodeMap /\ k.nodes[t] = m
      /\ \A j \in Ids(h) : j # t => k.nodes[j] = h.nodes[j]
  <2>1. GraphClosed(h) /\ t \in Ids(h)
    BY <1>2 DEF WellFormed, t
  <2>2. LET e == [h EXCEPT !.nodes = [h.nodes EXCEPT ![t] = m]] IN
        /\ Ids(e) = Ids(h) /\ e.nodeMap = h.nodeMap /\ e.nodes[t] = m
        /\ \A j \in Ids(h) : j # t => e.nodes[j] = h.nodes[j]
    <3>1. m \in NodeOver(Ids(h), DOMAIN h.nodeMap)
      BY <1>4
    <3> QED BY <2>1, <3>1, SetNode
  <2> QED BY <1>6, <2>2
<1> QED BY <1>1, <1>5, <1>7 DEF t, h, k

(* zmm_tg_init declares p an output with a builder. *)
LEMMA ShapeInit ==
  ASSUME NEW g, NEW r, NEW X, NEW S, NEW D, Shape(g, r, X, S, D),
         NEW p \in Path \cup {EmptyPath}
  PROVE  /\ Shape(TgInit(g, p, TRUE), r, X \cup {p}, S, D)
         /\ Extends(TgInit(g, p, TRUE), g)
<1> DEFINE h == GetOrPut(g, p)
           k == TgInit(g, p, TRUE)
           t == h.nodeMap[p]
<1>1. WellFormed(g) /\ Shape(h, r, X, S, D) /\ Extends(h, g)
  <2>1. WellFormed(g)
    BY DEF Shape
  <2> QED BY <2>1, ShapePut
<1>2. p \in DOMAIN h.nodeMap
  BY <1>1, PutIs
<1>3. /\ WellFormed(k) /\ Ids(k) = Ids(h) /\ k.nodeMap = h.nodeMap
      /\ \A i \in Ids(h) :
           LET n == h.nodes[i] m == k.nodes[i] IN
           /\ m.output = n.output /\ m.sources = n.sources /\ m.deps = n.deps
           /\ m.phony = n.phony /\ m.always = n.always
           /\ i # t => m.target = n.target /\ m.builder = n.builder
           /\ i = t => m.target = TRUE /\ m.builder = TRUE
  BY <1>1, InitIs
<1> HIDE DEF h
<1>4. \A i \in Ids(h) : h.nodes[i].output = p <=> i = t
  BY <1>1, <1>2 DEF Shape, WellFormed, MapExact
<1> HIDE DEF k, t
<1>5. ASSUME NEW i \in Ids(h)
      PROVE  LET n == k.nodes[i] Y == X \cup {p} IN
             /\ (n.target <=> n.output \in Y) /\ (n.builder <=> n.output \in Y)
             /\ ~n.phony /\ ~n.always
             /\ \A q : q \in Range(n.sources) <=> <<n.output, q>> \in S
             /\ \A q : q \in Range(n.deps) <=> <<n.output, q>> \in D
  <2> DEFINE n == h.nodes[i] m == k.nodes[i]
  <2>1. /\ (n.target <=> n.output \in X) /\ (n.builder <=> n.output \in X)
        /\ ~n.phony /\ ~n.always
        /\ \A q : q \in Range(n.sources) <=> <<n.output, q>> \in S
        /\ \A q : q \in Range(n.deps) <=> <<n.output, q>> \in D
    BY <1>1 DEF Shape
  <2>2. /\ m.output = n.output /\ m.sources = n.sources /\ m.deps = n.deps
        /\ m.phony = n.phony /\ m.always = n.always
        /\ i # t => m.target = n.target /\ m.builder = n.builder
        /\ i = t => m.target = TRUE /\ m.builder = TRUE
    BY <1>3
  <2>3. n.output = p <=> i = t
    BY <1>4
  <2> HIDE DEF n, m
  <2>4. (m.target <=> m.output \in X \cup {p}) /\ (m.builder <=> m.output \in X \cup {p})
    BY <2>1, <2>2, <2>3
  <2> QED BY <2>1, <2>2, <2>4 DEF m
<1>6. /\ r \in X \cup {p} /\ X \cup {p} \subseteq DOMAIN k.nodeMap /\ k.nodeMap[r] = 0
      /\ \A x, q : <<x, q>> \in S \cup D => x \in X \cup {p}
  BY <1>1, <1>2, <1>3 DEF Shape
<1>7. Extends(k, g)
  BY <1>1, <1>3 DEF Extends
<1> QED BY <1>3, <1>5, <1>6, <1>7 DEF Shape, k

(* E has the paths ps for x; it is F but for x.                              *)
HasFor(E, x, ps) == \A q : q \in ps <=> <<x, q>> \in E

(* E and F have the same paths for all but x. *)
SameBut(E, F, x) == \A y, q : y # x => (<<y, q>> \in E <=> <<y, q>> \in F)

(* An edge, to an input that was written to the node of x.                   *)
LEMMA ShapeLinked ==
  ASSUME NEW g, NEW r, NEW X, NEW S, NEW D, Shape(g, r, X, S, D),
         NEW x \in X, NEW p \in Path \cup {EmptyPath}, NEW m, NEW k,
         WellFormed(k),
         Linked(GetOrPut(g, p), g.nodeMap[x], GetOrPut(g, p).nodeMap[p], m, k),
         SameFlags(m, g.nodes[g.nodeMap[x]]),
         NEW S2, NEW D2,
         HasFor(S2, x, Range(m.sources)), HasFor(D2, x, Range(m.deps)),
         SameBut(S2, S, x), SameBut(D2, D, x)
  PROVE  Shape(k, r, X, S2, D2) /\ Extends(k, g)
<1> DEFINE h == GetOrPut(g, p)
           t == g.nodeMap[x]
<1>1. Shape(h, r, X, S, D) /\ Extends(h, g)
  BY ShapePut
<1>2. /\ WellFormed(g) /\ WellFormed(h) /\ x \in DOMAIN g.nodeMap
      /\ x \in DOMAIN h.nodeMap /\ h.nodeMap[x] = t
  BY <1>1 DEF Shape, Extends
<1>3. t \in Ids(g) /\ t \in Ids(h) /\ h.nodes[t] = g.nodes[t]
  <2>1. t \in Ids(g)
    BY <1>2 DEF WellFormed, GraphClosed
  <2> QED BY <1>2, <2>1, GetOrPutKeeps
<1>4. \A i \in Ids(h) : h.nodes[i].output = x <=> i = t
  BY <1>2 DEF WellFormed, MapExact
<1>5. Linked(h, t, h.nodeMap[p], m, k) /\ SameFlags(m, h.nodes[t])
  BY <1>3
<1> HIDE DEF h, t
<1>6. ASSUME NEW i \in Ids(k)
      PROVE  LET n == k.nodes[i] IN
             /\ (n.target <=> n.output \in X) /\ (n.builder <=> n.output \in X)
             /\ ~n.phony /\ ~n.always
             /\ \A q : q \in Range(n.sources) <=> <<n.output, q>> \in S2
             /\ \A q : q \in Range(n.deps) <=> <<n.output, q>> \in D2
  <2> DEFINE o == h.nodes[i] n == k.nodes[i]
  <2>1. i \in Ids(h) /\ n.output = o.output
    BY <1>5, <1>6 DEF Linked
  <2>2. /\ (o.target <=> o.output \in X) /\ (o.builder <=> o.output \in X)
        /\ ~o.phony /\ ~o.always
        /\ \A q : q \in Range(o.sources) <=> <<o.output, q>> \in S
        /\ \A q : q \in Range(o.deps) <=> <<o.output, q>> \in D
    BY <1>1, <2>1 DEF Shape
  <2>3. SameFlags(n, o)
    BY <1>5, <2>1 DEF Linked, SameFlags
  <2>4. CASE i = t
    <3>1. o.output = x /\ n.sources = m.sources /\ n.deps = m.deps
      BY <1>4, <1>5, <2>1, <2>4 DEF Linked
    <3> HIDE DEF o, n
    <3> QED BY <2>1, <2>2, <2>3, <3>1 DEF SameFlags, HasFor, SameBut, n
  <2>5. CASE i # t
    <3>1. o.output # x /\ n.sources = o.sources /\ n.deps = o.deps
      BY <1>4, <1>5, <2>1, <2>5 DEF Linked
    <3> HIDE DEF o, n
    <3> QED BY <2>1, <2>2, <2>3, <3>1 DEF SameFlags, HasFor, SameBut, n
  <2> QED BY <2>4, <2>5
<1>7. k.nodeMap = h.nodeMap
  BY <1>5 DEF Linked
<1>8. /\ r \in X /\ X \subseteq DOMAIN k.nodeMap /\ k.nodeMap[r] = 0
      /\ \A y, q : <<y, q>> \in S2 \cup D2 => y \in X
  BY <1>1, <1>7 DEF Shape, SameBut
<1>9. Extends(k, g)
  BY <1>1, <1>7 DEF Extends
<1> QED BY <1>6, <1>8, <1>9 DEF Shape

(* zmm_tg_add_src and zmm_tg_add_dep, of one path.                           *)
LEMMA ShapeSrc ==
  ASSUME NEW g, NEW r, NEW X, NEW S, NEW D, Shape(g, r, X, S, D),
         NEW x \in X, NEW p \in Path, EmptyPath \notin Path
  PROVE  /\ Shape(AddSrc(g, g.nodeMap[x], p), r, X, S \cup {<<x, p>>}, D)
         /\ Extends(AddSrc(g, g.nodeMap[x], p), g)
<1> DEFINE t == g.nodeMap[x]
           n == g.nodes[t]
           m == [n EXCEPT !.sources = Append(@, p)]
           k == AddSrc(g, t, p)
<1>1. WellFormed(g) /\ x \in DOMAIN g.nodeMap
  BY DEF Shape
<1>2. t \in Ids(g) /\ n.output = x
  BY <1>1 DEF WellFormed, GraphClosed, MapExact
<1>3. /\ n.target /\ \A q : q \in Range(n.sources) <=> <<x, q>> \in S
      /\ \A q : q \in Range(n.deps) <=> <<x, q>> \in D
  BY <1>2 DEF Shape
<1>4. WellFormed(k) /\ Linked(GetOrPut(g, p), t, GetOrPut(g, p).nodeMap[p], m, k)
  <2> HIDE DEF t
  <2> QED BY <1>1, <1>2, <1>3, AddSrcKeeps
<1>5. n \in NodeOver(Ids(g), DOMAIN g.nodeMap)
  BY <1>1, <1>2 DEF WellFormed, GraphClosed
<1>6. n \in NodeOver(Ids(g), DOMAIN g.nodeMap \cup {p})
  BY <1>5, SeqMonotonic DEF NodeOver
<1>7. /\ m.sources = Append(n.sources, p) /\ m.deps = n.deps
      /\ n.sources \in Seq(DOMAIN g.nodeMap \cup {p}) /\ SameFlags(m, n)
  <2> HIDE DEF n
  <2> QED BY <1>6 DEF NodeOver, SameFlags
<1>8. Range(m.sources) = Range(n.sources) \cup {p}
  <2> HIDE DEF n, m
  <2> QED BY <1>7, RangeAppend
<1>9. /\ HasFor(S \cup {<<x, p>>}, x, Range(m.sources))
      /\ HasFor(D, x, Range(m.deps))
      /\ SameBut(S \cup {<<x, p>>}, S, x) /\ SameBut(D, D, x)
  <2> HIDE DEF n, m
  <2> QED BY <1>3, <1>7, <1>8 DEF HasFor, SameBut
<1> HIDE DEF m, k
<1>10. Shape(k, r, X, S \cup {<<x, p>>}, D) /\ Extends(k, g)
  BY <1>4, <1>7, <1>9, ShapeLinked
<1> QED BY <1>10 DEF k

(* zmm_tg_add_dep of a path adds that dep. *)
LEMMA ShapeDep ==
  ASSUME NEW g, NEW r, NEW X, NEW S, NEW D, Shape(g, r, X, S, D),
         NEW x \in X, NEW p \in Path, EmptyPath \notin Path
  PROVE  /\ Shape(AddDep(g, g.nodeMap[x], p), r, X, S, D \cup {<<x, p>>})
         /\ Extends(AddDep(g, g.nodeMap[x], p), g)
<1> DEFINE t == g.nodeMap[x]
           n == g.nodes[t]
           m == [n EXCEPT !.deps = Append(@, p)]
           k == AddDep(g, t, p)
<1>1. WellFormed(g) /\ x \in DOMAIN g.nodeMap
  BY DEF Shape
<1>2. t \in Ids(g) /\ n.output = x
  BY <1>1 DEF WellFormed, GraphClosed, MapExact
<1>3. /\ n.target /\ \A q : q \in Range(n.sources) <=> <<x, q>> \in S
      /\ \A q : q \in Range(n.deps) <=> <<x, q>> \in D
  BY <1>2 DEF Shape
<1>4. WellFormed(k) /\ Linked(GetOrPut(g, p), t, GetOrPut(g, p).nodeMap[p], m, k)
  <2> HIDE DEF t
  <2> QED BY <1>1, <1>2, <1>3, AddDepKeeps
<1>5. n \in NodeOver(Ids(g), DOMAIN g.nodeMap)
  BY <1>1, <1>2 DEF WellFormed, GraphClosed
<1>6. n \in NodeOver(Ids(g), DOMAIN g.nodeMap \cup {p})
  BY <1>5, SeqMonotonic DEF NodeOver
<1>7. /\ m.deps = Append(n.deps, p) /\ m.sources = n.sources
      /\ n.deps \in Seq(DOMAIN g.nodeMap \cup {p}) /\ SameFlags(m, n)
  <2> HIDE DEF n
  <2> QED BY <1>6 DEF NodeOver, SameFlags
<1>8. Range(m.deps) = Range(n.deps) \cup {p}
  <2> HIDE DEF n, m
  <2> QED BY <1>7, RangeAppend
<1>9. /\ HasFor(D \cup {<<x, p>>}, x, Range(m.deps))
      /\ HasFor(S, x, Range(m.sources))
      /\ SameBut(D \cup {<<x, p>>}, D, x) /\ SameBut(S, S, x)
  <2> HIDE DEF n, m
  <2> QED BY <1>3, <1>7, <1>8 DEF HasFor, SameBut
<1> HIDE DEF m, k
<1>10. Shape(k, r, X, S, D \cup {<<x, p>>}) /\ Extends(k, g)
  BY <1>4, <1>7, <1>9, ShapeLinked
<1> QED BY <1>10 DEF k

(* What holds of 0, and of n + 1 with n, holds of every number.              *)
LEMMA Countable ==
  ASSUME NEW Q, 0 \in Q, \A n \in Nat : n \in Q => n + 1 \in Q
  PROVE  \A n \in Nat : n \in Q
<1> DEFINE Bad == {n \in Nat : n \notin Q}
<1> SUFFICES ASSUME Bad # {} PROVE FALSE
  OBVIOUS
<1>1. PICK x \in Bad : \A y \in Bad : <<y, x>> \notin OpToRel(<, Nat)
  <2>1. Bad \subseteq Nat
    OBVIOUS
  <2> HIDE DEF Bad
  <2> QED BY <2>1, WFMin, NatLessThanWellFounded
<1>2. x \in Nat /\ x # 0 /\ x - 1 \in Nat /\ x = (x - 1) + 1
  OBVIOUS
<1>3. x - 1 \in Bad
  BY <1>2
<1>4. <<x - 1, x>> \in OpToRel(<, Nat)
  BY <1>2 DEF OpToRel
<1> QED BY <1>1, <1>3, <1>4

(* The loop of zmm_tg_add_dep is defined for every number of turns.          *)
LEMMA AddDepTurns ==
  ASSUME NEW g, NEW t, NEW ps
  PROVE  \A n \in Nat : \E f :
           f = [i \in 0 .. n |-> IF i = 0 THEN g ELSE AddDep(f[i - 1], t, ps[i])]
<1> DEFINE Q == {n \in Nat : \E f :
             f = [i \in 0 .. n |-> IF i = 0 THEN g ELSE AddDep(f[i - 1], t, ps[i])]}
<1>1. 0 \in Q
  <2> DEFINE f == [i \in 0 .. 0 |-> g]
  <2>1. f = [i \in 0 .. 0 |-> IF i = 0 THEN g ELSE AddDep(f[i - 1], t, ps[i])]
    OBVIOUS
  <2> HIDE DEF f
  <2> QED BY <2>1
<1>2. ASSUME NEW n \in Nat, n \in Q PROVE n + 1 \in Q
  <2>1. PICK f : f = [i \in 0 .. n |-> IF i = 0 THEN g ELSE AddDep(f[i - 1], t, ps[i])]
    BY <1>2
  <2> DEFINE e == [i \in 0 .. n + 1 |-> IF i \in 0 .. n THEN f[i] ELSE AddDep(f[n], t, ps[n + 1])]
  <2>2. ASSUME NEW i \in 0 .. n + 1
        PROVE  e[i] = IF i = 0 THEN g ELSE AddDep(e[i - 1], t, ps[i])
    <3>1. CASE i \in 0 .. n
      <4>1. e[i] = f[i] /\ (i # 0 => i - 1 \in 0 .. n /\ e[i - 1] = f[i - 1])
        BY <3>1
      <4>2. f[i] = IF i = 0 THEN g ELSE AddDep(f[i - 1], t, ps[i])
        BY <2>1, <3>1
      <4> HIDE DEF e
      <4> QED BY <4>1, <4>2
    <3>2. CASE i = n + 1
      <4>1. i \notin 0 .. n /\ i # 0 /\ i - 1 = n /\ n \in 0 .. n
        BY <3>2
      <4>2. e[i] = AddDep(f[n], t, ps[n + 1]) /\ e[i - 1] = f[n]
        BY <3>2, <4>1
      <4> HIDE DEF e
      <4> QED BY <3>2, <4>1, <4>2
    <3> QED BY <2>2, <3>1, <3>2
  <2>3. e = [i \in 0 .. n + 1 |-> IF i = 0 THEN g ELSE AddDep(e[i - 1], t, ps[i])]
    <3>1. e = [i \in 0 .. n + 1 |-> e[i]]
      OBVIOUS
    <3> HIDE DEF e
    <3> QED BY <2>2, <3>1
  <2> HIDE DEF e
  <2> QED BY <2>3
<1> HIDE DEF Q
<1>3. \A n \in Nat : n \in Q
  BY <1>1, <1>2, Countable
<1> QED BY <1>3 DEF Q

(* A node and the first n of some paths.                                     *)
Pairs(x, ps, n) == {<<x, ps[i]>> : i \in 1 .. n}

(* zmm_tg_add_dep, of the paths up to the first that is refused.             *)
LEMMA ShapeDeps ==
  ASSUME NEW g, NEW r, NEW X, NEW S, NEW D, Shape(g, r, X, S, D),
         NEW x \in X, EmptyPath \notin Path, NEW ps, NEW n \in Nat, UpTo(ps) = n,
         \A i \in 1 .. n : ps[i] \in Path
  PROVE  /\ Shape(AddDeps(g, g.nodeMap[x], ps), r, X, S, D \cup Pairs(x, ps, n))
         /\ Extends(AddDeps(g, g.nodeMap[x], ps), g)
<1> DEFINE t == g.nodeMap[x]
           f == CHOOSE f : f = [i \in 0 .. n |-> IF i = 0 THEN g ELSE AddDep(f[i - 1], t, ps[i])]
           E(k) == D \cup Pairs(x, ps, k)
           Q == {k \in Nat : k <= n => Shape(f[k], r, X, S, E(k)) /\ Extends(f[k], g)}
<1>1. f = [i \in 0 .. n |-> IF i = 0 THEN g ELSE AddDep(f[i - 1], t, ps[i])]
  BY AddDepTurns
<1>2. AddDeps(g, t, ps) = f[n]
  BY DEF AddDeps
<1> HIDE DEF f, t
<1>3. x \in DOMAIN g.nodeMap
  BY DEF Shape
<1>4. 0 \in Q
  <2>1. f[0] = g
    BY <1>1
  <2>2. E(0) = D
    BY DEF Pairs
  <2>3. Extends(g, g)
    BY DEF Extends
  <2> HIDE DEF E
  <2> QED BY <2>1, <2>2, <2>3
<1>5. ASSUME NEW k \in Nat, k \in Q PROVE k + 1 \in Q
  <2> SUFFICES ASSUME k + 1 <= n
               PROVE  Shape(f[k + 1], r, X, S, E(k + 1)) /\ Extends(f[k + 1], g)
    OBVIOUS
  <2>1. Shape(f[k], r, X, S, E(k)) /\ Extends(f[k], g)
    BY <1>5
  <2>2. f[k + 1] = AddDep(f[k], t, ps[k + 1])
    BY <1>1
  <2>3. f[k].nodeMap[x] = t
    BY <1>3, <2>1 DEF Extends, t
  <2>4. ps[k + 1] \in Path
    OBVIOUS
  <2>5. E(k + 1) = E(k) \cup {<<x, ps[k + 1]>>}
    <3>1. 1 .. k + 1 = 1 .. k \cup {k + 1}
      OBVIOUS
    <3> QED BY <3>1 DEF Pairs
  <2> HIDE DEF E
  <2>6. /\ Shape(f[k + 1], r, X, S, E(k) \cup {<<x, ps[k + 1]>>})
        /\ Extends(f[k + 1], f[k])
    BY <2>1, <2>2, <2>3, <2>4, ShapeDep
  <2>7. Extends(f[k + 1], g)
    BY <2>1, <2>6 DEF Extends
  <2> QED BY <2>5, <2>6, <2>7
<1>6. n \in Q
  <2> HIDE DEF Q
  <2> QED BY <1>4, <1>5, Countable
<1>7. Shape(f[n], r, X, S, E(n)) /\ Extends(f[n], g)
  BY <1>6
<1> QED BY <1>2, <1>7 DEF t

(* A sequence of all elements of a finite set, each once.                    *)
LEMMA SetToSeqIs ==
  ASSUME NEW A, IsFiniteSet(A)
  PROVE  /\ SetToSeq(A) \in Seq(A) /\ Len(SetToSeq(A)) \in Nat
         /\ DOMAIN SetToSeq(A) = 1 .. Len(SetToSeq(A))
         /\ Range(SetToSeq(A)) = A
<1> DEFINE n == Cardinality(A)
           f == SetToSeq(A)
<1>1. n \in Nat /\ \E b : b \in Bijection(1 .. n, A)
  BY FS_CardinalityType DEF ExistsBijection
<1>2. \E b \in [1 .. n -> A] : IsInjective(b)
  BY <1>1 DEF Bijection, Injection
<1>3. f \in [1 .. n -> A] /\ IsInjective(f)
  <2> HIDE DEF n
  <2>1. f = CHOOSE b \in [1 .. n -> A] : IsInjective(b)
    BY DEF SetToSeq, n
  <2> HIDE DEF f
  <2> QED BY <1>2, <2>1
<1> HIDE DEF f
<1>4. f \in Surjection(1 .. n, A)
  <2>1. f \in Injection(1 .. n, A)
    BY <1>3 DEF Injection
  <2>2. IsFiniteSet(1 .. n) /\ Cardinality(1 .. n) = n
    BY <1>1, FS_Interval
  <2> QED BY <2>1, <2>2, FS_Injection
<1>5. f \in Seq(A) /\ Len(f) = n /\ DOMAIN f = 1 .. n
  <2> HIDE DEF n
  <2> QED BY <1>1, <1>3
<1>6. Range(f) = A
  BY <1>4, <1>5 DEF Surjection, Range
<1> QED BY <1>1, <1>5, <1>6 DEF f

(* A list of paths is read to its end: no path in it is the empty one. *)
LEMMA UpToAll ==
  ASSUME NEW ps \in Seq(Path), EmptyPath \notin Path
  PROVE  UpTo(ps) = Len(ps)
<1>1. \A i \in DOMAIN ps : ps[i] \in Path
  BY ElementOfSeq, LenProperties
<1> QED BY <1>1 DEF UpTo

(* A list of one source is that source added. *)
LEMMA SrcsOfOne ==
  ASSUME NEW g, NEW t, NEW p \in Path, EmptyPath \notin Path
  PROVE  UpTo(<<p>>) = 1 /\ Len(<<p>>) = 1 /\ AddSrcs(g, t, <<p>>) = AddSrc(g, t, p)
<1>1. UpTo(<<p>>) = 1 /\ Len(<<p>>) = 1
  <2>1. <<p>> \in Seq(Path) /\ Len(<<p>>) = 1
    OBVIOUS
  <2> QED BY <2>1, UpToAll
<1> DEFINE ps == <<p>>
           F(f) == [i \in 0 .. 1 |-> IF i = 0 THEN g ELSE AddSrc(f[i - 1], t, ps[i])]
           f == CHOOSE f : f = F(f)
           e == [i \in 0 .. 1 |-> IF i = 0 THEN g ELSE AddSrc(g, t, p)]
<1>2. e = F(e)
  <2>1. e[0] = g /\ e[1] = AddSrc(g, t, p) /\ ps[1] = p
    OBVIOUS
  <2>2. \A i \in 0 .. 1 : i = 0 \/ i = 1
    OBVIOUS
  <2>3. e = [i \in 0 .. 1 |-> e[i]]
    OBVIOUS
  <2> HIDE DEF e, ps
  <2>4. \A i \in 0 .. 1 : e[i] = IF i = 0 THEN g ELSE AddSrc(e[i - 1], t, ps[i])
    BY <2>1, <2>2
  <2> QED BY <2>3, <2>4
<1> HIDE DEF e
<1>3. f = F(f)
  BY <1>2
<1>4. AddSrcs(g, t, ps) = f[1]
  BY <1>1 DEF AddSrcs
<1>5. ps[1] = p
  OBVIOUS
<1> HIDE DEF f, ps
<1>6. f[0] = g /\ f[1] = AddSrc(f[0], t, ps[1])
  BY <1>3
<1> QED BY <1>1, <1>4, <1>5, <1>6 DEF ps

(* zmm_bg_add, of one source.                                                *)
LEMMA ShapeAdd ==
  ASSUME NEW g, NEW r, NEW X, NEW S, NEW D, Shape(g, r, X, S, D),
         EmptyPath \notin Path, NEW rule, NEW o \in Path, NEW p \in Path,
         rule.output = o, rule.sources = <<p>>, rule.deps \in Seq(Path),
         rule.builder = TRUE, ~rule.always, ~rule.phony
  PROVE  /\ Shape(BgAdd(g, rule), r, X \cup {o}, S \cup {<<o, p>>},
                  D \cup ({o} \X Range(rule.deps)))
         /\ Extends(BgAdd(g, rule), g)
<1> DEFINE h == TgInit(g, rule.output, rule.builder)
           t == h.nodeMap[rule.output]
           h2 == AddSrcs(h, t, rule.sources)
           h3 == AddDeps(h2, t, rule.deps)
           n == Len(rule.deps)
<1>1. UpTo(rule.deps) = n /\ n \in Nat /\ \A i \in 1 .. n : rule.deps[i] \in Path
  BY UpToAll, ElementOfSeq
<1>2. /\ UpTo(rule.sources) = 1 /\ Len(rule.sources) = 1
      /\ h2 = AddSrc(h, t, p)
  BY SrcsOfOne
<1>3. BgAdd(g, rule) = h3
  <2> HIDE DEF n
  <2>1. ~(1 < 1) /\ ~(n < n)
    BY <1>1
  <2> QED BY <1>1, <1>2, <2>1 DEF BgAdd
<1>4. Shape(h, r, X \cup {o}, S, D) /\ Extends(h, g) /\ t = h.nodeMap[o]
  BY ShapeInit
<1>0. o \in X \cup {o}
  OBVIOUS
<1> HIDE DEF h
<1>5. Shape(h2, r, X \cup {o}, S \cup {<<o, p>>}, D) /\ Extends(h2, h)
  <2>1. h2 = AddSrc(h, h.nodeMap[o], p)
    BY <1>2
  <2> HIDE DEF h2
  <2>2. /\ Shape(AddSrc(h, h.nodeMap[o], p), r, X \cup {o}, S \cup {<<o, p>>}, D)
        /\ Extends(AddSrc(h, h.nodeMap[o], p), h)
    BY <1>0, <1>4, ShapeSrc
  <2> QED BY <2>1, <2>2
<1>6. h2.nodeMap[o] = t
  <2>1. o \in DOMAIN h.nodeMap
    BY <1>4 DEF Shape
  <2> QED BY <1>5, <2>1 DEF Extends
<1> HIDE DEF h2, t
<1> DEFINE E == D \cup Pairs(o, rule.deps, n)
<1>7. Shape(h3, r, X \cup {o}, S \cup {<<o, p>>}, E) /\ Extends(h3, h2)
  <2> HIDE DEF n
  <2> QED BY <1>0, <1>1, <1>5, <1>6, ShapeDeps
<1>8. E = D \cup ({o} \X Range(rule.deps))
  <2>1. DOMAIN rule.deps = 1 .. n
    BY LenProperties
  <2> QED BY <2>1 DEF Range, Pairs
<1>9. Extends(h3, g)
  BY <1>4, <1>5, <1>7 DEF Extends
<1> HIDE DEF E, h3
<1> QED BY <1>3, <1>7, <1>8, <1>9

-----------------------------------------------------------------------------
(* The graph of a template. *)

(* The graph of a template: the outputs it begins with, the objects of       *)
(* sources, their sources and deps, those of the tests.                      *)
Mains == IF IsLib THEN {Lib, EmptyPath} ELSE {Exe}
Objs(ss) == {Obj(args, s) : s \in ss}
ObjSrcs(ss) == {<<Obj(args, s), Src(s)>> : s \in ss}
ObjDeps(ss, deps) == UNION {{Obj(args, s)} \X deps[s] : s \in ss}
TestSrcs(ss) == {<<TestExe(s), Obj(args, s)>> : s \in ss}
TestDeps(ss) == {<<TestExe(s), Lib>> : s \in ss}

(* The paths of a template.                                                  *)
LEMMA PathFacts ==
  ASSUME args \in Args
  PROVE  /\ EmptyPath \notin Path /\ Exe \in Path /\ Lib \in Path
         /\ \A s \in Source : Obj(args, s) \in Path /\ Src(s) \in Path
         /\ \A s \in Test : s \in Source /\ TestExe(s) \in Path
         /\ Files \subseteq Path /\ IsFiniteSet(Files)
         /\ IsFiniteSet(Source) /\ IsFiniteSet(Test)
<1>1. /\ EmptyPath \notin Path /\ Exe \in Path /\ Lib \in Path /\ Files \subseteq Path
      /\ \A s \in Test : s \in Source /\ TestExe(s) \in Path
  BY PathAssumption, TemplateAssumption DEF AllLinks, Test
<1>2. ASSUME NEW s \in Source PROVE Obj(args, s) \in Path /\ Src(s) \in Path
  <2>1. ObjDir(args) \in Args \cup {"obj"}
    BY DEF ObjDir
  <2>2. Obj(args, s) \in AllObjects
    BY <2>1 DEF AllObjects, Obj
  <2>3. Src(s) \in Files
    BY DEF Files, File
  <2> QED BY <2>2, <2>3, PathAssumption
<1>3. IsFiniteSet(Source) /\ IsFiniteSet(Test)
  <2>1. IsFiniteSet(Source) /\ Test \subseteq Source
    BY <1>1, TemplateAssumption
  <2> QED BY <2>1, FS_Subset
<1>4. IsFiniteSet(Files)
  <2> DEFINE A == Source \cup Header
             f == [x \in A |-> File(x)]
  <2>1. IsFiniteSet(A)
    BY TemplateAssumption, FS_Union
  <2>2. f \in Surjection(A, Files)
    BY DEF Surjection, Files
  <2> HIDE DEF A, f
  <2> QED BY <2>1, <2>2, FS_Surjection
<1> QED BY <1>1, <1>2, <1>3, <1>4

(* The dependency file of a source, as zmm_tg_add_dep gets it.               *)
LEMMA RuleIs ==
  ASSUME args \in Args, NEW s \in Source, NEW ds \in SUBSET Files
  PROVE  LET rule == ObjRule(s, ds) IN
         /\ rule.output = Obj(args, s) /\ rule.sources = <<Src(s)>>
         /\ rule.deps \in Seq(Path) /\ Range(rule.deps) = ds
         /\ rule.builder = TRUE /\ ~rule.always /\ ~rule.phony
<1>1. IsFiniteSet(ds) /\ ds \subseteq Path
  BY PathFacts, FS_Subset
<1>2. SetToSeq(ds) \in Seq(Path) /\ Range(SetToSeq(ds)) = ds
  BY <1>1, SetToSeqIs, SeqMonotonic
<1> QED BY <1>2 DEF ObjRule

(* zmm_bg_add, of an object.                                                 *)
LEMMA ShapeRule ==
  ASSUME args \in Args, NEW g, NEW r, NEW X, NEW S, NEW D, Shape(g, r, X, S, D),
         NEW s \in Source, NEW ds \in SUBSET Files
  PROVE  /\ Shape(BgAdd(g, ObjRule(s, ds)), r, X \cup {Obj(args, s)},
                  S \cup {<<Obj(args, s), Src(s)>>}, D \cup ({Obj(args, s)} \X ds))
         /\ Extends(BgAdd(g, ObjRule(s, ds)), g)
<1> DEFINE o == Obj(args, s)
           p == Src(s)
           rule == ObjRule(s, ds)
<1>1. EmptyPath \notin Path /\ o \in Path /\ p \in Path
  BY PathFacts
<1>2. /\ rule.output = o /\ rule.sources = <<p>>
      /\ rule.deps \in Seq(Path) /\ Range(rule.deps) = ds
      /\ rule.builder = TRUE /\ ~rule.always /\ ~rule.phony
  BY RuleIs
<1> HIDE DEF o, p, rule
<1>3. /\ Shape(BgAdd(g, rule), r, X \cup {o}, S \cup {<<o, p>>},
               D \cup ({o} \X Range(rule.deps)))
      /\ Extends(BgAdd(g, rule), g)
  BY <1>1, <1>2, ShapeAdd
<1> QED BY <1>2, <1>3 DEF o, p, rule

(* The declaration of an object.                                             *)
LEMMA ShapeObject ==
  ASSUME args \in Args, NEW g, NEW r, NEW X, NEW S, NEW D, Shape(g, r, X, S, D),
         Mains \subseteq X, NEW s \in Source, NEW ds \in SUBSET Files
  PROVE  Shape(DeclareObject(g, s, ds), r, X \cup {Obj(args, s)},
               S \cup {<<Obj(args, s), Src(s)>>} \cup (Mains \X {Obj(args, s)}),
               D \cup ({Obj(args, s)} \X ds))
<1> DEFINE o == Obj(args, s)
           k == BgAdd(g, ObjRule(s, ds))
           Y == X \cup {o}
           E == D \cup ({o} \X ds)
           T == S \cup {<<o, Src(s)>>}
<1>1. EmptyPath \notin Path /\ o \in Path
  BY PathFacts
<1>2. Shape(k, r, Y, T, E)
  BY ShapeRule
<1>3. DeclareObject(g, s, ds) = AddToOutputs(k, o)
  BY DEF DeclareObject
<1> HIDE DEF o, k, E, T
<1>4. CASE IsLib
  <2> DEFINE k2 == AddSrc(k, k.nodeMap[Lib], o)
             k3 == AddSrc(k2, k2.nodeMap[EmptyPath], o)
  <2>1. Lib \in Y /\ EmptyPath \in Y
    BY <1>4 DEF Mains
  <2> HIDE DEF Y
  <2>2. Shape(k2, r, Y, T \cup {<<Lib, o>>}, E)
    BY <1>1, <1>2, <2>1, ShapeSrc
  <2> HIDE DEF k2
  <2>3. Shape(k3, r, Y, T \cup {<<Lib, o>>} \cup {<<EmptyPath, o>>}, E)
    BY <1>1, <2>1, <2>2, ShapeSrc
  <2>4. AddToOutputs(k, o) = k3
    BY <1>4 DEF AddToOutputs, k2
  <2>5. T \cup {<<Lib, o>>} \cup {<<EmptyPath, o>>} = T \cup (Mains \X {o})
    BY <1>4 DEF Mains
  <2> QED BY <1>3, <2>3, <2>4, <2>5 DEF o, T, E, Y
<1>5. CASE ~IsLib
  <2> DEFINE k2 == AddSrc(k, k.nodeMap[Exe], o)
  <2>1. Exe \in Y
    BY <1>5 DEF Mains
  <2> HIDE DEF Y
  <2>2. Shape(k2, r, Y, T \cup {<<Exe, o>>}, E)
    BY <1>1, <1>2, <2>1, ShapeSrc
  <2>3. AddToOutputs(k, o) = k2
    BY <1>5 DEF AddToOutputs
  <2>4. T \cup {<<Exe, o>>} = T \cup (Mains \X {o})
    BY <1>5 DEF Mains
  <2> QED BY <1>3, <2>2, <2>3, <2>4 DEF o, T, E, Y
<1> QED BY <1>4, <1>5

(* The declaration of a test.                                                *)
LEMMA ShapeTest ==
  ASSUME args \in Args, NEW g, NEW r, NEW X, NEW S, NEW D, Shape(g, r, X, S, D),
         NEW s \in Test, NEW ds \in SUBSET Files
  PROVE  Shape(DeclareTest(g, s, ds), r, X \cup {Obj(args, s), TestExe(s)},
               S \cup {<<Obj(args, s), Src(s)>>, <<TestExe(s), Obj(args, s)>>},
               D \cup ({Obj(args, s)} \X ds) \cup {<<TestExe(s), Lib>>})
<1> DEFINE o == Obj(args, s)
           x == TestExe(s)
           p == Src(s)
           rule == ObjRule(s, ds)
           k == BgAdd(g, rule)
           k2 == BgAdd(k, rule)
           h == TgInit(k2, x, TRUE)
           t == h.nodeMap[x]
           h2 == AddSrc(h, t, o)
           h3 == AddDeps(h2, t, <<Lib, EmptyPath>>)
           Y == X \cup {o}
           E == D \cup ({o} \X ds)
           T == S \cup {<<o, p>>}
<1>1. EmptyPath \notin Path /\ o \in Path /\ x \in Path /\ Lib \in Path /\ s \in Source
  BY PathFacts
<1>2. Shape(k, r, Y, T, E)
  BY <1>1, ShapeRule
<1>3. Shape(k2, r, Y, T, E)
  <2> HIDE DEF k, E, T, Y
  <2>1. Shape(k2, r, Y \cup {o}, T \cup {<<o, p>>}, E \cup ({o} \X ds))
    BY <1>1, <1>2, ShapeRule
  <2>2. Y \cup {o} = Y /\ T \cup {<<o, p>>} = T /\ E \cup ({o} \X ds) = E
    BY DEF Y, T, E
  <2> QED BY <2>1, <2>2
<1>4. DeclareTest(g, s, ds) = h3
  BY DEF DeclareTest
<1> HIDE DEF k2, E, T, Y, o, x
<1>5. Shape(h, r, Y \cup {x}, T, E)
  BY <1>1, <1>3, ShapeInit
<1>6. x \in Y \cup {x}
  OBVIOUS
<1> HIDE DEF h
<1>7. Shape(h2, r, Y \cup {x}, T \cup {<<x, o>>}, E) /\ Extends(h2, h)
  BY <1>1, <1>5, <1>6, ShapeSrc
<1>8. h2.nodeMap[x] = t
  BY <1>5, <1>7 DEF Extends, Shape
<1> HIDE DEF h2, t
<1>9. Shape(h3, r, Y \cup {x}, T \cup {<<x, o>>}, E \cup Pairs(x, <<Lib, EmptyPath>>, 1))
  <2> DEFINE ps == <<Lib, EmptyPath>>
  <2>1. ps[1] = Lib /\ ps[2] = EmptyPath /\ DOMAIN ps = {1, 2} /\ Lib # EmptyPath
    BY <1>1
  <2> HIDE DEF ps
  <2>2. {i \in DOMAIN ps : ps[i] = EmptyPath} = {2}
    BY <2>1
  <2>3. UpTo(ps) = 1
    <3>1. (CHOOSE i \in {2} : \A j \in {2} : i <= j) = 2
      OBVIOUS
    <3> QED BY <2>2, <3>1 DEF UpTo
  <2>4. \A i \in 1 .. 1 : ps[i] \in Path
    BY <1>1, <2>1
  <2>5. Shape(AddDeps(h2, h2.nodeMap[x], ps), r, Y \cup {x}, T \cup {<<x, o>>}, E \cup Pairs(x, ps, 1))
    BY <1>1, <1>6, <1>7, <2>3, <2>4, ShapeDeps
  <2> QED BY <1>8, <2>5 DEF ps
<1>10. Pairs(x, <<Lib, EmptyPath>>, 1) = {<<x, Lib>>}
  BY DEF Pairs
<1>11. /\ Y \cup {x} = X \cup {o, x}
       /\ T \cup {<<x, o>>} = S \cup {<<o, p>>, <<x, o>>}
       /\ E \cup {<<x, Lib>>} = D \cup ({o} \X ds) \cup {<<x, Lib>>}
  BY DEF Y, T, E
<1> HIDE DEF h3
<1> QED BY <1>4, <1>9, <1>10, <1>11 DEF o, x

(* The loop over the sources is defined for every number of turns.          *)
WithObjectsRun(f, n, g, order, deps) ==
  f = [i \in 0 .. n |->
         IF i = 0 THEN g ELSE DeclareObject(f[i - 1], order[i], deps[order[i]])]

(* So it is: by the numbers of turns it is defined for. *)
LEMMA WithObjectsTurns ==
  ASSUME NEW g, NEW order, NEW deps
  PROVE  \A n \in Nat : \E f : WithObjectsRun(f, n, g, order, deps)
<1> DEFINE Q == {n \in Nat : \E f :
             f = [i \in 0 .. n |->
                    IF i = 0 THEN g ELSE DeclareObject(f[i - 1], order[i], deps[order[i]])]}
<1>1. 0 \in Q
  <2> DEFINE f == [i \in 0 .. 0 |-> g]
  <2>1. f = [i \in 0 .. 0 |->
               IF i = 0 THEN g ELSE DeclareObject(f[i - 1], order[i], deps[order[i]])]
    OBVIOUS
  <2> HIDE DEF f
  <2> QED BY <2>1
<1>2. ASSUME NEW n \in Nat, n \in Q PROVE n + 1 \in Q
  <2>1. PICK f : f = [i \in 0 .. n |->
                        IF i = 0 THEN g ELSE DeclareObject(f[i - 1], order[i], deps[order[i]])]
    BY <1>2
  <2> DEFINE last == DeclareObject(f[n], order[n + 1], deps[order[n + 1]])
             e == [i \in 0 .. n + 1 |-> IF i \in 0 .. n THEN f[i] ELSE last]
  <2>2. ASSUME NEW i \in 0 .. n + 1
        PROVE  e[i] = IF i = 0 THEN g ELSE DeclareObject(e[i - 1], order[i], deps[order[i]])
    <3>1. CASE i \in 0 .. n
      <4>1. e[i] = f[i] /\ (i # 0 => i - 1 \in 0 .. n /\ e[i - 1] = f[i - 1])
        BY <3>1
      <4>2. f[i] = IF i = 0 THEN g ELSE DeclareObject(f[i - 1], order[i], deps[order[i]])
        BY <2>1, <3>1
      <4> HIDE DEF e
      <4> QED BY <4>1, <4>2
    <3>2. CASE i = n + 1
      <4>1. i \notin 0 .. n /\ i # 0 /\ i - 1 = n /\ n \in 0 .. n
        BY <3>2
      <4>2. e[i] = last /\ e[i - 1] = f[n]
        BY <3>2, <4>1
      <4> HIDE DEF e
      <4> QED BY <3>2, <4>1, <4>2
    <3> QED BY <2>2, <3>1, <3>2
  <2>3. e = [i \in 0 .. n + 1 |->
               IF i = 0 THEN g ELSE DeclareObject(e[i - 1], order[i], deps[order[i]])]
    <3>1. e = [i \in 0 .. n + 1 |-> e[i]]
      OBVIOUS
    <3> HIDE DEF e
    <3> QED BY <2>2, <3>1
  <2> HIDE DEF e
  <2> QED BY <2>3
<1> HIDE DEF Q
<1>3. \A n \in Nat : n \in Q
  BY <1>1, <1>2, Countable
<1> QED BY <1>3 DEF Q, WithObjectsRun

(* The loop over the sources.                                               *)
LEMMA ShapeWithObjects ==
  ASSUME args \in Args, NEW g, NEW r, NEW X, NEW S, NEW D, Shape(g, r, X, S, D),
         Mains \subseteq X, NEW ss \in SUBSET Source, NEW deps \in [Source -> SUBSET Files]
  PROVE  Shape(WithObjects(g, SetToSeq(ss), deps), r, X \cup Objs(ss),
               S \cup (ObjSrcs(ss) \cup (Mains \X Objs(ss))), D \cup ObjDeps(ss, deps))
<1> DEFINE order == SetToSeq(ss)
           n == Len(order)
           f == CHOOSE f : WithObjectsRun(f, n, g, order, deps)
           Fst(k) == {order[i] : i \in 1 .. k}
           Good(h, as) == Shape(h, r, X \cup Objs(as),
                                S \cup (ObjSrcs(as) \cup (Mains \X Objs(as))),
                                D \cup ObjDeps(as, deps))
           Q == {k \in Nat : k <= n => Good(f[k], Fst(k))}
<1>1. /\ n \in Nat /\ Fst(n) = ss
      /\ \A i \in 1 .. n : order[i] \in ss /\ order[i] \in Source
  <2>1. IsFiniteSet(ss)
    BY PathFacts, FS_Subset
  <2>2. /\ n \in Nat /\ DOMAIN order = 1 .. n
        /\ Range(order) = ss
    BY <2>1, SetToSeqIs
  <2> HIDE DEF order, n
  <2>3. Fst(n) = ss
    BY <2>2 DEF Range
  <2>4. \A i \in 1 .. n : order[i] \in ss
    BY <2>3
  <2> QED BY <2>2, <2>3, <2>4
<1> HIDE DEF order
<1>2. WithObjectsRun(f, n, g, order, deps)
  BY <1>1, WithObjectsTurns
<1>3. WithObjects(g, order, deps) = f[n]
  BY DEF WithObjects, WithObjectsRun
<1> HIDE DEF f, n
<1>4. 0 \in Q
  <2>1. f[0] = g /\ Fst(0) = {}
    BY <1>1, <1>2 DEF WithObjectsRun
  <2>2. /\ X \cup Objs({}) = X /\ S \cup (ObjSrcs({}) \cup (Mains \X Objs({}))) = S
        /\ D \cup ObjDeps({}, deps) = D
    BY DEF Objs, ObjSrcs, ObjDeps, TestSrcs, TestDeps
  <2>3. Good(g, {})
    BY <2>2
  <2> HIDE DEF Good, Fst
  <2> QED BY <2>1, <2>3
<1>5. ASSUME NEW k \in Nat, k \in Q PROVE k + 1 \in Q
  <2> SUFFICES ASSUME k + 1 <= n PROVE Good(f[k + 1], Fst(k + 1))
    OBVIOUS
  <2> DEFINE s == order[k + 1]
             as == Fst(k)
  <2>1. Good(f[k], as)
    BY <1>1, <1>5
  <2>2. f[k + 1] = DeclareObject(f[k], s, deps[s])
    <3>1. k + 1 \in 0 .. n /\ k + 1 # 0 /\ (k + 1) - 1 = k
      BY <1>1
    <3> QED BY <1>2, <3>1 DEF WithObjectsRun
  <2>3. s \in Source /\ s \in Source /\ deps[s] \in SUBSET Files
    BY <1>1
  <2>4. Fst(k + 1) = as \cup {s}
    <3>1. 1 .. k + 1 = 1 .. k \cup {k + 1}
      OBVIOUS
    <3> QED BY <3>1
  <2> HIDE DEF s, as, Fst
  <2> DEFINE Y == X \cup Objs(as)
             T == S \cup (ObjSrcs(as) \cup (Mains \X Objs(as)))
             E == D \cup ObjDeps(as, deps)
             o == Obj(args, s)
  <2>5. Mains \subseteq Y
    OBVIOUS
  <2>6. Shape(f[k], r, Y, T, E)
    BY <2>1
  <2> HIDE DEF Y, T, E
  <2>7. Shape(f[k + 1], r, Y \cup {o}, T \cup {<<o, Src(s)>>} \cup (Mains \X {o}), E \cup ({o} \X deps[s]))
    BY <2>2, <2>3, <2>5, <2>6, ShapeObject
  <2>8. Y \cup {o} = X \cup Objs(as \cup {s})
    BY DEF Y, Objs
  <2>9. Mains \X Objs(as \cup {s}) = (Mains \X Objs(as)) \cup (Mains \X {o})
    BY DEF Objs
  <2>10. ObjSrcs(as \cup {s}) = ObjSrcs(as) \cup {<<o, Src(s)>>}
    BY DEF ObjSrcs
  <2>11. T \cup {<<o, Src(s)>>} \cup (Mains \X {o})
           = S \cup (ObjSrcs(as \cup {s}) \cup (Mains \X Objs(as \cup {s})))
    <3> DEFINE M == Mains \X Objs(as)
               M1 == Mains \X {o}
               M2 == Mains \X Objs(as \cup {s})
               A == ObjSrcs(as)
               A2 == ObjSrcs(as \cup {s})
               P == {<<o, Src(s)>>}
    <3>1. M2 = M \cup M1 /\ A2 = A \cup P /\ T = S \cup (A \cup M)
      BY <2>9, <2>10 DEF T
    <3> HIDE DEF M, M1, M2, A, A2, P
    <3>2. T \cup P \cup M1 = S \cup (A2 \cup M2)
      BY <3>1
    <3> QED BY <3>2 DEF M1, M2, A2, P
  <2>12. E \cup ({o} \X deps[s]) = D \cup ObjDeps(as \cup {s}, deps)
    <3>1. ObjDeps(as \cup {s}, deps) = ObjDeps(as, deps) \cup ({o} \X deps[s])
      BY DEF ObjDeps
    <3> QED BY <3>1 DEF E
  <2> QED BY <2>4, <2>7, <2>8, <2>11, <2>12
<1>6. n \in Q
  <2> HIDE DEF Q
  <2> QED BY <1>1, <1>4, <1>5, Countable
<1>7. Good(f[n], Fst(n))
  BY <1>6
<1> QED BY <1>1, <1>3, <1>7 DEF order

(* The loop over the tests is defined for every number of turns.            *)
WithTestsRun(f, n, g, order, deps) ==
  f = [i \in 0 .. n |->
         IF i = 0 THEN g ELSE DeclareTest(f[i - 1], order[i], deps[order[i]])]

(* So it is: by the numbers of turns it is defined for. *)
LEMMA WithTestsTurns ==
  ASSUME NEW g, NEW order, NEW deps
  PROVE  \A n \in Nat : \E f : WithTestsRun(f, n, g, order, deps)
<1> DEFINE Q == {n \in Nat : \E f :
             f = [i \in 0 .. n |->
                    IF i = 0 THEN g ELSE DeclareTest(f[i - 1], order[i], deps[order[i]])]}
<1>1. 0 \in Q
  <2> DEFINE f == [i \in 0 .. 0 |-> g]
  <2>1. f = [i \in 0 .. 0 |->
               IF i = 0 THEN g ELSE DeclareTest(f[i - 1], order[i], deps[order[i]])]
    OBVIOUS
  <2> HIDE DEF f
  <2> QED BY <2>1
<1>2. ASSUME NEW n \in Nat, n \in Q PROVE n + 1 \in Q
  <2>1. PICK f : f = [i \in 0 .. n |->
                        IF i = 0 THEN g ELSE DeclareTest(f[i - 1], order[i], deps[order[i]])]
    BY <1>2
  <2> DEFINE last == DeclareTest(f[n], order[n + 1], deps[order[n + 1]])
             e == [i \in 0 .. n + 1 |-> IF i \in 0 .. n THEN f[i] ELSE last]
  <2>2. ASSUME NEW i \in 0 .. n + 1
        PROVE  e[i] = IF i = 0 THEN g ELSE DeclareTest(e[i - 1], order[i], deps[order[i]])
    <3>1. CASE i \in 0 .. n
      <4>1. e[i] = f[i] /\ (i # 0 => i - 1 \in 0 .. n /\ e[i - 1] = f[i - 1])
        BY <3>1
      <4>2. f[i] = IF i = 0 THEN g ELSE DeclareTest(f[i - 1], order[i], deps[order[i]])
        BY <2>1, <3>1
      <4> HIDE DEF e
      <4> QED BY <4>1, <4>2
    <3>2. CASE i = n + 1
      <4>1. i \notin 0 .. n /\ i # 0 /\ i - 1 = n /\ n \in 0 .. n
        BY <3>2
      <4>2. e[i] = last /\ e[i - 1] = f[n]
        BY <3>2, <4>1
      <4> HIDE DEF e
      <4> QED BY <3>2, <4>1, <4>2
    <3> QED BY <2>2, <3>1, <3>2
  <2>3. e = [i \in 0 .. n + 1 |->
               IF i = 0 THEN g ELSE DeclareTest(e[i - 1], order[i], deps[order[i]])]
    <3>1. e = [i \in 0 .. n + 1 |-> e[i]]
      OBVIOUS
    <3> HIDE DEF e
    <3> QED BY <2>2, <3>1
  <2> HIDE DEF e
  <2> QED BY <2>3
<1> HIDE DEF Q
<1>3. \A n \in Nat : n \in Q
  BY <1>1, <1>2, Countable
<1> QED BY <1>3 DEF Q, WithTestsRun

(* The loop over the tests.                                                 *)
LEMMA ShapeWithTests ==
  ASSUME args \in Args, NEW g, NEW r, NEW X, NEW S, NEW D, Shape(g, r, X, S, D),
         Mains \subseteq X, NEW ss \in SUBSET Test, NEW deps \in [Source -> SUBSET Files]
  PROVE  Shape(WithTests(g, SetToSeq(ss), deps), r,
               X \cup (Objs(ss) \cup {TestExe(s) : s \in ss}),
               S \cup (ObjSrcs(ss) \cup TestSrcs(ss)),
               D \cup (ObjDeps(ss, deps) \cup TestDeps(ss)))
<1> DEFINE order == SetToSeq(ss)
           n == Len(order)
           f == CHOOSE f : WithTestsRun(f, n, g, order, deps)
           Fst(k) == {order[i] : i \in 1 .. k}
           Good(h, as) == Shape(h, r,
                                X \cup (Objs(as) \cup {TestExe(u) : u \in as}),
                                S \cup (ObjSrcs(as) \cup TestSrcs(as)),
                                D \cup (ObjDeps(as, deps) \cup TestDeps(as)))
           Q == {k \in Nat : k <= n => Good(f[k], Fst(k))}
<1>1. /\ n \in Nat /\ Fst(n) = ss
      /\ \A i \in 1 .. n : order[i] \in ss /\ order[i] \in Test /\ order[i] \in Source
  <2>1. IsFiniteSet(ss)
    BY PathFacts, FS_Subset
  <2>2. /\ n \in Nat /\ DOMAIN order = 1 .. n
        /\ Range(order) = ss
    BY <2>1, SetToSeqIs
  <2> HIDE DEF order, n
  <2>3. Fst(n) = ss
    BY <2>2 DEF Range
  <2>4. \A i \in 1 .. n : order[i] \in ss
    BY <2>3
  <2>5. Test \subseteq Source
    BY PathFacts
  <2> QED BY <2>2, <2>3, <2>4, <2>5
<1> HIDE DEF order
<1>2. WithTestsRun(f, n, g, order, deps)
  BY <1>1, WithTestsTurns
<1>3. WithTests(g, order, deps) = f[n]
  BY DEF WithTests, WithTestsRun
<1> HIDE DEF f, n
<1>4. 0 \in Q
  <2>1. f[0] = g /\ Fst(0) = {}
    BY <1>1, <1>2 DEF WithTestsRun
  <2>2. /\ X \cup (Objs({}) \cup {TestExe(s) : s \in {}}) = X /\ S \cup (ObjSrcs({}) \cup TestSrcs({})) = S
        /\ D \cup (ObjDeps({}, deps) \cup TestDeps({})) = D
    BY DEF Objs, ObjSrcs, ObjDeps, TestSrcs, TestDeps
  <2>3. Good(g, {})
    BY <2>2
  <2> HIDE DEF Good, Fst
  <2> QED BY <2>1, <2>3
<1>5. ASSUME NEW k \in Nat, k \in Q PROVE k + 1 \in Q
  <2> SUFFICES ASSUME k + 1 <= n PROVE Good(f[k + 1], Fst(k + 1))
    OBVIOUS
  <2> DEFINE s == order[k + 1]
             as == Fst(k)
  <2>1. Good(f[k], as)
    BY <1>1, <1>5
  <2>2. f[k + 1] = DeclareTest(f[k], s, deps[s])
    <3>1. k + 1 \in 0 .. n /\ k + 1 # 0 /\ (k + 1) - 1 = k
      BY <1>1
    <3> QED BY <1>2, <3>1 DEF WithTestsRun
  <2>3. s \in Test /\ s \in Source /\ deps[s] \in SUBSET Files
    BY <1>1
  <2>4. Fst(k + 1) = as \cup {s}
    <3>1. 1 .. k + 1 = 1 .. k \cup {k + 1}
      OBVIOUS
    <3> QED BY <3>1
  <2> HIDE DEF s, as, Fst
  <2> DEFINE Y == X \cup (Objs(as) \cup {TestExe(u) : u \in as})
             T == S \cup (ObjSrcs(as) \cup TestSrcs(as))
             E == D \cup (ObjDeps(as, deps) \cup TestDeps(as))
             o == Obj(args, s)
             x == TestExe(s)
  <2>6. Shape(f[k], r, Y, T, E)
    BY <2>1
  <2> HIDE DEF Y, T, E
  <2>7. Shape(f[k + 1], r, Y \cup {o, x}, T \cup {<<o, Src(s)>>, <<x, o>>},
              E \cup ({o} \X deps[s]) \cup {<<x, Lib>>})
    BY <2>2, <2>3, <2>6, ShapeTest
  <2>8. Y \cup {o, x} = X \cup (Objs(as \cup {s}) \cup {TestExe(u) : u \in as \cup {s}})
    BY DEF Y, Objs
  <2>9. T \cup {<<o, Src(s)>>, <<x, o>>} = S \cup (ObjSrcs(as \cup {s}) \cup TestSrcs(as \cup {s}))
    <3>1. /\ ObjSrcs(as \cup {s}) = ObjSrcs(as) \cup {<<o, Src(s)>>}
          /\ TestSrcs(as \cup {s}) = TestSrcs(as) \cup {<<x, o>>}
      BY DEF ObjSrcs, TestSrcs
    <3> QED BY <3>1 DEF T
  <2>10. E \cup ({o} \X deps[s]) \cup {<<x, Lib>>}
           = D \cup (ObjDeps(as \cup {s}, deps) \cup TestDeps(as \cup {s}))
    <3>1. /\ ObjDeps(as \cup {s}, deps) = ObjDeps(as, deps) \cup ({o} \X deps[s])
          /\ TestDeps(as \cup {s}) = TestDeps(as) \cup {<<x, Lib>>}
      BY DEF ObjDeps, TestDeps
    <3> QED BY <3>1 DEF E
  <2> QED BY <2>4, <2>7, <2>8, <2>9, <2>10
<1>6. n \in Q
  <2> HIDE DEF Q
  <2> QED BY <1>1, <1>4, <1>5, Countable
<1>7. Good(f[n], Fst(n))
  BY <1>6
<1> QED BY <1>1, <1>3, <1>7 DEF order

(* The first output of a script.                                             *)
LEMMA ShapeFirst ==
  ASSUME NEW p \in Path \cup {EmptyPath}
  PROVE  Shape(TgInit(EmptyGraph, p, TRUE), p, {p}, {}, {})
<1> DEFINE h == GetOrPut(EmptyGraph, p)
           k == TgInit(EmptyGraph, p, TRUE)
           t == h.nodeMap[p]
<1>1. WellFormed(EmptyGraph) /\ Ids(EmptyGraph) = {} /\ DOMAIN EmptyGraph.nodeMap = {}
      /\ EmptyGraph.size = 0
  BY EmptyGraphGood DEF EmptyGraph, Ids
<1>2. /\ WellFormed(h) /\ DOMAIN h.nodeMap = {p} /\ t \in Ids(h)
      /\ \A i \in Ids(h) : h.nodes[i] = NewNode(p)
  <2>1. WellFormed(EmptyGraph)
    BY <1>1
  <2> QED BY <1>1, <2>1, PutIs
<1>3. t = 0
  <2>1. GraphClosed(EmptyGraph)
    BY <1>1 DEF WellFormed
  <2>2. h.nodeMap[p] = EmptyGraph.size
    BY <1>1, <2>1, GetOrPutEffect
  <2> QED BY <1>1, <2>2
<1>4. /\ WellFormed(k) /\ Ids(k) = Ids(h) /\ k.nodeMap = h.nodeMap
      /\ \A i \in Ids(h) :
           LET n == h.nodes[i] m == k.nodes[i] IN
           /\ m.output = n.output /\ m.sources = n.sources /\ m.deps = n.deps
           /\ m.phony = n.phony /\ m.always = n.always
           /\ i # t => m.target = n.target /\ m.builder = n.builder
           /\ i = t => m.target = TRUE /\ m.builder = TRUE
  BY <1>1, InitIs
<1> HIDE DEF h, t
<1>5. \A i \in Ids(h) : i = t
  BY <1>2 DEF WellFormed, MapExact, NewNode, t
<1> HIDE DEF k
<1>6. ASSUME NEW i \in Ids(k)
      PROVE  LET n == k.nodes[i] IN
             /\ (n.target <=> n.output \in {p}) /\ (n.builder <=> n.output \in {p})
             /\ ~n.phony /\ ~n.always
             /\ \A q : q \in Range(n.sources) <=> <<n.output, q>> \in {}
             /\ \A q : q \in Range(n.deps) <=> <<n.output, q>> \in {}
  <2>1. i \in Ids(h) /\ i = t /\ h.nodes[i] = NewNode(p)
    BY <1>2, <1>4, <1>5
  <2>2. /\ NewNode(p).output = p /\ NewNode(p).sources = <<>> /\ NewNode(p).deps = <<>>
        /\ ~NewNode(p).phony /\ ~NewNode(p).always
    BY DEF NewNode
  <2> QED BY <1>4, <2>1, <2>2, RangeEmpty
<1> QED BY <1>2, <1>3, <1>4, <1>6 DEF Shape, k, t

(* The outputs, sources and deps of the graph of a template.                 *)
AllOutputs(ss) == Mains \cup Objs(ss) \cup Objs(Test) \cup {TestExe(s) : s \in Test}
AllSrcs(ss) == (ObjSrcs(ss) \cup (Mains \X Objs(ss))) \cup (ObjSrcs(Test) \cup TestSrcs(Test))
AllDeps(ss, deps) == ObjDeps(ss, deps) \cup (ObjDeps(Test, deps) \cup TestDeps(Test))

(* The whole graph of a template has that shape, whatever the order of       *)
(* sources, tests and deps.                                                  *)
LEMMA ShapeGraph ==
  ASSUME args \in Args, NEW ss \in SUBSET Source, NEW deps \in [Source -> SUBSET Files]
  PROVE  Shape(Graph(ss, deps), Main, AllOutputs(ss), AllSrcs(ss), AllDeps(ss, deps))
<1> DEFINE g == IF IsLib THEN InitLibs ELSE InitExe
           h == WithObjects(g, SetToSeq(ss), deps)
           k == WithTests(h, SetToSeq(Test), deps)
<1>1. Shape(g, Main, Mains, {}, {})
  <2>1. Exe \in Path /\ Lib \in Path
    BY PathFacts
  <2>2. CASE IsLib
    <3>1. Shape(TgInit(EmptyGraph, Lib, TRUE), Lib, {Lib}, {}, {})
      BY <2>1, ShapeFirst
    <3>2. Shape(InitLibs, Lib, {Lib} \cup {EmptyPath}, {}, {})
      BY <3>1, ShapeInit DEF InitLibs
    <3>3. {Lib} \cup {EmptyPath} = Mains /\ Main = Lib /\ g = InitLibs
      BY <2>2 DEF Mains, Main
    <3> QED BY <3>2, <3>3
  <2>3. CASE ~IsLib
    <3>1. Shape(InitExe, Exe, {Exe}, {}, {})
      BY <2>1, ShapeFirst DEF InitExe
    <3>2. {Exe} = Mains /\ Main = Exe /\ g = InitExe
      BY <2>3 DEF Mains, Main
    <3> QED BY <3>1, <3>2
  <2> QED BY <2>2, <2>3
<1>2. k = Graph(ss, deps)
  BY DEF Graph
<1> HIDE DEF g, k
<1>3. Shape(h, Main, Mains \cup Objs(ss), {} \cup (ObjSrcs(ss) \cup (Mains \X Objs(ss))),
            {} \cup ObjDeps(ss, deps))
  BY <1>1, ShapeWithObjects
<1> DEFINE X == Mains \cup Objs(ss)
           S == ObjSrcs(ss) \cup (Mains \X Objs(ss))
           D == ObjDeps(ss, deps)
<1>4. Shape(h, Main, X, S, D) /\ Mains \subseteq X /\ Test \in SUBSET Test
  BY <1>3
<1> HIDE DEF h, X, S, D
<1>5. Shape(k, Main, X \cup (Objs(Test) \cup {TestExe(s) : s \in Test}),
            S \cup (ObjSrcs(Test) \cup TestSrcs(Test)),
            D \cup (ObjDeps(Test, deps) \cup TestDeps(Test)))
  BY <1>4, ShapeWithTests DEF k
<1>6. /\ X \cup (Objs(Test) \cup {TestExe(s) : s \in Test}) = AllOutputs(ss)
      /\ S \cup (ObjSrcs(Test) \cup TestSrcs(Test)) = AllSrcs(ss)
      /\ D \cup (ObjDeps(Test, deps) \cup TestDeps(Test)) = AllDeps(ss, deps)
  BY DEF AllOutputs, AllSrcs, AllDeps, X, S, D
<1> QED BY <1>2, <1>5, <1>6

-----------------------------------------------------------------------------
(* It has no cycle, and its edges are known. *)

(* What is in a sequence is in it some times.                                *)
LEMMA TimesPositive ==
  ASSUME NEW T, NEW s \in Seq(T), NEW y
  PROVE  Times(s, y) \in Nat /\ (Times(s, y) > 0 <=> y \in Range(s))
<1> DEFINE A == {i \in DOMAIN s : s[i] = y}
<1>1. IsFiniteSet(A) /\ Cardinality(A) \in Nat /\ Times(s, y) = Cardinality(A)
  BY TimesType DEF Times
<1>2. Cardinality(A) = 0 <=> A = {}
  BY <1>1, FS_EmptySet
<1>3. A # {} <=> y \in Range(s)
  BY DEF Range
<1> HIDE DEF A
<1> QED BY <1>1, <1>2, <1>3

(* A node waits for what is declared as its source or dep.                   *)
LEMMA EdgeIs ==
  ASSUME NEW g, NEW r, NEW X, NEW S, NEW D, Shape(g, r, X, S, D),
         NEW t \in Ids(g), NEW d \in Ids(g)
  PROVE  d \in Inputs(g, t) <=> <<g.nodes[t].output, g.nodes[d].output>> \in S \cup D
<1> DEFINE n == g.nodes[t]
           p == g.nodes[d].output
<1>1. WellFormed(g)
  BY DEF Shape
<1>2. /\ n.sources \in Seq(DOMAIN g.nodeMap) /\ n.deps \in Seq(DOMAIN g.nodeMap)
      /\ n.waitsOn \in Seq(Ids(g))
  BY <1>1 DEF WellFormed, GraphClosed, NodeOver
<1>3. Times(n.waitsOn, d) = Times(n.sources, p) + Times(n.deps, p)
  BY <1>1 DEF WellFormed, WaitsExact
<1>4. Inputs(g, t) = Range(n.waitsOn)
  BY DEF Inputs, Range
<1>5. /\ p \in Range(n.sources) <=> <<n.output, p>> \in S
      /\ p \in Range(n.deps) <=> <<n.output, p>> \in D
  BY DEF Shape
<1>6. /\ Times(n.sources, p) \in Nat /\ (Times(n.sources, p) > 0 <=> p \in Range(n.sources))
      /\ Times(n.deps, p) \in Nat /\ (Times(n.deps, p) > 0 <=> p \in Range(n.deps))
      /\ Times(n.waitsOn, d) \in Nat /\ (Times(n.waitsOn, d) > 0 <=> d \in Range(n.waitsOn))
  <2> HIDE DEF n, p
  <2> QED BY <1>2, TimesPositive
<1>7. d \in Inputs(g, t) <=> p \in Range(n.sources) \/ p \in Range(n.deps)
  <2> HIDE DEF n, p
  <2>1. Times(n.waitsOn, d) > 0 <=> Times(n.sources, p) > 0 \/ Times(n.deps, p) > 0
    BY <1>3, <1>6
  <2> QED BY <1>4, <1>6, <2>1
<1> HIDE DEF n
<1> QED BY <1>5, <1>7 DEF n

(* A graph whose edges all go down is without cycles.                        *)
LEMMA RankAcyclic ==
  ASSUME NEW g, GraphClosed(g), NEW rk, \A t \in Ids(g) : rk[t] \in Nat,
         \A t \in Ids(g) : \A d \in Inputs(g, t) : rk[d] < rk[t]
  PROVE  Acyclic(g)
<1> SUFFICES ASSUME NEW t \in Ids(g) PROVE t \notin Closure(g, Inputs(g, t))
  BY DEF Acyclic
<1> DEFINE T == {d \in Ids(g) : rk[d] < rk[t]}
<1>1. \A u \in Ids(g) : Inputs(g, u) \in SUBSET Ids(g)
  BY InputsInGraph
<1>2. Inputs(g, t) \subseteq T
  BY <1>1
<1>3. IsClosed(g, T)
  <2> SUFFICES ASSUME NEW u \in T, NEW d \in Inputs(g, u) PROVE d \in T
    BY DEF IsClosed
  <2>1. u \in Ids(g) /\ d \in Ids(g) /\ rk[d] < rk[u] /\ rk[u] < rk[t]
    BY <1>1
  <2>2. rk[d] \in Nat /\ rk[u] \in Nat /\ rk[t] \in Nat
    BY <2>1
  <2> QED BY <2>1, <2>2
<1>4. t \notin T
  OBVIOUS
<1> HIDE DEF T
<1> QED BY <1>1, <1>2, <1>3, <1>4, ClosureLeast

(* The paths of a template are all different.                                *)
LEMMA Distinct ==
  ASSUME args \in Args
  PROVE  /\ \A s, u : Obj(args, s) = Obj(args, u) => s = u
         /\ \A s, u : TestExe(s) = TestExe(u) => s = u
         /\ \A s, u : /\ Obj(args, s) # TestExe(u) /\ Obj(args, s) # Src(u)
                      /\ TestExe(s) # Src(u) /\ TestExe(s) # Hdr(u) /\ Obj(args, s) # Hdr(u)
         /\ \A s : /\ Obj(args, s) # Exe /\ Obj(args, s) # Lib
                   /\ TestExe(s) # Exe /\ TestExe(s) # Lib
                   /\ Exe # Src(s) /\ Lib # Src(s) /\ Exe # Hdr(s) /\ Lib # Hdr(s)
         /\ Exe # Lib /\ Exe # EmptyPath /\ Lib # EmptyPath
         /\ \A s \in Source : Obj(args, s) # EmptyPath
         /\ \A s \in Test : TestExe(s) # EmptyPath
         /\ EmptyPath \notin Files
<1>1. ObjDir(args) \notin {"src", "include", "build", "test"}
  BY PathAssumption DEF ObjDir
<1>2. /\ \A s \in Source : Obj(args, s) # EmptyPath
      /\ \A s \in Test : TestExe(s) # EmptyPath
      /\ Exe # EmptyPath /\ Lib # EmptyPath /\ EmptyPath \notin Files
  BY PathFacts
<1> QED BY <1>1, <1>2 DEF Obj, TestExe, Src, Hdr, Exe, Lib

(* What the outputs of a template wait for.                                  *)
Edges(ss, deps) == AllSrcs(ss) \cup AllDeps(ss, deps)

(* By output: an object waits for its source and what its dependency file    *)
(* names, what is linked for its objects, a test for its object and the      *)
(* library.                                                                  *)
LEMMA EdgesAre ==
  ASSUME args \in Args, NEW ss \in SUBSET Source, NEW deps \in [Source -> SUBSET Files]
  PROVE  /\ \A s \in ss \cup Test : \A q :
              <<Obj(args, s), q>> \in Edges(ss, deps) <=> q \in {Src(s)} \cup deps[s]
         /\ \A m \in Mains : \A q : <<m, q>> \in Edges(ss, deps) <=> q \in Objs(ss)
         /\ \A s \in Test : \A q :
              <<TestExe(s), q>> \in Edges(ss, deps) <=> q \in {Obj(args, s), Lib}
         /\ \A x, q : <<x, q>> \in Edges(ss, deps) => x \in AllOutputs(ss)
<1>0. ss \subseteq Source /\ Test \subseteq Source
  BY PathFacts
<1>1. ASSUME NEW x, NEW q
      PROVE  <<x, q>> \in Edges(ss, deps) <=>
               \/ \E s \in ss \cup Test : x = Obj(args, s) /\ q \in {Src(s)} \cup deps[s]
               \/ x \in Mains /\ q \in Objs(ss)
               \/ \E s \in Test : x = TestExe(s) /\ q \in {Obj(args, s), Lib}
  <2>1. <<x, q>> \in ObjSrcs(ss) <=> \E s \in ss : x = Obj(args, s) /\ q = Src(s)
    BY DEF ObjSrcs
  <2>2. <<x, q>> \in ObjSrcs(Test) <=> \E s \in Test : x = Obj(args, s) /\ q = Src(s)
    BY DEF ObjSrcs
  <2>3. <<x, q>> \in ObjDeps(ss, deps) <=> \E s \in ss : x = Obj(args, s) /\ q \in deps[s]
    BY DEF ObjDeps
  <2>4. <<x, q>> \in ObjDeps(Test, deps) <=> \E s \in Test : x = Obj(args, s) /\ q \in deps[s]
    BY DEF ObjDeps
  <2>5. <<x, q>> \in Mains \X Objs(ss) <=> x \in Mains /\ q \in Objs(ss)
    OBVIOUS
  <2>6. <<x, q>> \in TestSrcs(Test) <=> \E s \in Test : x = TestExe(s) /\ q = Obj(args, s)
    BY DEF TestSrcs
  <2>7. <<x, q>> \in TestDeps(Test) <=> \E s \in Test : x = TestExe(s) /\ q = Lib
    BY DEF TestDeps
  <2>8. <<x, q>> \in Edges(ss, deps) <=>
          \/ <<x, q>> \in ObjSrcs(ss) \/ <<x, q>> \in Mains \X Objs(ss)
          \/ <<x, q>> \in ObjSrcs(Test) \/ <<x, q>> \in TestSrcs(Test)
          \/ <<x, q>> \in ObjDeps(ss, deps) \/ <<x, q>> \in ObjDeps(Test, deps)
          \/ <<x, q>> \in TestDeps(Test)
    BY DEF Edges, AllSrcs, AllDeps
  <2> QED BY <2>1, <2>2, <2>3, <2>4, <2>5, <2>6, <2>7, <2>8
<1>2. ASSUME NEW s \in ss \cup Test, NEW q
      PROVE  <<Obj(args, s), q>> \in Edges(ss, deps) <=> q \in {Src(s)} \cup deps[s]
  BY <1>0, <1>1, Distinct DEF Mains
<1>3. ASSUME NEW m \in Mains, NEW q
      PROVE  <<m, q>> \in Edges(ss, deps) <=> q \in Objs(ss)
  BY <1>0, <1>1, Distinct DEF Mains
<1>4. ASSUME NEW s \in Test, NEW q
      PROVE  <<TestExe(s), q>> \in Edges(ss, deps) <=> q \in {Obj(args, s), Lib}
  BY <1>0, <1>1, Distinct DEF Mains
<1>5. ASSUME NEW x, NEW q, <<x, q>> \in Edges(ss, deps) PROVE x \in AllOutputs(ss)
  BY <1>1, <1>5 DEF AllOutputs, Objs
<1> QED BY <1>2, <1>3, <1>4, <1>5

(* How far an output is from the files.                                      *)
Rank(p) ==
  IF p \in Mains THEN 2
  ELSE IF p \in {TestExe(s) : s \in Test} THEN 3
  ELSE IF p \in Objs(Source) THEN 1 ELSE 0

(* The graph of a template has no cycle, which the library does not look     *)
(* for: every edge leads to an output of lower rank.                         *)
THEOREM GraphAcyclic ==
  ASSUME args \in Args, NEW ss \in SUBSET Source, NEW deps \in [Source -> SUBSET Files]
  PROVE  Acyclic(Graph(ss, deps))
<1> DEFINE g == Graph(ss, deps)
           rk == [i \in Ids(g) |-> Rank(g.nodes[i].output)]
<1>1. Shape(g, Main, AllOutputs(ss), AllSrcs(ss), AllDeps(ss, deps))
  BY ShapeGraph
<1> HIDE DEF g
<1>2. GraphClosed(g)
  BY <1>1 DEF Shape, WellFormed
<1>3. \A x, q : <<x, q>> \in Edges(ss, deps) => Rank(q) < Rank(x)
  <2> SUFFICES ASSUME NEW x, NEW q, <<x, q>> \in Edges(ss, deps)
               PROVE  Rank(q) < Rank(x)
    OBVIOUS
  <2>0. x \in AllOutputs(ss) /\ ss \subseteq Source /\ Test \subseteq Source
    BY EdgesAre, PathFacts
  <2>1. CASE \E s \in ss \cup Test : x = Obj(args, s)
    <3>1. PICK s \in ss \cup Test : x = Obj(args, s)
      BY <2>1
    <3>2. q \in {Src(s)} \cup deps[s]
      BY <3>1, EdgesAre
    <3>3. q \in Files
      BY <2>0, <3>2 DEF Files, File
    <3>4. \E f : q = Src(f) \/ q = Hdr(f)
      BY <3>3 DEF Files, File
    <3>5. Rank(q) = 0
      <4>1. q \notin Mains
        BY <3>3, <3>4, Distinct DEF Mains
      <4>2. q \notin {TestExe(u) : u \in Test} /\ q \notin Objs(Source)
        BY <3>4, Distinct DEF Objs
      <4> QED BY <4>1, <4>2 DEF Rank
    <3>6. Rank(x) = 1
      <4>1. x \notin Mains
        BY <2>0, <3>1, Distinct DEF Mains
      <4>2. x \notin {TestExe(u) : u \in Test} /\ x \in Objs(Source)
        BY <2>0, <3>1, Distinct DEF Objs
      <4> QED BY <4>1, <4>2 DEF Rank
    <3> QED BY <3>5, <3>6
  <2>2. CASE x \in Mains
    <3>1. q \in Objs(ss)
      BY <2>2, EdgesAre
    <3>2. PICK s \in ss : q = Obj(args, s)
      BY <3>1 DEF Objs
    <3>3. q \notin Mains
      BY <2>0, <3>2, Distinct DEF Mains
    <3>4. q \notin {TestExe(u) : u \in Test} /\ q \in Objs(Source)
      BY <2>0, <3>2, Distinct DEF Objs
    <3> QED BY <2>2, <3>3, <3>4 DEF Rank
  <2>3. CASE \E s \in Test : x = TestExe(s)
    <3>1. PICK s \in Test : x = TestExe(s)
      BY <2>3
    <3>2. q \in {Obj(args, s), Lib}
      BY <3>1, EdgesAre
    <3>3. IsLib
      BY DEF Test
    <3>4. Rank(x) = 3
      <4>1. x \notin Mains
        BY <3>1, <3>3, Distinct DEF Mains
      <4> QED BY <2>3, <4>1 DEF Rank
    <3>5. CASE q = Lib
      BY <3>3, <3>4, <3>5 DEF Rank, Mains
    <3>6. CASE q = Obj(args, s)
      <4>1. q \notin Mains
        BY <2>0, <3>6, Distinct DEF Mains
      <4>2. q \notin {TestExe(u) : u \in Test}
        BY <3>6, Distinct
      <4> QED BY <3>4, <4>1, <4>2 DEF Rank
    <3> QED BY <3>2, <3>5, <3>6
  <2> QED BY <2>0, <2>1, <2>2, <2>3 DEF AllOutputs, Objs
<1>4. \A t \in Ids(g) : rk[t] \in Nat
  BY DEF Rank
<1>5. ASSUME NEW t \in Ids(g), NEW d \in Inputs(g, t) PROVE rk[d] < rk[t]
  <2>1. d \in Ids(g)
    BY <1>2, InputsInGraph
  <2>2. <<g.nodes[t].output, g.nodes[d].output>> \in Edges(ss, deps)
    BY <1>1, <2>1, EdgeIs DEF Edges
  <2> QED BY <1>3, <2>1, <2>2
<1> HIDE DEF rk
<1> QED BY <1>2, <1>4, <1>5, RankAcyclic DEF g

-----------------------------------------------------------------------------
(* What zmm_bg_prepare finds dirty in it. *)

(* The names of the nodes that zmm_bg_prepare finds dirty.                   *)
DirtyNames(g) == {g.nodes[n].output : n \in Prepared(g).dirty}

(* What is asked for, and the inputs of it.                                  *)
Reached(ss, deps) ==
  ToBuild \cup Objs(Compiled(ss)) \cup UNION {{Src(s)} \cup deps[s] : s \in Compiled(ss)}

(* What is asked for is declared. *)
LEMMA AskedFor ==
  ASSUME NEW ss
  PROVE  /\ Main \in Wanted /\ Mains \subseteq ToBuild /\ ToBuild \subseteq AllOutputs(ss)
         /\ ToBuild = Mains \cup {TestExe(s) : s \in {u \in Test : TestExe(u) \in Wanted}}
         /\ Wanted \subseteq Links /\ Compiled(ss) \subseteq ss \cup Test /\ ss \subseteq Compiled(ss)
<1>1. CASE IsLib
  BY <1>1 DEF Main, Mains, Wanted, ToBuild, Links, AllOutputs, Compiled
<1>2. CASE ~IsLib
  BY <1>2 DEF Main, Mains, Wanted, ToBuild, Links, AllOutputs, Compiled, Test
<1> QED BY <1>1, <1>2

(* A path of the graph, and the node it has.                                 *)
LEMMA NodeOf ==
  ASSUME NEW g, NEW r, NEW X, NEW S, NEW D, Shape(g, r, X, S, D)
  PROVE  /\ \A t \in Ids(g) : g.nodes[t].output \in DOMAIN g.nodeMap /\ g.nodeMap[g.nodes[t].output] = t
         /\ \A p \in DOMAIN g.nodeMap : g.nodeMap[p] \in Ids(g) /\ g.nodes[g.nodeMap[p]].output = p
         /\ \A x, q : <<x, q>> \in S \cup D => x \in DOMAIN g.nodeMap /\ q \in DOMAIN g.nodeMap
<1>1. WellFormed(g)
  BY DEF Shape
<1>2. /\ \A t \in Ids(g) : g.nodes[t].output \in DOMAIN g.nodeMap /\ g.nodeMap[g.nodes[t].output] = t
      /\ \A p \in DOMAIN g.nodeMap : g.nodeMap[p] \in Ids(g) /\ g.nodes[g.nodeMap[p]].output = p
  BY <1>1 DEF WellFormed, MapExact, GraphClosed
<1>3. ASSUME NEW x, NEW q, <<x, q>> \in S \cup D
      PROVE  x \in DOMAIN g.nodeMap /\ q \in DOMAIN g.nodeMap
  <2>1. x \in X /\ x \in DOMAIN g.nodeMap
    BY <1>3 DEF Shape
  <2> DEFINE t == g.nodeMap[x]
             n == g.nodes[t]
  <2>2. t \in Ids(g) /\ n.output = x
    BY <1>2, <2>1
  <2>3. q \in Range(n.sources) \/ q \in Range(n.deps)
    BY <1>3, <2>2 DEF Shape
  <2>4. n.sources \in Seq(DOMAIN g.nodeMap) /\ n.deps \in Seq(DOMAIN g.nodeMap)
    BY <1>1, <2>2 DEF WellFormed, GraphClosed, NodeOver
  <2> HIDE DEF n
  <2>5. Range(n.sources) \subseteq DOMAIN g.nodeMap /\ Range(n.deps) \subseteq DOMAIN g.nodeMap
    BY <2>4, LenProperties DEF Range
  <2> QED BY <2>1, <2>3, <2>5
<1> QED BY <1>2, <1>3

(* The subgraph of what is asked for.                                        *)
LEMMA SubgraphIs ==
  ASSUME args \in Args, NEW ss \in SUBSET Source, NEW deps \in [Source -> SUBSET Files]
  PROVE  LET g == Graph(ss, deps)
             T == {t \in Ids(g) : g.nodes[t].output \in Reached(ss, deps)}
         IN  /\ IsClosed(g, T) /\ Subgraph(g, SetToSeq(ToBuild)) = T
<1> DEFINE g == Graph(ss, deps)
           T == {t \in Ids(g) : g.nodes[t].output \in Reached(ss, deps)}
           targets == SetToSeq(ToBuild)
           N == {g.nodeMap[targets[k]] : k \in DOMAIN targets}
           C == Closure(g, N)
           X == AllOutputs(ss)
           S == AllSrcs(ss)
           D == AllDeps(ss, deps)
<1>1. Shape(g, Main, X, S, D)
  BY ShapeGraph
<1> HIDE DEF g, X, S, D
<1>2. GraphClosed(g)
  BY <1>1 DEF Shape, WellFormed
<1>3. /\ \A t \in Ids(g) : g.nodes[t].output \in DOMAIN g.nodeMap /\ g.nodeMap[g.nodes[t].output] = t
      /\ \A p \in DOMAIN g.nodeMap : g.nodeMap[p] \in Ids(g) /\ g.nodes[g.nodeMap[p]].output = p
      /\ \A x, q : <<x, q>> \in S \cup D => x \in DOMAIN g.nodeMap /\ q \in DOMAIN g.nodeMap
  BY <1>1, NodeOf
<1>4. Edges(ss, deps) = S \cup D
  BY DEF Edges, S, D
<1>5. ToBuild \subseteq DOMAIN g.nodeMap /\ IsFiniteSet(ToBuild)
  <2>1. X \subseteq DOMAIN g.nodeMap
    BY <1>1 DEF Shape
  <2>2. IsFiniteSet(DOMAIN g.nodeMap)
    <3> DEFINE f == [t \in Ids(g) |-> g.nodes[t].output]
    <3>1. f \in Surjection(Ids(g), DOMAIN g.nodeMap)
      BY <1>3 DEF Surjection
    <3>2. IsFiniteSet(Ids(g))
      BY <1>2, IdsFinite
    <3> HIDE DEF f
    <3> QED BY <3>1, <3>2, FS_Surjection
  <2>3. ToBuild \subseteq X
    BY AskedFor DEF X
  <2> QED BY <2>1, <2>2, <2>3, FS_Subset
<1>6. targets \in Seq(ToBuild) /\ Len(targets) \in Nat /\ Range(targets) = ToBuild
      /\ DOMAIN targets = 1 .. Len(targets)
  BY <1>5, SetToSeqIs
<1> HIDE DEF targets
<1>7. AllKnown(g, targets)
  <2>1. \A j \in 1 .. Len(targets) : targets[j] \in DOMAIN g.nodeMap
    BY <1>5, <1>6 DEF Range
  <2>2. Known(g, targets) = 1 .. Len(targets)
    BY <1>6, <2>1 DEF Known
  <2>3. \A l \in Nat : Cardinality(1 .. l) = l
    BY FS_Interval
  <2> QED BY <1>6, <2>2, <2>3 DEF AllKnown
<1>8. N \in SUBSET Ids(g) /\ Subgraph(g, targets) = C
  BY <1>2, <1>6, <1>7, SubgraphIsClosure
<1>9. N = {g.nodeMap[p] : p \in ToBuild}
  BY <1>6 DEF Range
<1> HIDE DEF N
<1>10. IsClosed(g, T)
  <2> SUFFICES ASSUME NEW t \in T, NEW d \in Inputs(g, t) PROVE d \in T
    BY DEF IsClosed
  <2> DEFINE x == g.nodes[t].output
             q == g.nodes[d].output
  <2>1. d \in Ids(g)
    BY <1>2, InputsInGraph
  <2>2. <<x, q>> \in Edges(ss, deps)
    BY <1>1, <1>4, <2>1, EdgeIs
  <2>3. x \in ToBuild \cup Objs(Compiled(ss)) \cup UNION {{Src(s)} \cup deps[s] : s \in Compiled(ss)}
    BY DEF Reached
  <2> HIDE DEF x, q
  <2>4. q \in Reached(ss, deps)
    <3>1. CASE x \in Mains
      <4>1. q \in Objs(ss) /\ ss \subseteq Compiled(ss)
        BY <2>2, <3>1, EdgesAre, AskedFor
      <4> QED BY <4>1 DEF Reached, Objs
    <3>2. CASE \E s \in Test : x = TestExe(s)
      <4>1. PICK s \in Test : x = TestExe(s)
        BY <3>2
      <4>2. q = Obj(args, s) \/ q = Lib
        <5>1. <<TestExe(s), q>> \in Edges(ss, deps)
          BY <2>2, <4>1
        <5>2. \A u \in Test : \A v :
                <<TestExe(u), v>> \in Edges(ss, deps) => v \in {Obj(args, u), Lib}
          BY EdgesAre
        <5> QED BY <5>1, <5>2
      <4>3. x \in AllOutputs(ss) /\ x \notin Mains /\ x \notin Objs(Compiled(ss)) /\ x \notin Files
        BY <4>1, Distinct DEF AllOutputs, Mains, Objs, Files, File
      <4>4. s \in Compiled(ss) /\ Lib \in ToBuild
        <5>1. Compiled(ss) \subseteq Source
          BY AskedFor, PathFacts
        <5>2. \A u \in Compiled(ss) : {Src(u)} \cup deps[u] \subseteq Files
          BY <5>1 DEF Files, File
        <5>3. x \in ToBuild
          BY <2>3, <4>3, <5>2
        <5>4. x \in Wanted
          BY <4>1, <4>3, <5>3, AskedFor
        <5>5. IsLib
          BY <4>1 DEF Test
        <5> QED BY <4>1, <5>4, <5>5, AskedFor DEF Compiled, Mains
      <4> QED BY <4>2, <4>4 DEF Reached, Objs
    <3>3. CASE \E s \in ss \cup Test : x = Obj(args, s)
      <4>1. PICK s \in ss \cup Test : x = Obj(args, s)
        BY <3>3
      <4>2. q \in {Src(s)} \cup deps[s]
        BY <2>2, <4>1, EdgesAre
      <4>3. Compiled(ss) \subseteq Source /\ s \in Source
        BY AskedFor, PathFacts
      <4>4. x \notin Files
        BY <4>1, Distinct DEF Files, File
      <4>5. x \notin ToBuild
        BY <4>1, <4>3, AskedFor, Distinct DEF Mains
      <4>6. \A u \in Compiled(ss) : {Src(u)} \cup deps[u] \subseteq Files
        BY <4>3 DEF Files, File
      <4>7. x \in Objs(Compiled(ss))
        BY <2>3, <4>4, <4>5, <4>6
      <4>8. s \in Compiled(ss)
        BY <4>1, <4>7, Distinct DEF Objs
      <4> QED BY <4>2, <4>8 DEF Reached
    <3>4. x \in AllOutputs(ss)
      BY <2>2, EdgesAre
    <3> QED BY <3>1, <3>2, <3>3, <3>4 DEF AllOutputs, Objs
  <2> QED BY <2>1, <2>4 DEF q
<1>11. C \subseteq T
  <2>1. N \subseteq T
    BY <1>3, <1>5, <1>9 DEF Reached
  <2> HIDE DEF T
  <2> QED BY <1>2, <1>8, <1>10, <2>1, ClosureLeast
<1>12. N \subseteq C /\ C \subseteq Ids(g) /\ IsClosed(g, C)
  BY <1>2, <1>8, ClosureLeast
<1> HIDE DEF C
<1>13. ASSUME NEW x, NEW q, <<x, q>> \in Edges(ss, deps), x \in DOMAIN g.nodeMap, g.nodeMap[x] \in C
       PROVE  q \in DOMAIN g.nodeMap /\ g.nodeMap[q] \in C
  <2>1. q \in DOMAIN g.nodeMap /\ g.nodeMap[x] \in Ids(g) /\ g.nodeMap[q] \in Ids(g)
    BY <1>3, <1>4, <1>13
  <2>2. g.nodes[g.nodeMap[x]].output = x /\ g.nodes[g.nodeMap[q]].output = q
    BY <1>3, <1>13, <2>1
  <2>3. g.nodeMap[q] \in Inputs(g, g.nodeMap[x])
    BY <1>1, <1>4, <1>13, <2>1, <2>2, EdgeIs
  <2> QED BY <1>12, <1>13, <2>1, <2>3 DEF IsClosed
<1>14. ASSUME NEW p \in ToBuild PROVE p \in DOMAIN g.nodeMap /\ g.nodeMap[p] \in C
  BY <1>5, <1>9, <1>12
<1>15. ASSUME NEW s \in Compiled(ss)
       PROVE  Obj(args, s) \in DOMAIN g.nodeMap /\ g.nodeMap[Obj(args, s)] \in C
  <2>1. CASE s \in ss
    <3>1. Main \in ToBuild /\ Main \in Mains
      BY AskedFor DEF Main, Mains
    <3>2. <<Main, Obj(args, s)>> \in Edges(ss, deps)
      BY <2>1, <3>1, EdgesAre DEF Objs
    <3> QED BY <1>13, <1>14, <3>1, <3>2
  <2>2. CASE s \in Test /\ TestExe(s) \in Wanted
    <3>1. TestExe(s) \in ToBuild
      BY <2>2, AskedFor
    <3>2. <<TestExe(s), Obj(args, s)>> \in Edges(ss, deps)
      BY <2>2, EdgesAre
    <3> QED BY <1>13, <1>14, <3>1, <3>2
  <2> QED BY <2>1, <2>2 DEF Compiled
<1>16. ASSUME NEW s \in Compiled(ss), NEW q \in {Src(s)} \cup deps[s]
       PROVE  g.nodeMap[q] \in C
  <2>1. s \in ss \cup Test
    BY AskedFor
  <2>2. <<Obj(args, s), q>> \in Edges(ss, deps)
    BY <2>1, EdgesAre
  <2> QED BY <1>13, <1>15, <2>2
<1>17. T \subseteq C
  <2> SUFFICES ASSUME NEW t \in T PROVE t \in C
    OBVIOUS
  <2> DEFINE x == g.nodes[t].output
  <2>1. t = g.nodeMap[x] /\ x \in Reached(ss, deps)
    BY <1>3
  <2> HIDE DEF x
  <2> QED BY <1>14, <1>15, <1>16, <2>1 DEF Reached, Objs
<1> HIDE DEF T
<1> QED BY <1>8, <1>10, <1>11, <1>17 DEF T, g, targets

(* What prepare finds, by the names of the nodes.                            *)
LEMMA DirtyNamesAre ==
  ASSUME args \in Args, NEW ss \in SUBSET Source, NEW deps \in [Source -> SUBSET Files]
  PROVE  LET g == Graph(ss, deps) IN
         /\ DirtyNames(g) \subseteq Reached(ss, deps)
         /\ DirtyOutputs(g) = DirtyNames(g) \cap AllOutputs(ss)
         /\ \A x \in Reached(ss, deps) :
              x \in DirtyNames(g) <=>
                \/ disk[x] = 0
                \/ \E q : /\ <<x, q>> \in Edges(ss, deps)
                          /\ InputDirty(disk, x, q) \/ q \in DirtyNames(g)
<1> DEFINE g == Graph(ss, deps)
           T == {t \in Ids(g) : g.nodes[t].output \in Reached(ss, deps)}
           dirty == Prepared(g).dirty
           X == AllOutputs(ss)
           S == AllSrcs(ss)
           D == AllDeps(ss, deps)
           DN == DirtyNames(g)
<1>1. Shape(g, Main, X, S, D) /\ Acyclic(g)
  BY ShapeGraph, GraphAcyclic
<1>2. IsClosed(g, T) /\ Subgraph(g, SetToSeq(ToBuild)) = T
  BY SubgraphIs
<1> HIDE DEF g, X, S, D
<1>3. GraphClosed(g)
  BY <1>1 DEF Shape, WellFormed
<1>4. /\ \A t \in Ids(g) : g.nodes[t].output \in DOMAIN g.nodeMap /\ g.nodeMap[g.nodes[t].output] = t
      /\ \A p \in DOMAIN g.nodeMap : g.nodeMap[p] \in Ids(g) /\ g.nodes[g.nodeMap[p]].output = p
      /\ \A x, q : <<x, q>> \in S \cup D => x \in DOMAIN g.nodeMap /\ q \in DOMAIN g.nodeMap
  BY <1>1, NodeOf
<1>5. Edges(ss, deps) = S \cup D
  BY DEF Edges, S, D
<1>6. dirty = DirtyIn(g, disk, T)
  BY <1>2 DEF Prepared, AfterPrepare
<1>7. dirty \subseteq T /\ \A n \in T : JustDirty(g, disk, dirty, n)
  <2>1. T \subseteq Ids(g)
    OBVIOUS
  <2> HIDE DEF T
  <2> QED BY <1>1, <1>2, <1>3, <1>6, <2>1, DirtyWithin, DirtyIsJust
<1> HIDE DEF dirty
<1>8. DN = {g.nodes[n].output : n \in dirty}
  BY DEF DirtyNames, dirty
<1>9. DN \subseteq Reached(ss, deps)
  BY <1>7, <1>8
<1>10. DirtyOutputs(g) = DN \cap X
  <2>1. \A n \in Ids(g) : g.nodes[n].builder <=> g.nodes[n].output \in X
    BY <1>1 DEF Shape
  <2>2. DirtyOutputs(g) = {g.nodes[n].output : n \in {m \in dirty : g.nodes[m].builder}}
    BY DEF DirtyOutputs, dirty
  <2>3. {m \in dirty : g.nodes[m].builder} = {m \in dirty : g.nodes[m].output \in X}
    BY <1>7, <2>1
  <2> QED BY <1>8, <2>2, <2>3
<1>11. \A t \in Ids(g) : t \in dirty <=> g.nodes[t].output \in DN
  BY <1>4, <1>7, <1>8
<1> HIDE DEF DN
<1>12. Reached(ss, deps) \subseteq DOMAIN g.nodeMap
  <2>1. X \subseteq DOMAIN g.nodeMap
    BY <1>1 DEF Shape
  <2>2. ToBuild \cup Objs(Compiled(ss)) \subseteq X
    BY AskedFor DEF X, AllOutputs, Objs
  <2>3. ASSUME NEW s \in Compiled(ss), NEW q \in {Src(s)} \cup deps[s] PROVE q \in DOMAIN g.nodeMap
    <3>1. s \in ss \cup Test
      BY AskedFor
    <3>2. <<Obj(args, s), q>> \in Edges(ss, deps)
      BY <3>1, EdgesAre
    <3> QED BY <1>4, <1>5, <3>2
  <2> QED BY <2>1, <2>2, <2>3 DEF Reached
<1>13. ASSUME NEW x \in Reached(ss, deps)
       PROVE  x \in DN <=> \/ disk[x] = 0
                           \/ \E q : /\ <<x, q>> \in Edges(ss, deps)
                                     /\ InputDirty(disk, x, q) \/ q \in DN
  <2> DEFINE t == g.nodeMap[x]
             n == g.nodes[t]
  <2>1. t \in Ids(g) /\ n.output = x /\ t \in T
    BY <1>4, <1>12
  <2>2. x \in DN <=> OwnReason(n, disk) \/ Inputs(g, t) \cap dirty # {}
    BY <1>7, <1>11, <2>1 DEF JustDirty
  <2>3. /\ ~n.phony /\ ~n.always
        /\ \A q : q \in Range(n.sources) <=> <<x, q>> \in S
        /\ \A q : q \in Range(n.deps) <=> <<x, q>> \in D
    BY <1>1, <2>1 DEF Shape
  <2>4. OwnReason(n, disk) <=>
          disk[x] = 0 \/ \E q : <<x, q>> \in Edges(ss, deps) /\ InputDirty(disk, x, q)
    <3>1. (\E i \in DOMAIN n.sources : InputDirty(disk, x, n.sources[i]))
            <=> \E q : q \in Range(n.sources) /\ InputDirty(disk, x, q)
      BY DEF Range
    <3>2. (\E i \in DOMAIN n.deps : InputDirty(disk, x, n.deps[i]))
            <=> \E q : q \in Range(n.deps) /\ InputDirty(disk, x, q)
      BY DEF Range
    <3>3. OwnReason(n, disk) <=>
            \/ disk[x] = 0
            \/ \E i \in DOMAIN n.sources : InputDirty(disk, x, n.sources[i])
            \/ \E i \in DOMAIN n.deps : InputDirty(disk, x, n.deps[i])
      BY <2>1, <2>3 DEF OwnReason, OwnFilesDirty
    <3> HIDE DEF n
    <3> QED BY <1>5, <2>3, <3>1, <3>2, <3>3
  <2>5. Inputs(g, t) \cap dirty # {} <=> \E q : <<x, q>> \in Edges(ss, deps) /\ q \in DN
    <3>1. ASSUME NEW d \in Inputs(g, t), d \in dirty
          PROVE  \E q : <<x, q>> \in Edges(ss, deps) /\ q \in DN
      <4>1. d \in Ids(g)
        BY <1>7, <3>1
      <4>2. <<x, g.nodes[d].output>> \in Edges(ss, deps)
        BY <1>1, <1>5, <2>1, <3>1, <4>1, EdgeIs
      <4> QED BY <1>11, <3>1, <4>1, <4>2
    <3>2. ASSUME NEW q, <<x, q>> \in Edges(ss, deps), q \in DN
          PROVE  g.nodeMap[q] \in Inputs(g, t) /\ g.nodeMap[q] \in dirty
      <4>1. g.nodeMap[q] \in Ids(g) /\ g.nodes[g.nodeMap[q]].output = q
        BY <1>4, <1>5, <3>2
      <4> HIDE DEF t
      <4>2. g.nodeMap[q] \in Inputs(g, t)
        BY <1>1, <1>5, <2>1, <3>2, <4>1, EdgeIs
      <4> QED BY <1>11, <3>2, <4>1, <4>2
    <3> QED BY <3>1, <3>2
  <2> HIDE DEF n, t
  <2> QED BY <2>2, <2>4, <2>5
<1> QED BY <1>9, <1>10, <1>13 DEF DN, g, X

(* What is built, by the times of the files.                                 *)
ObjDirty(s, ds) ==
  disk[Obj(args, s)] = 0 \/ \E p \in {Src(s)} \cup ds : InputDirty(disk, Obj(args, s), p)
OwnDirty(ss, l) == disk[l] = 0 \/ \E p \in LinkedFrom(ss, l) : InputDirty(disk, l, p)
DirtyObjs(ss, deps) == {Obj(args, s) : s \in {t \in Compiled(ss) : ObjDirty(t, deps[t])}}
DirtyAlone(ss, deps, l) == OwnDirty(ss, l) \/ LinkedFrom(ss, l) \cap DirtyObjs(ss, deps) # {}
TodoOf(ss, deps) ==
  DirtyObjs(ss, deps)
    \cup {l \in Wanted : \/ DirtyAlone(ss, deps, l)
                         \/ l \in LinkedWith(Lib) /\ DirtyAlone(ss, deps, Lib)}
    \cup (IF IsLib THEN {EmptyPath} ELSE {})

(* What is linked from what.                                                 *)
LEMMA LinkedFromIs ==
  ASSUME args \in Args, NEW ss \in SUBSET Source
  PROVE  /\ \A m \in Mains : LinkedFrom(ss, m) = Objs(ss)
         /\ \A s \in Test : LinkedFrom(ss, TestExe(s)) = {Obj(args, s), Lib}
         /\ \A l \in Links : l \in LinkedWith(Lib) <=> \E s \in Test : l = TestExe(s)
         /\ Links = (Mains \ {EmptyPath}) \cup {TestExe(s) : s \in Test}
         /\ \A m \in Links : m # Lib => LinkedWith(m) = {}
<1>1. ASSUME NEW m \in Mains PROVE LinkedFrom(ss, m) = Objs(ss)
  <2>1. m \in {Exe, Lib, EmptyPath}
    BY DEF Mains
  <2>2. \A t \in Test : m # TestExe(t)
    BY <2>1, Distinct
  <2>3. \A l \in Links : m \notin LinkedWith(l)
    BY <2>2 DEF LinkedWith
  <2> QED BY <2>1, <2>2, <2>3 DEF LinkedFrom, Objs
<1>2. ASSUME NEW s \in Test PROVE LinkedFrom(ss, TestExe(s)) = {Obj(args, s), Lib}
  <2>1. TestExe(s) \notin {Exe, Lib, EmptyPath}
    BY Distinct
  <2>2. \A t \in Test : TestExe(s) = TestExe(t) <=> t = s
    BY Distinct
  <2>3. Lib \in Links /\ \A l \in Links : TestExe(s) \in LinkedWith(l) <=> l = Lib
    BY DEF LinkedWith, Links, Test
  <2> QED BY <2>1, <2>2, <2>3 DEF LinkedFrom
<1>3. \A l \in Links : l \in LinkedWith(Lib) <=> \E s \in Test : l = TestExe(s)
  BY DEF LinkedWith
<1>4. Links = (Mains \ {EmptyPath}) \cup {TestExe(s) : s \in Test}
  <2>1. CASE IsLib
    <3>1. EmptyPath # Lib /\ EmptyPath \notin {TestExe(s) : s \in Test}
      BY Distinct
    <3> QED BY <2>1, <3>1 DEF Links, Mains
  <2>2. CASE ~IsLib
    <3>1. EmptyPath # Exe /\ Test = {}
      BY <2>2, Distinct DEF Test
    <3> QED BY <2>2, <3>1 DEF Links, Mains
  <2> QED BY <2>1, <2>2
<1>5. \A m \in Links : m # Lib => LinkedWith(m) = {}
  BY DEF LinkedWith
<1> QED BY <1>1, <1>2, <1>3, <1>4, <1>5

(* zmm_bg_prepare, asked for what a template asks for, finds that dirty and  *)
(* nothing else, in the graph of any sources with any dependency files.      *)
THEOREM DirtyIsTodo ==
  ASSUME args \in Args, NEW ss \in SUBSET Source, NEW deps \in [Source -> SUBSET Files],
         disk[EmptyPath] = 0
  PROVE  DirtyOutputs(Graph(ss, deps)) = TodoOf(ss, deps)
<1> DEFINE DN == DirtyNames(Graph(ss, deps))
           Re == Reached(ss, deps)
<1>1. /\ DN \subseteq Re
      /\ DirtyOutputs(Graph(ss, deps)) = DN \cap AllOutputs(ss)
      /\ \A x \in Re :
           x \in DN <=> \/ disk[x] = 0
                        \/ \E q : /\ <<x, q>> \in Edges(ss, deps)
                                  /\ InputDirty(disk, x, q) \/ q \in DN
  BY DirtyNamesAre
<1> HIDE DEF DN, Re
<1>0. /\ Compiled(ss) \subseteq Source /\ Compiled(ss) \subseteq ss \cup Test
      /\ ss \subseteq Compiled(ss) /\ Test \subseteq Source
  BY AskedFor, PathFacts
<1>2. ASSUME NEW s \in Compiled(ss), NEW q \in {Src(s)} \cup deps[s]
      PROVE  q \in Re /\ q \in Files /\ (q \in DN <=> disk[q] = 0)
  <2>1. q \in Re /\ q \in Files
    BY <1>0 DEF Re, Reached, Files, File
  <2>2. \A p : <<q, p>> \notin Edges(ss, deps)
    <3>1. q \notin AllOutputs(ss)
      <4>1. \E f : q = Src(f) \/ q = Hdr(f)
        BY <2>1 DEF Files, File
      <4>2. q # EmptyPath
        BY <2>1, Distinct
      <4> QED BY <4>1, <4>2, Distinct DEF AllOutputs, Mains, Objs
    <3> QED BY <3>1, EdgesAre
  <2> QED BY <1>1, <2>1, <2>2
<1>3. ASSUME NEW s \in Compiled(ss)
      PROVE  Obj(args, s) \in DN <=> ObjDirty(s, deps[s])
  <2>1. Obj(args, s) \in Re
    BY DEF Re, Reached, Objs
  <2>2. \A q : <<Obj(args, s), q>> \in Edges(ss, deps) <=> q \in {Src(s)} \cup deps[s]
    BY <1>0, EdgesAre
  <2>3. Obj(args, s) \in DN <=>
          \/ disk[Obj(args, s)] = 0
          \/ \E q : /\ <<Obj(args, s), q>> \in Edges(ss, deps)
                    /\ InputDirty(disk, Obj(args, s), q) \/ q \in DN
    BY <1>1, <2>1
  <2>4. \A q \in {Src(s)} \cup deps[s] : q \in DN => InputDirty(disk, Obj(args, s), q)
    BY <1>2 DEF InputDirty
  <2> QED BY <2>2, <2>3, <2>4 DEF ObjDirty
<1>4. \A s \in Compiled(ss) : Obj(args, s) \in DN <=> Obj(args, s) \in DirtyObjs(ss, deps)
  BY <1>3, Distinct DEF DirtyObjs
<1>5. Mains \subseteq Re /\ Wanted \subseteq Re
  BY AskedFor DEF Re, Reached, ToBuild
<1>6. ASSUME NEW m \in Mains PROVE m \in DN <=> DirtyAlone(ss, deps, m)
  <2>1. m \in DN <=>
          \/ disk[m] = 0
          \/ \E q : <<m, q>> \in Edges(ss, deps) /\ (InputDirty(disk, m, q) \/ q \in DN)
    BY <1>1, <1>5
  <2>2. \A q : <<m, q>> \in Edges(ss, deps) <=> q \in Objs(ss)
    BY EdgesAre
  <2>3. \A q \in Objs(ss) : q \in DN <=> q \in DirtyObjs(ss, deps)
    BY <1>0, <1>4 DEF Objs
  <2>4. LinkedFrom(ss, m) = Objs(ss)
    BY LinkedFromIs
  <2> QED BY <2>1, <2>2, <2>3, <2>4 DEF DirtyAlone, OwnDirty
<1>7. ASSUME NEW s \in Test, TestExe(s) \in Wanted
      PROVE  TestExe(s) \in DN <=>
               DirtyAlone(ss, deps, TestExe(s)) \/ DirtyAlone(ss, deps, Lib)
  <2>1. TestExe(s) \in DN <=>
          \/ disk[TestExe(s)] = 0
          \/ \E q : /\ <<TestExe(s), q>> \in Edges(ss, deps)
                    /\ InputDirty(disk, TestExe(s), q) \/ q \in DN
    BY <1>1, <1>5, <1>7
  <2>2. \A q : <<TestExe(s), q>> \in Edges(ss, deps) <=> q \in {Obj(args, s), Lib}
    BY EdgesAre
  <2>3. Obj(args, s) \in DN <=> Obj(args, s) \in DirtyObjs(ss, deps)
    BY <1>4, <1>7 DEF Compiled
  <2>4. LinkedFrom(ss, TestExe(s)) = {Obj(args, s), Lib}
    BY LinkedFromIs
  <2>5. Lib \in DN <=> DirtyAlone(ss, deps, Lib)
    BY <1>6 DEF Test, Mains
  <2>6. Lib \notin DirtyObjs(ss, deps)
    BY <1>0, Distinct DEF DirtyObjs
  <2> QED BY <2>1, <2>2, <2>3, <2>4, <2>5, <2>6 DEF DirtyAlone, OwnDirty
<1>8. ASSUME NEW l \in Wanted
      PROVE  l \in DN <=> \/ DirtyAlone(ss, deps, l)
                          \/ l \in LinkedWith(Lib) /\ DirtyAlone(ss, deps, Lib)
  <2>1. l \in Links
    BY AskedFor
  <2>2. CASE l \in Mains
    <3>1. l \notin LinkedWith(Lib)
      BY <2>2, Distinct DEF Mains, LinkedWith
    <3> QED BY <1>6, <2>2, <3>1
  <2>3. CASE \E s \in Test : l = TestExe(s)
    <3>1. l \in LinkedWith(Lib)
      BY <2>1, <2>3, LinkedFromIs
    <3> QED BY <1>7, <2>3, <3>1
  <2> QED BY <2>1, <2>2, <2>3, LinkedFromIs
<1>9. IsLib => EmptyPath \in DN
  BY <1>1, <1>5 DEF Mains
<1>10. ASSUME NEW x \in DN \cap AllOutputs(ss)
       PROVE  \/ \E s \in Compiled(ss) : x = Obj(args, s)
              \/ x \in Wanted \/ (IsLib /\ x = EmptyPath)
  <2>1. x \in ToBuild \cup Objs(Compiled(ss)) \cup UNION {{Src(s)} \cup deps[s] : s \in Compiled(ss)}
    BY <1>1 DEF Re, Reached
  <2>2. x \notin Files
    <3>1. EmptyPath \notin Files
      BY Distinct
    <3>2. \A p \in Files : \E f : p = Src(f) \/ p = Hdr(f)
      BY DEF Files, File
    <3> QED BY <3>1, <3>2, Distinct DEF AllOutputs, Mains, Objs
  <2>3. \A s \in Compiled(ss) : {Src(s)} \cup deps[s] \subseteq Files
    BY <1>0 DEF Files, File
  <2> QED BY <2>1, <2>2, <2>3 DEF ToBuild, Objs
<1>11. Wanted \subseteq AllOutputs(ss) /\ (IsLib => EmptyPath \in AllOutputs(ss))
       /\ Objs(Compiled(ss)) \subseteq AllOutputs(ss)
  BY <1>0, AskedFor DEF AllOutputs, ToBuild, Mains, Objs
<1>12. DirtyObjs(ss, deps) = {Obj(args, s) : s \in {t \in Compiled(ss) : Obj(args, t) \in DN}}
  BY <1>3 DEF DirtyObjs
<1>13. DN \cap AllOutputs(ss) \subseteq TodoOf(ss, deps)
  <2> SUFFICES ASSUME NEW x \in DN \cap AllOutputs(ss) PROVE x \in TodoOf(ss, deps)
    OBVIOUS
  <2>1. CASE \E s \in Compiled(ss) : x = Obj(args, s)
    BY <1>12, <2>1 DEF TodoOf
  <2>2. CASE x \in Wanted
    BY <1>8, <2>2 DEF TodoOf
  <2>3. CASE IsLib /\ x = EmptyPath
    BY <2>3 DEF TodoOf
  <2> QED BY <1>10, <2>1, <2>2, <2>3
<1>14. TodoOf(ss, deps) \subseteq DN \cap AllOutputs(ss)
  <2>1. DirtyObjs(ss, deps) \subseteq DN \cap AllOutputs(ss)
    BY <1>11, <1>12 DEF Objs
  <2> QED BY <1>8, <1>9, <1>11, <2>1 DEF TodoOf
<1> QED BY <1>1, <1>13, <1>14

-----------------------------------------------------------------------------
(* The order in which the graph of a program is declared. *)

(* The graph of a program is declared from the program down.                 *)
LEMMA ProgramIsTopDown ==
  ASSUME args \in Args, ~IsLib, NEW ss \in SUBSET Source, NEW deps \in [Source -> SUBSET Files],
         \A s \in ss : \A p \in {Src(s)} \cup deps[s] : disk[p] # 0
  PROVE  LET g == Graph(ss, deps) IN TopDown(PlanOfPrepared(g, Prepared(g)))
<1> DEFINE g == Graph(ss, deps)
           plan == PlanOfPrepared(g, Prepared(g))
           DN == DirtyNames(g)
           X == AllOutputs(ss)
           S == AllSrcs(ss)
           D == AllDeps(ss, deps)
<1>1. Shape(g, Main, X, S, D)
  BY ShapeGraph
<1>2. /\ \A x \in Reached(ss, deps) :
            x \in DN <=> \/ disk[x] = 0
                         \/ \E q : /\ <<x, q>> \in Edges(ss, deps)
                                   /\ InputDirty(disk, x, q) \/ q \in DN
      /\ DN \subseteq Reached(ss, deps)
  BY DirtyNamesAre
<1>3. /\ plan.dirty \subseteq Prepared(g).dirty /\ plan.dirty \subseteq Prepared(g).inSub
      /\ \A i \in Ids(g) : plan.dependents[i] = g.nodes[i].dependents
  BY DEF PlanOfPrepared
<1>4. Prepared(g).inSub \subseteq Ids(g)
  BY SubgraphIs DEF Prepared, AfterPrepare
<1>5. \A t \in plan.dirty : t \in Ids(g) /\ g.nodes[t].output \in DN
  BY <1>3, <1>4 DEF DirtyNames
<1> HIDE DEF g, X, S, D, plan, DN
<1>6. WellFormed(g) /\ g.nodeMap[Exe] = 0
  BY <1>1 DEF Shape, Main
<1>7. Edges(ss, deps) = S \cup D
  BY DEF Edges, S, D
<1>8. Test = {} /\ Mains = {Exe}
  BY DEF Test, Mains
<1>9. ASSUME NEW t \in plan.dirty, NEW d \in Needs(plan, t)
      PROVE  d \in plan.dirty /\ d \in Inputs(g, t)
  <2>1. PICK i : /\ d \in plan.dirty /\ i \in 1 .. Len(plan.dependents[d])
                 /\ plan.dependents[d][i] = t
    BY <1>9 DEF Needs, SlotsTo, Slots, Target
  <2>2. d \in Ids(g) /\ t \in Ids(g)
    BY <1>5, <2>1
  <2> DEFINE from == g.nodes[d].dependents
             to == g.nodes[t].waitsOn
  <2>3. plan.dependents[d] = from
    BY <1>3, <2>2
  <2>4. from \in Seq(Ids(g)) /\ to \in Seq(Ids(g)) /\ Times(from, t) = Times(to, d)
    BY <1>6, <2>2 DEF WellFormed, GraphClosed, NodeOver, EdgesMirrored
  <2>5. Inputs(g, t) = Range(to)
    BY DEF Inputs, Range
  <2> HIDE DEF from, to
  <2>6. t \in Range(from)
    BY <2>1, <2>3, <2>4, LenProperties DEF Range
  <2>7. d \in Range(to)
    BY <2>4, <2>6, TimesPositive
  <2> QED BY <2>1, <2>5, <2>7
<1>10. ASSUME NEW t \in plan.dirty, NEW d \in Needs(plan, t) PROVE t = 0 /\ d > t
  <2> DEFINE x == g.nodes[t].output
             q == g.nodes[d].output
  <2>1. /\ t \in Ids(g) /\ d \in Ids(g) /\ d \in Inputs(g, t) /\ q \in DN
    BY <1>5, <1>9, <1>10
  <2>2. <<x, q>> \in Edges(ss, deps)
    BY <1>1, <1>7, <2>1, EdgeIs
  <2>3. g.nodeMap[x] = t /\ g.nodeMap[q] = d
    BY <1>1, <2>1, NodeOf
  <2> HIDE DEF x, q
  <2>4. x \in AllOutputs(ss) /\ ss \subseteq Source
    BY <2>2, EdgesAre
  <2>5. CASE \E s \in ss : x = Obj(args, s)
    <3>1. PICK s \in ss : x = Obj(args, s)
      BY <2>5
    <3>2. q \in {Src(s)} \cup deps[s]
      <4>1. <<Obj(args, s), q>> \in Edges(ss, deps) /\ s \in ss \cup Test
        BY <2>2, <3>1
      <4>2. \A u \in ss \cup Test : \A v :
              <<Obj(args, u), v>> \in Edges(ss, deps) => v \in {Src(u)} \cup deps[u]
        BY EdgesAre
      <4> QED BY <4>1, <4>2
    <3>3. disk[q] # 0
      BY <3>2
    <3>4. \A v : <<q, v>> \notin Edges(ss, deps)
      <4>1. \E f : q = Src(f) \/ q = Hdr(f)
        BY <2>4, <3>2 DEF Files, File
      <4>2. q \notin AllOutputs(ss)
        BY <1>8, <4>1, Distinct DEF AllOutputs, Objs
      <4> QED BY <4>2, EdgesAre
    <3>5. q \in Reached(ss, deps)
      BY <1>2, <2>1
    <3> QED BY <1>2, <2>1, <3>3, <3>4, <3>5
  <2>6. CASE x = Exe
    <3>1. q \in Objs(ss)
      BY <1>8, <2>2, <2>6, EdgesAre
    <3>2. q # Exe
      BY <3>1, Distinct DEF Objs
    <3>3. t = 0
      BY <1>6, <2>3, <2>6
    <3>4. t # d
      <4>1. g.nodes[t].output = x /\ g.nodes[d].output = q
        BY DEF x, q
      <4> QED BY <2>6, <3>2, <4>1
    <3>5. d \in Nat
      BY <1>6, <2>1 DEF WellFormed, GraphClosed, Ids
    <3> QED BY <3>3, <3>4, <3>5
  <2> QED BY <1>8, <2>4, <2>5, <2>6 DEF AllOutputs, Objs
<1>11. TopDown(plan)
  BY <1>10 DEF TopDown
<1> QED BY <1>11 DEF plan, g

-----------------------------------------------------------------------------
(* The runs of a template: ScriptInv has the invariant. *)

(* The paths of a run's state: where each is, and that they differ.          *)
LEMMA PlacesAre ==
  ASSUME args \in Args
  PROVE  /\ Dir \in Dirs /\ \A s \in Source : Obj(args, s) = <<Dir, s>>
         /\ \A o : o \in Objects <=> \E d \in Dirs : \E s \in Source : o = <<d, s>>
         /\ \A s \in Source : \A o : o \in ObjOf(s) <=> \E d \in Dirs : o = <<d, s>>
         /\ \A d \in Dirs : \A s \in Source :
              <<d, s>> \in Objects /\ <<d, s>> \notin Files /\ <<d, s>> \notin Links
              /\ <<d, s>> # EmptyPath
         /\ \A l \in Links : l \notin Files /\ l # EmptyPath
         /\ EmptyPath \notin Files /\ Objects \cap Links = {} /\ Objects \cap Files = {}
         /\ \A s \in Source : Src(s) \in Files /\ File(s) = Src(s)
         /\ \A f \in Source \cup Header : File(f) \in Files
         /\ \A s, t : Src(s) = Src(t) => s = t
         /\ \A s \in Source : \A f \in Source \cup Header : File(f) = Src(s) => f = s
<1>1. Dir \in Dirs /\ \A s \in Source : Obj(args, s) = <<Dir, s>>
  BY DEF Dir, Dirs, Obj
<1>2. \A s \in Source : \A o : o \in ObjOf(s) <=> \E d \in Dirs : o = <<d, s>>
  BY DEF ObjOf, Obj, Dirs
<1>3. \A o : o \in Objects <=> \E d \in Dirs : \E s \in Source : o = <<d, s>>
  BY <1>2 DEF Objects
<1>4. \A d \in Dirs : d # "src" /\ d # "include" /\ d # "build" /\ d # "test"
  BY PathAssumption DEF Dirs, ObjDir
<1>5. \A p \in Files : \E f : p = <<"src", f>> \/ p = <<"include", f>>
  BY DEF Files, File, Src, Hdr
<1>6. \A l \in Links : \E s : l = <<"build", s>> \/ l = <<"test", s>>
  BY DEF Links, Lib, Exe, TestExe
<1>7. EmptyPath \notin Path
  BY PathAssumption
<1>8. \A l \in Links : l \in Path
  BY PathFacts, LinkedFromIs DEF Mains
<1>9. ASSUME NEW d \in Dirs, NEW s \in Source PROVE <<d, s>> \in Path
  <2>1. d \in Args \cup {"obj"}
    BY DEF Dirs, ObjDir
  <2>2. <<d, s>> \in AllObjects
    BY <2>1 DEF AllObjects
  <2> QED BY <2>2, PathAssumption
<1>10. ASSUME NEW d \in Dirs, NEW s \in Source
       PROVE  <<d, s>> \in Objects /\ <<d, s>> \notin Files /\ <<d, s>> \notin Links
              /\ <<d, s>> # EmptyPath
  <2>1. <<d, s>> \notin Files
    BY <1>4, <1>5
  <2>2. <<d, s>> \notin Links
    BY <1>4, <1>6
  <2> QED BY <1>3, <1>7, <1>9, <2>1, <2>2
<1>11. \A l \in Links : l \notin Files /\ l # EmptyPath
  <2>1. \A l \in Links : l \notin Files
    BY <1>5, <1>6
  <2> QED BY <2>1, <1>7, <1>8
<1>12. EmptyPath \notin Files /\ Files \subseteq Path
  BY <1>7, PathFacts
<1>13. Objects \cap Links = {} /\ Objects \cap Files = {}
  BY <1>3, <1>10
<1>14. \A s \in Source : Src(s) \in Files /\ File(s) = Src(s)
  BY DEF Files, File
<1>15. \A f \in Source \cup Header : File(f) \in Files
  BY DEF Files
<1>16. \A s, t : Src(s) = Src(t) => s = t
  BY DEF Src
<1>17. \A s \in Source : \A f \in Source \cup Header : File(f) = Src(s) => f = s
  BY DEF Src, File, Hdr
<1> HIDE DEF Dir, Dirs
<1> QED BY <1>1, <1>2, <1>3, <1>10, <1>11, <1>12, <1>13, <1>14, <1>15, <1>16, <1>17

(* What a template links, of what.                                           *)
LEMMA LinksAre ==
  ASSUME args \in Args
  PROVE  /\ Test \subseteq Source /\ InSrcDir \cap Test = {} /\ InSrcDir \cup Test = Source
         /\ InSrcDir \subseteq Source
         /\ Main \in Links /\ Main \in Wanted /\ Wanted \subseteq Links
         /\ (Lib \in Links <=> Lib = Main) /\ (IsLib <=> Lib = Main) /\ (~IsLib => Test = {})
         /\ \A s \in Test : TestExe(s) \in Links /\ TestExe(s) # Main /\ TestExe(s) # Lib
         /\ \A l \in Links : l = Main \/ \E s \in Test : l = TestExe(s)
         /\ \A s, t : TestExe(s) = TestExe(t) => s = t
         /\ \A s \in Test : LinksWith(s) = {TestExe(s)}
         /\ \A s : s \notin Test => LinksWith(s) = Links
         /\ \A l \in Links : \A m : m \in LinkedWith(l) <=>
              l = Lib /\ \E s \in Test : m = TestExe(s)
         /\ \A ss \in SUBSET Source : LinkedFrom(ss, Main) = Objs(ss)
         /\ \A ss \in SUBSET Source : \A s \in Test :
              LinkedFrom(ss, TestExe(s)) = {<<Dir, s>>, Lib}
<1>1. Lib # Exe /\ \A s : TestExe(s) # Lib /\ TestExe(s) # Exe
  BY DEF Lib, Exe, TestExe
<1>2. \A s, t : TestExe(s) = TestExe(t) => s = t
  BY DEF TestExe
<1>3. Test \subseteq Source /\ InSrcDir \cap Test = {} /\ InSrcDir \cup Test = Source
      /\ InSrcDir \subseteq Source
  BY TemplateAssumption DEF Test, InSrcDir
<1>4. Main \in Links /\ (Lib \in Links <=> Lib = Main) /\ (IsLib <=> Lib = Main)
      /\ (~IsLib => Test = {})
  BY <1>1 DEF Main, Links, Test
<1>5. Main \in Wanted /\ Wanted \subseteq Links
  BY <1>4 DEF Wanted, Main
<1>6. \A s \in Test : TestExe(s) \in Links /\ TestExe(s) # Main /\ TestExe(s) # Lib
  BY <1>1 DEF Main, Links, Test
<1>7. \A l \in Links : l = Main \/ \E s \in Test : l = TestExe(s)
  BY DEF Links, Main
<1>8. /\ \A s \in Test : LinksWith(s) = {TestExe(s)}
      /\ \A s : s \notin Test => LinksWith(s) = Links
  BY DEF LinksWith
<1>9. \A l \in Links : \A m : m \in LinkedWith(l) <=>
        l = Lib /\ \E s \in Test : m = TestExe(s)
  BY DEF LinkedWith
<1>10. Main \in Mains
  BY DEF Main, Mains
<1>11. /\ \A ss \in SUBSET Source : LinkedFrom(ss, Main) = Objs(ss)
       /\ \A ss \in SUBSET Source : \A s \in Test :
              LinkedFrom(ss, TestExe(s)) = {<<Dir, s>>, Lib}
  <2>1. \A s \in Test : Obj(args, s) = <<Dir, s>>
    BY <1>3, PlacesAre
  <2> QED BY <2>1, <1>10, LinkedFromIs
<1> HIDE DEF Main
<1> QED BY <1>1, <1>2, <1>3, <1>4, <1>5, <1>6, <1>7, <1>8, <1>9, <1>11

(* The template never changes.                                               *)
LEMMA Fixed ==
  ASSUME kind' = kind
  PROVE  /\ Dirs' = Dirs /\ Test' = Test /\ Links' = Links /\ Main' = Main
         /\ Objects' = Objects /\ InSrcDir' = InSrcDir /\ Places' = Places /\ IsLib' = IsLib
         /\ \A s : LinksWith(s)' = LinksWith(s)
         /\ \A s : ObjOf(s)' = ObjOf(s)
         /\ args' = args => Wanted' = Wanted /\ Dir' = Dir
<1>1. IsLib' = IsLib
  BY DEF IsLib
<1>2. Test' = Test
  BY <1>1 DEF Test
<1>3. Links' = Links /\ InSrcDir' = InSrcDir /\ Main' = Main
  BY <1>1, <1>2 DEF Links, InSrcDir, Main
<1>4. \A s : LinksWith(s)' = LinksWith(s)
  BY <1>2, <1>3 DEF LinksWith
<1>5. Dirs' = Dirs /\ \A s : ObjOf(s)' = ObjOf(s)
  BY DEF Dirs, ObjOf, Obj, ObjDir
<1>6. Objects' = Objects
  BY <1>5 DEF Objects
<1>7. Places' = Places
  BY <1>3, <1>6 DEF Places
<1>8. args' = args => Wanted' = Wanted /\ Dir' = Dir
  BY <1>1, <1>3 DEF Wanted, Dir, ObjDir
<1> QED BY <1>1, <1>2, <1>3, <1>4, <1>5, <1>6, <1>7, <1>8

(* What a compiler reads for s when the files include the headers of inc.    *)
HeadersIn(inc, s) ==
  {h \in Header :
     \A hs \in SUBSET Header :
       inc[s] \subseteq hs /\ (\A k \in hs : inc[k] \subseteq hs) => h \in hs}
Includes == [Source \cup Header -> SUBSET Header]

(* The headers a source reads are the same when one that is not among them   *)
(* includes others.                                                          *)
LEMMA HeadersKept ==
  ASSUME NEW inc \in Includes, NEW new \in Includes, NEW f \in Source \cup Header,
         \A x \in Source \cup Header : x # f => new[x] = inc[x],
         NEW s \in Source, f # s, f \notin HeadersIn(inc, s)
  PROVE  HeadersIn(new, s) = HeadersIn(inc, s)
<1> DEFINE H == HeadersIn(inc, s)
           G == HeadersIn(new, s)
<1>1. /\ \A x \in Source \cup Header : inc[x] \subseteq Header /\ new[x] \subseteq Header
      /\ new[s] = inc[s] /\ f \notin H
  BY DEF Includes
<1>2. H \subseteq Header /\ G \subseteq Header
  BY DEF HeadersIn
<1>3. /\ inc[s] \subseteq H
      /\ \A h \in H : inc[h] \subseteq H
      /\ \A hs \in SUBSET Header :
           inc[s] \subseteq hs /\ (\A k \in hs : inc[k] \subseteq hs) => H \subseteq hs
  <2>1. inc[s] \subseteq H
    BY <1>1 DEF HeadersIn
  <2>2. \A hs \in SUBSET Header :
           inc[s] \subseteq hs /\ (\A k \in hs : inc[k] \subseteq hs) => H \subseteq hs
    BY DEF HeadersIn
  <2>3. ASSUME NEW h \in H, NEW x \in inc[h] PROVE x \in H
    <3>1. x \in Header
      BY <1>1, <1>2, <2>3
    <3>2. ASSUME NEW hs \in SUBSET Header, inc[s] \subseteq hs,
                 \A k \in hs : inc[k] \subseteq hs
          PROVE  x \in hs
      BY <2>2, <2>3, <3>2
    <3> QED BY <3>1, <3>2 DEF HeadersIn
  <2> HIDE DEF H
  <2> QED BY <2>1, <2>2, <2>3
<1>4. /\ new[s] \subseteq G
      /\ \A h \in G : new[h] \subseteq G
      /\ \A hs \in SUBSET Header :
           new[s] \subseteq hs /\ (\A k \in hs : new[k] \subseteq hs) => G \subseteq hs
  <2>1. new[s] \subseteq G
    BY <1>1 DEF HeadersIn
  <2>2. \A hs \in SUBSET Header :
           new[s] \subseteq hs /\ (\A k \in hs : new[k] \subseteq hs) => G \subseteq hs
    BY DEF HeadersIn
  <2>3. ASSUME NEW h \in G, NEW x \in new[h] PROVE x \in G
    <3>1. x \in Header
      BY <1>1, <1>2, <2>3
    <3>2. ASSUME NEW hs \in SUBSET Header, new[s] \subseteq hs,
                 \A k \in hs : new[k] \subseteq hs
          PROVE  x \in hs
      BY <2>2, <2>3, <3>2
    <3> QED BY <3>1, <3>2 DEF HeadersIn
  <2> HIDE DEF G
  <2> QED BY <2>1, <2>2, <2>3
<1> HIDE DEF H, G
<1>5. \A h \in H : new[h] = inc[h]
  BY <1>1, <1>2
<1>6. G \subseteq H
  BY <1>1, <1>2, <1>3, <1>4, <1>5
<1>7. H \subseteq G
  BY <1>1, <1>2, <1>3, <1>4, <1>5, <1>6
<1> QED BY <1>6, <1>7 DEF H, G

(* What is read for a source.                                                *)
LEMMA ReadForIs ==
  ASSUME NEW s \in Source
  PROVE  /\ Src(s) \in ReadFor(s) /\ ReadFor(s) \subseteq Files
         /\ \A f \in Source \cup Header :
              File(f) \in ReadFor(s) <=> f = s \/ f \in HeadersIn(includes, s)
<1>1. HeadersOf(s) = HeadersIn(includes, s)
  BY DEF HeadersOf, HeadersIn, Closed
<1>2. HeadersIn(includes, s) \subseteq Header
  BY DEF HeadersIn
<1>3. Source \cap Header = {}
  BY TemplateAssumption
<1>4. \A x, y : Src(x) # Hdr(y) /\ (Src(x) = Src(y) => x = y) /\ (Hdr(x) = Hdr(y) => x = y)
  BY DEF Src, Hdr
<1>5. \A f \in Source : File(f) = Src(f)
  BY DEF File
<1>6. \A f \in Header : File(f) = Hdr(f)
  BY <1>3 DEF File
<1>7. \A f \in Source \cup Header : File(f) \in Files
  BY DEF Files
<1>8. ReadFor(s) = {Src(s)} \cup {Hdr(h) : h \in HeadersIn(includes, s)}
  BY <1>1 DEF ReadFor
<1>9. ReadFor(s) \subseteq Files
  BY <1>2, <1>5, <1>6, <1>7, <1>8
<1>10. ASSUME NEW f \in Source \cup Header
       PROVE  File(f) \in ReadFor(s) <=> f = s \/ f \in HeadersIn(includes, s)
  BY <1>2, <1>3, <1>4, <1>5, <1>6, <1>8
<1> QED BY <1>8, <1>9, <1>10

(* A source that reads f goes on reading it, whatever f comes to include; one*)
(* that does not reads what it read.                                         *)
LEMMA ReadForEdited ==
  ASSUME includes \in Includes, includes' \in Includes, NEW f \in Source \cup Header,
         \A x \in Source \cup Header : x # f => includes'[x] = includes[x],
         NEW s \in Source
  PROVE  /\ File(f) \in ReadFor(s) => File(f) \in ReadFor(s)'
         /\ File(f) \notin ReadFor(s) => ReadFor(s)' = ReadFor(s)
<1>1. /\ ReadFor(s) = {Src(s)} \cup {Hdr(h) : h \in HeadersIn(includes, s)}
      /\ ReadFor(s)' = {Src(s)} \cup {Hdr(h) : h \in HeadersIn(includes', s)}
  BY DEF ReadFor, HeadersOf, HeadersIn, Closed
<1>2. File(f) \in ReadFor(s) <=> f = s \/ f \in HeadersIn(includes, s)
  BY ReadForIs
<1>3. f = s \/ f \in HeadersIn(includes', s) => File(f) \in ReadFor(s)'
  <2>1. f = s => File(f) = Src(s)
    BY DEF File
  <2>2. f \in HeadersIn(includes', s) => File(f) = Hdr(f)
    BY TemplateAssumption DEF File, HeadersIn
  <2> QED BY <1>1, <2>1, <2>2
<1>4. CASE f # s /\ f \notin HeadersIn(includes, s)
  <2>1. HeadersIn(includes', s) = HeadersIn(includes, s)
    BY <1>4, HeadersKept
  <2> QED BY <1>1, <1>2, <1>4, <2>1
<1>5. CASE f # s /\ f \notin HeadersIn(includes', s)
  <2>1. \A x \in Source \cup Header : x # f => includes[x] = includes'[x]
    OBVIOUS
  <2>2. HeadersIn(includes', s) = HeadersIn(includes, s)
    BY <1>5, <2>1, HeadersKept
  <2> QED BY <1>1, <1>2, <1>5, <2>2
<1> QED BY <1>2, <1>3, <1>4, <1>5

-----------------------------------------------------------------------------
(* Each step of a run keeps it. *)

ObjectsInv == FreshExist /\ DepsKnown /\ StaleSeen /\ StaleListed

(* The first state.                                                          *)
LEMMA RunInit == Init => RunInv
<1> SUFFICES ASSUME Init PROVE RunInv
  OBVIOUS
<1> USE DEF Init
<1>1. AnyArgs \in Args /\ args \in Args
  BY TemplateAssumption DEF AnyArgs
<1>2. \A p \in Objects \cup Links \cup {EmptyPath} : disk[p] = 0 /\ ~Exists(p)
  BY <1>1, PlacesAre DEF Exists
<1>3. \A d \in Dirs : \A s \in Source : disk[<<d, s>>] = 0 /\ ~Exists(<<d, s>>)
  BY <1>1, <1>2, PlacesAre
<1>4. includes \in [Source \cup Header -> SUBSET Header]
  BY TemplateAssumption
<1>5. TypesOK
  <2>1. disk \in [Places -> 0 .. clock]
    BY DEF Places
  <2>2. disk[EmptyPath] = 0 /\ dep \in [Source -> SUBSET Files]
    BY <1>2
  <2>3. of \in [Links -> Dirs \cup {"none"}]
    OBVIOUS
  <2>4. /\ kind \in {"minimal-exe", "practical-exe", "practical-lib"}
        /\ at = "idle" /\ clock = 1
        /\ fresh = {} /\ whole = {} /\ blind = {} /\ found = {} /\ todo = {}
    OBVIOUS
  <2>5. listed \in [Source -> SUBSET Files]
    BY <2>2
  <2>6. failed \in BOOLEAN
    OBVIOUS
  <2> HIDE DEF Init
  <2> QED BY <1>1, <1>4, <2>1, <2>2, <2>3, <2>4, <2>5, <2>6 DEF TypesOK
<1>6. ObjectsInv /\ NoObjects
  BY <1>3 DEF ObjectsInv, FreshExist, DepsKnown, StaleSeen, StaleListed, NoObjects
<1>7. TodoKnown
  BY DEF TodoKnown
<1>8. TodoUp /\ LinksOlder
  BY DEF TodoUp, LinksOlder, Building
<1>9. LinksAccounted /\ RemovedBlind
  BY <1>2 DEF LinksAccounted, RemovedBlind
<1>10. ListsCurrent /\ FoundNow /\ NotBuiltYet /\ RunSettled /\ Done /\ NoEditMissed
  BY DEF ListsCurrent, FoundNow, Running, NotBuiltYet, RunSettled, Building, Done, NoEditMissed
<1> QED BY <1>5, <1>6, <1>7, <1>8, <1>9, <1>10 DEF RunInv, ObjectsInv

(* A step that writes no object, no file and no dependency file.             *)
LEMMA ObjectsKept ==
  ASSUME RunInv, kind' = kind, UNCHANGED <<includes, dep, fresh>>,
         \A p \in Objects \cup Files : disk'[p] = disk[p],
         \A o \in Objects : o \in blind' <=> o \in blind
  PROVE  ObjectsInv'
<1>1. args \in Args /\ ObjectsInv
  BY DEF RunInv, TypesOK, ObjectsInv
<1>2. \A s : ReadFor(s)' = ReadFor(s)
  BY DEF ReadFor, HeadersOf, Closed
<1>3. Dirs' = Dirs
  BY Fixed
<1>4. \A d \in Dirs : \A s \in Source :
        /\ disk'[<<d, s>>] = disk[<<d, s>>]
        /\ <<d, s>> \in blind' <=> <<d, s>> \in blind
  BY <1>1, PlacesAre
<1>5. \A s \in Source : \A p \in ReadFor(s) \cup dep[s] : disk'[p] = disk[p]
  BY ReadForIs DEF RunInv, TypesOK
<1>6. \A d \in Dirs : \A s \in Source : Exists(<<d, s>>)' <=> Exists(<<d, s>>)
  BY <1>4 DEF Exists
<1>7. \A d \in Dirs : \A s \in Source : \A p \in ReadFor(s) \cup dep[s] :
        InputDirty(disk', <<d, s>>, p) <=> InputDirty(disk, <<d, s>>, p)
  BY <1>4, <1>5 DEF InputDirty, Newer
<1>8. FreshExist' /\ DepsKnown'
  BY <1>1, <1>2, <1>3, <1>4, <1>6 DEF ObjectsInv, FreshExist, DepsKnown
<1>9. StaleSeen'
  BY <1>1, <1>2, <1>3, <1>6, <1>7 DEF ObjectsInv, StaleSeen
<1>10. StaleListed'
  BY <1>1, <1>3, <1>4, <1>6, <1>7 DEF ObjectsInv, StaleListed
<1> QED BY <1>8, <1>9, <1>10 DEF ObjectsInv

(* A step that neither links nor compiles nor edits.                         *)
LEMMA LinksKept ==
  ASSUME RunInv, kind' = kind, UNCHANGED <<disk, of, whole, blind>>
  PROVE  LinksAccounted'
<1>1. Links' = Links /\ Dirs' = Dirs /\ Test' = Test /\ \A s : LinksWith(s)' = LinksWith(s)
  BY Fixed
<1>2. \A p : Exists(p)' <=> Exists(p)
  BY DEF Exists
<1>3. \A l : Reason(l)' <=> Reason(l)
  BY <1>1, <1>2 DEF Reason, InputDirty, Newer
<1> QED BY <1>1, <1>2, <1>3 DEF RunInv, LinksAccounted

(* What is settled stays so, of the same sources, outputs and what is to be  *)
(* built.                                                                    *)
LEMMA SettledKept ==
  ASSUME kind' = kind,
         UNCHANGED <<args, disk, dep, fresh, blind, whole, of, todo>>
  PROVE  \A ss : SettledWith(ss)' <=> SettledWith(ss)
<1>1. /\ Test' = Test /\ Main' = Main /\ Wanted' = Wanted /\ Dir' = Dir
  BY Fixed
<1>2. \A s : ObjSettled(s)' <=> ObjSettled(s)
  BY <1>1 DEF ObjSettled, ObjClean, InputDirty, Newer
<1>3. \A l : LinkGood(l)' <=> LinkGood(l)
  BY <1>1 DEF LinkGood
<1> QED BY <1>1, <1>2, <1>3 DEF SettledWith, InputDirty, Newer

(* The scan.                                                                 *)
LEMMA RunScan ==
  ASSUME RunInv, NEW a \in ArgsTold, Scan(a)
  PROVE  RunInv'
<1>1. /\ at = "idle" /\ at' = "scanned" /\ args' = a /\ code' = "none" /\ quiet'
      /\ found' = {s \in InSrcDir : Exists(Src(s))}
      /\ listed' = [s \in Source |-> IF s \in found' \cup Test THEN dep[s] ELSE {}]
      /\ kind' = kind /\ clock' = clock /\ includes' = includes /\ disk' = disk /\ dep' = dep
      /\ fresh' = fresh /\ whole' = whole /\ of' = of /\ blind' = blind
      /\ todo' = todo /\ failed' = failed
  BY DEF Scan, projectVars, historyVars
<1>2. TypesOK
  BY DEF RunInv
<1>3. /\ Links' = Links /\ Dirs' = Dirs /\ Test' = Test /\ InSrcDir' = InSrcDir
      /\ Objects' = Objects /\ Places' = Places
  BY <1>1, Fixed
<1>4. a \in Args
  BY TemplateAssumption DEF ArgsTold, AnyArgs
<1>5. todo = {} /\ todo' = {}
  BY <1>1 DEF RunInv, TodoKnown, Building
<1>6. TypesOK'
  <2>1. listed' \in [Source -> SUBSET Files]
    BY <1>1, <1>2 DEF TypesOK
  <2>2. found' \subseteq InSrcDir'
    BY <1>1, <1>3
  <2>3. /\ at' \in {"idle", "scanned", "planned", "building", "objects", "deps"}
        /\ args' \in Args
    BY <1>1, <1>4
  <2> QED BY <1>1, <1>2, <1>3, <2>1, <2>2, <2>3 DEF TypesOK
<1>7. ObjectsInv'
  BY <1>1, ObjectsKept
<1>8. LinksAccounted'
  BY <1>1, LinksKept
<1>9. NoObjects' /\ TodoKnown' /\ TodoUp' /\ LinksOlder'
  BY <1>1, <1>5 DEF NoObjects, TodoKnown, TodoUp, LinksOlder, Building, Running
<1>10. RemovedBlind'
  <2>1. \A s \in found' : disk'[Src(s)] # 0
    BY <1>1 DEF Exists
  <2> QED BY <2>1 DEF RemovedBlind
<1>11. ListsCurrent'
  <2>1. \A s \in found' \cup Test' : s \in Source
    BY <1>1, <1>3, <1>4, <1>2, LinksAre DEF TypesOK
  <2>2. \A s \in found' \cup Test' : listed'[s] = dep'[s]
    BY <1>1, <1>3, <2>1
  <2> QED BY <2>2 DEF ListsCurrent
<1>12. FoundNow'
  BY <1>1, <1>3 DEF FoundNow, Now, Exists
<1>13. NotBuiltYet' /\ RunSettled' /\ Done' /\ NoEditMissed'
  BY <1>1 DEF NotBuiltYet, RunSettled, Done, NoEditMissed, Building
<1> QED BY <1>6, <1>7, <1>8, <1>9, <1>10, <1>11, <1>12, <1>13 DEF RunInv, ObjectsInv

(* The script returns.                                                       *)
LEMMA RunReturn ==
  ASSUME RunInv, Return
  PROVE  RunInv'
<1>1. PICK c : Building /\ Ends(c) /\ (c = "built" => todo = {} /\ ~failed)
               /\ c \in {"built", "failed"}
  BY DEF Return
<1>2. /\ kind' = kind /\ clock' = clock /\ includes' = includes /\ disk' = disk /\ dep' = dep
      /\ fresh' = fresh /\ whole' = whole /\ of' = of /\ blind' = blind
      /\ quiet' = quiet
  BY DEF Return, projectVars, historyVars
<1>3. /\ at' = "idle" /\ code' = c /\ found' = {} /\ todo' = {} /\ failed' = FALSE
      /\ listed' = [s \in Source |-> {}]
      /\ args' = IF c = "built" THEN args ELSE AnyArgs
  BY <1>1 DEF Ends
<1>4. TypesOK
  BY DEF RunInv
<1>5. /\ Links' = Links /\ Dirs' = Dirs /\ Test' = Test /\ InSrcDir' = InSrcDir
      /\ Objects' = Objects /\ Places' = Places
  BY <1>2, Fixed
<1>6. TypesOK'
  <2>1. listed' \in [Source -> SUBSET Files]
    BY <1>3
  <2>2. args' \in Args
    BY <1>3, <1>4, TemplateAssumption DEF TypesOK, AnyArgs
  <2>3. failed' \in BOOLEAN
    BY <1>3
  <2>4. found' \subseteq InSrcDir'
    BY <1>3
  <2> QED BY <1>2, <1>3, <1>4, <1>5, <2>1, <2>2, <2>3, <2>4 DEF TypesOK
<1>7. ObjectsInv'
  BY <1>2, ObjectsKept
<1>8. LinksAccounted'
  BY <1>2, LinksKept
<1>9. NoObjects' /\ TodoKnown' /\ TodoUp' /\ LinksOlder'
  BY <1>3 DEF NoObjects, TodoKnown, TodoUp, LinksOlder, Building, Running
<1>10. RemovedBlind' /\ ListsCurrent' /\ FoundNow' /\ NotBuiltYet' /\ RunSettled' /\ NoEditMissed'
  BY <1>3 DEF RemovedBlind, ListsCurrent, FoundNow, Running, NotBuiltYet, RunSettled, Building,
              NoEditMissed
<1>11. Done'
  <2> SUFFICES ASSUME code' = "built", quiet' PROVE todo' = {} /\ SettledWith(Now)'
    BY DEF Done
  <2>1. todo = {} /\ ~failed /\ Building /\ quiet /\ args' = args /\ todo' = todo
    BY <1>1, <1>2, <1>3
  <2>2. found = Now
    BY <2>1 DEF RunInv, FoundNow, Running, Building
  <2>3. SettledWith(Now)
    BY <2>1, <2>2 DEF RunInv, RunSettled
  <2>4. Now' = Now
    BY <1>2, <1>5 DEF Now, Exists
  <2>5. \A ss : SettledWith(ss)' <=> SettledWith(ss)
    BY <1>2, <2>1, SettledKept
  <2> QED BY <1>3, <2>3, <2>4, <2>5
<1> QED BY <1>6, <1>7, <1>8, <1>9, <1>10, <1>11 DEF RunInv, ObjectsInv

(* What can be linked has no object to be built, nor the library.            *)
LEMMA LinkableIs ==
  ASSUME RunInv, NEW l \in Links \cup {EmptyPath}, Linkable(l)
  PROVE  /\ l = Main => \A s \in found : <<Dir, s>> \notin todo
         /\ \A s \in Test : l = TestExe(s) => <<Dir, s>> \notin todo /\ Lib \notin todo
         /\ \A s \in Source : <<Dir, s>> \in todo => l \notin LinksWith(s)
<1>1. args \in Args /\ found \subseteq Source
  BY LinksAre DEF RunInv, TypesOK
<1>2. l \in todo /\ LinkedFrom(found, l) \cap todo = {}
  BY DEF Linkable
<1>3. ASSUME l = Main, NEW s \in found PROVE <<Dir, s>> \notin todo
  <2>1. <<Dir, s>> \in Objs(found)
    BY <1>1, <1>3, PlacesAre DEF Objs
  <2>2. LinkedFrom(found, Main) = Objs(found)
    BY <1>1, LinksAre
  <2> QED BY <1>2, <1>3, <2>1, <2>2
<1>4. ASSUME NEW s \in Test, l = TestExe(s) PROVE <<Dir, s>> \notin todo /\ Lib \notin todo
  <2>1. LinkedFrom(found, TestExe(s)) = {<<Dir, s>>, Lib}
    BY <1>1, LinksAre
  <2> QED BY <1>2, <1>4, <2>1
<1>5. ASSUME NEW s \in Source, <<Dir, s>> \in todo, l \in LinksWith(s) PROVE FALSE
  <2>1. s \notin Test
    BY <1>1, <1>4, <1>5, LinksAre
  <2>2. s \in found /\ Main \in todo
    BY <1>5, <2>1 DEF RunInv, TodoKnown, TodoUp
  <2>3. l \in Links
    BY <1>1, <1>5, <2>1, LinksAre
  <2>4. l = Main \/ \E t \in Test : l = TestExe(t)
    BY <1>1, <2>3, LinksAre
  <2>5. l # Main
    BY <1>3, <1>5, <2>2
  <2>6. PICK t \in Test : l = TestExe(t)
    BY <2>4, <2>5
  <2>7. Main = Lib
    BY <1>1, <2>6, LinksAre
  <2> QED BY <1>4, <2>2, <2>6, <2>7
<1> QED BY <1>3, <1>4, <1>5

(* Linking, or failing to link, as far as it is the same.                    *)
LEMMA LinkStep ==
  ASSUME RunInv, NEW l \in Links \cup {EmptyPath}, NEW status, Linkable(l), Built(l, status),
         dep' = dep, fresh' = fresh,
         disk' \in [Places -> 0 .. clock], disk'[EmptyPath] = 0,
         \A p \in Places : p # l => disk'[p] = disk[p],
         whole' \subseteq Links, of' \in [Links -> Dirs \cup {"none"}],
         blind' = blind \/ blind' = blind \ {l}
  PROVE  /\ TypesOK' /\ ObjectsInv' /\ NoObjects' /\ TodoKnown' /\ TodoUp' /\ LinksOlder'
         /\ RemovedBlind' /\ ListsCurrent' /\ FoundNow' /\ NotBuiltYet' /\ Done'
         /\ NoEditMissed'
<1>1. /\ at' = "building" /\ todo' = todo \ {l} /\ kind' = kind /\ clock' = clock
      /\ includes' = includes /\ args' = args /\ found' = found /\ listed' = listed
      /\ code' = code /\ quiet' = quiet /\ failed' \in BOOLEAN
  BY DEF Built, projectVars
<1>2. TypesOK /\ Building /\ l \in todo /\ args \in Args
  BY DEF RunInv, Linkable, TypesOK
<1>3. /\ Links' = Links /\ Dirs' = Dirs /\ Test' = Test /\ InSrcDir' = InSrcDir
      /\ Objects' = Objects /\ Places' = Places /\ Main' = Main /\ Wanted' = Wanted /\ Dir' = Dir
      /\ \A s : LinksWith(s)' = LinksWith(s)
  BY <1>1, Fixed
<1>4. TypesOK'
  <2>1. blind' \subseteq Objects \cup Links
    BY <1>2 DEF TypesOK
  <2>2. at' \in {"idle", "scanned", "planned", "building", "objects", "deps"}
    BY <1>1
  <2> QED BY <1>1, <1>2, <1>3, <2>1, <2>2 DEF TypesOK
<1>5. ObjectsInv'
  <2>1. \A p \in Objects \cup Files : p \in Places /\ p # l
    BY <1>2, PlacesAre DEF Places
  <2>2. \A p \in Objects \cup Files : disk'[p] = disk[p]
    BY <2>1
  <2>3. \A o \in Objects : o \in blind' <=> o \in blind
    BY <2>1
  <2> QED BY <1>1, <2>2, <2>3, ObjectsKept
<1>6. /\ l = Main => \A s \in found : <<Dir, s>> \notin todo
      /\ \A s \in Test : l = TestExe(s) => <<Dir, s>> \notin todo /\ Lib \notin todo
      /\ \A s \in Source : <<Dir, s>> \in todo => l \notin LinksWith(s)
  BY LinkableIs
<1>7. NoObjects' /\ ListsCurrent' /\ Done' /\ NoEditMissed' /\ NotBuiltYet'
  BY <1>1, <1>2 DEF RunInv, NoObjects, ListsCurrent, Done, NoEditMissed, NotBuiltYet, Building
<1>8. TodoKnown'
  BY <1>1, <1>2, <1>3 DEF RunInv, TodoKnown, Building, Running
<1>9. TodoUp'
  BY <1>1, <1>3, <1>6 DEF RunInv, TodoUp
<1>10. LinksOlder'
  <2>1. ASSUME NEW s \in Source, <<Dir, s>> \in todo', NEW k \in LinksWith(s)
        PROVE  disk'[k] < clock
    <3>1. k \in Links
      BY <1>2, LinksAre
    <3>2. k # l /\ k \in Places
      BY <1>1, <1>6, <2>1, <3>1 DEF Places
    <3> QED BY <1>1, <1>2, <2>1, <3>2 DEF RunInv, LinksOlder
  <2>2. ASSUME Lib \in todo', NEW s \in Test
        PROVE  disk'[TestExe(s)] < clock
    <3>1. TestExe(s) # l /\ TestExe(s) \in Places
      BY <1>1, <1>2, <1>6, <2>2, LinksAre DEF Places
    <3> QED BY <1>1, <1>2, <2>2, <3>1 DEF RunInv, LinksOlder
  <2> QED BY <1>1, <1>3, <2>1, <2>2 DEF LinksOlder
<1>11. RemovedBlind'
  <2> SUFFICES ASSUME NEW s \in found, disk'[Src(s)] = 0, <<Dir, s>> \in todo'
               PROVE  LinksWith(s) \subseteq blind'
    BY <1>1, <1>3 DEF RemovedBlind
  <2>1. s \in Source /\ Src(s) \in Places /\ Src(s) # l
    BY <1>2, PlacesAre, LinksAre DEF TypesOK, Places
  <2>2. LinksWith(s) \subseteq blind /\ l \notin LinksWith(s)
    BY <1>1, <1>6, <2>1 DEF RunInv, RemovedBlind
  <2> QED BY <2>2
<1>12. FoundNow'
  <2>1. \A s \in InSrcDir : Src(s) \in Places /\ Src(s) # l
    BY <1>2, PlacesAre, LinksAre DEF TypesOK, Places
  <2>2. Now' = Now
    BY <1>3, <2>1 DEF Now, Exists
  <2> QED BY <1>1, <1>2, <2>2 DEF RunInv, FoundNow, Running, Building
<1> QED BY <1>4, <1>5, <1>7, <1>8, <1>9, <1>10, <1>11, <1>12

(* A linker fails.                                                           *)
LEMMA RunFailToLink ==
  ASSUME RunInv, NEW l \in Links, NEW status, ~Succeeds(status), FailToLink(l, status)
  PROVE  RunInv'
<1>1. /\ Linkable(l) /\ Built(l, status) /\ dep' = dep /\ fresh' = fresh
      /\ whole' = whole /\ of' = of /\ blind' = blind
      /\ disk' = disk \/ disk' = [disk EXCEPT ![l] = 0]
  BY DEF FailToLink, historyVars
<1>2. TypesOK
  BY DEF RunInv
<1>3. l \in Places /\ l # EmptyPath
  BY <1>2, PlacesAre DEF TypesOK, Places
<1>4. /\ disk' \in [Places -> 0 .. clock] /\ disk'[EmptyPath] = 0
      /\ \A p \in Places : p # l => disk'[p] = disk[p]
      /\ disk'[l] = 0 \/ disk'[l] = disk[l]
  <2>0. disk \in [Places -> 0 .. clock] /\ disk[EmptyPath] = 0 /\ clock \in Nat
    BY <1>2 DEF TypesOK
  <2>1. disk \in [Places -> 0 .. clock] /\ disk[EmptyPath] = 0 /\ 0 \in 0 .. clock
    BY <2>0
  <2>2. CASE disk' = disk
    BY <2>1, <2>2
  <2>3. CASE disk' = [disk EXCEPT ![l] = 0]
    <3>1. disk'[l] = 0 /\ \A p \in Places : p # l => disk'[p] = disk[p]
      BY <1>3, <2>1, <2>3
    <3>2. disk' \in [Places -> 0 .. clock]
      BY <2>1, <2>3
    <3>3. EmptyPath \in Places
      BY DEF Places
    <3> QED BY <1>3, <2>1, <3>1, <3>2, <3>3
  <2> QED BY <1>1, <2>2, <2>3
<1>5. /\ TypesOK' /\ ObjectsInv' /\ NoObjects' /\ TodoKnown' /\ TodoUp' /\ LinksOlder'
      /\ RemovedBlind' /\ ListsCurrent' /\ FoundNow' /\ NotBuiltYet' /\ Done'
      /\ NoEditMissed'
  BY <1>1, <1>2, <1>4, LinkStep DEF TypesOK
<1>6. failed' /\ kind' = kind
  BY <1>1 DEF Built
<1>7. RunSettled'
  BY <1>6 DEF RunSettled
<1>8. /\ Links' = Links /\ Dirs' = Dirs /\ Test' = Test /\ \A s : LinksWith(s)' = LinksWith(s)
  BY <1>6, Fixed
<1>9. LinksAccounted'
  <2> SUFFICES ASSUME NEW k \in Links, Exists(k)'
               PROVE  of[k] \in Dirs /\ (k \in whole \/ k \in blind \/ Reason(k)')
    BY <1>1, <1>8 DEF LinksAccounted
  <2>1. k \in Places /\ disk'[k] = disk[k] /\ Exists(k)
    <3>1. k \in Places
      BY DEF Places
    <3>2. disk'[k] > 0
      BY DEF Exists
    <3>3. disk'[k] # 0
      BY <3>2
    <3>4. disk'[k] = disk[k]
      BY <1>4, <3>1, <3>3
    <3> QED BY <3>1, <3>2, <3>4 DEF Exists
  <2>2. of[k] \in Dirs /\ (k \in whole \/ k \in blind \/ Reason(k))
    BY <2>1 DEF RunInv, LinksAccounted
  <2>3. ASSUME Reason(k) PROVE Reason(k)'
    <3>1. CASE \E s \in Source :
             /\ k \in LinksWith(s) /\ (Exists(Src(s)) \/ s \in Test)
             /\ InputDirty(disk, k, <<of[k], s>>) \/ Newer(disk, <<of[k], s>>, Src(s))
      <4>1. PICK s \in Source :
             /\ k \in LinksWith(s) /\ (Exists(Src(s)) \/ s \in Test)
             /\ InputDirty(disk, k, <<of[k], s>>) \/ Newer(disk, <<of[k], s>>, Src(s))
        BY <3>1
      <4>2. <<of[k], s>> \in Places /\ <<of[k], s>> # l /\ Src(s) \in Places /\ Src(s) # l
        <5>1. args \in Args /\ of[k] \in Dirs
          BY <1>2, <2>2 DEF TypesOK
        <5>2. <<of[k], s>> \in Objects /\ Src(s) \in Files /\ l \notin Files /\ l \notin Objects
          BY <5>1, PlacesAre
        <5> QED BY <5>2 DEF Places
      <4>3. disk'[<<of[k], s>>] = disk[<<of[k], s>>] /\ disk'[Src(s)] = disk[Src(s)]
        BY <1>4, <4>2
      <4> QED BY <1>1, <1>8, <2>1, <4>1, <4>3 DEF Reason, InputDirty, Newer, Exists
    <3>2. CASE /\ Lib \in Links /\ \E s \in Test : k = TestExe(s)
               /\ InputDirty(disk, k, Lib)
      <4>1. disk'[Lib] = disk[Lib] \/ disk'[Lib] = 0
        BY <1>4, <3>2 DEF Places
      <4>2. InputDirty(disk', k, Lib)
        BY <2>1, <3>2, <4>1 DEF InputDirty, Newer
      <4> QED BY <1>8, <3>2, <4>2 DEF Reason
    <3> QED BY <2>3, <3>1, <3>2 DEF Reason
  <2> QED BY <2>2, <2>3
<1> QED BY <1>5, <1>7, <1>9 DEF RunInv, ObjectsInv

(* The library with the empty path.                                          *)
LEMMA RunBuildUnnamed ==
  ASSUME RunInv, NEW status, BuildUnnamed(status)
  PROVE  RunInv'
<1>1. /\ Linkable(EmptyPath) /\ Built(EmptyPath, status) /\ disk' = disk /\ dep' = dep
      /\ fresh' = fresh /\ whole' = whole /\ of' = of /\ blind' = blind
  BY DEF BuildUnnamed, historyVars
<1>2. TypesOK
  BY DEF RunInv
<1>3. /\ TypesOK' /\ ObjectsInv' /\ NoObjects' /\ TodoKnown' /\ TodoUp' /\ LinksOlder'
      /\ RemovedBlind' /\ ListsCurrent' /\ FoundNow' /\ NotBuiltYet' /\ Done'
      /\ NoEditMissed'
  <2>1. /\ disk' \in [Places -> 0 .. clock] /\ disk'[EmptyPath] = 0
        /\ \A p \in Places : p # EmptyPath => disk'[p] = disk[p]
    BY <1>1, <1>2 DEF TypesOK
  <2>2. whole' \subseteq Links /\ of' \in [Links -> Dirs \cup {"none"}]
    BY <1>1, <1>2 DEF TypesOK
  <2> QED BY <1>1, <2>1, <2>2, LinkStep
<1>4. /\ todo' = todo \ {EmptyPath} /\ kind' = kind /\ args' = args /\ found' = found
      /\ quiet' = quiet /\ (failed => failed')
  BY <1>1 DEF Built
<1>5. LinksAccounted'
  BY <1>1, <1>4, LinksKept
<1>6. RunSettled'
  <2> SUFFICES ASSUME quiet', ~failed' PROVE SettledWith(found)'
    BY DEF RunSettled
  <2>1. SettledWith(found)
    BY <1>1, <1>4 DEF RunInv, RunSettled, Linkable
  <2>2. /\ Test' = Test /\ Main' = Main /\ Wanted' = Wanted /\ Dir' = Dir
    BY <1>4, Fixed
  <2>3. /\ args \in Args /\ found \subseteq Source /\ Test \subseteq Source
        /\ \A s \in Source : <<Dir, s>> # EmptyPath
        /\ \A l \in Links : l # EmptyPath
        /\ Main \in Links /\ \A s \in Test : TestExe(s) \in Links
    <3>1. args \in Args /\ found \subseteq InSrcDir
      BY <1>2 DEF TypesOK
    <3> QED BY <3>1, LinksAre, PlacesAre
  <2>4. \A s \in Source : ObjSettled(s)' <=> ObjSettled(s)
    BY <1>1, <1>4, <2>2, <2>3 DEF ObjSettled, ObjClean, InputDirty, Newer
  <2>5. \A l : LinkGood(l)' <=> LinkGood(l)
    BY <1>1, <2>2 DEF LinkGood
  <2>6. \A l \in Links : l \in todo' <=> l \in todo
    BY <1>4, <2>3
  <2>7. \A s \in found' : ObjSettled(s)'
    BY <1>4, <2>1, <2>3, <2>4 DEF SettledWith
  <2>8. \A s \in Test' : TestExe(s) \in Wanted' => ObjSettled(s)'
    BY <2>1, <2>2, <2>3, <2>4 DEF SettledWith
  <2> QED BY <1>1, <1>4, <2>1, <2>2, <2>3, <2>5, <2>6, <2>7, <2>8 DEF SettledWith, InputDirty, Newer
<1> QED BY <1>3, <1>5, <1>6 DEF RunInv, ObjectsInv

(* A linker writes what it links.                                            *)
LEMMA RunLink ==
  ASSUME RunInv, NEW l \in Links, Link(l)
  PROVE  RunInv'
<1>1. /\ Linkable(l) /\ dep' = dep /\ fresh' = fresh
      /\ disk' = [disk EXCEPT ![l] = clock]
      /\ of' = [of EXCEPT ![l] = ObjDir(args)]
      /\ whole' = (whole \ LinkedWith(l)) \cup {l}
      /\ blind' = blind \ {l}
  BY DEF Link
<1>2. PICK status : Built(l, status)
  BY DEF Link
<1>3. /\ TypesOK /\ args \in Args /\ disk \in [Places -> 0 .. clock] /\ clock \in Nat /\ clock > 0
      /\ disk[EmptyPath] = 0 /\ of \in [Links -> Dirs \cup {"none"}] /\ whole \subseteq Links
      /\ found \subseteq InSrcDir /\ Building /\ l \in todo
  BY <1>1 DEF RunInv, TypesOK, Linkable
<1>4. l \in Places /\ l # EmptyPath /\ EmptyPath \in Places /\ Dir \in Dirs
  BY <1>3, PlacesAre DEF Places
<1>5. /\ disk' \in [Places -> 0 .. clock] /\ disk'[EmptyPath] = 0 /\ disk'[l] = clock
      /\ \A p \in Places : p # l => disk'[p] = disk[p]
  <2>1. clock \in 0 .. clock
    BY <1>3
  <2> QED BY <1>1, <1>3, <1>4, <2>1
<1>6. /\ of' \in [Links -> Dirs \cup {"none"}] /\ of'[l] = Dir
      /\ \A k \in Links : k # l => of'[k] = of[k]
  BY <1>1, <1>3, <1>4 DEF Dir
<1>7. whole' \subseteq Links
  BY <1>1, <1>3
<1>8. /\ TypesOK' /\ ObjectsInv' /\ NoObjects' /\ TodoKnown' /\ TodoUp' /\ LinksOlder'
      /\ RemovedBlind' /\ ListsCurrent' /\ FoundNow' /\ NotBuiltYet' /\ Done'
      /\ NoEditMissed'
  BY <1>1, <1>2, <1>5, <1>6, <1>7, LinkStep
<1>9. /\ kind' = kind /\ todo' = todo \ {l} /\ args' = args /\ found' = found
      /\ quiet' = quiet /\ (failed => failed')
  BY <1>2 DEF Built
<1>10. /\ Links' = Links /\ Dirs' = Dirs /\ Test' = Test /\ \A s : LinksWith(s)' = LinksWith(s)
       /\ Main' = Main /\ Wanted' = Wanted /\ Dir' = Dir
  BY <1>9, Fixed
<1>11. /\ Test \subseteq Source /\ InSrcDir \subseteq Source
       /\ Main \in Links /\ Wanted \subseteq Links
       /\ (Lib \in Links => Lib = Main) /\ (Test # {} => Lib = Main)
       /\ \A s \in Test : TestExe(s) \in Links /\ TestExe(s) # Main
       /\ \A s, t : TestExe(s) = TestExe(t) => s = t
       /\ \A k \in Links : k = Main \/ \E s \in Test : k = TestExe(s)
       /\ \A m : m \in LinkedWith(l) <=> l = Lib /\ \E s \in Test : m = TestExe(s)
  BY <1>3, LinksAre
<1>12. \A d \in Dirs : \A s \in Source :
         /\ <<d, s>> \in Places /\ <<d, s>> # l /\ <<d, s>> \notin Links
         /\ Src(s) \in Places /\ Src(s) # l
  <2>1. \A d \in Dirs : \A s \in Source : /\ <<d, s>> \in Objects /\ <<d, s>> \notin Links
                                          /\ Src(s) \in Files /\ l \notin Files
    BY <1>3, PlacesAre
  <2> QED BY <2>1 DEF Places
<1>13. \A d \in Dirs : \A s \in Source :
         disk'[<<d, s>>] = disk[<<d, s>>] /\ disk'[Src(s)] = disk[Src(s)]
  BY <1>5, <1>12
<1>14. /\ l = Main => \A s \in found : <<Dir, s>> \notin todo
       /\ \A s \in Test : l = TestExe(s) => <<Dir, s>> \notin todo /\ Lib \notin todo
  BY <1>1, LinkableIs
<1>15. LinksAccounted'
  <2> SUFFICES ASSUME NEW k \in Links, Exists(k)'
               PROVE  of'[k] \in Dirs /\ (k \in whole' \/ k \in blind' \/ Reason(k)')
    BY <1>10 DEF LinksAccounted
  <2>1. CASE k = l
    BY <1>1, <1>4, <1>6, <2>1
  <2>2. CASE k # l
    <3>1. k \in Places /\ disk'[k] = disk[k] /\ of'[k] = of[k]
      BY <1>5, <1>6, <2>2 DEF Places
    <3>2. of[k] \in Dirs /\ (k \in whole \/ k \in blind \/ Reason(k))
      BY <3>1 DEF RunInv, LinksAccounted, Exists
    <3>3. CASE l = Lib /\ \E s \in Test : k = TestExe(s)
      <4>1. disk[k] < clock
        BY <1>3, <3>3 DEF RunInv, LinksOlder
      <4>2. disk'[Lib] > disk'[k]
        BY <1>5, <3>1, <3>3, <4>1
      <4>3. InputDirty(disk', k, Lib)
        BY <4>2 DEF InputDirty, Newer
      <4>4. Reason(k)'
        BY <1>10, <3>3, <4>3 DEF Reason
      <4> QED BY <3>1, <3>2, <4>4
    <3>4. CASE ~(l = Lib /\ \E s \in Test : k = TestExe(s))
      <4>1. k \in whole \/ k \in blind => k \in whole' \/ k \in blind'
        BY <1>1, <1>11, <2>2, <3>4
      <4>2. CASE \E s \in Source :
             /\ k \in LinksWith(s) /\ (Exists(Src(s)) \/ s \in Test)
             /\ InputDirty(disk, k, <<of[k], s>>) \/ Newer(disk, <<of[k], s>>, Src(s))
        BY <1>10, <1>13, <3>1, <3>2, <4>1, <4>2 DEF Reason, InputDirty, Newer, Exists
      <4>3. CASE /\ Lib \in Links /\ \E s \in Test : k = TestExe(s)
                 /\ InputDirty(disk, k, Lib)
        <5>1. Lib \in Places /\ disk'[Lib] = disk[Lib]
          BY <1>5, <3>4, <4>3 DEF Places
        <5> QED BY <1>10, <3>1, <3>2, <4>3, <5>1 DEF Reason, InputDirty, Newer
      <4> QED BY <3>1, <3>2, <4>1, <4>2, <4>3 DEF Reason
    <3> QED BY <3>3, <3>4
  <2> QED BY <2>1, <2>2
<1>16. RunSettled'
  <2> SUFFICES ASSUME quiet', ~failed' PROVE SettledWith(found)'
    BY DEF RunSettled
  <2>1. SettledWith(found)
    BY <1>3, <1>9 DEF RunInv, RunSettled
  <2>2. ASSUME NEW s \in Source PROVE ObjSettled(s)' <=> ObjSettled(s)
    <3>1. /\ <<Dir, s>> \in todo' <=> <<Dir, s>> \in todo
          /\ <<Dir, s>> \in blind' <=> <<Dir, s>> \in blind
      BY <1>1, <1>4, <1>9, <1>12
    <3>2. dep[s] \subseteq Files
      BY <1>3 DEF TypesOK
    <3>3. \A p \in {Src(s)} \cup dep[s] : p \in Places /\ p # l
      BY <1>3, <3>2, PlacesAre DEF Places
    <3>4. \A p \in {Src(s)} \cup dep[s] : disk'[p] = disk[p]
      BY <1>5, <3>3
    <3>5. ObjClean(s)' <=> ObjClean(s)
      BY <1>1, <1>4, <1>10, <1>13, <3>4 DEF ObjClean, InputDirty, Newer
    <3> QED BY <1>1, <1>10, <3>1, <3>5 DEF ObjSettled
  <2>3. ASSUME NEW s \in Source, ObjSettled(s), <<Dir, s>> \notin todo
        PROVE  disk[<<Dir, s>>] # 0 /\ disk[<<Dir, s>>] <= clock
    <3>1. disk[<<Dir, s>>] # 0
      BY <2>3 DEF ObjSettled, ObjClean
    <3>2. disk[<<Dir, s>>] \in 0 .. clock
      BY <1>3, <1>4, <1>12
    <3> QED BY <1>3, <3>1, <3>2
  <2>4. ASSUME NEW k \in Links, k # l, k \notin LinkedWith(l)
        PROVE  (LinkGood(k) => LinkGood(k)') /\ disk'[k] = disk[k] /\ (k \in todo => k \in todo')
    <3>1. k \in Places
      BY DEF Places
    <3> QED BY <1>1, <1>5, <1>6, <1>9, <1>10, <2>4, <3>1 DEF LinkGood
  <2>5. LinkGood(l)' /\ disk'[l] # 0
    BY <1>1, <1>3, <1>5 DEF LinkGood
  <2>6. \A s \in found : ObjSettled(s)'
    BY <1>3, <1>11, <2>1, <2>2 DEF SettledWith
  <2>7. \A s \in Test : TestExe(s) \in Wanted => ObjSettled(s)'
    BY <1>11, <2>1, <2>2 DEF SettledWith
  <2>8. \/ Main \in todo'
        \/ /\ LinkGood(Main)' /\ disk'[Main] # 0
           /\ \A s \in found : ~InputDirty(disk', Main, <<Dir, s>>)
    <3>1. CASE l = Main
      <4>1. ASSUME NEW s \in found PROVE ~InputDirty(disk', Main, <<Dir, s>>)
        <5>1. s \in Source /\ ObjSettled(s) /\ <<Dir, s>> \notin todo
          BY <1>3, <1>11, <1>14, <2>1, <3>1 DEF SettledWith
        <5>2. disk[<<Dir, s>>] # 0 /\ disk[<<Dir, s>>] <= clock
          BY <2>3, <5>1
        <5>3. disk'[<<Dir, s>>] = disk[<<Dir, s>>] /\ disk'[<<Dir, s>>] \in 0 .. clock
          BY <1>4, <1>5, <1>12, <1>13, <5>1
        <5> QED BY <1>3, <1>5, <3>1, <5>2, <5>3 DEF InputDirty, Newer
      <4> QED BY <1>10, <2>5, <3>1, <4>1 DEF LinkGood
    <3>2. CASE l # Main
      <4>1. Main \notin LinkedWith(l)
        BY <1>11
      <4>2. (LinkGood(Main) => LinkGood(Main)') /\ disk'[Main] = disk[Main]
            /\ (Main \in todo => Main \in todo')
        BY <1>10, <1>11, <2>4, <3>2, <4>1 DEF LinkGood
      <4>3. \A s \in found : disk'[<<Dir, s>>] = disk[<<Dir, s>>]
        BY <1>3, <1>4, <1>11, <1>13
      <4> QED BY <2>1, <4>2, <4>3 DEF SettledWith, InputDirty, Newer
    <3> QED BY <3>1, <3>2
  <2>9. ASSUME NEW s \in Test, TestExe(s) \in Wanted
        PROVE  \/ TestExe(s) \in todo'
               \/ /\ LinkGood(TestExe(s))' /\ disk'[TestExe(s)] # 0
                  /\ ~InputDirty(disk', TestExe(s), <<Dir, s>>)
                  /\ ~InputDirty(disk', TestExe(s), Lib)
    <3>1. TestExe(s) \in Links /\ Lib = Main /\ Lib \in Places /\ s \in Source
      BY <1>11 DEF Places
    <3>2. disk'[<<Dir, s>>] = disk[<<Dir, s>>] /\ disk'[<<Dir, s>>] \in 0 .. clock
          /\ disk'[Lib] \in 0 .. clock
      BY <1>4, <1>5, <1>12, <1>13, <3>1
    <3>3. CASE l = TestExe(s)
      <4>1. ObjSettled(s) /\ <<Dir, s>> \notin todo /\ Lib \notin todo
        BY <1>14, <2>1, <2>9, <3>3 DEF SettledWith
      <4>2. disk[<<Dir, s>>] # 0
        BY <2>3, <3>1, <4>1
      <4>3. disk'[Lib] = disk[Lib] /\ disk[Lib] # 0
        BY <1>5, <1>11, <2>1, <3>1, <3>3, <4>1 DEF SettledWith
      <4> QED BY <1>3, <1>5, <2>5, <3>2, <3>3, <4>2, <4>3 DEF InputDirty, Newer
    <3>4. CASE l = Lib
      <4>1. TestExe(s) \in todo
        BY <1>3, <2>9, <3>4 DEF RunInv, TodoUp
      <4> QED BY <1>9, <1>11, <3>1, <3>4, <4>1
    <3>5. CASE l # TestExe(s) /\ l # Lib
      <4>1. TestExe(s) \notin LinkedWith(l)
        BY <1>11, <3>5
      <4>2. (LinkGood(TestExe(s)) => LinkGood(TestExe(s))') /\ disk'[TestExe(s)] = disk[TestExe(s)]
            /\ (TestExe(s) \in todo => TestExe(s) \in todo')
        BY <2>4, <3>1, <3>5, <4>1
      <4>3. disk'[Lib] = disk[Lib]
        BY <1>5, <3>1, <3>5
      <4> QED BY <2>1, <2>9, <3>2, <4>2, <4>3 DEF SettledWith, InputDirty, Newer
    <3> QED BY <3>3, <3>4, <3>5
  <2> QED BY <1>9, <1>10, <2>6, <2>7, <2>8, <2>9 DEF SettledWith
<1> QED BY <1>8, <1>15, <1>16 DEF RunInv, ObjectsInv

(* What is to be built: the objects that are dirty, and what is linked that  *)
(* is dirty or linked from what is to be built.                              *)
LEMMA TodoIs ==
  ASSUME args \in Args, NEW ss \in SUBSET InSrcDir, NEW deps \in [Source -> SUBSET Files]
  PROVE  LET T == TodoOf(ss, deps) IN
         /\ T \subseteq Objects \cup Links \cup {EmptyPath}
         /\ \A x \in T : x \in Links \/ x = EmptyPath \/ \E s \in Source : x = <<Dir, s>>
         /\ \A l \in Links : l \in T => l \in Wanted
         /\ \A s \in Source : <<Dir, s>> \in T <=> s \in Compiled(ss) /\ ObjDirty(s, deps[s])
         /\ Main \in T <=>
              \/ disk[Main] = 0
              \/ \E s \in ss : InputDirty(disk, Main, <<Dir, s>>) \/ <<Dir, s>> \in T
         /\ \A s \in Test : TestExe(s) \in Wanted =>
              (TestExe(s) \in T <=>
                 \/ disk[TestExe(s)] = 0
                 \/ InputDirty(disk, TestExe(s), <<Dir, s>>) \/ <<Dir, s>> \in T
                 \/ InputDirty(disk, TestExe(s), Lib) \/ Lib \in T)
<1> DEFINE T == TodoOf(ss, deps)
           DO == DirtyObjs(ss, deps)
<1>1. /\ Test \subseteq Source /\ ss \subseteq Source /\ Main \in Wanted /\ Wanted \subseteq Links
      /\ (Test # {} => Lib = Main)
      /\ \A s \in Test : TestExe(s) # Main
      /\ LinkedFrom(ss, Main) = Objs(ss)
      /\ \A s \in Test : LinkedFrom(ss, TestExe(s)) = {<<Dir, s>>, Lib}
      /\ \A m : m \in LinkedWith(Lib) <=> \E s \in Test : m = TestExe(s)
  <2>1. InSrcDir \subseteq Source
    BY LinksAre
  <2>2. LinkedWith(Lib) = {TestExe(s) : s \in Test}
    BY DEF LinkedWith
  <2> QED BY <2>1, <2>2, LinksAre
<1>2. /\ \A s \in Source : Obj(args, s) = <<Dir, s>> /\ <<Dir, s>> \in Objects
                           /\ <<Dir, s>> \notin Links /\ <<Dir, s>> # EmptyPath
      /\ \A l \in Links : l # EmptyPath
  <2>1. Dir \in Dirs
    BY PlacesAre
  <2> QED BY <2>1, PlacesAre
<1>3. Compiled(ss) \subseteq Source
  BY <1>1 DEF Compiled
<1>4. \A o : o \in DO <=> \E s \in Compiled(ss) : o = <<Dir, s>> /\ ObjDirty(s, deps[s])
  BY <1>2, <1>3 DEF DirtyObjs
<1>5. \A l \in Links : l \notin DO
  BY <1>2, <1>3, <1>4
<1>6. \A s \in Source : <<Dir, s>> \in T <=> <<Dir, s>> \in DO
  BY <1>1, <1>2 DEF TodoOf
<1>7. \A s \in Source : <<Dir, s>> \in DO <=> s \in Compiled(ss) /\ ObjDirty(s, deps[s])
  BY <1>4
<1>8. \A l \in Links :
        l \in T <=> /\ l \in Wanted
                    /\ \/ DirtyAlone(ss, deps, l)
                       \/ l \in LinkedWith(Lib) /\ DirtyAlone(ss, deps, Lib)
  BY <1>2, <1>5 DEF TodoOf
<1>9. /\ T \subseteq Objects \cup Links \cup {EmptyPath}
      /\ \A x \in T : x \in Links \/ x = EmptyPath \/ \E s \in Source : x = <<Dir, s>>
  <2>1. \A x \in DO : x \in Objects /\ \E s \in Source : x = <<Dir, s>>
    BY <1>2, <1>3, <1>4
  <2>2. \A x \in T : x \in DO \/ x \in Links \/ x = EmptyPath
    BY <1>1 DEF TodoOf
  <2> HIDE DEF T, DO
  <2> QED BY <2>1, <2>2
<1>10. Main \in T <=> DirtyAlone(ss, deps, Main)
  BY <1>1, <1>8
<1>11. DirtyAlone(ss, deps, Main) <=>
         \/ disk[Main] = 0
         \/ \E s \in ss : InputDirty(disk, Main, <<Dir, s>>) \/ <<Dir, s>> \in DO
  <2>1. \A o : o \in Objs(ss) <=> \E s \in ss : o = <<Dir, s>>
    BY <1>1, <1>2 DEF Objs
  <2>2. OwnDirty(ss, Main) <=> disk[Main] = 0 \/ \E p \in Objs(ss) : InputDirty(disk, Main, p)
    BY <1>1 DEF OwnDirty
  <2>3. DirtyAlone(ss, deps, Main) <=> OwnDirty(ss, Main) \/ \E p \in Objs(ss) : p \in DO
    BY <1>1 DEF DirtyAlone
  <2> HIDE DEF DO
  <2> QED BY <2>1, <2>2, <2>3
<1>12. ASSUME NEW s \in Test, TestExe(s) \in Wanted
       PROVE  TestExe(s) \in T <=>
                 \/ disk[TestExe(s)] = 0
                 \/ InputDirty(disk, TestExe(s), <<Dir, s>>) \/ <<Dir, s>> \in T
                 \/ InputDirty(disk, TestExe(s), Lib) \/ Lib \in T
  <2>1. TestExe(s) \in T <=> DirtyAlone(ss, deps, TestExe(s)) \/ DirtyAlone(ss, deps, Lib)
    BY <1>1, <1>8, <1>12
  <2>2. Lib \in T <=> DirtyAlone(ss, deps, Lib)
    BY <1>1, <1>10
  <2>3. Lib \notin DO
    BY <1>1, <1>5
  <2>4. DirtyAlone(ss, deps, TestExe(s)) <=>
         \/ disk[TestExe(s)] = 0
         \/ InputDirty(disk, TestExe(s), <<Dir, s>>) \/ InputDirty(disk, TestExe(s), Lib)
         \/ <<Dir, s>> \in DO
    BY <1>1, <2>3 DEF DirtyAlone, OwnDirty
  <2>5. s \in Source
    BY <1>1
  <2> HIDE DEF T, DO
  <2> QED BY <1>6, <2>1, <2>2, <2>4, <2>5
<1> HIDE DEF T, DO
<1>13. \A s \in ss : <<Dir, s>> \in T <=> <<Dir, s>> \in DO
  BY <1>1, <1>6
<1>14. \A l \in Links : l \in T => l \in Wanted
  BY <1>8
<1>15. \A s \in Source : <<Dir, s>> \in T <=> s \in Compiled(ss) /\ ObjDirty(s, deps[s])
  BY <1>6, <1>7
<1>16. Main \in T <=>
              \/ disk[Main] = 0
              \/ \E s \in ss : InputDirty(disk, Main, <<Dir, s>>) \/ <<Dir, s>> \in T
  BY <1>10, <1>11, <1>13
<1> QED BY <1>9, <1>12, <1>14, <1>15, <1>16 DEF T

(* The plan.                                                                 *)
LEMMA RunPlan ==
  ASSUME RunInv, Plan
  PROVE  RunInv'
<1> DEFINE T == TodoOf(found, listed)
<1>1. /\ at = "scanned" /\ at' = "planned" /\ clock' = clock + 1 /\ failed' = FALSE
      /\ kind' = kind /\ includes' = includes /\ disk' = disk /\ dep' = dep
      /\ fresh' = fresh /\ whole' = whole /\ of' = of /\ blind' = blind
      /\ args' = args /\ found' = found /\ listed' = listed /\ code' = code /\ quiet' = quiet
      /\ todo' = DirtyOutputs(Graph(found, listed))
  BY DEF Plan, historyVars
<1>2. /\ TypesOK /\ args \in Args /\ disk \in [Places -> 0 .. clock] /\ clock \in Nat
      /\ disk[EmptyPath] = 0 /\ found \in SUBSET InSrcDir /\ listed \in [Source -> SUBSET Files]
  BY DEF RunInv, TypesOK
<1>3. /\ Test \subseteq Source /\ InSrcDir \subseteq Source /\ InSrcDir \cap Test = {}
      /\ InSrcDir \cup Test = Source
      /\ Main \in Links /\ Main \in Wanted /\ Wanted \subseteq Links
      /\ (Lib \in Links => Lib = Main) /\ (Test # {} => Lib = Main)
      /\ \A s \in Test : TestExe(s) \in Links /\ TestExe(s) # Main
      /\ \A s, t : TestExe(s) = TestExe(t) => s = t
      /\ \A l \in Links : l = Main \/ \E s \in Test : l = TestExe(s)
      /\ \A s \in Test : LinksWith(s) = {TestExe(s)}
      /\ \A s : s \notin Test => LinksWith(s) = Links
  BY <1>2, LinksAre
<1>4. todo' = T
  BY <1>1, <1>2, <1>3, DirtyIsTodo
<1>5. /\ T \subseteq Objects \cup Links \cup {EmptyPath}
      /\ \A l \in Links : l \in T => l \in Wanted
      /\ \A s \in Source : <<Dir, s>> \in T <=> s \in Compiled(found) /\ ObjDirty(s, listed[s])
      /\ Main \in T <=>
              \/ disk[Main] = 0
              \/ \E s \in found : InputDirty(disk, Main, <<Dir, s>>) \/ <<Dir, s>> \in T
      /\ \A s \in Test : TestExe(s) \in Wanted =>
              (TestExe(s) \in T <=>
                 \/ disk[TestExe(s)] = 0
                 \/ InputDirty(disk, TestExe(s), <<Dir, s>>) \/ <<Dir, s>> \in T
                 \/ InputDirty(disk, TestExe(s), Lib) \/ Lib \in T)
  BY <1>2, TodoIs
<1> HIDE DEF T
<1>6. /\ Links' = Links /\ Dirs' = Dirs /\ Test' = Test /\ InSrcDir' = InSrcDir
      /\ Objects' = Objects /\ Places' = Places /\ Main' = Main /\ Wanted' = Wanted /\ Dir' = Dir
      /\ \A s : LinksWith(s)' = LinksWith(s)
  BY <1>1, Fixed
<1>7. Dir \in Dirs /\ \A s \in Source : Obj(args, s) = <<Dir, s>>
  BY <1>2, PlacesAre
<1>8. \A s \in Compiled(found) : s \in Source /\ listed[s] = dep[s] /\ (s \in Test => TestExe(s) \in Wanted)
  <2>1. \A s \in Compiled(found) : s \in found \/ s \in Test
    BY DEF Compiled
  <2>2. \A s \in found \cup Test : s \in Source /\ listed[s] = dep[s]
    BY <1>1, <1>2, <1>3 DEF RunInv, ListsCurrent
  <2>3. \A s \in Compiled(found) : s \in Test => TestExe(s) \in Wanted
    BY <1>2, <1>3 DEF Compiled
  <2> QED BY <2>1, <2>2, <2>3
<1>9. TypesOK'
  <2>1. disk' \in [Places -> 0 .. clock']
    BY <1>1, <1>2
  <2>2. clock' \in Nat /\ clock' > 0
    BY <1>1, <1>2
  <2>3. at' \in {"idle", "scanned", "planned", "building", "objects", "deps"} /\ failed' \in BOOLEAN
    BY <1>1
  <2> QED BY <1>1, <1>2, <1>4, <1>5, <1>6, <2>1, <2>2, <2>3 DEF TypesOK
<1>10. ObjectsInv'
  BY <1>1, ObjectsKept
<1>11. LinksAccounted'
  BY <1>1, LinksKept
<1>12. NoObjects' /\ ListsCurrent' /\ NotBuiltYet' /\ Done'
  BY <1>1 DEF RunInv, NoObjects, ListsCurrent, NotBuiltYet, Done
<1>13. FoundNow'
  BY <1>1, <1>6 DEF RunInv, FoundNow, Running, Now, Exists
<1>14. TodoKnown'
  <2>1. \A s \in Source : <<Dir, s>> \in T => s \in found \/ (s \in Test /\ TestExe(s) \in Wanted)
    BY <1>5 DEF Compiled
  <2> QED BY <1>1, <1>4, <1>5, <1>6, <2>1 DEF TodoKnown, Building, Running
<1>15. TodoUp'
  <2>1. \A s \in found : <<Dir, s>> \in T => Main \in T
    BY <1>5
  <2>2. \A s \in Test : <<Dir, s>> \in T => TestExe(s) \in T
    <3>1. ASSUME NEW s \in Test, <<Dir, s>> \in T PROVE TestExe(s) \in T
      <4>1. TestExe(s) \in Wanted
        BY <1>3, <1>5, <1>8, <3>1
      <4> QED BY <1>5, <3>1, <4>1
    <3> QED BY <3>1
  <2>3. Lib \in T => \A s \in Test : TestExe(s) \in Wanted => TestExe(s) \in T
    BY <1>5
  <2> QED BY <1>1, <1>4, <1>6, <2>1, <2>2, <2>3 DEF TodoUp
<1>16. LinksOlder'
  <2>1. ASSUME NEW l \in Links PROVE disk[l] < clock'
    <3>1. disk[l] \in 0 .. clock
      BY <1>2 DEF Places
    <3> QED BY <1>1, <1>2, <3>1
  <2>2. \A s \in Source : LinksWith(s) \subseteq Links
    BY <1>3
  <2>3. \A s \in Source : \A l \in LinksWith(s) : disk[l] < clock'
    BY <2>1, <2>2
  <2>4. \A s \in Test : disk[TestExe(s)] < clock'
    BY <1>3, <2>1
  <2> QED BY <1>1, <1>6, <2>3, <2>4 DEF LinksOlder
<1>17. RemovedBlind'
  BY <1>1, <1>6 DEF RunInv, RemovedBlind
<1>18. ASSUME NEW s \in Compiled(found), <<Dir, s>> \notin T
       PROVE  (<<Dir, s>> \in fresh \/ <<Dir, s>> \in blind) /\ ObjClean(s)
  <2>1. ~ObjDirty(s, dep[s]) /\ s \in Source
    BY <1>5, <1>8, <1>18
  <2>2. ObjClean(s)
    BY <1>7, <2>1 DEF ObjClean, ObjDirty
  <2>3. Exists(<<Dir, s>>)
    <3>1. <<Dir, s>> \in Places
      BY <1>2, <1>7, <2>1, PlacesAre DEF Places
    <3>2. disk[<<Dir, s>>] \in 0 .. clock /\ disk[<<Dir, s>>] # 0
      BY <1>2, <2>2, <3>1 DEF ObjClean
    <3> QED BY <1>2, <3>2 DEF Exists
  <2>4. <<Dir, s>> \in fresh \/ <<Dir, s>> \in blind
    BY <1>7, <2>1, <2>2, <2>3 DEF RunInv, StaleListed, ObjClean
  <2> QED BY <2>2, <2>4
<1>19. ASSUME NEW s \in Compiled(found), Newer(disk, <<Dir, s>>, Src(s)) PROVE <<Dir, s>> \in T
  BY <1>5, <1>7, <1>8, <1>19 DEF ObjDirty, InputDirty
<1>20. \A s \in found : s \in Compiled(found)
  BY DEF Compiled
<1>21. \A s \in Test : TestExe(s) \in Wanted => s \in Compiled(found)
  BY DEF Compiled
<1>22. ASSUME NEW l \in Links, disk[l] # 0 PROVE LinkGood(l) \/ (of[l] = Dir /\ Reason(l))
  <2>1. disk[l] \in 0 .. clock
    BY <1>2 DEF Places
  <2>2. Exists(l)
    BY <1>2, <1>22, <2>1 DEF Exists
  <2> QED BY <2>2 DEF RunInv, LinksAccounted, LinkGood
<1>23. ASSUME quiet PROVE \A s \in InSrcDir : Exists(Src(s)) => s \in found
  BY <1>1, <1>23 DEF RunInv, FoundNow, Running, Now
<1>24. ASSUME quiet, Main \notin T
       PROVE  /\ LinkGood(Main) /\ disk[Main] # 0
              /\ \A s \in found : ~InputDirty(disk, Main, <<Dir, s>>) /\ <<Dir, s>> \notin T
  <2>1. disk[Main] # 0 /\ \A s \in found : ~InputDirty(disk, Main, <<Dir, s>>) /\ <<Dir, s>> \notin T
    BY <1>5, <1>24
  <2>2. ASSUME of[Main] = Dir, Reason(Main) PROVE FALSE
    <3>1. PICK s \in Source :
             /\ Main \in LinksWith(s) /\ (Exists(Src(s)) \/ s \in Test)
             /\ InputDirty(disk, Main, <<Dir, s>>) \/ Newer(disk, <<Dir, s>>, Src(s))
      BY <1>3, <2>2 DEF Reason
    <3>2. s \notin Test
      BY <1>3, <3>1
    <3>3. s \in found
      BY <1>3, <1>23, <1>24, <3>1, <3>2
    <3> QED BY <1>19, <1>20, <2>1, <3>1, <3>3
  <2>3. LinkGood(Main) \/ (of[Main] = Dir /\ Reason(Main))
    BY <1>3, <1>22, <2>1
  <2> QED BY <2>1, <2>2, <2>3
<1>25. ASSUME quiet, NEW s \in Test, TestExe(s) \in Wanted, TestExe(s) \notin T
       PROVE  /\ LinkGood(TestExe(s)) /\ disk[TestExe(s)] # 0
              /\ ~InputDirty(disk, TestExe(s), <<Dir, s>>)
              /\ ~InputDirty(disk, TestExe(s), Lib)
  <2> DEFINE l == TestExe(s)
  <2>1. /\ disk[l] # 0 /\ ~InputDirty(disk, l, <<Dir, s>>) /\ ~InputDirty(disk, l, Lib)
        /\ <<Dir, s>> \notin T /\ Lib \notin T
    BY <1>5, <1>25
  <2>2. Lib = Main /\ l \in Links /\ s \in Source
    BY <1>3
  <2> HIDE DEF l
  <2>3. ASSUME of[l] = Dir, Reason(l) PROVE FALSE
    <3>1. PICK t \in Source :
             /\ l \in LinksWith(t) /\ (Exists(Src(t)) \/ t \in Test)
             /\ InputDirty(disk, l, <<Dir, t>>) \/ Newer(disk, <<Dir, t>>, Src(t))
      BY <2>1, <2>3 DEF Reason
    <3>2. CASE t \in Test
      <4>1. t = s
        BY <1>3, <3>1, <3>2 DEF l
      <4> QED BY <1>19, <1>21, <1>25, <2>1, <3>1, <4>1
    <3>3. CASE t \notin Test
      <4>1. t \in found
        BY <1>3, <1>23, <1>25, <3>1, <3>3
      <4>2. ~InputDirty(disk, Lib, <<Dir, t>>) /\ <<Dir, t>> \notin T
        BY <1>24, <1>25, <2>1, <2>2, <4>1
      <4>3. ~Newer(disk, <<Dir, t>>, Src(t))
        BY <1>19, <1>20, <4>1, <4>2
      <4>4. InputDirty(disk, l, <<Dir, t>>)
        BY <3>1, <4>3
      <4>5. /\ disk[l] \in 0 .. clock /\ disk[Lib] \in 0 .. clock
            /\ disk[<<Dir, t>>] \in 0 .. clock
        <5>1. <<Dir, t>> \in Places
          BY <1>2, <1>7, PlacesAre DEF Places
        <5>2. l \in Places /\ Lib \in Places
          BY <1>3, <2>2 DEF Places
        <5> QED BY <1>2, <5>1, <5>2
      <4> QED BY <1>2, <2>1, <4>2, <4>4, <4>5 DEF InputDirty, Newer
    <3> QED BY <3>2, <3>3
  <2>4. LinkGood(l) \/ (of[l] = Dir /\ Reason(l))
    BY <1>22, <2>1, <2>2
  <2>5. LinkGood(l)
    BY <2>3, <2>4
  <2> QED BY <2>1, <2>5 DEF l
<1>26. \A l : l \in whole' \/ l \in blind' \/ of'[l] # Dir' <=> LinkGood(l)
  BY <1>1, <1>6 DEF LinkGood
<1>27. \A s \in Compiled(found) : ObjSettled(s)'
  BY <1>1, <1>4, <1>6, <1>18 DEF ObjSettled, ObjClean
<1>28. RunSettled'
  <2> SUFFICES ASSUME quiet PROVE SettledWith(found)'
    BY <1>1 DEF RunSettled
  <2>1. \A s \in found' : ObjSettled(s)'
    BY <1>1, <1>20, <1>27
  <2>2. \A s \in Test' : TestExe(s) \in Wanted' => ObjSettled(s)'
    BY <1>6, <1>21, <1>27
  <2>3. \/ (Main \in todo)'
        \/ /\ LinkGood(Main)' /\ (disk[Main] # 0)'
           /\ \A s \in found' : ~InputDirty(disk, Main, <<Dir, s>>)'
    BY <1>1, <1>4, <1>6, <1>24 DEF LinkGood
  <2>4. ASSUME NEW s \in Test, TestExe(s) \in Wanted
        PROVE  \/ TestExe(s) \in todo'
               \/ /\ LinkGood(TestExe(s))' /\ disk'[TestExe(s)] # 0
                  /\ ~InputDirty(disk', TestExe(s), <<Dir', s>>)
                  /\ ~InputDirty(disk', TestExe(s), Lib)
    BY <1>1, <1>4, <1>6, <1>25, <2>4 DEF LinkGood
  <2> QED BY <1>6, <2>1, <2>2, <2>3, <2>4 DEF SettledWith
<1>29. NoEditMissed'
  <2>1. \A s \in Compiled(found)' : s \in Compiled(found)
    BY <1>1, <1>6 DEF Compiled
  <2>2. \A s \in Source : Obj(args, s)' = <<Dir, s>>
    BY <1>1, <1>7, <1>6 DEF Obj, Dir
  <2>3. \A s \in Compiled(found)' : Obj(args, s)' \in todo' \cup fresh' \cup blind'
    BY <1>1, <1>4, <1>8, <1>18, <2>1, <2>2
  <2>4. ASSUME quiet, NEW l \in Wanted
        PROVE  l \in T \cup whole \cup blind \/ of[l] # Dir
    <3>1. l = Main \/ \E s \in Test : l = TestExe(s)
      BY <1>3
    <3>2. l \in T \/ LinkGood(l)
      BY <1>24, <1>25, <2>4, <3>1
    <3> QED BY <3>2 DEF LinkGood
  <2>5. Dir' = ObjDir(args)'
    BY DEF Dir
  <2> QED BY <1>1, <1>4, <1>6, <2>3, <2>4, <2>5 DEF NoEditMissed
<1> QED BY <1>9, <1>10, <1>11, <1>12, <1>13, <1>14, <1>15, <1>16, <1>17, <1>28, <1>29
        DEF RunInv, ObjectsInv

(* Compiling, or failing to compile, as far as it is the same.               *)
LEMMA CompileStep ==
  ASSUME RunInv, NEW s0 \in Source, NEW status, Building, Obj(args, s0) \in todo,
         Built(Obj(args, s0), status), of' = of,
         disk' \in [Places -> 0 .. clock],
         \A p \in Places : p # Obj(args, s0) => disk'[p] = disk[p],
         whole' = whole \ Outdated(LinksWith(s0)),
         fresh' \subseteq fresh \cup {Obj(args, s0)}, dep' \in [Source -> SUBSET Files],
         blind' \subseteq Objects \cup Links, \A l \in Links : l \in blind' <=> l \in blind
  PROVE  /\ TypesOK' /\ NoObjects' /\ TodoKnown' /\ TodoUp' /\ LinksOlder'
         /\ RemovedBlind' /\ ListsCurrent' /\ FoundNow' /\ NotBuiltYet' /\ Done'
         /\ NoEditMissed'
         /\ \A k \in Links : Exists(k)' =>
              /\ Exists(k) /\ of'[k] \in Dirs
              /\ \/ k \in LinksWith(s0) /\ of[k] = Dir
                 \/ k \in whole' \/ k \in blind' \/ Reason(k)'
<1> DEFINE o == <<Dir, s0>>
<1>1. /\ at' = "building" /\ todo' = todo \ {Obj(args, s0)} /\ kind' = kind /\ clock' = clock
      /\ includes' = includes /\ args' = args /\ found' = found /\ listed' = listed
      /\ code' = code /\ quiet' = quiet /\ failed' \in BOOLEAN
  BY DEF Built, projectVars
<1>2. /\ TypesOK /\ args \in Args /\ disk \in [Places -> 0 .. clock]
      /\ disk[EmptyPath] = 0 /\ found \subseteq InSrcDir /\ fresh \subseteq Objects
      /\ whole \subseteq Links /\ of \in [Links -> Dirs \cup {"none"}]
  BY DEF RunInv, TypesOK
<1>3. /\ Links' = Links /\ Dirs' = Dirs /\ Test' = Test /\ InSrcDir' = InSrcDir
      /\ Objects' = Objects /\ Places' = Places /\ Main' = Main /\ Wanted' = Wanted /\ Dir' = Dir
      /\ \A s : LinksWith(s)' = LinksWith(s)
  BY <1>1, Fixed
<1>4. /\ Dir \in Dirs /\ Obj(args, s0) = o /\ o \in Objects /\ o \notin Files
      /\ o \notin Links /\ o # EmptyPath
  <2>1. Dir \in Dirs /\ Obj(args, s0) = o
    BY <1>2, PlacesAre
  <2> QED BY <1>2, <2>1, PlacesAre
<1>5. /\ Test \subseteq Source /\ InSrcDir \subseteq Source
      /\ Main \in Links /\ Wanted \subseteq Links
      /\ \A s \in Test : TestExe(s) \in Links
      /\ \A s \in Source : \A l \in LinksWith(s) : l \in Links
  BY <1>2, LinksAre
<1>6. /\ \A l \in Links : l \in Places /\ disk'[l] = disk[l] /\ l # o
      /\ \A s \in Source : Src(s) \in Places /\ disk'[Src(s)] = disk[Src(s)]
      /\ disk'[EmptyPath] = 0
  <2>1. \A s \in Source : Src(s) \in Files
    BY <1>2, PlacesAre
  <2>2. /\ \A l \in Links : l \in Places /\ l # o
        /\ \A s \in Source : Src(s) \in Places /\ Src(s) # o
        /\ EmptyPath \in Places /\ EmptyPath # o
    BY <1>4, <2>1 DEF Places
  <2> QED BY <1>2, <1>4, <2>2
<1> HIDE DEF o
<1>7. TypesOK'
  <2>1. fresh' \subseteq Objects /\ whole' \subseteq Links
    BY <1>2, <1>4
  <2>2. at' \in {"idle", "scanned", "planned", "building", "objects", "deps"}
    BY <1>1
  <2>3. todo' \subseteq todo
    BY <1>1
  <2> QED BY <1>1, <1>2, <1>3, <1>6, <2>1, <2>2, <2>3 DEF TypesOK
<1>8. NoObjects' /\ ListsCurrent' /\ Done' /\ NoEditMissed' /\ NotBuiltYet'
  BY <1>1 DEF RunInv, NoObjects, ListsCurrent, Done, NoEditMissed, NotBuiltYet, Building
<1>9. TodoKnown'
  BY <1>1, <1>2, <1>3 DEF RunInv, TodoKnown, Building, Running
<1>10. TodoUp'
  <2>1. \A l \in Links : l \in todo' <=> l \in todo
    BY <1>1, <1>4, <1>6
  <2>2. Lib \in todo' => Lib \in todo
    BY <1>1
  <2>3. \A s \in found : <<Dir, s>> \in todo' => Main \in todo'
    BY <1>1, <1>5, <2>1 DEF RunInv, TodoUp
  <2>4. \A s \in Test : <<Dir, s>> \in todo' => TestExe(s) \in todo'
    BY <1>1, <1>5, <2>1 DEF RunInv, TodoUp
  <2>5. Lib \in todo' => \A s \in Test : TestExe(s) \in Wanted => TestExe(s) \in todo'
    BY <1>5, <2>1, <2>2 DEF RunInv, TodoUp
  <2> QED BY <1>1, <1>3, <2>3, <2>4, <2>5 DEF TodoUp
<1>11. LinksOlder'
  <2>1. \A s \in Source : <<Dir, s>> \in todo' => \A l \in LinksWith(s) : disk'[l] < clock
    BY <1>1, <1>5, <1>6 DEF RunInv, LinksOlder
  <2>2. Lib \in todo' => \A s \in Test : disk'[TestExe(s)] < clock
    BY <1>1, <1>5, <1>6 DEF RunInv, LinksOlder
  <2> QED BY <1>1, <1>3, <2>1, <2>2 DEF LinksOlder
<1>12. RemovedBlind'
  <2> SUFFICES ASSUME NEW s \in found, disk'[Src(s)] = 0, <<Dir, s>> \in todo'
               PROVE  LinksWith(s) \subseteq blind'
    BY <1>1, <1>3 DEF RemovedBlind
  <2>1. s \in Source
    BY <1>2, <1>5
  <2>2. LinksWith(s) \subseteq blind
    BY <1>1, <1>6, <2>1 DEF RunInv, RemovedBlind
  <2> QED BY <1>5, <2>1, <2>2
<1>13. FoundNow'
  <2>1. Now' = Now
    BY <1>3, <1>5, <1>6 DEF Now, Exists
  <2> QED BY <1>1, <2>1 DEF RunInv, FoundNow, Running, Building
<1>14. ASSUME NEW k \in Links, Exists(k)'
       PROVE  /\ Exists(k) /\ of'[k] \in Dirs
              /\ \/ k \in LinksWith(s0) /\ of[k] = Dir
                 \/ k \in whole' \/ k \in blind' \/ Reason(k)'
  <2>1. Exists(k) /\ disk'[k] = disk[k]
    BY <1>6, <1>14 DEF Exists
  <2>2. of[k] \in Dirs /\ (k \in whole \/ k \in blind \/ Reason(k))
    BY <2>1 DEF RunInv, LinksAccounted
  <2>3. ASSUME ~(k \in LinksWith(s0) /\ of[k] = Dir), k \in whole PROVE k \in whole'
    BY <2>3 DEF Outdated, Dir
  <2>4. ASSUME ~(k \in LinksWith(s0) /\ of[k] = Dir), Reason(k) PROVE Reason(k)'
    <3>1. CASE \E s \in Source :
           /\ k \in LinksWith(s) /\ (Exists(Src(s)) \/ s \in Test)
           /\ InputDirty(disk, k, <<of[k], s>>) \/ Newer(disk, <<of[k], s>>, Src(s))
      <4>1. PICK s \in Source :
           /\ k \in LinksWith(s) /\ (Exists(Src(s)) \/ s \in Test)
           /\ InputDirty(disk, k, <<of[k], s>>) \/ Newer(disk, <<of[k], s>>, Src(s))
        BY <3>1
      <4>2. <<of[k], s>> # o
        BY <2>4, <4>1 DEF o
      <4>3. <<of[k], s>> \in Objects
        BY <1>2, <2>2, PlacesAre
      <4>4. disk'[<<of[k], s>>] = disk[<<of[k], s>>]
        BY <1>4, <4>2, <4>3 DEF Places
      <4> QED BY <1>3, <1>6, <2>1, <4>1, <4>4 DEF Reason, InputDirty, Newer, Exists
    <3>2. CASE /\ Lib \in Links /\ \E s \in Test : k = TestExe(s)
               /\ InputDirty(disk, k, Lib)
      BY <1>3, <1>6, <2>1, <3>2 DEF Reason, InputDirty, Newer
    <3> QED BY <2>4, <3>1, <3>2 DEF Reason
  <2> QED BY <2>1, <2>2, <2>3, <2>4
<1> QED BY <1>7, <1>8, <1>9, <1>10, <1>11, <1>12, <1>13, <1>14

(* A compiler fails.                                                         *)
LEMMA RunFailToCompile ==
  ASSUME RunInv, NEW s0 \in Source, NEW status, ~Succeeds(status), FailToCompile(s0, status)
  PROVE  RunInv'
<1> DEFINE o == <<Dir, s0>>
<1>1. /\ Building /\ Obj(args, s0) \in todo /\ Built(Obj(args, s0), status) /\ of' = of
      /\ disk' = [disk EXCEPT ![Obj(args, s0)] = 0]
      /\ fresh' = fresh \ {Obj(args, s0)}
      /\ whole' = whole \ Outdated(LinksWith(s0))
      /\ \/ dep' = dep /\ blind' = blind
         \/ /\ dep' = [dep EXCEPT ![s0] = {}]
            /\ blind' = blind \cup {x \in ObjOf(s0) \ {Obj(args, s0)} : Exists(x)}
  BY DEF FailToCompile
<1>2. /\ args \in Args /\ disk \in [Places -> 0 .. clock] /\ clock \in Nat
      /\ dep \in [Source -> SUBSET Files] /\ blind \subseteq Objects \cup Links
      /\ includes' = includes /\ kind' = kind /\ failed'
  <2>1. includes' = includes /\ kind' = kind /\ failed'
    BY <1>1 DEF Built, projectVars
  <2> QED BY <2>1 DEF RunInv, TypesOK
<1>3. /\ Dir \in Dirs /\ Obj(args, s0) = o /\ o \in Places
      /\ \A x : x \in ObjOf(s0) <=> \E d \in Dirs : x = <<d, s0>>
      /\ \A d \in Dirs : \A s \in Source :
           <<d, s>> \in Objects /\ <<d, s>> \in Places /\ <<d, s>> \notin Links
      /\ \A p \in Files : p # o /\ p \in Places
  <2>1. Dir \in Dirs /\ Obj(args, s0) = o
    BY <1>2, PlacesAre
  <2>2. \A d \in Dirs : \A s \in Source :
          <<d, s>> \in Objects /\ <<d, s>> \notin Links /\ <<d, s>> \notin Files
    BY <1>2, PlacesAre
  <2>3. \A x : x \in ObjOf(s0) <=> \E d \in Dirs : x = <<d, s0>>
    BY <1>2, PlacesAre
  <2> QED BY <2>1, <2>2, <2>3 DEF Places
<1> HIDE DEF o
<1>4. /\ disk' \in [Places -> 0 .. clock] /\ disk'[o] = 0
      /\ \A p \in Places : p # o => disk'[p] = disk[p]
  <2>1. 0 \in 0 .. clock
    BY <1>2
  <2> QED BY <1>1, <1>2, <1>3, <2>1
<1>5. /\ dep' \in [Source -> SUBSET Files] /\ \A s \in Source : s # s0 => dep'[s] = dep[s]
      /\ blind' \subseteq Objects \cup Links
      /\ \A x : x \in blind => x \in blind'
      /\ \A l \in Links : l \in blind' <=> l \in blind
  <2>1. CASE dep' = dep /\ blind' = blind
    BY <1>2, <2>1
  <2>2. CASE /\ dep' = [dep EXCEPT ![s0] = {}]
             /\ blind' = blind \cup {x \in ObjOf(s0) \ {Obj(args, s0)} : Exists(x)}
    <3>1. dep' \in [Source -> SUBSET Files] /\ \A s \in Source : s # s0 => dep'[s] = dep[s]
      BY <1>2, <2>2
    <3>2. \A x \in ObjOf(s0) : x \in Objects /\ x \notin Links
      BY <1>3
    <3> QED BY <1>2, <2>2, <3>1, <3>2
  <2> QED BY <1>1, <2>1, <2>2
<1>6. \/ dep' = dep /\ blind' = blind
      \/ \A d \in Dirs : <<d, s0>> # o /\ Exists(<<d, s0>>) => <<d, s0>> \in blind'
  BY <1>1, <1>3
<1>7. /\ TypesOK' /\ NoObjects' /\ TodoKnown' /\ TodoUp' /\ LinksOlder'
      /\ RemovedBlind' /\ ListsCurrent' /\ FoundNow' /\ NotBuiltYet' /\ Done'
      /\ NoEditMissed'
      /\ \A k \in Links : Exists(k)' =>
           /\ Exists(k) /\ of'[k] \in Dirs
           /\ \/ k \in LinksWith(s0) /\ of[k] = Dir
              \/ k \in whole' \/ k \in blind' \/ Reason(k)'
  BY <1>1, <1>3, <1>4, <1>5, CompileStep
<1>8. RunSettled'
  BY <1>2 DEF RunSettled
<1>9. /\ Links' = Links /\ Dirs' = Dirs /\ Test' = Test /\ \A s : LinksWith(s)' = LinksWith(s)
      /\ \A s : ReadFor(s)' = ReadFor(s)
  <2>1. \A s : ReadFor(s)' = ReadFor(s)
    BY <1>2 DEF ReadFor, HeadersOf, Closed
  <2> QED BY <1>2, <2>1, Fixed
<1>10. \A d \in Dirs : \A s \in Source : <<d, s>> # o =>
         /\ disk'[<<d, s>>] = disk[<<d, s>>] /\ (Exists(<<d, s>>)' <=> Exists(<<d, s>>))
         /\ <<d, s>> \in fresh' <=> <<d, s>> \in fresh
         /\ \A p \in ReadFor(s) \cup dep[s] :
              InputDirty(disk', <<d, s>>, p) <=> InputDirty(disk, <<d, s>>, p)
  <2>1. \A s \in Source : \A p \in ReadFor(s) \cup dep[s] : disk'[p] = disk[p]
    <3>1. \A s \in Source : \A p \in ReadFor(s) \cup dep[s] : p \in Files
      BY <1>2, ReadForIs
    <3> QED BY <1>3, <1>4, <3>1
  <2>2. \A d \in Dirs : \A s \in Source : <<d, s>> # o => disk'[<<d, s>>] = disk[<<d, s>>]
    BY <1>3, <1>4
  <2> QED BY <1>1, <1>3, <2>1, <2>2 DEF Exists, InputDirty, Newer
<1>11. \A x : x = o => ~Exists(x)' /\ x \notin fresh'
  BY <1>1, <1>3, <1>4 DEF Exists
<1>12. FreshExist'
  BY <1>9, <1>10, <1>11 DEF RunInv, FreshExist
<1>13. DepsKnown'
  <2> SUFFICES ASSUME NEW s \in Source, NEW d \in Dirs, <<d, s>> \in fresh', <<d, s>> \notin blind'
               PROVE  dep'[s] = ReadFor(s)
    BY <1>9 DEF DepsKnown
  <2>1. <<d, s>> # o /\ <<d, s>> \in fresh /\ <<d, s>> \notin blind
    BY <1>5, <1>10, <1>11
  <2>2. dep[s] = ReadFor(s) /\ Exists(<<d, s>>)
    BY <2>1 DEF RunInv, DepsKnown, FreshExist
  <2> QED BY <1>5, <1>6, <2>1, <2>2
<1>14. StaleSeen'
  BY <1>9, <1>10, <1>11 DEF RunInv, StaleSeen
<1>15. StaleListed'
  <2> SUFFICES ASSUME NEW s \in Source, NEW d \in Dirs,
                      Exists(<<d, s>>)', <<d, s>> \notin fresh', <<d, s>> \notin blind'
               PROVE  \E p \in dep'[s] : InputDirty(disk', <<d, s>>, p)
    BY <1>9 DEF StaleListed
  <2>1. <<d, s>> # o
    BY <1>11
  <2>2. Exists(<<d, s>>) /\ <<d, s>> \notin fresh /\ <<d, s>> \notin blind
    BY <1>5, <1>10, <2>1
  <2>3. PICK p \in dep[s] : InputDirty(disk, <<d, s>>, p)
    BY <2>2 DEF RunInv, StaleListed
  <2>4. dep'[s] = dep[s]
    BY <1>5, <1>6, <2>1, <2>2
  <2> QED BY <1>10, <2>1, <2>3, <2>4
<1>16. LinksAccounted'
  <2> SUFFICES ASSUME NEW k \in Links, Exists(k)'
               PROVE  of'[k] \in Dirs /\ (k \in whole' \/ k \in blind' \/ Reason(k)')
    BY <1>9 DEF LinksAccounted
  <2>1. /\ of'[k] \in Dirs
        /\ \/ k \in LinksWith(s0) /\ of[k] = Dir
           \/ k \in whole' \/ k \in blind' \/ Reason(k)'
    BY <1>7
  <2>2. ASSUME k \in LinksWith(s0), of[k] = Dir PROVE k \in blind' \/ Reason(k)'
    <3>1. InputDirty(disk', k, <<of'[k], s0>>)
      BY <1>1, <1>4, <2>2 DEF InputDirty, o
    <3>2. CASE Exists(Src(s0)) \/ s0 \in Test
      <4>1. Src(s0) \in Files
        BY <1>2, PlacesAre
      <4>2. Exists(Src(s0))' \/ s0 \in Test
        BY <1>3, <1>4, <3>2, <4>1 DEF Exists
      <4> QED BY <1>9, <2>2, <3>1, <4>2 DEF Reason
    <3>3. CASE ~(Exists(Src(s0)) \/ s0 \in Test)
      <4>1. s0 \in found
        BY <1>1, <1>3, <3>3 DEF RunInv, TodoKnown, o
      <4>2. Src(s0) \in Places
        BY <1>2, PlacesAre DEF Places
      <4>3. disk[Src(s0)] = 0
        <5>1. disk[Src(s0)] \in 0 .. clock
          BY <1>2, <4>2
        <5> QED BY <1>2, <3>3, <5>1 DEF Exists
      <4>4. LinksWith(s0) \subseteq blind
        BY <1>1, <1>3, <4>1, <4>3 DEF RunInv, RemovedBlind, o
      <4> QED BY <1>5, <2>2, <4>4
    <3> QED BY <3>2, <3>3
  <2> QED BY <2>1, <2>2
<1> QED BY <1>7, <1>8, <1>12, <1>13, <1>14, <1>15, <1>16 DEF RunInv

(* A compiler writes an object, and the dependency file with it.             *)
LEMMA RunCompile ==
  ASSUME RunInv, NEW s0 \in Source, Compile(s0)
  PROVE  RunInv'
<1> DEFINE o == <<Dir, s0>>
<1>1. /\ Building /\ Obj(args, s0) \in todo /\ of' = of
      /\ \A p \in ReadFor(s0) : Exists(p)
      /\ disk' = [disk EXCEPT ![Obj(args, s0)] = clock]
      /\ dep' = [dep EXCEPT ![s0] = ReadFor(s0)]
      /\ fresh' = fresh \cup {Obj(args, s0)}
      /\ blind' = blind \ ObjOf(s0)
      /\ whole' = whole \ Outdated(LinksWith(s0))
  BY DEF Compile
<1>2. PICK status : Built(Obj(args, s0), status)
  BY DEF Compile
<1>3. /\ args \in Args /\ disk \in [Places -> 0 .. clock] /\ clock \in Nat /\ clock > 0
      /\ dep \in [Source -> SUBSET Files] /\ blind \subseteq Objects \cup Links
      /\ found \subseteq InSrcDir
      /\ includes' = includes /\ kind' = kind /\ args' = args /\ found' = found
      /\ quiet' = quiet /\ (failed => failed')
      /\ todo' = todo \ {Obj(args, s0)}
  <2>1. /\ includes' = includes /\ kind' = kind /\ (failed => failed')
        /\ args' = args /\ found' = found /\ quiet' = quiet
        /\ todo' = todo \ {Obj(args, s0)}
    BY <1>2 DEF Built, projectVars
  <2> QED BY <2>1 DEF RunInv, TypesOK
<1>4. /\ Dir \in Dirs /\ Obj(args, s0) = o /\ o \in Places /\ o \notin Links
      /\ \A d \in Dirs : \A s \in Source : <<d, s>> \in ObjOf(s0) <=> s = s0
      /\ ObjOf(s0) \cap Links = {}
      /\ \A d \in Dirs : \A s \in Source :
           <<d, s>> \in Objects /\ <<d, s>> \in Places /\ <<d, s>> \notin Links
      /\ \A p \in Files : p # o /\ p \in Places
  <2>1. Dir \in Dirs /\ Obj(args, s0) = o
    BY <1>3, PlacesAre
  <2>2. \A d \in Dirs : \A s \in Source :
          <<d, s>> \in Objects /\ <<d, s>> \notin Links /\ <<d, s>> \notin Files
    BY <1>3, PlacesAre
  <2>3. \A x : x \in ObjOf(s0) <=> \E d \in Dirs : x = <<d, s0>>
    BY <1>3, PlacesAre
  <2> QED BY <2>1, <2>2, <2>3 DEF Places
<1>5. /\ Test \subseteq Source /\ InSrcDir \subseteq Source /\ InSrcDir \cap Test = {}
      /\ Main \in Links /\ Wanted \subseteq Links
      /\ (Lib \in Links => Lib = Main) /\ (Test # {} => Lib = Main)
      /\ \A s \in Test : TestExe(s) \in Links /\ TestExe(s) # Main
      /\ \A s, t : TestExe(s) = TestExe(t) => s = t
      /\ \A s \in Test : LinksWith(s) = {TestExe(s)}
      /\ \A s : s \notin Test => LinksWith(s) = Links
      /\ \A s \in Source : \A l \in LinksWith(s) : l \in Links
      /\ \A ss \in SUBSET Source : LinkedFrom(ss, Main) = Objs(ss)
  BY <1>3, LinksAre
<1> HIDE DEF o
<1>6. /\ disk' \in [Places -> 0 .. clock] /\ disk'[o] = clock
      /\ \A p \in Places : p # o => disk'[p] = disk[p]
  <2>1. clock \in 0 .. clock
    BY <1>3
  <2> QED BY <1>1, <1>3, <1>4, <2>1
<1>7. /\ dep' \in [Source -> SUBSET Files] /\ \A s \in Source : s # s0 => dep'[s] = dep[s]
      /\ dep'[s0] = ReadFor(s0)
      /\ blind' \subseteq Objects \cup Links
      /\ \A l \in Links : l \in blind' <=> l \in blind
  <2>1. ReadFor(s0) \in SUBSET Files
    BY ReadForIs
  <2>2. dep' \in [Source -> SUBSET Files] /\ dep'[s0] = ReadFor(s0)
        /\ \A s \in Source : s # s0 => dep'[s] = dep[s]
    BY <1>1, <1>3, <2>1
  <2> QED BY <1>1, <1>3, <1>4, <2>2
<1>8. /\ TypesOK' /\ NoObjects' /\ TodoKnown' /\ TodoUp' /\ LinksOlder'
      /\ RemovedBlind' /\ ListsCurrent' /\ FoundNow' /\ NotBuiltYet' /\ Done'
      /\ NoEditMissed'
      /\ \A k \in Links : Exists(k)' =>
           /\ Exists(k) /\ of'[k] \in Dirs
           /\ \/ k \in LinksWith(s0) /\ of[k] = Dir
              \/ k \in whole' \/ k \in blind' \/ Reason(k)'
  BY <1>1, <1>2, <1>4, <1>6, <1>7, CompileStep
<1>9. /\ Links' = Links /\ Dirs' = Dirs /\ Test' = Test /\ \A s : LinksWith(s)' = LinksWith(s)
      /\ Main' = Main /\ Wanted' = Wanted /\ Dir' = Dir
      /\ \A s : ReadFor(s)' = ReadFor(s)
  <2>1. \A s : ReadFor(s)' = ReadFor(s)
    BY <1>3 DEF ReadFor, HeadersOf, Closed
  <2> QED BY <1>3, <2>1, Fixed
<1>10. \A s \in Source : \A p \in ReadFor(s) \cup dep[s] \cup {Src(s)} :
         p \in Files /\ disk'[p] = disk[p]
  <2>1. \A s \in Source : \A p \in ReadFor(s) \cup dep[s] \cup {Src(s)} : p \in Files
    BY <1>3, ReadForIs
  <2> QED BY <1>4, <1>6, <2>1
<1>11. \A d \in Dirs : \A s \in Source : <<d, s>> # o =>
         /\ disk'[<<d, s>>] = disk[<<d, s>>] /\ (Exists(<<d, s>>)' <=> Exists(<<d, s>>))
         /\ <<d, s>> \in fresh' <=> <<d, s>> \in fresh
         /\ \A p \in ReadFor(s) \cup dep[s] \cup {Src(s)} :
              InputDirty(disk', <<d, s>>, p) <=> InputDirty(disk, <<d, s>>, p)
  <2>1. \A d \in Dirs : \A s \in Source : <<d, s>> # o => disk'[<<d, s>>] = disk[<<d, s>>]
    BY <1>4, <1>6
  <2> QED BY <1>1, <1>4, <1>10, <2>1 DEF Exists, InputDirty, Newer
<1>12. \A x : x = o => Exists(x)' /\ x \in fresh'
  BY <1>1, <1>3, <1>4, <1>6 DEF Exists
<1>13. \A d \in Dirs : \A s \in Source : s # s0 =>
         (<<d, s>> \in blind' <=> <<d, s>> \in blind) /\ <<d, s>> # o
  BY <1>1, <1>4 DEF o
<1>14. FreshExist'
  BY <1>9, <1>11, <1>12 DEF RunInv, FreshExist
<1>15. DepsKnown'
  <2> SUFFICES ASSUME NEW s \in Source, NEW d \in Dirs, <<d, s>> \in fresh', <<d, s>> \notin blind'
               PROVE  dep'[s] = ReadFor(s)
    BY <1>9 DEF DepsKnown
  <2>1. CASE s = s0
    BY <1>7, <2>1
  <2>2. CASE s # s0
    <3>1. <<d, s>> \in fresh /\ <<d, s>> \notin blind
      BY <1>11, <1>13, <2>2
    <3> QED BY <1>7, <2>2, <3>1 DEF RunInv, DepsKnown
  <2> QED BY <2>1, <2>2
<1>16. \A d \in Dirs : \A s \in Source : Exists(<<d, s>>)' /\ <<d, s>> \notin fresh' =>
         <<d, s>> # o /\ Exists(<<d, s>>) /\ <<d, s>> \notin fresh
  BY <1>11, <1>12
<1>17. StaleSeen'
  BY <1>9, <1>11, <1>16 DEF RunInv, StaleSeen
<1>18. StaleListed'
  <2> SUFFICES ASSUME NEW s \in Source, NEW d \in Dirs,
                      Exists(<<d, s>>)', <<d, s>> \notin fresh', <<d, s>> \notin blind'
               PROVE  \E p \in dep'[s] : InputDirty(disk', <<d, s>>, p)
    BY <1>9 DEF StaleListed
  <2>1. <<d, s>> # o /\ Exists(<<d, s>>) /\ <<d, s>> \notin fresh
    BY <1>16
  <2>2. CASE s = s0
    <3>1. \E p \in ReadFor(s) : InputDirty(disk, <<d, s>>, p)
      BY <2>1 DEF RunInv, StaleSeen
    <3> QED BY <1>7, <1>11, <2>1, <2>2, <3>1
  <2>3. CASE s # s0
    <3>1. <<d, s>> \notin blind
      BY <1>13, <2>3
    <3>2. \E p \in dep[s] : InputDirty(disk, <<d, s>>, p)
      BY <2>1, <3>1 DEF RunInv, StaleListed
    <3> QED BY <1>7, <1>11, <2>1, <2>3, <3>2
  <2> QED BY <2>2, <2>3
<1>19. Src(s0) \in ReadFor(s0)
  BY ReadForIs
<1>20. LinksAccounted'
  <2> SUFFICES ASSUME NEW k \in Links, Exists(k)'
               PROVE  of'[k] \in Dirs /\ (k \in whole' \/ k \in blind' \/ Reason(k)')
    BY <1>9 DEF LinksAccounted
  <2>1. /\ of'[k] \in Dirs
        /\ \/ k \in LinksWith(s0) /\ of[k] = Dir
           \/ k \in whole' \/ k \in blind' \/ Reason(k)'
    BY <1>8
  <2>2. ASSUME k \in LinksWith(s0), of[k] = Dir PROVE Reason(k)'
    <3>1. disk'[k] = disk[k]
      BY <1>4, <1>6 DEF Places
    <3>2. disk[k] < clock
      BY <1>1, <1>4, <2>2 DEF RunInv, LinksOlder, o
    <3>3. InputDirty(disk', k, <<of'[k], s0>>)
      BY <1>1, <1>6, <2>2, <3>1, <3>2 DEF InputDirty, Newer, o
    <3>4. Exists(Src(s0))'
      BY <1>1, <1>10, <1>19 DEF Exists
    <3> QED BY <1>9, <2>2, <3>3, <3>4 DEF Reason
  <2> QED BY <2>1, <2>2
<1>21. RunSettled'
  <2> SUFFICES ASSUME quiet', ~failed' PROVE SettledWith(found)'
    BY DEF RunSettled
  <2>1. SettledWith(found)
    BY <1>1, <1>3 DEF RunInv, RunSettled
  <2>2. ASSUME NEW s \in Source, ObjSettled(s) PROVE ObjSettled(s)'
    <3>1. CASE s = s0
      <4>1. ASSUME NEW p \in {Src(s0)} \cup dep'[s0] PROVE ~InputDirty(disk', o, p)
        <5>1. p \in ReadFor(s0)
          BY <1>7, <1>19
        <5>2. disk'[p] = disk[p] /\ disk[p] > 0 /\ p \in Places
          BY <1>1, <1>4, <1>10, <5>1 DEF Exists
        <5>3. disk[p] \in 0 .. clock
          BY <1>3, <5>2
        <5> QED BY <1>3, <1>6, <5>2, <5>3 DEF InputDirty, Newer
      <4>2. \A p \in {Src(s)} \cup dep'[s] : ~InputDirty(disk', <<Dir, s>>, p)
        BY <3>1, <4>1 DEF o
      <4>3. disk'[<<Dir, s>>] # 0 /\ <<Dir, s>> \in fresh'
        BY <1>3, <1>6, <1>12, <3>1 DEF o
      <4> QED BY <1>9, <4>2, <4>3 DEF ObjSettled, ObjClean
    <3>2. CASE s # s0
      <4>1. <<Dir, s>> # o /\ (<<Dir, s>> \in blind' <=> <<Dir, s>> \in blind)
            /\ (<<Dir, s>> \in fresh' <=> <<Dir, s>> \in fresh)
            /\ disk'[<<Dir, s>>] = disk[<<Dir, s>>] /\ dep'[s] = dep[s]
        BY <1>4, <1>7, <1>11, <1>13, <3>2
      <4>2. <<Dir, s>> \in todo => <<Dir, s>> \in todo'
        BY <1>3, <1>4, <4>1
      <4>3. \A p \in {Src(s)} \cup dep[s] :
              InputDirty(disk', <<Dir, s>>, p) <=> InputDirty(disk, <<Dir, s>>, p)
        BY <1>4, <1>11, <4>1
      <4> QED BY <1>9, <2>2, <4>1, <4>2, <4>3 DEF ObjSettled, ObjClean
    <3> QED BY <3>1, <3>2
  <2>3. ASSUME NEW l \in Links PROVE (l \in todo => l \in todo') /\ disk'[l] = disk[l]
    BY <1>3, <1>4, <1>6 DEF Places
  <2>4. ASSUME NEW l \in Links, l \notin LinksWith(s0), LinkGood(l)
        PROVE  l \in whole' \/ l \in blind' \/ of'[l] # Dir
    BY <1>1, <1>7, <2>4 DEF LinkGood, Outdated
  <2>5. s0 \in found \/ (s0 \in Test /\ TestExe(s0) \in Wanted)
    BY <1>1, <1>4 DEF RunInv, TodoKnown, o
  <2>6. \A s \in found' : ObjSettled(s)'
    BY <1>3, <1>5, <2>1, <2>2 DEF SettledWith
  <2>7. \A s \in Test : TestExe(s) \in Wanted => ObjSettled(s)'
    BY <1>5, <2>1, <2>2 DEF SettledWith
  <2>8. \/ Main \in todo'
        \/ /\ Main \in whole' \/ Main \in blind' \/ of'[Main] # Dir
           /\ disk'[Main] # 0
           /\ \A s \in found : ~InputDirty(disk', Main, <<Dir, s>>)
    <3>1. CASE s0 \in found
      <4>1. Main \in todo
        BY <1>1, <1>4, <3>1 DEF RunInv, TodoUp, o
      <4> QED BY <1>5, <2>3, <4>1
    <3>2. CASE s0 \notin found
      <4>1. Main \notin LinksWith(s0)
        BY <1>5, <2>5, <3>2
      <4>2. \A s \in found : disk'[<<Dir, s>>] = disk[<<Dir, s>>]
        BY <1>3, <1>4, <1>5, <1>11, <1>13, <3>2
      <4> QED BY <1>5, <2>1, <2>3, <2>4, <4>1, <4>2 DEF SettledWith, InputDirty, Newer
    <3> QED BY <3>1, <3>2
  <2>9. ASSUME NEW s \in Test, TestExe(s) \in Wanted
        PROVE  \/ TestExe(s) \in todo'
               \/ /\ TestExe(s) \in whole' \/ TestExe(s) \in blind' \/ of'[TestExe(s)] # Dir
                  /\ disk'[TestExe(s)] # 0
                  /\ ~InputDirty(disk', TestExe(s), <<Dir, s>>)
                  /\ ~InputDirty(disk', TestExe(s), Lib)
    <3>1. CASE TestExe(s) \in todo
      BY <1>5, <2>3, <3>1
    <3>2. CASE TestExe(s) \notin todo
      <4>1. s # s0
        BY <1>1, <1>4, <3>2 DEF RunInv, TodoUp, o
      <4>2. s0 \notin found
        <5>1. s0 \in found => Main \in todo
          BY <1>1, <1>4 DEF RunInv, TodoUp, o
        <5>2. Lib = Main
          BY <1>5
        <5> QED BY <2>9, <3>2, <5>1, <5>2 DEF RunInv, TodoUp
      <4>3. TestExe(s) \notin LinksWith(s0)
        BY <1>5, <2>5, <4>1, <4>2
      <4>4. disk'[<<Dir, s>>] = disk[<<Dir, s>>] /\ disk'[Lib] = disk[Lib]
        BY <1>4, <1>5, <1>11, <1>13, <2>3, <4>1
      <4> QED BY <1>5, <2>1, <2>3, <2>4, <2>9, <3>2, <4>3, <4>4 DEF SettledWith, InputDirty, Newer
    <3> QED BY <3>1, <3>2
  <2> QED BY <1>3, <1>9, <2>6, <2>7, <2>8, <2>9 DEF SettledWith, LinkGood
<1> QED BY <1>8, <1>14, <1>15, <1>17, <1>18, <1>20, <1>21 DEF RunInv

(* What holds between runs.                                                  *)
LEMMA RunRests ==
  ASSUME at' \in {"idle", "objects", "deps"}, found' = {}, todo' = {}, ~quiet' \/ code' # "built",
         code' = "built" => at' = "idle"
  PROVE  /\ TodoKnown' /\ TodoUp' /\ LinksOlder' /\ RemovedBlind' /\ ListsCurrent' /\ FoundNow'
         /\ NotBuiltYet' /\ RunSettled' /\ Done' /\ NoEditMissed'
<1>1. /\ at' # "scanned" /\ at' # "planned" /\ at' # "building"
  OBVIOUS
<1> QED BY <1>1 DEF TodoKnown, TodoUp, LinksOlder, RemovedBlind, ListsCurrent, FoundNow, NotBuiltYet,
                    RunSettled, Done, NoEditMissed, Running, Building

(* `clean' begins: what is linked is removed.                                *)
LEMMA RunClean ==
  ASSUME RunInv, Clean
  PROVE  RunInv'
<1>1. /\ at = "idle" /\ at' = "objects" /\ code' = "none" /\ quiet' = FALSE /\ args' = AnyArgs
      /\ disk' = Without(Links) /\ whole' = {}
      /\ kind' = kind /\ clock' = clock /\ includes' = includes /\ dep' = dep
      /\ fresh' = fresh /\ of' = of /\ blind' = blind /\ found' = found /\ listed' = listed
      /\ todo' = todo /\ failed' = failed
  BY DEF Clean, Trees, projectVars
<1>2. /\ TypesOK /\ args \in Args /\ disk \in [Places -> 0 .. clock] /\ clock \in Nat
      /\ disk[EmptyPath] = 0
  BY DEF RunInv, TypesOK
<1>3. found = {} /\ todo = {}
  BY <1>1 DEF RunInv, TodoKnown, Building, Running
<1>4. /\ disk' \in [Places -> 0 .. clock] /\ disk'[EmptyPath] = 0
      /\ \A l \in Links : disk'[l] = 0
      /\ \A p \in Objects \cup Files : disk'[p] = disk[p]
  <2>1. disk' = [p \in Places |-> IF p \in Links THEN 0 ELSE disk[p]]
    BY <1>1, <1>2 DEF Without
  <2>2. 0 \in 0 .. clock
    BY <1>2
  <2>3. disk' \in [Places -> 0 .. clock]
    BY <1>2, <2>1, <2>2
  <2>4. /\ \A l \in Links : l \in Places
        /\ \A p \in Objects \cup Files : p \in Places /\ p \notin Links
        /\ EmptyPath \in Places /\ EmptyPath \notin Links
    BY <1>2, PlacesAre DEF Places
  <2> QED BY <1>2, <2>1, <2>3, <2>4
<1>5. /\ Links' = Links /\ Objects' = Objects /\ Places' = Places /\ InSrcDir' = InSrcDir
      /\ Dirs' = Dirs
  BY <1>1, Fixed
<1>6. TypesOK'
  <2>1. args' \in Args
    BY <1>1, TemplateAssumption DEF AnyArgs
  <2>2. at' \in {"idle", "scanned", "planned", "building", "objects", "deps"}
    BY <1>1
  <2> QED BY <1>1, <1>2, <1>4, <1>5, <2>1, <2>2 DEF TypesOK
<1>7. ObjectsInv'
  BY <1>1, <1>4, ObjectsKept
<1>8. NoObjects'
  BY <1>1 DEF NoObjects
<1>9. LinksAccounted'
  BY <1>4, <1>5 DEF LinksAccounted, Exists
<1>10. /\ TodoKnown' /\ TodoUp' /\ LinksOlder' /\ RemovedBlind' /\ ListsCurrent' /\ FoundNow'
       /\ NotBuiltYet' /\ RunSettled' /\ Done' /\ NoEditMissed'
  <2>1. found' = {} /\ todo' = {} /\ code' # "built"
    BY <1>1, <1>3
  <2> QED BY <1>1, <2>1, RunRests
<1> QED BY <1>6, <1>7, <1>8, <1>9, <1>10 DEF RunInv, ObjectsInv

(* Trees are deleted, or parts of them: objects, or dependency files when    *)
(* there are no objects.                                                     *)
LEMMA TreeStep ==
  ASSUME RunInv, NEW os \in SUBSET Objects, NEW ss \in SUBSET Source, Deleted(os, ss),
         ss = {} \/ at = "deps", kind' = kind,
         includes' = includes, whole' = whole, of' = of, blind' = blind
  PROVE  /\ ObjectsInv' /\ LinksAccounted'
         /\ disk' \in [Places -> 0 .. clock] /\ disk'[EmptyPath] = 0
         /\ dep' \in [Source -> SUBSET Files] /\ fresh' \subseteq Objects
         /\ \A d \in Dirs : \A s \in Source :
              Exists(<<d, s>>)' => Exists(<<d, s>>) /\ <<d, s>> \notin os
<1>1. /\ args \in Args /\ disk \in [Places -> 0 .. clock] /\ clock \in Nat
      /\ disk[EmptyPath] = 0 /\ fresh \subseteq Objects /\ dep \in [Source -> SUBSET Files]
      /\ of \in [Links -> Dirs \cup {"none"}]
  BY DEF RunInv, TypesOK
<1>2. /\ disk' \in [Places -> 0 .. clock]
      /\ \A p \in Places : p \in os => disk'[p] = 0
      /\ \A p \in Places : p \notin os => disk'[p] = disk[p]
  <2>1. disk' = [p \in Places |-> IF p \in os THEN 0 ELSE disk[p]]
    BY <1>1 DEF Deleted, Without
  <2>2. 0 \in 0 .. clock
    BY <1>1
  <2>3. disk' \in [Places -> 0 .. clock]
    BY <1>1, <2>1, <2>2
  <2> QED BY <2>1, <2>3
<1>3. /\ fresh' = fresh \ os /\ dep' \in [Source -> SUBSET Files]
      /\ \A s \in Source : s \notin ss => dep'[s] = dep[s]
  <2>1. dep' = [s \in Source |-> IF s \in ss THEN {} ELSE dep[s]] /\ fresh' = fresh \ os
    BY DEF Deleted
  <2> QED BY <1>1, <2>1
<1>4. /\ \A l \in Links : l \in Places /\ l \notin os
      /\ \A p \in Files : p \in Places /\ p \notin os
      /\ EmptyPath \in Places /\ EmptyPath \notin os
      /\ \A d \in Dirs : \A s \in Source : <<d, s>> \in Places
      /\ \A s \in Source : Src(s) \in Files
  <2>1. /\ Objects \cap Links = {} /\ Objects \cap Files = {}
        /\ \A s \in Source : Src(s) \in Files
        /\ \A d \in Dirs : \A s \in Source : <<d, s>> \in Objects
    BY <1>1, PlacesAre
  <2>2. EmptyPath \notin Objects
    <3>1. \A o : o \in Objects <=> \E d \in Dirs : \E s \in Source : o = <<d, s>>
      BY <1>1, PlacesAre
    <3>2. \A d \in Dirs : \A s \in Source : <<d, s>> # EmptyPath
      BY <1>1, PlacesAre
    <3> QED BY <3>1, <3>2
  <2> QED BY <2>1, <2>2 DEF Places
<1>5. /\ Links' = Links /\ Dirs' = Dirs /\ Test' = Test /\ \A s : LinksWith(s)' = LinksWith(s)
      /\ \A s : ReadFor(s)' = ReadFor(s)
  <2>1. \A s : ReadFor(s)' = ReadFor(s)
    BY DEF ReadFor, HeadersOf, Closed
  <2> QED BY <2>1, Fixed
<1>6. \A d \in Dirs : \A s \in Source :
        /\ <<d, s>> \in os => ~Exists(<<d, s>>)'
        /\ <<d, s>> \notin os =>
             disk'[<<d, s>>] = disk[<<d, s>>] /\ (Exists(<<d, s>>)' <=> Exists(<<d, s>>))
  <2> SUFFICES ASSUME NEW d \in Dirs, NEW s \in Source
               PROVE  /\ <<d, s>> \in os => ~Exists(<<d, s>>)'
                      /\ <<d, s>> \notin os =>
                           /\ disk'[<<d, s>>] = disk[<<d, s>>]
                           /\ Exists(<<d, s>>)' <=> Exists(<<d, s>>)
    OBVIOUS
  <2>1. <<d, s>> \in Places
    BY <1>4
  <2>2. /\ <<d, s>> \in os => disk'[<<d, s>>] = 0
        /\ <<d, s>> \notin os => disk'[<<d, s>>] = disk[<<d, s>>]
    BY <1>2, <2>1
  <2>3. Exists(<<d, s>>)' <=> disk'[<<d, s>>] > 0
    BY DEF Exists
  <2>4. Exists(<<d, s>>) <=> disk[<<d, s>>] > 0
    BY DEF Exists
  <2> QED BY <2>2, <2>3, <2>4
<1>7. \A s \in Source : \A p \in ReadFor(s) \cup dep[s] : disk'[p] = disk[p]
  <2>1. \A s \in Source : \A p \in ReadFor(s) \cup dep[s] : p \in Files
    BY <1>1, ReadForIs
  <2> QED BY <1>2, <1>4, <2>1
<1>8. \A d \in Dirs : \A s \in Source : \A p \in ReadFor(s) \cup dep[s] : <<d, s>> \notin os =>
        (InputDirty(disk', <<d, s>>, p) <=> InputDirty(disk, <<d, s>>, p))
  BY <1>6, <1>7 DEF InputDirty, Newer
<1>9. ObjectsInv'
  <2>1. FreshExist'
    BY <1>3, <1>5, <1>6 DEF RunInv, FreshExist
  <2>2. CASE ss = {}
    <3>1. \A s \in Source : dep'[s] = dep[s]
      BY <1>3, <2>2
    <3>2. DepsKnown'
      BY <1>3, <1>5, <3>1 DEF RunInv, DepsKnown
    <3>3. StaleSeen'
      BY <1>3, <1>5, <1>6, <1>8 DEF RunInv, StaleSeen
    <3>4. StaleListed'
      BY <1>3, <1>5, <1>6, <1>8, <3>1 DEF RunInv, StaleListed
    <3> QED BY <2>1, <3>2, <3>3, <3>4 DEF ObjectsInv
  <2>3. CASE at = "deps"
    <3>1. \A d \in Dirs : \A s \in Source :
            ~Exists(<<d, s>>) /\ ~Exists(<<d, s>>)' /\ <<d, s>> \notin fresh'
      BY <1>3, <1>6, <2>3 DEF RunInv, NoObjects, FreshExist
    <3> QED BY <1>5, <2>1, <3>1 DEF ObjectsInv, DepsKnown, StaleSeen, StaleListed
  <2> QED BY <2>2, <2>3
<1>10. LinksAccounted'
  <2> SUFFICES ASSUME NEW k \in Links, Exists(k)'
               PROVE  of[k] \in Dirs /\ (k \in whole \/ k \in blind \/ Reason(k)')
    BY <1>5 DEF LinksAccounted
  <2>1. Exists(k) /\ disk'[k] = disk[k]
    BY <1>2, <1>4 DEF Exists
  <2>2. of[k] \in Dirs /\ (k \in whole \/ k \in blind \/ Reason(k))
    BY <2>1 DEF RunInv, LinksAccounted
  <2>3. ASSUME Reason(k) PROVE Reason(k)'
    <3>1. CASE \E s \in Source :
           /\ k \in LinksWith(s) /\ (Exists(Src(s)) \/ s \in Test)
           /\ InputDirty(disk, k, <<of[k], s>>) \/ Newer(disk, <<of[k], s>>, Src(s))
      <4>1. PICK s \in Source :
           /\ k \in LinksWith(s) /\ (Exists(Src(s)) \/ s \in Test)
           /\ InputDirty(disk, k, <<of[k], s>>) \/ Newer(disk, <<of[k], s>>, Src(s))
        BY <3>1
      <4>2. disk'[Src(s)] = disk[Src(s)]
        BY <1>2, <1>4
      <4>3. disk'[<<of[k], s>>] = disk[<<of[k], s>>] \/ disk'[<<of[k], s>>] = 0
        BY <1>2, <1>4, <2>2
      <4>4. InputDirty(disk', k, <<of[k], s>>) \/ Newer(disk', <<of[k], s>>, Src(s))
        BY <2>1, <4>1, <4>2, <4>3 DEF InputDirty, Newer
      <4> QED BY <1>5, <4>1, <4>2, <4>4 DEF Reason, Exists
    <3>2. CASE /\ Lib \in Links /\ \E s \in Test : k = TestExe(s)
               /\ InputDirty(disk, k, Lib)
      <4>1. disk'[Lib] = disk[Lib]
        BY <1>2, <1>4, <3>2
      <4> QED BY <1>5, <2>1, <3>2, <4>1 DEF Reason, InputDirty, Newer
    <3> QED BY <2>3, <3>1, <3>2 DEF Reason
  <2> QED BY <2>2, <2>3
<1>11. disk'[EmptyPath] = 0 /\ fresh' \subseteq Objects
  BY <1>1, <1>2, <1>3, <1>4
<1> QED BY <1>2, <1>3, <1>6, <1>9, <1>10, <1>11

(* A tree is deleted.                                                        *)
LEMMA RunDeleteTree ==
  ASSUME RunInv, DeleteTree
  PROVE  RunInv'
<1>1. /\ kind' = kind /\ clock' = clock /\ includes' = includes /\ whole' = whole /\ of' = of
      /\ blind' = blind /\ args' = args /\ found' = found /\ listed' = listed /\ todo' = todo
      /\ failed' = failed /\ code' = code /\ quiet' = quiet
      /\ at' = IF at = "objects" THEN "deps" ELSE "idle"
  BY DEF DeleteTree, Trees, projectVars
<1>2. /\ TypesOK /\ args \in Args
  BY DEF RunInv, TypesOK
<1>3. /\ Links' = Links /\ Objects' = Objects /\ Places' = Places /\ InSrcDir' = InSrcDir
      /\ Dirs' = Dirs
  BY <1>1, Fixed
<1>4. \E os \in SUBSET Objects : \E ss \in SUBSET Source :
        /\ Deleted(os, ss)
        /\ \/ at = "objects" /\ os = Objects /\ ss = {}
           \/ at = "deps" /\ os = {} /\ ss = Source
  BY DEF DeleteTree
<1>5. PICK os \in SUBSET Objects, ss \in SUBSET Source :
        /\ Deleted(os, ss)
        /\ \/ at = "objects" /\ os = Objects /\ ss = {}
           \/ at = "deps" /\ os = {} /\ ss = Source
  BY <1>4
<1>6. /\ ObjectsInv' /\ LinksAccounted'
      /\ disk' \in [Places -> 0 .. clock] /\ disk'[EmptyPath] = 0
      /\ dep' \in [Source -> SUBSET Files] /\ fresh' \subseteq Objects
      /\ \A d \in Dirs : \A s \in Source :
              Exists(<<d, s>>)' => Exists(<<d, s>>) /\ <<d, s>> \notin os
  BY <1>1, <1>5, TreeStep
<1>7. TypesOK'
  <2>1. at' \in {"idle", "scanned", "planned", "building", "objects", "deps"}
    BY <1>1
  <2> QED BY <1>1, <1>2, <1>3, <1>6, <2>1 DEF TypesOK
<1>8. NoObjects'
  <2> SUFFICES ASSUME at' = "deps", NEW s \in Source, NEW d \in Dirs PROVE ~Exists(<<d, s>>)'
    BY <1>3 DEF NoObjects
  <2>1. os = Objects
    BY <1>1, <1>5
  <2>2. <<d, s>> \in Objects
    BY <1>2, PlacesAre
  <2> QED BY <1>6, <2>1, <2>2
<1>9. found = {} /\ todo = {} /\ code # "built"
  BY <1>5 DEF RunInv, TodoKnown, Building, Running, NotBuiltYet
<1>10. /\ TodoKnown' /\ TodoUp' /\ LinksOlder' /\ RemovedBlind' /\ ListsCurrent' /\ FoundNow'
       /\ NotBuiltYet' /\ RunSettled' /\ Done' /\ NoEditMissed'
  <2>1. found' = {} /\ todo' = {} /\ code' # "built" /\ at' \in {"idle", "objects", "deps"}
    BY <1>1, <1>9
  <2> QED BY <2>1, RunRests
<1> QED BY <1>6, <1>7, <1>8, <1>10 DEF RunInv, ObjectsInv

(* The script is killed.                                                     *)
LEMMA RunKilled ==
  ASSUME RunInv, Killed
  PROVE  RunInv'
<1>1. /\ at' = "idle" /\ code' = "none" /\ found' = {} /\ todo' = {} /\ failed' = FALSE
      /\ listed' = [s \in Source |-> {}] /\ args' = AnyArgs
      /\ kind' = kind /\ clock' = clock /\ includes' = includes /\ whole' = whole /\ of' = of
      /\ quiet' = FALSE
  BY DEF Killed, Ends, projectVars
<1>2. /\ TypesOK /\ args \in Args /\ disk \in [Places -> 0 .. clock]
      /\ disk[EmptyPath] = 0 /\ fresh \subseteq Objects /\ dep \in [Source -> SUBSET Files]
      /\ blind \subseteq Objects \cup Links
  BY DEF RunInv, TypesOK
<1>3. /\ Links' = Links /\ Objects' = Objects /\ Places' = Places /\ InSrcDir' = InSrcDir
      /\ Dirs' = Dirs /\ Test' = Test /\ \A s : LinksWith(s)' = LinksWith(s)
  BY <1>1, Fixed
<1>4. /\ TodoKnown' /\ TodoUp' /\ LinksOlder' /\ RemovedBlind' /\ ListsCurrent' /\ FoundNow'
      /\ NotBuiltYet' /\ RunSettled' /\ Done' /\ NoEditMissed'
  <2>1. code' # "built" /\ at' \in {"idle", "objects", "deps"}
    BY <1>1
  <2> QED BY <1>1, <2>1, RunRests
<1>5. NoObjects'
  BY <1>1 DEF NoObjects
<1> DEFINE Left == /\ ObjectsInv' /\ LinksAccounted'
                   /\ disk' \in [Places -> 0 .. clock] /\ disk'[EmptyPath] = 0
                   /\ dep' \in [Source -> SUBSET Files] /\ fresh' \subseteq Objects
                   /\ blind' \subseteq Objects \cup Links
<1>6. ASSUME UNCHANGED <<disk, dep, fresh, blind>> PROVE Left
  <2>1. ObjectsInv'
    BY <1>1, <1>6, ObjectsKept
  <2>2. LinksAccounted'
    BY <1>1, <1>6, LinksKept
  <2> QED BY <1>2, <1>6, <2>1, <2>2
<1>7. ASSUME \E s \in Source :
                dep' = [dep EXCEPT ![s] = ReadFor(s)] /\ blind' = blind \ ObjOf(s),
             UNCHANGED <<disk, fresh>>
      PROVE  Left
  <2>1. PICK s0 \in Source : dep' = [dep EXCEPT ![s0] = ReadFor(s0)] /\ blind' = blind \ ObjOf(s0)
    BY <1>7
  <2>2. ReadFor(s0) \in SUBSET Files
    BY ReadForIs
  <2>3. /\ dep' \in [Source -> SUBSET Files] /\ dep'[s0] = ReadFor(s0)
        /\ \A s \in Source : s # s0 => dep'[s] = dep[s]
    BY <1>2, <2>1, <2>2
  <2>4. /\ \A x : x \in ObjOf(s0) <=> \E d \in Dirs : x = <<d, s0>>
        /\ \A d \in Dirs : <<d, s0>> \notin Links
    BY <1>2, PlacesAre
  <2>5. /\ \A l \in Links : l \in blind' <=> l \in blind
        /\ \A d \in Dirs : \A s \in Source : s # s0 =>
             (<<d, s>> \in blind' <=> <<d, s>> \in blind)
    BY <2>1, <2>4
  <2>6. \A s : ReadFor(s)' = ReadFor(s)
    BY <1>1 DEF ReadFor, HeadersOf, Closed
  <2>7. disk' = disk /\ fresh' = fresh /\ \A p : Exists(p)' <=> Exists(p)
    BY <1>7 DEF Exists
  <2>8. FreshExist' /\ StaleSeen'
    BY <1>3, <2>6, <2>7 DEF RunInv, FreshExist, StaleSeen
  <2>9. DepsKnown'
    <3> SUFFICES ASSUME NEW s \in Source, NEW d \in Dirs, <<d, s>> \in fresh, <<d, s>> \notin blind'
                 PROVE  dep'[s] = ReadFor(s)
      BY <1>3, <2>6, <2>7 DEF DepsKnown
    <3>1. CASE s = s0
      BY <2>3, <3>1
    <3>2. CASE s # s0
      BY <2>3, <2>5, <3>2 DEF RunInv, DepsKnown
    <3> QED BY <3>1, <3>2
  <2>10. StaleListed'
    <3> SUFFICES ASSUME NEW s \in Source, NEW d \in Dirs,
                        Exists(<<d, s>>), <<d, s>> \notin fresh, <<d, s>> \notin blind'
                 PROVE  \E p \in dep'[s] : InputDirty(disk, <<d, s>>, p)
      BY <1>3, <2>7 DEF StaleListed
    <3>1. CASE s = s0
      BY <2>3, <3>1 DEF RunInv, StaleSeen
    <3>2. CASE s # s0
      BY <2>3, <2>5, <3>2 DEF RunInv, StaleListed
    <3> QED BY <3>1, <3>2
  <2>11. LinksAccounted'
    <3>1. \A l : Reason(l)' <=> Reason(l)
      BY <1>1, <1>3, <2>7 DEF Reason, InputDirty, Newer
    <3> QED BY <1>1, <1>3, <2>5, <2>7, <3>1 DEF RunInv, LinksAccounted
  <2> QED BY <1>2, <2>1, <2>3, <2>7, <2>8, <2>9, <2>10, <2>11 DEF ObjectsInv
<1>8. ASSUME blind' = blind,
             \E os \in SUBSET Objects, ss \in SUBSET Source :
                Deleted(os, ss) /\ (ss = {} \/ at = "deps")
      PROVE  Left
  <2>1. PICK os \in SUBSET Objects, ss \in SUBSET Source :
          Deleted(os, ss) /\ (ss = {} \/ at = "deps")
    BY <1>8
  <2>2. /\ ObjectsInv' /\ LinksAccounted'
        /\ disk' \in [Places -> 0 .. clock] /\ disk'[EmptyPath] = 0
        /\ dep' \in [Source -> SUBSET Files] /\ fresh' \subseteq Objects
    BY <1>1, <1>8, <2>1, TreeStep
  <2> QED BY <1>2, <1>8, <2>2
<1>9. Left
  <2>1. CASE at = "objects" /\ (\E os \in SUBSET Objects : Deleted(os, {})) /\ blind' = blind
    <3>1. {} \in SUBSET Source
      OBVIOUS
    <3> QED BY <1>8, <2>1, <3>1
  <2>2. CASE at = "deps" /\ (\E ss \in SUBSET Source : Deleted({}, ss)) /\ blind' = blind
    <3>1. {} \in SUBSET Objects
      OBVIOUS
    <3> QED BY <1>8, <2>2, <3>1
  <2> QED BY <1>6, <1>7, <2>1, <2>2 DEF Killed
<1>10. TypesOK'
  <2>1. at' \in {"idle", "scanned", "planned", "building", "objects", "deps"}
        /\ failed' \in BOOLEAN /\ found' \subseteq InSrcDir
    BY <1>1
  <2>2. args' \in Args
    BY <1>1, TemplateAssumption DEF AnyArgs
  <2>3. listed' \in [Source -> SUBSET Files]
    BY <1>1
  <2> QED BY <1>1, <1>2, <1>3, <1>9, <2>1, <2>2, <2>3 DEF TypesOK
<1> QED BY <1>4, <1>5, <1>9, <1>10 DEF RunInv, ObjectsInv

(* An edit, of whatever kind, as far as it is the same.                      *)
LEMMA EditStep ==
  ASSUME RunInv, NEW f \in Source \cup Header, Touched(f), clock' = clock + 1,
         disk' \in [Places -> 0 .. clock'], disk'[File(f)] \in {0, clock'},
         \A p \in Places : p # File(f) => disk'[p] = disk[p],
         includes' \in Includes, \A x \in Source \cup Header : x # f => includes'[x] = includes[x],
         whole' \subseteq Links, blind' \subseteq Objects \cup Links,
         \A o \in Objects : o \in blind' <=> o \in blind
  PROVE  /\ TypesOK' /\ ObjectsInv' /\ NoObjects' /\ TodoKnown' /\ TodoUp' /\ LinksOlder'
         /\ ListsCurrent' /\ FoundNow' /\ NotBuiltYet' /\ RunSettled' /\ Done' /\ NoEditMissed'
<1> DEFINE pf == File(f)
<1>1. /\ at' = (IF at = "planned" THEN "building" ELSE at) /\ quiet' = FALSE /\ kind' = kind
      /\ fresh' = fresh \ UNION {ObjOf(s) : s \in {t \in Source : pf \in ReadFor(t)}}
      /\ dep' = dep /\ of' = of /\ args' = args /\ found' = found /\ listed' = listed
      /\ todo' = todo /\ failed' = failed /\ code' = code
  BY DEF Touched
<1>2. /\ TypesOK /\ args \in Args /\ disk \in [Places -> 0 .. clock] /\ clock \in Nat
      /\ disk[EmptyPath] = 0 /\ fresh \subseteq Objects /\ dep \in [Source -> SUBSET Files]
      /\ includes \in Includes
  BY DEF RunInv, TypesOK, Includes
<1>3. /\ Links' = Links /\ Dirs' = Dirs /\ Test' = Test /\ InSrcDir' = InSrcDir
      /\ Objects' = Objects /\ Places' = Places /\ Main' = Main /\ Wanted' = Wanted /\ Dir' = Dir
      /\ \A s : LinksWith(s)' = LinksWith(s)
  BY <1>1, Fixed
<1>4. /\ pf \in Files /\ pf \in Places
      /\ \A d \in Dirs : \A s \in Source :
           <<d, s>> \in Objects /\ <<d, s>> \in Places /\ <<d, s>> # pf
      /\ \A l \in Links : l \in Places /\ l # pf
      /\ EmptyPath \in Places /\ EmptyPath # pf
      /\ \A p \in Files : p \in Places
      /\ \A s \in Source : \A o : o \in ObjOf(s) <=> \E d \in Dirs : o = <<d, s>>
  <2>1. /\ pf \in Files /\ Objects \cap Files = {} /\ EmptyPath \notin Files
        /\ \A l \in Links : l \notin Files
        /\ \A s \in Source : \A o : o \in ObjOf(s) <=> \E d \in Dirs : o = <<d, s>>
    BY <1>2, PlacesAre
  <2>2. \A d \in Dirs : \A s \in Source : <<d, s>> \in Objects
    BY <1>2, PlacesAre
  <2> HIDE DEF pf
  <2> QED BY <2>1, <2>2 DEF Places
<1>5. \A s \in Source : /\ pf \in ReadFor(s) => pf \in ReadFor(s)'
                        /\ pf \notin ReadFor(s) => ReadFor(s)' = ReadFor(s)
  BY <1>2, ReadForEdited
<1>6. disk'[pf] \in {0, clock'} /\ \A p \in Places : p # pf => disk'[p] = disk[p]
  OBVIOUS
<1> HIDE DEF pf
<1>7. \A d \in Dirs : \A s \in Source :
        /\ disk'[<<d, s>>] = disk[<<d, s>>] /\ (Exists(<<d, s>>)' <=> Exists(<<d, s>>))
        /\ <<d, s>> \in fresh' <=> <<d, s>> \in fresh /\ pf \notin ReadFor(s)
        /\ <<d, s>> \in blind' <=> <<d, s>> \in blind
        /\ InputDirty(disk', <<d, s>>, pf)
        /\ \A p \in Files : InputDirty(disk, <<d, s>>, p) => InputDirty(disk', <<d, s>>, p)
  <2> SUFFICES ASSUME NEW d \in Dirs, NEW s \in Source
      PROVE
        /\ disk'[<<d, s>>] = disk[<<d, s>>] /\ (Exists(<<d, s>>)' <=> Exists(<<d, s>>))
        /\ <<d, s>> \in fresh' <=> <<d, s>> \in fresh /\ pf \notin ReadFor(s)
        /\ <<d, s>> \in blind' <=> <<d, s>> \in blind
        /\ InputDirty(disk', <<d, s>>, pf)
        /\ \A p \in Files : InputDirty(disk, <<d, s>>, p) => InputDirty(disk', <<d, s>>, p)
    OBVIOUS
  <2>1. disk'[<<d, s>>] = disk[<<d, s>>] /\ (Exists(<<d, s>>)' <=> Exists(<<d, s>>))
    BY <1>4, <1>6 DEF Exists
  <2>2. <<d, s>> \in fresh' <=> <<d, s>> \in fresh /\ pf \notin ReadFor(s)
    <3>1. \A t \in Source : <<d, s>> \in ObjOf(t) <=> s = t
      BY <1>4
    <3> QED BY <1>1, <3>1
  <2>3. <<d, s>> \in blind' <=> <<d, s>> \in blind
    BY <1>4
  <2>4. InputDirty(disk', <<d, s>>, pf)
    <3>1. disk[<<d, s>>] \in 0 .. clock
      BY <1>2, <1>4
    <3>2. disk[<<d, s>>] < clock'
      BY <1>2, <3>1
    <3> QED BY <1>6, <2>1, <3>2 DEF InputDirty, Newer
  <2>5. ASSUME NEW p \in Files, InputDirty(disk, <<d, s>>, p)
        PROVE  InputDirty(disk', <<d, s>>, p)
    <3>1. CASE p = pf
      BY <2>4, <3>1
    <3>2. CASE p # pf
      <4>1. disk'[p] = disk[p]
        BY <1>4, <1>6, <3>2
      <4> QED BY <2>1, <2>5, <4>1 DEF InputDirty, Newer
    <3> QED BY <3>1, <3>2
  <2> QED BY <2>1, <2>2, <2>3, <2>4, <2>5
<1>8. \A s \in Source : \A p \in ReadFor(s) \cup dep[s] : p \in Files
  BY <1>2, ReadForIs
<1>9. TypesOK'
  <2>1. clock' \in Nat /\ clock' > 0 /\ disk'[EmptyPath] = 0
    BY <1>2, <1>4, <1>6
  <2>2. at' \in {"idle", "scanned", "planned", "building", "objects", "deps"}
    BY <1>1, <1>2 DEF TypesOK
  <2>3. fresh' \subseteq Objects
    BY <1>1, <1>2
  <2> QED BY <1>1, <1>2, <1>3, <2>1, <2>2, <2>3 DEF TypesOK, Includes
<1>10. FreshExist'
  BY <1>3, <1>7 DEF RunInv, FreshExist
<1>11. DepsKnown'
  BY <1>1, <1>3, <1>5, <1>7 DEF RunInv, DepsKnown
<1>12. StaleSeen'
  <2> SUFFICES ASSUME NEW s \in Source, NEW d \in Dirs, Exists(<<d, s>>)', <<d, s>> \notin fresh'
               PROVE  \E p \in ReadFor(s)' : InputDirty(disk', <<d, s>>, p)
    BY <1>3 DEF StaleSeen
  <2>1. CASE pf \in ReadFor(s)
    BY <1>5, <1>7, <2>1
  <2>2. CASE pf \notin ReadFor(s)
    <3>1. PICK p \in ReadFor(s) : InputDirty(disk, <<d, s>>, p)
      BY <1>7, <2>2 DEF RunInv, StaleSeen
    <3> QED BY <1>5, <1>7, <1>8, <2>2, <3>1
  <2> QED BY <2>1, <2>2
<1>13. StaleListed'
  <2> SUFFICES ASSUME NEW s \in Source, NEW d \in Dirs, Exists(<<d, s>>)', <<d, s>> \notin fresh',
                      <<d, s>> \notin blind'
               PROVE  \E p \in dep[s] : InputDirty(disk', <<d, s>>, p)
    BY <1>1, <1>3 DEF StaleListed
  <2>1. Exists(<<d, s>>) /\ <<d, s>> \notin blind
    BY <1>7
  <2>2. CASE <<d, s>> \in fresh
    <3>1. pf \in ReadFor(s)
      BY <1>7, <2>2
    <3>2. dep[s] = ReadFor(s)
      BY <2>1, <2>2 DEF RunInv, DepsKnown
    <3> QED BY <1>7, <3>1, <3>2
  <2>3. CASE <<d, s>> \notin fresh
    <3>1. PICK p \in dep[s] : InputDirty(disk, <<d, s>>, p)
      BY <2>1, <2>3 DEF RunInv, StaleListed
    <3> QED BY <1>7, <1>8, <3>1
  <2> QED BY <2>2, <2>3
<1>14. /\ at' = "deps" => at = "deps"
       /\ at' # "planned" /\ (Building' <=> Building) /\ (Running' <=> Running)
       /\ at' = "scanned" => at = "scanned"
       /\ at' = "idle" <=> at = "idle"
  BY <1>1 DEF Building, Running
<1>15. NoObjects'
  BY <1>3, <1>7, <1>14 DEF RunInv, NoObjects
<1>16. TodoKnown' /\ TodoUp'
  BY <1>1, <1>3, <1>14 DEF RunInv, TodoKnown, TodoUp
<1>17. LinksOlder'
  <2>1. \A l \in Links : disk[l] < clock => disk'[l] < clock'
    <3> SUFFICES ASSUME NEW l \in Links, disk[l] < clock PROVE disk'[l] < clock'
      OBVIOUS
    <3>1. disk'[l] = disk[l] /\ disk[l] \in 0 .. clock
      BY <1>2, <1>4, <1>6
    <3> QED BY <1>2, <3>1
  <2>2. \A s \in Source : LinksWith(s) \subseteq Links
    BY <1>2, LinksAre
  <2>3. \A s \in Test : TestExe(s) \in Links
    BY <1>2, LinksAre
  <2>4. \A s \in Source : Building /\ <<Dir, s>> \in todo => \A l \in LinksWith(s) : disk'[l] < clock'
    BY <2>1, <2>2 DEF RunInv, LinksOlder
  <2>5. Building /\ Lib \in todo => \A s \in Test : disk'[TestExe(s)] < clock'
    BY <2>1, <2>3 DEF RunInv, LinksOlder
  <2> QED BY <1>1, <1>3, <1>14, <2>4, <2>5 DEF LinksOlder
<1>18. ListsCurrent' /\ NotBuiltYet'
  BY <1>1, <1>3, <1>14 DEF RunInv, ListsCurrent, NotBuiltYet
<1>19. FoundNow' /\ RunSettled' /\ Done' /\ NoEditMissed'
  BY <1>1, <1>14 DEF FoundNow, RunSettled, Done, NoEditMissed
<1> QED BY <1>9, <1>10, <1>11, <1>12, <1>13, <1>15, <1>16, <1>17, <1>18, <1>19 DEF ObjectsInv

(* A file is written.                                                        *)
LEMMA RunEdit ==
  ASSUME RunInv, NEW f \in Source \cup Header, Edit(f)
  PROVE  RunInv'
<1> DEFINE pf == File(f)
<1>1. /\ Touched(f) /\ clock' = clock + 1 /\ disk' = [disk EXCEPT ![pf] = clock'] /\ blind' = blind
      /\ \E hs \in Forms[f] : includes' = [includes EXCEPT ![f] = hs]
      /\ whole' = IF f \in Source /\ ~Exists(pf) THEN whole \ LinksWith(f) ELSE whole
  BY DEF Edit, EditTick
<1>2. /\ args \in Args /\ disk \in [Places -> 0 .. clock] /\ clock \in Nat
      /\ whole \subseteq Links /\ blind \subseteq Objects \cup Links /\ includes \in Includes
      /\ found \subseteq InSrcDir
  BY DEF RunInv, TypesOK, Includes
<1>3. /\ kind' = kind /\ of' = of /\ found' = found /\ todo' = todo /\ args' = args
      /\ at' = "scanned" => at = "scanned"
  BY <1>1 DEF Touched
<1>4. /\ Links' = Links /\ Dirs' = Dirs /\ Test' = Test /\ Dir' = Dir
      /\ \A s : LinksWith(s)' = LinksWith(s)
  BY <1>3, Fixed
<1>5. /\ pf \in Places
      /\ \A d \in Dirs : \A s \in Source : <<d, s>> \in Places /\ <<d, s>> # pf
      /\ \A l \in Links : l \in Places /\ l # pf
      /\ \A s \in Source : Src(s) \in Places /\ (Src(s) = pf <=> s = f)
      /\ InSrcDir \subseteq Source
  <2>1. /\ pf \in Files /\ Objects \cap Files = {}
        /\ \A l \in Links : l \notin Files
        /\ \A s \in Source : Src(s) \in Files /\ (Src(s) = pf <=> s = f)
    BY <1>2, PlacesAre
  <2>2. \A d \in Dirs : \A s \in Source : <<d, s>> \in Objects
    BY <1>2, PlacesAre
  <2>3. InSrcDir \subseteq Source
    BY <1>2, LinksAre
  <2> HIDE DEF pf
  <2> QED BY <2>1, <2>2, <2>3 DEF Places
<1>6. /\ disk' \in [Places -> 0 .. clock'] /\ disk'[pf] = clock' /\ clock' > 0
      /\ \A p \in Places : p # pf => disk'[p] = disk[p]
  <2> HIDE DEF pf
  <2>1. clock' \in 0 .. clock' /\ 0 .. clock \subseteq 0 .. clock' /\ clock' > 0
    BY <1>1, <1>2
  <2>2. disk \in [Places -> 0 .. clock']
    BY <1>2, <2>1
  <2> QED BY <1>1, <1>5, <2>1, <2>2
<1>7. includes' \in Includes /\ \A x \in Source \cup Header : x # f => includes'[x] = includes[x]
  <2>1. PICK hs \in Forms[f] : includes' = [includes EXCEPT ![f] = hs]
    BY <1>1
  <2>2. hs \subseteq Header
    BY TemplateAssumption
  <2> QED BY <1>2, <2>1, <2>2 DEF Includes
<1>8. whole' \subseteq Links
  BY <1>1, <1>2
<1>9. /\ TypesOK' /\ ObjectsInv' /\ NoObjects' /\ TodoKnown' /\ TodoUp' /\ LinksOlder'
      /\ ListsCurrent' /\ FoundNow' /\ NotBuiltYet' /\ RunSettled' /\ Done' /\ NoEditMissed'
  BY <1>1, <1>2, <1>6, <1>7, <1>8, EditStep
<1> HIDE DEF pf
<1>10. RemovedBlind'
  <2> SUFFICES ASSUME NEW s \in found, disk'[Src(s)] = 0,
                      at' = "scanned" \/ <<Dir, s>> \in todo
               PROVE  LinksWith(s) \subseteq blind
    BY <1>1, <1>3, <1>4 DEF RemovedBlind
  <2>1. s \in Source
    BY <1>2, <1>5
  <2>2. disk[Src(s)] = 0
    BY <1>5, <1>6, <2>1
  <2> QED BY <1>3, <2>2 DEF RunInv, RemovedBlind
<1>11. LinksAccounted'
  <2> SUFFICES ASSUME NEW k \in Links, Exists(k)'
               PROVE  of[k] \in Dirs /\ (k \in whole' \/ k \in blind \/ Reason(k)')
    BY <1>1, <1>3, <1>4 DEF LinksAccounted
  <2>1. Exists(k) /\ disk'[k] = disk[k]
    BY <1>5, <1>6 DEF Exists
  <2>2. of[k] \in Dirs /\ (k \in whole \/ k \in blind \/ Reason(k))
    BY <2>1 DEF RunInv, LinksAccounted
  <2>3. ASSUME f \in Source, k \in LinksWith(f) PROVE Reason(k)'
    <3>1. disk'[<<of[k], f>>] = disk[<<of[k], f>>] /\ disk[<<of[k], f>>] \in 0 .. clock
      BY <1>2, <1>5, <1>6, <2>2, <2>3
    <3>2. Src(f) = pf /\ disk'[Src(f)] = clock'
      BY <1>5, <1>6, <2>3
    <3>3. Newer(disk', <<of[k], f>>, Src(f)) /\ Exists(Src(f))'
      BY <1>1, <1>2, <1>6, <3>1, <3>2 DEF Newer, Exists
    <3> QED BY <1>3, <1>4, <2>3, <3>3 DEF Reason
  <2>4. ASSUME k \in whole PROVE k \in whole' \/ Reason(k)'
    BY <1>1, <2>3, <2>4
  <2>5. ASSUME Reason(k) PROVE Reason(k)'
    <3>1. CASE \E s \in Source :
           /\ k \in LinksWith(s) /\ (Exists(Src(s)) \/ s \in Test)
           /\ InputDirty(disk, k, <<of[k], s>>) \/ Newer(disk, <<of[k], s>>, Src(s))
      <4>1. PICK s \in Source :
           /\ k \in LinksWith(s) /\ (Exists(Src(s)) \/ s \in Test)
           /\ InputDirty(disk, k, <<of[k], s>>) \/ Newer(disk, <<of[k], s>>, Src(s))
        BY <3>1
      <4>2. CASE s = f
        BY <2>3, <4>1, <4>2
      <4>3. CASE s # f
        <5>1. disk'[Src(s)] = disk[Src(s)] /\ disk'[<<of[k], s>>] = disk[<<of[k], s>>]
          BY <1>5, <1>6, <2>2, <4>3
        <5> QED BY <1>3, <1>4, <2>1, <4>1, <5>1 DEF Reason, InputDirty, Newer, Exists
      <4> QED BY <4>2, <4>3
    <3>2. CASE /\ Lib \in Links /\ \E s \in Test : k = TestExe(s)
               /\ InputDirty(disk, k, Lib)
      <4>1. disk'[Lib] = disk[Lib]
        BY <1>5, <1>6, <3>2
      <4> QED BY <1>4, <2>1, <3>2, <4>1 DEF Reason, InputDirty, Newer
    <3> QED BY <2>5, <3>1, <3>2 DEF Reason
  <2> QED BY <2>2, <2>4, <2>5
<1> QED BY <1>9, <1>10, <1>11 DEF RunInv, ObjectsInv

(* A file is removed.                                                        *)
LEMMA RunRemoveFile ==
  ASSUME RunInv, NEW f \in Source \cup Header, RemoveFile(f)
  PROVE  RunInv'
<1> DEFINE pf == File(f)
<1>1. /\ Touched(f) /\ clock' = clock + 1 /\ disk' = [disk EXCEPT ![pf] = 0]
      /\ blind' = (IF f \in Source THEN blind \cup LinksWith(f) ELSE blind)
      /\ includes' = includes /\ whole' = whole
  BY DEF RemoveFile, EditTick
<1>2. /\ args \in Args /\ disk \in [Places -> 0 .. clock] /\ clock \in Nat
      /\ whole \subseteq Links /\ blind \subseteq Objects \cup Links /\ includes \in Includes
      /\ found \subseteq InSrcDir
  BY DEF RunInv, TypesOK, Includes
<1>3. /\ kind' = kind /\ of' = of /\ found' = found /\ todo' = todo /\ args' = args
      /\ at' = "scanned" => at = "scanned"
  BY <1>1 DEF Touched
<1>4. /\ Links' = Links /\ Dirs' = Dirs /\ Test' = Test /\ Dir' = Dir
      /\ \A s : LinksWith(s)' = LinksWith(s)
  BY <1>3, Fixed
<1>5. /\ pf \in Places
      /\ \A d \in Dirs : \A s \in Source : <<d, s>> \in Places /\ <<d, s>> # pf
      /\ \A l \in Links : l \in Places /\ l # pf /\ l \notin Objects
      /\ \A s \in Source : Src(s) \in Places /\ (Src(s) = pf <=> s = f)
                           /\ LinksWith(s) \subseteq Links
      /\ InSrcDir \subseteq Source
  <2>1. /\ pf \in Files /\ Objects \cap Files = {} /\ Objects \cap Links = {}
        /\ \A l \in Links : l \notin Files
        /\ \A s \in Source : Src(s) \in Files /\ (Src(s) = pf <=> s = f)
    BY <1>2, PlacesAre
  <2>2. \A d \in Dirs : \A s \in Source : <<d, s>> \in Objects
    BY <1>2, PlacesAre
  <2>3. InSrcDir \subseteq Source /\ \A s \in Source : LinksWith(s) \subseteq Links
    BY <1>2, LinksAre
  <2> HIDE DEF pf
  <2> QED BY <2>1, <2>2, <2>3 DEF Places
<1>6. /\ disk' \in [Places -> 0 .. clock'] /\ disk'[pf] = 0
      /\ \A p \in Places : p # pf => disk'[p] = disk[p]
  <2> HIDE DEF pf
  <2>1. 0 \in 0 .. clock' /\ 0 .. clock \subseteq 0 .. clock'
    BY <1>1, <1>2
  <2>2. disk \in [Places -> 0 .. clock']
    BY <1>2, <2>1
  <2> QED BY <1>1, <1>5, <2>1, <2>2
<1>7. /\ whole' \subseteq Links /\ blind' \subseteq Objects \cup Links
      /\ \A o \in Objects : o \in blind' <=> o \in blind
      /\ includes' \in Includes /\ \A x \in Source \cup Header : x # f => includes'[x] = includes[x]
  <2>1. CASE f \in Source
    BY <1>1, <1>2, <1>5, <2>1
  <2>2. CASE f \notin Source
    BY <1>1, <1>2, <2>2
  <2> QED BY <2>1, <2>2
<1>8. /\ TypesOK' /\ ObjectsInv' /\ NoObjects' /\ TodoKnown' /\ TodoUp' /\ LinksOlder'
      /\ ListsCurrent' /\ FoundNow' /\ NotBuiltYet' /\ RunSettled' /\ Done' /\ NoEditMissed'
  BY <1>1, <1>2, <1>6, <1>7, EditStep
<1> HIDE DEF pf
<1>9. blind \subseteq blind' /\ (f \in Source => LinksWith(f) \subseteq blind')
  BY <1>1
<1>10. RemovedBlind'
  <2> SUFFICES ASSUME NEW s \in found, disk'[Src(s)] = 0,
                      at' = "scanned" \/ <<Dir, s>> \in todo
               PROVE  LinksWith(s) \subseteq blind'
    BY <1>3, <1>4 DEF RemovedBlind
  <2>1. s \in Source
    BY <1>2, <1>5
  <2>2. CASE s = f
    BY <1>9, <2>1, <2>2
  <2>3. CASE s # f
    <3>1. disk[Src(s)] = 0
      BY <1>5, <1>6, <2>1, <2>3
    <3>2. LinksWith(s) \subseteq blind
      BY <1>3, <3>1 DEF RunInv, RemovedBlind
    <3> QED BY <1>9, <3>2
  <2> QED BY <2>2, <2>3
<1>11. LinksAccounted'
  <2> SUFFICES ASSUME NEW k \in Links, Exists(k)'
               PROVE  of[k] \in Dirs /\ (k \in whole' \/ k \in blind' \/ Reason(k)')
    BY <1>3, <1>4 DEF LinksAccounted
  <2>1. Exists(k) /\ disk'[k] = disk[k]
    BY <1>5, <1>6 DEF Exists
  <2>2. of[k] \in Dirs /\ (k \in whole \/ k \in blind \/ Reason(k))
    BY <2>1 DEF RunInv, LinksAccounted
  <2>3. ASSUME Reason(k) PROVE Reason(k)' \/ k \in blind'
    <3>1. CASE \E s \in Source :
           /\ k \in LinksWith(s) /\ (Exists(Src(s)) \/ s \in Test)
           /\ InputDirty(disk, k, <<of[k], s>>) \/ Newer(disk, <<of[k], s>>, Src(s))
      <4>1. PICK s \in Source :
           /\ k \in LinksWith(s) /\ (Exists(Src(s)) \/ s \in Test)
           /\ InputDirty(disk, k, <<of[k], s>>) \/ Newer(disk, <<of[k], s>>, Src(s))
        BY <3>1
      <4>2. CASE s = f
        BY <1>9, <4>1, <4>2
      <4>3. CASE s # f
        <5>1. disk'[Src(s)] = disk[Src(s)] /\ disk'[<<of[k], s>>] = disk[<<of[k], s>>]
          BY <1>5, <1>6, <2>2, <4>3
        <5> QED BY <1>3, <1>4, <2>1, <4>1, <5>1 DEF Reason, InputDirty, Newer, Exists
      <4> QED BY <4>2, <4>3
    <3>2. CASE /\ Lib \in Links /\ \E s \in Test : k = TestExe(s)
               /\ InputDirty(disk, k, Lib)
      <4>1. disk'[Lib] = disk[Lib]
        BY <1>5, <1>6, <3>2
      <4> QED BY <1>4, <2>1, <3>2, <4>1 DEF Reason, InputDirty, Newer
    <3> QED BY <2>3, <3>1, <3>2 DEF Reason
  <2> QED BY <1>1, <1>9, <2>2, <2>3
<1> QED BY <1>8, <1>10, <1>11 DEF RunInv, ObjectsInv

-----------------------------------------------------------------------------
(* What follows from it. *)

(* Every step keeps the invariant.                                           *)
LEMMA RunStutters ==
  ASSUME RunInv, UNCHANGED vars
  PROVE  RunInv'
<1>1. /\ kind' = kind /\ clock' = clock /\ includes' = includes /\ disk' = disk /\ dep' = dep
      /\ fresh' = fresh /\ whole' = whole /\ of' = of /\ blind' = blind
      /\ at' = at /\ args' = args /\ found' = found /\ listed' = listed /\ todo' = todo
      /\ failed' = failed /\ code' = code /\ quiet' = quiet
  BY DEF vars, projectVars, historyVars, runVars
<1>2. /\ Dirs' = Dirs /\ Test' = Test /\ Links' = Links /\ Main' = Main
      /\ Objects' = Objects /\ InSrcDir' = InSrcDir /\ Places' = Places
      /\ Wanted' = Wanted /\ Dir' = Dir /\ \A s : LinksWith(s)' = LinksWith(s)
  BY <1>1, Fixed
<1>3. /\ Building' = Building /\ Running' = Running /\ Now' = Now
      /\ \A p : Exists(p)' <=> Exists(p)
  BY <1>1, <1>2 DEF Building, Running, Now, Exists
<1>4. TypesOK'
  BY <1>1, <1>2 DEF RunInv, TypesOK
<1>5. ObjectsInv' /\ LinksAccounted'
  BY <1>1, ObjectsKept, LinksKept
<1>6. NoObjects' /\ RemovedBlind' /\ ListsCurrent' /\ FoundNow' /\ NotBuiltYet'
  BY <1>1, <1>2, <1>3 DEF RunInv, NoObjects, RemovedBlind, ListsCurrent, FoundNow, NotBuiltYet
<1>7. TodoKnown' /\ TodoUp' /\ LinksOlder'
  BY <1>1, <1>2, <1>3 DEF RunInv, TodoKnown, TodoUp, LinksOlder
<1>8. RunSettled' /\ Done'
  <2>1. \A ss : SettledWith(ss)' <=> SettledWith(ss)
    BY <1>1, SettledKept
  <2> QED BY <1>1, <1>3, <2>1 DEF RunInv, RunSettled, Done
<1>9. NoEditMissed'
  <2>1. /\ \A s : Obj(args, s)' = Obj(args, s)
        /\ Compiled(found)' = Compiled(found) /\ ObjDir(args)' = ObjDir(args)
    BY <1>1, <1>2 DEF Obj, ObjDir, Compiled
  <2> QED BY <1>1, <1>2, <2>1 DEF RunInv, NoEditMissed
<1> QED BY <1>4, <1>5, <1>6, <1>7, <1>8, <1>9 DEF RunInv, ObjectsInv

(* The invariant of the runs holds for every set of sources, headers and     *)
(* arguments, and every sequence of runs, edits, failures and kills.         *)
THEOREM RunHolds == Spec => []RunInv
<1>1. ~Succeeds("exited 1") /\ ~Succeeds("killed")
  BY DEF Succeeds
<1>2. \A status \in {"exited 1", "killed"} : ~Succeeds(status)
  BY <1>1
<1> HIDE DEF Succeeds
<1>3. RunInv /\ [Next]_vars => RunInv'
  <2> SUFFICES ASSUME RunInv, [Next]_vars PROVE RunInv'
    OBVIOUS
  <2>1. CASE Plan
    BY <2>1, RunPlan
  <2>2. CASE Return
    BY <2>2, RunReturn
  <2>3. CASE Clean
    BY <2>3, RunClean
  <2>4. CASE DeleteTree
    BY <2>4, RunDeleteTree
  <2>5. CASE Killed
    BY <2>5, RunKilled
  <2>6. ASSUME NEW a \in ArgsTold, Scan(a) PROVE RunInv'
    BY <2>6, RunScan
  <2>7. ASSUME NEW s \in Source, Compile(s) PROVE RunInv'
    BY <2>7, RunCompile
  <2>8. ASSUME NEW s \in Source, NEW status, ~Succeeds(status), FailToCompile(s, status)
        PROVE  RunInv'
    BY <2>8, RunFailToCompile
  <2>9. ASSUME NEW l \in Links, Link(l) PROVE RunInv'
    BY <2>9, RunLink
  <2>10. ASSUME NEW l \in Links, NEW status, ~Succeeds(status), FailToLink(l, status)
         PROVE  RunInv'
    BY <2>10, RunFailToLink
  <2>11. ASSUME NEW status, BuildUnnamed(status) PROVE RunInv'
    BY <2>11, RunBuildUnnamed
  <2>12. ASSUME NEW f \in Source \cup Header, Edit(f) \/ RemoveFile(f) PROVE RunInv'
    BY <2>12, RunEdit, RunRemoveFile
  <2>13. CASE UNCHANGED vars
    BY <2>13, RunStutters
  <2>14. \A status : \A s \in Source :
           status \in {"exited 1", "killed"} /\ FailToCompile(s, status) => RunInv'
    BY <1>2, <2>8
  <2>15. \A status : \A l \in Links :
           status \in {"exited 1", "killed"} /\ FailToLink(l, status) => RunInv'
    BY <1>2, <2>10
  <2> QED BY <2>1, <2>2, <2>3, <2>4, <2>5, <2>6, <2>7, <2>9, <2>11, <2>12, <2>13, <2>14, <2>15
          DEF Next
<1> QED BY RunInit, <1>3, PTL DEF Spec

(* Whatever was edited, compiled with other arguments, failed, killed or     *)
(* cleaned before: a plan has every object a compiler would write            *)
(* differently, and what is linked from objects written since.               *)
THEOREM PlansMissNothing == Spec => []NoEditMissed
<1>1. RunInv => NoEditMissed
  BY DEF RunInv
<1> QED BY RunHolds, <1>1, PTL

(* When a script returns 0 and nothing was edited meanwhile a second run     *)
(* would find nothing to do, but the library with the empty path, and what   *)
(* was built is what would be built now.                                     *)
THEOREM SuccessLeavesNothing == Spec => []SuccessIsComplete
<1>1. RunInv => SuccessIsComplete
  <2> SUFFICES ASSUME RunInv, at = "idle", code = "built", quiet
               PROVE  /\ DirtyOutputs(Graph(Now, dep)) \subseteq {EmptyPath}
                      /\ \A s \in Compiled(Now) : Obj(args, s) \in fresh \cup blind
                      /\ \A l \in Wanted : l \in whole \cup blind \/ of[l] # ObjDir(args)
    BY DEF SuccessIsComplete, Now
  <2>1. /\ args \in Args /\ dep \in [Source -> SUBSET Files] /\ disk[EmptyPath] = 0
    BY DEF RunInv, TypesOK
  <2>2. todo = {} /\ SettledWith(Now)
    BY DEF RunInv, Done
  <2>3. /\ Test \subseteq Source /\ InSrcDir \subseteq Source /\ Wanted \subseteq Links
        /\ Main \in Wanted /\ (Test # {} => Lib = Main)
        /\ \A l \in Links : l = Main \/ \E s \in Test : l = TestExe(s)
    BY <2>1, LinksAre
  <2>4. Now \in SUBSET InSrcDir /\ Now \in SUBSET Source
    BY <2>3 DEF Now
  <2>5. \A s \in Source : Obj(args, s) = <<Dir, s>>
    BY <2>1, PlacesAre
  <2>6. ASSUME NEW s \in Compiled(Now)
        PROVE  s \in Source /\ (<<Dir, s>> \in fresh \/ <<Dir, s>> \in blind) /\ ObjClean(s)
    <3>1. s \in Source /\ ObjSettled(s)
      BY <2>2, <2>3, <2>4 DEF Compiled, SettledWith
    <3> QED BY <2>2, <3>1 DEF ObjSettled
  <2>7. /\ LinkGood(Main) /\ disk[Main] # 0
        /\ \A s \in Now : ~InputDirty(disk, Main, <<Dir, s>>)
    BY <2>2 DEF SettledWith
  <2>8. \A s \in Test : TestExe(s) \in Wanted =>
          /\ LinkGood(TestExe(s)) /\ disk[TestExe(s)] # 0
          /\ ~InputDirty(disk, TestExe(s), <<Dir, s>>)
          /\ ~InputDirty(disk, TestExe(s), Lib)
    BY <2>2 DEF SettledWith
  <2> DEFINE T == TodoOf(Now, dep)
  <2>9. DirtyOutputs(Graph(Now, dep)) = T
    BY <2>1, <2>4, DirtyIsTodo
  <2>10. /\ \A x \in T : x \in Links \/ x = EmptyPath \/ \E s \in Source : x = <<Dir, s>>
         /\ \A l \in Links : l \in T => l \in Wanted
         /\ \A s \in Source : <<Dir, s>> \in T <=> s \in Compiled(Now) /\ ObjDirty(s, dep[s])
         /\ Main \in T <=>
              \/ disk[Main] = 0
              \/ \E s \in Now : InputDirty(disk, Main, <<Dir, s>>) \/ <<Dir, s>> \in T
         /\ \A s \in Test : TestExe(s) \in Wanted =>
              (TestExe(s) \in T <=>
                 \/ disk[TestExe(s)] = 0
                 \/ InputDirty(disk, TestExe(s), <<Dir, s>>) \/ <<Dir, s>> \in T
                 \/ InputDirty(disk, TestExe(s), Lib) \/ Lib \in T)
    BY <2>1, <2>4, TodoIs
  <2> HIDE DEF T
  <2>11. ASSUME NEW s \in Source PROVE <<Dir, s>> \notin T
    <3>1. s \in Compiled(Now) => ~ObjDirty(s, dep[s])
      BY <2>5, <2>6 DEF ObjClean, ObjDirty
    <3> QED BY <2>10, <3>1
  <2>12. Main \notin T
    BY <2>4, <2>7, <2>10, <2>11
  <2>13. ASSUME NEW l \in Links PROVE l \notin T
    <3>1. CASE l = Main
      BY <2>12, <3>1
    <3>2. CASE \E s \in Test : l = TestExe(s)
      BY <2>3, <2>8, <2>10, <2>11, <2>12, <3>2
    <3> QED BY <2>3, <3>1, <3>2
  <2>14. T \subseteq {EmptyPath}
    BY <2>10, <2>11, <2>13
  <2>15. \A s \in Compiled(Now) : Obj(args, s) \in fresh \cup blind
    BY <2>5, <2>6
  <2>16. ASSUME NEW l \in Wanted PROVE l \in whole \cup blind \/ of[l] # ObjDir(args)
    <3>1. LinkGood(l)
      BY <2>3, <2>7, <2>8
    <3> QED BY <3>1 DEF LinkGood, Dir
  <2> QED BY <2>9, <2>14, <2>15, <2>16
<1> QED BY RunHolds, <1>1, PTL

(* The plans of the two templates for programs are declared from the program *)
(* down, unless a header is missing that a dependency file names.            *)
THEOREM ProgramsAreTopDown == Spec => []PlansAreTopDown
<1>1. RunInv => PlansAreTopDown
  <2> SUFFICES ASSUME RunInv, at = "planned", ~IsLib, quiet,
                      ~(\E s \in found : \E p \in listed[s] : ~Exists(p))
               PROVE  LET g == Graph(found, listed) IN TopDown(PlanOfPrepared(g, Prepared(g)))
    BY DEF PlansAreTopDown
  <2>1. /\ args \in Args /\ found \subseteq InSrcDir /\ listed \in [Source -> SUBSET Files]
    BY DEF RunInv, TypesOK
  <2>2. found \in SUBSET Source
    BY <2>1, LinksAre
  <2>3. found = Now
    BY DEF RunInv, FoundNow, Running
  <2>4. \A s \in found : \A p \in {Src(s)} \cup listed[s] : Exists(p)
    BY <2>3 DEF Now
  <2>5. \A s \in found : \A p \in {Src(s)} \cup listed[s] : disk[p] # 0
    BY <2>4 DEF Exists
  <2> QED BY <2>1, <2>2, <2>5, ProgramIsTopDown
<1> QED BY RunHolds, <1>1, PTL
=============================================================================
