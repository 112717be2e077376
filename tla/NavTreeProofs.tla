---------------------------- MODULE NavTreeProofs ----------------------------
(***************************************************************************)
(* Proofs about NavTree for every manual, every order in which scripts     *)
(* arrive and every reader.                                                *)
(*                                                                         *)
(* Panel(t) is what each function of navtree.js that changes the panel     *)
(* keeps: t has the type of a panel, an expanded node has been built, and  *)
(* animations scroll to places of the page.  The lemmas follow the calls   *)
(* of the functions upwards, from single assignments to the handlers.      *)
(* Then: why a timer of showRoot always has a reason (Rests), and, for a   *)
(* reader who waits, why the arrows are right (Orderly) and where the      *)
(* selection ends up (Following).                                          *)
(***************************************************************************)
EXTENDS NavTree, Recursion

RequestBags == UNION {[R -> Nat \ {0}] : R \in SUBSET Request}

\* Every branch is built at most once.
NavType ==
  [at : Urls, chunks : SUBSET Nat, have : SUBSET Lazy, built : [Tree -> {0, 1}],
   expanded : SUBSET Tree, shown : SUBSET Tree,
   slides : [Tree -> Seq({"up", "down"})],
   selected : SUBSET Tree, crumbs : Seq(Nat), requests : RequestBags,
   polling : BOOLEAN, busy : BOOLEAN,
   scrolls : Seq([to : Hashes, update : BOOLEAN])]

\* h is a place of the page of u.
OnPage(u, h) == Url(u.page, h) \in Urls

Panel(t) ==
  /\ t \in NavType
  /\ \A n \in t.expanded : t.built[n] = 1
  /\ \A i \in DOMAIN t.scrolls : OnPage(t.at, t.scrolls[i].to)

Inv ==
  /\ Panel(nav)
  /\ reader \in Readers /\ sync \in BOOLEAN /\ loaded \in BOOLEAN
  /\ stored \in Urls \cup {NoLink} /\ aim \in Urls
  /\ sync <=> stored = NoLink

-----------------------------------------------------------------------------
(* Urls.                                                                   *)

LEMMA UrlLemma ==
  ASSUME NEW u \in Urls
  PROVE  /\ u.hash \in Hashes /\ u.page \in Pages
         /\ Url(u.page, u.hash) = u
         /\ Url(u.page, NoHash) \in Urls
  BY LinkAssumption DEF Pages, Hashes, Url

LEMMA TargetLemma ==
  ASSUME NEW u \in Urls, NEW link \in Urls \cup {NoLink}
  PROVE  Target(u, link) \in Urls
<1> DEFINE v == IF link = NoLink THEN u ELSE link
<1>1. v \in Urls
  OBVIOUS
<1>2. Target(u, link) \in {v, Url(v.page, NoHash)}
  BY DEF Target
<1> HIDE DEF v
<1>3. QED
  BY <1>1, <1>2, UrlLemma

LEMMA NodeLemma ==
  /\ Inner \subseteq Tree /\ Lazy \subseteq Inner
  /\ \A n \in Lazy : Parent(n) \in Seq(Nat)
  /\ Tree \subseteq Seq(Nat)
  BY TreeAssumption DEF Inner

-----------------------------------------------------------------------------
(* Assignments to one field of the panel.                                  *)

LEMMA SmallLemma ==
  ASSUME NEW t, Panel(t)
  PROVE  /\ \A b \in BOOLEAN : Panel([t EXCEPT !.polling = b])
         /\ \A ns \in SUBSET Tree : Panel([t EXCEPT !.selected = ns])
         /\ \A c \in Seq(Nat) : Panel([t EXCEPT !.crumbs = c])
         /\ \A R \in RequestBags : Panel([t EXCEPT !.requests = R])
         /\ \A c \in SUBSET Nat : Panel([t EXCEPT !.chunks = c])
         /\ \A ns \in SUBSET Lazy : Panel([t EXCEPT !.have = ns])
         /\ \A ns \in SUBSET Tree : Panel([t EXCEPT !.shown = ns])
<1>1. \A b \in BOOLEAN : Panel([t EXCEPT !.polling = b])
  BY DEF Panel, NavType
<1>2. \A ns \in SUBSET Tree : Panel([t EXCEPT !.selected = ns])
  BY DEF Panel, NavType
<1>3. \A c \in Seq(Nat) : Panel([t EXCEPT !.crumbs = c])
  BY DEF Panel, NavType
<1>4. \A R \in RequestBags : Panel([t EXCEPT !.requests = R])
  BY DEF Panel, NavType
<1>5. \A c \in SUBSET Nat : Panel([t EXCEPT !.chunks = c])
  BY DEF Panel, NavType
<1>6. \A ns \in SUBSET Lazy : Panel([t EXCEPT !.have = ns])
  BY DEF Panel, NavType
<1>7. \A ns \in SUBSET Tree : Panel([t EXCEPT !.shown = ns])
  BY DEF Panel, NavType
<1>8. QED
  BY <1>1, <1>2, <1>3, <1>4, <1>5, <1>6, <1>7

-----------------------------------------------------------------------------
(* The functions that change the panel.                                    *)

LEMMA GetScriptLemma ==
  ASSUME NEW t, Panel(t), NEW r \in Request
  PROVE  Panel(GetScript(t, r))
<1>1. t.requests \in RequestBags
  BY DEF Panel, NavType
<1>2. PICK R \in SUBSET Request : t.requests \in [R -> Nat \ {0}]
  BY <1>1 DEF RequestBags
<1> DEFINE more == t.requests (+) SetToBag({r})
<1>3. more \in [R \cup {r} -> Nat \ {0}]
  BY <1>2 DEF SetToBag, (+)
<1>4. more \in RequestBags
  BY <1>3 DEF RequestBags
<1>5. GetScript(t, r) = [t EXCEPT !.requests = more]
  BY DEF GetScript
<1>6. QED
  BY <1>4, <1>5, SmallLemma

\* A script that arrives is no longer under way.
LEMMA ArrivalLemma ==
  ASSUME NEW t, Panel(t), NEW r, BagIn(r, t.requests)
  PROVE  r \in Request /\ Panel([t EXCEPT !.requests = @ (-) SetToBag({r})])
<1>1. PICK R \in SUBSET Request : t.requests \in [R -> Nat \ {0}]
  BY DEF Panel, NavType, RequestBags
<1> DEFINE less == t.requests (-) SetToBag({r})
<1>2. r \in R
  BY <1>1 DEF BagIn, BagToSet
<1>3. \E S \in SUBSET R : less \in [S -> Nat \ {0}]
  <2> DEFINE B == [e \in R |-> IF e \in {r} THEN t.requests[e] - 1 ELSE t.requests[e]]
             S == {e \in R : B[e] > 0}
  <2>1. less = [e \in S |-> B[e]]
    BY <1>1, <1>2 DEF (-), SetToBag
  <2>2. \A e \in S : B[e] \in Nat \ {0}
    BY <1>1
  <2> HIDE DEF less, B
  <2>3. QED
    BY <2>1, <2>2
<1>4. less \in RequestBags
  BY <1>3 DEF RequestBags
<1>5. QED
  BY <1>2, <1>4, SmallLemma

LEMMA OpenLemma ==
  ASSUME NEW t, Panel(t), NEW ns \in SUBSET Tree
  PROVE  Panel(Open(t, ns))
<1> DEFINE b == [n \in Tree |-> IF n \in ns /\ t.built[n] = 0 THEN 1 ELSE t.built[n]]
           j == [t EXCEPT !.built = b, !.shown = t.shown \cup ns,
                          !.expanded = t.expanded \cup ns]
<1>1. t.built \in [Tree -> {0, 1}] /\ t.expanded \in SUBSET Tree
  BY DEF Panel, NavType
<1>2. b \in [Tree -> {0, 1}] /\ \A n \in t.expanded \cup ns : b[n] = 1
  BY <1>1 DEF Panel
<1>3. Open(t, ns) = j
  BY <1>1 DEF Open
<1> HIDE DEF b
<1>4. j \in NavType
  BY <1>2 DEF Panel, NavType
<1>5. /\ j.built = b /\ j.expanded = t.expanded \cup ns
      /\ j.scrolls = t.scrolls /\ j.at = t.at
  BY DEF Panel, NavType
<1>6. QED
  BY <1>2, <1>3, <1>4, <1>5 DEF Panel

LEMMA ExpandNodeLemma ==
  ASSUME NEW t, Panel(t), NEW n \in Tree, NEW imm \in BOOLEAN
  PROVE  Panel(ExpandNode(t, n, imm))
<1>1. CASE n \notin Inner \/ n \in t.expanded
  BY <1>1 DEF ExpandNode
<1>2. CASE n \in Inner \ t.expanded /\ Awaited(t, n)
  <2>1. [kind |-> "expand", node |-> n, imm |-> imm] \in Request
    BY <1>2 DEF Request, Awaited
  <2>2. QED
    BY <1>2, <2>1, GetScriptLemma DEF ExpandNode
<1>3. CASE n \in Inner \ t.expanded /\ ~Awaited(t, n) /\ imm
  BY <1>3, OpenLemma DEF ExpandNode
<1>4. CASE n \in Inner \ t.expanded /\ ~Awaited(t, n) /\ ~imm
  <2> DEFINE o == Open(t, {n})
             down == Append(o.slides[n], "down")
             j == [[o EXCEPT !.shown = t.shown] EXCEPT !.slides[n] = down]
  <2>1. Panel(o) /\ t.shown \in SUBSET Tree
    <3>1. Panel(o)
      BY OpenLemma
    <3>2. t.shown \in SUBSET Tree
      BY DEF Panel, NavType
    <3>3. QED
      BY <3>1, <3>2
  <2>2. ExpandNode(t, n, imm) = j
    BY <1>4 DEF ExpandNode
  <2> HIDE DEF o
  <2>3. Panel([o EXCEPT !.shown = t.shown])
    BY <2>1, SmallLemma
  <2>4. down \in Seq({"up", "down"})
    BY <2>1 DEF Panel, NavType
  <2> HIDE DEF down
  <2>5. Panel(j)
    BY <2>1, <2>3, <2>4 DEF Panel, NavType
  <2>6. QED
    BY <2>2, <2>5
<1>5. QED
  BY <1>1, <1>2, <1>3, <1>4

LEMMA GotoAnchorLemma ==
  ASSUME NEW t, Panel(t), NEW h \in Hashes, OnPage(t.at, h), NEW update \in BOOLEAN
  PROVE  Panel(GotoAnchor(t, h, update))
<1> DEFINE a == [to |-> h, update |-> update]
           q == Append(t.scrolls, a)
           j == [t EXCEPT !.busy = TRUE, !.scrolls = q]
<1>1. t.scrolls \in Seq([to : Hashes, update : BOOLEAN])
  BY DEF Panel, NavType
<1>2. q \in Seq([to : Hashes, update : BOOLEAN])
  BY <1>1
<1>3. \A i \in DOMAIN q : OnPage(t.at, q[i].to)
  BY <1>1 DEF Panel
<1>4. GotoAnchor(t, h, update) = j
  BY DEF GotoAnchor
<1> HIDE DEF q
<1>5. j \in NavType
  BY <1>2 DEF Panel, NavType
<1>6. j.scrolls = q /\ j.at = t.at /\ j.expanded = t.expanded /\ j.built = t.built
  BY DEF Panel, NavType
<1>7. QED
  BY <1>3, <1>4, <1>5, <1>6 DEF Panel

LEMMA ShowRootLemma ==
  ASSUME NEW t, Panel(t)
  PROVE  Panel(ShowRoot(t))
<1>1. (t.polling \/ t.selected = {}) \in BOOLEAN
  BY DEF Panel, NavType
<1>2. QED
  BY <1>1, SmallLemma DEF ShowRoot

LEMMA SelectLemma ==
  ASSUME NEW t, Panel(t), NEW h, NEW ns \in SUBSET Tree
  PROVE  Panel(SelectAndHighlight(t, h, ns))
<1>1. ASSUME NEW x, Panel(x) PROVE Panel(HighlightAnchor(x))
  <2>1. x.at.hash \in Hashes /\ OnPage(x.at, x.at.hash)
    BY <1>1, UrlLemma DEF Panel, NavType, OnPage
  <2>2. QED
    BY <1>1, <2>1, GotoAnchorLemma DEF HighlightAnchor
<1> DEFINE as == IF h = NoHash THEN {} ELSE ItemsOf(t, Url(t.at.page, h))
<1>2. as \in SUBSET Tree /\ t.selected \in SUBSET Tree
  BY DEF ItemsOf, Items, Panel, NavType
<1>3. /\ Panel([t EXCEPT !.selected = t.selected \cup as])
      /\ Panel([t EXCEPT !.selected = t.selected \cup ns])
  BY <1>2, SmallLemma
<1>4. SelectAndHighlight(t, h, ns)
        = ShowRoot(IF as # {} THEN HighlightAnchor([t EXCEPT !.selected = t.selected \cup as])
                              ELSE [t EXCEPT !.selected = t.selected \cup ns])
  BY DEF SelectAndHighlight
<1> HIDE DEF as
<1>5. QED
  BY <1>1, <1>3, <1>4, ShowRootLemma

-----------------------------------------------------------------------------
(* How showNode goes: it opens what is ready, stops, and does one of five  *)
(* things.                                                                 *)

LastStep(t, node) ==
  IF Len(t.crumbs) > Len(node) THEN Len(t.crumbs) - 1 ELSE Len(node)

ReadySteps(t, node) ==
  {k \in Len(node)..LastStep(t, node) :
     \A j \in Len(node)..k : Ready(t, Trail(t, node, j))}

StopsAt(t, node)  == Len(node) + Cardinality(ReadySteps(t, node))
NextNode(t, node) == Trail(t, node, StopsAt(t, node))
WayTo(t, node)    == Open(t, {Trail(t, node, k) : k \in ReadySteps(t, node)})

Lost(t, node)  == StopsAt(t, node) > Len(t.crumbs) \/ NextNode(t, node) \notin Tree
Short(t, node) == StopsAt(t, node) <= LastStep(t, node)

Script(kind, n, h) == [kind |-> kind, node |-> n, hash |-> h]

Goes(t, node, h) ==
  LET next == NextNode(t, node)
      way  == WayTo(t, node)
      res  == ShowNode(t, node, h)
  IN  \/ /\ Short(t, node) /\ Awaited(t, next)
         /\ res = GetScript(way, Script("show", next, h))
      \/ /\ Short(t, node) /\ ~Awaited(t, next)
         /\ res = SelectAndHighlight(way, h, {})
      \/ ~Short(t, node) /\ Lost(t, node) /\ res = way
      \/ /\ ~Short(t, node) /\ ~Lost(t, node) /\ Awaited(t, next)
         /\ res = GetScript(way, Script("retry", next, h))
      \/ /\ ~Short(t, node) /\ ~Lost(t, node) /\ ~Awaited(t, next)
         /\ \E x \in {way, ExpandNode(way, next, TRUE)} :
              res = SelectAndHighlight(x, h, {next})

\* What has been counted as ready is what is before the first that is not.
Stops(a, last, R) ==
  LET ready == {k \in a..last : \A j \in a..k : j \in R}
      stop  == a + Cardinality(ready)
  IN  /\ stop \in a..(last + 1) /\ ready = a..(stop - 1)
      /\ stop <= last => stop \notin R

LEMMA StopLemma ==
  ASSUME NEW a \in Nat, NEW last \in Nat, a <= last, NEW R
  PROVE  Stops(a, last, R)
<1> DEFINE ready == {k \in a..last : \A j \in a..k : j \in R}
           T == {k \in a..(last + 1) : k = last + 1 \/ k \notin R}
<1>1. T \subseteq Nat /\ last + 1 \in T
  OBVIOUS
<1>2. PICK b \in T : \A m \in T : b <= m
  BY <1>1, LeastNatural
<1>3. b \in Nat /\ a <= b /\ b <= last + 1
  BY <1>1, <1>2
<1>4. \A j \in a..(b - 1) : j \in R
  <2> SUFFICES ASSUME NEW j \in a..(b - 1), j \notin R PROVE FALSE
    OBVIOUS
  <2>1. j \in T
    BY <1>3
  <2> QED
    BY <1>2, <1>3, <2>1
<1>5. ready = a..(b - 1)
  <2>1. ASSUME NEW k \in ready PROVE k \in a..(b - 1)
    <3>1. k < b
      <4> SUFFICES ASSUME b <= k PROVE FALSE
        BY <1>3
      <4>1. b \in a..k /\ b # last + 1
        BY <1>3
      <4>2. b \in R
        BY <4>1
      <4> QED
        BY <1>2, <4>1, <4>2
    <3> QED
      BY <1>3, <3>1
  <2>2. ASSUME NEW k \in a..(b - 1) PROVE k \in ready
    BY <1>3, <1>4
  <2> QED
    BY <2>1, <2>2
<1>6. Cardinality(ready) = b - a
  <2>1. Cardinality(a..(b - 1)) = IF a > b - 1 THEN 0 ELSE (b - 1) - a + 1
    BY <1>3, FS_Interval
  <2>2. Cardinality(a..(b - 1)) = b - a
    BY <1>3, <2>1
  <2> HIDE DEF ready
  <2> QED
    BY <1>5, <2>2
<1>7. a + Cardinality(ready) = b
  BY <1>3, <1>6
<1>8. b <= last => b \notin R
  BY <1>2
<1> HIDE DEF ready, T
<1> QED
  BY <1>3, <1>5, <1>7, <1>8 DEF Stops, ready

\* showNode stops at the first node on its way that is not ready.
LEMMA StopsLemma ==
  ASSUME NEW t, Panel(t), NEW node \in Seq(Nat)
  PROVE  LET stop == StopsAt(t, node)
             last == LastStep(t, node)
         IN  /\ last \in Nat /\ Len(node) <= last /\ stop \in Len(node)..(last + 1)
             /\ ReadySteps(t, node) = Len(node)..(stop - 1)
             /\ \A k \in ReadySteps(t, node) : Ready(t, Trail(t, node, k))
             /\ Short(t, node) => ~Ready(t, NextNode(t, node))
             /\ Panel(WayTo(t, node))
<1> DEFINE a    == Len(node)
           last == LastStep(t, node)
           R    == {k \in Nat : Ready(t, Trail(t, node, k))}
           steps == {k \in a..last : \A j \in a..k : j \in R}
           stop == StopsAt(t, node)
           opened == {Trail(t, node, k) : k \in ReadySteps(t, node)}
<1>1. a \in Nat /\ last \in Nat /\ a <= last
  BY DEF Panel, NavType, LastStep
<1> HIDE DEF a, last
<1>2. ReadySteps(t, node) = steps
  <2>1. \A k \in a..last : \A j \in a..k : j \in R <=> Ready(t, Trail(t, node, j))
    BY <1>1
  <2> HIDE DEF R
  <2> QED
    BY <2>1 DEF ReadySteps, last, a
<1>3. Stops(a, last, R)
  <2> HIDE DEF R
  <2> QED
    BY <1>1, StopLemma
<1>4. stop = a + Cardinality(steps)
  BY <1>2 DEF StopsAt, a
<1> HIDE DEF stop
<1>5. /\ stop \in a..(last + 1) /\ ReadySteps(t, node) = a..(stop - 1)
      /\ stop <= last => stop \notin R
  <2> HIDE DEF R
  <2> QED
    BY <1>2, <1>3, <1>4, Zenon DEF Stops
<1>6. \A k \in ReadySteps(t, node) : Ready(t, Trail(t, node, k))
  BY <1>1, <1>2
<1>7. Short(t, node) => ~Ready(t, NextNode(t, node))
  BY <1>1, <1>5 DEF Short, NextNode, stop, last
<1>8. opened \in SUBSET Tree
  BY <1>6, NodeLemma DEF Ready
<1>9. Panel(WayTo(t, node))
  BY <1>8, OpenLemma DEF WayTo
<1>10. QED
  BY <1>1, <1>5, <1>6, <1>7, <1>9 DEF a, last, stop

LEMMA GoesLemma ==
  ASSUME NEW t, Panel(t), NEW node \in Seq(Nat), NEW h
  PROVE  Goes(t, node, h)
<1> DEFINE last == LastStep(t, node)
           stop == StopsAt(t, node)
           next == NextNode(t, node)
           way  == WayTo(t, node)
           lost == stop > Len(t.crumbs) \/ next \notin Tree
           x    == IF t.at.page = IndexPage THEN ExpandNode(way, next, TRUE) ELSE way
           res  == ShowNode(t, node, h)
<1>1. res = CASE stop <= last /\ Awaited(t, next) -> GetScript(way, Script("show", next, h))
              [] stop <= last /\ ~Awaited(t, next) -> SelectAndHighlight(way, h, {})
              [] stop > last /\ lost -> way
              [] stop > last /\ ~lost /\ Awaited(t, next) ->
                   GetScript(way, Script("retry", next, h))
              [] OTHER -> SelectAndHighlight(x, h, {next})
  BY Zenon DEF ShowNode, LastStep, ReadySteps, StopsAt, NextNode, WayTo, Script
<1>2. stop > last <=> ~(stop <= last)
  BY StopsLemma
<1>3. /\ Short(t, node) <=> stop <= last
      /\ Lost(t, node) <=> lost
      /\ x \in {way, ExpandNode(way, next, TRUE)}
  BY DEF Short, Lost
<1> HIDE DEF last, stop, next, way, lost, x, res
<1>4. CASE stop <= last /\ Awaited(t, next)
  <2>1. res = GetScript(way, Script("show", next, h))
    BY <1>1, <1>2, <1>4, Zenon
  <2>2. QED
    BY <1>3, <1>4, <2>1, Zenon DEF Goes, next, way, res
<1>5. CASE stop <= last /\ ~Awaited(t, next)
  <2>1. res = SelectAndHighlight(way, h, {})
    BY <1>1, <1>2, <1>5, Zenon
  <2>2. QED
    BY <1>3, <1>5, <2>1, Zenon DEF Goes, next, way, res
<1>6. CASE stop > last /\ lost
  <2>1. res = way
    BY <1>1, <1>2, <1>6, Zenon
  <2>2. QED
    BY <1>2, <1>3, <1>6, <2>1, Zenon DEF Goes, next, way, res
<1>7. CASE stop > last /\ ~lost /\ Awaited(t, next)
  <2>1. res = GetScript(way, Script("retry", next, h))
    BY <1>1, <1>2, <1>7, Zenon
  <2>2. QED
    BY <1>2, <1>3, <1>7, <2>1, Zenon DEF Goes, next, way, res
<1>8. CASE stop > last /\ ~lost /\ ~Awaited(t, next)
  <2>1. res = SelectAndHighlight(x, h, {next})
    BY <1>1, <1>2, <1>8, Zenon
  <2>2. QED
    BY <1>2, <1>3, <1>8, <2>1, Zenon DEF Goes, next, way, res
<1>9. QED
  BY <1>2, <1>4, <1>5, <1>6, <1>7, <1>8, Zenon

\* What showNode waits for is a script.
LEMMA ScriptLemma ==
  ASSUME NEW t, NEW n, Awaited(t, n), NEW h \in Hashes, NEW kind \in {"show", "retry"}
  PROVE  Script(kind, n, h) \in Request
BY DEF Awaited, Request, Script

\* showNode opens nodes that are there, requests a script that is missing, or
\* selects; where it stops does not matter here.
LEMMA ShowNodeLemma ==
  ASSUME NEW t, Panel(t), NEW node \in Seq(Nat), NEW h \in Hashes
  PROVE  Panel(ShowNode(t, node, h))
<1> DEFINE next == NextNode(t, node)
           way  == WayTo(t, node)
<1>1. Panel(way) /\ Goes(t, node, h)
  BY StopsLemma, GoesLemma
<1>2. ~Lost(t, node) => next \in Tree
  BY DEF Lost
<1> HIDE DEF next, way
<1>3. next \in Tree => Panel(ExpandNode(way, next, TRUE)) /\ {next} \in SUBSET Tree
  BY <1>1, ExpandNodeLemma
<1>4. ASSUME NEW k \in {"show", "retry"}, Awaited(t, next)
      PROVE  Panel(GetScript(way, Script(k, next, h)))
  BY <1>1, <1>4, ScriptLemma, GetScriptLemma
<1>5. ASSUME NEW x, Panel(x), NEW ns \in SUBSET Tree
      PROVE  Panel(SelectAndHighlight(x, h, ns))
  BY <1>5, SelectLemma
<1>6. QED
  BY <1>1, <1>2, <1>3, <1>4, <1>5 DEF Goes, next, way

\* What the index holds for a link is the path of a node, without the 0.
LEMMA LookupLemma ==
  ASSUME NEW u
  PROVE  LET i == Lookup(Chunk[u], u)
         IN  i \in Seq(Nat) /\ <<0>> \o i \in Tree
<1> DEFINE known == {v \in {u, Url(u.page, NoHash)} \cap DOMAIN Entry : Chunk[v] = Chunk[u]}
<1>1. CASE known = {}
  <2>1. Lookup(Chunk[u], u) = <<>> /\ <<0>> \o <<>> = <<0>>
    BY <1>1 DEF Lookup
  <2>2. QED
    BY <2>1, TreeAssumption
<1>2. CASE known # {}
  <2>1. PICK v \in DOMAIN Entry : Lookup(Chunk[u], u) = Entry[v]
    BY <1>2 DEF Lookup
  <2>2. QED
    BY <2>1, TreeAssumption
<1>3. QED
  BY <1>1, <1>2

LEMMA GotoNodeLemma ==
  ASSUME NEW t, Panel(t), NEW u \in Urls
  PROVE  Panel(GotoNode(t, u))
<1>1. <<0>> \o Lookup(Chunk[u], u) \in Seq(Nat)
  BY LookupLemma
<1>2. Panel([t EXCEPT !.crumbs = <<0>> \o Lookup(Chunk[u], u)])
  BY <1>1, SmallLemma
<1>3. u.hash \in Hashes /\ <<>> \in Seq(Nat)
  BY UrlLemma
<1>4. QED
  BY <1>2, <1>3, ShowNodeLemma, Zenon DEF GotoNode

LEMMA NavToLemma ==
  ASSUME NEW t, Panel(t), NEW u \in Urls
  PROVE  Panel(NavTo(t, u))
<1>1. [kind |-> "index", to |-> u] \in Request
  BY DEF Request
<1>2. QED
  BY <1>1, GotoNodeLemma, GetScriptLemma DEF NavTo

LEMMA OnHashChangeLemma ==
  ASSUME NEW t, Panel(t), NEW link \in Urls \cup {NoLink}
  PROVE  Panel(OnHashChange(t, link))
<1>1. t.at \in Urls /\ Target(t.at, link) \in Urls
  BY TargetLemma DEF Panel, NavType
<1>2. Panel([t EXCEPT !.selected = {}])
  BY SmallLemma
<1>3. QED
  BY <1>1, <1>2, NavToLemma DEF OnHashChange

\* What a script has brought, and the icon that a retry takes back.
Loaded(t, n, z) ==
  /\ z.crumbs = t.crumbs /\ z.selected = t.selected /\ z.requests = t.requests
  /\ z.polling = t.polling /\ z.have = t.have \cup {n} /\ z.shown = t.shown
  /\ z.slides = t.slides /\ z.scrolls = t.scrolls
  /\ z.at = t.at /\ z.built = t.built

LEMMA LoadedLemma ==
  ASSUME NEW t, Panel(t), NEW n \in Lazy
  PROVE  LET x == [t EXCEPT !.have = @ \cup {n}]
             y == [t EXCEPT !.have = @ \cup {n}, !.expanded = @ \ {Parent(n)}]
         IN  /\ Panel(x) /\ Panel(y)
             /\ x.expanded = t.expanded /\ y.expanded = t.expanded \ {Parent(n)}
             /\ \A z \in {x, y} : Loaded(t, n, z)
<1> DEFINE x == [t EXCEPT !.have = @ \cup {n}]
           e == t.expanded \ {Parent(n)}
           y == [x EXCEPT !.expanded = e]
<1>1. t.have \cup {n} \in SUBSET Lazy /\ e \in SUBSET Tree /\ e \subseteq t.expanded
  BY DEF Panel, NavType
<1>2. Panel(x)
  BY <1>1, SmallLemma
<1>3. x.expanded = t.expanded /\ Loaded(t, n, x)
  BY DEF Panel, NavType, Loaded
<1>4. [t EXCEPT !.have = @ \cup {n}, !.expanded = @ \ {Parent(n)}] = y
  BY DEF Panel, NavType
<1> HIDE DEF x, e
<1>5. y \in NavType /\ y.expanded = e /\ y.built = x.built /\ y.at = x.at
  BY <1>1, <1>2 DEF Panel, NavType
<1>6. /\ y.crumbs = x.crumbs /\ y.selected = x.selected /\ y.requests = x.requests
      /\ y.polling = x.polling /\ y.have = x.have /\ y.shown = x.shown
      /\ y.slides = x.slides /\ y.scrolls = x.scrolls
      /\ y.at = x.at /\ y.built = x.built
  BY <1>1, <1>2 DEF Panel, NavType
<1> HIDE DEF y
<1>7. Loaded(t, n, y)
  BY <1>3, <1>6 DEF Loaded
<1>8. Panel(y)
  BY <1>1, <1>2, <1>3, <1>5, <1>6 DEF Panel
<1>9. QED
  BY <1>2, <1>3, <1>4, <1>5, <1>7, <1>8 DEF x, e

LEMMA OnLoadLemma ==
  ASSUME NEW t, Panel(t), NEW r \in Request
  PROVE  Panel(OnLoad(t, r))
<1>1. CASE r \in [kind : {"index"}, to : Urls]
  <2>1. t.chunks \cup {Chunk[r.to]} \in SUBSET Nat
    BY <1>1, LinkAssumption DEF Panel, NavType
  <2>2. Panel([t EXCEPT !.chunks = t.chunks \cup {Chunk[r.to]}])
    BY <2>1, SmallLemma
  <2>3. OnLoad(t, r) = GotoNode([t EXCEPT !.chunks = t.chunks \cup {Chunk[r.to]}], r.to)
    BY <1>1 DEF OnLoad
  <2>4. r.to \in Urls
    BY <1>1
  <2>5. QED
    BY <2>2, <2>3, <2>4, GotoNodeLemma
<1>2. CASE r \in [kind : {"expand"}, node : Lazy, imm : BOOLEAN]
  <2> DEFINE x == [t EXCEPT !.have = @ \cup {r.node}]
  <2>1. OnLoad(t, r) = ExpandNode(x, r.node, r.imm)
    BY <1>2 DEF OnLoad
  <2>2. r.node \in Lazy /\ r.node \in Tree /\ r.imm \in BOOLEAN
    BY <1>2, NodeLemma
  <2>3. Panel(x)
    BY <2>2, LoadedLemma
  <2> HIDE DEF x
  <2>4. QED
    BY <2>1, <2>2, <2>3, ExpandNodeLemma
<1>3. CASE r \in [kind : {"show", "retry"}, node : Lazy, hash : Hashes]
  <2> DEFINE x == [t EXCEPT !.have = @ \cup {r.node}]
             y == [t EXCEPT !.have = @ \cup {r.node}, !.expanded = @ \ {Parent(r.node)}]
  <2>1. r.node \in Lazy /\ r.node \in Seq(Nat) /\ r.hash \in Hashes
        /\ Parent(r.node) \in Seq(Nat) /\ r.kind \in {"show", "retry"}
    BY <1>3, NodeLemma
  <2>2. r.kind = "show" => OnLoad(t, r) = ShowNode(x, r.node, r.hash)
    BY DEF OnLoad
  <2>3. r.kind = "retry" => OnLoad(t, r) = ShowNode(y, Parent(r.node), r.hash)
    BY DEF OnLoad
  <2>4. Panel(x) /\ Panel(y)
    BY <2>1, LoadedLemma
  <2> HIDE DEF x, y
  <2>5. QED
    BY <2>1, <2>2, <2>3, <2>4, ShowNodeLemma
<1>4. QED
  BY <1>1, <1>2, <1>3 DEF Request

-----------------------------------------------------------------------------
(* The handlers.                                                           *)

LEMMA PlaceLemma ==
  ASSUME NEW t, Panel(t), NEW h, OnPage(t.at, h)
  PROVE  LET x == [t EXCEPT !.at = Url(t.at.page, h)]
         IN  /\ Panel(x) /\ x.at = Url(t.at.page, h)
             /\ x.crumbs = t.crumbs /\ x.selected = t.selected
             /\ x.requests = t.requests /\ x.polling = t.polling
             /\ x.expanded = t.expanded /\ x.shown = t.shown
             /\ x.slides = t.slides /\ x.scrolls = t.scrolls
             /\ x.built = t.built /\ x.busy = t.busy
<1> DEFINE u == Url(t.at.page, h)
           x == [t EXCEPT !.at = u]
<1>1. u \in Urls /\ u.page = t.at.page
  BY DEF OnPage, Url
<1> HIDE DEF u
<1>2. /\ x \in NavType /\ x.at = u /\ x.scrolls = t.scrolls
      /\ x.expanded = t.expanded /\ x.built = t.built
  BY <1>1 DEF Panel, NavType
<1>3. /\ x.crumbs = t.crumbs /\ x.selected = t.selected
      /\ x.requests = t.requests /\ x.polling = t.polling
      /\ x.shown = t.shown /\ x.slides = t.slides
  BY DEF Panel, NavType
<1> HIDE DEF x
<1>4. Panel(x)
  BY <1>1, <1>2 DEF Panel, OnPage
<1>5. QED
  BY <1>2, <1>3, <1>4 DEF x, u

LEMMA MoveToLemma ==
  ASSUME Inv, NEW t, Panel(t), NEW h, OnPage(t.at, h), MoveTo(t, h)
  PROVE  Panel(nav') /\ aim' \in Urls
<1> DEFINE u == Url(t.at.page, h)
           x == [t EXCEPT !.at = u]
<1>1. Panel(x) /\ u \in Urls
  BY PlaceLemma DEF OnPage
<1>2. stored \in Urls \cup {NoLink} /\ aim \in Urls
  BY DEF Inv
<1>3. nav' = OnHashChange(x, stored)
  BY DEF MoveTo
<1>4. aim' = aim \/ aim' = Target(u, stored)
  BY DEF MoveTo
<1> HIDE DEF u, x
<1>5. QED
  BY <1>1, <1>2, <1>3, <1>4, OnHashChangeLemma, TargetLemma

\* The animation at the head of the queue has ended.
LEMMA ScrollLemma ==
  ASSUME NEW t, Panel(t), t.scrolls # <<>>
  PROVE  LET x == [t EXCEPT !.scrolls = Tail(@), !.busy = FALSE]
         IN  /\ Panel(x) /\ OnPage(x.at, Head(t.scrolls).to)
             /\ x.crumbs = t.crumbs /\ x.selected = t.selected
             /\ x.requests = t.requests /\ x.polling = t.polling
             /\ x.expanded = t.expanded /\ x.shown = t.shown /\ x.have = t.have
             /\ x.slides = t.slides /\ x.scrolls = Tail(t.scrolls)
             /\ x.at = t.at /\ x.built = t.built
<1> DEFINE s == Head(t.scrolls)
           rest == Tail(t.scrolls)
           x == [t EXCEPT !.scrolls = rest, !.busy = FALSE]
<1>1. t.scrolls \in Seq([to : Hashes, update : BOOLEAN])
  BY DEF Panel, NavType
<1>2. /\ rest \in Seq([to : Hashes, update : BOOLEAN])
      /\ \A i \in DOMAIN rest : rest[i] = t.scrolls[i + 1] /\ i + 1 \in DOMAIN t.scrolls
      /\ s = t.scrolls[1] /\ 1 \in DOMAIN t.scrolls
  BY <1>1
<1>3. OnPage(t.at, s.to) /\ \A i \in DOMAIN rest : OnPage(t.at, rest[i].to)
  BY <1>2 DEF Panel
<1> HIDE DEF s, rest
<1>4. /\ x \in NavType /\ x.scrolls = rest /\ x.at = t.at
      /\ x.expanded = t.expanded /\ x.built = t.built
  BY <1>2 DEF Panel, NavType
<1>5. /\ x.crumbs = t.crumbs /\ x.selected = t.selected
      /\ x.requests = t.requests /\ x.polling = t.polling
      /\ x.shown = t.shown /\ x.slides = t.slides /\ x.have = t.have
  BY DEF Panel, NavType
<1> HIDE DEF x
<1>6. Panel(x)
  BY <1>3, <1>4 DEF Panel
<1>7. QED
  BY <1>3, <1>4, <1>5, <1>6 DEF x, s, rest

LEMMA FreshLemma ==
  ASSUME NEW u \in Urls
  PROVE  Panel(FreshNav(u))
<1> DEFINE b == [n \in Tree |-> 0]
           s == [n \in Tree |-> <<>>]
<1>1. EmptyBag \in RequestBags
  BY DEF EmptyBag, SetToBag, RequestBags
<1>2. b \in [Tree -> {0, 1}] /\ s \in [Tree -> Seq({"up", "down"})]
  OBVIOUS
<1>3. {<<>>} \in SUBSET Tree
  BY TreeAssumption
<1>4. FreshNav(u) \in NavType
  BY <1>1, <1>2, <1>3 DEF FreshNav, NavType
<1>5. QED
  BY <1>4 DEF Panel, FreshNav

LEMMA LoadPageLemma ==
  ASSUME Inv, NEW u \in Urls, NEW link \in Urls \cup {NoLink}, LoadPage(u, link)
  PROVE  Inv'
<1>1. Panel(nav')
  BY FreshLemma DEF LoadPage
<1>2. QED
  BY <1>1 DEF Inv, LoadPage, Panel, OnPage

LEMMA InvInit ==
  ASSUME Init
  PROVE  Inv
<1>1. PICK u \in Urls : nav = FreshNav(u) /\ aim = u
  BY DEF Init
<1>2. Panel(nav)
  BY <1>1, FreshLemma
<1>3. stored \in Urls \cup {NoLink}
  BY TreeAssumption DEF Init
<1>4. QED
  BY <1>1, <1>2, <1>3 DEF Inv, Init

\* The handlers that change the panel and nothing of the reader's settings.
LEMMA PanelLemma ==
  ASSUME Inv, Panel(nav'), aim' \in Urls, loaded' \in BOOLEAN,
         UNCHANGED <<reader, stored, sync>>
  PROVE  Inv'
  BY DEF Inv, Panel, OnPage

LEMMA ReaderLemma ==
  ASSUME Inv, Reader
  PROVE  Inv'
<1>1. CASE HashChanges
  <2>1. PICK u \in Urls : u.page = nav.at.page /\ MoveTo(nav, u.hash)
    BY <1>1 DEF HashChanges
  <2>2. OnPage(nav.at, u.hash)
    BY <2>1, UrlLemma DEF OnPage
  <2>3. QED
    BY <1>1, <2>1, <2>2, MoveToLemma, PanelLemma DEF HashChanges, Inv
<1>2. CASE OpenPage
  BY <1>2, LoadPageLemma DEF OpenPage, Inv
<1>3. CASE ClickSync
  <2>1. nav.at \in Urls /\ NoLink \notin Urls
    BY LinkAssumption DEF Inv, Panel, NavType
  <2>2. UNCHANGED nav
    BY <1>3 DEF ClickSync
  <2>3. Panel(nav')
    BY <2>2 DEF Inv
  <2>4. QED
    BY <1>3, <2>1, <2>3 DEF Inv, ClickSync
<1>4. ASSUME NEW n \in Tree, ClickArrow(n)
      PROVE  Inv'
  <2>1. CASE n \in nav.expanded
    <3> DEFINE up == Append(nav.slides[n], "up")
               e  == nav.expanded \ {n}
               j  == [nav EXCEPT !.slides[n] = up, !.expanded = e]
    <3>1. nav' = j
      BY <1>4, <2>1 DEF ClickArrow
    <3>2. up \in Seq({"up", "down"}) /\ e \in SUBSET Tree
      BY DEF Inv, Panel, NavType
    <3> HIDE DEF up
    <3>3. j \in NavType
      BY <3>2 DEF Inv, Panel, NavType
    <3>4. j.expanded = e /\ j.built = nav.built /\ j.scrolls = nav.scrolls /\ j.at = nav.at
      BY DEF Inv, Panel, NavType
    <3> HIDE DEF j
    <3>5. Panel(j)
      BY <3>3, <3>4 DEF Inv, Panel
    <3>6. QED
      BY <1>4, <3>1, <3>5, PanelLemma DEF ClickArrow, Inv
  <2>2. CASE n \notin nav.expanded
    <3>1. Panel(nav')
      BY <1>4, <2>2, ExpandNodeLemma DEF ClickArrow, Inv
    <3>2. QED
      BY <1>4, <3>1, PanelLemma DEF ClickArrow, Inv
  <2>3. QED
    BY <2>1, <2>2
<1>5. ASSUME NEW n \in Tree, ClickItem(n)
      PROVE  Inv'
  <2>1. n \in DOMAIN Link /\ Link[n] \in Urls
    BY <1>5, TreeAssumption DEF ClickItem
  <2>2. /\ StoreLink(Link[n]) \in Urls \cup {NoLink}
        /\ sync <=> StoreLink(Link[n]) = NoLink
    BY <2>1, LinkAssumption DEF StoreLink, Inv
  <2>3. CASE Link[n].hash # NoHash /\ Link[n].page = nav.at.page
    <3> DEFINE t == IF n \in nav.selected THEN nav ELSE [nav EXCEPT !.selected = {n}]
    <3>1. Panel(t) /\ t.at = nav.at
      <4>1. Panel([nav EXCEPT !.selected = {n}])
        BY SmallLemma DEF Inv
      <4>2. [nav EXCEPT !.selected = {n}].at = nav.at
        BY DEF Inv, Panel, NavType
      <4>3. QED
        BY <4>1, <4>2 DEF Inv
    <3>2. Link[n].hash \in Hashes /\ OnPage(t.at, Link[n].hash)
      BY <2>1, <2>3, <3>1, UrlLemma DEF OnPage
    <3>3. nav' = GotoAnchor(t, Link[n].hash, TRUE)
      BY <1>5, <2>3 DEF ClickItem
    <3> HIDE DEF t
    <3>4. Panel(nav')
      BY <3>1, <3>2, <3>3, GotoAnchorLemma
    <3>5. QED
      BY <1>5, <2>1, <2>2, <2>3, <3>4 DEF ClickItem, Inv
  <2>4. CASE ~(Link[n].hash # NoHash /\ Link[n].page = nav.at.page)
    BY <1>5, <2>1, <2>2, <2>4, LoadPageLemma DEF ClickItem
  <2>5. QED
    BY <2>3, <2>4
<1>6. QED
  BY <1>1, <1>2, <1>3, <1>4, <1>5 DEF Reader

LEMMA BrowserLemma ==
  ASSUME Inv, Browser
  PROVE  Inv'
<1>1. CASE WindowLoad
  <2>1. nav.at \in Urls /\ Target(nav.at, stored) \in Urls
    BY TargetLemma DEF Inv, Panel, NavType
  <2>2. Panel(NavTo(nav, Target(nav.at, stored)))
    BY <2>1, NavToLemma DEF Inv
  <2>3. Panel(nav')
    BY <1>1, <2>2, ShowRootLemma DEF WindowLoad
  <2>4. QED
    BY <1>1, <2>1, <2>3, PanelLemma DEF WindowLoad
<1>2. CASE ScrollEnds
  <2> DEFINE s == Head(nav.scrolls)
             t == [nav EXCEPT !.scrolls = Tail(@), !.busy = FALSE]
  <2>1. nav.scrolls # <<>>
    BY <1>2 DEF ScrollEnds
  <2>2. Panel(t) /\ OnPage(t.at, s.to)
    BY <2>1, ScrollLemma DEF Inv
  <2>3. \/ MoveTo(t, s.to)
        \/ nav' = t /\ UNCHANGED aim
    BY <1>2, Zenon DEF ScrollEnds
  <2> HIDE DEF t, s
  <2>4. Panel(nav') /\ aim' \in Urls
    BY <2>2, <2>3, MoveToLemma DEF Inv
  <2>5. QED
    BY <1>2, <2>4, PanelLemma DEF ScrollEnds, Inv
<1>3. CASE PollEnds
  <2>1. Panel(nav')
    BY <1>3, SmallLemma DEF PollEnds, Inv
  <2>2. QED
    BY <1>3, <2>1, PanelLemma DEF PollEnds, Inv
<1>4. ASSUME NEW r, ScriptArrives(r)
      PROVE  Inv'
  <2> DEFINE t == [nav EXCEPT !.requests = @ (-) SetToBag({r})]
  <2>1. r \in Request /\ Panel(t)
    BY <1>4, ArrivalLemma DEF ScriptArrives, Inv
  <2>2. nav' = OnLoad(t, r)
    BY <1>4 DEF ScriptArrives
  <2> HIDE DEF t
  <2>3. Panel(nav')
    BY <2>1, <2>2, OnLoadLemma
  <2>4. QED
    BY <1>4, <2>3, PanelLemma DEF ScriptArrives, Inv
<1>5. ASSUME NEW n \in Tree, SlideEnds(n)
      PROVE  Inv'
  <2> DEFINE rest == Tail(nav.slides[n])
             sh == IF Head(nav.slides[n]) = "up" THEN nav.shown \ {n}
                                                 ELSE nav.shown \cup {n}
             j == [nav EXCEPT !.slides[n] = rest, !.shown = sh]
  <2>1. nav' = j
    BY <1>5 DEF SlideEnds
  <2>2. rest \in Seq({"up", "down"}) /\ sh \in SUBSET Tree
    <3>1. nav.slides[n] \in Seq({"up", "down"}) /\ nav.slides[n] # <<>> /\ nav.shown \in SUBSET Tree
      BY <1>5 DEF SlideEnds, Inv, Panel, NavType
    <3>2. QED
      BY <3>1
  <2> HIDE DEF rest, sh
  <2>3. j \in NavType
    BY <2>2 DEF Inv, Panel, NavType
  <2>4. /\ j.scrolls = nav.scrolls /\ j.at = nav.at
        /\ j.expanded = nav.expanded /\ j.built = nav.built
    BY DEF Inv, Panel, NavType
  <2> HIDE DEF j
  <2>5. Panel(j)
    BY <2>3, <2>4 DEF Inv, Panel
  <2>6. QED
    BY <1>5, <2>1, <2>5, PanelLemma DEF SlideEnds, Inv
<1>6. QED
  BY <1>1, <1>2, <1>3, <1>4, <1>5 DEF Browser

\* What the handlers keep: the type of the panel, the open branches and the
\* button's claim about the storage.  It is inductive.
THEOREM PanelInvariant == Spec => []Inv
<1>1. Init => Inv
  BY InvInit
<1>2. Inv /\ [Next]_vars => Inv'
  <2> SUFFICES ASSUME Inv, [Next]_vars PROVE Inv'
    OBVIOUS
  <2>1. CASE UNCHANGED vars
    BY <2>1 DEF Inv, Panel, OnPage, vars
  <2>2. QED
    BY <2>1, ReaderLemma, BrowserLemma DEF Next
<1>3. QED
  BY <1>1, <1>2, PTL DEF Spec

\* The panel, the storage and what is under way keep their types, for any
\* manual.
THEOREM PanelTypeCorrect == Spec => []TypeOK
<1>1. Inv => TypeOK
  <2> SUFFICES ASSUME Inv PROVE TypeOK
    OBVIOUS
  <2>1. BagToSet(nav.requests) \subseteq Request
    BY DEF Inv, Panel, NavType, RequestBags, BagToSet
  <2>2. nav.built \in [Tree -> Nat]
    BY DEF Inv, Panel, NavType
  <2>3. /\ nav.at \in Urls /\ nav.have \subseteq Lazy
        /\ nav.expanded \cup nav.shown \cup nav.selected \subseteq Tree
        /\ {nav.polling, nav.busy} \subseteq BOOLEAN
    BY DEF Inv, Panel, NavType
  <2>4. QED
    BY <2>1, <2>2, <2>3, Zenon DEF Inv, TypeOK
<1>2. QED
  BY <1>1, PanelInvariant, PTL

\* However many handlers wait for the script of a branch, its items are
\* inserted once (childrenVisited), and an expanded node has its items.
THEOREM BranchesAlwaysBuiltOnce == Spec => []BuiltOnce
<1>1. Inv => BuiltOnce
  <2> SUFFICES ASSUME Inv, NEW n \in Tree
               PROVE  nav.built[n] <= 1 /\ (n \in nav.expanded => nav.built[n] = 1)
    BY DEF BuiltOnce
  <2>1. nav.built[n] \in {0, 1}
    BY DEF Inv, Panel, NavType
  <2>2. QED
    BY <2>1 DEF Inv, Panel
<1>2. QED
  BY <1>1, PanelInvariant, PTL

\* The sync button tells whether a link is stored, across pages and hashes.
THEOREM SyncAlwaysStored == Spec => []SyncIsStored
<1>1. Inv => SyncIsStored
  BY DEF Inv, SyncIsStored
<1>2. QED
  BY <1>1, PanelInvariant, PTL

-----------------------------------------------------------------------------
(* Whatever polls for a selection has a reason.                            *)

\* A script that leads on to the item at the end of o.breadcrumbs: the one of
\* a node on the way to it, or of the item itself.
OnWay(t, n) == \E k \in 0..(Len(t.crumbs) - 1) : n = SubSeq(t.crumbs, 1, k)

LeadsOn(t, r) ==
  \/ r.kind = "index"
  \/ r.kind = "show" /\ OnWay(t, r.node)
  \/ r.kind = "retry" /\ OnWay(t, Parent(r.node))

Reason(t) == \E r \in BagToSet(t.requests) : LeadsOn(t, r)

\* Nothing has been navigated to in this page.
Untouched(t) ==
  t.crumbs = <<>> /\ ~t.polling /\ \A r \in BagToSet(t.requests) : r.kind = "expand"

Led(t) == t.crumbs \in Tree /\ (t.selected # {} \/ Reason(t))

Rests(t) == Led(t) \/ Untouched(t)

\* What a function that follows the way may do.
Grows(t, x) ==
  /\ x.crumbs = t.crumbs /\ t.selected \subseteq x.selected
  /\ BagToSet(t.requests) \subseteq BagToSet(x.requests)

\* A node of the tree is reached through nodes with children.
LEMMA WayLemma ==
  ASSUME NEW n \in Tree, NEW k \in 0..Len(n)
  PROVE  SubSeq(n, 1, k) \in Tree /\ (k < Len(n) => SubSeq(n, 1, k) \in Inner)
<1>1. n \in Seq(Nat) /\ Len(n) \in Nat
  BY TreeAssumption
<1> DEFINE H == {d \in Nat : d <= Len(n) => SubSeq(n, 1, Len(n) - d) \in Tree}
<1>2. 0 \in H
  <2>1. SubSeq(n, 1, Len(n) - 0) = n
    BY <1>1
  <2> QED
    BY <2>1
<1>3. ASSUME NEW j \in 1..Len(n), SubSeq(n, 1, j) \in Tree
      PROVE  /\ SubSeq(n, 1, j - 1) \in Inner
             /\ SubSeq(n, 1, j - 1) \in Tree
  <2> DEFINE c == SubSeq(n, 1, j)
             p == SubSeq(n, 1, j - 1)
  <2>1. c \in Seq(Nat) /\ Len(c) = j /\ c # <<>>
    BY <1>1
  <2>2. Parent(c) = p
    <3>1. SubSeq(c, 1, j - 1) = p
      BY <1>1
    <3> QED
      BY <2>1, <3>1 DEF Parent
  <2>3. p \in Tree
    BY <1>3, <2>1, <2>2, TreeAssumption
  <2>4. c \in Children(p)
    BY <1>3, <2>1, <2>2 DEF Children, Parent
  <2> QED
    BY <2>3, <2>4 DEF Inner
<1>4. ASSUME NEW d \in Nat, d \in H PROVE d + 1 \in H
  <2> SUFFICES ASSUME d + 1 <= Len(n) PROVE SubSeq(n, 1, Len(n) - (d + 1)) \in Tree
    OBVIOUS
  <2>1. Len(n) - d \in 1..Len(n) /\ (Len(n) - d) - 1 = Len(n) - (d + 1) /\ d <= Len(n)
    BY <1>1
  <2>2. SubSeq(n, 1, Len(n) - d) \in Tree
    BY <1>4, <2>1
  <2>3. SubSeq(n, 1, (Len(n) - d) - 1) \in Tree
    BY <1>3, <2>1, <2>2
  <2> QED
    BY <2>1, <2>3
<1>5. Nat \subseteq H
  <2> HIDE DEF H
  <2> QED
    BY <1>2, <1>4, Induction
<1>6. \A j \in 0..Len(n) : SubSeq(n, 1, j) \in Tree
  <2> SUFFICES ASSUME NEW j \in 0..Len(n) PROVE SubSeq(n, 1, j) \in Tree
    OBVIOUS
  <2>1. Len(n) - j \in Nat /\ Len(n) - j <= Len(n) /\ Len(n) - (Len(n) - j) = j
    BY <1>1
  <2>2. Len(n) - j \in H
    BY <1>5, <2>1
  <2> QED
    BY <2>1, <2>2
<1>7. k < Len(n) => SubSeq(n, 1, k) \in Inner
  <2> SUFFICES ASSUME k < Len(n) PROVE SubSeq(n, 1, k) \in Inner
    OBVIOUS
  <2>1. k + 1 \in 1..Len(n) /\ k + 1 \in 0..Len(n) /\ (k + 1) - 1 = k
    BY <1>1
  <2>2. SubSeq(n, 1, k + 1) \in Tree
    BY <1>6, <2>1
  <2>3. SubSeq(n, 1, (k + 1) - 1) \in Inner
    BY <1>3, <2>1, <2>2
  <2> QED
    BY <2>1, <2>3
<1> QED
  BY <1>6, <1>7

\* What each function of the panel leaves of the selection, the way and the
\* scripts under way.
LEMMA GetScriptGrows ==
  ASSUME NEW t, Panel(t), NEW r
  PROVE  LET x == GetScript(t, r)
         IN  /\ Grows(t, x) /\ BagToSet(x.requests) = BagToSet(t.requests) \cup {r}
             /\ x.selected = t.selected /\ x.polling = t.polling
<1> DEFINE more == t.requests (+) SetToBag({r})
<1>1. BagToSet(more) = BagToSet(t.requests) \cup {r}
  BY DEF BagToSet, SetToBag, (+)
<1> HIDE DEF more
<1>2. GetScript(t, r) = [t EXCEPT !.requests = more]
  BY DEF GetScript, more
<1> QED
  BY <1>1, <1>2 DEF Grows, Panel, NavType

LEMMA OpenGrows ==
  ASSUME NEW t, Panel(t), NEW ns
  PROVE  LET x == Open(t, ns)
         IN  /\ x.crumbs = t.crumbs /\ x.selected = t.selected /\ x.polling = t.polling
             /\ x.requests = t.requests /\ x.have = t.have /\ x.at = t.at
BY DEF Open, Panel, NavType

LEMMA ExpandNodeGrows ==
  ASSUME NEW t, Panel(t), NEW n, NEW imm
  PROVE  LET x == ExpandNode(t, n, imm)
         IN  /\ Grows(t, x) /\ x.selected = t.selected /\ x.polling = t.polling
             /\ \A r \in BagToSet(x.requests) :
                  r \in BagToSet(t.requests) \/ r.kind = "expand"
<1> DEFINE x == ExpandNode(t, n, imm)
<1>1. CASE x = t
  BY <1>1 DEF Grows
<1>2. CASE x = GetScript(t, [kind |-> "expand", node |-> n, imm |-> imm])
  <2> DEFINE r == [kind |-> "expand", node |-> n, imm |-> imm]
  <2>1. r.kind = "expand" /\ x = GetScript(t, r)
    BY <1>2
  <2> HIDE DEF x, r
  <2>2. /\ Grows(t, x) /\ x.selected = t.selected /\ x.polling = t.polling
        /\ BagToSet(x.requests) = BagToSet(t.requests) \cup {r}
    BY <2>1, GetScriptGrows
  <2> QED
    BY <2>1, <2>2 DEF x
<1>3. CASE x = Open(t, {n})
  BY <1>3, OpenGrows DEF Grows
<1>4. CASE x = [Open(t, {n}) EXCEPT !.shown = t.shown, !.slides[n] = Append(@, "down")]
  <2> DEFINE o == Open(t, {n})
  <2>1. /\ o.crumbs = t.crumbs /\ o.selected = t.selected /\ o.polling = t.polling
        /\ o.requests = t.requests
    BY OpenGrows
  <2>2. /\ x.crumbs = o.crumbs /\ x.selected = o.selected /\ x.polling = o.polling
        /\ x.requests = o.requests
    BY <1>4 DEF Open, Panel, NavType
  <2> HIDE DEF x, o
  <2> QED
    BY <2>1, <2>2 DEF Grows, x
<1> QED
  BY <1>1, <1>2, <1>3, <1>4 DEF ExpandNode

\* What is selected: the built items of the anchor in this page, if there are
\* any, or else the item that was reached.
LEMMA SelectOutcome ==
  ASSUME NEW t, Panel(t), NEW h, NEW ns \in SUBSET Tree
  PROVE  LET as == IF h = NoHash THEN {} ELSE ItemsOf(t, Url(t.at.page, h))
             x  == SelectAndHighlight(t, h, ns)
         IN  /\ x.selected = t.selected \cup (IF as # {} THEN as ELSE ns)
             /\ x.at = t.at /\ x.built = t.built
             /\ x.crumbs = t.crumbs /\ x.requests = t.requests
<1> DEFINE as == IF h = NoHash THEN {} ELSE ItemsOf(t, Url(t.at.page, h))
           x == SelectAndHighlight(t, h, ns)
           y == HighlightAnchor([t EXCEPT !.selected = t.selected \cup as])
           z == [t EXCEPT !.selected = t.selected \cup ns]
<1>1. /\ y.crumbs = t.crumbs /\ y.selected = t.selected \cup as
      /\ y.requests = t.requests /\ y.at = t.at /\ y.built = t.built
  BY DEF HighlightAnchor, GotoAnchor, Panel, NavType
<1>2. /\ z.crumbs = t.crumbs /\ z.selected = t.selected \cup ns
      /\ z.requests = t.requests /\ z.at = t.at /\ z.built = t.built
  BY DEF Panel, NavType
<1>3. x = ShowRoot(IF as # {} THEN y ELSE z)
  BY DEF SelectAndHighlight
<1> HIDE DEF as, y, z, x
<1>4. ASSUME NEW w
      PROVE  /\ ShowRoot(w).crumbs = w.crumbs /\ ShowRoot(w).selected = w.selected
             /\ ShowRoot(w).requests = w.requests /\ ShowRoot(w).at = w.at
             /\ ShowRoot(w).built = w.built
  BY DEF ShowRoot
<1> QED
  BY <1>1, <1>2, <1>3, <1>4 DEF x, as

LEMMA SelectGrows ==
  ASSUME NEW t, Panel(t), NEW h, NEW ns \in SUBSET Tree
  PROVE  LET x == SelectAndHighlight(t, h, ns)
         IN  Grows(t, x) /\ (ns # {} => x.selected # {})
BY SelectOutcome DEF Grows

\* On the way showNode does not get lost: it stops where a script has to arrive
\* first, or has opened all the nodes above the item at the end.
LEMMA OnWayLemma ==
  ASSUME NEW t, Panel(t), NEW node \in Seq(Nat), t.crumbs \in Tree, OnWay(t, node)
  PROVE  LET next == NextNode(t, node)
         IN  /\ Short(t, node) => Awaited(t, next) /\ OnWay(t, next)
             /\ ~Short(t, node) => /\ ~Lost(t, node) /\ next = t.crumbs /\ next # <<>>
                                   /\ OnWay(t, Parent(next))
<1> DEFINE a     == Len(node)
           end   == Len(t.crumbs)
           stop  == StopsAt(t, node)
           last  == LastStep(t, node)
           next  == NextNode(t, node)
<1>1. a \in Nat /\ end \in Nat /\ t.crumbs \in Seq(Nat)
  BY DEF Panel, NavType
<1>2. /\ last \in Nat /\ a <= last /\ stop \in a..(last + 1)
      /\ Short(t, node) => ~Ready(t, next)
  BY StopsLemma
<1>3. PICK k \in 0..(end - 1) : node = SubSeq(t.crumbs, 1, k)
  BY DEF OnWay
<1>4. a = k /\ k < end /\ last = end - 1
  <2>1. Len(SubSeq(t.crumbs, 1, k)) = k
    BY <1>1, <1>3
  <2> QED
    BY <1>1, <1>3, <2>1 DEF LastStep
<1>5. \A i \in k..end : Trail(t, node, i) = SubSeq(t.crumbs, 1, i)
  <2> SUFFICES ASSUME NEW i \in k..end PROVE Trail(t, node, i) = SubSeq(t.crumbs, 1, i)
    OBVIOUS
  <2>1. Trail(t, node, i) = SubSeq(t.crumbs, 1, k) \o SubSeq(t.crumbs, k + 1, i)
    BY <1>3, <1>4 DEF Trail
  <2> DEFINE c == t.crumbs
  <2>2. c \in Seq(Nat) /\ k \in 0..Len(c) /\ i \in k..Len(c)
    BY <1>1, <1>3
  <2> HIDE DEF c
  <2>3. SubSeq(c, 1, k) \o SubSeq(c, k + 1, i) = SubSeq(c, 1, i)
    BY <2>2, SMTT(20)
  <2> QED
    BY <2>1, <2>3 DEF c
<1> HIDE DEF a, last, stop
<1>6. stop \in k..end
  BY <1>2, <1>3, <1>4
<1>7. next = SubSeq(t.crumbs, 1, stop)
  BY <1>5, <1>6 DEF NextNode, stop
<1> HIDE DEF next
<1>8. stop \in 0..end
  BY <1>3, <1>6
<1>9. next \in Tree /\ (stop < end => next \in Inner)
  BY <1>7, <1>8, WayLemma
<1>10. CASE Short(t, node)
  <2>1. stop < end /\ stop \in 0..(end - 1)
    BY <1>1, <1>4, <1>8, <1>10 DEF Short, stop, last
  <2>2. OnWay(t, next)
    BY <1>7, <2>1 DEF OnWay
  <2> QED
    BY <1>2, <1>9, <1>10, <2>1, <2>2 DEF Ready, next
<1>11. CASE ~Short(t, node)
  <2>1. stop = end /\ end - 1 \in 0..(end - 1)
    BY <1>1, <1>3, <1>4, <1>8, <1>11 DEF Short, stop, last
  <2>2. next = t.crumbs
    BY <1>1, <1>7, <2>1
  <2>3. OnWay(t, Parent(next))
    BY <2>1, <2>2 DEF OnWay, Parent
  <2>4. ~Lost(t, node)
    BY <1>1, <1>9, <2>1 DEF Lost, stop, next
  <2>5. next # <<>>
    BY <1>1, <1>3, <2>1, <2>2
  <2> QED
    BY <1>11, <2>2, <2>3, <2>4, <2>5 DEF next
<1> QED
  BY <1>10, <1>11

\* showNode goes on with what is selected or under way, and on the way to the
\* item it selects or requests the script that leads on.
LEMMA ShowNodeLeads ==
  ASSUME NEW t, Panel(t), NEW node \in Seq(Nat), NEW h \in Hashes
  PROVE  /\ Grows(t, ShowNode(t, node, h))
         /\ t.crumbs \in Tree /\ OnWay(t, node) => Led(ShowNode(t, node, h))
<1> DEFINE a     == Len(node)
           end   == Len(t.crumbs)
           stop  == StopsAt(t, node)
           last  == LastStep(t, node)
           next  == NextNode(t, node)
           way   == WayTo(t, node)
           res   == ShowNode(t, node, h)
<1>1. a \in Nat /\ end \in Nat /\ t.crumbs \in Seq(Nat)
  BY DEF Panel, NavType
<1>2. /\ last \in Nat /\ a <= last /\ stop \in a..(last + 1)
      /\ Short(t, node) => ~Ready(t, next)
      /\ Panel(way)
  BY StopsLemma
<1>3. Grows(t, way)
  BY OpenGrows DEF WayTo, Grows
<1>4. \A p, q, r : Grows(p, q) /\ Grows(q, r) => Grows(p, r)
  BY DEF Grows
<1>5. ASSUME t.crumbs \in Tree, OnWay(t, node)
      PROVE  /\ Short(t, node) => Awaited(t, next) /\ OnWay(t, next)
             /\ ~Short(t, node) => ~Lost(t, node) /\ OnWay(t, Parent(next))
  BY <1>5, OnWayLemma
<1> HIDE DEF a, end, stop, last, next, way, res
<1>6. ASSUME NEW k \in {"show", "retry"}, res = GetScript(way, Script(k, next, h)),
             k = "show" => Short(t, node), k = "retry" => ~Short(t, node)
      PROVE  /\ Grows(t, res)
             /\ t.crumbs \in Tree /\ OnWay(t, node) => Led(res)
  <2> DEFINE r == Script(k, next, h)
  <2>1. r.kind = k /\ r.node = next
    BY DEF Script
  <2> HIDE DEF r
  <2>2. Grows(way, res) /\ r \in BagToSet(res.requests)
    BY <1>2, <1>6, GetScriptGrows DEF r
  <2>3. Grows(t, res)
    BY <1>3, <1>4, <2>2
  <2>4. t.crumbs \in Tree /\ OnWay(t, node) => LeadsOn(res, r)
    BY <1>5, <1>6, <2>1, <2>3 DEF LeadsOn, OnWay, Grows
  <2> QED
    BY <2>2, <2>3, <2>4 DEF Led, Reason, Grows
<1>7. ASSUME NEW x, Panel(x), Grows(t, x), NEW ns \in SUBSET Tree,
             res = SelectAndHighlight(x, h, ns)
      PROVE  Grows(t, res) /\ (ns # {} => res.selected # {})
  BY <1>4, <1>7, SelectGrows
<1>8. CASE Short(t, node) /\ Awaited(t, next) /\ res = GetScript(way, Script("show", next, h))
  BY <1>6, <1>8 DEF res
<1>9. CASE Short(t, node) /\ ~Awaited(t, next) /\ res = SelectAndHighlight(way, h, {})
  BY <1>2, <1>3, <1>5, <1>7, <1>9 DEF res
<1>10. CASE ~Short(t, node) /\ Lost(t, node) /\ res = way
  BY <1>3, <1>5, <1>10 DEF res
<1>11. CASE /\ ~Short(t, node) /\ ~Lost(t, node) /\ Awaited(t, next)
            /\ res = GetScript(way, Script("retry", next, h))
  BY <1>6, <1>11 DEF res
<1>12. CASE /\ ~Short(t, node) /\ ~Lost(t, node) /\ ~Awaited(t, next)
            /\ \E x \in {way, ExpandNode(way, next, TRUE)} :
                 res = SelectAndHighlight(x, h, {next})
  <2>1. PICK x \in {way, ExpandNode(way, next, TRUE)} : res = SelectAndHighlight(x, h, {next})
    BY <1>12
  <2>2. next \in Tree
    BY <1>12 DEF Lost, next
  <2>3. /\ Panel(ExpandNode(way, next, TRUE))
        /\ Grows(way, ExpandNode(way, next, TRUE))
    BY <1>2, <2>2, ExpandNodeLemma, ExpandNodeGrows
  <2> DEFINE y == ExpandNode(way, next, TRUE)
  <2> HIDE DEF y
  <2>4. Panel(x) /\ Grows(t, x) /\ {next} \in SUBSET Tree
    <3>1. Grows(t, y) /\ Panel(y)
      BY <1>3, <1>4, <2>3 DEF y
    <3>2. x \in {way, y}
      BY <2>1 DEF y
    <3> QED
      BY <1>2, <1>3, <2>2, <3>1, <3>2
  <2>5. Grows(t, res) /\ res.selected # {}
    BY <1>7, <2>1, <2>4
  <2> QED
    BY <2>5 DEF Led, Grows, res
<1>13. Goes(t, node, h)
  BY GoesLemma
<1>14. QED
  BY <1>8, <1>9, <1>10, <1>11, <1>12, <1>13 DEF Goes, next, way, res

LEMMA GrowsLemma ==
  ASSUME NEW t, NEW x, Grows(t, x), Led(t)
  PROVE  Led(x)
BY DEF Grows, Led, Reason, LeadsOn, OnWay

\* What leaves the selection, the way and the scripts alone keeps the reason.
LEMMA StaysLemma ==
  ASSUME NEW t, NEW x, x.crumbs = t.crumbs, x.selected = t.selected,
         x.requests = t.requests, x.polling => t.polling, Rests(t)
  PROVE  Rests(x)
<1>1. Grows(t, x)
  BY DEF Grows
<1>2. Untouched(t) => Untouched(x)
  BY DEF Untouched
<1>3. QED
  BY <1>1, <1>2, GrowsLemma DEF Rests

LEMMA FollowLemma ==
  ASSUME NEW t, Panel(t), NEW node \in Seq(Nat), NEW h \in Hashes,
         Led(t) \/ (t.crumbs \in Tree /\ OnWay(t, node))
  PROVE  Led(ShowNode(t, node, h))
BY ShowNodeLeads, GrowsLemma

\* gotoNode makes a new way, and is at its beginning.
LEMMA GotoNodeLeads ==
  ASSUME NEW t, Panel(t), NEW u \in Urls
  PROVE  Led(GotoNode(t, u))
<1> DEFINE c == <<0>> \o Lookup(Chunk[u], u)
           x == [t EXCEPT !.crumbs = c]
<1>1. c \in Tree
  BY LookupLemma
<1>2. Len(c) \in Nat \ {0} /\ c \in Seq(Nat)
  BY LookupLemma
<1> HIDE DEF c
<1>3. Panel(x) /\ x.crumbs = c
  <2>1. x.crumbs = c
    BY DEF Panel, NavType
  <2> QED
    BY <1>2, <2>1, SmallLemma
<1>4. OnWay(x, <<>>)
  <2>1. SubSeq(c, 1, 0) = <<>> /\ 0 \in 0..(Len(c) - 1)
    BY <1>2
  <2> QED
    BY <1>3, <2>1 DEF OnWay
<1>5. GotoNode(t, u) = ShowNode(x, <<>>, u.hash)
  BY DEF GotoNode, c
<1>6. u.hash \in Hashes /\ <<>> \in Seq(Nat)
  BY UrlLemma
<1> HIDE DEF x
<1>7. QED
  BY <1>1, <1>3, <1>4, <1>5, <1>6, FollowLemma

LEMMA NavToLeads ==
  ASSUME NEW t, Panel(t), NEW u \in Urls, t.crumbs \in Tree
  PROVE  Led(NavTo(t, u))
<1>1. CASE Chunk[u] \in t.chunks
  BY <1>1, GotoNodeLeads DEF NavTo
<1>2. CASE Chunk[u] \notin t.chunks
  <2> DEFINE r == [kind |-> "index", to |-> u]
             x == GetScript(t, r)
  <2>1. r.kind = "index" /\ NavTo(t, u) = x
    BY <1>2 DEF NavTo
  <2> HIDE DEF r
  <2>2. Grows(t, x) /\ r \in BagToSet(x.requests)
    BY GetScriptGrows
  <2> HIDE DEF x
  <2>3. QED
    BY <2>1, <2>2 DEF Led, Reason, LeadsOn, Grows
<1>3. QED
  BY <1>1, <1>2

LEMMA OnHashChangeRests ==
  ASSUME NEW t, Panel(t), NEW link \in Urls \cup {NoLink}, Rests(t)
  PROVE  Rests(OnHashChange(t, link))
<1> DEFINE clear == [t EXCEPT !.selected = {}]
           v == Target(t.at, link)
<1>1. t.at \in Urls /\ v \in Urls
  BY TargetLemma DEF Panel, NavType
<1>2. Panel(clear) /\ clear.crumbs = t.crumbs
  <2>1. clear.crumbs = t.crumbs
    BY DEF Panel, NavType
  <2> QED
    BY <2>1, SmallLemma
<1>3. t.crumbs \in Tree
  BY TreeAssumption DEF Rests, Led, Untouched
<1>4. OnHashChange(t, link) \in {NavTo(t, v), NavTo(clear, v), t}
  BY DEF OnHashChange
<1> HIDE DEF clear, v
<1>5. Led(NavTo(t, v)) /\ Led(NavTo(clear, v))
  BY <1>1, <1>2, <1>3, NavToLeads
<1>6. QED
  BY <1>4, <1>5 DEF Rests

\* A script that arrives takes nothing away but itself as a reason, and what
\* waited for it goes on.  o is the panel before it arrived, t without it.
LEMMA OnLoadRests ==
  ASSUME NEW o, Rests(o), NEW t, Panel(t), NEW r \in Request, r \in BagToSet(o.requests),
         t.crumbs = o.crumbs, t.selected = o.selected, t.polling = o.polling,
         BagToSet(t.requests) \subseteq BagToSet(o.requests),
         BagToSet(o.requests) \ {r} \subseteq BagToSet(t.requests)
  PROVE  Rests(OnLoad(t, r))
<1>1. LeadsOn(o, r) <=> LeadsOn(t, r)
  BY DEF LeadsOn, OnWay
<1>2. Led(o) => Led(t) \/ (t.crumbs \in Tree /\ LeadsOn(t, r))
  BY DEF Led, Reason, LeadsOn, OnWay
<1>3. CASE r \in [kind : {"index"}, to : Urls]
  <2>1. Panel([t EXCEPT !.chunks = t.chunks \cup {Chunk[r.to]}])
    <3>1. t.chunks \cup {Chunk[r.to]} \in SUBSET Nat
      BY <1>3, LinkAssumption, SMTT(30) DEF Panel, NavType
    <3> QED
      BY <3>1, SmallLemma
  <2>2. OnLoad(t, r) = GotoNode([t EXCEPT !.chunks = t.chunks \cup {Chunk[r.to]}], r.to)
    BY <1>3 DEF OnLoad
  <2>3. r.to \in Urls
    BY <1>3
  <2>4. QED
    BY <2>1, <2>2, <2>3, GotoNodeLeads DEF Rests
<1>4. CASE r \in [kind : {"expand"}, node : Lazy, imm : BOOLEAN]
  <2> DEFINE x == [t EXCEPT !.have = @ \cup {r.node}]
             y == ExpandNode(x, r.node, r.imm)
  <2>1. OnLoad(t, r) = y /\ r.kind = "expand" /\ r.node \in Lazy
    BY <1>4 DEF OnLoad
  <2>2. /\ Panel(x) /\ x.crumbs = t.crumbs /\ x.selected = t.selected
        /\ x.requests = t.requests /\ x.polling = t.polling
    BY <2>1, LoadedLemma, ZenonT(30) DEF Loaded
  <2> HIDE DEF x
  <2>3. /\ Grows(x, y) /\ y.selected = x.selected /\ y.polling = x.polling
        /\ \A q \in BagToSet(y.requests) :
             q \in BagToSet(x.requests) \/ q.kind = "expand"
    BY <2>2, ExpandNodeGrows
  <2> HIDE DEF y
  <2>4. CASE Led(o)
    <3>1. Led(t)
      BY <1>2, <2>1, <2>4 DEF LeadsOn
    <3>2. Grows(t, y)
      BY <2>2, <2>3 DEF Grows
    <3> QED
      BY <2>1, <3>1, <3>2, GrowsLemma DEF Rests
  <2>5. CASE Untouched(o)
    BY <2>1, <2>2, <2>3, <2>5 DEF Untouched, Rests, Grows
  <2>6. QED
    BY <2>4, <2>5 DEF Rests
<1>5. CASE r \in [kind : {"show", "retry"}, node : Lazy, hash : Hashes]
  <2> DEFINE x == [t EXCEPT !.have = @ \cup {r.node}]
             y == [t EXCEPT !.have = @ \cup {r.node}, !.expanded = @ \ {Parent(r.node)}]
  <2>1. r.node \in Lazy /\ r.node \in Seq(Nat) /\ r.hash \in Hashes
        /\ Parent(r.node) \in Seq(Nat) /\ r.kind \in {"show", "retry"}
    BY <1>5, NodeLemma
  <2>2. r.kind = "show" => OnLoad(t, r) = ShowNode(x, r.node, r.hash)
    BY DEF OnLoad
  <2>3. r.kind = "retry" => OnLoad(t, r) = ShowNode(y, Parent(r.node), r.hash)
    BY DEF OnLoad
  <2>4. /\ Panel(x) /\ Panel(y)
        /\ \A z \in {x, y} : Loaded(t, r.node, z)
    BY <2>1, LoadedLemma
  <2> HIDE DEF x, y
  <2>5. Led(o)
    BY <2>1 DEF Rests, Untouched
  <2>6. ASSUME NEW z \in {x, y}, Led(t) PROVE Led(z)
    <3>1. Grows(t, z)
      BY <2>4 DEF Grows, Loaded
    <3> QED
      BY <2>6, <3>1, GrowsLemma
  <2>7. ASSUME NEW z \in {x, y}, NEW n, OnWay(t, n) PROVE OnWay(z, n)
    BY <2>4, <2>7 DEF OnWay, Loaded
  <2>8. CASE r.kind = "show"
    <3>1. Led(x) \/ (x.crumbs \in Tree /\ OnWay(x, r.node))
      BY <1>2, <2>4, <2>5, <2>6, <2>7, <2>8 DEF LeadsOn, Loaded
    <3> QED
      BY <2>1, <2>2, <2>4, <2>8, <3>1, FollowLemma DEF Rests
  <2>9. CASE r.kind = "retry"
    <3>1. Led(y) \/ (y.crumbs \in Tree /\ OnWay(y, Parent(r.node)))
      BY <1>2, <2>4, <2>5, <2>6, <2>7, <2>9 DEF LeadsOn, Loaded
    <3> QED
      BY <2>1, <2>3, <2>4, <2>9, <3>1, FollowLemma DEF Rests
  <2>10. QED
    BY <2>1, <2>8, <2>9
<1>6. QED
  BY <1>3, <1>4, <1>5 DEF Request

LEMMA RemainLemma ==
  ASSUME NEW t, Panel(t), NEW r, BagIn(r, t.requests)
  PROVE  LET x == [t EXCEPT !.requests = @ (-) SetToBag({r})]
         IN  /\ x.crumbs = t.crumbs /\ x.selected = t.selected /\ x.polling = t.polling
             /\ BagToSet(x.requests) \subseteq BagToSet(t.requests)
             /\ BagToSet(t.requests) \ {r} \subseteq BagToSet(x.requests)
<1> DEFINE less == t.requests (-) SetToBag({r})
           x == [t EXCEPT !.requests = less]
<1>1. PICK R \in SUBSET Request : t.requests \in [R -> Nat \ {0}]
  BY DEF Panel, NavType, RequestBags
<1>2. /\ BagToSet(less) \subseteq BagToSet(t.requests)
      /\ BagToSet(t.requests) \ {r} \subseteq BagToSet(less)
  BY <1>1 DEF BagToSet, SetToBag, (-)
<1> HIDE DEF less
<1>3. /\ x.crumbs = t.crumbs /\ x.selected = t.selected /\ x.polling = t.polling
      /\ x.requests = less
  BY DEF Panel, NavType
<1>4. QED
  BY <1>2, <1>3 DEF less

LEMMA MoveToRests ==
  ASSUME Inv, NEW t, Panel(t), Rests(t), NEW h, OnPage(t.at, h), MoveTo(t, h)
  PROVE  Rests(nav')
<1> DEFINE x == [t EXCEPT !.at = Url(t.at.page, h)]
<1>1. nav' = OnHashChange(x, stored)
  BY DEF MoveTo
<1>2. /\ Panel(x) /\ x.crumbs = t.crumbs /\ x.selected = t.selected
      /\ x.requests = t.requests /\ x.polling = t.polling
  BY PlaceLemma
<1> HIDE DEF x
<1>3. Rests(x)
  BY <1>2, StaysLemma
<1>4. QED
  BY <1>1, <1>2, <1>3, OnHashChangeRests DEF Inv

LEMMA FreshRests ==
  ASSUME NEW u
  PROVE  Rests(FreshNav(u))
<1>1. BagToSet(EmptyBag) = {}
  BY DEF BagToSet, EmptyBag, SetToBag
<1>2. QED
  BY <1>1 DEF FreshNav, Rests, Untouched

LEMMA ReaderRests ==
  ASSUME Inv, Rests(nav), Reader
  PROVE  Rests(nav')
<1>1. CASE HashChanges
  <2>1. PICK u \in Urls : u.page = nav.at.page /\ MoveTo(nav, u.hash)
    BY <1>1 DEF HashChanges
  <2>2. OnPage(nav.at, u.hash)
    BY <2>1, UrlLemma DEF OnPage
  <2>3. QED
    BY <2>1, <2>2, MoveToRests DEF Inv
<1>2. CASE OpenPage
  BY <1>2, FreshRests DEF OpenPage, LoadPage
<1>3. CASE ClickSync
  <2>1. nav' = nav
    BY <1>3 DEF ClickSync
  <2>2. QED
    BY <2>1
<1>4. ASSUME NEW n \in Tree, ClickArrow(n)
      PROVE  Rests(nav')
  <2>1. CASE n \in nav.expanded
    <3> DEFINE j == [nav EXCEPT !.slides[n] = Append(@, "up"), !.expanded = @ \ {n}]
    <3>1. nav' = j
      BY <1>4, <2>1 DEF ClickArrow
    <3>2. /\ j.crumbs = nav.crumbs /\ j.selected = nav.selected
          /\ j.requests = nav.requests /\ j.polling = nav.polling
      BY DEF Inv, Panel, NavType
    <3> HIDE DEF j
    <3>3. QED
      BY <3>1, <3>2, StaysLemma
  <2>2. CASE n \notin nav.expanded
    <3> DEFINE j == ExpandNode(nav, n, FALSE)
    <3>1. nav' = j
      BY <1>4, <2>2 DEF ClickArrow
    <3>2. /\ Grows(nav, j) /\ j.selected = nav.selected /\ j.polling = nav.polling
          /\ \A r \in BagToSet(j.requests) :
               r \in BagToSet(nav.requests) \/ r.kind = "expand"
      BY ExpandNodeGrows DEF Inv
    <3> HIDE DEF j
    <3>3. Led(nav) => Led(j)
      BY <3>2, GrowsLemma
    <3>4. Untouched(nav) => Untouched(j)
      BY <3>2 DEF Untouched, Grows
    <3>5. QED
      BY <3>1, <3>3, <3>4 DEF Rests
  <2>3. QED
    BY <2>1, <2>2
<1>5. ASSUME NEW n \in Tree, ClickItem(n)
      PROVE  Rests(nav')
  <2>1. CASE Link[n].hash # NoHash /\ Link[n].page = nav.at.page
    <3> DEFINE t == IF n \in nav.selected THEN nav ELSE [nav EXCEPT !.selected = {n}]
               j == GotoAnchor(t, Link[n].hash, TRUE)
    <3>1. nav' = j
      BY <1>5, <2>1 DEF ClickItem
    <3>2. /\ t.crumbs = nav.crumbs /\ n \in t.selected /\ DOMAIN t = DOMAIN nav
      BY DEF Inv, Panel, NavType
    <3> HIDE DEF t
    <3>3. j.crumbs = t.crumbs /\ j.selected = t.selected
      BY DEF GotoAnchor
    <3> HIDE DEF j
    <3>4. nav.crumbs \in Tree
      BY TreeAssumption DEF Rests, Led, Untouched
    <3>5. QED
      BY <3>1, <3>2, <3>3, <3>4 DEF Rests, Led
  <2>2. CASE ~(Link[n].hash # NoHash /\ Link[n].page = nav.at.page)
    BY <1>5, <2>2, FreshRests DEF ClickItem, LoadPage
  <2>3. QED
    BY <2>1, <2>2
<1>6. QED
  BY <1>1, <1>2, <1>3, <1>4, <1>5 DEF Reader

LEMMA BrowserRests ==
  ASSUME Inv, Rests(nav), Browser
  PROVE  Rests(nav')
<1>1. CASE WindowLoad
  <2> DEFINE x == NavTo(nav, Target(nav.at, stored))
             y == ShowRoot(x)
  <2>1. Target(nav.at, stored) \in Urls /\ nav.crumbs \in Tree
    BY TargetLemma, TreeAssumption DEF Inv, Panel, NavType, Rests, Led, Untouched
  <2>2. Led(x) /\ Panel(x)
    BY <2>1, NavToLeads, NavToLemma DEF Inv
  <2>3. nav' = y
    BY <1>1 DEF WindowLoad
  <2> HIDE DEF x
  <2>4. y.crumbs = x.crumbs /\ y.selected = x.selected /\ y.requests = x.requests
    BY <2>2 DEF ShowRoot, Panel, NavType
  <2> HIDE DEF y
  <2>5. Grows(x, y)
    BY <2>4 DEF Grows
  <2>6. QED
    BY <2>2, <2>3, <2>5, GrowsLemma DEF Rests
<1>2. CASE ScrollEnds
  <2> DEFINE s == Head(nav.scrolls)
             t == [nav EXCEPT !.scrolls = Tail(@), !.busy = FALSE]
  <2>1. nav.scrolls # <<>>
    BY <1>2 DEF ScrollEnds
  <2>2. /\ Panel(t) /\ OnPage(t.at, s.to)
        /\ t.crumbs = nav.crumbs /\ t.selected = nav.selected
        /\ t.requests = nav.requests /\ t.polling = nav.polling
    BY <2>1, ScrollLemma DEF Inv
  <2>3. MoveTo(t, s.to) \/ nav' = t
    BY <1>2, Zenon DEF ScrollEnds
  <2> HIDE DEF t, s
  <2>4. Rests(t)
    BY <2>2, StaysLemma
  <2>5. QED
    BY <2>2, <2>3, <2>4, MoveToRests
<1>3. CASE PollEnds
  <2> DEFINE j == [nav EXCEPT !.polling = FALSE]
  <2>1. nav' = j
    BY <1>3 DEF PollEnds
  <2>2. /\ j.crumbs = nav.crumbs /\ j.selected = nav.selected
        /\ j.requests = nav.requests /\ ~j.polling
    BY DEF Inv, Panel, NavType
  <2> HIDE DEF j
  <2>3. QED
    BY <2>1, <2>2, StaysLemma
<1>4. ASSUME NEW r, ScriptArrives(r)
      PROVE  Rests(nav')
  <2> DEFINE t == [nav EXCEPT !.requests = @ (-) SetToBag({r})]
  <2>1. BagIn(r, nav.requests) /\ nav' = OnLoad(t, r)
    BY <1>4 DEF ScriptArrives
  <2>2. r \in Request /\ Panel(t)
    BY <2>1, ArrivalLemma DEF Inv
  <2>3. /\ t.crumbs = nav.crumbs /\ t.selected = nav.selected /\ t.polling = nav.polling
        /\ BagToSet(t.requests) \subseteq BagToSet(nav.requests)
        /\ BagToSet(nav.requests) \ {r} \subseteq BagToSet(t.requests)
    BY <2>1, RemainLemma DEF Inv
  <2> HIDE DEF t
  <2>4. r \in BagToSet(nav.requests)
    BY <2>1 DEF BagIn
  <2>5. QED
    BY <2>1, <2>2, <2>3, <2>4, OnLoadRests
<1>5. ASSUME NEW n \in Tree, SlideEnds(n)
      PROVE  Rests(nav')
  <2>1. /\ nav'.crumbs = nav.crumbs /\ nav'.selected = nav.selected
        /\ nav'.requests = nav.requests /\ nav'.polling = nav.polling
    BY <1>5 DEF SlideEnds, Inv, Panel, NavType
  <2>2. QED
    BY <2>1, StaysLemma
<1>6. QED
  BY <1>1, <1>2, <1>3, <1>4, <1>5 DEF Browser

\* showRoot's timer does not poll for nothing: while it finds no selected item,
\* a script is under way that will go on to a selection, whatever the reader
\* does and in whatever order the scripts arrive.
THEOREM AlwaysPollsWithReason == Spec => []PollsWithReason
<1>1. Init => Rests(nav)
  BY FreshRests DEF Init
<1>2. Inv /\ Rests(nav) /\ [Next]_vars => Rests(nav)'
  <2> SUFFICES ASSUME Inv, Rests(nav), [Next]_vars PROVE Rests(nav')
    OBVIOUS
  <2>1. CASE UNCHANGED vars
    <3>1. nav' = nav
      BY <2>1 DEF vars
    <3>2. QED
      BY <3>1
  <2>2. QED
    BY <2>1, ReaderRests, BrowserRests DEF Next
<1>3. Rests(nav) => PollsWithReason
  BY DEF Rests, Led, Untouched, Reason, LeadsOn, PollsWithReason
<1>4. QED
  BY <1>1, <1>2, <1>3, PanelInvariant, PTL DEF Spec

-----------------------------------------------------------------------------
(* For a reader who waits, the arrows tell which lists are shown.          *)

\* No list is sliding, no animation will set the location, and but for the
\* nodes of N every arrow tells whether its list is shown.
NoSlides(t)  == \A n \in Tree : t.slides[n] = <<>>
NoUpdates(t) == \A i \in DOMAIN t.scrolls : ~t.scrolls[i].update
Agrees(t, N) == \A n \in Tree \ ({<<>>} \cup N) : n \in t.expanded <=> n \in t.shown

Still(t) == NoSlides(t) /\ NoUpdates(t) /\ Agrees(t, {})

\* One script at most is under way.  The icon that a retry takes back is that
\* of a node that it will open again.
Retries(t, r) == r.kind = "retry" => ~Awaited(t, Parent(r.node))

Alone(t) ==
  \/ t.requests = EmptyBag
  \/ \E r \in Request : t.requests = SetToBag({r}) /\ Retries(t, r)

Calm(t) == Still(t) /\ Alone(t)

\* The list of one node is sliding, to where its arrow says.
Turning(t) ==
  /\ t.requests = EmptyBag /\ NoUpdates(t)
  /\ \E n \in Tree \ {<<>>}, d \in {"up", "down"} :
       /\ t.slides[n] = <<d>> /\ \A m \in Tree \ {n} : t.slides[m] = <<>>
       /\ n \in t.expanded <=> d = "down"
       /\ Agrees(t, {n})

\* The page is scrolling to the link that was clicked on.
Scrolling(t) ==
  NoSlides(t) /\ Agrees(t, {}) /\ t.requests = EmptyBag /\ Len(t.scrolls) = 1

Orderly ==
  reader # "hasty" =>
    /\ Calm(nav) \/ Turning(nav) \/ Scrolling(nav)
    /\ ~loaded => Idle(nav)

-----------------------------------------------------------------------------
(* Sequences.                                                              *)

LEMMA EqualLemma ==
  ASSUME NEW S, NEW p \in Seq(S), NEW q \in Seq(S),
         Len(p) = Len(q), \A i \in 1..Len(p) : p[i] = q[i]
  PROVE  p = q
OBVIOUS

LEMMA OneLemma ==
  ASSUME NEW e
  PROVE  /\ <<e>> # <<>> /\ Append(<<>>, e) = <<e>>
         /\ Head(<<e>>) = e /\ Tail(<<e>>) = <<>>
<1>1. <<e>> # <<>>
  OBVIOUS
<1>2. Append(<<>>, e) = <<e>>
  OBVIOUS
<1>3. Head(<<e>>) = e /\ Tail(<<e>>) = <<>>
  OBVIOUS
<1>4. QED
  BY <1>1, <1>2, <1>3

LEMMA LastLemma ==
  ASSUME NEW S, NEW q \in Seq(S), Len(q) = 1
  PROVE  Tail(q) = <<>>
<1>1. Tail(q) \in Seq(S) /\ <<>> \in Seq(S) /\ Len(Tail(q)) = 0 /\ Len(<<>>) = 0
  OBVIOUS
<1>2. \A i \in 1..0 : FALSE
  OBVIOUS
<1>3. \A i \in 1..Len(Tail(q)) : Tail(q)[i] = <<>>[i]
  BY <1>1, <1>2
<1>4. QED
  BY <1>1, <1>3, EqualLemma

-----------------------------------------------------------------------------
(* From the panel's functions to its handlers.                             *)

LEMMA StillLemma ==
  ASSUME NEW t, NEW x, Still(t), x.expanded = t.expanded, x.shown = t.shown,
         x.slides = t.slides, x.scrolls = t.scrolls
  PROVE  Still(x)
BY DEF Still, NoSlides, NoUpdates, Agrees

\* Opening nodes shows their lists and sets their arrows.
LEMMA OpenStill ==
  ASSUME NEW t, Panel(t), NEW ns \in SUBSET Tree, NEW N \in SUBSET ns,
         NoSlides(t), NoUpdates(t), Agrees(t, N)
  PROVE  LET x == Open(t, ns)
         IN  Still(x) /\ x.requests = t.requests /\ x.have = t.have
<1> DEFINE x == Open(t, ns)
<1>1. /\ x.slides = t.slides /\ x.scrolls = t.scrolls
      /\ x.expanded = t.expanded \cup ns /\ x.shown = t.shown \cup ns
      /\ x.requests = t.requests /\ x.have = t.have
  BY DEF Open, Panel, NavType
<1> HIDE DEF x
<1>2. Agrees(x, {})
  BY <1>1 DEF Agrees
<1>3. NoSlides(x) /\ NoUpdates(x)
  BY <1>1 DEF NoSlides, NoUpdates
<1>4. QED
  BY <1>1, <1>2, <1>3 DEF Still, x

LEMMA GetScriptCalm ==
  ASSUME NEW t, Panel(t), Still(t), t.requests = EmptyBag, NEW r \in Request, Retries(t, r)
  PROVE  Calm(GetScript(t, r))
<1> DEFINE x == GetScript(t, r)
           more == t.requests (+) SetToBag({r})
<1>1. more = SetToBag({r})
  BY DEF EmptyBag, SetToBag, (+)
<1> HIDE DEF more
<1>2. x = [t EXCEPT !.requests = more]
  BY DEF GetScript, more
<1>3. /\ x.requests = SetToBag({r}) /\ x.have = t.have /\ x.expanded = t.expanded
      /\ x.shown = t.shown /\ x.slides = t.slides /\ x.scrolls = t.scrolls
  BY <1>1, <1>2 DEF Panel, NavType
<1> HIDE DEF x
<1>4. Still(x)
  BY <1>3, StillLemma
<1>5. Retries(x, r)
  BY <1>3 DEF Retries, Awaited
<1>6. QED
  BY <1>3, <1>4, <1>5 DEF Calm, Alone, x

\* A selection scrolls, and sets no location.
LEMMA SelectStill ==
  ASSUME NEW t, Panel(t), Still(t), NEW h, NEW ns \in SUBSET Tree
  PROVE  LET x == SelectAndHighlight(t, h, ns)
         IN  Still(x) /\ x.requests = t.requests
<1> DEFINE as == IF h = NoHash THEN {} ELSE ItemsOf(t, Url(t.at.page, h))
           x == SelectAndHighlight(t, h, ns)
           v == [t EXCEPT !.selected = t.selected \cup as]
           y == HighlightAnchor(v)
           z == [t EXCEPT !.selected = t.selected \cup ns]
<1>1. ASSUME NEW w, w \in {v, z}
      PROVE  /\ w.expanded = t.expanded /\ w.shown = t.shown /\ w.slides = t.slides
             /\ w.scrolls = t.scrolls /\ w.requests = t.requests /\ DOMAIN w = DOMAIN t
  BY <1>1 DEF Panel, NavType
<1> HIDE DEF as, v, z
<1>2. \/ y = v
      \/ y = [v EXCEPT !.busy = TRUE,
                       !.scrolls = Append(@, [to |-> v.at.hash, update |-> FALSE])]
  BY DEF HighlightAnchor, GotoAnchor
<1>3. /\ y.expanded = t.expanded /\ y.shown = t.shown /\ y.slides = t.slides
      /\ y.requests = t.requests
      /\ \/ y.scrolls = t.scrolls
         \/ y.scrolls = Append(t.scrolls, [to |-> v.at.hash, update |-> FALSE])
  BY <1>1, <1>2 DEF Panel, NavType
<1> HIDE DEF y
<1>4. NoUpdates(y)
  <2>1. CASE y.scrolls = t.scrolls
    BY <2>1 DEF Still, NoUpdates
  <2>2. CASE y.scrolls = Append(t.scrolls, [to |-> v.at.hash, update |-> FALSE])
    <3> DEFINE a == [to |-> v.at.hash, update |-> FALSE]
               q == t.scrolls
    <3>1. q \in Seq([to : Hashes, update : BOOLEAN]) /\ a.update = FALSE
      BY DEF Panel, NavType
    <3> HIDE DEF a, q
    <3>2. \A i \in DOMAIN Append(q, a) : Append(q, a)[i] = a \/ (i \in DOMAIN q /\ Append(q, a)[i] = q[i])
      BY <3>1
    <3>3. y.scrolls = Append(q, a) /\ \A i \in DOMAIN q : ~q[i].update
      BY <2>2 DEF a, q, Still, NoUpdates
    <3> QED
      BY <3>1, <3>2, <3>3 DEF NoUpdates
  <2> QED
    BY <1>3, <2>1, <2>2
<1>5. Still(y) /\ Still(z)
  <2>1. Still(z)
    BY <1>1, StillLemma
  <2>2. NoSlides(y) /\ Agrees(y, {})
    BY <1>3 DEF Still, NoSlides, Agrees
  <2> QED
    BY <1>4, <2>1, <2>2 DEF Still
<1>6. x = ShowRoot(IF as # {} THEN y ELSE z)
  BY DEF SelectAndHighlight, y, z, v, as
<1>7. ASSUME NEW w, Still(w)
      PROVE  Still(ShowRoot(w)) /\ ShowRoot(w).requests = w.requests
  <2>1. /\ ShowRoot(w).expanded = w.expanded /\ ShowRoot(w).shown = w.shown
        /\ ShowRoot(w).slides = w.slides /\ ShowRoot(w).scrolls = w.scrolls
        /\ ShowRoot(w).requests = w.requests
    BY DEF ShowRoot
  <2> QED
    BY <1>7, <2>1, StillLemma
<1> HIDE DEF x
<1>8. z.requests = t.requests
  BY <1>1
<1>9. QED
  BY <1>3, <1>5, <1>6, <1>7, <1>8 DEF x

LEMMA AppendLemma ==
  ASSUME NEW p \in Seq(Nat), NEW q \in Seq(Nat), NEW e \in Nat
  PROVE  p \o Append(q, e) = Append(p \o q, e)
<1> DEFINE x == p \o Append(q, e)
           y == Append(p \o q, e)
<1>1. Append(q, e) \in Seq(Nat) /\ p \o q \in Seq(Nat)
  OBVIOUS
<1>2. x \in Seq(Nat) /\ y \in Seq(Nat)
  BY <1>1
<1>3. Len(x) = Len(p) + Len(q) + 1 /\ Len(y) = Len(x)
  OBVIOUS
<1>4. \A i \in 1..Len(x) : x[i] = y[i]
  BY <1>3
<1> HIDE DEF x, y
<1>5. x = y
  BY <1>2, <1>3, <1>4, EqualLemma
<1>6. QED
  BY <1>5 DEF x, y

\* The node before the one that showNode stops at.
LEMMA ParentLemma ==
  ASSUME NEW s \in Seq(Nat), NEW e \in Nat
  PROVE  Parent(Append(s, e)) = s
<1> DEFINE b == Append(s, e)
<1>1. b \in Seq(Nat) /\ Len(b) = Len(s) + 1 /\ \A i \in 1..Len(s) : b[i] = s[i]
  OBVIOUS
<1> HIDE DEF b
<1>2. SubSeq(b, 1, Len(b) - 1) = s
  BY <1>1
<1>3. QED
  BY <1>2 DEF Parent, b

LEMMA TrailLemma ==
  ASSUME NEW t, Panel(t), NEW node \in Seq(Nat)
  PROVE  /\ Trail(t, node, Len(node)) = node
         /\ \A k \in (Len(node) + 1)..Len(t.crumbs) :
              Parent(Trail(t, node, k)) = Trail(t, node, k - 1)
<1> DEFINE c == t.crumbs
           a == Len(node)
<1>1. c \in Seq(Nat) /\ a \in Nat
  BY DEF Panel, NavType
<1> HIDE DEF c
<1>2. node \o SubSeq(c, a + 1, a) = node
  BY <1>1
<1>3. ASSUME NEW k \in (a + 1)..Len(c)
      PROVE  Parent(node \o SubSeq(c, a + 1, k)) = node \o SubSeq(c, a + 1, k - 1)
  <2> DEFINE d == SubSeq(c, a + 1, k)
             e == SubSeq(c, a + 1, k - 1)
  <2>1. e \in Seq(Nat) /\ c[k] \in Nat
    BY <1>1, <1>3
  <2>2. d = Append(e, c[k])
    <3> DEFINE g == Append(e, c[k])
    <3>1. d \in Seq(Nat) /\ Len(d) = k - a /\ \A i \in 1..(k - a) : d[i] = c[a + i]
      BY <1>1, <1>3
    <3>2. Len(e) = k - 1 - a /\ \A i \in 1..(k - 1 - a) : e[i] = c[a + i]
      BY <1>1, <1>3
    <3> HIDE DEF d, e
    <3>3. g \in Seq(Nat) /\ Len(g) = k - a
      BY <1>1, <1>3, <2>1, <3>2
    <3>4. ASSUME NEW i \in 1..(k - a) PROVE g[i] = c[a + i]
      <4>1. CASE i = k - a
        <5>1. a + i = k
          BY <1>1, <1>3, <4>1
        <5> QED
          BY <1>1, <1>3, <2>1, <3>2, <4>1, <5>1
      <4>2. CASE i # k - a
        BY <1>1, <1>3, <2>1, <3>2, <4>2, SMTT(30)
      <4> QED
        BY <4>1, <4>2
    <3> HIDE DEF g
    <3>5. d \in Seq(Nat) /\ g \in Seq(Nat) /\ Len(d) = Len(g)
          /\ \A i \in 1..Len(d) : d[i] = g[i]
      BY <3>1, <3>3, <3>4
    <3>6. d = g
      BY <3>5, EqualLemma
    <3> QED
      BY <3>6 DEF g
  <2> HIDE DEF d, e
  <2>3. node \o Append(e, c[k]) = Append(node \o e, c[k])
    BY <2>1, AppendLemma
  <2>4. node \o e \in Seq(Nat)
    BY <2>1
  <2>5. Parent(Append(node \o e, c[k])) = node \o e
    BY <2>1, <2>4, ParentLemma
  <2> QED
    BY <2>2, <2>3, <2>5 DEF d, e
<1>4. QED
  BY <1>2, <1>3 DEF Trail, c, a

\* showNode leaves every arrow right, if the only wrong one is that of the
\* node it starts at and will open.
LEMMA ShowNodeCalm ==
  ASSUME NEW t, Panel(t), NEW node \in Seq(Nat), NEW h \in Hashes, NEW N,
         t.requests = EmptyBag, NoSlides(t), NoUpdates(t), Agrees(t, N),
         N = {} \/ (N = {node} /\ Ready(t, node))
  PROVE  Calm(ShowNode(t, node, h))
<1> DEFINE a    == Len(node)
           stop == StopsAt(t, node)
           last == LastStep(t, node)
           next == NextNode(t, node)
           way  == WayTo(t, node)
           res  == ShowNode(t, node, h)
           opened == {Trail(t, node, k) : k \in ReadySteps(t, node)}
<1>1. /\ a \in Nat /\ last \in Nat /\ a <= last /\ stop \in a..(last + 1)
      /\ ReadySteps(t, node) = a..(stop - 1)
      /\ \A k \in ReadySteps(t, node) : Ready(t, Trail(t, node, k))
      /\ Short(t, node) => ~Ready(t, next)
      /\ Panel(way)
  BY StopsLemma, SMTT(30)
<1>2. /\ Trail(t, node, a) = node
      /\ \A k \in (a + 1)..Len(t.crumbs) : Parent(Trail(t, node, k)) = Trail(t, node, k - 1)
  BY TrailLemma
<1>3. /\ Short(t, node) <=> stop <= last
      /\ ~Lost(t, node) => stop <= Len(t.crumbs) /\ next \in Tree
      /\ next = Trail(t, node, stop) /\ Len(t.crumbs) \in Nat
  BY <1>1 DEF Short, Lost, NextNode, Panel, NavType
<1>4. opened \in SUBSET Tree
  BY <1>1, NodeLemma DEF Ready
<1> HIDE DEF a, stop, last, next
<1>5. N \subseteq opened
  <2>1. CASE N = {node} /\ Ready(t, node)
    <3>1. stop # a
      BY <1>1, <1>2, <1>3, <2>1
    <3>2. a \in ReadySteps(t, node)
      BY <1>1, <3>1
    <3> QED
      BY <1>2, <2>1, <3>2
  <2> QED
    BY <2>1
<1>6. way = Open(t, opened)
  BY DEF WayTo
<1> HIDE DEF way, opened
<1>7. Still(way) /\ way.requests = EmptyBag /\ way.have = t.have
  <2>1. Still(Open(t, opened)) /\ Open(t, opened).requests = t.requests
        /\ Open(t, opened).have = t.have
    BY <1>4, <1>5, OpenStill
  <2> QED
    BY <1>6, <2>1
<1> HIDE DEF res
<1>8. ASSUME NEW x, Panel(x), Still(x), x.requests = EmptyBag, NEW ns \in SUBSET Tree,
             res = SelectAndHighlight(x, h, ns)
      PROVE  Calm(res)
  <2>1. Still(res) /\ res.requests = EmptyBag
    BY <1>8, SelectStill
  <2> QED
    BY <2>1 DEF Calm, Alone
<1>9. ASSUME NEW k \in {"show", "retry"}, Awaited(t, next),
             res = GetScript(way, Script(k, next, h)), k = "retry" => ~Short(t, node) /\ ~Lost(t, node)
      PROVE  Calm(res)
  <2> DEFINE r == Script(k, next, h)
  <2>1. r \in Request /\ r.kind = k /\ r.node = next
    BY <1>9, ScriptLemma DEF Script
  <2> HIDE DEF r
  <2>2. ASSUME k = "retry" PROVE ~Awaited(t, Parent(next))
    <3>1. stop \in (a + 1)..Len(t.crumbs) /\ stop - 1 \in a..(stop - 1)
      BY <1>1, <1>3, <1>9, <2>2
    <3>2. Parent(next) = Trail(t, node, stop - 1) /\ Ready(t, Trail(t, node, stop - 1))
      BY <1>1, <1>2, <1>3, <3>1
    <3> QED
      BY <3>2 DEF Ready
  <2>3. Retries(way, r)
    BY <1>7, <2>1, <2>2 DEF Retries, Awaited
  <2>4. Calm(GetScript(way, r))
    BY <1>1, <1>7, <2>1, <2>3, GetScriptCalm
  <2> QED
    BY <1>9, <2>4 DEF r
<1>10. ASSUME NEW x, x \in {way, ExpandNode(way, next, TRUE)}, next \in Tree, ~Awaited(t, next)
       PROVE  Panel(x) /\ Still(x) /\ x.requests = EmptyBag
  <2>1. ~Awaited(way, next)
    BY <1>7, <1>10 DEF Awaited
  <2>2. ExpandNode(way, next, TRUE) \in {way, Open(way, {next})}
    BY <2>1 DEF ExpandNode
  <2>3. Panel(Open(way, {next}))
    BY <1>1, <1>10, OpenLemma
  <2>4. Still(Open(way, {next})) /\ Open(way, {next}).requests = way.requests
    <3>1. NoSlides(way) /\ NoUpdates(way) /\ Agrees(way, {})
      BY <1>7 DEF Still
    <3>2. {next} \in SUBSET Tree /\ {} \in SUBSET {next}
      BY <1>10
    <3> QED
      BY <1>1, <3>1, <3>2, OpenStill
  <2> QED
    BY <1>1, <1>7, <1>10, <2>2, <2>3, <2>4
<1>11. Goes(t, node, h)
  BY GoesLemma
<1>12. CASE Short(t, node) /\ Awaited(t, next) /\ res = GetScript(way, Script("show", next, h))
  BY <1>9, <1>12 DEF res
<1>13. CASE Short(t, node) /\ ~Awaited(t, next) /\ res = SelectAndHighlight(way, h, {})
  BY <1>1, <1>7, <1>8, <1>13 DEF res
<1>14. CASE ~Short(t, node) /\ Lost(t, node) /\ res = way
  BY <1>7, <1>14 DEF Calm, Alone, res
<1>15. CASE /\ ~Short(t, node) /\ ~Lost(t, node) /\ Awaited(t, next)
            /\ res = GetScript(way, Script("retry", next, h))
  BY <1>9, <1>15 DEF res
<1>16. CASE /\ ~Short(t, node) /\ ~Lost(t, node) /\ ~Awaited(t, next)
            /\ \E x \in {way, ExpandNode(way, next, TRUE)} :
                 res = SelectAndHighlight(x, h, {next})
  <2>1. PICK x \in {way, ExpandNode(way, next, TRUE)} : res = SelectAndHighlight(x, h, {next})
    BY <1>16
  <2>2. next \in Tree /\ {next} \in SUBSET Tree
    BY <1>3, <1>16
  <2>3. Panel(x) /\ Still(x) /\ x.requests = EmptyBag
    BY <1>10, <1>16, <2>1, <2>2
  <2> QED
    BY <1>8, <2>1, <2>2, <2>3 DEF res
<1>17. QED
  BY <1>11, <1>12, <1>13, <1>14, <1>15, <1>16 DEF Goes, next, way, res

LEMMA NavToCalm ==
  ASSUME NEW t, Panel(t), NEW u \in Urls, Still(t), t.requests = EmptyBag
  PROVE  Calm(NavTo(t, u)) /\ Calm(GotoNode(t, u))
<1>1. Calm(GotoNode(t, u))
  <2> DEFINE c == <<0>> \o Lookup(Chunk[u], u)
             x == [t EXCEPT !.crumbs = c]
  <2>1. c \in Seq(Nat)
    BY LookupLemma
  <2> HIDE DEF c
  <2>2. /\ Panel(x) /\ x.expanded = t.expanded /\ x.shown = t.shown
        /\ x.slides = t.slides /\ x.scrolls = t.scrolls /\ x.requests = EmptyBag
    <3>1. Panel(x)
      BY <2>1, SmallLemma
    <3> QED
      BY <3>1 DEF Panel, NavType
  <2>3. GotoNode(t, u) = ShowNode(x, <<>>, u.hash)
    BY DEF GotoNode, c
  <2> HIDE DEF x
  <2>4. NoSlides(x) /\ NoUpdates(x) /\ Agrees(x, {})
    BY <2>2, StillLemma DEF Still
  <2>5. u.hash \in Hashes /\ <<>> \in Seq(Nat)
    BY UrlLemma
  <2> QED
    BY <2>2, <2>3, <2>4, <2>5, ShowNodeCalm
<1>2. CASE Chunk[u] \in t.chunks
  BY <1>1, <1>2 DEF NavTo
<1>3. CASE Chunk[u] \notin t.chunks
  <2> DEFINE r == [kind |-> "index", to |-> u]
  <2>1. r \in Request /\ r.kind = "index" /\ NavTo(t, u) = GetScript(t, r)
    BY <1>3 DEF Request, NavTo
  <2> HIDE DEF r
  <2>2. Retries(t, r)
    BY <2>1 DEF Retries
  <2> QED
    BY <1>1, <2>1, <2>2, GetScriptCalm
<1>4. QED
  BY <1>1, <1>2, <1>3

LEMMA OnHashChangeCalm ==
  ASSUME NEW t, Panel(t), NEW link \in Urls \cup {NoLink}, Still(t), t.requests = EmptyBag
  PROVE  Calm(OnHashChange(t, link))
<1> DEFINE clear == [t EXCEPT !.selected = {}]
           v == Target(t.at, link)
<1>1. t.at \in Urls /\ v \in Urls
  BY TargetLemma DEF Panel, NavType
<1>2. /\ Panel(clear) /\ clear.expanded = t.expanded /\ clear.shown = t.shown
      /\ clear.slides = t.slides /\ clear.scrolls = t.scrolls /\ clear.requests = EmptyBag
  <2>1. Panel(clear)
    BY SmallLemma
  <2> QED
    BY <2>1 DEF Panel, NavType
<1>3. OnHashChange(t, link) \in {NavTo(t, v), NavTo(clear, v), t}
  BY DEF OnHashChange
<1> HIDE DEF clear, v
<1>4. Still(clear)
  BY <1>2, StillLemma
<1>5. Calm(NavTo(t, v)) /\ Calm(NavTo(clear, v))
  BY <1>1, <1>2, <1>4, NavToCalm
<1>6. QED
  BY <1>3, <1>5 DEF Calm, Alone

\* A branch that opens by its arrow slides down, or is waited for.
LEMMA ExpandNodeTurns ==
  ASSUME NEW t, Panel(t), NEW n \in Tree \ {<<>>}, NEW imm \in BOOLEAN,
         Still(t), t.requests = EmptyBag
  PROVE  LET x == ExpandNode(t, n, imm) IN Calm(x) \/ Turning(x)
<1> DEFINE x == ExpandNode(t, n, imm)
           r == [kind |-> "expand", node |-> n, imm |-> imm]
           o == Open(t, {n})
<1>0. Calm(t)
  BY DEF Calm, Alone
<1>1. CASE n \notin Inner \/ n \in t.expanded
  BY <1>0, <1>1 DEF ExpandNode
<1>2. CASE n \in Inner \ t.expanded /\ Awaited(t, n)
  <2>1. r \in Request /\ r.kind = "expand" /\ x = GetScript(t, r)
    BY <1>2 DEF Request, Awaited, ExpandNode
  <2> HIDE DEF r, x
  <2>2. Retries(t, r)
    BY <2>1 DEF Retries
  <2>3. Calm(x)
    BY <2>1, <2>2, GetScriptCalm
  <2> QED
    BY <2>3 DEF x
<1>3. NoSlides(t) /\ NoUpdates(t) /\ Agrees(t, {})
  BY DEF Still
<1>4. Panel(o) /\ Still(o) /\ o.requests = EmptyBag
  <2>1. {n} \in SUBSET Tree /\ {} \in SUBSET {n}
    OBVIOUS
  <2>2. Still(o) /\ o.requests = t.requests
    BY <1>3, <2>1, OpenStill
  <2> QED
    BY <2>1, <2>2, OpenLemma
<1>5. CASE n \in Inner \ t.expanded /\ ~Awaited(t, n) /\ imm
  <2>1. x = o
    BY <1>5 DEF ExpandNode
  <2> QED
    BY <1>4, <2>1 DEF Calm, Alone
<1>6. CASE n \in Inner \ t.expanded /\ ~Awaited(t, n) /\ ~imm
  <2> DEFINE down == Append(o.slides[n], "down")
  <2>1. x = [[o EXCEPT !.shown = t.shown] EXCEPT !.slides[n] = down]
    BY <1>6 DEF ExpandNode
  <2>2. down = <<"down">>
    <3>1. o.slides[n] = <<>>
      BY <1>4 DEF Still, NoSlides
    <3> QED
      BY <3>1, OneLemma
  <2>3. o.expanded = t.expanded \cup {n} /\ o.slides = t.slides /\ o.scrolls = t.scrolls
    BY DEF Open, Panel, NavType
  <2> HIDE DEF o, down
  <2>4. /\ x.requests = EmptyBag /\ x.scrolls = t.scrolls /\ x.shown = t.shown
        /\ x.expanded = t.expanded \cup {n} /\ x.slides = [t.slides EXCEPT ![n] = down]
    BY <1>4, <2>1, <2>3 DEF Panel, NavType
  <2>5. t.slides \in [Tree -> Seq({"up", "down"})]
    BY DEF Panel, NavType
  <2> HIDE DEF x
  <2>6. x.slides[n] = <<"down">> /\ \A m \in Tree \ {n} : x.slides[m] = <<>>
    BY <1>3, <2>2, <2>4, <2>5 DEF NoSlides
  <2>7. NoUpdates(x) /\ Agrees(x, {n})
    BY <1>3, <2>4 DEF NoUpdates, Agrees
  <2>8. Turning(x)
    BY <2>4, <2>6, <2>7 DEF Turning
  <2> QED
    BY <2>8 DEF x
<1>7. QED
  BY <1>1, <1>2, <1>5, <1>6

\* What the script of t, which is no longer under way in it, brings about.
LEMMA OnLoadCalm ==
  ASSUME NEW t, Panel(t), NEW r \in Request, Still(t), t.requests = EmptyBag, Retries(t, r)
  PROVE  Calm(OnLoad(t, r)) \/ Turning(OnLoad(t, r))
<1>1. CASE r \in [kind : {"index"}, to : Urls]
  <2> DEFINE cs == t.chunks \cup {Chunk[r.to]}
             x  == [t EXCEPT !.chunks = cs]
  <2>1. cs \in SUBSET Nat /\ r.to \in Urls
    BY <1>1, LinkAssumption DEF Panel, NavType
  <2>2. OnLoad(t, r) = GotoNode(x, r.to)
    BY <1>1 DEF OnLoad
  <2> HIDE DEF cs
  <2>3. /\ Panel(x) /\ x.expanded = t.expanded /\ x.shown = t.shown
        /\ x.slides = t.slides /\ x.scrolls = t.scrolls /\ x.requests = EmptyBag
    <3>1. Panel(x)
      BY <2>1, SmallLemma
    <3> QED
      BY <3>1 DEF Panel, NavType
  <2> HIDE DEF x
  <2>4. Still(x)
    BY <2>3, StillLemma
  <2> QED
    BY <2>1, <2>2, <2>3, <2>4, NavToCalm
<1>2. CASE r \in [kind : {"expand"}, node : Lazy, imm : BOOLEAN]
  <2> DEFINE x == [t EXCEPT !.have = @ \cup {r.node}]
  <2>1. OnLoad(t, r) = ExpandNode(x, r.node, r.imm)
    BY <1>2 DEF OnLoad
  <2>2. r.node \in Lazy /\ r.node \in Tree \ {<<>>} /\ r.imm \in BOOLEAN
    BY <1>2, NodeLemma, TreeAssumption
  <2>3. Panel(x) /\ x.expanded = t.expanded /\ Loaded(t, r.node, x)
    BY <2>2, LoadedLemma
  <2> HIDE DEF x
  <2>4. Still(x) /\ x.requests = EmptyBag
    BY <2>3, StillLemma DEF Loaded
  <2> QED
    BY <2>1, <2>2, <2>3, <2>4, ExpandNodeTurns
<1>3. CASE r \in [kind : {"show", "retry"}, node : Lazy, hash : Hashes]
  <2> DEFINE p == Parent(r.node)
             x == [t EXCEPT !.have = @ \cup {r.node}]
             y == [t EXCEPT !.have = @ \cup {r.node}, !.expanded = @ \ {p}]
  <2>1. r.node \in Lazy /\ r.node \in Seq(Nat) /\ r.hash \in Hashes
        /\ p \in Seq(Nat) /\ r.kind \in {"show", "retry"}
    BY <1>3, NodeLemma
  <2>2. r.kind = "show" => OnLoad(t, r) = ShowNode(x, r.node, r.hash)
    BY DEF OnLoad
  <2>3. r.kind = "retry" => OnLoad(t, r) = ShowNode(y, p, r.hash)
    BY DEF OnLoad
  <2>4. /\ Panel(x) /\ x.expanded = t.expanded /\ Loaded(t, r.node, x)
        /\ Panel(y) /\ y.expanded = t.expanded \ {p} /\ Loaded(t, r.node, y)
    BY <2>1, LoadedLemma
  <2>5. p \in Inner
    <3>1. r.node \in Tree \ {<<>>}
      BY <2>1, NodeLemma, TreeAssumption
    <3>2. p \in Tree /\ r.node \in Children(p)
      BY <3>1, TreeAssumption DEF Children, Parent
    <3> QED
      BY <3>2 DEF Inner
  <2>6. Retries(t, r) /\ r.kind = "retry" => ~Awaited(t, p)
    BY DEF Retries
  <2> HIDE DEF x, y, p
  <2>7. CASE r.kind = "show"
    <3>1. Still(x) /\ x.requests = EmptyBag
      BY <2>4, StillLemma DEF Loaded
    <3>2. NoSlides(x) /\ NoUpdates(x) /\ Agrees(x, {})
      BY <3>1 DEF Still
    <3> QED
      BY <2>1, <2>2, <2>4, <2>7, <3>1, <3>2, ShowNodeCalm
  <2>8. CASE r.kind = "retry"
    <3>1. y.requests = EmptyBag /\ NoSlides(y) /\ NoUpdates(y) /\ Agrees(y, {p})
      BY <2>4 DEF Loaded, Still, NoSlides, NoUpdates, Agrees
    <3>2. Ready(y, p)
      BY <2>4, <2>5, <2>6, <2>8 DEF Ready, Awaited, Loaded
    <3> QED
      BY <2>1, <2>3, <2>4, <2>8, <3>1, <3>2, ShowNodeCalm
  <2> QED
    BY <2>1, <2>7, <2>8
<1>4. QED
  BY <1>1, <1>2, <1>3 DEF Request

\* When nothing is under way every arrow is right.
LEMMA IdleLemma ==
  ASSUME Idle(nav), Calm(nav) \/ Turning(nav) \/ Scrolling(nav)
  PROVE  Still(nav) /\ nav.requests = EmptyBag
<1>1. nav.scrolls = <<>> /\ nav.requests = EmptyBag /\ NoSlides(nav)
  BY DEF Idle, NoSlides
<1>2. ~Scrolling(nav)
  BY <1>1 DEF Scrolling
<1>3. ~Turning(nav)
  BY <1>1, OneLemma, Zenon DEF Turning, NoSlides
<1>4. Still(nav)
  BY <1>2, <1>3 DEF Calm
<1>5. QED
  BY <1>1, <1>4

LEMMA FreshCalm ==
  ASSUME NEW u
  PROVE  Calm(FreshNav(u)) /\ Idle(FreshNav(u))
BY DEF FreshNav, Calm, Still, Alone, Idle, NoSlides, NoUpdates, Agrees

LEMMA MoveToCalm ==
  ASSUME Inv, NEW t, Panel(t), NEW h, OnPage(t.at, h), MoveTo(t, h),
         Still(t), t.requests = EmptyBag
  PROVE  Calm(nav')
<1> DEFINE x == [t EXCEPT !.at = Url(t.at.page, h)]
<1>1. nav' = OnHashChange(x, stored)
  BY DEF MoveTo
<1>2. /\ Panel(x) /\ x.requests = t.requests /\ x.expanded = t.expanded
      /\ x.shown = t.shown /\ x.slides = t.slides /\ x.scrolls = t.scrolls
  BY PlaceLemma
<1> HIDE DEF x
<1>3. Still(x)
  BY <1>2, StillLemma
<1>4. QED
  BY <1>1, <1>2, <1>3, OnHashChangeCalm DEF Inv

LEMMA ReaderCalm ==
  ASSUME Inv, Orderly, Reader, reader # "hasty"
  PROVE  /\ Calm(nav') \/ Turning(nav') \/ Scrolling(nav')
         /\ ~loaded' => Idle(nav')
<1>1. ASSUME Acts
      PROVE  Panel(nav) /\ Still(nav) /\ nav.requests = EmptyBag /\ loaded /\ Idle(nav)
  BY <1>1, IdleLemma DEF Acts, Orderly, Inv
<1>2. CASE HashChanges
  <2>1. PICK u \in Urls : u.page = nav.at.page /\ MoveTo(nav, u.hash)
    BY <1>2 DEF HashChanges
  <2>2. OnPage(nav.at, u.hash)
    BY <2>1, UrlLemma DEF OnPage
  <2>3. Acts /\ loaded' = loaded
    BY <1>2 DEF HashChanges
  <2> QED
    BY <1>1, <2>1, <2>2, <2>3, MoveToCalm
<1>3. CASE OpenPage
  BY <1>3, FreshCalm DEF OpenPage, LoadPage
<1>4. CASE ClickSync
  <2>1. Acts /\ nav' = nav /\ loaded' = loaded
    BY <1>4 DEF ClickSync
  <2> QED
    BY <1>1, <2>1 DEF Calm, Alone
<1>5. ASSUME NEW n \in Tree, ClickArrow(n)
      PROVE  (Calm(nav') \/ Turning(nav')) /\ loaded'
  <2>1. Acts /\ loaded' = loaded /\ n \in Tree \ {<<>>}
    BY <1>5 DEF ClickArrow, Visible, Items
  <2>2. CASE n \in nav.expanded
    <3> DEFINE up == Append(nav.slides[n], "up")
               j == [nav EXCEPT !.slides[n] = up, !.expanded = @ \ {n}]
    <3>1. nav' = j
      BY <1>5, <2>2 DEF ClickArrow
    <3>2. up = <<"up">> /\ NoSlides(nav) /\ NoUpdates(nav) /\ Agrees(nav, {})
      <4>1. nav.slides[n] = <<>>
        BY <1>1, <2>1 DEF Still, NoSlides
      <4> QED
        BY <1>1, <2>1, <4>1, OneLemma DEF Still
    <3> HIDE DEF up
    <3>3. /\ j.requests = nav.requests /\ j.scrolls = nav.scrolls /\ j.shown = nav.shown
          /\ j.expanded = nav.expanded \ {n} /\ j.slides = [nav.slides EXCEPT ![n] = up]
          /\ nav.slides \in [Tree -> Seq({"up", "down"})]
      BY <1>1, <2>1 DEF Panel, NavType
    <3> HIDE DEF j
    <3>4. j.slides[n] = <<"up">> /\ \A m \in Tree \ {n} : j.slides[m] = <<>>
      BY <3>2, <3>3 DEF NoSlides
    <3>5. NoUpdates(j) /\ Agrees(j, {n})
      BY <3>2, <3>3 DEF NoUpdates, Agrees
    <3>6. Turning(j)
      BY <1>1, <2>1, <3>3, <3>4, <3>5 DEF Turning
    <3> QED
      BY <1>1, <2>1, <3>1, <3>6
  <2>3. CASE n \notin nav.expanded
    <3>1. nav' = ExpandNode(nav, n, FALSE)
      BY <1>5, <2>3 DEF ClickArrow
    <3> QED
      BY <1>1, <2>1, <3>1, ExpandNodeTurns
  <2> QED
    BY <2>2, <2>3
<1>6. ASSUME NEW n \in Tree, ClickItem(n)
      PROVE  \/ Calm(nav') /\ Idle(nav')
             \/ Scrolling(nav') /\ loaded'
  <2>1. CASE Link[n].hash # NoHash /\ Link[n].page = nav.at.page
    <3> DEFINE t == IF n \in nav.selected THEN nav ELSE [nav EXCEPT !.selected = {n}]
               j == GotoAnchor(t, Link[n].hash, TRUE)
    <3>1. Acts /\ loaded' = loaded /\ nav' = j
      BY <1>6, <2>1 DEF ClickItem
    <3>2. Panel(t) /\ t.expanded = nav.expanded /\ t.shown = nav.shown
          /\ t.slides = nav.slides /\ t.scrolls = nav.scrolls /\ t.requests = nav.requests
      <4>1. Panel(t)
        BY SmallLemma DEF Inv
      <4> QED
        BY <4>1 DEF Inv, Panel, NavType
    <3> HIDE DEF t
    <3> DEFINE s == [to |-> Link[n].hash, update |-> TRUE]
    <3>3. j.expanded = t.expanded /\ j.shown = t.shown /\ j.slides = t.slides
          /\ j.scrolls = Append(t.scrolls, s) /\ j.requests = t.requests
      BY <3>2 DEF GotoAnchor, Panel, NavType
    <3> HIDE DEF j, s
    <3>4. t.scrolls = <<>>
      BY <1>1, <3>1, <3>2 DEF Idle
    <3>5. Len(j.scrolls) = 1
      BY <3>3, <3>4
    <3>6. NoSlides(j) /\ Agrees(j, {})
      BY <1>1, <3>1, <3>2, <3>3 DEF Still, NoSlides, Agrees
    <3>7. Scrolling(j)
      BY <1>1, <3>1, <3>2, <3>3, <3>5, <3>6 DEF Scrolling
    <3> QED
      BY <1>1, <3>1, <3>7
  <2>2. CASE ~(Link[n].hash # NoHash /\ Link[n].page = nav.at.page)
    BY <1>6, <2>2, FreshCalm DEF ClickItem, LoadPage
  <2> QED
    BY <2>1, <2>2
<1>7. QED
  BY <1>2, <1>3, <1>4, <1>5, <1>6 DEF Reader

\* What changes nothing but the rest of the panel.
LEMMA KeepsLemma ==
  ASSUME NEW t, NEW x, x.expanded = t.expanded, x.shown = t.shown, x.slides = t.slides,
         x.requests = t.requests, x.have = t.have
  PROVE  /\ NoUpdates(x) => (Calm(t) => Calm(x)) /\ (Turning(t) => Turning(x))
         /\ x.scrolls = t.scrolls => (Scrolling(t) => Scrolling(x)) /\ (Idle(t) => Idle(x))
<1>1. \A N : Agrees(t, N) => Agrees(x, N)
  BY DEF Agrees
<1>2. NoSlides(t) => NoSlides(x)
  BY DEF NoSlides
<1>3. Alone(t) => Alone(x)
  BY DEF Alone, Retries, Awaited
<1>4. Calm(t) /\ NoUpdates(x) => Calm(x)
  BY <1>1, <1>2, <1>3 DEF Calm, Still
<1>5. Turning(t) /\ NoUpdates(x) => Turning(x)
  BY <1>1 DEF Turning
<1>6. x.scrolls = t.scrolls => (Scrolling(t) => Scrolling(x)) /\ (Idle(t) => Idle(x))
  BY <1>1, <1>2 DEF Scrolling, Idle
<1>7. QED
  BY <1>4, <1>5, <1>6

LEMMA BrowserCalm ==
  ASSUME Inv, Orderly, Browser, reader # "hasty"
  PROVE  /\ Calm(nav') \/ Turning(nav') \/ Scrolling(nav')
         /\ ~loaded' => Idle(nav')
<1>1. CASE WindowLoad
  <2> DEFINE x == NavTo(nav, Target(nav.at, stored))
             y == ShowRoot(x)
  <2>1. Target(nav.at, stored) \in Urls
    BY TargetLemma DEF Inv, Panel, NavType
  <2>2. Still(nav) /\ nav.requests = EmptyBag
    BY <1>1, IdleLemma DEF WindowLoad, Orderly
  <2>3. Calm(x) /\ Panel(x)
    BY <2>1, <2>2, NavToCalm, NavToLemma DEF Inv
  <2>4. nav' = y /\ loaded'
    BY <1>1 DEF WindowLoad
  <2> HIDE DEF x
  <2>5. y.expanded = x.expanded /\ y.shown = x.shown /\ y.slides = x.slides
        /\ y.requests = x.requests /\ y.have = x.have /\ y.scrolls = x.scrolls
    BY <2>3 DEF ShowRoot, Panel, NavType
  <2> HIDE DEF y
  <2>6. NoUpdates(y)
    BY <2>3, <2>5 DEF Calm, Still, NoUpdates
  <2> QED
    BY <2>3, <2>4, <2>5, <2>6, KeepsLemma
<1>2. CASE ScrollEnds
  <2> DEFINE q == nav.scrolls
             s == Head(q)
             t == [nav EXCEPT !.scrolls = Tail(@), !.busy = FALSE]
  <2>1. nav.scrolls # <<>> /\ loaded' = loaded
    BY <1>2 DEF ScrollEnds
  <2>2. loaded'
    BY <2>1 DEF Orderly, Idle
  <2>3. /\ Panel(t) /\ OnPage(t.at, s.to)
        /\ t.requests = nav.requests /\ t.expanded = nav.expanded /\ t.shown = nav.shown
        /\ t.have = nav.have /\ t.slides = nav.slides /\ t.scrolls = Tail(q)
    BY <2>1, ScrollLemma DEF Inv
  <2>4. /\ MoveTo(t, s.to) \/ nav' = t
        /\ ~s.update => nav' = t
    BY <1>2, Zenon DEF ScrollEnds
  <2>5. q \in Seq([to : Hashes, update : BOOLEAN]) /\ q # <<>>
    BY <2>1 DEF Inv, Panel, NavType
  <2> HIDE DEF t, q
  <2>6. CASE Scrolling(nav)
    <3>1. Tail(q) = <<>>
      BY <2>5, <2>6, LastLemma DEF Scrolling, q
    <3>2. NoUpdates(t)
      BY <2>3, <3>1 DEF NoUpdates
    <3>3. Still(t) /\ t.requests = EmptyBag
      BY <2>3, <2>6, <3>2 DEF Scrolling, Still, NoSlides, Agrees
    <3>4. Calm(t)
      BY <3>3 DEF Calm, Alone
    <3> HIDE DEF s
    <3>5. Calm(nav')
      BY <2>3, <2>4, <3>3, <3>4, MoveToCalm
    <3> QED
      BY <2>2, <3>5
  <2>7. CASE Calm(nav) \/ Turning(nav)
    <3>1. \A i \in DOMAIN q : ~q[i].update
      BY <2>7 DEF Calm, Still, Turning, NoUpdates, q
    <3>2. ~s.update
      BY <2>5, <3>1
    <3>3. NoUpdates(t)
      <4>1. \A i \in DOMAIN Tail(q) : Tail(q)[i] = q[i + 1] /\ i + 1 \in DOMAIN q
        BY <2>5
      <4> QED
        BY <2>3, <3>1, <4>1 DEF NoUpdates
    <3>4. Calm(t) \/ Turning(t)
      BY <2>3, <2>7, <3>3, KeepsLemma
    <3> QED
      BY <2>2, <2>4, <3>2, <3>4
  <2> QED
    BY <2>6, <2>7 DEF Orderly
<1>3. CASE PollEnds
  <2> DEFINE j == [nav EXCEPT !.polling = FALSE]
  <2>1. nav' = j /\ loaded' = loaded
    BY <1>3 DEF PollEnds
  <2>2. j.expanded = nav.expanded /\ j.shown = nav.shown /\ j.slides = nav.slides
        /\ j.requests = nav.requests /\ j.have = nav.have /\ j.scrolls = nav.scrolls
    BY DEF Inv, Panel, NavType
  <2> HIDE DEF j
  <2>3. NoUpdates(nav) => NoUpdates(j)
    BY <2>2 DEF NoUpdates
  <2>4. Calm(nav) \/ Turning(nav) => NoUpdates(nav)
    BY DEF Calm, Still, Turning
  <2> QED
    BY <2>1, <2>2, <2>3, <2>4, KeepsLemma DEF Orderly
<1>4. ASSUME NEW r, ScriptArrives(r)
      PROVE  (Calm(nav') \/ Turning(nav')) /\ loaded'
  <2> DEFINE t == [nav EXCEPT !.requests = @ (-) SetToBag({r})]
  <2>1. BagIn(r, nav.requests) /\ nav' = OnLoad(t, r) /\ loaded' = loaded
    BY <1>4 DEF ScriptArrives
  <2>2. r \in Request /\ Panel(t)
    BY <2>1, ArrivalLemma DEF Inv
  <2>3. nav.requests # EmptyBag
    BY <2>1 DEF BagIn, BagToSet, EmptyBag, SetToBag
  <2>4. loaded'
    BY <2>1, <2>3 DEF Orderly, Idle
  <2>5. Calm(nav)
    BY <2>3 DEF Orderly, Turning, Scrolling
  <2>6. nav.requests = SetToBag({r}) /\ Retries(nav, r)
    <3>1. PICK o \in Request : nav.requests = SetToBag({o}) /\ Retries(nav, o)
      BY <2>3, <2>5 DEF Calm, Alone
    <3>2. o = r
      BY <2>1, <3>1 DEF BagIn, BagToSet, SetToBag
    <3> QED
      BY <3>1, <3>2
  <2>7. nav.requests (-) SetToBag({r}) = EmptyBag
    BY <2>6 DEF EmptyBag, SetToBag, (-)
  <2>8. /\ t.requests = EmptyBag /\ t.have = nav.have /\ t.expanded = nav.expanded
        /\ t.shown = nav.shown /\ t.slides = nav.slides /\ t.scrolls = nav.scrolls
    BY <2>7 DEF Inv, Panel, NavType
  <2> HIDE DEF t
  <2>9. Still(t) /\ Retries(t, r)
    BY <2>5, <2>6, <2>8, StillLemma DEF Calm, Retries, Awaited
  <2> QED
    BY <2>1, <2>2, <2>4, <2>8, <2>9, OnLoadCalm
<1>5. ASSUME NEW n \in Tree, SlideEnds(n)
      PROVE  Calm(nav') /\ loaded'
  <2> DEFINE up == Head(nav.slides[n]) = "up"
             rest == Tail(nav.slides[n])
             sh == IF up THEN nav.shown \ {n} ELSE nav.shown \cup {n}
             j == [nav EXCEPT !.slides[n] = rest, !.shown = sh]
  <2>1. nav.slides[n] # <<>> /\ loaded' = loaded /\ nav' = j
    BY <1>5 DEF SlideEnds
  <2>2. loaded'
    BY <2>1 DEF Orderly, Idle
  <2>3. Turning(nav)
    BY <2>1 DEF Orderly, Calm, Still, Scrolling, NoSlides
  <2>4. PICK m \in Tree \ {<<>>}, d \in {"up", "down"} :
          /\ nav.slides[m] = <<d>> /\ \A k \in Tree \ {m} : nav.slides[k] = <<>>
          /\ m \in nav.expanded <=> d = "down"
          /\ Agrees(nav, {m})
    BY <2>3 DEF Turning
  <2>5. m = n
    BY <2>1, <2>4
  <2>6. rest = <<>> /\ (up <=> d = "up")
    BY <2>4, <2>5, OneLemma
  <2>7. sh = IF d = "up" THEN nav.shown \ {n} ELSE nav.shown \cup {n}
    BY <2>6
  <2> HIDE DEF rest, sh, up
  <2>8. /\ j.requests = nav.requests /\ j.expanded = nav.expanded /\ j.shown = sh
        /\ j.slides = [nav.slides EXCEPT ![n] = rest] /\ j.scrolls = nav.scrolls
        /\ nav.slides \in [Tree -> Seq({"up", "down"})]
    BY DEF Inv, Panel, NavType
  <2> HIDE DEF j
  <2>9. NoSlides(j)
    BY <2>4, <2>5, <2>6, <2>8 DEF NoSlides
  <2>10. Agrees(j, {})
    BY <2>4, <2>5, <2>7, <2>8 DEF Agrees
  <2>11. NoUpdates(j) /\ j.requests = EmptyBag
    BY <2>3, <2>8 DEF Turning, NoUpdates
  <2> QED
    BY <2>1, <2>2, <2>9, <2>10, <2>11 DEF Calm, Still, Alone
<1>6. QED
  BY <1>1, <1>2, <1>3, <1>4, <1>5 DEF Browser

LEMMA OrderlyInvariant == Spec => []Orderly
<1>1. Init => Orderly
  BY FreshCalm DEF Init, Orderly
<1>2. Inv /\ Orderly /\ [Next]_vars => Orderly'
  <2> SUFFICES ASSUME Inv, Orderly, [Next]_vars PROVE Orderly'
    OBVIOUS
  <2>1. CASE UNCHANGED vars
    BY <2>1 DEF vars, Orderly, Calm, Still, Alone, Retries, Turning, Scrolling, Idle,
                NoSlides, NoUpdates, Agrees, Awaited
  <2>2. CASE Next
    <3>1. reader' = reader
      BY <2>2 DEF Next, Reader, Browser, HashChanges, OpenPage, LoadPage, ClickSync,
           ClickArrow, ClickItem, WindowLoad, ScrollEnds, PollEnds, ScriptArrives, SlideEnds
    <3>2. reader # "hasty" =>
            /\ Calm(nav') \/ Turning(nav') \/ Scrolling(nav')
            /\ ~loaded' => Idle(nav')
      BY <2>2, ReaderCalm, BrowserCalm DEF Next
    <3> QED
      BY <3>1, <3>2 DEF Orderly, Calm, Still, Alone, Retries, Turning, Scrolling, Idle,
                NoSlides, NoUpdates, Agrees, Awaited
  <2>3. QED
    BY <2>1, <2>2
<1>3. QED
  BY <1>1, <1>2, PanelInvariant, PTL DEF Spec

\* For a reader who waits, a node's arrow tells whether its list is shown,
\* whichever scripts had to arrive before the list could be.
THEOREM ArrowsAlwaysTell == Spec => []IconTells
<1>1. Inv /\ Orderly => IconTells
  <2> SUFFICES ASSUME Inv, Orderly, reader # "hasty", Idle(nav)
               PROVE  nav.expanded \ {<<>>} = nav.shown \ {<<>>}
    BY DEF IconTells
  <2>1. Still(nav)
    BY IdleLemma DEF Orderly
  <2>2. nav.expanded \subseteq Tree /\ nav.shown \subseteq Tree
    BY DEF Inv, Panel, NavType
  <2> QED
    BY <2>1, <2>2 DEF Still, Agrees
<1>2. QED
  BY <1>1, PanelInvariant, OrderlyInvariant, PTL

-----------------------------------------------------------------------------
(* For a reader who waits, the item of the last link is selected, and no   *)
(* item of another link.                                                   *)

\* The items of the place of u, if it has one, in the page that is shown.
Here(t, u) ==
  {n \in DOMAIN Link : u.hash # NoHash /\ Link[n] = Url(t.at.page, u.hash)}

Shows(t, u) == \E n \in t.selected : n = ItemOf(u) \/ n \in Here(t, u)
Quiet(t)    == \A r \in BagToSet(t.requests) : r.kind = "expand"

\* A script that leads on to the item of u.
Follows(t, u, r) ==
  \/ r.kind = "index" /\ r.to = u
  \/ /\ r.kind \in {"show", "retry"} /\ r.hash = u.hash
     /\ t.crumbs = ItemOf(u) /\ LeadsOn(t, r)

Heads(t, u) ==
  \/ Shows(t, u) /\ Quiet(t)
  \/ \E r \in Request : t.requests = SetToBag({r}) /\ Follows(t, u, r)

\* Before the item is reached, only items of its place are selected, and all
\* that are selected have been built: they will be found again by their link.
Before(t, u) == t.selected \subseteq Here(t, u) \cap Items(t)

Single(t, u) ==
  \/ Before(t, u)
  \/ t.selected = {ItemOf(u)} /\ ItemOf(u) \in Items(t) /\ Quiet(t)

\* one: the reader leaves the sync button alone.
Finds(t, u, one) == Heads(t, u) /\ (one => Single(t, u))

Following ==
  reader # "hasty" =>
    /\ ~loaded => nav.selected = {}
    /\ loaded => Finds(nav, aim, reader = "steady")
    /\ reader = "steady" /\ loaded /\ stored # NoLink => aim = Target(aim, stored)

-----------------------------------------------------------------------------
(* The items of links.                                                     *)

\* What gotoNode looks up is the item of the link, and the item of a place has
\* the link of that place.
LEMMA ItemLemma ==
  ASSUME NEW u \in Urls
  PROVE  /\ ItemOf(u) = <<0>> \o Lookup(Chunk[u], u)
         /\ ItemOf(u) \in DOMAIN Link /\ ItemOf(u) \in Tree
         /\ Link[ItemOf(u)].hash # NoHash => Link[ItemOf(u)] = u
<1> DEFINE p == Url(u.page, NoHash)
           n == ItemOf(u)
<1>1. p.hash = NoHash
  BY DEF Url
<1>2. CASE u \in DOMAIN Entry
  <2>1. n = <<0>> \o Entry[u] /\ Lookup(Chunk[u], u) = Entry[u]
    BY <1>2 DEF ItemOf, Lookup
  <2> HIDE DEF n
  <2>2. n \in DOMAIN Link /\ (Link[n] = u \/ Link[n].hash = NoHash)
    BY <1>2, <2>1, IndexAssumption
  <2> QED
    BY <2>1, <2>2, TreeAssumption DEF n
<1>3. CASE u \notin DOMAIN Entry /\ p \in DOMAIN Entry
  <2>1. Chunk[p] = Chunk[u]
    BY <1>3, IndexAssumption
  <2>2. n = <<0>> \o Entry[p] /\ Lookup(Chunk[u], u) = Entry[p]
    BY <1>3, <2>1 DEF ItemOf, Lookup
  <2> HIDE DEF n
  <2>3. n \in DOMAIN Link /\ (Link[n] = p \/ Link[n].hash = NoHash)
    BY <1>3, <2>2, IndexAssumption
  <2> QED
    BY <1>1, <2>2, <2>3, TreeAssumption DEF n
<1>4. CASE u \notin DOMAIN Entry /\ p \notin DOMAIN Entry
  <2>1. n = <<0>> \o <<>> /\ Lookup(Chunk[u], u) = <<>>
    BY <1>4 DEF ItemOf, Lookup
  <2>2. <<0>> \o <<>> = <<0>>
    OBVIOUS
  <2> HIDE DEF n
  <2>3. n \in DOMAIN Link /\ Link[n].hash = NoHash
    BY <2>1, <2>2, IndexAssumption DEF Url
  <2> QED
    BY <2>1, <2>3, TreeAssumption DEF n
<1>5. QED
  BY <1>2, <1>3, <1>4

\* A link of the tree is navigated to as it is.
LEMMA LinkLemma ==
  ASSUME NEW n \in DOMAIN Link
  PROVE  /\ Link[n] \in Urls /\ n \in Tree \ {<<>>}
         /\ \A u : Target(u, Link[n]) = Link[n] /\ Target(Link[n], NoLink) = Link[n]
<1>1. Link[n] \in Urls /\ n \in Tree \ {<<>>} /\ Link[n].hash \notin LineHashes
  BY TreeAssumption, IndexAssumption
<1>2. Link[n] # NoLink
  BY <1>1, LinkAssumption
<1>3. QED
  BY <1>1, <1>2 DEF Target

-----------------------------------------------------------------------------
(* What the functions leave of the selection and of the items.             *)

\* x has the items and the selection of t, and may have more items.
Frame(t, x) ==
  /\ x.at = t.at /\ x.selected = t.selected /\ x.crumbs = t.crumbs
  /\ Items(t) \subseteq Items(x)

LEMMA FrameLemma ==
  /\ \A t, x, y : Frame(t, x) /\ Frame(x, y) => Frame(t, y)
  /\ \A t, x, u : Frame(t, x) => /\ Here(t, u) = Here(x, u)
                                 /\ Before(t, u) => Before(x, u)
                                 /\ Shows(t, u) => Shows(x, u)
                                 /\ Single(t, u) /\ Quiet(x) => Single(x, u)
<1>1. \A t, x, y : Frame(t, x) /\ Frame(x, y) => Frame(t, y)
  BY DEF Frame
<1>2. ASSUME NEW t, NEW x, NEW u, Frame(t, x)
      PROVE  /\ Here(t, u) = Here(x, u)
             /\ Before(t, u) => Before(x, u)
             /\ Shows(t, u) => Shows(x, u)
             /\ Single(t, u) /\ Quiet(x) => Single(x, u)
  <2>1. Here(t, u) = Here(x, u)
    BY <1>2 DEF Frame, Here
  <2>2. Before(t, u) => Before(x, u)
    BY <1>2, <2>1 DEF Frame, Before
  <2>3. Shows(t, u) => Shows(x, u)
    BY <1>2, <2>1 DEF Frame, Shows
  <2>4. Single(t, u) /\ Quiet(x) => Single(x, u)
    BY <1>2, <2>2 DEF Frame, Single
  <2> QED
    BY <2>1, <2>2, <2>3, <2>4
<1>3. QED
  BY <1>1, <1>2

LEMMA BagLemma ==
  /\ \A t : t.requests = EmptyBag => Quiet(t)
  /\ \A r : BagToSet(SetToBag({r})) = {r} /\ EmptyBag # SetToBag({r})
  /\ \A r : EmptyBag (+) SetToBag({r}) = SetToBag({r})
<1>1. \A t : t.requests = EmptyBag => Quiet(t)
  BY DEF Quiet, BagToSet, EmptyBag, SetToBag
<1>2. \A r : BagToSet(SetToBag({r})) = {r} /\ EmptyBag # SetToBag({r})
  BY DEF BagToSet, EmptyBag, SetToBag
<1>3. \A r : EmptyBag (+) SetToBag({r}) = SetToBag({r})
  BY DEF EmptyBag, SetToBag, (+)
<1>4. QED
  BY <1>1, <1>2, <1>3

LEMMA OpenFrame ==
  ASSUME NEW t, Panel(t), NEW ns \in SUBSET Tree
  PROVE  LET x == Open(t, ns)
         IN  Frame(t, x) /\ x.requests = t.requests /\ \A n \in ns : x.built[n] > 0
<1> DEFINE b == [n \in Tree |-> IF n \in ns /\ t.built[n] = 0 THEN 1 ELSE t.built[n]]
           x == Open(t, ns)
<1>1. t.built \in [Tree -> {0, 1}]
  BY DEF Panel, NavType
<1>2. \A n \in Tree : (t.built[n] > 0 => b[n] > 0) /\ (n \in ns => b[n] > 0)
  BY <1>1
<1>3. /\ x.built = b /\ x.at = t.at /\ x.selected = t.selected /\ x.crumbs = t.crumbs
      /\ x.requests = t.requests
  BY <1>1 DEF Open, Panel, NavType
<1> HIDE DEF x, b
<1>4. Items(t) \subseteq Items(x)
  <2>1. \A n \in Tree \ {<<>>} : Parent(n) \in Tree
    BY TreeAssumption
  <2> QED
    BY <1>2, <1>3, <2>1 DEF Items
<1>5. QED
  BY <1>2, <1>3, <1>4 DEF Frame, x

LEMMA GetScriptFrame ==
  ASSUME NEW t, Panel(t), NEW r
  PROVE  LET x == GetScript(t, r)
         IN  Frame(t, x) /\ (t.requests = EmptyBag => x.requests = SetToBag({r}))
<1> DEFINE more == t.requests (+) SetToBag({r})
           x == [t EXCEPT !.requests = more]
<1>1. GetScript(t, r) = x
  BY DEF GetScript
<1>2. t.requests = EmptyBag => more = SetToBag({r})
  BY BagLemma
<1> HIDE DEF more
<1>3. /\ x.at = t.at /\ x.selected = t.selected /\ x.crumbs = t.crumbs
      /\ x.built = t.built /\ x.requests = more
  BY DEF Panel, NavType
<1> HIDE DEF x
<1>4. Items(t) \subseteq Items(x)
  BY <1>3 DEF Items
<1>5. QED
  BY <1>1, <1>2, <1>3, <1>4 DEF Frame

LEMMA ExpandNodeFrame ==
  ASSUME NEW t, Panel(t), NEW n \in Tree, NEW imm \in BOOLEAN, t.requests = EmptyBag
  PROVE  LET x == ExpandNode(t, n, imm)
         IN  Frame(t, x) /\ Quiet(x) /\ (~Awaited(t, n) => x.requests = EmptyBag)
<1> DEFINE x == ExpandNode(t, n, imm)
           r == [kind |-> "expand", node |-> n, imm |-> imm]
           o == Open(t, {n})
<1>1. CASE n \notin Inner \/ n \in t.expanded
  BY <1>1, BagLemma DEF ExpandNode, Frame
<1>2. CASE n \in Inner \ t.expanded /\ Awaited(t, n)
  <2>1. x = GetScript(t, r) /\ r.kind = "expand"
    BY <1>2 DEF ExpandNode
  <2> HIDE DEF x, r
  <2>2. Frame(t, x) /\ x.requests = SetToBag({r})
    BY <2>1, GetScriptFrame
  <2>3. Quiet(x)
    BY <2>1, <2>2, BagLemma DEF Quiet
  <2> QED
    BY <1>2, <2>2, <2>3 DEF x
<1>3. Frame(t, o) /\ o.requests = EmptyBag /\ Panel(o)
  BY OpenFrame, OpenLemma
<1>4. CASE n \in Inner \ t.expanded /\ ~Awaited(t, n) /\ imm
  <2>1. x = o
    BY <1>4 DEF ExpandNode
  <2> HIDE DEF x, o
  <2> QED
    BY <1>3, <2>1, BagLemma DEF x
<1>5. CASE n \in Inner \ t.expanded /\ ~Awaited(t, n) /\ ~imm
  <2> DEFINE down == Append(o.slides[n], "down")
             y == [[o EXCEPT !.shown = t.shown] EXCEPT !.slides[n] = down]
  <2>1. x = y
    BY <1>5 DEF ExpandNode
  <2> HIDE DEF o, down
  <2>2. /\ y.at = o.at /\ y.selected = o.selected /\ y.crumbs = o.crumbs
        /\ y.built = o.built /\ y.requests = o.requests
    BY <1>3 DEF Panel, NavType
  <2> HIDE DEF x, y
  <2>3. Frame(o, y)
    BY <2>2 DEF Frame, Items
  <2>4. Frame(t, y) /\ Quiet(y)
    BY <1>3, <2>2, <2>3, FrameLemma, BagLemma
  <2> QED
    BY <1>3, <2>1, <2>2, <2>4 DEF x
<1>6. QED
  BY <1>1, <1>2, <1>4, <1>5

-----------------------------------------------------------------------------
(* From the panel's functions to its handlers.                             *)

LEMMA WaitFinds ==
  ASSUME NEW t, Panel(t), NEW u \in Urls, t.requests = EmptyBag,
         NEW r \in Request, Follows(t, u, r), NEW one \in BOOLEAN, one => Before(t, u)
  PROVE  Finds(GetScript(t, r), u, one)
<1> DEFINE x == GetScript(t, r)
<1>1. Frame(t, x) /\ x.requests = SetToBag({r})
  BY GetScriptFrame
<1> HIDE DEF x
<1>2. Follows(x, u, r)
  BY <1>1 DEF Frame, Follows, LeadsOn, OnWay
<1>3. Heads(x, u)
  BY <1>1, <1>2 DEF Heads
<1>4. one => Single(x, u)
  BY <1>1, FrameLemma DEF Single
<1>5. QED
  BY <1>3, <1>4 DEF Finds, x

\* The item of u has been built, and is selected or left for the items of its
\* place in this page.
LEMMA SelectFinds ==
  ASSUME NEW t, Panel(t), NEW u \in Urls, t.requests = EmptyBag,
         ItemOf(u) \in Items(t), NEW one \in BOOLEAN, one => Before(t, u)
  PROVE  Finds(SelectAndHighlight(t, u.hash, {ItemOf(u)}), u, one)
<1> DEFINE i == ItemOf(u)
           h == u.hash
           ns == {i}
           as == IF h = NoHash THEN {} ELSE ItemsOf(t, Url(t.at.page, h))
           x == SelectAndHighlight(t, h, ns)
<1>1. ns \in SUBSET Tree
  BY ItemLemma
<1>2. as = Here(t, u) \cap Items(t)
  BY DEF ItemsOf, Here
<1> HIDE DEF h, ns
<1>3. /\ x.selected = t.selected \cup (IF as # {} THEN as ELSE ns)
      /\ x.at = t.at /\ x.built = t.built
      /\ x.crumbs = t.crumbs /\ x.requests = t.requests
  BY <1>1, SelectOutcome
<1> HIDE DEF x, as, i
<1>4. Here(x, u) = Here(t, u) /\ Items(x) = Items(t) /\ Quiet(x)
  BY <1>3, BagLemma DEF Here, Items
<1>5. Shows(x, u)
  <2>1. CASE as # {}
    <3>1. PICK n \in as : TRUE
      BY <2>1
    <3>2. n \in x.selected /\ n \in Here(x, u)
      BY <1>2, <1>3, <1>4, <2>1, <3>1
    <3> QED
      BY <3>2 DEF Shows
  <2>2. CASE as = {}
    BY <1>3, <2>2 DEF Shows, i, ns
  <2> QED
    BY <2>1, <2>2
<1>6. ASSUME one PROVE Single(x, u)
  <2>1. t.selected \subseteq as
    BY <1>2, <1>6 DEF Before
  <2>2. CASE as # {}
    <3>1. x.selected \subseteq Here(x, u) \cap Items(x)
      BY <1>2, <1>3, <1>4, <2>1, <2>2
    <3> QED
      BY <3>1 DEF Single, Before
  <2>3. CASE as = {}
    <3>1. x.selected = {i}
      BY <1>3, <2>1, <2>3 DEF ns
    <3> QED
      BY <1>4, <3>1 DEF Single, i
  <2> QED
    BY <2>2, <2>3
<1>7. QED
  BY <1>4, <1>5, <1>6 DEF Finds, Heads, x, h, ns, i

\* showNode, on the way to the item of u, reaches it or waits for the script
\* that leads on to it.
LEMMA ShowNodeFinds ==
  ASSUME NEW t, Panel(t), NEW u \in Urls, t.requests = EmptyBag, t.crumbs = ItemOf(u),
         NEW node \in Seq(Nat), OnWay(t, node), NEW one \in BOOLEAN, one => Before(t, u)
  PROVE  Finds(ShowNode(t, node, u.hash), u, one)
<1> DEFINE next == NextNode(t, node)
           way  == WayTo(t, node)
           res  == ShowNode(t, node, u.hash)
           opened == {Trail(t, node, k) : k \in ReadySteps(t, node)}
<1>1. t.crumbs \in Tree /\ u.hash \in Hashes
  BY ItemLemma, UrlLemma
<1>2. /\ Short(t, node) => Awaited(t, next) /\ OnWay(t, next)
      /\ ~Short(t, node) => /\ ~Lost(t, node) /\ next = t.crumbs /\ next # <<>>
                            /\ OnWay(t, Parent(next))
  BY <1>1, OnWayLemma
<1>3. opened \in SUBSET Tree
  <2>1. \A k \in ReadySteps(t, node) : Ready(t, Trail(t, node, k))
    BY StopsLemma, SMTT(30)
  <2> QED
    BY <2>1, NodeLemma DEF Ready
<1>4. way = Open(t, opened)
  BY DEF WayTo
<1>5. ~Short(t, node) => Parent(next) \in opened
  <2> SUFFICES ASSUME ~Short(t, node) PROVE Parent(next) \in opened
    OBVIOUS
  <2> DEFINE a == Len(node)
             stop == StopsAt(t, node)
             last == LastStep(t, node)
             end  == Len(t.crumbs)
  <2>1. /\ a \in Nat /\ last \in Nat /\ a <= last /\ stop \in a..(last + 1)
        /\ ReadySteps(t, node) = a..(stop - 1)
    BY StopsLemma, SMTT(30)
  <2>2. PICK k \in 0..(end - 1) : node = SubSeq(t.crumbs, 1, k)
    BY DEF OnWay
  <2>3. t.crumbs \in Seq(Nat) /\ end \in Nat
    BY DEF Panel, NavType
  <2>4. a < end /\ last = end - 1
    <3>1. Len(SubSeq(t.crumbs, 1, k)) = k
      BY <2>2, <2>3
    <3> QED
      BY <2>2, <2>3, <3>1 DEF LastStep
  <2>5. stop = end
    BY <2>1, <2>3, <2>4 DEF Short
  <2>6. Parent(Trail(t, node, end)) = Trail(t, node, end - 1)
    <3>1. end \in (a + 1)..end
      BY <2>1, <2>3, <2>4
    <3> QED
      BY <3>1, TrailLemma
  <2>7. next = Trail(t, node, end) /\ end - 1 \in ReadySteps(t, node)
    BY <2>1, <2>3, <2>4, <2>5 DEF NextNode
  <2> QED
    BY <2>6, <2>7
<1> HIDE DEF next, opened
<1>6. /\ Panel(way) /\ Frame(t, way) /\ way.requests = EmptyBag
      /\ \A n \in opened : way.built[n] > 0
  BY <1>3, <1>4, OpenFrame, OpenLemma
<1> HIDE DEF way, res
<1>7. one => Before(way, u)
  BY <1>6, FrameLemma
<1>8. ASSUME NEW k \in {"show", "retry"}, Awaited(t, next),
             OnWay(t, IF k = "show" THEN next ELSE Parent(next)),
             res = GetScript(way, Script(k, next, u.hash))
      PROVE  Finds(res, u, one)
  <2> DEFINE r == Script(k, next, u.hash)
  <2>1. r \in Request /\ r.kind = k /\ r.node = next /\ r.hash = u.hash
    BY <1>1, <1>8, ScriptLemma DEF Script
  <2> HIDE DEF r
  <2>2. way.crumbs = t.crumbs
    BY <1>6 DEF Frame
  <2>3. Follows(way, u, r)
    BY <1>8, <2>1, <2>2 DEF Follows, LeadsOn, OnWay
  <2>4. Finds(GetScript(way, r), u, one)
    BY <1>6, <1>7, <2>1, <2>3, WaitFinds
  <2> QED
    BY <1>8, <2>4 DEF r
<1>9. ASSUME ~Short(t, node), ~Awaited(t, next),
             NEW x \in {way, ExpandNode(way, next, TRUE)},
             res = SelectAndHighlight(x, u.hash, {next})
      PROVE  Finds(res, u, one)
  <2>1. next = ItemOf(u) /\ next \in Tree \ {<<>>} /\ Parent(next) \in opened
    BY <1>1, <1>2, <1>5, <1>9
  <2>2. ~Awaited(way, next)
    <3>1. way.have = t.have
      BY <1>4 DEF Open, Panel, NavType
    <3> QED
      BY <1>9, <3>1 DEF Awaited
  <2>3. Panel(x) /\ Frame(way, x) /\ x.requests = EmptyBag
    <3>1. /\ Panel(ExpandNode(way, next, TRUE)) /\ Frame(way, ExpandNode(way, next, TRUE))
          /\ ExpandNode(way, next, TRUE).requests = EmptyBag
      BY <1>6, <2>1, <2>2, ExpandNodeLemma, ExpandNodeFrame
    <3>2. Frame(way, way)
      BY DEF Frame
    <3> QED
      BY <1>6, <1>9, <3>1, <3>2
  <2>4. ItemOf(u) \in Items(x)
    <3>1. next \in Items(way)
      BY <1>6, <2>1 DEF Items
    <3> QED
      BY <2>1, <2>3, <3>1 DEF Frame
  <2>5. one => Before(x, u)
    BY <1>7, <2>3, FrameLemma
  <2>6. Finds(SelectAndHighlight(x, u.hash, {ItemOf(u)}), u, one)
    BY <2>3, <2>4, <2>5, SelectFinds
  <2> QED
    BY <1>9, <2>1, <2>6
<1>10. Goes(t, node, u.hash)
  BY GoesLemma
<1>11. CASE Short(t, node) /\ Awaited(t, next) /\ res = GetScript(way, Script("show", next, u.hash))
  BY <1>2, <1>8, <1>11 DEF res
<1>12. CASE /\ ~Short(t, node) /\ Awaited(t, next)
            /\ res = GetScript(way, Script("retry", next, u.hash))
  BY <1>2, <1>8, <1>12 DEF res
<1>13. CASE /\ ~Short(t, node) /\ ~Awaited(t, next)
            /\ \E x \in {way, ExpandNode(way, next, TRUE)} :
                 res = SelectAndHighlight(x, u.hash, {next})
  BY <1>9, <1>13 DEF res
<1>14. QED
  BY <1>2, <1>10, <1>11, <1>12, <1>13 DEF Goes, next, way, res

LEMMA GotoNodeFinds ==
  ASSUME NEW t, Panel(t), NEW u \in Urls, t.requests = EmptyBag,
         NEW one \in BOOLEAN, one => Before(t, u)
  PROVE  Finds(GotoNode(t, u), u, one)
<1> DEFINE c == <<0>> \o Lookup(Chunk[u], u)
           x == [t EXCEPT !.crumbs = c]
<1>1. c = ItemOf(u)
  BY ItemLemma
<1>2. Len(c) \in Nat \ {0} /\ c \in Seq(Nat)
  BY LookupLemma
<1>3. GotoNode(t, u) = ShowNode(x, <<>>, u.hash)
  BY DEF GotoNode
<1> HIDE DEF c
<1>4. /\ Panel(x) /\ x.crumbs = c /\ x.at = t.at /\ x.selected = t.selected
      /\ x.built = t.built /\ x.requests = EmptyBag
  <2>1. Panel(x)
    BY <1>2, SmallLemma
  <2>2. /\ x.crumbs = c /\ x.at = t.at /\ x.selected = t.selected
        /\ x.built = t.built /\ x.requests = t.requests
    BY DEF Panel, NavType
  <2> QED
    BY <2>1, <2>2
<1> HIDE DEF x
<1>5. OnWay(x, <<>>)
  <2>1. SubSeq(c, 1, 0) = <<>> /\ 0 \in 0..(Len(c) - 1)
    BY <1>2
  <2> QED
    BY <1>4, <2>1 DEF OnWay
<1>6. one => Before(x, u)
  BY <1>4 DEF Before, Here, Items
<1>7. <<>> \in Seq(Nat)
  OBVIOUS
<1>8. QED
  BY <1>1, <1>3, <1>4, <1>5, <1>6, <1>7, ShowNodeFinds

LEMMA NavToFinds ==
  ASSUME NEW t, Panel(t), NEW u \in Urls, t.requests = EmptyBag,
         NEW one \in BOOLEAN, one => Before(t, u)
  PROVE  Finds(NavTo(t, u), u, one)
<1>1. CASE Chunk[u] \in t.chunks
  BY <1>1, GotoNodeFinds DEF NavTo
<1>2. CASE Chunk[u] \notin t.chunks
  <2> DEFINE r == [kind |-> "index", to |-> u]
  <2>1. NavTo(t, u) = GetScript(t, r) /\ r \in Request /\ r.kind = "index" /\ r.to = u
    BY <1>2 DEF NavTo, Request
  <2> HIDE DEF r
  <2>2. Follows(t, u, r)
    BY <2>1 DEF Follows
  <2> QED
    BY <2>1, <2>2, WaitFinds
<1>3. QED
  BY <1>1, <1>2

\* The location of t has changed to another place of its page.  u was navigated
\* to before.  A selection that is kept has the link that is navigated to now.
LEMMA OnHashChangeFinds ==
  ASSUME NEW t, Panel(t), t.requests = EmptyBag, NEW link \in Urls \cup {NoLink},
         NEW u \in Urls, NEW one \in BOOLEAN, Finds(t, u, one),
         one /\ link # NoLink => u = Target(u, link)
  PROVE  Finds(OnHashChange(t, link),
               IF t.at.hash = NoHash /\ t.busy THEN u ELSE Target(t.at, link), one)
<1> DEFINE v == Target(t.at, link)
           clear == [t EXCEPT !.selected = {}]
           here == ItemsOf(t, t.at) \cap t.selected # {}
<1>1. t.at \in Urls /\ v \in Urls
  BY TargetLemma DEF Panel, NavType
<1>2. Panel(clear) /\ clear.selected = {} /\ clear.requests = EmptyBag
  <2>1. Panel(clear)
    BY SmallLemma
  <2> QED
    BY <2>1 DEF Panel, NavType
<1>3. CASE t.at.hash = NoHash /\ t.busy
  BY <1>3 DEF OnHashChange
<1>4. ASSUME one, here, t.at.hash # NoHash
      PROVE  Before(t, v)
  <2>1. PICK m \in Items(t) \cap DOMAIN Link : Link[m] = t.at /\ m \in t.selected
    BY <1>4 DEF ItemsOf
  <2>2. Link[m] = Url(t.at.page, t.at.hash)
    BY <1>1, <2>1, UrlLemma
  <2>3. Before(t, u) \/ (t.selected = {ItemOf(u)} /\ ItemOf(u) = m)
    BY <1>4, <2>1 DEF Finds, Single
  <2>4. CASE link = NoLink
    <3>1. v = t.at
      BY <2>1, <2>4, LinkLemma
    <3>2. m \in Here(t, v)
      BY <1>4, <2>1, <2>2, <3>1 DEF Here
    <3>3. CASE Before(t, u)
      <4>1. m \in Here(t, u)
        BY <2>1, <3>3 DEF Before
      <4>2. u.hash = t.at.hash
        BY <2>2, <4>1 DEF Here, Url
      <4>3. Here(t, u) = Here(t, v)
        BY <3>1, <4>2 DEF Here
      <4> QED
        BY <3>3, <4>3 DEF Before
    <3>4. CASE t.selected = {ItemOf(u)} /\ ItemOf(u) = m
      BY <2>1, <3>2, <3>4 DEF Before
    <3> QED
      BY <2>3, <3>3, <3>4
  <2>5. CASE link # NoLink
    <3>1. v = u
      BY <1>4, <2>5 DEF Target
    <3>2. CASE t.selected = {ItemOf(u)} /\ ItemOf(u) = m
      <4>1. u = t.at
        BY <1>4, <2>1, <3>2, ItemLemma
      <4>2. m \in Here(t, u)
        BY <1>4, <2>1, <2>2, <4>1 DEF Here
      <4> QED
        BY <2>1, <3>1, <3>2, <4>2 DEF Before
    <3> QED
      BY <2>3, <3>1, <3>2
  <2> QED
    BY <2>4, <2>5
<1>5. Before(clear, v)
  BY <1>2 DEF Before
<1>6. Finds(NavTo(clear, v), v, one)
  BY <1>1, <1>2, <1>5, NavToFinds
<1>7. here /\ t.at.hash # NoHash => Finds(NavTo(t, v), v, one)
  BY <1>1, <1>4, NavToFinds
<1>8. CASE ~(t.at.hash = NoHash /\ t.busy)
  <2>1. \/ OnHashChange(t, link) = NavTo(clear, v)
        \/ here /\ t.at.hash # NoHash /\ OnHashChange(t, link) = NavTo(t, v)
    BY <1>8 DEF OnHashChange
  <2> HIDE DEF v, clear, here
  <2>2. Finds(OnHashChange(t, link), v, one)
    BY <1>6, <1>7, <2>1
  <2> QED
    BY <1>8, <2>2 DEF v
<1>9. QED
  BY <1>3, <1>8

\* What the script of t, which is no longer under way in it, brings about.
LEMMA OnLoadFinds ==
  ASSUME NEW t, Panel(t), NEW r \in Request, t.requests = EmptyBag,
         NEW u \in Urls, NEW one \in BOOLEAN,
         \/ r.kind = "expand" /\ Shows(t, u) /\ (one => Single(t, u))
         \/ Follows(t, u, r) /\ (one => Before(t, u))
  PROVE  Finds(OnLoad(t, r), u, one)
<1>1. CASE r \in [kind : {"index"}, to : Urls]
  <2> DEFINE cs == t.chunks \cup {Chunk[r.to]}
             x  == [t EXCEPT !.chunks = cs]
  <2>1. cs \in SUBSET Nat /\ r.to = u /\ (one => Before(t, u))
    <3>1. cs \in SUBSET Nat
      BY <1>1, LinkAssumption DEF Panel, NavType
    <3>2. Follows(t, u, r) /\ (one => Before(t, u)) /\ r.kind = "index"
      BY <1>1
    <3> QED
      BY <3>1, <3>2 DEF Follows
  <2>2. OnLoad(t, r) = GotoNode(x, r.to)
    BY <1>1 DEF OnLoad
  <2> HIDE DEF cs
  <2>3. Panel(x)
    BY <2>1, SmallLemma
  <2>4. /\ x.at = t.at /\ x.selected = t.selected /\ x.crumbs = t.crumbs
        /\ x.built = t.built /\ x.requests = EmptyBag
    BY DEF Panel, NavType
  <2> HIDE DEF x
  <2>5. one => Before(x, u)
    BY <2>1, <2>4 DEF Before, Here, Items
  <2> QED
    BY <2>1, <2>2, <2>3, <2>4, <2>5, GotoNodeFinds
<1>2. CASE r \in [kind : {"expand"}, node : Lazy, imm : BOOLEAN]
  <2> DEFINE x == [t EXCEPT !.have = @ \cup {r.node}]
             y == ExpandNode(x, r.node, r.imm)
  <2>1. OnLoad(t, r) = y
    BY <1>2 DEF OnLoad
  <2>2. r.node \in Lazy /\ r.node \in Tree /\ r.imm \in BOOLEAN
    BY <1>2, NodeLemma, TreeAssumption
  <2>3. Panel(x) /\ Loaded(t, r.node, x)
    BY <2>2, LoadedLemma
  <2>4. Shows(t, u) /\ (one => Single(t, u))
    BY <1>2 DEF Follows
  <2> HIDE DEF x
  <2>5. Frame(t, x) /\ x.requests = EmptyBag
    BY <2>3 DEF Loaded, Frame, Items
  <2>6. Frame(x, y) /\ Quiet(y)
    BY <2>2, <2>3, <2>5, ExpandNodeFrame
  <2> HIDE DEF y
  <2>7. Frame(t, y)
    BY <2>5, <2>6, FrameLemma
  <2>8. Shows(y, u) /\ (one => Single(y, u))
    BY <2>4, <2>6, <2>7, FrameLemma
  <2> QED
    BY <2>1, <2>6, <2>8 DEF Finds, Heads
<1>3. CASE r \in [kind : {"show", "retry"}, node : Lazy, hash : Hashes]
  <2> DEFINE p == Parent(r.node)
             x == [t EXCEPT !.have = @ \cup {r.node}]
             y == [t EXCEPT !.have = @ \cup {r.node}, !.expanded = @ \ {p}]
  <2>1. r.node \in Lazy /\ r.node \in Seq(Nat) /\ p \in Seq(Nat) /\ r.kind \in {"show", "retry"}
    BY <1>3, NodeLemma
  <2>2. r.kind = "show" => OnLoad(t, r) = ShowNode(x, r.node, r.hash)
    BY DEF OnLoad
  <2>3. r.kind = "retry" => OnLoad(t, r) = ShowNode(y, p, r.hash)
    BY DEF OnLoad
  <2>4. Panel(x) /\ Loaded(t, r.node, x) /\ Panel(y) /\ Loaded(t, r.node, y)
    BY <2>1, LoadedLemma
  <2>5. /\ r.hash = u.hash /\ t.crumbs = ItemOf(u) /\ (one => Before(t, u))
        /\ r.kind = "show" => OnWay(t, r.node)
        /\ r.kind = "retry" => OnWay(t, p)
    BY <1>3 DEF Follows, LeadsOn
  <2> HIDE DEF x, y, p
  <2>6. ASSUME NEW z, Panel(z), Loaded(t, r.node, z), NEW n \in Seq(Nat), OnWay(t, n)
        PROVE  Finds(ShowNode(z, n, u.hash), u, one)
    <3>1. /\ Frame(t, z) /\ z.requests = EmptyBag /\ z.crumbs = ItemOf(u)
          /\ OnWay(z, n)
      BY <2>5, <2>6 DEF Loaded, Frame, Items, OnWay
    <3>2. one => Before(z, u)
      BY <2>5, <3>1, FrameLemma
    <3> QED
      BY <2>6, <3>1, <3>2, ShowNodeFinds
  <2>7. CASE r.kind = "show"
    BY <2>1, <2>2, <2>4, <2>5, <2>6, <2>7
  <2>8. CASE r.kind = "retry"
    BY <2>1, <2>3, <2>4, <2>5, <2>6, <2>8
  <2> QED
    BY <2>1, <2>7, <2>8
<1>4. QED
  BY <1>1, <1>2, <1>3 DEF Request

\* What an animation or an arrow changes does not matter here.
LEMMA FrameFinds ==
  ASSUME NEW t, NEW x, Frame(t, x), Quiet(x), t.requests = EmptyBag,
         NEW u, NEW one \in BOOLEAN, Finds(t, u, one)
  PROVE  Finds(x, u, one)
<1>1. Shows(t, u)
  BY BagLemma DEF Finds, Heads
<1>2. QED
  BY <1>1, FrameLemma DEF Finds, Heads

\* The same where scripts may be under way, but nothing is built.
LEMMA SameFinds ==
  ASSUME NEW t, NEW x, x.at = t.at, x.selected = t.selected, x.crumbs = t.crumbs,
         x.built = t.built, x.requests = t.requests,
         NEW u, NEW one \in BOOLEAN, Finds(t, u, one)
  PROVE  Finds(x, u, one)
<1>1. Frame(t, x) /\ (Quiet(t) <=> Quiet(x))
  BY DEF Frame, Items, Quiet
<1>2. \A r : Follows(t, u, r) => Follows(x, u, r)
  BY DEF Follows, LeadsOn, OnWay
<1>3. Heads(t, u) => Heads(x, u)
  BY <1>1, <1>2, FrameLemma DEF Heads
<1>4. Single(t, u) => Single(x, u)
  <2>1. Before(t, u) => Before(x, u)
    BY <1>1, FrameLemma
  <2>2. Items(x) = Items(t)
    BY DEF Items
  <2> QED
    BY <1>1, <2>1, <2>2 DEF Single
<1>5. QED
  BY <1>3, <1>4 DEF Finds

Steady == reader = "steady"

\* While such a reader has a link stored, it is the last one followed.
Kept == Steady /\ loaded /\ stored # NoLink => aim = Target(aim, stored)

LEMMA MoveToFinds ==
  ASSUME Inv, NEW t, Panel(t), NEW h, OnPage(t.at, h), MoveTo(t, h),
         t.requests = EmptyBag, Finds(t, aim, Steady), Kept, loaded
  PROVE  /\ Finds(nav', aim', Steady)
         /\ Steady /\ stored # NoLink => aim' = Target(aim', stored)
<1> DEFINE u == Url(t.at.page, h)
           x == [t EXCEPT !.at = u]
<1>1. /\ nav' = OnHashChange(x, stored)
      /\ aim' = IF h = NoHash /\ t.busy THEN aim ELSE Target(u, stored)
  BY DEF MoveTo
<1>2. u.page = t.at.page /\ u.hash = h
  BY DEF Url
<1>3. /\ Panel(x) /\ x.at = u /\ x.crumbs = t.crumbs /\ x.selected = t.selected
      /\ x.requests = t.requests /\ x.built = t.built /\ x.busy = t.busy
  BY PlaceLemma
<1> HIDE DEF u, x
<1>4. Finds(x, aim, Steady)
  <2>1. Shows(t, aim)
    BY BagLemma DEF Finds, Heads
  <2>2. Here(x, aim) = Here(t, aim) /\ Items(x) = Items(t) /\ Quiet(x)
    BY <1>2, <1>3, BagLemma DEF Here, Items
  <2>3. Shows(x, aim)
    BY <1>3, <2>1, <2>2 DEF Shows
  <2>4. Single(t, aim) => Single(x, aim)
    BY <1>3, <2>2 DEF Single, Before
  <2> QED
    BY <2>2, <2>3, <2>4 DEF Finds, Heads
<1>5. Steady /\ stored # NoLink => aim = Target(aim, stored)
  BY DEF Kept
<1>6. Steady \in BOOLEAN /\ stored \in Urls \cup {NoLink} /\ aim \in Urls
  BY DEF Steady, Inv
<1>7. Finds(OnHashChange(x, stored),
            IF x.at.hash = NoHash /\ x.busy THEN aim ELSE Target(x.at, stored), Steady)
  BY <1>3, <1>4, <1>5, <1>6, OnHashChangeFinds
<1>8. Finds(nav', aim', Steady)
  BY <1>1, <1>2, <1>3, <1>7
<1>9. stored # NoLink => Target(Target(u, stored), stored) = Target(u, stored)
  BY DEF Target
<1>10. QED
  BY <1>1, <1>5, <1>8, <1>9

LEMMA ReaderFinds ==
  ASSUME Inv, Orderly, Following, Reader, reader # "hasty"
  PROVE  /\ ~loaded' => nav'.selected = {}
         /\ loaded' => /\ Finds(nav', aim', Steady)
                       /\ Steady /\ stored' # NoLink => aim' = Target(aim', stored')
<1>1. ASSUME Acts
      PROVE  /\ Panel(nav) /\ nav.requests = EmptyBag /\ loaded
             /\ Finds(nav, aim, Steady) /\ Kept
  BY <1>1, IdleLemma DEF Acts, Orderly, Inv, Following, Steady, Kept
<1>2. CASE HashChanges
  <2>1. PICK u \in Urls : u.page = nav.at.page /\ MoveTo(nav, u.hash)
    BY <1>2 DEF HashChanges
  <2>2. OnPage(nav.at, u.hash)
    BY <2>1, UrlLemma DEF OnPage
  <2>3. Acts /\ UNCHANGED <<loaded, stored>>
    BY <1>2 DEF HashChanges
  <2> QED
    BY <1>1, <2>1, <2>2, <2>3, MoveToFinds
<1>3. CASE OpenPage
  BY <1>3 DEF OpenPage, LoadPage, FreshNav
<1>4. CASE ClickSync
  <2>1. Acts /\ UNCHANGED <<nav, aim, loaded>> /\ ~Steady
    BY <1>4 DEF ClickSync, Steady
  <2> QED
    BY <1>1, <2>1
<1>5. ASSUME NEW n \in Tree, ClickArrow(n)
      PROVE  /\ loaded' /\ Finds(nav', aim', Steady)
             /\ Steady /\ stored' # NoLink => aim' = Target(aim', stored')
  <2>1. Acts /\ UNCHANGED <<loaded, stored, aim>>
    BY <1>5 DEF ClickArrow
  <2>2. Frame(nav, nav') /\ Quiet(nav')
    <3>1. CASE n \in nav.expanded
      <4> DEFINE up == Append(nav.slides[n], "up")
                 j == [nav EXCEPT !.slides[n] = up, !.expanded = @ \ {n}]
      <4>1. nav' = j
        BY <1>5, <3>1 DEF ClickArrow
      <4> HIDE DEF up
      <4>2. /\ j.at = nav.at /\ j.selected = nav.selected /\ j.crumbs = nav.crumbs
            /\ j.built = nav.built /\ j.requests = nav.requests
        BY <1>1, <2>1 DEF Panel, NavType
      <4> HIDE DEF j
      <4> QED
        BY <1>1, <2>1, <4>1, <4>2, BagLemma DEF Frame, Items
    <3>2. CASE n \notin nav.expanded
      <4>1. nav' = ExpandNode(nav, n, FALSE)
        BY <1>5, <3>2 DEF ClickArrow
      <4> QED
        BY <1>1, <2>1, <4>1, ExpandNodeFrame
    <3> QED
      BY <3>1, <3>2
  <2>3. Steady \in BOOLEAN
    BY DEF Steady
  <2>4. Finds(nav', aim, Steady)
    BY <1>1, <2>1, <2>2, <2>3, FrameFinds
  <2> QED
    BY <1>1, <2>1, <2>4 DEF Kept
<1>6. ASSUME NEW n \in Tree, ClickItem(n)
      PROVE  /\ ~loaded' => nav'.selected = {}
             /\ loaded' => /\ Finds(nav', aim', Steady)
                           /\ Steady /\ stored' # NoLink => aim' = Target(aim', stored')
  <2>1. Acts /\ n \in Items(nav) /\ n \in DOMAIN Link
    BY <1>6 DEF ClickItem, Visible
  <2>2. CASE Link[n].hash # NoHash /\ Link[n].page = nav.at.page
    <3> DEFINE v == Link[n]
               t == IF n \in nav.selected THEN nav ELSE [nav EXCEPT !.selected = {n}]
               j == GotoAnchor(t, v.hash, TRUE)
    <3>1. loaded' = loaded /\ nav' = j /\ aim' = v /\ stored' = StoreLink(v)
      BY <1>6, <2>2 DEF ClickItem
    <3>2. v \in Urls /\ Target(v, v) = v
      BY <2>1, LinkLemma
    <3>3. v = Url(nav.at.page, v.hash) /\ v.hash # NoHash
      BY <2>2, <3>2, UrlLemma
    <3>4. /\ j.at = nav.at /\ j.built = nav.built /\ j.requests = EmptyBag
          /\ j.selected = IF n \in nav.selected THEN nav.selected ELSE {n}
      BY <1>1, <2>1 DEF GotoAnchor, Panel, NavType
    <3> HIDE DEF j
    <3>5. n \in Here(nav, v) /\ Here(j, v) = Here(nav, v) /\ Items(j) = Items(nav)
      BY <2>1, <3>3, <3>4 DEF Here, Items
    <3>6. Heads(j, v)
      BY <3>4, <3>5, BagLemma DEF Heads, Shows
    <3>7. ASSUME Steady PROVE Before(j, v)
      <4>1. CASE n \in nav.selected
        <5>1. Before(nav, aim) \/ nav.selected = {n}
          BY <1>1, <2>1, <3>7, <4>1 DEF Finds, Single
        <5>2. ASSUME Before(nav, aim) PROVE Here(nav, aim) = Here(nav, v)
          <6>1. n \in Here(nav, aim)
            BY <4>1, <5>2 DEF Before
          <6>2. v.hash = aim.hash
            BY <6>1 DEF Here, Url
          <6> QED
            BY <6>2 DEF Here
        <5> QED
          BY <2>1, <3>4, <3>5, <4>1, <5>1, <5>2 DEF Before
      <4>2. CASE n \notin nav.selected
        BY <2>1, <3>4, <3>5, <4>2 DEF Before
      <4> QED
        BY <4>1, <4>2
    <3>8. stored' \in {NoLink, v}
      BY <3>1 DEF StoreLink, Inv
    <3>9. Finds(j, v, Steady)
      BY <3>6, <3>7 DEF Finds, Single
    <3>10. stored' # NoLink => Target(v, stored') = v
      BY <3>2, <3>8
    <3> HIDE DEF v
    <3> QED
      BY <1>1, <2>1, <3>1, <3>9, <3>10
  <2>3. CASE ~(Link[n].hash # NoHash /\ Link[n].page = nav.at.page)
    <3>1. LoadPage(Link[n], StoreLink(Link[n]))
      BY <1>6, <2>3 DEF ClickItem
    <3>2. nav' = FreshNav(Link[n]) /\ loaded' = FALSE
      BY <3>1 DEF LoadPage
    <3> QED
      BY <3>2 DEF FreshNav
  <2> QED
    BY <2>2, <2>3
<1>7. QED
  BY <1>2, <1>3, <1>4, <1>5, <1>6 DEF Reader

LEMMA BrowserFinds ==
  ASSUME Inv, Orderly, Following, Browser, reader # "hasty"
  PROVE  /\ ~loaded' => nav'.selected = {}
         /\ loaded' => /\ Finds(nav', aim', Steady)
                       /\ Steady /\ stored' # NoLink => aim' = Target(aim', stored')
<1>1. Steady \in BOOLEAN /\ Panel(nav) /\ aim \in Urls
  BY DEF Steady, Inv
<1>2. CASE WindowLoad
  <2> DEFINE u == Target(nav.at, stored)
             x == NavTo(nav, u)
             y == ShowRoot(x)
  <2>1. u \in Urls
    BY TargetLemma DEF Inv, Panel, NavType
  <2>2. nav.requests = EmptyBag /\ nav.selected = {}
    BY <1>2 DEF WindowLoad, Orderly, Idle, Following
  <2>3. nav' = y /\ aim' = u /\ loaded' /\ stored' = stored
    BY <1>2 DEF WindowLoad
  <2>4. stored # NoLink => u = Target(u, stored)
    BY DEF Target
  <2> HIDE DEF u
  <2>5. Before(nav, u)
    BY <2>2 DEF Before
  <2>6. Finds(x, u, Steady) /\ Panel(x)
    BY <1>1, <2>1, <2>2, <2>5, NavToFinds, NavToLemma
  <2> HIDE DEF x
  <2>7. /\ y.at = x.at /\ y.selected = x.selected /\ y.crumbs = x.crumbs
        /\ y.built = x.built /\ y.requests = x.requests
    BY <2>6 DEF ShowRoot, Panel, NavType
  <2> HIDE DEF y
  <2>8. Finds(y, u, Steady)
    BY <1>1, <2>6, <2>7, SameFinds
  <2> QED
    BY <2>3, <2>4, <2>8
<1>3. ASSUME loaded, loaded' = loaded, UNCHANGED <<stored, aim>>, Finds(nav', aim, Steady)
      PROVE  /\ loaded' /\ Finds(nav', aim', Steady)
             /\ Steady /\ stored' # NoLink => aim' = Target(aim', stored')
  BY <1>3 DEF Following, Steady
<1>4. CASE ScrollEnds
  <2> DEFINE s == Head(nav.scrolls)
             t == [nav EXCEPT !.scrolls = Tail(@), !.busy = FALSE]
  <2>1. nav.scrolls # <<>> /\ UNCHANGED <<loaded, stored>>
    BY <1>4 DEF ScrollEnds
  <2>2. loaded /\ Finds(nav, aim, Steady) /\ Kept
    BY <2>1 DEF Orderly, Idle, Following, Steady, Kept
  <2>3. /\ Panel(t) /\ OnPage(t.at, s.to) /\ t.at = nav.at /\ t.selected = nav.selected
        /\ t.crumbs = nav.crumbs /\ t.built = nav.built /\ t.requests = nav.requests
    BY <1>1, <2>1, ScrollLemma
  <2>4. \/ s.update /\ MoveTo(t, s.to)
        \/ nav' = t /\ UNCHANGED aim
    BY <1>4, Zenon DEF ScrollEnds
  <2> HIDE DEF t
  <2>5. Finds(t, aim, Steady)
    BY <1>1, <2>2, <2>3, SameFinds
  <2>6. s.update => nav.requests = EmptyBag
    <3>1. Scrolling(nav) \/ Turning(nav) => nav.requests = EmptyBag
      BY DEF Scrolling, Turning
    <3>2. 1 \in DOMAIN nav.scrolls /\ s = nav.scrolls[1]
      BY <1>1, <2>1 DEF Panel, NavType
    <3>3. Calm(nav) => ~s.update
      BY <3>2 DEF Calm, Still, NoUpdates
    <3> QED
      BY <3>1, <3>3 DEF Orderly
  <2> HIDE DEF s
  <2>7. CASE s.update /\ MoveTo(t, s.to)
    <3>1. /\ Finds(nav', aim', Steady)
          /\ Steady /\ stored # NoLink => aim' = Target(aim', stored)
      BY <2>2, <2>3, <2>5, <2>6, <2>7, MoveToFinds
    <3> QED
      BY <2>1, <2>2, <3>1
  <2>8. CASE nav' = t /\ UNCHANGED aim
    BY <1>3, <2>1, <2>2, <2>5, <2>8
  <2> QED
    BY <2>4, <2>7, <2>8
<1>5. CASE PollEnds
  <2> DEFINE j == [nav EXCEPT !.polling = FALSE]
  <2>1. nav' = j /\ UNCHANGED <<loaded, stored, aim>> /\ nav.selected # {}
    BY <1>5 DEF PollEnds
  <2>2. /\ j.at = nav.at /\ j.selected = nav.selected /\ j.crumbs = nav.crumbs
        /\ j.built = nav.built /\ j.requests = nav.requests
    BY <1>1 DEF Panel, NavType
  <2> HIDE DEF j
  <2>3. loaded /\ Finds(nav, aim, Steady)
    BY <2>1 DEF Following, Steady
  <2>4. Finds(j, aim, Steady)
    BY <1>1, <2>2, <2>3, SameFinds
  <2> QED
    BY <1>3, <2>1, <2>3, <2>4
<1>6. ASSUME NEW r, ScriptArrives(r)
      PROVE  /\ loaded' /\ Finds(nav', aim', Steady)
             /\ Steady /\ stored' # NoLink => aim' = Target(aim', stored')
  <2> DEFINE t == [nav EXCEPT !.requests = @ (-) SetToBag({r})]
  <2>1. BagIn(r, nav.requests) /\ nav' = OnLoad(t, r) /\ UNCHANGED <<loaded, stored, aim>>
    BY <1>6 DEF ScriptArrives
  <2>2. r \in Request /\ Panel(t)
    BY <1>1, <2>1, ArrivalLemma
  <2>3. nav.requests # EmptyBag
    BY <2>1 DEF BagIn, BagToSet, EmptyBag, SetToBag
  <2>4. loaded /\ Finds(nav, aim, Steady)
    BY <2>3 DEF Orderly, Idle, Following, Steady
  <2>5. nav.requests = SetToBag({r})
    <3>1. Calm(nav)
      BY <2>3 DEF Orderly, Turning, Scrolling
    <3>2. PICK o \in Request : nav.requests = SetToBag({o})
      BY <2>3, <3>1 DEF Calm, Alone
    <3>3. o = r
      BY <2>1, <3>2 DEF BagIn, BagToSet, SetToBag
    <3> QED
      BY <3>2, <3>3
  <2>6. nav.requests (-) SetToBag({r}) = EmptyBag
    BY <2>5 DEF EmptyBag, SetToBag, (-)
  <2>7. /\ t.requests = EmptyBag /\ t.at = nav.at /\ t.selected = nav.selected
        /\ t.crumbs = nav.crumbs /\ t.built = nav.built
    BY <1>1, <2>6 DEF Panel, NavType
  <2> HIDE DEF t
  <2>8. Frame(nav, t) /\ Quiet(t)
    BY <2>7, BagLemma DEF Frame, Items
  <2>9. BagToSet(nav.requests) = {r}
    BY <2>5, BagLemma
  <2>10. \/ r.kind = "expand" /\ Shows(nav, aim) /\ (Steady => Single(nav, aim))
         \/ Follows(nav, aim, r) /\ (Steady => Before(nav, aim))
    <3>1. CASE Quiet(nav)
      <4>1. r.kind = "expand"
        BY <2>9, <3>1 DEF Quiet
      <4>2. \A o : nav.requests = SetToBag({o}) => o = r
        BY <2>9, BagLemma
      <4>3. ~Follows(nav, aim, r)
        BY <4>1 DEF Follows
      <4> QED
        BY <2>4, <4>1, <4>2, <4>3 DEF Finds, Heads
    <3>2. CASE ~Quiet(nav)
      <4>1. \A o : nav.requests = SetToBag({o}) => o = r
        BY <2>9, BagLemma
      <4>2. Follows(nav, aim, r)
        BY <2>4, <3>2, <4>1 DEF Finds, Heads
      <4> QED
        BY <2>4, <3>2, <4>2 DEF Finds, Single
    <3> QED
      BY <3>1, <3>2
  <2>11. \/ r.kind = "expand" /\ Shows(t, aim) /\ (Steady => Single(t, aim))
         \/ Follows(t, aim, r) /\ (Steady => Before(t, aim))
    <3>1. Follows(nav, aim, r) => Follows(t, aim, r)
      BY <2>7 DEF Follows, LeadsOn, OnWay
    <3> QED
      BY <2>8, <2>10, <3>1, FrameLemma
  <2>12. Finds(OnLoad(t, r), aim, Steady)
    BY <1>1, <2>2, <2>7, <2>11, OnLoadFinds
  <2> QED
    BY <1>3, <2>1, <2>4, <2>12
<1>7. ASSUME NEW n \in Tree, SlideEnds(n)
      PROVE  /\ loaded' /\ Finds(nav', aim', Steady)
             /\ Steady /\ stored' # NoLink => aim' = Target(aim', stored')
  <2> DEFINE rest == Tail(nav.slides[n])
             sh == IF Head(nav.slides[n]) = "up" THEN nav.shown \ {n} ELSE nav.shown \cup {n}
             j == [nav EXCEPT !.slides[n] = rest, !.shown = sh]
  <2>1. nav.slides[n] # <<>> /\ UNCHANGED <<loaded, stored, aim>> /\ nav' = j
    BY <1>7 DEF SlideEnds
  <2>2. loaded /\ Finds(nav, aim, Steady)
    BY <2>1 DEF Orderly, Idle, Following, Steady
  <2> HIDE DEF rest, sh
  <2>3. /\ j.at = nav.at /\ j.selected = nav.selected /\ j.crumbs = nav.crumbs
        /\ j.built = nav.built /\ j.requests = nav.requests
    BY <1>1 DEF Panel, NavType
  <2> HIDE DEF j
  <2>4. Finds(j, aim, Steady)
    BY <1>1, <2>2, <2>3, SameFinds
  <2> QED
    BY <1>3, <2>1, <2>2, <2>4
<1>8. QED
  BY <1>2, <1>4, <1>5, <1>6, <1>7 DEF Browser

\* The invariant of the reader who waits.
LEMMA FollowingInvariant == Spec => [](Inv /\ Orderly /\ Following)
<1>1. Init => Orderly /\ Following
  BY FreshCalm DEF Init, Orderly, Following, FreshNav
<1>2. Inv /\ Orderly /\ Following /\ [Next]_vars => Following'
  <2> SUFFICES ASSUME Inv, Orderly, Following, [Next]_vars PROVE Following'
    OBVIOUS
  <2>1. CASE UNCHANGED vars
    BY <2>1 DEF vars, Following, Finds, Heads, Shows, Quiet, Follows, LeadsOn, OnWay,
                Single, Before, Here, Items
  <2>2. CASE Next
    <3>1. reader' = reader
      BY <2>2 DEF Next, Reader, Browser, HashChanges, OpenPage, LoadPage, ClickSync,
           ClickArrow, ClickItem, WindowLoad, ScrollEnds, PollEnds, ScriptArrives, SlideEnds
    <3>2. reader # "hasty" =>
            /\ ~loaded' => nav'.selected = {}
            /\ loaded' => /\ Finds(nav', aim', Steady)
                          /\ Steady /\ stored' # NoLink => aim' = Target(aim', stored')
      BY <2>2, ReaderFinds, BrowserFinds DEF Next
    <3>3. Following' = (reader' # "hasty" =>
            /\ ~loaded' => nav'.selected = {}
            /\ loaded' => Finds(nav', aim', reader' = "steady")
            /\ reader' = "steady" /\ loaded' /\ stored' # NoLink => aim' = Target(aim', stored'))
      BY DEF Following, Finds, Heads, Shows, Quiet, Follows, LeadsOn, OnWay,
             Single, Before, Here, Items
    <3> QED
      BY <3>1, <3>2, <3>3 DEF Steady
  <2>3. QED
    BY <2>1, <2>2
<1>3. QED
  BY <1>1, <1>2, PanelInvariant, OrderlyInvariant, PTL DEF Spec

\* For a reader who waits, the last link is followed to its item, or to an item
\* of its place in the page that is shown, whatever had to be loaded first.
THEOREM AlwaysFollowsTarget == Spec => []FollowsTarget
<1>1. Inv /\ Orderly /\ Following => FollowsTarget
  <2> SUFFICES ASSUME Inv, Following, reader # "hasty", loaded, nav.requests = EmptyBag
               PROVE  \E n \in nav.selected :
                        \/ n = ItemOf(aim)
                        \/ /\ aim.hash # NoHash /\ n \in DOMAIN Link
                           /\ Link[n] = Url(nav.at.page, aim.hash)
    BY DEF FollowsTarget
  <2>1. Shows(nav, aim)
    BY BagLemma DEF Following, Finds, Heads
  <2> QED
    BY <2>1 DEF Shows, Here
<1>2. QED
  BY <1>1, FollowingInvariant, PTL

\* For a reader who waits and leaves the sync button alone, what is selected is
\* one link, at the items that it has.
THEOREM OneLinkSelected == Spec => []OneSelected
<1>1. Inv /\ Orderly /\ Following => OneSelected
  <2> SUFFICES ASSUME Inv, Following, reader = "steady",
                      NEW m \in nav.selected, NEW n \in nav.selected
               PROVE  Link[m] = Link[n]
    BY DEF OneSelected
  <2>1. loaded /\ Single(nav, aim)
    BY DEF Following, Finds
  <2> QED
    BY <2>1 DEF Single, Before, Here
<1>2. QED
  BY <1>1, FollowingInvariant, PTL
=============================================================================
