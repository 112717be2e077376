------------------------------- MODULE NavTree -------------------------------
(***************************************************************************)
(* The navigation panel of the reference manual, src/doc/html/navtree.js:  *)
(* a tree whose branches arrive as scripts, which is opened at the page's  *)
(* own item whenever the page is loaded or its hash changes.               *)
(*                                                                         *)
(* JavaScript runs one handler at a time, so a handler is one action: the  *)
(* load and hashchange events, a click on an arrow, an item or the sync    *)
(* button, the arrival of a script, the end of an animation.  A script     *)
(* arrives after any delay, in any order, or never, and meets the panel as *)
(* later handlers have left it.  A node of the tree is the path of indices *)
(* that leads to it, as in the index scripts; <<>> is o.node.              *)
(*                                                                         *)
(* jQuery and the browser are modelled by what the handlers see of them:   *)
(* animations of one element follow each other, slideUp hides its list     *)
(* when it ends, and a location that only changes its hash raises          *)
(* hashchange before anything else runs.                                   *)
(***************************************************************************)
EXTENDS Naturals, Sequences, FiniteSets, Bags

CONSTANTS
  Tree,         \* the nodes of the manual
  Lazy,         \* those whose childrenData is the name of a script
  Link,         \* the link of each node that has one
  Urls,         \* the places of the manual: a page and a hash
  IndexPage,    \* NAVTREE[0][1]; its tree is opened one level further
  NoHash,       \* an empty location.hash
  LineHashes,   \* anchors #l<number> of a source listing
  Chunk,        \* the index script that a link belongs to, by string order
  Entry,        \* what the index scripts hold: the path of a link
  NoLink,       \* an empty navpath in the local storage
  MaxRequests,  \* bound: scripts under way when the reader acts
  MaxQueue      \* bound: animations queued on one element when he acts

Url(p, h) == [page |-> p, hash |-> h]
Pages  == {u.page : u \in Urls}
Hashes == {u.hash : u \in Urls}

Children(n) == {c \in Tree : c # <<>> /\ SubSeq(c, 1, Len(c) - 1) = n}
Parent(n)   == SubSeq(n, 1, Len(n) - 1)
Inner       == {n \in Tree : Children(n) # {}}

\* The paths of the index leave out the 0 of the node of the index page, which
\* is in the page from the beginning.
ASSUME TreeAssumption ==
  /\ Tree \subseteq Seq(Nat) /\ <<>> \in Tree \ Lazy /\ <<0>> \in Tree
  /\ \A n \in Tree \ {<<>>} : Parent(n) \in Tree
  /\ Lazy \subseteq Inner
  /\ DOMAIN Link \subseteq Tree \ {<<>>}
  /\ \A n \in DOMAIN Link : Link[n] \in Urls
  /\ Entry \in [DOMAIN Entry -> Seq(Nat)]
  /\ \A u \in DOMAIN Entry : u \in Urls /\ <<0>> \o Entry[u] \in Tree
ASSUME LinkAssumption ==
  /\ Urls \subseteq [page : Pages, hash : Hashes]
  /\ \A p \in Pages : Url(p, NoHash) \in Urls
  /\ IndexPage \in Pages /\ NoLink \notin Urls
  /\ LineHashes \subseteq Hashes \ {NoHash}
  /\ Chunk \in [Urls -> Nat]
  /\ {MaxRequests, MaxQueue} \subseteq Nat


\* The index is made from the tree: it has an item for every link, of which the
\* tree may have several, and shows a page that is not in the tree (the listing
\* of a source file) at the item of another page.  No item is a line of a
\* listing, and a place of a page is looked up where its page is.
ASSUME IndexAssumption ==
  /\ <<0>> \in DOMAIN Link /\ Link[<<0>>] = Url(IndexPage, NoHash)
  /\ \A n \in DOMAIN Link : Link[n] \in DOMAIN Entry /\ Link[n].hash \notin LineHashes
  /\ \A u \in DOMAIN Entry :
       LET n == <<0>> \o Entry[u]
       IN  n \in DOMAIN Link /\ (Link[n] = u \/ (u.hash = NoHash /\ Link[n].hash = NoHash))
  /\ \A u \in Urls \ DOMAIN Entry :
       LET p == Url(u.page, NoHash) IN p \in DOMAIN Entry => Chunk[p] = Chunk[u]

VARIABLES
  reader,    \* "hasty", or "patient": waits for scripts and animations before
             \* he acts, or "steady": patient, and leaves the sync button alone
  stored,    \* localStorage.navpath
  sync,      \* #nav-sync has class "sync"
  loaded,    \* the load event has been handled
  nav,       \* o, its nodes and their DOM elements
  aim        \* history: the link that was navigated to last

vars == <<reader, stored, sync, loaded, nav, aim>>

\* A script under way, with what its onload function has captured.
Request ==
  [kind : {"index"}, to : Urls] \cup
  [kind : {"expand"}, node : Lazy, imm : BOOLEAN] \cup
  [kind : {"show", "retry"}, node : Lazy, hash : Hashes]

\* at is window.location.  chunks and have: what has arrived.  built counts
\* the calls of getNode, which is childrenVisited as a number.  shown and
\* slides: the display of each childrenUL and its animation queue.  polling: a
\* timer of showRoot is set.  scrolls and busy: the animations of #doc-content,
\* animationInProgress.
FreshNav(u) ==
  [at |-> u, chunks |-> {}, have |-> {}, built |-> [n \in Tree |-> 0],
   expanded |-> {}, shown |-> {<<>>}, slides |-> [n \in Tree |-> <<>>],
   selected |-> {}, crumbs |-> <<>>, requests |-> EmptyBag,
   polling |-> FALSE, busy |-> FALSE, scrolls |-> <<>>]

Readers == {"hasty", "patient", "steady"}

TypeOK ==
  /\ reader \in Readers
  /\ {sync, loaded} \subseteq BOOLEAN
  /\ {nav.at, aim} \subseteq Urls
  /\ stored \in Urls \cup {NoLink}
  /\ nav.have \subseteq Lazy
  /\ nav.expanded \cup nav.shown \cup nav.selected \subseteq Tree
  /\ BagToSet(nav.requests) \subseteq Request
  /\ nav.built \in [Tree -> Nat]
  /\ {nav.polling, nav.busy} \subseteq BOOLEAN

Items(t)     == {n \in Tree \ {<<>>} : t.built[Parent(n)] > 0}
ItemsOf(t,u) == {n \in Items(t) \cap DOMAIN Link : Link[n] = u}

\* childrenData is still a string, or is an array.
Awaited(t, n) == n \in Lazy \ t.have
Ready(t, n)   == n \in Inner /\ ~Awaited(t, n)

-----------------------------------------------------------------------------
(* Functions that change the panel t.                                      *)

\* getScript.  A script that is under way already is requested once more.
GetScript(t, r) == [t EXCEPT !.requests = @ (+) SetToBag({r})]

\* Slip: childrenVisited is not looked at.
OpenAlwaysBuilds(t, ns) ==
  [t EXCEPT !.built = [n \in Tree |-> IF n \in ns THEN @[n] + 1 ELSE @[n]],
            !.shown = @ \cup ns, !.expanded = @ \cup ns]

\* The nodes ns are opened at once: getNode if needed, display, icon.
Open(t, ns) ==
  [t EXCEPT !.built = [n \in Tree |-> IF n \in ns /\ @[n] = 0 THEN 1 ELSE @[n]],
            !.shown = @ \cup ns, !.expanded = @ \cup ns]

\* expandNode.
ExpandNode(t, n, imm) ==
  IF n \notin Inner \/ n \in t.expanded THEN t
  ELSE IF Awaited(t, n)
    THEN GetScript(t, [kind |-> "expand", node |-> n, imm |-> imm])
  ELSE IF imm THEN Open(t, {n})
  ELSE [Open(t, {n}) EXCEPT !.shown = t.shown, !.slides[n] = Append(@, "down")]

\* gotoAnchor, towards an anchor of this page.
GotoAnchor(t, h, update) ==
  [t EXCEPT !.busy = TRUE, !.scrolls = Append(@, [to |-> h, update |-> update])]

\* highlightAnchor scrolls to the location's hash, whatever was selected.
HighlightAnchor(t) ==
  IF t.at.hash \in LineHashes \cup {NoHash} THEN t ELSE GotoAnchor(t, t.at.hash, FALSE)

\* showRoot: scroll to the selected item, or try again after a timeout.
ShowRoot(t) == [t EXCEPT !.polling = @ \/ t.selected = {}]

\* selectAndHighlight(hash, n); ns is {n}, or empty without n.
SelectAndHighlight(t, h, ns) ==
  LET as == IF h = NoHash THEN {} ELSE ItemsOf(t, Url(t.at.page, h))
  IN  ShowRoot(IF as # {} THEN HighlightAnchor([t EXCEPT !.selected = @ \cup as])
                          ELSE [t EXCEPT !.selected = @ \cup ns])

\* showNode(o, node, Len(node), hash): follow o.breadcrumbs, as they are now,
\* from node on.  Step k opens the node at depth k.
Trail(t, node, k) == node \o SubSeq(t.crumbs, Len(node) + 1, k)

\* The outcomes: the script of a node on the way or of the last one has to
\* arrive first; the way ends early (o.breadcrumbs were made for another link)
\* with a selection by hash, or with a TypeError; or the item is reached.
ShowNode(t, node, h) ==
  LET last  == IF Len(t.crumbs) > Len(node) THEN Len(t.crumbs) - 1 ELSE Len(node)
      ready == {k \in Len(node)..last :
                  \A j \in Len(node)..k : Ready(t, Trail(t, node, j))}
      stop  == Len(node) + Cardinality(ready)
      next  == Trail(t, node, stop)
      way   == Open(t, {Trail(t, node, k) : k \in ready})
      lost  == stop > Len(t.crumbs) \/ next \notin Tree
  IN  CASE stop <= last /\ Awaited(t, next) ->
             GetScript(way, [kind |-> "show", node |-> next, hash |-> h])
        [] stop <= last /\ ~Awaited(t, next) -> SelectAndHighlight(way, h, {})
        [] stop > last /\ lost -> way
        [] stop > last /\ ~lost /\ Awaited(t, next) ->
             GetScript(way, [kind |-> "retry", node |-> next, hash |-> h])
        [] OTHER ->
             SelectAndHighlight(IF t.at.page = IndexPage
                                  THEN ExpandNode(way, next, TRUE) ELSE way,
                                h, {next})

\* What index script i holds for u: its own entry, or that of its page.  It
\* may hold neither; $.extend then makes an empty path, never null, so that
\* "fallback: show index" of gotoNode is not taken and the index is shown.
Lookup(i, u) ==
  LET known == {v \in {u, Url(u.page, NoHash)} \cap DOMAIN Entry : Chunk[v] = i}
  IN  IF known = {} THEN <<>> ELSE Entry[IF u \in known THEN u ELSE Url(u.page, NoHash)]

\* Slip: the 0 for the root node is not put in front.
GotoNodeWithoutRoot(t, u) ==
  ShowNode([t EXCEPT !.crumbs = Lookup(Chunk[u], u)], <<>>, u.hash)

\* gotoNode.
GotoNode(t, u) ==
  ShowNode([t EXCEPT !.crumbs = <<0>> \o Lookup(Chunk[u], u)], <<>>, u.hash)

\* The link that navTo navigates to: a stored one takes the place of the one
\* asked for, a line number is dropped.
Target(u, link) ==
  LET v == IF link = NoLink THEN u ELSE link
  IN  IF v.hash \in LineHashes THEN Url(v.page, NoHash) ELSE v

\* navTo, to a target.  A link before the first one of the index (i == -1)
\* belongs to index script 0, which does not list it.
NavTo(t, u) ==
  IF Chunk[u] \in t.chunks THEN GotoNode(t, u)
  ELSE GetScript(t, [kind |-> "index", to |-> u])

\* Slip: what was selected stays so.
OnHashChangeKeeps(t, link) ==
  IF t.at.hash # NoHash \/ ~t.busy THEN NavTo(t, Target(t.at, link)) ELSE t

\* The hashchange handler, with the new location in t.
OnHashChange(t, link) ==
  LET u == t.at
      here == ItemsOf(t, u) \cap t.selected # {}
      clear == [t EXCEPT !.selected = {}]
  IN  IF u.hash # NoHash THEN NavTo(IF here THEN t ELSE clear, Target(u, link))
      ELSE IF ~t.busy THEN NavTo(clear, Target(u, link))
      ELSE t

\* Slip: nobody goes on when the script of the last node arrives.
OnLoadStopsAtItem(t, r) ==
  CASE r.kind = "index" ->
         GotoNode([t EXCEPT !.chunks = @ \cup {Chunk[r.to]}], r.to)
    [] r.kind = "expand" ->
         ExpandNode([t EXCEPT !.have = @ \cup {r.node}], r.node, r.imm)
    [] r.kind = "show" ->
         ShowNode([t EXCEPT !.have = @ \cup {r.node}], r.node, r.hash)
    [] r.kind = "retry" -> [t EXCEPT !.have = @ \cup {r.node}]

\* The onload functions.
OnLoad(t, r) ==
  CASE r.kind = "index" ->
         GotoNode([t EXCEPT !.chunks = @ \cup {Chunk[r.to]}], r.to)
    [] r.kind = "expand" ->
         ExpandNode([t EXCEPT !.have = @ \cup {r.node}], r.node, r.imm)
    [] r.kind = "show" ->
         ShowNode([t EXCEPT !.have = @ \cup {r.node}], r.node, r.hash)
    [] r.kind = "retry" ->
         ShowNode([t EXCEPT !.have = @ \cup {r.node},
                            !.expanded = @ \ {Parent(r.node)}],
                  Parent(r.node), r.hash)

-----------------------------------------------------------------------------
(* The handlers.                                                           *)

\* initNavTree: the button shows whether a link is stored.
Init ==
  /\ reader \in Readers
  /\ stored \in {NoLink} \cup DOMAIN Entry
  /\ sync = (stored = NoLink)
  /\ loaded = FALSE
  /\ \E u \in Urls : nav = FreshNav(u) /\ aim = u

Idle(t) ==
  /\ t.requests = EmptyBag
  /\ t.scrolls = <<>> /\ \A n \in Tree : t.slides[n] = <<>>

\* When the reader acts.
Acts ==
  /\ reader # "hasty" => loaded /\ Idle(nav)
  /\ BagCardinality(nav.requests) < MaxRequests
  /\ Len(nav.scrolls) < MaxQueue /\ \A n \in Tree : Len(nav.slides[n]) < MaxQueue

\* A window.location with only the hash changed: the browser calls back.
MoveTo(t, h) ==
  LET u == Url(t.at.page, h)
  IN  /\ nav' = OnHashChange([t EXCEPT !.at = u], stored)
      /\ aim' = IF h = NoHash /\ t.busy THEN aim ELSE Target(u, stored)

\* The window's load event.
WindowLoad ==
  /\ ~loaded
  /\ loaded' = TRUE
  /\ nav' = ShowRoot(NavTo(nav, Target(nav.at, stored)))
  /\ aim' = Target(nav.at, stored)
  /\ UNCHANGED <<reader, stored, sync>>

\* A link in the page, or the back button, to another place of the page.
HashChanges ==
  /\ Acts
  /\ \E u \in Urls \ {nav.at} : u.page = nav.at.page /\ MoveTo(nav, u.hash)
  /\ UNCHANGED <<reader, stored, sync, loaded>>

\* Another page: nothing but the local storage remains.
LoadPage(u, link) ==
  /\ nav' = FreshNav(u) /\ aim' = u
  /\ stored' = link /\ sync' = (link = NoLink)
  /\ loaded' = FALSE
  /\ UNCHANGED reader

OpenPage ==
  /\ Acts
  /\ \E u \in Urls : LoadPage(u, stored)

\* Items that can be seen, and clicked on.
Visible(t) ==
  {n \in Items(t) : \A k \in 0..(Len(n) - 1) : SubSeq(n, 1, k) \in t.shown}

\* Slip: the node still counts as expanded.
ClickArrowKeepsOpen(n) ==
  /\ Acts /\ n \in Visible(nav) \cap Inner
  /\ nav' = IF n \in nav.expanded
              THEN [nav EXCEPT !.slides[n] = Append(@, "up")]
              ELSE ExpandNode(nav, n, FALSE)
  /\ UNCHANGED <<reader, stored, sync, loaded, aim>>

\* The arrow of a node with children, or its text if it has no link.
ClickArrow(n) ==
  /\ Acts /\ n \in Visible(nav) \cap Inner
  /\ nav' = IF n \in nav.expanded
              THEN [nav EXCEPT !.slides[n] = Append(@, "up"), !.expanded = @ \ {n}]
              ELSE ExpandNode(nav, n, FALSE)
  /\ UNCHANGED <<reader, stored, sync, loaded, aim>>

\* Slips: the class of the button is not looked at; the hash is dropped.
StoreLinkAlways(u) == u
StoreLinkPage(u)   == IF sync THEN stored ELSE u.page

\* storeLink.
StoreLink(u) == IF sync THEN stored ELSE u

\* The text of an item: a place of this page is selected and scrolled to,
\* any other link is left to the browser.
ClickItem(n) ==
  /\ Acts /\ n \in Visible(nav) \cap DOMAIN Link
  /\ IF Link[n].hash # NoHash /\ Link[n].page = nav.at.page
       THEN /\ nav' = GotoAnchor(IF n \in nav.selected THEN nav
                                 ELSE [nav EXCEPT !.selected = {n}],
                                 Link[n].hash, TRUE)
            /\ stored' = StoreLink(Link[n])
            /\ aim' = Link[n]
            /\ UNCHANGED <<reader, sync, loaded>>
       ELSE LoadPage(Link[n], StoreLink(Link[n]))

\* toggleSyncButton.
ClickSync ==
  /\ Acts /\ reader # "steady"
  /\ sync' = ~sync
  /\ stored' = IF sync THEN nav.at ELSE NoLink
  /\ UNCHANGED <<reader, loaded, nav, aim>>

ScriptArrives(r) ==
  /\ BagIn(r, nav.requests)
  /\ nav' = OnLoad([nav EXCEPT !.requests = @ (-) SetToBag({r})], r)
  /\ UNCHANGED <<reader, stored, sync, loaded, aim>>

SlideEnds(n) ==
  /\ nav.slides[n] # <<>>
  /\ nav' = [nav EXCEPT !.slides[n] = Tail(@),
                        !.shown = IF Head(nav.slides[n]) = "up" THEN @ \ {n}
                                                                ELSE @ \cup {n}]
  /\ UNCHANGED <<reader, stored, sync, loaded, aim>>

\* The callback of gotoAnchor's animation sets the location, if it is to.
ScrollEnds ==
  /\ nav.scrolls # <<>>
  /\ LET s == Head(nav.scrolls)
         t == [nav EXCEPT !.scrolls = Tail(@), !.busy = FALSE]
     IN  IF s.update /\ s.to # nav.at.hash THEN MoveTo(t, s.to)
         ELSE nav' = t /\ UNCHANGED aim
  /\ UNCHANGED <<reader, stored, sync, loaded>>

\* The timer of showRoot, once there is something to scroll to.
PollEnds ==
  /\ nav.polling /\ nav.selected # {}
  /\ nav' = [nav EXCEPT !.polling = FALSE]
  /\ UNCHANGED <<reader, stored, sync, loaded, aim>>

Reader ==
  \/ HashChanges \/ OpenPage \/ ClickSync
  \/ \E n \in Tree : ClickArrow(n) \/ ClickItem(n)

Browser ==
  \/ WindowLoad \/ ScrollEnds \/ PollEnds
  \/ \E r \in BagToSet(nav.requests) : ScriptArrives(r)
  \/ \E n \in Tree : SlideEnds(n)

Next == Reader \/ Browser

Spec == Init /\ [][Next]_vars

-----------------------------------------------------------------------------
(* Properties.                                                             *)

\* A branch is inserted once, although its script may be requested by several
\* handlers at once, and an open node has its items.
BuiltOnce ==
  \A n \in Tree :
    nav.built[n] <= 1 /\ (n \in nav.expanded => nav.built[n] = 1)

\* The button tells the truth about the local storage.
SyncIsStored == sync <=> stored = NoLink

\* The item that a link belongs to: its own, that of its page, or the index.
ItemOf(u) ==
  LET known == {v \in {u, Url(u.page, NoHash)} : v \in DOMAIN Entry}
  IN  <<0>> \o (IF known = {} THEN <<>>
                ELSE Entry[IF u \in known THEN u ELSE Url(u.page, NoHash)])

\* For a reader who waits, the item of the last link is selected as soon as
\* the scripts have arrived; or, for a place of a page, an item with the same
\* anchor in the page that is shown.
FollowsTarget ==
  reader # "hasty" /\ loaded /\ nav.requests = EmptyBag =>
    \E n \in nav.selected :
      \/ n = ItemOf(aim)
      \/ /\ aim.hash # NoHash /\ n \in DOMAIN Link
         /\ Link[n] = Url(nav.at.page, aim.hash)

\* For a reader who waits, a node's arrow tells whether its list is shown.
IconTells ==
  reader # "hasty" /\ Idle(nav) => nav.expanded \ {<<>>} = nav.shown \ {<<>>}

\* "retry until we can scroll to the selected item": while showRoot's timer
\* finds nothing selected, a script is under way that will lead to a selection.
PollsWithReason ==
  nav.polling /\ nav.selected = {} =>
    \E r \in BagToSet(nav.requests) : r.kind # "expand"

\* One link is selected, "the selected item" that showRoot scrolls to, at all
\* its items that are built: for a reader who waits and leaves the sync button
\* alone, since with the button it takes no haste to have two.
OneSelected == reader = "steady" => \A m, n \in nav.selected : Link[m] = Link[n]
=============================================================================
