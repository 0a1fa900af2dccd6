---------------------------- MODULE DeviceTreeTab ----------------------------
(***************************************************************************)
(* The device tree of the product pages                                    *)
(* (web/src/components/admin/DeviceTreeTab.tsx): a tree that loads itself  *)
(* again every so often, a search in the names of its nodes and in its     *)
(* devices, and the dialogs of a device and of a product group.            *)
(***************************************************************************)
EXTENDS ReactPage, DevicePlaces, Sums

Load(ask) == [ask |-> ask]

\* term: the nodes and the devices that the search term is found in.
NoTerm == [named |-> {}, finds |-> {}]
Mounted ==
  [tree |-> <<>>, treeLoading |-> TRUE, deviceLoading |-> TRUE,
   searching |-> FALSE, term |-> NoTerm, expanded |-> {},
   detailOpen |-> FALSE, productOpen |-> FALSE, message |-> FALSE, timer |-> FALSE]
Loads == {Load("tree"), Load("devices")}

Init == ui = Mounted /\ calls = Loads

(***************************************************************************)
(* The search (filterTreeData).                                            *)
(***************************************************************************)

Matches(node) == At(ui.tree, node) \intersect ui.term.finds
Named(node) == node \in ui.term.named

\* A node is kept when its name or a device is found, or one below it is kept.
Kept ==
  LET groups == {g \in Level(3) : Named(g) \/ Matches(g) # {}}
      subs == {s \in Level(2) : Named(s) \/ Matches(s) # {}
                                \/ Children(s) \intersect groups # {}}
      cats == {c \in Level(1) : Named(c) \/ Matches(c) # {}
                                \/ Children(c) \intersect subs # {}}
  IN  groups \union subs \union cats

\* Mutant: a node that is kept for a device of its own does not open what is above.
ExpandKeptGroups ==
  (UNION {Path(g) : g \in Kept \intersect Level(3)})
    \union {c \in Level(1) : Matches(c) # {}}

autoExpandKeys ==
  (UNION {Path(g) : g \in Kept \intersect Level(3)})
    \union (UNION {Path(s) : s \in {n \in Level(2) : Matches(n) # {}}})
    \union {c \in Level(1) : Matches(c) # {} \/ Children(c) \intersect Kept # {}}

\* What is found by its name keeps all that is in it.
filteredTree ==
  LET kept == Kept
      under == [n \in Nodes |-> IF Named(n) THEN Below(ui.tree, n) ELSE Matches(n)]
      sub == [s \in Level(2) |->
                under[s] \union IF Named(s) THEN {}
                                ELSE UNION {under[g] : g \in Children(s) \intersect kept}]
      cat == [c \in Level(1) |->
                under[c] \union IF Named(c) THEN {}
                                ELSE UNION {sub[s] : s \in Children(c) \intersect kept}]
  IN  IF ui.searching THEN UNION {cat[c] : c \in Level(1) \intersect kept} ELSE DOMAIN ui.tree

\* Counted level by level; what is kept whole has the number the server gave.
totalDevices ==
  LET kept == Kept
      own == [n \in Nodes |-> Cardinality(IF Named(n) THEN Below(ui.tree, n) ELSE Matches(n))]
      sub == [s \in Level(2) |->
                own[s] + IF Named(s) THEN 0 ELSE SumOf(own, Children(s) \intersect kept)]
      cat == [c \in Level(1) |->
                own[c] + IF Named(c) THEN 0 ELSE SumOf(sub, Children(c) \intersect kept)]
  IN  IF ui.searching THEN SumOf(cat, Level(1) \intersect kept) ELSE Cardinality(DOMAIN ui.tree)

effectiveExpandedNodes == ui.expanded \union IF ui.searching THEN autoExpandKeys ELSE {}

Rendered ==
  LET open == effectiveExpandedNodes
  IN  {d \in filteredTree : Path(ui.tree[d]) \subseteq open}

setSearch ==
  /\ ~ui.detailOpen /\ ~ui.productOpen
  /\ \/ \E finds \in SUBSET Devices : \E named \in {{}} \union {{n} : n \in Nodes} :
          ui' = [ui EXCEPT !.searching = TRUE, !.term = [named |-> named, finds |-> finds]]
     \/ ui' = [ui EXCEPT !.searching = FALSE, !.term = NoTerm]
  /\ UNCHANGED calls

(***************************************************************************)
(* Loading: with the page, every 30 s, when the page becomes visible again *)
(* and by the button.  Both lists are asked for at once, whether or not    *)
(* the last ones have come.                                                *)
(***************************************************************************)

Update ==
  /\ ~Busy
  /\ ui' = [ui EXCEPT !.treeLoading = TRUE, !.deviceLoading = TRUE]
  /\ calls' = calls \union {IF load \in calls THEN Again(load) ELSE load : load \in Loads}

\* A failure leaves the tree that was loaded before.  The first answer ends the
\* waiting, for another load in flight too.
loadDeviceTree(h) ==
  /\ Awaits(h, {"tree"})
  /\ \E tree \in Trees \union {ui.tree} : ui' = [ui EXCEPT !.tree = tree, !.treeLoading = FALSE]
  /\ Ends(h)

loadDevices(h) ==
  /\ Awaits(h, {"devices"})
  /\ ui' = [ui EXCEPT !.deviceLoading = FALSE]
  /\ Ends(h)

(***************************************************************************)
(* Working in the tree.                                                    *)
(***************************************************************************)

InTheTree == ~ui.treeLoading /\ ~ui.deviceLoading /\ ~ui.detailOpen /\ ~ui.productOpen

toggleNode(node) ==
  /\ InTheTree /\ Path(node) \ {node} \subseteq effectiveExpandedNodes
  /\ ui.searching => node \in Kept
  /\ ui' = [ui EXCEPT !.expanded = IF node \in @ THEN @ \ {node} ELSE @ \union {node}]
  /\ UNCHANGED calls

Announce(u) == [u EXCEPT !.message = TRUE, !.timer = TRUE]

\* Timers are not cancelled: one that another message set may come first.
Dismiss ==
  /\ ui.timer
  /\ \E another \in BOOLEAN : ui' = [ui EXCEPT !.message = FALSE, !.timer = another]
  /\ UNCHANGED calls

\* From the tree, or from the dialog of a product group.
Offered == (InTheTree \/ ui.productOpen) /\ Rendered # {}

handleLocateDevice ==
  /\ Offered
  /\ \/ Begins([ask |-> "locate"]) /\ UNCHANGED ui
     \/ ui' = Announce(ui) /\ UNCHANGED calls   \* no bin

Located(h) == Awaits(h, {"locate"}) /\ ui' = Announce(ui) /\ Ends(h)

\* A device that loadDevices brought is shown at once, another is asked for.
handleOpenDevice ==
  /\ Offered
  /\ \/ ui' = [ui EXCEPT !.detailOpen = TRUE] /\ UNCHANGED calls
     \/ Begins([ask |-> "device"]) /\ UNCHANGED ui

DeviceOpened(h) ==
  /\ Awaits(h, {"device"})
  /\ ui' \in {[ui EXCEPT !.detailOpen = TRUE], Announce(ui)}
  /\ Ends(h)

handleOpenProduct ==
  /\ InTheTree
  /\ \E g \in Level(3) :
       /\ Path(g) \ {g} \subseteq effectiveExpandedNodes
       /\ ui.searching => g \in Kept
  /\ ui' = [ui EXCEPT !.productOpen = TRUE]
  /\ UNCHANGED calls

\* To the page of the zone; whoever returns finds the tab mounted anew.
handleOpenZone == Offered /\ ui' = Mounted /\ calls' = Loads

CloseDialog ==
  /\ \/ ui.detailOpen /\ ui' = [ui EXCEPT !.detailOpen = FALSE]
     \/ ui.productOpen /\ ~ui.detailOpen /\ ui' = [ui EXCEPT !.productOpen = FALSE]
  /\ UNCHANGED calls

Next ==
  \/ setSearch \/ Update \/ Dismiss \/ handleLocateDevice \/ handleOpenDevice
  \/ handleOpenProduct \/ handleOpenZone \/ CloseDialog
  \/ \E node \in Nodes : toggleNode(node)
  \/ \E h \in calls : loadDeviceTree(h) \/ loadDevices(h) \/ Located(h) \/ DeviceOpened(h)

Spec == Init /\ [][Next]_vars

(***************************************************************************)
(* Properties.                                                             *)
(***************************************************************************)

TypeOK ==
  /\ DOMAIN ui = {"tree", "treeLoading", "deviceLoading", "searching", "term", "expanded",
                  "detailOpen", "productOpen", "message", "timer"}
  /\ ui.tree \in Trees
  /\ ui.term.named \subseteq Nodes /\ ui.term.finds \subseteq Devices
  /\ ui.expanded \subseteq Nodes

\* A search shows every device it finds, at whatever level of the tree it hangs;
\* it keeps no device but those and the ones in a node it finds by its name, and
\* the number it states is the number of devices it keeps.
EveryMatchIsShown ==
  ui.searching =>
    /\ DOMAIN ui.tree \intersect ui.term.finds \subseteq Rendered
    /\ filteredTree = {d \in DOMAIN ui.tree :
                         d \in ui.term.finds \/ Path(ui.tree[d]) \intersect ui.term.named # {}}
    /\ totalDevices = Cardinality(filteredTree)

\* Every message has a timer that takes it away.
MessageGoesAway == ui.message => ui.timer

\* When nothing is in flight the page is not waiting, though loads overlap and share
\* a flag each (the finally blocks).
NoSpinnerLeft == calls = {} => ~ui.treeLoading /\ ~ui.deviceLoading
=============================================================================
