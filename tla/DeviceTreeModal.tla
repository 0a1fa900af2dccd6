-------------------------- MODULE DeviceTreeModal --------------------------
(***************************************************************************)
(* The dialog in which devices are chosen for a case or a zone             *)
(* (web/src/components/DeviceTreeModal.tsx): the tree of all devices, with *)
(* a search that opens the nodes above what it finds.                      *)
(***************************************************************************)
EXTENDS ReactPage, DevicePlaces

\* query: the devices that the search term is found in.
Init ==
  /\ ui = [open |-> FALSE, tree |-> <<>>, loading |-> FALSE, searching |-> FALSE,
           query |-> {}, selected |-> {}, expanded |-> {}]
  /\ calls = {}

matchingDeviceIds == IF ui.searching THEN DOMAIN ui.tree \intersect ui.query ELSE {}
HasMatch(node) == At(ui.tree, node) \intersect matchingDeviceIds # {}

\* Group, subcategory and category, each with what was found for the one below.
searchExpandedNodes ==
  LET groups == {group \in Level(3) : HasMatch(group)}
      subs == {sub \in Level(2) : HasMatch(sub) \/ Children(sub) \intersect groups # {}}
      cats == {cat \in Level(1) : HasMatch(cat) \/ Children(cat) \intersect subs # {}}
  IN  IF ui.searching THEN groups \union subs \union cats ELSE {}

effectiveExpanded == ui.expanded \union searchExpandedNodes

\* What the node components render: a search hides what has no match, and nodes
\* that are not expanded hide what is in them.
VisibleNode(node) ==
  \/ ~ui.searching \/ HasMatch(node)
  \/ \E below \in Children(node) : HasMatch(below) \/ (\E b \in Children(below) : HasMatch(b))

VisibleDevices ==
  {d \in DOMAIN ui.tree :
     /\ \A node \in Path(ui.tree[d]) : VisibleNode(node) /\ node \in effectiveExpanded
     /\ ui.searching => d \in matchingDeviceIds}

\* Each opening asks for the tree anew.
Open(from) ==
  /\ ~ui.open
  /\ Begins([ask |-> "tree", from |-> from])
  /\ ui' = [ui EXCEPT !.open = TRUE, !.loading = TRUE]

\* A failure leaves the tree that was loaded before.
loadDeviceTree(h) ==
  /\ Awaits(h, {"tree"})
  /\ \E tree \in Trees \union {ui.tree} : ui' = [ui EXCEPT !.tree = tree, !.loading = FALSE]
  /\ Ends(h)

setSearch ==
  /\ ui.open
  /\ \/ \E query \in SUBSET Devices : ui' = [ui EXCEPT !.searching = TRUE, !.query = query]
     \/ ui' = [ui EXCEPT !.searching = FALSE, !.query = {}]
  /\ UNCHANGED calls

InTheTree == ui.open /\ ~ui.loading

\* During a search too, where a node that has a match stays open all the same.
toggleNode(node) ==
  /\ InTheTree /\ VisibleNode(node) /\ Path(node) \ {node} \subseteq effectiveExpanded
  /\ ui' = [ui EXCEPT !.expanded = IF node \in @ THEN @ \ {node} ELSE @ \union {node}]
  /\ UNCHANGED calls

\* (Devices that are in the zone already cannot be ticked; the model does not
\* tell them apart.)
toggleDeviceSelection(d) ==
  /\ InTheTree /\ d \in VisibleDevices
  /\ ui' = [ui EXCEPT !.selected = IF d \in @ THEN @ \ {d} ELSE @ \union {d}]
  /\ UNCHANGED calls

handleClose ==
  /\ ui.open
  /\ ui' = [ui EXCEPT !.open = FALSE, !.selected = {},
                      !.searching = FALSE, !.query = {}]
  /\ UNCHANGED calls

\* What the page does with the selection is in CasesPage.
handleConfirm == ui.selected # {} /\ handleClose

Next ==
  \/ setSearch \/ handleClose \/ handleConfirm
  \/ \E from \in 1 .. MaxCalls : Open(from)
  \/ \E node \in Nodes : toggleNode(node)
  \/ \E d \in Devices : toggleDeviceSelection(d)
  \/ \E h \in calls : loadDeviceTree(h)

Spec == Init /\ [][Next]_vars

(***************************************************************************)
(* Properties.                                                             *)
(***************************************************************************)

TypeOK ==
  /\ DOMAIN ui = {"open", "tree", "loading", "searching", "query", "selected", "expanded"}
  /\ ui.tree \in Trees
  /\ ui.query \subseteq Devices /\ ui.selected \subseteq Devices /\ ui.expanded \subseteq Nodes
  /\ \A h \in calls : h.ask = "tree"

\* A search shows every device it finds and no other, at whatever level of the
\* tree it hangs and whatever the user has folded up before or since.
EveryMatchIsShown == ui.searching => VisibleDevices = matchingDeviceIds

\* When nothing is in flight the dialog is not waiting (the finally block).
NoSpinnerLeft == calls = {} => ~ui.loading
=============================================================================
