---------------------------- MODULE DevicePlaces ----------------------------
(***************************************************************************)
(* The tree of devices that GET /devices/tree answers with, as the web     *)
(* client reads it (web/src/lib/api.ts): categories, in them subcategories *)
(* and in those product groups; a device hangs at any of the three.  A     *)
(* node is its path from the root, and a tree maps devices to nodes.       *)
(***************************************************************************)
EXTENDS Naturals, Sequences

CONSTANTS
  Devices,
  Places     \* paths of one to three names, where devices may hang

Path(node) == {SubSeq(node, 1, n) : n \in 1 .. Len(node)}
Nodes == UNION {Path(p) : p \in Places}
Level(n) == {SubSeq(p, 1, n) : p \in {q \in Places : n \in 1 .. Len(q)}}
Trees == UNION {[D -> Places] : D \in SUBSET Devices}

Children(node) == {n \in Level(Len(node) + 1) : node \in Path(n)}
At(tree, node) == {d \in DOMAIN tree : tree[d] = node}
Below(tree, node) == {d \in DOMAIN tree : node \in Path(tree[d])}
=============================================================================
