------------------------------ MODULE Namespace ------------------------------
(***************************************************************************)
(* The tree of names a file system promises, without blocks, slots and     *)
(* inode contents: a set of links, each a directory, a name and the inode  *)
(* it leads to.  A link is made to an inode that nothing leads to yet, in  *)
(* a directory that hangs on the root, and only a link to an inode without *)
(* links of its own is removed.  Directory implements this specification   *)
(* as long as it does not crash (Directory!TreeSpec).                      *)
(***************************************************************************)
CONSTANTS Inums, Root, Names

VARIABLE links

LinkType == [dir : Inums, name : Names, inum : Inums \ {Root}]

Attached == {Root} \union {l.inum : l \in links}

TreeInit == links = {}

Link(d, n, i) ==
    /\ d \in Attached
    /\ i \notin Attached
    /\ links' = links \union {[dir |-> d, name |-> n, inum |-> i]}

Unlink(l) ==
    /\ l \in links
    /\ \A m \in links : m.dir # l.inum
    /\ links' = links \ {l}

TreeNext ==
    \/ \E d \in Inums, n \in Names, i \in Inums \ {Root} : Link(d, n, i)
    \/ \E l \in links : Unlink(l)

Tree == TreeInit /\ [][TreeNext]_links
=============================================================================
