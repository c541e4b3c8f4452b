------------------------------- MODULE MCVfs --------------------------------
(* Two clients and three vnode objects.  Four calls after the root was       *)
(* loaded are enough to make a child of the root and free both, to lose the  *)
(* race of vnode_get, to mount a second filesystem over the first one's path *)
(* and unmount either, and to reuse the address of a vnode or a filesystem.  *)
EXTENDS Vfs
=============================================================================
