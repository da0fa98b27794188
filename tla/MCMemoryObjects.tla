-------------------------- MODULE MCMemoryObjects --------------------------
(* Memory objects of two ordinary domains in a small descriptor table.     *)
EXTENDS MemoryObjects

\* Two objects and two operations, or one and three.
MCBounds == {<<2, 2>>, <<1, 3>>}

\* One domain asks for two units, or for one on an even address, the other for
\* device memory; all of it is copied to and fro.
MCRequests == {<<2, 2, 0>>, <<2, 1, 2>>}
MCDevices == {<<3, 2>>}

\* Single units only.
MCAllocBounds == {<<3, 1>>}
MCAllocRequests == {<<2, 1, 0>>}
=============================================================================
