------------------------------ MODULE MCKheap -------------------------------
(* A heap with pages of a few units: small enough that a page is split into *)
(* a few blocks, that some requests fit exactly, and that others need pages.*)
EXTENDS Kheap

\* The frames the machine starts with; init_kheap has taken frame 0.
OneFrame == 0 .. 0
FourFrames == 0 .. 3
FiveFrames == 0 .. 4
=============================================================================
