-------------------------- MODULE MCStreamedSession --------------------------
(* A streamed trial on small instances; see README.md for the bounds. *)
EXTENDS StreamedSession

mcScreen == {<<2154, 1211>>, <<8191, 2>>}
==============================================================================
