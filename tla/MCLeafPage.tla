---------------------------- MODULE MCLeafPage ----------------------------
(* A small instance of LeafPage.  Two values of 2029 bytes just fill the   *)
(* page with a key of one byte and one of two, and are a byte too long     *)
(* with two keys of two bytes.                                             *)
EXTENDS LeafPage

MCKeys == {<<>>, <<1>>, <<254>>, <<254, 255>>, <<255>>, <<255, 0>>}
MCPrefixes == MCKeys \cup {<<>>, <<254, 254>>, <<255, 255>>}
===========================================================================
