---------------------------- MODULE MCDiscovery ----------------------------
(* A small instance of Discovery: job j1 has three pages, s1 and s3 with the same body and a
   signal in it, s2 of an unreadable type; j2 has s4, again with that body. *)
EXTENDS Discovery, TLC

CONSTANTS j1, j2, s1, s2, s3, s4, text, binary, w1, w2, api1

MCJobOf == [s \in Sources |-> IF s = s4 THEN j2 ELSE j1]
MCBody == [s \in Sources |-> IF s = s2 THEN binary ELSE text]
=============================================================================
