---------------------------- MODULE MCTypeFactory ----------------------------
(* TypeFactory with three singletons and a hash that only sees how many    *)
(* parameters there are, so that function types collide.                   *)
EXTENDS TypeFactory
MCSingletons == <<"VOID", "ANY", "LONG">>
MCHash(node) == Len(node.params)
=============================================================================
