-------------------------- MODULE MCDeviceTreeDocs --------------------------
(* DeviceTreeDocs with the names and paths of MCDeviceTree. *)
EXTENDS DeviceTreeDocs

CONSTANTS na, nb, nr, nm

MCScopeName == {na, nb}
MCRegName   == {nr}
MCMark      == {nm}

Elems == {Up, Named(na), Named(nb), Named(nr)}

Rel(elems) == [abs |-> FALSE, elems |-> elems]

MCPath == {Rel(p) : p \in UNION {[1..k -> Elems] : k \in 1..3}}

(* One alias within a scope, one into a scope. *)
MCTarget == {Rel(<<Named(nb)>>), Rel(<<Named(nr)>>), Rel(<<Named(na), Named(nb)>>)}
=============================================================================
