---------------------------- MODULE MCDeviceTree ----------------------------
(***************************************************************************)
(* DeviceTree with two scope names, one register name, a bookmark, and     *)
(* paths of up to three elements.                                          *)
(***************************************************************************)
EXTENDS DeviceTree

CONSTANTS na, nb, nr, nm  \* names and a bookmark

MCScopeName == {na, nb}
MCRegName   == {nr}
MCMark      == {nm}

Elems == {Up, Marked(nm), Named(na), Named(nb), Indexed(na, 0), Indexed(na, -1),
          Indexed(nr, -1), Named(nr)}

Paths(n) == UNION {[1..k -> Elems] : k \in 1..n}

Rel(elems) == [abs |-> FALSE, elems |-> elems]
Abs(elems) == [abs |-> TRUE, elems |-> elems]

(* Every path of two elements, and of three with a detour in the middle. *)
MCPath ==
  {Rel(p) : p \in Paths(2)} \cup {Abs(p) : p \in Paths(1)} \cup {Abs(<<>>)}
    \cup {Rel(<<x, y, z>>) : x \in {Named(na), Indexed(na, -1), Up},
                             y \in {Up, Marked(nm), Named(nb)},
                             z \in {Up, Named(nb), Indexed(na, 0)}}

(* Targets that a later definition could redirect: names, an array tail, a *)
(* bookmark, a register of the scope above.                                *)
MCTarget ==
  {Rel(<<Named(na)>>), Rel(<<Indexed(na, -1)>>), Rel(<<Marked(nm), Named(nb)>>),
   Rel(<<Named(na), Named(nb)>>), Rel(<<Up, Named(nr)>>), Abs(<<Named(na)>>)}
=============================================================================
