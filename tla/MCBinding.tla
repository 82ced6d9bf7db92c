------------------------------ MODULE MCBinding ------------------------------
(***************************************************************************)
(* Binding with three ports, a configuration space of four cells, two      *)
(* MSRs, memory addresses of four bits in pages of four bytes, and         *)
(* accesses of one and two cells.                                          *)
(***************************************************************************)
EXTENDS Binding

(* A full config file, a short one, and one whose end users may not read.  *)
MCConfigFile == {<<4, 4>>, <<2, 2>>, <<3, 1>>}

(* Memory about the border of two pages and at both ends of the addresses, *)
(* regions that contain, cut and miss it.                                  *)
MCMemory    == {0, 7, 8, 15}
MCMemRegion == {<<0, 15>>, <<5, 6>>, <<6, 2>>, <<8, 0>>, <<12, 4>>}

MCOffset == -1..4 \cup {6, 7, 8, 14, 15, 16}
=============================================================================
