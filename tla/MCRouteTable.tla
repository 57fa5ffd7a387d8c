------------------------------ MODULE MCRouteTable ------------------------------
(* A small instance of RouteTable for TLC: more paths than slots. *)
EXTENDS RouteTable
=============================================================================
