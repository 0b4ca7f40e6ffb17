-------------------------- MODULE MCRouteReconcile --------------------------
(* Small instances of RouteReconcile for TLC.                              *)
EXTENDS RouteReconcile, TLC

PrefixSymmetry == Permutations(Prefixes \ StaticRoutes)
=============================================================================
