--------------------------- MODULE MCRouteExecutor --------------------------
(* A route with a chain of two straights, a wait, a turn and a last straight: *)
(* every kind of boundary there is, driven twice in the passes run.         *)
EXTENDS RouteExecutor

MCRoute == <<"follow", "follow", "wait", "rotate">>
MCChained == {1}
=============================================================================
