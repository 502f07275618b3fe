----------------------------- MODULE MCMlxVerbs -----------------------------
(***************************************************************************)
(* A small instance of MlxVerbs for TLC: MlxVerbs.cfg.  Client a has two   *)
(* threads, which are symmetric, client b has one.                         *)
(***************************************************************************)
EXTENDS MlxVerbs, TLC

CONSTANTS a1, a2, b1

MCClientOf == [t \in Threads |-> IF t = b1 THEN "b" ELSE "a"]
MCSymmetry == Permutations({a1, a2})
MCEthSlots == {1}
MCAll      == [objs |-> 3, regions |-> 0, callers |-> {"a", "b"},
               reuse |-> TRUE, timeouts |-> FALSE, shortages |-> 0]
MCWorlds   == {MCAll,
               [MCAll EXCEPT !.callers = {"a"}, !.shortages = 1],
               [MCAll EXCEPT !.callers = {"a"}, !.timeouts = TRUE],
               [MCAll EXCEPT !.objs = 2, !.timeouts = TRUE],
               [MCAll EXCEPT !.objs = 2, !.regions = 1, !.reuse = FALSE,
                             !.timeouts = TRUE, !.shortages = 2]}
=============================================================================
