----------------------------- MODULE ActionFusion -----------------------------
(***************************************************************************)
(* ActionService.BitwiseFusion, which the comment on AddAction says is     *)
(* applied and which AddAction does not call.                              *)
(***************************************************************************)
EXTENDS ActionBlock, Bitwise

BitwiseFusion(index, existing, new) ==
    IF index # IndexScenario /\ existing.numeric /\ new.numeric
    THEN Num(existing.n | new.n)
    ELSE new

\* The values given for index k, in the order they were given.
GivenFor(list, k) ==
    LET given == SelectSeq(list, LAMBDA param : param.k = k)
    IN  [i \in DOMAIN given |-> given[i].v]

\* Several values for one index are merged by OR, except for the scenario.
Fused(list, made) == \A i \in DOMAIN made :
    LET k == made[i].k
        given == GivenFor(list, k)
    IN  given # <<>> =>
            made[i].v = FoldLeft(LAMBDA old, new : BitwiseFusion(k, old, new),
                                 Head(given), Tail(given))

\* "It applies complete block generation and bitwise fusion as needed": two
\* values for one light are merged by OR.
FusionApplied == TouchesLight(params) => Fused(params, block)
=============================================================================
