----------------------------- MODULE ActionBlock -----------------------------
(***************************************************************************)
(* How the parameters of an injected action become the block a device is   *)
(* sent: ActionService.GenerateCompleteBlock, which AddAction applies.     *)
(* An action is injected, and the block it becomes is injected again, as   *)
(* an administrator does who copies what /api/myactions shows.             *)
(*                                                                         *)
(* A parameter is an index k and a value v.  The value is a string; only   *)
(* whether strconv.Atoi accepts it, and as which number, matters here.     *)
(***************************************************************************)
EXTENDS Integers, SequencesExt

CONSTANTS
    IndexScenario,      \* 590
    IndexLightStart,    \* 605
    IndexLightEnd,      \* 622
    Injections          \* the lists of parameters that are injected

Num(n) == [numeric |-> TRUE, n |-> n]
Text(i) == [numeric |-> FALSE, n |-> i]     \* the i-th string that is no number

Parameter == [k : Int, v : [numeric : BOOLEAN, n : Int]]

ASSUME ActionBlockAssumption ==
    /\ IndexScenario \in Int /\ IndexLightStart \in Int /\ IndexLightEnd \in Int
    /\ Injections \subseteq Seq(Parameter)

LightRange == IndexLightStart .. IndexLightEnd

IndicesOf(params) == {params[i].k : i \in DOMAIN params}
TouchesLight(params) == IndicesOf(params) \cap LightRange # {}

Below(S, k) == Cardinality({j \in S : j < k})
Ascending(S) == [i \in 1 .. Cardinality(S) |-> CHOOSE k \in S : Below(S, k) = i - 1]

\* Mutant: the first entry for an index wins.
SetFirst(values, param) ==
    IF param.k \in DOMAIN values THEN values
    ELSE [k \in DOMAIN values \cup {param.k} |-> IF k = param.k THEN param.v ELSE values[k]]

\* An entry of the map: a later one for an index replaces an earlier one.
SetValue(values, param) ==
    [k \in DOMAIN values \cup {param.k} |-> IF k = param.k THEN param.v ELSE values[k]]

\* The map built by the loop over the parameters.
ExplicitValues(params) ==
    LET after[n \in 0 .. Len(params)] ==
            IF n = 0 THEN <<>> ELSE SetValue(after[n - 1], params[n])
    IN  after[Len(params)]

\* The values filled in for the indices of D: 1 triggers the scenario, 0
\* switches a light off.
FilledIn(values, D) ==
    [k \in DOMAIN values \cup D |->
        IF k \in DOMAIN values THEN values[k] ELSE IF k = IndexScenario THEN Num(1) ELSE Num(0)]

\* The map as a slice, sorted by index.
Sorted(values) ==
    [i \in 1 .. Cardinality(DOMAIN values) |->
        LET k == Ascending(DOMAIN values)[i] IN [k |-> k, v |-> values[k]]]

\* Mutants: the last light is forgotten; the defaults follow what was given.
GenerateShortBlock(params) ==
    IF ~TouchesLight(params) THEN params
    ELSE Sorted(FilledIn(ExplicitValues(params), {IndexScenario} \cup (LightRange \ {IndexLightEnd})))

GenerateAppendedBlock(params) ==
    IF ~TouchesLight(params) THEN params
    ELSE params \o Sorted(FilledIn(<<>>, {IndexScenario} \cup LightRange))

GenerateCompleteBlock(params) ==
    IF ~TouchesLight(params) THEN params
    ELSE Sorted(FilledIn(ExplicitValues(params), {IndexScenario} \cup LightRange))

VARIABLES
    params,     \* what was injected last
    block       \* what was put into the queue for it

vars == <<params, block>>

Init == params = <<>> /\ block = <<>>

AddAction(list) == params' = list /\ block' = GenerateCompleteBlock(list)

Inject == params = <<>> /\ \E list \in Injections : AddAction(list)

InjectAgain == block # <<>> /\ AddAction(block)

Next == Inject \/ InjectAgain

Spec == Init /\ [][Next]_vars

-----------------------------------------------------------------------------
(* What the block must be, said without an algorithm.                      *)

\* The firmware drops an action that touches a light unless the scenario
\* index and every light are there; it applies indices in ascending order.
Complete(given, made) ==
    /\ LightRange \cup {IndexScenario} \subseteq IndicesOf(made)
    /\ IndicesOf(made) \subseteq LightRange \cup {IndexScenario} \cup IndicesOf(given)
    /\ \A i, j \in DOMAIN made : i < j => made[i].k < made[j].k

\* The i-th parameter is the last one for its index.
LastForIndex(given, i) == \A j \in DOMAIN given : given[j].k = given[i].k => j <= i

\* A value given explicitly is kept, the last one if there are several; a
\* light nobody mentioned is switched off and the scenario is triggered.
Preserving(given, made) == \A i \in DOMAIN made :
    /\ \A j \in DOMAIN given :
           given[j].k = made[i].k /\ LastForIndex(given, j) => made[i].v = given[j].v
    /\ made[i].k \notin IndicesOf(given) =>
           made[i].v = IF made[i].k = IndexScenario THEN Num(1) ELSE Num(0)

\* An action that touches a light or shutter is never dropped by the
\* firmware for an index that is missing, doubled or out of order.
LightBlocksComplete == TouchesLight(params) => Complete(params, block)

\* What was asked for is what the block says, and nothing else is switched
\* on; an action that touches no light is passed on as it came.
AskedValuesKept == IF TouchesLight(params) THEN Preserving(params, block) ELSE block = params

\* Injecting a block that was already completed changes nothing.
InjectAgainSame == [][InjectAgain /\ TouchesLight(params) => block' = block]_vars
=============================================================================
