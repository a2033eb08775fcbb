---------------------------- MODULE MCActionBlock ----------------------------
(***************************************************************************)
(* Small instances of what is computed from a body.  Every short list of   *)
(* parameters around the limits of the light range is injected; and every  *)
(* body in a small set is received, whole or cut anywhere.                 *)
(***************************************************************************)
EXTENDS ActionFusion, Bodies

CONSTANTS
    MaxParams,      \* bound: parameters of an injected action
    MaxEntries      \* bound: entries of a body that is received

\* Indices on both sides of each limit of the range, and values that are
\* zero, disjoint bits and no number.
InjectedKeys == {IndexScenario, IndexLightStart - 1, IndexLightStart,
                 IndexLightStart + 8, IndexLightEnd, IndexLightEnd + 1}
InjectedParams == [k : InjectedKeys, v : {Num(64), Num(128), Text(1)}]

ShortLists == BoundedSeq(InjectedParams, MaxParams)

\* Values with blanks and with the patterns of NormalizeJSON in them.
SentValues == {<<"on", " ", "off">>, <<"{", "k", ":">>, <<"off", ",", "v", ":">>}
SentEntries == [k : Numbers, v : SentValues]
Lists == BoundedSeq(SentEntries, MaxEntries)
             \cup {<<[k |-> "613", v |-> <<"on">>], [k |-> "590", v |-> <<"on", " ", "off">>]>>}
EntryStyles == {style \in Styles : style.bare \subseteq {"k", "v"}}

WholeBodies ==
    [kind : {"report"}, meant : [version : SentValues, ek : Lists], style : Styles, lost : {0}]
    \cup [kind : {"entries"}, meant : Lists, style : EntryStyles, lost : {0}]
    \cup [kind : {"entry"}, meant : [1 .. 1 -> SentEntries], style : EntryStyles, lost : {0}]

CutBodies ==
    UNION {[kind : {b.kind}, meant : {b.meant}, style : {b.style}, lost : 1 .. Len(TextOf(b))] :
        b \in {x \in WholeBodies :
                /\ x.style.bare = IF x.kind = "report" THEN Names ELSE {}
                /\ ~x.style.swap
                /\ x.kind = "report" => x.meant.version = <<"on", " ", "off">> /\ Len(x.meant.ek) < 2}}

SmallBodies == WholeBodies \cup CutBodies

MCInit == Init /\ ReceiveInit
MCNext == (body = NoBody /\ Next /\ UNCHANGED bodyVars) \/ (ReceiveBody /\ UNCHANGED vars)
MCSpec == MCInit /\ [][MCNext]_<<vars, bodyVars>>
=============================================================================
