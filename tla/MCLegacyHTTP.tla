---------------------------- MODULE MCLegacyHTTP ----------------------------
(* Small instances of LegacyHTTP.                                          *)
EXTENDS LegacyHTTP

CONSTANT MaxBody    \* bound: parts of a body

Bare(path, headers) ==
    [path |-> path, line |-> "line", headers |-> headers, cred |-> <<"alice", "key">>,
     body |-> 0, takes |-> TRUE]
WithBody(path, headers) == [Bare(path, headers) EXCEPT !.body = MaxBody]
Signed(cred) == [Bare("myactions", <<"auth">>) EXCEPT !.cred = cred]

\* Every route, with and without credentials, the two headers in both orders.
Understood ==
    {WithBody(path, headers) : path \in NeedBody,
                               headers \in {<<"auth", "length">>, <<"length", "auth">>, <<"length">>}}
    \cup {Bare(path, headers) : path \in {"mystatus", "done", "done no guid", "no route", "serverinfos"},
                                headers \in {<<"auth">>, <<>>}}
    \cup {Bare(path, <<>>) : path \in Public}

\* No text, no colon, a key that was replaced, a key with a colon, an empty
\* key, clients nobody lists, a name with a colon.
Credentials ==
    {<<>>, <<"alice">>, <<"alice", "key">>, <<"alice", "old">>, <<"alice", "key", "2">>,
     <<"alice", "">>, <<"bob", "">>, <<"bob", "key">>, <<"a", "b", "key">>}

\* The body is announced in a spelling that Sscanf does not read, alone,
\* before and after a line that it reads.
OddlySpelled ==
    {WithBody("mystatus", headers) :
        headers \in {<<"auth", "odd">>, <<"auth", "odd", "length">>, <<"auth", "length", "odd">>}}

Malformed == {[Bare("done", <<"auth">>) EXCEPT !.line = "badline"]}

\* A peer that asks for its actions and does not take the answer.
Stalled == {[Bare("myactions", <<"auth">>) EXCEPT !.takes = FALSE]}

AllRequests ==
    Understood \cup {Signed(cred) : cred \in Credentials} \cup OddlySpelled \cup Malformed \cup Stalled

NoSource == [f \in {} |-> Bad]
File == [enabled |-> TRUE, clients |-> <<"alice">> :> <<"key">>]

\* Authentication off and on, from the file and from the environment, which
\* replaces the file's clients, or cannot be read and leaves them; a name or
\* a key that is missing, two entries for one client; nobody configured; and
\* values that are refused, in the file, in the environment and by Validate.
AllSources ==
    {[yaml |-> y, env |-> e] :
        y \in {NoSource, File},
        e \in {NoSource, [enabled |-> Bad, level |-> "loud"],
               [clients |-> <<<<"alice", "old">>, <<"alice", "key", "2">>>>],
               [enabled |-> TRUE, port |-> Bad,
                clients |-> <<<<"alice">>, <<"alice", "">>, <<"", "key">>>>]}}
    \cup {[yaml |-> [File EXCEPT !.enabled = Bad], env |-> [enabled |-> Bad]],
          [yaml |-> [File EXCEPT !.clients = <<"a", "b">> :> <<"key">>], env |-> [port |-> 8080]],
          [yaml |-> File, env |-> [enabled |-> FALSE]],
          [yaml |-> [readTimeout |-> 0, clients |-> Bad], env |-> NoSource],
          [yaml |-> [port |-> 0], env |-> [port |-> 80]],
          [yaml |-> NoSource, env |-> [port |-> 65536]]}

FileOnly == {[yaml |-> File, env |-> NoSource]}
=============================================================================
