------------------------------ MODULE MCHttpRx ------------------------------
(* Streams of every kind through a header buffer of 9 units, 8 of them usable. *)
EXTENDS HttpRx, TLC

MCLengths == [len0 |-> 0, len1 |-> 1, len2 |-> 2, len3 |-> 3, len4 |-> 4]

\* A ulong has 2^5 values here.
WrapLengths == MCLengths @@ [wrapped |-> 34]

Heads ==
  { <<"get">>, <<"get", "x", "x", "x">>, <<"get", "x", "x", "x", "x">>, <<"x">>,
    <<"get", "r", "n", "x">>, <<"get", "r", "n", "r">>, <<"upload">>,
    <<"upload", "len0">>, <<"upload", "len2">>, <<"upload", "len3">>, <<"upload", "len4">>,
    <<"upload", "x", "x", "len2">>, <<"upload", "len3", "len2">>, <<"upload", "len_x">>,
    <<"raw", "len2">>, <<"raw", "len3">>, <<"raw", "len4">>,
    <<"env", "len1">>, <<"env", "len2">>, <<"env", "len3">>, <<"env">> }

Bodies == {<<>>, <<"a", "b">>, <<"a", "b", "c">>, <<"r", "n", "r", "n">>}

MCStreams == {h \o EmptyLine \o b : h \in Heads, b \in Bodies}

\* Three connections: one that is closed and fails late, one that loses the
\* context to that, and the next client. Behaviours with an orphan go on if the
\* open connections send one of these.
OrphanStreams == {<<"get">> \o EmptyLine, <<"upload", "len3">> \o EmptyLine \o <<"a", "b", "c">>}

FewOrphans ==
  orphaned => \A p \in Conns : peers[p].state = "open" => peers[p].sent \in OrphanStreams

WrapStreams == {<<"upload", l>> \o EmptyLine \o <<"a", "b">> : l \in {"len2", "wrapped"}}

\* Bodies that begin with "a" are fine.
MCValid(first, b) == b[1] = "a"

AnyConn == Permutations(Conns)
=============================================================================
