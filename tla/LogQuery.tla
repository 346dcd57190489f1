------------------------------- MODULE LogQuery -------------------------------
(***************************************************************************)
(* query_log_records of autoenv/log_query.py over the rows of one target:   *)
(* which rows a filtered query shows, by offset and by page.  Rows are      *)
(* numbered by their sequence; what the filters select is a set of them.    *)
(***************************************************************************)
EXTENDS Naturals, Sequences, FiniteSetsExt, SequencesExt

\* ORDER BY: the k-th row of a set of numbers has k - 1 of them before it.
InSequence(S) ==
    [k \in 1..Cardinality(S) |-> CHOOSE r \in S : Cardinality({x \in S : x < r}) = k - 1]

\* Mutant: the context after a hit is one row short, as range() without + 1.
ContextShort(S, n, context) ==
    {r \in 1..n : \E h \in S : h - context <= r /\ r < h + context}

\* The rows around the hits of S.
Context(S, n, context) ==
    {r \in 1..n : \E h \in S : h <= r + context /\ r <= h + context}

\* A slice of s as Python takes it.
Slice(s, start, limit) ==
    SubSeq(s, start + 1, IF start + limit < Len(s) THEN start + limit ELSE Len(s))

\* By offset the context is part of what is counted.
Window(hits, n, context, offset, limit) ==
    Slice(InSequence(Context(hits, n, context)), offset, limit)

WindowHasMore(hits, n, context, offset, limit) ==
    offset + limit < Cardinality(Context(hits, n, context))

\* By page the hits are, and each page is expanded afterwards.
Page(hits, n, context, page, limit) ==
    InSequence(Context(ToSet(Slice(InSequence(hits), (page - 1) * limit, limit)), n, context))

\* Mutant: the last page is never the last.
PageHasMoreAtLimit(hits, page, limit) == (page - 1) * limit + limit <= Cardinality(hits)

PageHasMore(hits, page, limit) == (page - 1) * limit + limit < Cardinality(hits)
=============================================================================
