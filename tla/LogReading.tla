------------------------------ MODULE LogReading ------------------------------
(***************************************************************************)
(* A file is matched, its strict blocks become the rows of a target, and a  *)
(* reader looks through the rows a filter selects: by offset, the next one  *)
(* after the rows it has, or page by page, as long as there is more.        *)
(***************************************************************************)
EXTENDS LogRules

CONSTANTS
    MaxContext,   \* context lines a query may ask for
    MaxLimit      \* rows of a page

ASSUME ReadingAssumption == MaxContext \in Nat /\ MaxLimit \in Nat

VARIABLES
    mode,      \* "match", "ask" or "done"
    target,    \* how many rows the target has
    asked,     \* the query: hits, context, limit, and by which way
    answers    \* the answers so far

readingVars == <<matchVars, mode, target, asked, answers>>

NoQuery == [hits |-> {}, context |-> 0, limit |-> 1, paged |-> FALSE]

ReadingInit ==
    /\ RulesInit
    /\ mode = "match" /\ target = 0 /\ asked = NoQuery /\ answers = <<>>

Matching == mode = "match" /\ RulesNext /\ UNCHANGED <<mode, target, asked, answers>>

\* The rows are indexed; the lines are not needed any more.
Ask(hits, context, limit, paged) ==
    /\ mode = "match" /\ eof
    /\ hits \subseteq 1..Len(strict.out)
    /\ mode' = "ask"
    /\ target' = Len(strict.out)
    /\ asked' = [hits |-> hits, context |-> context, limit |-> limit, paged |-> paged]
    /\ lines' = <<>> /\ stamps' = <<>> /\ previous' = NoTime
    /\ block' = [active |-> FALSE, anchor |-> NoTime, out |-> <<>>]
    /\ legacy' = [explicit |-> FALSE, anchor |-> NoTime, segment |-> NoTime,
                  buffer |-> <<>>, out |-> <<>>]
    /\ strict' = [mode |-> "head", head |-> <<>>, out |-> <<>>]
    /\ UNCHANGED <<eof, answers>>

Shown == FlattenSeq(answers)

FetchWindow ==
    /\ mode = "ask" /\ ~asked.paged
    /\ answers' = Append(answers, Window(asked.hits, target, asked.context, Len(Shown), asked.limit))
    /\ mode' = IF WindowHasMore(asked.hits, target, asked.context, Len(Shown), asked.limit)
               THEN "ask" ELSE "done"
    /\ UNCHANGED <<matchVars, target, asked>>

FetchPage ==
    /\ mode = "ask" /\ asked.paged
    /\ answers' = Append(answers, Page(asked.hits, target, asked.context, Len(answers) + 1, asked.limit))
    /\ mode' = IF PageHasMore(asked.hits, Len(answers) + 1, asked.limit) THEN "ask" ELSE "done"
    /\ UNCHANGED <<matchVars, target, asked>>

ReadingNext ==
    \/ Matching
    \/ \E hits \in SUBSET (1..MaxLines), context \in 0..MaxContext,
          limit \in 1..MaxLimit, paged \in BOOLEAN : Ask(hits, context, limit, paged)
    \/ FetchWindow \/ FetchPage

ReadingSpec == ReadingInit /\ [][ReadingNext]_readingVars

\* Scrolling shows every hit with its context, each row once and in order,
\* wherever the windows are cut.
ScrollShowsAll ==
    mode = "done" /\ ~asked.paged =>
        Shown = InSequence({r \in 1..target : \E h \in asked.hits :
                                r - h \in -asked.context..asked.context})

\* Each page has its own hits, each of them with its context and none missing
\* at the seams; there is no page without one, but for the first.
PagesKeepContext ==
    mode = "done" /\ asked.paged =>
        /\ \A h \in asked.hits : \E p \in DOMAIN answers :
              \A r \in 1..target : r - h \in -asked.context..asked.context => r \in ToSet(answers[p])
        /\ \A p \in DOMAIN answers : p > 1 => asked.hits \cap ToSet(answers[p]) # {}
        /\ \A p \in DOMAIN answers : \A k \in 1..(Len(answers[p]) - 1) : answers[p][k] < answers[p][k + 1]

\* Whatever a user scrolls or pages through, nothing that matches is missing.
ReadingsAreWhole == ScrollShowsAll /\ PagesKeepContext
=============================================================================
