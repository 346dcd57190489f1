---------------------------- MODULE MCAnalysisPool ----------------------------
(* Batches of up to three short files whose segments belong to two streams. *)
EXTENDS AnalysisPool

Segment(stream, seg, time) ==
    [kind |-> "segment", stream |-> stream, seg |-> seg, time |-> time, kept |-> TRUE]

Other(kind, kept) == [kind |-> kind, stream |-> "a", seg |-> 0, time |-> 0, kept |-> kept]

Text == Other("text", TRUE)

\* A whole dump; one that goes on elsewhere; its rest; a repetition with a gap; two
\* streams; what belongs to no dump; a segment the rules drop, with rows.
MCFiles == {
    <<Segment("a", 0, 2), Text, Segment("a", 1, 3)>>,
    <<Other("driver", TRUE), Segment("a", 0, 4), Other("blank", TRUE)>>,
    <<Segment("a", 1, 3), Text, Other("invalid", TRUE), Text>>,
    <<Segment("a", 3, 5), Segment("a", 3, 6), Text>>,
    <<Segment("b", 3, 1), Segment("a", 1, 1), Segment("b", 0, 1)>>,
    <<Text, Other("blank", TRUE), Other("driver", FALSE)>>,
    <<[Segment("a", 0, 1) EXCEPT !.kept = FALSE], Text>>}

\* Batches of three are of files that begin with a segment.
Three == {file \in MCFiles : file[1].kind = "segment" /\ file[1].kept}

MCInputs == UNION {[1..n -> MCFiles] : n \in 0..2} \cup [1..3 -> Three]
=============================================================================
