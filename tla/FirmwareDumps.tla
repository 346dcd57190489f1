---------------------------- MODULE FirmwareDumps ----------------------------
(***************************************************************************)
(* How product_log/parser.py cuts a source file into firmware segments, and *)
(* product_log/index.py joins the segments of all files into dumps.  A line *)
(* is what the profile's regexes say of it: a firmware header (a "segment"  *)
(* of a stream, with its number and time), a driver record, a header that   *)
(* is not valid, a line of text, a blank one.                               *)
(***************************************************************************)
EXTENDS Integers, Sequences, FiniteSetsExt, SequencesExt

CONSTANT Streams   \* device, host, service, slot, CPU, module, unit and type of a dump

None == 0

Line == [kind : {"segment", "driver", "invalid", "text", "blank"},
         stream : Streams, seg : Nat, time : Nat,
         kept : BOOLEAN]   \* do the record rules keep it?

(***************************************************************************)
(* parse_file: the header that is open, the rows that wait for its end, and *)
(* the shard: line numbers of segments, of records with their header, and   *)
(* of lines a diagnostic names.                                             *)
(***************************************************************************)
NewShard == [number |-> 0, header |-> None, rows |-> <<>>,
             segments |-> <<>>, records |-> <<>>, diagnosed |-> {}]

FlushSegment(file, p) ==
    IF p.header = None \/ ~file[p.header].kept
    THEN p
    ELSE [p EXCEPT !.segments = Append(@, p.header),
                   !.records = @ \o [i \in DOMAIN p.rows |-> <<p.rows[i], p.header>>]]

Closed(file, p) == [FlushSegment(file, p) EXCEPT !.header = None, !.rows = <<>>]

ReadLine(file, p) ==
    LET n == p.number + 1
        next == [p EXCEPT !.number = n]
        closed == [Closed(file, p) EXCEPT !.number = n]
        kind == file[n].kind
    IN  CASE kind = "segment" -> [closed EXCEPT !.header = n]
          [] kind = "driver" /\ file[n].kept ->
                [closed EXCEPT !.records = Append(@, <<n, None>>)]
          [] kind = "driver" /\ ~file[n].kept -> closed
          [] kind = "invalid" -> [closed EXCEPT !.diagnosed = @ \cup {n}]
          [] kind \in {"text", "blank"} /\ p.header # None ->
                [next EXCEPT !.rows = Append(@, n)]
          [] kind = "text" /\ p.header = None -> [next EXCEPT !.diagnosed = @ \cup {n}]
          [] kind = "blank" /\ p.header = None -> next

(***************************************************************************)
(* build_index, once the shards are merged: segments is the sequence of the *)
(* headers in source order.  A dump is named by the place of its first      *)
(* segment; first is the earliest time of each.                             *)
(***************************************************************************)
NoDumps == [active |-> [s \in Streams |-> None], previous |-> [s \in Streams |-> 0],
            dumps |-> <<>>, first |-> <<>>, diagnostics |-> {}, missing |-> {}]

Codes == {"missing_start", "duplicate_segment", "segment_time_reversed"}

\* UPDATE dumps SET first_value: the earliest time of the dump so far.
FirstValues(first, dump, time) ==
    [Append(first, time) EXCEPT ![dump] = IF time < @ THEN time ELSE @]

AssignSegment(segments, a, i) ==
    LET s == segments[i]
        new == s.seg = 0 \/ a.active[s.stream] = None
        dump == IF new THEN i ELSE a.active[s.stream]
        repeated == \E j \in 1..i - 1 : a.dumps[j] = dump /\ segments[j].seg = s.seg
        reversed == s.time < a.previous[s.stream]
    IN  [a EXCEPT
         !.active[s.stream] = dump,
         !.previous[s.stream] = s.time,
         !.dumps = Append(@, dump),
         !.first = FirstValues(@, dump, s.time),
         !.diagnostics = @ \cup {<<i, code>> : code \in {c \in Codes :
                    \/ c = "missing_start" /\ new /\ s.seg # 0
                    \/ c = "duplicate_segment" /\ ~new /\ repeated
                    \/ c = "segment_time_reversed" /\ ~new /\ reversed}}]

\* SELECT ... GROUP BY dump_id, seg ORDER BY dump_id, seg: a row and the one after it.
Before(x, y) == x[1] < y[1] \/ (x[1] = y[1] /\ x[2] < y[2])

Neighbours(segments, dumps) ==
    LET numbers == {<<dumps[i], segments[i].seg>> : i \in DOMAIN segments}
    IN  {p \in numbers \X numbers :
            /\ Before(p[1], p[2])
            /\ \A x \in numbers : ~(Before(p[1], x) /\ Before(x, p[2]))}

\* Mutant: the last number of one dump counts for the next.
MissingAcrossDumps(segments, dumps) ==
    {<<p[2][1], p[1][2] + 1, p[2][2] - 1>> :
        p \in {q \in Neighbours(segments, dumps) : q[2][2] > q[1][2] + 1}}

\* Two neighbours of one dump that are not consecutive have a gap between them.
MissingSegments(segments, dumps) ==
    {<<p[2][1], p[1][2] + 1, p[2][2] - 1>> :
        p \in {q \in Neighbours(segments, dumps) :
                q[1][1] = q[2][1] /\ q[2][2] > q[1][2] + 1}}

(***************************************************************************)
(* What they promise, said of whole files.                                  *)
(***************************************************************************)
\* The header a row belongs to: the last line before it that starts a record.
HeaderOf(file, n) ==
    LET starts == {h \in 1..n - 1 : file[h].kind \in {"segment", "driver", "invalid"}}
    IN  IF starts = {} THEN None ELSE Max(starts)

BelongsTo(file, n, h) ==
    /\ file[n].kind \in {"text", "blank"}
    /\ h = HeaderOf(file, n) /\ h # None
    /\ file[h].kind = "segment" /\ file[h].kept

RecordsOf(file) ==
    {x \in (1..Len(file)) \X (0..Len(file)) :
        \/ x[2] = None /\ file[x[1]].kind = "driver" /\ file[x[1]].kept
        \/ BelongsTo(file, x[1], x[2])}

SegmentsOf(file) == {n \in DOMAIN file : file[n].kind = "segment" /\ file[n].kept}

\* The dump of segment i starts at the last start of its stream, or at its first segment.
DumpOf(segments, i) ==
    LET same == {j \in 1..i : segments[j].stream = segments[i].stream}
        starts == {j \in same : segments[j].seg = 0}
    IN  IF starts = {} THEN Min(same) ELSE Max(starts)

DumpsAreRight(segments, result) ==
    LET Members(d) == {i \in DOMAIN segments : DumpOf(segments, i) = d}
        Numbers(d) == {segments[i].seg : i \in Members(d)}
        Heads == {d \in DOMAIN segments : Members(d) # {}}
    IN  /\ \A i \in DOMAIN segments : result.dumps[i] = DumpOf(segments, i)
        /\ \A d \in Heads :
            /\ result.first[d] = Min({segments[i].time : i \in Members(d)})
            /\ <<d, "missing_start">> \in result.diagnostics <=> 0 \notin Numbers(d)
            /\ UNION {m[2]..m[3] : m \in {x \in result.missing : x[1] = d}}
                 = (Min(Numbers(d))..Max(Numbers(d))) \ Numbers(d)
        /\ \A i \in DOMAIN segments :
            LET earlier == {j \in Members(DumpOf(segments, i)) : j < i}
            IN  /\ <<i, "duplicate_segment">> \in result.diagnostics
                    <=> \E j \in earlier : segments[j].seg = segments[i].seg
                /\ <<i, "segment_time_reversed">> \in result.diagnostics
                    <=> earlier # {} /\ segments[Max(earlier)].time > segments[i].time
=============================================================================
