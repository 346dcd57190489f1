---------------------------- MODULE RemotesProofs ----------------------------
(***************************************************************************)
(* Theorems about Remotes: what a host and a console answer a script, for     *)
(* any protocols, keyword and text, and any number of operations.            *)
(***************************************************************************)
EXTENDS Remotes, SequenceTheorems, WellFoundedInduction, TLAPS

-----------------------------------------------------------------------------
(* A host.                                                                  *)

Files == {"absent", "old", "new", "torn"}
LocalNodes == [of : Files, whole : BOOLEAN]
Texts == Seq(Host!Range(Keyword))

ExecuteFields == {"keyword", "expect", "connected", "sent", "attempted", "answered"}

\* A command that is under way: what it has received, and whether the keyword
\* was in it.
OutputFits(c) ==
    /\ {"text", "tail"} \subseteq DOMAIN c
    /\ DOMAIN c.text = Host!Streams /\ DOMAIN c.tail = Host!Streams
    /\ \A s \in Host!Streams : c.text[s] \in Texts /\ c.tail[s] = Host!KeptTail(c.text[s])
    /\ c.attempted <=> \E s \in Host!Streams : Host!Occurs(c.text[s])

ExecuteFits(c) ==
    /\ ExecuteFields \subseteq DOMAIN c
    /\ c.pc \in {"connect", "send", "output", "answer", "over"}
    /\ c.pc \in {"connect", "send"} => ~c.sent /\ ~c.attempted
    /\ c.pc = "output" => c.sent /\ (c.attempted <=> c.answered)
    /\ c.pc = "answer" => c.attempted /\ ~c.answered
    /\ c.attempted => c.keyword
    /\ c.answered => c.attempted
    /\ c.pc # "over" => OutputFits(c)

\* What the outcome of a command says of the device and of the connection.
OutcomeFits(c) ==
    c.pc = "over" /\ ~c.keyword =>
        /\ c.status = "success" =>
              \/ device.command = "zero"
              \/ c.expect /\ c.sent /\ host.conn = "none"
        /\ c.status = "command_failed" => device.command = "nonzero"

TransferFits(c) ==
    /\ c.pc \in {"connect", "probe", "put", "verify", "get", "size", "over"}
    /\ "overwrite" \in DOMAIN c
    /\ c.pc \in {"put", "verify"} => c.op = "upload"
    /\ c.pc \in {"get", "size"} => c.op = "download"

CallFits ==
    /\ {"op", "pc", "status"} \subseteq DOMAIN call
    /\ call.op \in {"none", "execute", "upload", "download"}
    /\ call.op = "none" => call.pc = "none"
    /\ call.pc = "none" => call.op = "none"
    /\ call.pc # "over" => call.status = "none"
    /\ call.op = "execute" => ExecuteFits(call) /\ OutcomeFits(call)
    /\ call.op \in {"upload", "download"} => TransferFits(call)

HostTyped ==
    /\ host \in [protocol : Protocols, conn : {"none", "up", "dead"},
                 closed : BOOLEAN, uploaded : BOOLEAN]
    /\ device \in [file : Files, command : {"none", "running", "zero", "nonzero"}]
    /\ local \in [file : LocalNodes, part : LocalNodes]

HostInv ==
    /\ HostTyped /\ CallFits
    /\ call.op = "upload" /\ call.status = "success" => device.file = "new"
    /\ host.uploaded => device.file \in {"new", "torn"}
    /\ local.file.whole
    /\ local.part # Host!NoFile => call.op = "download" /\ call.pc = "size"

-----------------------------------------------------------------------------
LEMMA HostInitInv == Host!HostInit => HostInv
<1> SUFFICES ASSUME Host!HostInit PROVE HostInv
  OBVIOUS
<1>1. /\ Host!NoFile \in LocalNodes /\ Host!NoFile.whole
      /\ Host!NoCall.op = "none" /\ Host!NoCall.pc = "none" /\ Host!NoCall.status = "none"
      /\ {"op", "pc", "status"} \subseteq DOMAIN Host!NoCall
  BY DEF Host!NoFile, Host!NoCall, LocalNodes, Files
<1>2. HostTyped /\ host.uploaded = FALSE
  BY <1>1 DEF Host!HostInit, Host!NewHost, HostTyped, Files
<1>3. CallFits
  BY <1>1 DEF Host!HostInit, CallFits
<1> QED  BY <1>1, <1>2, <1>3 DEF Host!HostInit, HostInv

\* The keyword is in a text where its characters are, one after the other.
LEMMA OccursPointwise ==
  ASSUME NEW t \in Seq(STRING)
  PROVE  Host!Occurs(t) <=>
            \E i \in 1..Len(t) : /\ i + Len(Keyword) <= Len(t) + 1
                                 /\ \A j \in 1..Len(Keyword) : t[i + j - 1] = Keyword[j]
<1> DEFINE K == Keyword
<1>1. K \in Seq(STRING) /\ Len(K) \in Nat /\ Len(t) \in Nat
  BY HostAssumption, LenProperties
<1>2. ASSUME NEW i \in 1..Len(t)
      PROVE  Host!IsPrefix(K, SubSeq(t, i, Len(t))) <=>
                /\ i + Len(K) <= Len(t) + 1
                /\ \A j \in 1..Len(K) : t[i + j - 1] = K[j]
  <2> DEFINE u == SubSeq(t, i, Len(t))
  <2>1. /\ u \in Seq(STRING) /\ Len(u) = Len(t) - i + 1
        /\ \A j \in 1..Len(u) : u[j] = t[i + j - 1]
    BY <1>1, SubSeqProperties
  <2>2. SubSeq(K, 1, Len(K)) = K
    BY <1>1, SubSeqProperties, SeqEqual
  <2> HIDE DEF u
  <2>3. ASSUME Len(K) <= Len(u)
        PROVE  /\ SubSeq(u, 1, Len(K)) \in Seq(STRING) /\ Len(SubSeq(u, 1, Len(K))) = Len(K)
               /\ \A j \in 1..Len(K) : SubSeq(u, 1, Len(K))[j] = t[i + j - 1]
    BY <1>1, <2>1, <2>3, SubSeqProperties
  <2>4. ASSUME Len(K) <= Len(u)
        PROVE  SubSeq(u, 1, Len(K)) = K <=> \A j \in 1..Len(K) : t[i + j - 1] = K[j]
    BY <1>1, <2>3, <2>4, SeqEqual
  <2>5. Host!IsPrefix(K, u) <=> Len(K) <= Len(u) /\ K = SubSeq(u, 1, Len(K))
    BY <2>2 DEF Host!IsPrefix
  <2>6. Len(K) <= Len(u) <=> i + Len(K) <= Len(t) + 1
    BY <1>1, <2>1
  <2> QED  BY <2>4, <2>5, <2>6 DEF u
<1> QED  BY <1>2 DEF Host!Occurs

\* How much of a text is dropped, and what is kept.
Cut(t) == IF Len(t) + 1 > Len(Keyword) THEN Len(t) + 1 - Len(Keyword) ELSE 0

LEMMA KeywordLength == Keyword \in Seq(STRING) /\ Len(Keyword) \in Nat /\ Len(Keyword) >= 1
BY HostAssumption, LenProperties, EmptySeq

LEMMA KeptTailIsEnd ==
  ASSUME NEW t \in Seq(STRING)
  PROVE  /\ Cut(t) \in 0..Len(t)
         /\ Host!KeptTail(t) \in Seq(STRING)
         /\ Len(Host!KeptTail(t)) = Len(t) - Cut(t)
         /\ \A j \in 1..(Len(t) - Cut(t)) : Host!KeptTail(t)[j] = t[j + Cut(t)]
<1>1. Len(t) \in Nat /\ Len(Keyword) \in Nat /\ Len(Keyword) >= 1
  BY KeywordLength, LenProperties
<1>2. Cut(t) \in 0..Len(t)
  BY <1>1 DEF Cut
<1>3. Host!Max({1, Len(t) - Len(Keyword) + 2}) = Cut(t) + 1
  <2> DEFINE n == Len(t) - Len(Keyword) + 2
  <2>1. n \in Int /\ Cut(t) + 1 = IF n > 1 THEN n ELSE 1
    BY <1>1 DEF Cut
  <2>2. Cut(t) + 1 \in {1, n} /\ \A y \in {1, n} : Cut(t) + 1 >= y
    BY <2>1
  <2>3. \A x \in {1, n} : (\A y \in {1, n} : x >= y) => x = Cut(t) + 1
    BY <2>1
  <2> HIDE DEF n
  <2>4. Host!Max({1, n}) = Cut(t) + 1
    BY <2>2, <2>3 DEF Host!Max
  <2> QED  BY <2>4 DEF n
<1>4. Host!KeptTail(t) = SubSeq(t, Cut(t) + 1, Len(t))
  BY <1>3 DEF Host!KeptTail
<1>5. /\ Cut(t) + 1 \in 1..(Len(t) + 1)
      /\ IF Cut(t) + 1 <= Len(t) THEN Len(t) - (Cut(t) + 1) + 1 = Len(t) - Cut(t)
         ELSE Len(t) - Cut(t) = 0
  BY <1>1, <1>2
<1>6. /\ SubSeq(t, Cut(t) + 1, Len(t)) \in Seq(STRING)
      /\ Len(SubSeq(t, Cut(t) + 1, Len(t))) = Len(t) - Cut(t)
      /\ \A j \in 1..(Len(t) - Cut(t)) : SubSeq(t, Cut(t) + 1, Len(t))[j] = t[j + Cut(t)]
  <2>1. \A m \in 1..(Len(t) + 1) :
          /\ SubSeq(t, m, Len(t)) \in Seq(STRING)
          /\ Len(SubSeq(t, m, Len(t))) = Len(t) - m + 1
          /\ \A j \in 1..(Len(t) - m + 1) : SubSeq(t, m, Len(t))[j] = t[m + j - 1]
    BY <1>1, SubSeqProperties
  <2> QED  BY <1>1, <1>2, <1>5, <2>1
<1> QED  BY <1>2, <1>4, <1>6

\* The window of a chunk is the end of the text that the chunk makes.
LEMMA WindowIsEnd ==
  ASSUME NEW t \in Seq(STRING), NEW c \in Seq(STRING)
  PROVE  /\ Host!KeptTail(t) \o c \in Seq(STRING) /\ t \o c \in Seq(STRING)
         /\ Len(t \o c) = Len(t) + Len(c)
         /\ Len(Host!KeptTail(t) \o c) = Len(t \o c) - Cut(t)
         /\ \A j \in 1..Len(Host!KeptTail(t) \o c) :
               (Host!KeptTail(t) \o c)[j] = (t \o c)[j + Cut(t)]
         /\ \A j \in 1..Len(t) : (t \o c)[j] = t[j]
<1> DEFINE v == Host!KeptTail(t)
           d == Cut(t)
<1>1. /\ Len(t) \in Nat /\ Len(c) \in Nat /\ d \in 0..Len(t)
      /\ v \in Seq(STRING) /\ Len(v) = Len(t) - d
      /\ \A j \in 1..(Len(t) - d) : v[j] = t[j + d]
  BY KeptTailIsEnd, LenProperties
<1> HIDE DEF v, d
<1>2. /\ v \o c \in Seq(STRING) /\ Len(v \o c) = Len(v) + Len(c)
      /\ \A j \in 1..(Len(v) + Len(c)) : (v \o c)[j] = IF j <= Len(v) THEN v[j] ELSE c[j - Len(v)]
  BY <1>1, ConcatProperties
<1>3. /\ t \o c \in Seq(STRING) /\ Len(t \o c) = Len(t) + Len(c)
      /\ \A j \in 1..(Len(t) + Len(c)) : (t \o c)[j] = IF j <= Len(t) THEN t[j] ELSE c[j - Len(t)]
  BY <1>1, ConcatProperties
<1>4. ASSUME NEW j \in 1..(Len(v) + Len(c)) PROVE (v \o c)[j] = (t \o c)[j + d]
  <2>1. PICK m \in 1..(Len(t) + Len(c)) : m = j + d
    BY <1>1
  <2>2. (j <= Len(v) <=> m <= Len(t)) /\ j - Len(v) = m - Len(t)
    BY <1>1, <2>1
  <2>3. (t \o c)[m] = IF m <= Len(t) THEN t[m] ELSE c[m - Len(t)]
    BY <1>3
  <2>4. (v \o c)[j] = IF j <= Len(v) THEN v[j] ELSE c[j - Len(v)]
    BY <1>2
  <2>5. j <= Len(v) => v[j] = t[m]
    BY <1>1, <2>1
  <2> QED  BY <2>1, <2>2, <2>3, <2>4, <2>5
<1>5. \A j \in 1..Len(t) : (t \o c)[j] = t[j]
  <2>1. \A j \in 1..Len(t) : j \in 1..(Len(t) + Len(c)) /\ j <= Len(t)
    BY <1>1
  <2> QED  BY <1>3, <2>1
<1>6. Len(v \o c) = Len(t \o c) - d
  BY <1>1, <1>2, <1>3
<1> QED  BY <1>2, <1>3, <1>4, <1>5, <1>6 DEF v, d

\* What is kept of a window is what is kept of the whole text.
LEMMA KeptTailOfWindow ==
  ASSUME NEW t \in Seq(STRING), NEW c \in Seq(STRING)
  PROVE  Host!KeptTail(Host!KeptTail(t) \o c) = Host!KeptTail(t \o c)
<1> DEFINE w == Host!KeptTail(t) \o c
           u == t \o c
           k == Len(Keyword)
<1>1. /\ Len(t) \in Nat /\ Len(c) \in Nat /\ k \in Nat /\ k >= 1 /\ Cut(t) \in 0..Len(t)
      /\ Host!KeptTail(t) \in Seq(STRING) /\ Len(Host!KeptTail(t)) = Len(t) - Cut(t)
      /\ \A j \in 1..(Len(t) - Cut(t)) : Host!KeptTail(t)[j] = t[j + Cut(t)]
  BY KeywordLength, KeptTailIsEnd, LenProperties
<1>2. /\ w \in Seq(STRING) /\ Len(w) = Len(u) - Cut(t) /\ u \in Seq(STRING)
      /\ Len(u) = Len(t) + Len(c)
      /\ \A j \in 1..Len(w) : w[j] = u[j + Cut(t)]
  BY WindowIsEnd
<1> HIDE DEF w, u
<1>3. Cut(u) = Cut(w) + Cut(t)
  <2>1. Len(u) \in Nat /\ Len(w) \in Nat
    BY <1>1, <1>2, LenProperties
  <2>2. CASE Len(t) + 1 > k
    <3>1. Cut(t) = Len(t) + 1 - k
      BY <2>2 DEF Cut
    <3>2. Len(w) + 1 > k \/ Len(c) = 0
      BY <1>1, <1>2, <2>1, <3>1
    <3>3. Cut(w) = Len(c)
      <4>1. Len(w) + 1 - k = Len(c)
        BY <1>1, <1>2, <2>1, <3>1
      <4> QED  BY <1>1, <2>1, <3>2, <4>1 DEF Cut
    <3>4. Cut(u) = Len(t) + Len(c) + 1 - k
      BY <1>1, <1>2, <2>1, <2>2 DEF Cut
    <3> QED  BY <1>1, <3>1, <3>3, <3>4
  <2>3. CASE ~(Len(t) + 1 > k)
    <3>1. Cut(t) = 0
      BY <2>3 DEF Cut
    <3>2. Len(w) = Len(u)
      BY <1>2, <2>1, <3>1
    <3>3. Cut(w) = Cut(u) /\ Cut(u) \in Int
      BY <1>1, <2>1, <3>2 DEF Cut
    <3> QED  BY <3>1, <3>3
  <2> QED  BY <2>2, <2>3
<1>4. /\ Host!KeptTail(w) \in Seq(STRING) /\ Len(Host!KeptTail(w)) = Len(w) - Cut(w)
      /\ \A j \in 1..(Len(w) - Cut(w)) : Host!KeptTail(w)[j] = w[j + Cut(w)]
      /\ Cut(w) \in 0..Len(w) /\ Len(w) \in Nat /\ Len(u) \in Nat
  BY <1>2, KeptTailIsEnd, LenProperties
<1>5. /\ Host!KeptTail(u) \in Seq(STRING) /\ Len(Host!KeptTail(u)) = Len(u) - Cut(u)
      /\ \A j \in 1..(Len(u) - Cut(u)) : Host!KeptTail(u)[j] = u[j + Cut(u)]
  BY <1>2, KeptTailIsEnd
<1>6. Len(Host!KeptTail(w)) = Len(Host!KeptTail(u))
  <2>1. Len(u) \in Nat /\ Len(w) \in Nat /\ Cut(t) \in Nat /\ Cut(w) \in Nat
    BY <1>1, <1>4
  <2>2. Len(w) - Cut(w) = Len(u) - Cut(u)
    BY <1>2, <1>3, <2>1
  <2> QED  BY <1>4, <1>5, <2>2
<1>7. ASSUME NEW j \in 1..Len(Host!KeptTail(w)) PROVE Host!KeptTail(w)[j] = Host!KeptTail(u)[j]
  <2>1. j \in 1..(Len(w) - Cut(w)) /\ j \in 1..(Len(u) - Cut(u)) /\ j + Cut(w) \in 1..Len(w)
    BY <1>4, <1>5, <1>6
  <2>2. Host!KeptTail(w)[j] = w[j + Cut(w)] /\ Host!KeptTail(u)[j] = u[j + Cut(u)]
    BY <1>4, <1>5, <2>1
  <2>3. w[j + Cut(w)] = u[j + Cut(w) + Cut(t)]
    BY <1>2, <2>1
  <2>4. j + Cut(w) + Cut(t) = j + Cut(u)
    BY <1>1, <1>3, <1>4, <2>1
  <2> QED  BY <2>2, <2>3, <2>4
<1>8. Host!KeptTail(w) = Host!KeptTail(u)
  BY <1>4, <1>5, <1>6, <1>7, SeqEqual
<1> QED  BY <1>8 DEF w, u

\* A keyword that was not in the text before, and is in it now, is in the window
\* of the end of the text and the chunk.
LEMMA OccursInWindow ==
  ASSUME NEW t \in Seq(STRING), NEW c \in Seq(STRING), ~Host!Occurs(t)
  PROVE  Host!Occurs(Host!KeptTail(t) \o c) <=> Host!Occurs(t \o c)
<1> DEFINE w == Host!KeptTail(t) \o c
           u == t \o c
           k == Len(Keyword)
           At(x, i) == /\ i + k <= Len(x) + 1
                       /\ \A j \in 1..k : x[i + j - 1] = Keyword[j]
<1>1. /\ Len(t) \in Nat /\ Len(c) \in Nat /\ k \in Nat /\ k >= 1 /\ Cut(t) \in 0..Len(t)
      /\ Host!KeptTail(t) \in Seq(STRING) /\ Len(Host!KeptTail(t)) = Len(t) - Cut(t)
      /\ \A j \in 1..(Len(t) - Cut(t)) : Host!KeptTail(t)[j] = t[j + Cut(t)]
  BY KeywordLength, KeptTailIsEnd, LenProperties
<1>2. /\ w \in Seq(STRING) /\ Len(w) = Len(u) - Cut(t) /\ u \in Seq(STRING)
      /\ Len(u) = Len(t) + Len(c)
      /\ \A j \in 1..Len(w) : w[j] = u[j + Cut(t)]
      /\ \A j \in 1..Len(t) : u[j] = t[j]
  BY WindowIsEnd
<1> HIDE DEF w, u
<1>3. /\ Host!Occurs(t) <=> \E i \in 1..Len(t) : At(t, i)
      /\ Host!Occurs(w) <=> \E i \in 1..Len(w) : At(w, i)
      /\ Host!Occurs(u) <=> \E i \in 1..Len(u) : At(u, i)
  BY <1>2, OccursPointwise
<1>4. ASSUME NEW i \in 1..Len(w), At(w, i) PROVE \E m \in 1..Len(u) : At(u, m)
  <2>1. i + Cut(t) \in 1..Len(u) /\ i + Cut(t) + k <= Len(u) + 1
    BY <1>1, <1>2, <1>4
  <2>2. ASSUME NEW j \in 1..k PROVE u[i + Cut(t) + j - 1] = Keyword[j]
    <3>1. i + j - 1 \in 1..Len(w) /\ i + j - 1 + Cut(t) = i + Cut(t) + j - 1
      BY <1>1, <1>2, <1>4
    <3>2. w[i + j - 1] = u[i + j - 1 + Cut(t)]
      BY <1>2, <3>1
    <3> QED  BY <1>4, <3>1, <3>2
  <2> QED  BY <2>1, <2>2
<1>5. ASSUME NEW i \in 1..Len(u), At(u, i) PROVE \E m \in 1..Len(w) : At(w, m)
  <2>1. CASE i <= Cut(t)
    \* It would have been in the text before.
    <3>1. i \in 1..Len(t) /\ i + k <= Len(t) + 1
      BY <1>1, <2>1 DEF Cut
    <3>2. ASSUME NEW j \in 1..k PROVE t[i + j - 1] = Keyword[j]
      <4>1. i + j - 1 \in 1..Len(t)
        BY <1>1, <3>1
      <4> QED  BY <1>2, <1>5, <4>1
    <3> QED  BY <1>3, <3>1, <3>2
  <2>2. CASE i > Cut(t)
    <3>1. i - Cut(t) \in 1..Len(w) /\ i - Cut(t) + k <= Len(w) + 1
      BY <1>1, <1>2, <1>5, <2>2
    <3>2. ASSUME NEW j \in 1..k PROVE w[i - Cut(t) + j - 1] = Keyword[j]
      <4>1. i - Cut(t) + j - 1 \in 1..Len(w) /\ i - Cut(t) + j - 1 + Cut(t) = i + j - 1
        <5>1. Len(w) \in Nat /\ i \in Nat /\ j \in 1..k /\ Cut(t) \in Nat /\ k \in Nat
          BY <1>1, <1>2, LenProperties
        <5> DEFINE x == i - Cut(t)
        <5>2. x \in 1..Len(w) /\ x + k <= Len(w) + 1 /\ x + Cut(t) = i
          BY <3>1, <5>1
        <5> HIDE DEF x, k
        <5>3. x + j - 1 \in 1..Len(w) /\ x + j - 1 + Cut(t) = i + j - 1
          BY <5>1, <5>2
        <5> QED  BY <5>3 DEF x, k
      <4>2. w[i - Cut(t) + j - 1] = u[i - Cut(t) + j - 1 + Cut(t)]
        BY <1>2, <4>1
      <4> QED  BY <1>5, <4>1, <4>2
    <3> QED  BY <3>1, <3>2
  <2>3. i \in Nat /\ Cut(t) \in Nat
    BY <1>1
  <2> QED  BY <2>1, <2>2, <2>3
<1>6. Host!Occurs(w) <=> Host!Occurs(u)
  BY <1>3, <1>4, <1>5
<1> QED  BY <1>6 DEF w, u

-----------------------------------------------------------------------------
\* An operation that ends keeps what it was asked, and its outcome is told.
LEMMA EndsFacts ==
  ASSUME NEW status, Host!Ends(status), {"op", "pc", "status"} \subseteq DOMAIN call
  PROVE  /\ DOMAIN call' = DOMAIN call \ {"text", "tail"}
         /\ call'.pc = "over" /\ call'.status = status
         /\ \A f \in DOMAIN call \ {"text", "tail", "pc", "status"} : call'[f] = call[f]
BY DEF Host!Ends

LEMMA GoesFacts ==
  ASSUME NEW pc, Host!Goes(pc), "pc" \in DOMAIN call
  PROVE  /\ DOMAIN call' = DOMAIN call /\ call'.pc = pc
         /\ \A f \in DOMAIN call : f # "pc" => call'[f] = call[f]
BY DEF Host!Goes

LEMMA ExecuteOver ==
  ASSUME HostInv, call.op = "execute", NEW status, Host!Ends(status), HostTyped',
         local' = local, host'.uploaded = host.uploaded, device'.file = device.file,
         ~call.keyword =>
            /\ status = "success" => \/ device'.command = "zero"
                                     \/ call.expect /\ call.sent /\ host'.conn = "none"
            /\ status = "command_failed" => device'.command = "nonzero",
         call.pc # "over"
  PROVE  HostInv'
<1>1. /\ {"op", "pc", "status"} \subseteq DOMAIN call /\ ExecuteFits(call)
      /\ ExecuteFields \subseteq DOMAIN call
  BY DEF HostInv, CallFits, ExecuteFits
<1>2. /\ DOMAIN call' = DOMAIN call \ {"text", "tail"}
      /\ call'.pc = "over" /\ call'.status = status
      /\ \A f \in DOMAIN call \ {"text", "tail", "pc", "status"} : call'[f] = call[f]
  BY <1>1, EndsFacts
<1>3. /\ {"op", "pc", "status"} \subseteq DOMAIN call' /\ ExecuteFields \subseteq DOMAIN call'
      /\ call'.op = "execute"
      /\ call'.keyword = call.keyword /\ call'.expect = call.expect /\ call'.sent = call.sent
      /\ call'.attempted = call.attempted /\ call'.answered = call.answered
  BY <1>1, <1>2 DEF ExecuteFields
<1>4. ExecuteFits(call')
  BY <1>1, <1>2, <1>3 DEF ExecuteFits
<1>5. OutcomeFits(call)'
  BY <1>2, <1>3 DEF OutcomeFits
<1>6. CallFits'
  BY <1>2, <1>3, <1>4, <1>5 DEF CallFits, ExecuteFits, OutputFits
<1>7. local.part = Host!NoFile
  BY DEF HostInv
<1> QED  BY <1>3, <1>6, <1>7 DEF HostInv, Host!NoFile

LEMMA VerdictFacts ==
  ASSUME NEW e, e \in Host!Errors \cup {"closed"}
  PROVE  /\ Host!Verdict(e) # "command_failed"
         /\ Host!Verdict(e) = "success" => e \in {"eof", "lost"} /\ call.sent /\ call.expect
BY DEF Host!Verdict, Host!Errors

\* An error tells of no outcome, but of a connection that a command was to cut.
LEMMA RaisesKeeps ==
  ASSUME HostInv, call.op = "execute", call.pc # "over", NEW e, e \in Host!Errors \cup {"closed"},
         Host!Raises(e), local' = local, device'.file = device.file,
         device' \in [file : Files, command : {"none", "running", "zero", "nonzero"}]
  PROVE  HostInv'
<1>1. /\ HostTyped' /\ host'.uploaded = host.uploaded
      /\ e \in {"eof", "lost"} => host'.conn = "none"
  <2>1. CASE host' = host
    <3>1. ~(e \in {"eof", "lost"}) \/ host' = [host EXCEPT !.conn = "none"]
      BY DEF Host!Raises, Host!Drop
    <3> QED  BY <2>1, <3>1 DEF HostInv, HostTyped
  <2>2. CASE host' = [host EXCEPT !.conn = "none"]
    BY <2>2 DEF HostInv, HostTyped
  <2> QED  BY <2>1, <2>2 DEF Host!Raises, Host!Drop
<1>2. Host!Ends(Host!Verdict(e))
  BY DEF Host!Raises
<1>3. /\ Host!Verdict(e) # "command_failed"
      /\ Host!Verdict(e) = "success" => e \in {"eof", "lost"} /\ call.sent /\ call.expect
  BY VerdictFacts
<1> QED  BY <1>1, <1>2, <1>3, ExecuteOver

-----------------------------------------------------------------------------
\* What happens to the connection and on the device by itself.
LEMMA EnvironmentKeeps ==
  HostInv /\ (Host!ConnectionDies \/ Host!DeviceFinishes \/ Host!Close) => HostInv'
<1> SUFFICES ASSUME HostInv, Host!ConnectionDies \/ Host!DeviceFinishes \/ Host!Close
             PROVE  HostInv'
  OBVIOUS
<1>1. UNCHANGED <<local, call>>
  BY DEF Host!ConnectionDies, Host!DeviceFinishes, Host!Close
<1>2. /\ HostTyped' /\ host'.uploaded = host.uploaded /\ device'.file = device.file
      /\ host.conn = "none" => host'.conn = "none"
      /\ device.command \in {"zero", "nonzero"} => device' = device
  BY DEF HostInv, HostTyped, Host!ConnectionDies, Host!DeviceFinishes, Host!Close
<1>3. call.op = "execute" => ExecuteFits(call)' /\ OutcomeFits(call)'
  BY <1>1, <1>2 DEF HostInv, CallFits, ExecuteFits, OutputFits, OutcomeFits
<1>4. CallFits'
  BY <1>1, <1>3 DEF HostInv, CallFits, TransferFits
<1> QED  BY <1>1, <1>2, <1>4 DEF HostInv, Host!NoFile

LEMMA BeginExecuteKeeps ==
  ASSUME NEW keyword \in BOOLEAN, NEW expect \in BOOLEAN
  PROVE  HostInv /\ Host!BeginExecute(keyword, expect) => HostInv'
<1> SUFFICES ASSUME HostInv, Host!BeginExecute(keyword, expect) PROVE HostInv'
  OBVIOUS
<1> DEFINE c == [op |-> "execute", pc |-> "connect", status |-> "none",
                 keyword |-> keyword, expect |-> expect, connected |-> FALSE,
                 sent |-> FALSE, attempted |-> FALSE, answered |-> FALSE,
                 text |-> [s \in Host!Streams |-> <<>>], tail |-> [s \in Host!Streams |-> <<>>]]
<1>1. /\ call' = c /\ UNCHANGED <<host, local>> /\ call.pc \in Host!Idle
      /\ device' = [device EXCEPT !.command = "none"]
  BY DEF Host!BeginExecute
<1>2. HostTyped' /\ device'.file = device.file
  BY <1>1 DEF HostInv, HostTyped
<1>3. /\ <<>> \in Texts /\ Host!KeptTail(<<>>) = <<>> /\ ~Host!Occurs(<<>>)
  <2>1. <<>> \in Seq(STRING) /\ Len(<<>>) = 0 /\ <<>> \in Texts
    BY DEF Texts
  <2>2. Host!KeptTail(<<>>) \in Seq(STRING) /\ Len(Host!KeptTail(<<>>)) = 0
    <3>1. ASSUME NEW t \in Seq(STRING), Len(t) = 0
          PROVE  Host!KeptTail(t) \in Seq(STRING) /\ Len(Host!KeptTail(t)) = 0
      <4>1. Cut(t) = 0
        BY <3>1, KeywordLength DEF Cut
      <4>2. Host!KeptTail(t) \in Seq(STRING) /\ Len(Host!KeptTail(t)) = Len(t) - Cut(t)
        BY KeptTailIsEnd
      <4> QED  BY <3>1, <4>1, <4>2
    <3> QED  BY <2>1, <3>1
  <2> QED  BY <2>1, <2>2, EmptySeq DEF Host!Occurs
<1>4. OutputFits(call')
  BY <1>1, <1>3 DEF OutputFits
<1>5. ExecuteFits(call') /\ OutcomeFits(call)'
  BY <1>1, <1>4 DEF ExecuteFits, OutcomeFits, ExecuteFields
<1>6. CallFits'
  BY <1>1, <1>5 DEF CallFits, ExecuteFits, OutputFits
<1> QED  BY <1>1, <1>2, <1>6 DEF HostInv, Host!NoFile, Host!Idle

LEMMA BeginTransferKeeps ==
  ASSUME NEW overwrite \in BOOLEAN
  PROVE  HostInv /\ (Host!BeginUpload(overwrite) \/ Host!BeginDownload(overwrite)) => HostInv'
<1> SUFFICES ASSUME HostInv, Host!BeginUpload(overwrite) \/ Host!BeginDownload(overwrite)
             PROVE  HostInv'
  OBVIOUS
<1>1. UNCHANGED <<host, device, local>> /\ call.pc \in Host!Idle
  BY DEF Host!BeginUpload, Host!BeginDownload
<1>2. PICK name \in {"upload", "download"} :
        call' = [op |-> name, pc |-> "connect", status |-> "none", overwrite |-> overwrite]
  BY DEF Host!BeginUpload, Host!BeginDownload
<1>3. CallFits'
  BY <1>1, <1>2 DEF CallFits, TransferFits
<1> QED  BY <1>1, <1>2, <1>3 DEF HostInv, HostTyped, Host!NoFile, Host!Idle

\* What the invariant says of an operation that is not over.
LEMMA UnderWay ==
  ASSUME HostInv, call.pc \notin Host!Idle
  PROVE  /\ call.status = "none" /\ {"op", "pc", "status"} \subseteq DOMAIN call
         /\ call.op \in {"execute", "upload", "download"}
         /\ call.op = "execute" => ExecuteFits(call) /\ OutputFits(call)
         /\ call.op \in {"upload", "download"} => TransferFits(call)
BY DEF HostInv, CallFits, ExecuteFits, Host!Idle

LEMMA ConnectsKeeps == HostInv /\ Host!Connects => HostInv'
<1> SUFFICES ASSUME HostInv, Host!Connects PROVE HostInv'
  OBVIOUS
<1>1. /\ UNCHANGED <<device, local>> /\ call.pc = "connect"
      /\ \E conn \in {"up", "dead"} : host' = [host EXCEPT !.conn = conn]
  BY DEF Host!Connects, HostInv, HostTyped
<1>2. HostTyped' /\ host'.uploaded = host.uploaded
  BY <1>1 DEF HostInv, HostTyped
<1>3. /\ call.status = "none" /\ {"op", "pc", "status"} \subseteq DOMAIN call
      /\ call.op \in {"execute", "upload", "download"}
      /\ call.op = "execute" => ExecuteFits(call) /\ OutputFits(call)
      /\ call.op \in {"upload", "download"} => TransferFits(call)
  BY <1>1, UnderWay DEF Host!Idle
<1>4. CASE call.op = "execute"
  <2>1. call' = [call EXCEPT !.pc = "send", !.connected = TRUE]
    BY <1>4 DEF Host!Connects
  <2>2. {"op", "pc", "status", "text", "tail", "keyword", "expect", "connected", "sent",
         "attempted", "answered"} \subseteq DOMAIN call
    BY <1>3, <1>4 DEF ExecuteFits, OutputFits, ExecuteFields
  <2>3. /\ DOMAIN call' = DOMAIN call /\ call'.pc = "send"
        /\ \A f \in DOMAIN call : f \notin {"pc", "connected"} => call'[f] = call[f]
    BY <2>1, <2>2
  <2>4. /\ call'.op = "execute" /\ call'.status = "none" /\ call'.text = call.text
        /\ call'.tail = call.tail /\ call'.keyword = call.keyword /\ call'.sent = call.sent
        /\ call'.attempted = call.attempted /\ call'.answered = call.answered
    BY <1>3, <1>4, <2>2, <2>3
  <2>5. OutputFits(call')
    BY <1>3, <1>4, <2>3, <2>4 DEF OutputFits
  <2>6. ExecuteFits(call') /\ OutcomeFits(call)'
    BY <1>1, <1>3, <1>4, <2>3, <2>4, <2>5 DEF ExecuteFits, OutcomeFits
  <2>7. CallFits'
    BY <1>3, <2>3, <2>4, <2>6 DEF CallFits, ExecuteFits, OutputFits
  <2> QED  BY <1>1, <1>2, <1>4, <2>4, <2>7 DEF HostInv, Host!NoFile
<1>5. CASE call.op # "execute"
  <2>1. Host!Goes("probe")
    BY <1>5 DEF Host!Connects
  <2>2. /\ DOMAIN call' = DOMAIN call /\ call'.pc = "probe"
        /\ \A f \in DOMAIN call : f # "pc" => call'[f] = call[f]
    BY <1>3, <2>1, GoesFacts
  <2>3. call'.op = call.op /\ call'.status = "none"
    BY <1>3, <2>2
  <2>4. CallFits'
    BY <1>3, <1>5, <2>2, <2>3 DEF CallFits, TransferFits
  <2> QED  BY <1>1, <1>2, <1>5, <2>3, <2>4 DEF HostInv, Host!NoFile
<1> QED  BY <1>4, <1>5

\* An error of a command that is under way, before its output.
LEMMA FailsKeeps ==
  HostInv /\ (Host!ConnectFails \/ Host!AnswerFails \/ Host!LosesDevice) => HostInv'
<1> SUFFICES ASSUME HostInv, Host!ConnectFails \/ Host!AnswerFails \/ Host!LosesDevice
             PROVE  HostInv'
  OBVIOUS
<1>1. UNCHANGED <<device, local>> /\ call.op = "execute" /\ call.pc # "over"
  BY DEF Host!ConnectFails, Host!AnswerFails, Host!LosesDevice, Host!At
<1>2. PICK e \in Host!Errors \cup {"closed"} : Host!Raises(e)
  BY DEF Host!ConnectFails, Host!AnswerFails, Host!LosesDevice, Host!Errors
<1> QED  BY <1>1, <1>2, RaisesKeeps DEF HostInv, HostTyped

LEMMA SendKeeps == HostInv /\ Host!Send => HostInv'
<1> SUFFICES ASSUME HostInv, Host!Send PROVE HostInv'
  OBVIOUS
<1>1. UNCHANGED local /\ call.op = "execute" /\ call.pc = "send"
  BY DEF Host!Send, Host!At
<1>2. /\ device' \in [file : Files, command : {"none", "running", "zero", "nonzero"}]
      /\ device'.file = device.file
  BY DEF HostInv, HostTyped, Host!Send
<1>3. CASE \E e \in Host!Errors \cup {"closed"} : Host!Raises(e)
  BY <1>1, <1>2, <1>3, RaisesKeeps
<1>4. CASE call' = [call EXCEPT !.pc = "output", !.sent = TRUE] /\ UNCHANGED host
  <2>1. /\ call.status = "none" /\ {"op", "pc", "status"} \subseteq DOMAIN call
        /\ ExecuteFits(call) /\ OutputFits(call)
    BY <1>1, UnderWay DEF Host!Idle
  <2>2. {"op", "pc", "status", "text", "tail", "keyword", "expect", "connected", "sent",
         "attempted", "answered"} \subseteq DOMAIN call
    BY <2>1 DEF ExecuteFits, OutputFits, ExecuteFields
  <2>3. /\ DOMAIN call' = DOMAIN call /\ call'.pc = "output" /\ call'.sent = TRUE
        /\ \A f \in DOMAIN call : f \notin {"pc", "sent"} => call'[f] = call[f]
    BY <1>4, <2>2
  <2>4. /\ call'.op = "execute" /\ call'.status = "none" /\ call'.text = call.text
        /\ call'.tail = call.tail /\ call'.keyword = call.keyword
        /\ call'.attempted = call.attempted /\ call'.answered = call.answered
    BY <1>1, <2>1, <2>2, <2>3
  <2>5. OutputFits(call')
    BY <2>1, <2>3, <2>4 DEF OutputFits
  <2>6. ExecuteFits(call') /\ OutcomeFits(call)'
    BY <1>1, <2>1, <2>3, <2>4, <2>5 DEF ExecuteFits, OutcomeFits
  <2>7. CallFits'
    BY <2>1, <2>3, <2>4, <2>6 DEF CallFits, ExecuteFits, OutputFits
  <2> QED  BY <1>1, <1>2, <1>4, <2>4, <2>7 DEF HostInv, HostTyped, Host!NoFile
<1> QED
  <2>1. {"eof", "lost", "os", "other", "timeout"} \subseteq Host!Errors
    BY DEF Host!Errors
  <2> QED  BY <1>3, <1>4, <2>1 DEF Host!Send

\* A command that ends by itself.
LEMMA EndsByItselfKeeps ==
  HostInv /\ (Host!Answered \/ Host!ReadExit \/ Host!GivesUp) => HostInv'
<1> SUFFICES ASSUME HostInv, Host!Answered \/ Host!ReadExit \/ Host!GivesUp PROVE HostInv'
  OBVIOUS
<1>1. UNCHANGED <<device, local>> /\ call.op = "execute" /\ call.pc = "output"
  BY DEF Host!Answered, Host!ReadExit, Host!GivesUp, Host!At
<1>2. ExecuteFits(call)
  BY <1>1, UnderWay DEF Host!Idle
<1>3. CASE \E e \in Host!Errors \cup {"closed"} : Host!Raises(e)
  BY <1>1, <1>3, RaisesKeeps DEF HostInv, HostTyped
<1>4. CASE Host!Answered
  <2>1. call.keyword /\ Host!Ends("success") /\ UNCHANGED host
    BY <1>2, <1>4 DEF Host!Answered, ExecuteFits
  <2>2. HostTyped'
    BY <1>1, <2>1 DEF HostInv, HostTyped
  <2> QED  BY <1>1, <2>1, <2>2, ExecuteOver
<1>5. CASE Host!ReadExit
  <2> DEFINE status == IF ~call.keyword /\ device.command = "zero" THEN "success"
                       ELSE "command_failed"
  <2>1. Host!Ends(status) /\ UNCHANGED host /\ device.command \in {"zero", "nonzero"}
    BY <1>5 DEF Host!ReadExit
  <2>2. HostTyped'
    BY <1>1, <2>1 DEF HostInv, HostTyped
  <2>3. ~call.keyword => /\ status = "success" => device'.command = "zero"
                         /\ status = "command_failed" => device'.command = "nonzero"
    BY <1>1, <2>1
  <2> HIDE DEF status
  <2> QED  BY <1>1, <2>1, <2>2, <2>3, ExecuteOver
<1>6. CASE Host!Ends("timeout") /\ UNCHANGED host
  <2>1. HostTyped'
    BY <1>1, <1>6 DEF HostInv, HostTyped
  <2> QED  BY <1>1, <1>6, <2>1, ExecuteOver
<1> QED
  <2>1. {"timeout", "os", "other"} \subseteq Host!Errors
    BY DEF Host!Errors
  <2> QED  BY <1>3, <1>4, <1>5, <1>6, <2>1 DEF Host!GivesUp

\* A chunk of a stream: the keyword is complete in its window as it is in its text.
LEMMA ReceiveKeeps == HostInv /\ Host!Receive => HostInv'
<1> SUFFICES ASSUME HostInv, Host!Receive PROVE HostInv'
  OBVIOUS
<1>1. /\ call.op = "execute" /\ call.pc = "output" /\ call.keyword /\ ~call.answered
      /\ UNCHANGED <<host, device, local>>
  BY DEF Host!Receive, Host!At
<1>2. /\ call.status = "none" /\ {"op", "pc", "status"} \subseteq DOMAIN call
      /\ ExecuteFits(call) /\ OutputFits(call)
  BY <1>1, UnderWay DEF Host!Idle
<1>3. PICK s \in Host!Streams, chunk \in [1..1 -> Host!Range(Keyword)] \cup [1..2 -> Host!Range(Keyword)] :
        LET window == Host!Window(s, chunk)
            got == [call EXCEPT !.text[s] = @ \o chunk, !.tail[s] = Host!KeptTail(window)]
        IN  IF ~Host!Occurs(window) THEN call' = got
            ELSE IF host.conn = "up"
            THEN call' = [got EXCEPT !.attempted = TRUE, !.answered = TRUE]
            ELSE call' = [got EXCEPT !.attempted = TRUE, !.pc = "answer"]
  BY DEF Host!Receive
<1> DEFINE window == Host!Window(s, chunk)
           text == [call.text EXCEPT ![s] = @ \o chunk]
           tail == [call.tail EXCEPT ![s] = Host!KeptTail(window)]
           got == [call EXCEPT !.text = text, !.tail = tail]
           t == call.text[s]
<1>4. /\ Host!Range(Keyword) \subseteq STRING /\ chunk \in Seq(STRING) /\ chunk \in Texts
      /\ t \in Texts /\ t \in Seq(STRING) /\ ~Host!Occurs(t) /\ t \o chunk \in Texts
  <2>1. Host!Range(Keyword) \subseteq STRING
    BY KeywordLength DEF Host!Range
  <2>2. chunk \in Texts
    <3>1. CASE chunk \in [1..1 -> Host!Range(Keyword)]
      BY <3>1, SeqDef DEF Texts
    <3>2. CASE chunk \in [1..2 -> Host!Range(Keyword)]
      BY <3>2, SeqDef DEF Texts
    <3> QED  BY <1>3, <3>1, <3>2
  <2>3. t \in Texts
    BY <1>2, <1>3 DEF OutputFits
  <2>4. Texts \subseteq Seq(STRING)
    BY <2>1 DEF Texts
  <2>5. ~Host!Occurs(t)
    BY <1>1, <1>2, <1>3 DEF ExecuteFits, OutputFits
  <2>6. t \o chunk \in Texts
    BY <2>2, <2>3 DEF Texts
  <2> QED  BY <2>1, <2>2, <2>3, <2>4, <2>5, <2>6
<1>5. /\ window = Host!KeptTail(t) \o chunk
      /\ Host!KeptTail(window) = Host!KeptTail(t \o chunk)
      /\ Host!Occurs(window) <=> Host!Occurs(t \o chunk)
  <2>1. window = Host!KeptTail(t) \o chunk
    BY <1>2, <1>3 DEF OutputFits, Host!Window
  <2> HIDE DEF window, t
  <2> QED  BY <1>4, <2>1, KeptTailOfWindow, OccursInWindow
<1>6. {"op", "pc", "status", "text", "tail", "keyword", "expect", "connected", "sent",
       "attempted", "answered"} \subseteq DOMAIN call
  BY <1>2 DEF ExecuteFits, OutputFits, ExecuteFields
<1>7. /\ call'.text = text /\ call'.tail = tail /\ DOMAIN call' = DOMAIN call
      /\ \A f \in DOMAIN call : f \notin {"text", "tail", "pc", "attempted", "answered"}
            => call'[f] = call[f]
      /\ ~Host!Occurs(window) => call'.pc = "output" /\ call'.attempted = call.attempted
                                 /\ call'.answered = call.answered
      /\ Host!Occurs(window) => call'.attempted = TRUE
      /\ \/ call'.pc = "output" /\ (call'.attempted <=> call'.answered)
         \/ call'.pc = "answer" /\ ~call'.answered /\ call'.attempted
  <2>1. CASE call' = got /\ ~Host!Occurs(window)
    BY <1>1, <1>2, <1>6, <2>1 DEF ExecuteFits
  <2>2. CASE call' = [got EXCEPT !.attempted = TRUE, !.answered = TRUE] /\ Host!Occurs(window)
    BY <1>1, <1>2, <1>6, <2>2 DEF ExecuteFits
  <2>3. CASE call' = [got EXCEPT !.attempted = TRUE, !.pc = "answer"] /\ Host!Occurs(window)
    BY <1>1, <1>2, <1>6, <2>3 DEF ExecuteFits
  <2> QED  BY <1>3, <2>1, <2>2, <2>3
<1>8. /\ DOMAIN text = Host!Streams /\ DOMAIN tail = Host!Streams
      /\ \A x \in Host!Streams : text[x] \in Texts /\ tail[x] = Host!KeptTail(text[x])
      /\ Host!Occurs(window) <=> \E x \in Host!Streams : Host!Occurs(text[x])
  <2>1. /\ DOMAIN text = Host!Streams /\ DOMAIN tail = Host!Streams
        /\ text[s] = t \o chunk /\ tail[s] = Host!KeptTail(window)
        /\ \A x \in Host!Streams \ {s} : text[x] = call.text[x] /\ tail[x] = call.tail[x]
    BY <1>2, <1>3 DEF OutputFits
  <2>2. \A x \in Host!Streams : call.text[x] \in Texts /\ call.tail[x] = Host!KeptTail(call.text[x])
                               /\ ~Host!Occurs(call.text[x])
    BY <1>1, <1>2 DEF OutputFits, ExecuteFits
  <2> HIDE DEF text, tail, window, t
  <2> QED  BY <1>3, <1>4, <1>5, <2>1, <2>2
<1> HIDE DEF text, tail, window, got, t
<1>9. /\ call'.op = "execute" /\ call'.status = "none" /\ call'.keyword = call.keyword
      /\ call'.sent = call.sent
  BY <1>1, <1>2, <1>6, <1>7
<1>10. OutputFits(call')
  <2>1. ~call.attempted
    BY <1>1, <1>2 DEF ExecuteFits
  <2>2. call'.attempted <=> Host!Occurs(window)
    BY <1>7, <2>1
  <2> QED  BY <1>6, <1>7, <1>8, <2>2 DEF OutputFits
<1>11. ExecuteFits(call') /\ OutcomeFits(call)'
  <2>1. /\ call'.attempted => call'.keyword
        /\ call'.answered => call'.attempted
    BY <1>1, <1>2, <1>7, <1>9 DEF ExecuteFits
  <2> QED  BY <1>1, <1>2, <1>6, <1>7, <1>9, <1>10, <2>1 DEF ExecuteFits, OutcomeFits
<1>12. CallFits'
  BY <1>2, <1>7, <1>9, <1>11 DEF CallFits, ExecuteFits, OutputFits
<1> QED  BY <1>1, <1>7, <1>9, <1>12 DEF HostInv, HostTyped, Host!NoFile

-----------------------------------------------------------------------------
\* A transfer that ends: what has become of the file, and no .part.
LEMMA TransferOver ==
  ASSUME HostInv, call.op \in {"upload", "download"}, NEW status, Host!Ends(status),
         HostTyped', local'.file.whole, local'.part = Host!NoFile,
         call.op = "upload" /\ status = "success" => device'.file = "new",
         host'.uploaded => device'.file \in {"new", "torn"}
  PROVE  HostInv'
<1>1. /\ {"op", "pc", "status"} \subseteq DOMAIN call /\ TransferFits(call)
      /\ {"op", "pc", "status", "overwrite"} \subseteq DOMAIN call
  BY DEF HostInv, CallFits, TransferFits
<1>2. /\ DOMAIN call' = DOMAIN call \ {"text", "tail"}
      /\ call'.pc = "over" /\ call'.status = status
      /\ \A f \in DOMAIN call \ {"text", "tail", "pc", "status"} : call'[f] = call[f]
  BY <1>1, EndsFacts
<1>3. {"op", "pc", "status", "overwrite"} \subseteq DOMAIN call' /\ call'.op = call.op
  BY <1>1, <1>2
<1>4. CallFits'
  BY <1>2, <1>3 DEF CallFits, TransferFits
<1>5. Host!NoFile' = Host!NoFile
  BY DEF Host!NoFile
<1> QED  BY <1>2, <1>3, <1>4, <1>5 DEF HostInv

\* A transfer that goes on.
LEMMA TransferGoes ==
  ASSUME HostInv, call.op \in {"upload", "download"}, call.pc # "over", NEW pc, Host!Goes(pc),
         HostTyped', local'.file.whole,
         call.op = "upload" => pc \in {"put", "verify"},
         call.op = "download" => pc \in {"get", "size"},
         local'.part # Host!NoFile => call.op = "download" /\ pc = "size",
         host'.uploaded => device'.file \in {"new", "torn"}
  PROVE  HostInv'
<1>1. /\ {"op", "pc", "status", "overwrite"} \subseteq DOMAIN call /\ call.status = "none"
  BY DEF HostInv, CallFits, TransferFits
<1>2. /\ DOMAIN call' = DOMAIN call /\ call'.pc = pc
      /\ \A f \in DOMAIN call : f # "pc" => call'[f] = call[f]
  BY <1>1, GoesFacts
<1>3. {"op", "pc", "status", "overwrite"} \subseteq DOMAIN call' /\ call'.op = call.op
      /\ call'.status = "none"
  BY <1>1, <1>2
<1>4. CallFits'
  BY <1>2, <1>3 DEF CallFits, TransferFits
<1>5. Host!NoFile' = Host!NoFile
  BY DEF Host!NoFile
<1> QED  BY <1>2, <1>3, <1>4, <1>5 DEF HostInv

LEMMA UploadKeeps ==
  HostInv /\ (Host!ProbeUpload \/ Host!Put \/ Host!VerifyUpload) => HostInv'
<1> SUFFICES ASSUME HostInv, Host!ProbeUpload \/ Host!Put \/ Host!VerifyUpload PROVE HostInv'
  OBVIOUS
<1>1. /\ UNCHANGED local /\ call.op = "upload" /\ call.pc \in {"probe", "put", "verify"}
      /\ local.file.whole /\ local.part = Host!NoFile
  BY DEF HostInv, Host!ProbeUpload, Host!Put, Host!VerifyUpload, Host!Reaches, Host!At
<1>2. ASSUME NEW status, Host!FinishUpload(status), UNCHANGED device,
             status = "success" => device.file = "new"
      PROVE  HostInv'
  <2>1. HostTyped'
    BY <1>1, <1>2 DEF HostInv, HostTyped, Host!FinishUpload
  <2>2. host'.uploaded => device'.file \in {"new", "torn"}
    BY <1>2 DEF HostInv, HostTyped, Host!FinishUpload
  <2>3. Host!Ends(status)
    BY <1>2 DEF Host!FinishUpload
  <2> QED  BY <1>1, <1>2, <2>1, <2>2, <2>3, TransferOver
<1>3. CASE Host!ProbeUpload
  <2>1. CASE Host!FinishUpload("remote_file_exists")
    BY <1>2, <1>3, <2>1 DEF Host!ProbeUpload
  <2>2. CASE Host!Goes("put") /\ UNCHANGED host
    <3>1. HostTyped' /\ UNCHANGED device
      BY <1>1, <1>3, <2>2 DEF HostInv, HostTyped, Host!ProbeUpload
    <3> QED  BY <1>1, <2>2, <3>1, TransferGoes DEF HostInv
  <2> QED  BY <1>3, <2>1, <2>2 DEF Host!ProbeUpload
<1>4. CASE Host!Put
  <2>1. /\ Host!Goes("verify") /\ UNCHANGED host
        /\ \E got \in {"new", "torn"} : device' = [device EXCEPT !.file = got]
    BY <1>4 DEF Host!Put
  <2>2. HostTyped' /\ device'.file \in {"new", "torn"}
    BY <1>1, <2>1 DEF HostInv, HostTyped, Files
  <2> QED  BY <1>1, <2>1, <2>2, TransferGoes
<1>5. CASE Host!VerifyUpload
  <2>1. CASE device.file = "new"
    BY <1>2, <1>5, <2>1 DEF Host!VerifyUpload
  <2>2. CASE device.file # "new"
    BY <1>2, <1>5, <2>2 DEF Host!VerifyUpload
  <2> QED  BY <2>1, <2>2
<1> QED  BY <1>3, <1>4, <1>5

LEMMA DownloadKeeps ==
  HostInv /\ (Host!ProbeDownload \/ Host!Get \/ Host!CheckDownload) => HostInv'
<1> SUFFICES ASSUME HostInv, Host!ProbeDownload \/ Host!Get \/ Host!CheckDownload PROVE HostInv'
  OBVIOUS
<1>1. /\ UNCHANGED <<host, device>> /\ call.op = "download" /\ call.pc \in {"probe", "get", "size"}
      /\ host.uploaded => device.file \in {"new", "torn"}
  BY DEF HostInv, Host!ProbeDownload, Host!Get, Host!CheckDownload, Host!Reaches, Host!At
<1>2. CASE Host!ProbeDownload
  <2>1. HostTyped' /\ local' = local /\ local.file.whole /\ local.part = Host!NoFile
    BY <1>1, <1>2 DEF HostInv, HostTyped, Host!ProbeDownload, Host!Reaches, Host!At
  <2>2. ASSUME NEW status, Host!Ends(status) PROVE HostInv'
    BY <1>1, <2>1, <2>2, TransferOver
  <2>3. CASE Host!Goes("get")
    BY <1>1, <2>1, <2>3, TransferGoes
  <2> QED  BY <1>2, <2>2, <2>3 DEF Host!ProbeDownload
<1>3. CASE Host!Get
  <2>1. PICK whole \in BOOLEAN : local' = [local EXCEPT !.part = [of |-> device.file, whole |-> whole]]
    BY <1>3 DEF Host!Get
  <2>2. HostTyped' /\ local'.file = local.file
    BY <1>1, <2>1 DEF HostInv, HostTyped, LocalNodes
  <2>3. local'.file.whole /\ Host!Goes("size")
    BY <1>3, <2>2 DEF HostInv, Host!Get
  <2> QED  BY <1>1, <2>2, <2>3, TransferGoes
<1>4. CASE Host!CheckDownload
  <2>1. Host!NoFile \in LocalNodes
    BY DEF Host!NoFile, LocalNodes, Files
  <2>2. CASE local.part.whole
    <3>1. local' = [file |-> local.part, part |-> Host!NoFile] /\ Host!Ends("success")
      BY <1>4, <2>2 DEF Host!CheckDownload
    <3>2. HostTyped' /\ local'.file.whole /\ local'.part = Host!NoFile
      BY <1>1, <2>1, <2>2, <3>1 DEF HostInv, HostTyped
    <3> QED  BY <1>1, <3>1, <3>2, TransferOver
  <2>3. CASE ~local.part.whole
    <3>1. local' = [local EXCEPT !.part = Host!NoFile] /\ Host!Ends("verification_failed")
      BY <1>4, <2>3 DEF Host!CheckDownload
    <3>2. HostTyped' /\ local'.file.whole /\ local'.part = Host!NoFile
      BY <1>1, <2>1, <3>1 DEF HostInv, HostTyped
    <3> QED  BY <1>1, <3>1, <3>2, TransferOver
  <2> QED  BY <2>2, <2>3
<1> QED  BY <1>2, <1>3, <1>4

LEMMA ReconnectsKeeps == HostInv /\ Host!Reconnects => HostInv'
<1> SUFFICES ASSUME HostInv, Host!Reconnects PROVE HostInv'
  OBVIOUS
<1>1. UNCHANGED <<device, local, call>> /\ call.op \in {"upload", "download"}
  BY DEF Host!Reconnects
<1>2. HostTyped' /\ host'.uploaded = host.uploaded
  BY <1>1 DEF HostInv, HostTyped, Host!Reconnects
<1>3. CallFits'
  BY <1>1 DEF HostInv, CallFits, TransferFits
<1> QED  BY <1>1, <1>2, <1>3 DEF HostInv, Host!NoFile

LEMMA TransferFailsKeeps == HostInv /\ Host!TransferFails => HostInv'
<1> SUFFICES ASSUME HostInv, Host!TransferFails PROVE HostInv'
  OBVIOUS
<1>1. /\ call.op \in {"upload", "download"}
      /\ device' = device \/ device' = [device EXCEPT !.file = "torn"]
      /\ local' = [local EXCEPT !.part = Host!NoFile]
      /\ host' = host \/ (\E closed \in BOOLEAN : host' = [host EXCEPT !.conn = "none", !.closed = closed])
  <2>1. device' = device \/ device' = [device EXCEPT !.file = "torn"]
    BY DEF Host!TransferFails
  <2>2. host' = host \/ (\E closed \in BOOLEAN : host' = [host EXCEPT !.conn = "none", !.closed = closed])
    <3>1. CASE host' = [host EXCEPT !.conn = "none", !.closed = @ \/ call.op = "upload"]
      BY <3>1 DEF HostInv, HostTyped
    <3>2. CASE host' = [host EXCEPT !.conn = "none"]
      <4>1. host' = [host EXCEPT !.conn = "none", !.closed = host.closed]
        BY <3>2 DEF HostInv, HostTyped
      <4> QED  BY <4>1 DEF HostInv, HostTyped
    <3> QED  BY <3>1, <3>2 DEF Host!TransferFails
  <2> QED  BY <2>1, <2>2 DEF Host!TransferFails
<1>2. Host!NoFile \in LocalNodes
  BY DEF Host!NoFile, LocalNodes, Files
<1>3. /\ HostTyped' /\ host'.uploaded = host.uploaded
      /\ local'.file = local.file /\ local'.part = Host!NoFile
      /\ device'.file = device.file \/ device'.file = "torn"
  BY <1>1, <1>2 DEF HostInv, HostTyped, Files
<1>4. PICK status \in {"connection_failed", "transfer_failed"} : Host!Ends(status)
  BY DEF Host!TransferFails
<1>5. local'.file.whole /\ (host'.uploaded => device'.file \in {"new", "torn"})
  BY <1>3 DEF HostInv
<1> QED  BY <1>1, <1>3, <1>4, <1>5, TransferOver

LEMMA HostNextInv == HostInv /\ Host!HostNext => HostInv'
BY BeginExecuteKeeps, BeginTransferKeeps, EnvironmentKeeps, ConnectsKeeps, FailsKeeps, SendKeeps,
   ReceiveKeeps, EndsByItselfKeeps, UploadKeeps, DownloadKeeps, ReconnectsKeeps, TransferFailsKeeps
   DEF Host!HostNext, Host!ExecuteStep, Host!TransferStep

LEMMA HostUnchanged == HostInv /\ UNCHANGED hostVars => HostInv'
BY DEF HostInv, HostTyped, CallFits, ExecuteFits, OutcomeFits, OutputFits, TransferFits, hostVars,
       Host!NoFile

LEMMA HostAlways == RemotesSpec => []HostInv
<1>1. RemotesInit => HostInv
  BY HostInitInv DEF RemotesInit
<1>2. HostInv /\ [RemotesNext]_<<kind, vars, hostVars>> => HostInv'
  BY HostNextInv, HostUnchanged DEF RemotesNext
<1> QED  BY <1>1, <1>2, PTL DEF RemotesSpec

-----------------------------------------------------------------------------
(* Sequences that are joined, parted and read from their head.              *)

LEMMA Joined ==
  ASSUME NEW S, NEW s \in Seq(S), NEW t \in Seq(S)
  PROVE  /\ s \o t \in Seq(S) /\ Len(s) \in Nat /\ Len(t) \in Nat /\ Len(s \o t) = Len(s) + Len(t)
         /\ \A i \in 1..Len(s) : i \in 1..Len(s \o t) /\ (s \o t)[i] = s[i]
         /\ \A j \in 1..Len(t) : Len(s) + j \in 1..Len(s \o t) /\ (s \o t)[Len(s) + j] = t[j]
         /\ \A i \in 1..Len(s \o t) : \/ i \in 1..Len(s) /\ (s \o t)[i] = s[i]
                                      \/ \E j \in 1..Len(t) : i = Len(s) + j /\ (s \o t)[i] = t[j]
<1>1. /\ s \o t \in Seq(S) /\ Len(s \o t) = Len(s) + Len(t)
      /\ \A i \in 1..(Len(s) + Len(t)) : (s \o t)[i] = IF i <= Len(s) THEN s[i] ELSE t[i - Len(s)]
  BY ConcatProperties
<1>2. Len(s) \in Nat /\ Len(t) \in Nat
  BY LenProperties
<1> DEFINE n == Len(s)
           m == Len(t)
<1> HIDE DEF n, m
<1>3. \A i \in 1..n : i \in 1..(n + m) /\ i <= n
  BY <1>2 DEF n, m
<1>4. \A j \in 1..m : n + j \in 1..(n + m) /\ ~(n + j <= n) /\ n + j - n = j
  BY <1>2 DEF n, m
<1>5. \A i \in 1..(n + m) : i \in 1..n \/ (\E j \in 1..m : i = n + j)
  <2> SUFFICES ASSUME NEW i \in 1..(n + m), i \notin 1..n PROVE \E j \in 1..m : i = n + j
    OBVIOUS
  <2>1. i - n \in 1..m /\ i = n + (i - n)
    BY <1>2 DEF n, m
  <2> QED  BY <2>1
<1>6. \A i \in 1..n : (s \o t)[i] = s[i]
  BY <1>1, <1>3 DEF n, m
<1>7. \A j \in 1..m : (s \o t)[n + j] = t[j]
  BY <1>1, <1>4 DEF n, m
<1> QED  BY <1>1, <1>2, <1>3, <1>4, <1>5, <1>6, <1>7 DEF n, m

LEMMA JoinedElements ==
  ASSUME NEW S, NEW s \in Seq(S), NEW t \in Seq(S), NEW u, u = s \o t
  PROVE  \A i \in 1..Len(u) : \/ i \in 1..Len(s) /\ u[i] = s[i]
                              \/ \E j \in 1..Len(t) : u[i] = t[j]
BY Joined, SMTT(30)

LEMMA Parted ==
  ASSUME NEW S, NEW s \in Seq(S), NEW i \in 0..Len(s)
  PROVE  /\ SubSeq(s, 1, i) \in Seq(S) /\ Len(SubSeq(s, 1, i)) = i
         /\ SubSeq(s, i + 1, Len(s)) \in Seq(S) /\ Len(SubSeq(s, i + 1, Len(s))) = Len(s) - i
         /\ Len(s) \in Nat
         /\ \A j \in 1..i : j \in 1..Len(s) /\ SubSeq(s, 1, i)[j] = s[j]
         /\ \A j \in 1..(Len(s) - i) : j + i \in 1..Len(s) /\ SubSeq(s, i + 1, Len(s))[j] = s[j + i]
<1>1. Len(s) \in Nat /\ i \in Nat /\ i <= Len(s)
  BY LenProperties
<1>2. \A j \in 1..Len(s) : s[j] \in S
  BY ElementOfSeq
<1>3. /\ SubSeq(s, 1, i) \in Seq(S) /\ Len(SubSeq(s, 1, i)) = i
      /\ \A j \in 1..i : SubSeq(s, 1, i)[j] = s[j]
  <2>1. \A j \in 1..i : s[j] \in S
    BY <1>1, <1>2
  <2>2. \A j \in 1..(i - 1 + 1) : SubSeq(s, 1, i)[j] = s[1 + j - 1]
    BY <1>1, <2>1, SubSeqProperties
  <2>3. SubSeq(s, 1, i) \in Seq(S) /\ Len(SubSeq(s, 1, i)) = IF 1 <= i THEN i - 1 + 1 ELSE 0
    BY <1>1, <2>1, SubSeqProperties
  <2> QED  BY <1>1, <2>2, <2>3
<1>4. /\ SubSeq(s, i + 1, Len(s)) \in Seq(S) /\ Len(SubSeq(s, i + 1, Len(s))) = Len(s) - i
      /\ \A j \in 1..(Len(s) - i) : SubSeq(s, i + 1, Len(s))[j] = s[j + i]
  <2>1. ASSUME NEW m \in Nat, m = i + 1
        PROVE  /\ SubSeq(s, m, Len(s)) \in Seq(S) /\ Len(SubSeq(s, m, Len(s))) = Len(s) - i
               /\ \A j \in 1..(Len(s) - i) : SubSeq(s, m, Len(s))[j] = s[j + i]
    <3>1. \A j \in m..Len(s) : s[j] \in S
      BY <1>1, <1>2, <2>1
    <3>2. /\ SubSeq(s, m, Len(s)) \in Seq(S)
          /\ Len(SubSeq(s, m, Len(s))) = IF m <= Len(s) THEN Len(s) - m + 1 ELSE 0
          /\ \A j \in 1..(Len(s) - m + 1) : SubSeq(s, m, Len(s))[j] = s[m + j - 1]
      BY <1>1, <3>1, SubSeqProperties
    <3>3. \A j \in 1..(Len(s) - i) : j \in 1..(Len(s) - m + 1) /\ m + j - 1 = j + i
      BY <1>1, <2>1
    <3> QED  BY <1>1, <2>1, <3>2, <3>3
  <2> QED  BY <1>1, <2>1
<1>5. \A j \in 1..(Len(s) - i) : j + i \in 1..Len(s)
  BY <1>1
<1> QED  BY <1>1, <1>3, <1>4, <1>5

LEMMA Tailed ==
  ASSUME NEW S, NEW s \in Seq(S), s # <<>>
  PROVE  /\ Head(s) \in S /\ Head(s) = s[1] /\ Tail(s) \in Seq(S) /\ Len(s) \in Nat /\ Len(s) >= 1
         /\ Len(Tail(s)) = Len(s) - 1
         /\ \A i \in 1..Len(Tail(s)) : i + 1 \in 1..Len(s) /\ Tail(s)[i] = s[i + 1]
<1>1. Len(s) \in Nat /\ Len(s) >= 1
  BY LenProperties, EmptySeq
<1>2. Head(s) \in S /\ Tail(s) \in Seq(S) /\ Len(Tail(s)) = Len(s) - 1
      /\ \A i \in 1..Len(Tail(s)) : Tail(s)[i] = s[i + 1]
  BY HeadTailProperties
<1> QED  BY <1>1, <1>2

-----------------------------------------------------------------------------
(* A console: types and what the client holds.                              *)

TokenKinds == {"out", "key", "prompt", "marker", "login", "password", "incorrect"}
Tokens == [k : TokenKinds, n : Nat, rc : {0, 1, 12}]
Inputs == [k : {"line", "user", "command", "printf", "secret"}, n : Nat]
Modes == {"auto", "posix", "prompt_only", None}
Pcs == {"idle", "session", "hello", "capability", "run", "send", "prepare", "prompt", "quiet",
        "probe", "read", "mark", "wait", "login", "password", "authenticated"}
Ofs == {"check", "execute", "onoutput", "read", "mark", "wait_reboot", "wait_exec", None}

DevStates == [state : {"login", "password", "shell"}, input : Seq(Inputs),
              code : Seq(Nat \X Codes), leaked : BOOLEAN, late : BOOLEAN]
Clients == [sock : BOOLEAN, prompt : BOOLEAN, mode : Modes, buf : Seq(Tokens),
            cursor : Nat, floor : Nat]
Opers == [pc : Pcs, of : Ofs, n : Nat, base : Nat, got : Seq(Tokens),
          expect : BOOLEAN, own : BOOLEAN]
Counts == [ops : Nat, events : Nat, sent : Nat]

ConsoleTyped ==
    /\ config.mode \in ShellModes /\ config.device \in Devices
    /\ dev \in DevStates
    /\ wire \in Seq(Tokens) /\ live \in BOOLEAN
    /\ client \in Clients
    /\ op \in Opers
    /\ answer \in Seq(Tokens)
    /\ count \in Counts

\* The cursor is in the text, an operation that is past its connection has one,
\* and one that has not connected yet has shown nothing.
Connected ==
    /\ client.cursor <= Len(client.buf)
    /\ op.pc \notin {"idle", "session"} => client.sock
    /\ op.pc = "session" => answer = <<>>

\* No number is on the way that was not drawn yet.
Drawn ==
    /\ op.n <= count.sent
    /\ \A i \in 1..Len(wire) : wire[i].n <= count.sent
    /\ \A i \in 1..Len(dev.input) : dev.input[i].n <= count.sent

ConsoleBase == ConsoleTyped /\ Connected /\ Drawn

-----------------------------------------------------------------------------
LEMMA TokensTyped ==
  /\ \A n \in Nat : Out(n) \in Tokens
  /\ \A n \in Nat, rc \in {0, 1, 12} : Marker(n, rc) \in Tokens
  /\ Key \in Tokens /\ Prompt \in Tokens /\ LoginPrompt \in Tokens /\ PasswordPrompt \in Tokens
  /\ Incorrect \in Tokens
BY DEF Token, Out, Key, Prompt, Marker, LoginPrompt, PasswordPrompt, Incorrect, Tokens, TokenKinds

\* What a device that reads an input says: the number is the one of the input, a
\* marker tells the code of the last command, and a prompt where the device is.
Reading(in, text) ==
    /\ text \in Seq(Tokens)
    /\ \A j \in 1..Len(text) :
          /\ text[j].n \in {0, in.n}
          /\ text[j].k = "out" => /\ in.k \in {"command", "printf"} /\ text[j].n = in.n
                                  /\ in.k = "printf" => config.device # "posix"
          /\ text[j].k = "marker" => /\ in.k = "printf" /\ dev.state = "shell"
                                     /\ text[j] = Marker(in.n, LastCode)
                                     /\ config.device = "posix"
          /\ text[j].k = "login" => dev'.state = "login"
          /\ text[j].k = "password" => dev'.state = "password"

LEMMA DeviceReadsEffect ==
  ASSUME ConsoleTyped, DeviceReads
  PROVE  /\ dev.input # <<>> /\ dev'.input = Tail(dev.input) /\ dev'.late = dev.late
         /\ dev' \in DevStates
         /\ \E text : Reading(Head(dev.input), text) /\ wire' = IF live THEN wire \o text ELSE wire
         /\ \/ dev'.code = dev.code /\ (Head(dev.input).k = "command" => dev.state # "shell")
            \/ \E rc \in Codes : dev'.code = Append(dev.code, <<Head(dev.input).n, rc>>)
         /\ dev.state = "shell" => dev'.state = "shell"
         /\ dev.state # "shell" /\ Head(dev.input).k = "command" => dev'.state # "shell"
         /\ dev'.leaked => dev.leaked \/ (Head(dev.input).k = "secret" /\ dev.state = "shell")
<1> DEFINE in == Head(dev.input)
<1>1. /\ dev.input # <<>> /\ in \in Inputs /\ Tail(dev.input) \in Seq(Inputs) /\ LastCode \in Codes
  <2>1. dev.input # <<>>
    BY DEF DeviceReads
  <2>2. LastCode \in Codes
    <3>1. CASE dev.code = <<>>
      BY <3>1 DEF LastCode, Codes
    <3>2. CASE dev.code # <<>>
      <4>1. dev.code \in Seq(Nat \X Codes) /\ Len(dev.code) \in 1..Len(dev.code)
        BY <3>2, LenProperties, EmptySeq DEF ConsoleTyped, DevStates
      <4>2. dev.code[Len(dev.code)] \in Nat \X Codes
        BY <4>1, ElementOfSeq
      <4> QED  BY <3>2, <4>2 DEF LastCode, Last
    <3> QED  BY <3>1, <3>2
  <2> QED  BY <2>1, <2>2, Tailed DEF ConsoleTyped, DevStates
<1> DEFINE Goal == /\ dev'.input = Tail(dev.input) /\ dev'.late = dev.late
                   /\ dev' \in DevStates
                   /\ \E text : Reading(in, text) /\ wire' = IF live THEN wire \o text ELSE wire
                   /\ \/ dev'.code = dev.code /\ (in.k = "command" => dev.state # "shell")
                      \/ \E rc \in Codes : dev'.code = Append(dev.code, <<in.n, rc>>)
                   /\ dev.state = "shell" => dev'.state = "shell"
                   /\ dev.state # "shell" /\ in.k = "command" => dev'.state # "shell"
                   /\ dev'.leaked => dev.leaked \/ (in.k = "secret" /\ dev.state = "shell")
<1>2. ASSUME NEW text, NEW state \in {"login", "password", "shell"}, Says(text, state),
             dev'.state = state => Reading(in, text),
             in.k = "command" => dev.state # "shell" /\ state # "shell",
             dev.state = "shell" => state = "shell"
      PROVE  Goal
  <2>1. /\ dev' \in DevStates /\ dev'.state = state /\ dev'.input = Tail(dev.input)
        /\ dev'.late = dev.late /\ dev'.code = dev.code /\ dev'.leaked = dev.leaked
        /\ wire' = IF live THEN wire \o text ELSE wire
    BY <1>1, <1>2 DEF ConsoleTyped, Says, DevStates
  <2> QED  BY <1>2, <2>1
<1> SUFFICES Goal
  BY <1>1
<1> HIDE DEF Goal, in
<1>3. CASE dev.state = "shell"
  <2>1. ShellReads(in)
    BY <1>3 DEF DeviceReads, in
  <2>2. CASE in.k \in {"line", "user"} /\ Says(<<Prompt>>, "shell")
    <3>1. Reading(in, <<Prompt>>)
      BY TokensTyped DEF Reading, Prompt, Token
    <3> QED  BY <1>2, <2>2, <3>1
  <2>3. CASE in.k = "command"
    <3>1. PICK rc \in Codes, text \in {<<Prompt>>, <<Out(in.n), Prompt>>,
                                       <<Out(in.n), Prompt, Prompt>>, <<Key, Prompt>>} :
            /\ wire' = IF live THEN wire \o text ELSE wire
            /\ dev' = [dev EXCEPT !.input = Tail(@), !.code = Append(@, <<in.n, rc>>)]
      BY <2>1, <2>3 DEF ShellReads, Says
    <3>2. in.n \in Nat /\ Out(in.n) \in Tokens
      BY <1>1, TokensTyped DEF Inputs
    <3>3. Reading(in, text)
      <4>1. CASE text = <<Prompt>>
        BY <2>3, <4>1, TokensTyped DEF Reading, Prompt, Token
      <4>2. CASE text = <<Out(in.n), Prompt>>
        BY <2>3, <3>2, <4>2, TokensTyped DEF Reading, Prompt, Out, Token
      <4>3. CASE text = <<Out(in.n), Prompt, Prompt>>
        BY <2>3, <3>2, <4>3, TokensTyped DEF Reading, Prompt, Out, Token
      <4>4. CASE text = <<Key, Prompt>>
        BY <2>3, <4>4, TokensTyped DEF Reading, Prompt, Key, Token
      <4> QED  BY <3>1, <4>1, <4>2, <4>3, <4>4
    <3>4. Append(dev.code, <<in.n, rc>>) \in Seq(Nat \X Codes)
      BY <3>2, AppendProperties DEF ConsoleTyped, DevStates
    <3>5. /\ dev' \in DevStates /\ dev'.state = dev.state /\ dev'.input = Tail(dev.input)
          /\ dev'.late = dev.late /\ dev'.code = Append(dev.code, <<in.n, rc>>)
          /\ dev'.leaked = dev.leaked
      BY <1>1, <3>1, <3>4 DEF ConsoleTyped, DevStates
    <3>6. \E x : Reading(in, x) /\ wire' = IF live THEN wire \o x ELSE wire
      BY <3>1, <3>3
    <3>7. dev'.leaked => dev.leaked
      BY <3>5
    <3>8. \E x \in Codes : dev'.code = Append(dev.code, <<in.n, x>>)
      BY <3>5
    <3> QED  BY <1>3, <3>5, <3>6, <3>7, <3>8 DEF Goal
  <2>4. CASE /\ in.k = "printf"
             /\ Says(IF config.device = "posix"
                     THEN <<Marker(in.n, LastCode), Prompt>> ELSE <<Out(in.n), Prompt>>, "shell")
    <3>1. in.n \in Nat /\ Out(in.n) \in Tokens /\ Marker(in.n, LastCode) \in Tokens
      BY <1>1, TokensTyped DEF Inputs, Codes
    <3>2. CASE config.device = "posix"
      <4>1. Reading(in, <<Marker(in.n, LastCode), Prompt>>)
        BY <1>3, <2>4, <3>1, <3>2, TokensTyped DEF Reading, Prompt, Marker, Token
      <4>2. Says(<<Marker(in.n, LastCode), Prompt>>, "shell")
        BY <2>4, <3>2
      <4> QED  BY <1>2, <2>4, <4>1, <4>2
    <3>3. CASE config.device # "posix"
      <4>1. Reading(in, <<Out(in.n), Prompt>>)
        BY <2>4, <3>1, <3>3, TokensTyped DEF Reading, Prompt, Out, Token
      <4>2. Says(<<Out(in.n), Prompt>>, "shell")
        BY <2>4, <3>3
      <4> QED  BY <1>2, <2>4, <4>1, <4>2
    <3> QED  BY <3>2, <3>3
  <2>5. CASE /\ in.k = "secret"
             /\ wire' = IF live THEN wire \o <<Prompt>> ELSE wire
             /\ dev' = [dev EXCEPT !.input = Tail(@), !.leaked = TRUE]
    <3>1. Reading(in, <<Prompt>>)
      BY TokensTyped DEF Reading, Prompt, Token
    <3>2. /\ dev' \in DevStates /\ dev'.state = dev.state /\ dev'.input = Tail(dev.input)
          /\ dev'.late = dev.late /\ dev'.code = dev.code
      BY <1>1, <2>5 DEF ConsoleTyped, DevStates
    <3>3. \E x : Reading(in, x) /\ wire' = IF live THEN wire \o x ELSE wire
      BY <2>5, <3>1
    <3> QED  BY <1>3, <2>5, <3>2, <3>3 DEF Goal
  <2> QED  BY <2>1, <2>2, <2>3, <2>4, <2>5 DEF ShellReads
<1>4. CASE dev.state # "shell"
  <2>1. LoginReads(in)
    BY <1>4 DEF DeviceReads, in
  <2>2. dev'.state = "shell" => Reading(in, <<Prompt>>)
    BY TokensTyped DEF Reading, Prompt, Token
  <2>3. dev'.state = "login" => Reading(in, <<LoginPrompt>>)
    BY TokensTyped DEF Reading, LoginPrompt, Token
  <2>4. dev'.state = "password" => Reading(in, <<PasswordPrompt>>)
    BY TokensTyped DEF Reading, PasswordPrompt, Token
  <2>5. dev'.state = "login" => Reading(in, <<Incorrect, LoginPrompt>>)
    BY TokensTyped DEF Reading, Incorrect, LoginPrompt, Token
  <2>6. CASE in.k = "user" /\ Says(<<Prompt>>, "shell")
    BY <1>2, <1>4, <2>2, <2>6
  <2>7. CASE Says(<<PasswordPrompt>>, "password")
    BY <1>2, <1>4, <2>4, <2>7
  <2>8. CASE Says(<<LoginPrompt>>, "login")
    BY <1>2, <1>4, <2>3, <2>8
  <2>9. CASE in.k = "secret" /\ Says(<<Prompt>>, "shell")
    BY <1>2, <1>4, <2>2, <2>9
  <2>10. CASE Says(<<Incorrect, LoginPrompt>>, "login")
    BY <1>2, <1>4, <2>5, <2>10
  <2> QED  BY <2>1, <2>6, <2>7, <2>8, <2>9, <2>10 DEF LoginReads
<1> QED  BY <1>3, <1>4

\* A set of numbers that is not empty has a least one.
LEMMA LeastExists ==
  ASSUME NEW T, T \subseteq Nat, T # {}
  PROVE  \E i \in T : \A j \in T : i <= j
<1> DEFINE R == {ss \in Nat \X Nat : ss[1] < ss[2]}
<1>1. IsWellFoundedOn(R, Nat)
  BY NatLessThanWellFounded DEF OpToRel
<1>2. \E x \in T : \A y \in T : ~(<<y, x>> \in R)
  <2> HIDE DEF R
  <2> QED  BY <1>1, WFMin
<1>3. PICK x \in T : \A y \in T : ~(<<y, x>> \in R)
  BY <1>2
<1>4. ASSUME NEW y \in T PROVE x <= y
  <2>1. x \in Nat /\ y \in Nat
    OBVIOUS
  <2>2. y < x => <<y, x>> \in R
    BY <2>1
  <2>3. ~(y < x)
    BY <1>3, <2>2
  <2> QED  BY <2>1, <2>3
<1> QED  BY <1>4

\* A connection that breaks cuts what is on the way, and perhaps a digit at its end.
LEMMA BreaksEffect ==
  ASSUME ConsoleTyped, Breaks
  PROVE  /\ live /\ live' = FALSE
         /\ UNCHANGED <<config, dev, client, op, remote, result, answer>>
         /\ count' \in Counts /\ count'.sent = count.sent
         /\ wire' \in Seq(Tokens) /\ Len(wire') \in 0..Len(wire)
         /\ \A j \in 1..Len(wire') :
               /\ j \in 1..Len(wire) /\ wire'[j].k = wire[j].k /\ wire'[j].n = wire[j].n
               /\ \/ wire'[j] = wire[j]
                  \/ j = Len(wire') /\ wire[j].rc = 12 /\ wire'[j].rc = 1
<1>1. PICK i \in 0..Len(wire), cut \in BOOLEAN :
        LET w == SubSeq(wire, 1, i)
        IN  /\ cut => LastIs(w, "marker") /\ Last(w).rc = 12
            /\ wire' = IF cut THEN [w EXCEPT ![i].rc = 1] ELSE w
  BY DEF Breaks
<1> DEFINE w == SubSeq(wire, 1, i)
<1>2. /\ w \in Seq(Tokens) /\ Len(w) = i /\ Len(wire) \in Nat
      /\ \A j \in 1..i : j \in 1..Len(wire) /\ w[j] = wire[j]
  BY Parted DEF ConsoleTyped
<1>3. /\ live /\ live' = FALSE
      /\ UNCHANGED <<config, dev, client, op, remote, result, answer>>
      /\ count' \in Counts /\ count'.sent = count.sent
  <2>1. count' = [count EXCEPT !.events = @ + 1] /\ count \in Counts
    BY DEF Breaks, ConsoleTyped
  <2>2. count' \in Counts /\ count'.sent = count.sent
    BY <2>1 DEF Counts
  <2> QED  BY <2>2 DEF Breaks
<1> HIDE DEF w
<1>4. CASE ~cut
  <2>1. wire' = w
    BY <1>1, <1>4 DEF w
  <2> QED  BY <1>2, <1>3, <2>1
<1>5. CASE cut
  <2>1. /\ wire' = [w EXCEPT ![i].rc = 1] /\ w # <<>> /\ w[i].rc = 12
    BY <1>1, <1>2, <1>5 DEF w, LastIs, Last
  <2>2. i \in 1..Len(w) /\ w[i] \in Tokens
    BY <1>2, <2>1, EmptySeq, ElementOfSeq
  <2> DEFINE t == [w[i] EXCEPT !.rc = 1]
  <2>3. t \in Tokens /\ t.k = w[i].k /\ t.n = w[i].n /\ t.rc = 1
    BY <2>2 DEF Tokens
  <2>4. wire' = [w EXCEPT ![i] = t]
    BY <2>1
  <2> HIDE DEF t
  <2>5. /\ wire' \in Seq(Tokens) /\ Len(wire') = Len(w)
        /\ wire'[i] = t /\ \A j \in 1..Len(w) : j # i => wire'[j] = w[j]
    BY <1>2, <2>2, <2>3, <2>4, ExceptSeq
  <2>6. ASSUME NEW j \in 1..Len(wire')
        PROVE  /\ j \in 1..Len(wire) /\ wire'[j].k = wire[j].k /\ wire'[j].n = wire[j].n
               /\ \/ wire'[j] = wire[j]
                  \/ j = Len(wire') /\ wire[j].rc = 12 /\ wire'[j].rc = 1
    <3>1. CASE j = i
      BY <1>2, <2>1, <2>2, <2>3, <2>5, <3>1
    <3>2. CASE j # i
      BY <1>2, <2>5, <3>2
    <3> QED  BY <3>1, <3>2
  <2> QED  BY <1>2, <1>3, <2>5, <2>6
<1> QED  BY <1>4, <1>5

\* A device that comes up shows the keyword and the prompt of where it is.
LEMMA RebootsEffect ==
  ASSUME ConsoleTyped, Reboots
  PROVE  /\ UNCHANGED <<config, live, client, op, remote, result, answer>>
         /\ count' \in Counts /\ count'.sent = count.sent
         /\ dev' \in DevStates
         /\ dev'.input = <<>> /\ dev'.code = dev.code /\ dev'.leaked = dev.leaked
         /\ dev'.late = dev.late
         /\ dev.state # "password" /\ op.pc \notin {"login", "password", "authenticated"}
         /\ \E text \in Seq(Tokens) :
               /\ wire' = IF live THEN wire \o text ELSE wire
               /\ \A j \in 1..Len(text) : text[j].n = 0 /\ text[j].k \in {"key", "prompt", "login"}
<1>1. PICK s \in {"login", "shell"} :
        /\ dev' = [dev EXCEPT !.state = s, !.input = <<>>]
        /\ wire' = IF live THEN wire \o (<<Key>> \o Greeting(s)) ELSE wire
  BY DEF Reboots
<1>2. /\ Greeting(s) \in Seq(Tokens)
      /\ \A j \in 1..Len(Greeting(s)) : /\ Greeting(s)[j].n = 0
                                       /\ Greeting(s)[j].k \in {"prompt", "login"}
  <2>1. CASE s = "login"
    <3>1. Greeting(s) = <<LoginPrompt>>
      BY <2>1 DEF Greeting
    <3> QED  BY <3>1, TokensTyped DEF LoginPrompt, Token
  <2>2. CASE s = "shell"
    <3>1. Greeting(s) = <<Prompt>>
      BY <2>2 DEF Greeting
    <3> QED  BY <3>1, TokensTyped DEF Prompt, Token
  <2> QED  BY <2>1, <2>2
<1> DEFINE text == <<Key>> \o Greeting(s)
<1>3. /\ text \in Seq(Tokens)
      /\ \A j \in 1..Len(text) : text[j].n = 0 /\ text[j].k \in {"key", "prompt", "login"}
  <2>1. /\ <<Key>> \in Seq(Tokens) /\ Len(<<Key>>) = 1 /\ <<Key>>[1] = Key
        /\ Key.n = 0 /\ Key.k = "key"
    BY TokensTyped DEF Key, Token
  <2>2. \A j \in 1..Len(<<Key>>) : <<Key>>[j].n = 0 /\ <<Key>>[j].k = "key"
    BY <2>1
  <2>3. text \in Seq(Tokens)
    BY <1>2, <2>1, Joined
  <2>4. \A j \in 1..Len(text) : \/ j \in 1..Len(<<Key>>) /\ text[j] = <<Key>>[j]
                                \/ \E m \in 1..Len(Greeting(s)) : text[j] = Greeting(s)[m]
    BY <1>2, <2>1, Joined
  <2> HIDE DEF text
  <2> QED  BY <1>2, <2>2, <2>3, <2>4
<1>4. /\ dev' \in DevStates
      /\ dev'.input = <<>> /\ dev'.code = dev.code /\ dev'.leaked = dev.leaked
      /\ dev'.late = dev.late
  <2>1. <<>> \in Seq(Inputs)
    OBVIOUS
  <2> QED  BY <1>1, <2>1 DEF ConsoleTyped, DevStates
<1>5. /\ UNCHANGED <<config, live, client, op, remote, result, answer>>
      /\ count' \in Counts /\ count'.sent = count.sent
      /\ dev.state # "password" /\ op.pc \notin {"login", "password", "authenticated"}
  <2>1. count' = [count EXCEPT !.events = @ + 1] /\ count \in Counts
    BY DEF Reboots, ConsoleTyped
  <2>2. count' \in Counts /\ count'.sent = count.sent
    BY <2>1 DEF Counts
  <2> QED  BY <2>2 DEF Reboots
<1>6. wire' = IF live THEN wire \o text ELSE wire
  BY <1>1, <1>2
<1> QED  BY <1>3, <1>4, <1>5, <1>6

\* A packet is the beginning of what is on the way, and the rest is left.
LEMMA PacketEffect ==
  ASSUME ConsoleTyped, NEW p \in Packets, Gone(p)
  PROVE  \E i \in 1..Len(wire) :
            /\ p = SubSeq(wire, 1, i) /\ p \in Seq(Tokens) /\ Len(p) = i
            /\ wire' = SubSeq(wire, i + 1, Len(wire))
            /\ wire' \in Seq(Tokens) /\ Len(wire') = Len(wire) - i /\ Len(wire) \in Nat
            /\ \A j \in 1..Len(p) : j \in 1..Len(wire) /\ p[j] = wire[j]
            /\ \A j \in 1..Len(wire') : j + i \in 1..Len(wire) /\ wire'[j] = wire[j + i]
<1>1. PICK i \in 1..Len(wire) : p = SubSeq(wire, 1, i)
  BY DEF Packets
<1>2. i \in 0..Len(wire) /\ wire \in Seq(Tokens)
  BY DEF ConsoleTyped
<1>3. /\ p \in Seq(Tokens) /\ Len(p) = i /\ Len(wire) \in Nat
      /\ SubSeq(wire, i + 1, Len(wire)) \in Seq(Tokens)
      /\ Len(SubSeq(wire, i + 1, Len(wire))) = Len(wire) - i
      /\ \A j \in 1..i : j \in 1..Len(wire) /\ p[j] = wire[j]
      /\ \A j \in 1..(Len(wire) - i) : j + i \in 1..Len(wire)
                                     /\ SubSeq(wire, i + 1, Len(wire))[j] = wire[j + i]
  BY <1>1, <1>2, Parted
<1>4. wire' = SubSeq(wire, i + 1, Len(wire))
  BY <1>3 DEF Gone
<1> QED  BY <1>1, <1>3, <1>4

LEMMA FedEffect ==
  ASSUME ConsoleTyped, Connected, NEW p \in Seq(Tokens), client' = Fed(client, p)
  PROVE  /\ client' \in Clients
         /\ client'.sock = client.sock /\ client'.buf = client.buf \o p
         /\ client'.cursor = client.cursor /\ client'.cursor <= Len(client'.buf)
<1>1. /\ client.buf \o p \in Seq(Tokens) /\ Len(client.buf \o p) = Len(client.buf) + Len(p)
      /\ Len(client.buf) \in Nat /\ Len(p) \in Nat
  BY ConcatProperties, LenProperties DEF ConsoleTyped, Clients
<1>2. config.mode \in Modes
  BY ConsoleAssumption DEF ConsoleTyped, Modes
<1>3. /\ client' \in Clients
      /\ client'.sock = client.sock /\ client'.buf = client.buf \o p
      /\ client'.cursor = client.cursor
  BY <1>1, <1>2 DEF Fed, ConsoleTyped, Clients
<1> QED  BY <1>1, <1>3 DEF ConsoleTyped, Connected, Clients

LEMMA SendEffect ==
  ASSUME ConsoleTyped, NEW inputs \in Seq(Inputs), Send(inputs)
  PROVE  /\ dev' \in DevStates /\ dev'.state = dev.state /\ dev'.code = dev.code
         /\ dev'.leaked = dev.leaked /\ dev'.late = dev.late
         /\ dev'.input = IF live THEN dev.input \o inputs ELSE dev.input
<1>1. dev.input \o inputs \in Seq(Inputs)
  BY ConcatProperties DEF ConsoleTyped, DevStates
<1> QED  BY <1>1 DEF Send, ConsoleTyped, DevStates

\* A command or a probe is sent under a number of its own.
Sent(pc, inputs) ==
    /\ Send(inputs) /\ Numbered
    /\ op' = [op EXCEPT !.pc = pc, !.n = Fresh, !.got = <<>>]

Printf == <<In("printf", Fresh)>>
PlainCommand == <<In("command", Fresh)>>
CommandWithPrintf == <<In("command", Fresh), In("printf", Fresh)>>

CommandSent(mode) ==
    \/ mode # "posix" /\ Sent("run", PlainCommand)
    \/ mode = "posix" /\ Sent("run", CommandWithPrintf)

LEMMA InputsTyped ==
  ASSUME ConsoleTyped
  PROVE  /\ Fresh \in Nat /\ Fresh = count.sent + 1 /\ count.sent \in Nat
         /\ Printf \in Seq(Inputs) /\ Len(Printf) = 1 /\ Printf[1] = In("printf", Fresh)
         /\ PlainCommand \in Seq(Inputs) /\ Len(PlainCommand) = 1
         /\ PlainCommand[1] = In("command", Fresh)
         /\ CommandWithPrintf \in Seq(Inputs) /\ Len(CommandWithPrintf) = 2
         /\ CommandWithPrintf[1] = In("command", Fresh)
         /\ CommandWithPrintf[2] = In("printf", Fresh)
<1>1. Fresh \in Nat /\ Fresh = count.sent + 1 /\ count.sent \in Nat
  BY DEF ConsoleTyped, Counts, Fresh
<1>2. In("printf", Fresh) \in Inputs /\ In("command", Fresh) \in Inputs
  BY <1>1 DEF In, Inputs
<1> QED  BY <1>1, <1>2 DEF Printf, PlainCommand, CommandWithPrintf

\* The text that the client holds is as it was, and so is its connection.
TextKept == /\ client' \in Clients /\ client'.sock = client.sock /\ client'.buf = client.buf
            /\ client'.cursor = client.cursor

\* The session has its prompt or waits for it, and the operation goes on.
Settles ==
    /\ UNCHANGED <<config, wire, live, result, answer>> /\ TextKept /\ client.sock
    /\ \/ CommandSent(client'.mode) \/ Sent("capability", Printf)
       \/ UNCHANGED <<dev, count>> /\ op' \in {Idle, [op EXCEPT !.pc = "quiet"], [op EXCEPT !.pc = "prompt"]}

LEMMA FramedEffect ==
  ASSUME NEW c, Framed(c)
  PROVE  /\ client' = c
         /\ \/ CommandSent(c.mode)
            \/ UNCHANGED <<dev, count>> /\ op' \in {Idle, [op EXCEPT !.pc = "quiet"]}
<1>1. CASE SendCommand(c)
  BY <1>1 DEF Framed, SendCommand, CommandSent, Sent, PlainCommand, CommandWithPrintf
<1>2. CASE op' = [op EXCEPT !.pc = "quiet"] /\ UNCHANGED <<dev, count, remote>>
  BY <1>2 DEF Framed
<1>3. CASE CheckEnds(TRUE, "prompt") /\ UNCHANGED <<dev, count>>
  BY <1>3 DEF Framed, CheckEnds
<1> QED  BY <1>1, <1>2, <1>3 DEF Framed

LEMMA SettlesEffect ==
  ASSUME ConsoleTyped, Connected, LoggedIn \/ PrepareSession \/ Hello \/ Capability
  PROVE  Settles
<1>1. UNCHANGED <<config, wire, live, result, answer>> /\ client.sock
  <2>1. UNCHANGED <<config, wire, live, result, answer>>
    BY DEF LoggedIn, PrepareSession, Hello, Capability
  <2> QED  BY <2>1 DEF LoggedIn, PrepareSession, Hello, Capability, Connected
<1>2. client \in Clients /\ config.mode \in Modes /\ "posix" \in Modes /\ "prompt_only" \in Modes
  BY ConsoleAssumption DEF ConsoleTyped, Modes
<1>3. ASSUME NEW c \in Clients, c.sock = client.sock, c.buf = client.buf,
             c.cursor = client.cursor, Framed(c)
      PROVE  Settles
  BY <1>1, <1>3, FramedEffect DEF Settles, TextKept
<1>4. ASSUME NEW c \in Clients, c.sock = client.sock, c.buf = client.buf,
             c.cursor = client.cursor, client' = c, SendCapabilityProbe
      PROVE  Settles
  BY <1>1, <1>4 DEF Settles, TextKept, SendCapabilityProbe, Sent, Printf
<1>5. ASSUME Prepare(client) PROVE Settles
  <2> DEFINE d == [client EXCEPT !.prompt = TRUE, !.mode = config.mode]
  <2>1. /\ d \in Clients /\ d.sock = client.sock /\ d.buf = client.buf
        /\ d.cursor = client.cursor
    BY <1>2 DEF Clients
  <2>2. CASE Framed(client)
    BY <1>2, <1>3, <2>2
  <2>3. CASE op' = [op EXCEPT !.pc = "prompt"] /\ client' = client /\ UNCHANGED <<dev, count, remote>>
    BY <1>1, <1>2, <2>3 DEF Settles, TextKept
  <2>4. CASE client' = d /\ SendCapabilityProbe
    BY <1>4, <2>1, <2>4
  <2>5. CASE Framed(d)
    BY <1>3, <2>1, <2>5
  <2> HIDE DEF d
  <2> QED  BY <1>5, <2>2, <2>3, <2>4, <2>5 DEF Prepare, d
<1>6. CASE LoggedIn \/ PrepareSession
  BY <1>5, <1>6 DEF LoggedIn, PrepareSession
<1>7. CASE Hello
  <2> DEFINE c == [client EXCEPT !.prompt = TRUE]
             d == [client EXCEPT !.prompt = TRUE, !.mode = config.mode]
  <2>1. /\ c \in Clients /\ c.sock = client.sock /\ c.buf = client.buf
        /\ c.cursor = client.cursor
        /\ d \in Clients /\ d.sock = client.sock /\ d.buf = client.buf
        /\ d.cursor = client.cursor
    BY <1>2 DEF Clients
  <2>2. (client' = c /\ SendCapabilityProbe) \/ Framed(d)
    BY <1>7 DEF Hello
  <2> HIDE DEF c, d
  <2> QED  BY <1>3, <1>4, <2>1, <2>2
<1>8. CASE Capability
  <2>1. PICK mode \in {"posix", "prompt_only"} : Framed([client EXCEPT !.mode = mode])
    BY <1>8 DEF Capability
  <2> DEFINE c == [client EXCEPT !.mode = mode]
  <2>2. /\ c \in Clients /\ c.sock = client.sock /\ c.buf = client.buf
        /\ c.cursor = client.cursor
    BY <1>2 DEF Clients
  <2> HIDE DEF c
  <2> QED  BY <1>3, <2>1, <2>2 DEF c
<1> QED  BY <1>6, <1>7, <1>8

\* The operation ends, and the connection stays as it is or is dropped.
Quits ==
    /\ op' = Idle /\ UNCHANGED <<config, dev, count>>
    /\ UNCHANGED <<client, wire, live>> \/ Drop

LEMMA FinishEffect ==
  ASSUME NEW status, NEW code, NEW lost, Finish(status, code, lost)
  PROVE  /\ op' = Idle
         /\ result' = [status |-> status, code |-> code, n |-> op.n,
                       text |-> Cleaned(op.got, op.n), lost |-> lost]
         /\ result'.code = code
BY DEF Finish, CheckEnds

LEMMA NoCommandEffect ==
  ASSUME NEW status, NoCommand(status)
  PROVE  op' = Idle /\ (result' = result \/ result'.code = None)
<1>1. op' = Idle
  BY DEF NoCommand, CheckFails, CheckEnds
<1>2. [NoResult EXCEPT !.status = status].code = None
  BY DEF NoResult
<1>3. result' = result \/ result' = [NoResult EXCEPT !.status = status]
  BY DEF NoCommand
<1> QED  BY <1>1, <1>2, <1>3

LEMMA QuitsEffect ==
  ASSUME \/ LoginFails \/ SessionFails \/ ConnectFails \/ TimedOut \/ SendFails \/ StreamEnds \/ ProbeEnds
         \/ Completed \/ ConnectionClosed
  PROVE  Quits /\ answer' = answer
<1>1. CASE LoginFails
  BY <1>1 DEF LoginFails, CheckFails, CheckEnds, Quits
<1>2. CASE SessionFails
  BY <1>2, NoCommandEffect DEF SessionFails, Quits
<1>3. CASE ConnectFails
  BY <1>3, NoCommandEffect DEF ConnectFails, Quits
<1>4. CASE TimedOut
  BY <1>4, FinishEffect DEF TimedOut, Quits
<1>5. CASE StreamEnds
  BY <1>5, NoCommandEffect DEF StreamEnds, Quits
<1>6. CASE ProbeEnds
  BY <1>6 DEF ProbeEnds, CheckFails, CheckEnds, Quits
<1>7. CASE Completed
  BY <1>7, FinishEffect DEF Completed, Coded, Quits
<1>8. CASE ConnectionClosed
  BY <1>8, FinishEffect DEF ConnectionClosed, Coded, Quits
<1>9. CASE SendFails
  BY <1>9, FinishEffect DEF SendFails, Quits
<1> QED  BY <1>1, <1>2, <1>3, <1>4, <1>5, <1>6, <1>7, <1>8, <1>9

LEMMA RestTyped ==
  /\ Idle \in Opers /\ Idle.pc = "idle" /\ Idle.n = 0 /\ Idle.got = <<>>
  /\ Dropped \in Clients /\ ~Dropped.sock /\ Dropped.buf = <<>> /\ Dropped.cursor = 0
  /\ [Dropped EXCEPT !.sock = TRUE] \in Clients /\ [Dropped EXCEPT !.sock = TRUE].sock
  /\ [Dropped EXCEPT !.sock = TRUE].buf = <<>> /\ [Dropped EXCEPT !.sock = TRUE].cursor = 0
  /\ <<>> \in Seq(Tokens) /\ <<>> \in Seq(Inputs) /\ Len(<<>>) = 0
<1>1. <<>> \in Seq(Tokens) /\ <<>> \in Seq(Inputs) /\ Len(<<>>) = 0
  OBVIOUS
<1>2. Idle \in Opers /\ Idle.pc = "idle" /\ Idle.n = 0 /\ Idle.got = <<>>
  BY <1>1 DEF Idle, Opers, Pcs, Ofs
<1>3. Dropped \in Clients /\ ~Dropped.sock /\ Dropped.buf = <<>> /\ Dropped.cursor = 0
  BY <1>1 DEF Dropped, Clients, Modes
<1>4. /\ [Dropped EXCEPT !.sock = TRUE] \in Clients /\ [Dropped EXCEPT !.sock = TRUE].sock
      /\ [Dropped EXCEPT !.sock = TRUE].buf = <<>> /\ [Dropped EXCEPT !.sock = TRUE].cursor = 0
  BY <1>3 DEF Clients
<1> QED  BY <1>1, <1>2, <1>3, <1>4

\* What a new connection shows.
LEMMA GreetingTyped ==
  ASSUME NEW state \in {"login", "password", "shell"}
  PROVE  /\ Greeting(state) \in Seq(Tokens)
         /\ \A j \in 1..Len(Greeting(state)) :
               /\ Greeting(state)[j].n = 0
               /\ Greeting(state)[j].k \in {"prompt", "login", "password"}
               /\ Greeting(state)[j].k = "login" => state = "login"
               /\ Greeting(state)[j].k = "password" => state = "password"
<1>1. CASE state = "login"
  <2>1. Greeting(state) = <<LoginPrompt>>
    BY <1>1 DEF Greeting
  <2>2. LoginPrompt \in Tokens /\ LoginPrompt.n = 0 /\ LoginPrompt.k = "login"
    BY TokensTyped DEF LoginPrompt, Token
  <2>3. /\ <<LoginPrompt>> \in Seq(Tokens) /\ Len(<<LoginPrompt>>) = 1
        /\ \A j \in 1..Len(<<LoginPrompt>>) : <<LoginPrompt>>[j] = LoginPrompt
    BY <2>2
  <2>4. \A j \in 1..Len(Greeting(state)) : Greeting(state)[j] = LoginPrompt
    BY <2>1, <2>3
  <2> QED  BY <1>1, <2>1, <2>2, <2>3, <2>4
<1>2. CASE state = "password"
  <2>1. Greeting(state) = <<PasswordPrompt>>
    BY <1>2 DEF Greeting
  <2>2. PasswordPrompt \in Tokens /\ PasswordPrompt.n = 0 /\ PasswordPrompt.k = "password"
    BY TokensTyped DEF PasswordPrompt, Token
  <2>3. /\ <<PasswordPrompt>> \in Seq(Tokens) /\ Len(<<PasswordPrompt>>) = 1
        /\ \A j \in 1..Len(<<PasswordPrompt>>) : <<PasswordPrompt>>[j] = PasswordPrompt
    BY <2>2
  <2>4. \A j \in 1..Len(Greeting(state)) : Greeting(state)[j] = PasswordPrompt
    BY <2>1, <2>3
  <2> QED  BY <1>2, <2>1, <2>2, <2>3, <2>4
<1>3. CASE state = "shell"
  <2>1. Greeting(state) = <<Prompt>>
    BY <1>3 DEF Greeting
  <2> QED  BY <2>1, TokensTyped DEF Prompt, Token
<1> QED  BY <1>1, <1>2, <1>3

LEMMA BaseInit == Init => ConsoleBase
<1> SUFFICES ASSUME Init PROVE ConsoleBase
  OBVIOUS
<1>1. /\ wire = <<>> /\ live = FALSE /\ client = Dropped /\ op = Idle /\ answer = <<>>
      /\ config.mode \in ShellModes /\ config.device \in Devices
      /\ count = [ops |-> 0, events |-> 0, sent |-> 0]
  BY DEF Init
<1>2. PICK s \in {"login", "shell"} :
        dev = [state |-> s, input |-> <<>>, code |-> <<>>, leaked |-> FALSE, late |-> FALSE]
  BY DEF Init
<1>3. dev \in DevStates /\ dev.input = <<>>
  <2>1. <<>> \in Seq(Inputs) /\ <<>> \in Seq(Nat \X Codes)
    OBVIOUS
  <2> QED  BY <1>2, <2>1 DEF DevStates
<1>4. count \in Counts /\ count.sent = 0
  BY <1>1 DEF Counts
<1>5. ConsoleTyped
  BY <1>1, <1>3, <1>4, RestTyped DEF ConsoleTyped
<1>6. Connected /\ Drawn
  BY <1>1, <1>3, <1>4, RestTyped DEF Connected, Drawn
<1> QED  BY <1>5, <1>6 DEF ConsoleBase

LEMMA BaseDeviceReads == ConsoleBase /\ DeviceReads => ConsoleBase'
<1> SUFFICES ASSUME ConsoleBase, DeviceReads PROVE ConsoleBase'
  OBVIOUS
<1>1. UNCHANGED <<config, live, client, op, remote, result, answer, count>>
  BY DEF DeviceReads
<1>2. /\ ConsoleTyped /\ dev.input # <<>> /\ dev'.input = Tail(dev.input) /\ dev' \in DevStates
  BY DeviceReadsEffect DEF ConsoleBase
<1>3. PICK text : Reading(Head(dev.input), text) /\ wire' = IF live THEN wire \o text ELSE wire
  BY DeviceReadsEffect DEF ConsoleBase
<1>4. /\ Head(dev.input) = dev.input[1] /\ 1 \in 1..Len(dev.input) /\ Head(dev.input) \in Inputs
      /\ \A i \in 1..Len(dev'.input) : i + 1 \in 1..Len(dev.input) /\ dev'.input[i] = dev.input[i + 1]
  BY <1>2, Tailed DEF ConsoleTyped, DevStates
<1>5. /\ wire \in Seq(Tokens) /\ text \in Seq(Tokens) /\ count.sent \in Nat
      /\ \A j \in 1..Len(text) : text[j].n \in {0, Head(dev.input).n}
  BY <1>2, <1>3 DEF ConsoleTyped, Counts, Reading
<1>6. \A j \in 1..Len(text) : text[j].n <= count.sent
  BY <1>4, <1>5 DEF ConsoleBase, Drawn
<1>7. /\ wire' \in Seq(Tokens)
      /\ \A i \in 1..Len(wire') : wire'[i].n <= count.sent
  <2>1. CASE live
    <3>1. wire' = wire \o text
      BY <1>3, <2>1
    <3>2. /\ wire' \in Seq(Tokens)
          /\ \A i \in 1..Len(wire') : \/ i \in 1..Len(wire) /\ wire'[i] = wire[i]
                                      \/ \E j \in 1..Len(text) : wire'[i] = text[j]
      BY <1>5, <3>1, Joined
    <3> QED  BY <1>6, <3>2 DEF ConsoleBase, Drawn
  <2>2. CASE ~live
    BY <1>3, <1>5, <2>2 DEF ConsoleBase, Drawn
  <2> QED  BY <2>1, <2>2
<1>8. \A i \in 1..Len(dev'.input) : dev'.input[i].n <= count.sent
  BY <1>4 DEF ConsoleBase, Drawn
<1> QED  BY <1>1, <1>2, <1>7, <1>8 DEF ConsoleBase, ConsoleTyped, Connected, Drawn

LEMMA BaseReboots == ConsoleBase /\ Reboots => ConsoleBase'
<1> SUFFICES ASSUME ConsoleBase, Reboots PROVE ConsoleBase'
  OBVIOUS
<1>1. /\ UNCHANGED <<config, live, client, op, remote, result, answer>>
      /\ count' \in Counts /\ count'.sent = count.sent
      /\ dev' \in DevStates /\ dev'.input = <<>>
  BY RebootsEffect DEF ConsoleBase
<1>2. PICK text \in Seq(Tokens) :
        /\ wire' = IF live THEN wire \o text ELSE wire
        /\ \A j \in 1..Len(text) : text[j].n = 0 /\ text[j].k \in {"key", "prompt", "login"}
  BY RebootsEffect DEF ConsoleBase
<1>3. wire \in Seq(Tokens) /\ count.sent \in Nat
  BY DEF ConsoleBase, ConsoleTyped, Counts
<1>4. /\ wire' \in Seq(Tokens)
      /\ \A i \in 1..Len(wire') : wire'[i].n <= count.sent
  <2>1. CASE live
    <3>1. wire' = wire \o text
      BY <1>2, <2>1
    <3>2. /\ wire' \in Seq(Tokens)
          /\ \A i \in 1..Len(wire') : \/ i \in 1..Len(wire) /\ wire'[i] = wire[i]
                                      \/ \E j \in 1..Len(text) : wire'[i] = text[j]
      <4>1. /\ wire \o text \in Seq(Tokens)
            /\ \A i \in 1..Len(wire \o text) : \/ i \in 1..Len(wire) /\ (wire \o text)[i] = wire[i]
                                              \/ \E j \in 1..Len(text) : (wire \o text)[i] = text[j]
        BY <1>3, JoinedElements
      <4> QED  BY <3>1, <4>1
    <3>3. \A j \in 1..Len(text) : text[j].n <= count.sent
      BY <1>2, <1>3
    <3> QED  BY <3>2, <3>3 DEF ConsoleBase, Drawn
  <2>2. CASE ~live
    BY <1>2, <1>3, <2>2 DEF ConsoleBase, Drawn
  <2> QED  BY <2>1, <2>2
<1> QED  BY <1>1, <1>4, RestTyped DEF ConsoleBase, ConsoleTyped, Connected, Drawn

LEMMA BaseBreaks == ConsoleBase /\ Breaks => ConsoleBase'
<1> SUFFICES ASSUME ConsoleBase, Breaks PROVE ConsoleBase'
  OBVIOUS
<1>1. /\ live' = FALSE /\ UNCHANGED <<config, dev, client, op, remote, result, answer>>
      /\ count' \in Counts /\ count'.sent = count.sent /\ wire' \in Seq(Tokens)
      /\ \A j \in 1..Len(wire') : j \in 1..Len(wire) /\ wire'[j].n = wire[j].n
  BY BreaksEffect DEF ConsoleBase
<1>2. \A j \in 1..Len(wire') : wire'[j].n <= count'.sent
  BY <1>1 DEF ConsoleBase, Drawn
<1> QED  BY <1>1, <1>2 DEF ConsoleBase, ConsoleTyped, Connected, Drawn

\* An operation that begins: with the connection there is, or with a new one.
LEMMA BaseOperations == ConsoleBase /\ Operations => ConsoleBase'
<1> SUFFICES ASSUME ConsoleBase, Operations PROVE ConsoleBase'
  OBVIOUS
<1>1. /\ answer' = <<>> /\ config' = config /\ dev'.input = dev.input
  <2>1. dev'.input = dev.input
    BY DEF Operations, Check, Execute, ExecuteOnOutput, Console, ConsoleBase, ConsoleTyped, DevStates
  <2> QED  BY <2>1 DEF Operations, Check, Execute, ExecuteOnOutput, Console
<1>2. dev' \in DevStates
  BY DEF Operations, Check, Execute, ExecuteOnOutput, Console, ConsoleBase, ConsoleTyped, DevStates
<1>3. count' \in Counts /\ count'.sent = count.sent
  <2>1. count' = [count EXCEPT !.ops = @ + 1]
    BY DEF Operations, Check, Execute, ExecuteOnOutput, Console, Begin
  <2> QED  BY <2>1 DEF ConsoleBase, ConsoleTyped, Counts
<1>4. /\ op' \in Opers /\ op'.n = 0
      /\ op'.pc \notin {"idle", "session"} => client'.sock
  <2>1. CASE Check
    <3>1. op' = [Idle EXCEPT !.of = "check", !.pc = IF config.login THEN "login" ELSE "session"]
      BY <2>1 DEF Check, Begin
    <3>2. op' \in Opers /\ op'.n = 0 /\ (op'.pc # "session" => config.login)
      BY <3>1, RestTyped DEF Opers, Pcs, Ofs
    <3> QED  BY <2>1, <3>2, RestTyped DEF Check
  <2>2. CASE Execute
    <3>1. PICK expect \in BOOLEAN :
            op' = [Idle EXCEPT !.of = "execute", !.expect = expect,
                     !.pc = IF ~client.sock THEN "session"
                            ELSE IF config.gateway /\ ~client.prompt THEN "prepare" ELSE "send"]
      BY <2>2 DEF Execute
    <3>2. op' \in Opers /\ op'.n = 0 /\ (op'.pc # "session" => client.sock)
      BY <3>1, RestTyped DEF Opers, Pcs, Ofs
    <3> QED  BY <2>2, <3>2 DEF Execute
  <2>3. CASE ExecuteOnOutput
    <3>1. op' = [Idle EXCEPT !.of = "onoutput", !.pc = IF client.sock THEN "send" ELSE "session"]
      BY <2>3 DEF ExecuteOnOutput, Begin
    <3>2. op' \in Opers /\ op'.n = 0 /\ (op'.pc # "session" => client.sock)
      BY <3>1, RestTyped DEF Opers, Pcs, Ofs
    <3> QED  BY <2>3, <3>2 DEF ExecuteOnOutput
  <2>4. CASE Console
    <3>1. PICK of \in {"read", "mark", "wait_reboot", "wait_exec"} :
            /\ op' = [Idle EXCEPT !.of = of, !.pc = IF of \in {"read", "mark"} THEN of ELSE "wait"]
            /\ LET c == IF of = "wait_reboot" THEN Unframed(client, client.cursor) ELSE client
               IN IF client.sock THEN client' = Compact(c) /\ UNCHANGED <<wire, live>>
                  ELSE client' = [Dropped EXCEPT !.sock = TRUE] /\ Connects
      BY <2>4 DEF Console, Begin
    <3>2. op' \in Opers /\ op'.n = 0
      BY <3>1, RestTyped DEF Opers, Pcs, Ofs
    <3>3. client'.sock
      <4>1. client \in Clients
        BY DEF ConsoleBase, ConsoleTyped
      <4> QED  BY <3>1, <4>1, RestTyped DEF Compact, Unframed, Clients
    <3> QED  BY <3>2, <3>3
  <2> QED  BY <2>1, <2>2, <2>3, <2>4 DEF Operations
<1>5. \/ UNCHANGED <<wire, live>>
      \/ live' = FALSE /\ wire' = <<>>
      \/ Connects
  BY DEF Operations, Check, Execute, ExecuteOnOutput, Console
<1>6. /\ wire' \in Seq(Tokens) /\ live' \in BOOLEAN
      /\ \A i \in 1..Len(wire') : wire'[i].n <= count.sent
  <2>1. CASE UNCHANGED <<wire, live>>
    BY <2>1 DEF ConsoleBase, ConsoleTyped, Drawn
  <2>2. CASE live' = FALSE /\ wire' = <<>>
    <3>1. Len(wire') = 0 /\ wire' \in Seq(Tokens)
      BY <2>2, RestTyped
    <3>2. \A i \in 1..Len(wire') : FALSE
      BY <3>1
    <3>3. live' \in BOOLEAN
      BY <2>2
    <3> QED  BY <3>1, <3>2, <3>3
  <2>3. CASE Connects
    <3>1. dev.state \in {"login", "password", "shell"} /\ count.sent \in Nat
      BY DEF ConsoleBase, ConsoleTyped, DevStates, Counts
    <3>2. /\ Greeting(dev.state) \in Seq(Tokens)
          /\ \A j \in 1..Len(Greeting(dev.state)) : Greeting(dev.state)[j].n = 0
      BY <3>1, GreetingTyped
    <3>3. CASE wire' = <<>> /\ live' = TRUE
      BY <3>3, RestTyped
    <3>4. CASE wire' = Greeting(dev.state) /\ live' = TRUE
      BY <3>1, <3>2, <3>4
    <3> QED  BY <2>3, <3>3, <3>4 DEF Connects
  <2> QED  BY <1>5, <2>1, <2>2, <2>3
<1>7. client' \in Clients /\ client'.cursor <= Len(client'.buf)
  <2>1. client \in Clients /\ client.cursor <= Len(client.buf)
    BY DEF ConsoleBase, ConsoleTyped, Connected
  <2>2. CASE client' = client
    BY <2>1, <2>2
  <2>3. CASE client' \in {Dropped, [Dropped EXCEPT !.sock = TRUE]}
    <3>1. client' \in Clients /\ client'.buf = <<>> /\ client'.cursor = 0
      BY <2>3, RestTyped
    <3>2. Len(client'.buf) = 0
      BY <3>1
    <3> QED  BY <3>1, <3>2
  <2>4. ASSUME NEW c \in Clients, c.cursor <= Len(c.buf), client' = Compact(c)
        PROVE  client' \in Clients /\ client'.cursor <= Len(client'.buf)
    <3>1. /\ Unread(c) \in Seq(Tokens) /\ Len(Unread(c)) \in Nat
      <4>1. c.cursor \in 0..Len(c.buf) /\ c.buf \in Seq(Tokens)
        BY <2>4, LenProperties DEF Clients
      <4> QED  BY <4>1, Parted, LenProperties DEF Unread
    <3>2. client' = [c EXCEPT !.buf = Unread(c), !.cursor = 0,
                        !.floor = IF c.floor > c.cursor THEN c.floor - c.cursor ELSE 0]
      BY <2>4 DEF Compact
    <3>3. (IF c.floor > c.cursor THEN c.floor - c.cursor ELSE 0) \in Nat
      BY DEF Clients
    <3> HIDE DEF Unread
    <3>4. client' \in Clients /\ client'.buf = Unread(c) /\ client'.cursor = 0
      BY <3>1, <3>2, <3>3 DEF Clients
    <3> QED  BY <3>1, <3>4
  <2>5. /\ Unframed(client, client.cursor) \in Clients
        /\ Unframed(client, client.cursor).cursor = client.cursor
        /\ Unframed(client, client.cursor).buf = client.buf
    BY <2>1 DEF Unframed, Clients, Modes
  <2>6. \/ client' = client \/ client' \in {Dropped, [Dropped EXCEPT !.sock = TRUE]}
        \/ client' \in {Compact(client), Compact(Unframed(client, client.cursor))}
    BY DEF Operations, Check, Execute, ExecuteOnOutput, Console
  <2> QED  BY <2>1, <2>2, <2>3, <2>4, <2>5, <2>6
<1>8. ConsoleTyped'
  BY <1>1, <1>2, <1>3, <1>4, <1>6, <1>7, RestTyped DEF ConsoleBase, ConsoleTyped
<1>9. Connected'
  BY <1>1, <1>4, <1>7 DEF Connected
<1>10. Drawn'
  <2>1. 0 <= count.sent
    BY DEF ConsoleBase, ConsoleTyped, Counts
  <2> QED  BY <1>1, <1>3, <1>4, <1>6, <2>1 DEF ConsoleBase, Drawn
<1> QED  BY <1>8, <1>9, <1>10 DEF ConsoleBase

LEMMA SentEffect ==
  ASSUME ConsoleBase, NEW pc \in Pcs, NEW inputs \in Seq(Inputs), Sent(pc, inputs),
         \A j \in 1..Len(inputs) : inputs[j].n = Fresh
  PROVE  /\ dev' \in DevStates /\ dev'.state = dev.state /\ dev'.code = dev.code
         /\ dev'.leaked = dev.leaked /\ dev'.late = dev.late
         /\ dev'.input = IF live THEN dev.input \o inputs ELSE dev.input
         /\ count' \in Counts /\ count'.sent = count.sent + 1 /\ count.sent \in Nat
         /\ op' \in Opers /\ op'.pc = pc /\ op'.of = op.of /\ op'.n = count.sent + 1 /\ op'.got = <<>>
         /\ op'.own = op.own
         /\ \A i \in 1..Len(dev'.input) : dev'.input[i].n <= count'.sent
<1>1. Fresh \in Nat /\ Fresh = count.sent + 1 /\ count.sent \in Nat /\ dev.input \in Seq(Inputs)
  BY InputsTyped DEF ConsoleBase, ConsoleTyped, DevStates
<1>2. /\ dev' \in DevStates /\ dev'.state = dev.state /\ dev'.code = dev.code
      /\ dev'.leaked = dev.leaked /\ dev'.late = dev.late
      /\ dev'.input = IF live THEN dev.input \o inputs ELSE dev.input
  BY SendEffect DEF ConsoleBase, Sent
<1>3. count' \in Counts /\ count'.sent = Fresh
  BY <1>1 DEF Sent, Numbered, ConsoleBase, ConsoleTyped, Counts
<1>4. /\ op' \in Opers /\ op'.pc = pc /\ op'.of = op.of /\ op'.n = Fresh /\ op'.got = <<>>
      /\ op'.own = op.own
  BY <1>1, RestTyped DEF Sent, ConsoleBase, ConsoleTyped, Opers
<1>5. ASSUME NEW i \in 1..Len(dev'.input) PROVE dev'.input[i].n <= Fresh
  <2>1. \A j \in 1..Len(dev.input) : dev.input[j].n <= Fresh
    <3>1. ASSUME NEW j \in 1..Len(dev.input) PROVE dev.input[j].n \in Nat
      <4>1. dev.input[j] \in Inputs
        BY <1>1, ElementOfSeq
      <4> QED  BY <4>1 DEF Inputs
    <3> QED  BY <1>1, <3>1 DEF ConsoleBase, Drawn
  <2>2. CASE live
    <3>1. dev'.input = dev.input \o inputs
      BY <1>2, <2>2
    <3>2. \/ i \in 1..Len(dev.input) /\ dev'.input[i] = dev.input[i]
          \/ \E j \in 1..Len(inputs) : dev'.input[i] = inputs[j]
      <4>1. \A m \in 1..Len(dev'.input) : \/ m \in 1..Len(dev.input) /\ dev'.input[m] = dev.input[m]
                                         \/ \E j \in 1..Len(inputs) : dev'.input[m] = inputs[j]
        <5> DEFINE u == dev'.input
                   s == dev.input
        <5>1. u = s \o inputs /\ s \in Seq(Inputs)
          BY <1>1, <3>1
        <5> HIDE DEF u, s
        <5>2. \A m \in 1..Len(u) : (m \in 1..Len(s) /\ u[m] = s[m]) \/ \E j \in 1..Len(inputs) : u[m] = inputs[j]
          BY <5>1, JoinedElements
        <5> QED  BY <5>2 DEF u, s
      <4> QED  BY <4>1
    <3> QED  BY <1>1, <2>1, <3>1, <3>2
  <2>3. CASE ~live
    BY <1>2, <2>1, <2>3
  <2> QED  BY <2>2, <2>3
<1> QED  BY <1>1, <1>2, <1>3, <1>4, <1>5

LEMMA UnreadFacts ==
  ASSUME NEW c \in Clients, c.cursor <= Len(c.buf)
  PROVE  /\ Unread(c) \in Seq(Tokens) /\ Len(Unread(c)) = Len(c.buf) - c.cursor
         /\ Len(c.buf) \in Nat /\ c.cursor \in 0..Len(c.buf) /\ c.buf \in Seq(Tokens)
         /\ \A j \in 1..Len(Unread(c)) : j + c.cursor \in 1..Len(c.buf)
                                        /\ Unread(c)[j] = c.buf[j + c.cursor]
<1>1. c.cursor \in 0..Len(c.buf) /\ c.buf \in Seq(Tokens) /\ Len(c.buf) \in Nat
  BY LenProperties DEF Clients
<1>2. ASSUME NEW b \in Seq(Tokens), NEW n \in 0..Len(b), NEW u, u = SubSeq(b, n + 1, Len(b))
      PROVE  /\ u \in Seq(Tokens) /\ Len(u) = Len(b) - n
             /\ \A j \in 1..Len(u) : j + n \in 1..Len(b) /\ u[j] = b[j + n]
  BY <1>2, Parted
<1> QED  BY <1>1, <1>2 DEF Unread

\* A login prompt at the end of the unread text is answered past the text.
LEMMA RespondEffect ==
  ASSUME ConsoleTyped, Connected, NEW k, NEW in, LastIs(Unread(client), k), Respond(k, in)
  PROVE  /\ client' \in Clients /\ client'.sock = client.sock /\ client'.buf = client.buf
         /\ client'.cursor = Len(client.buf) /\ ~client'.prompt
         /\ Send(<<In(in, 0)>>) /\ Len(client.buf) \in 1..Len(client.buf)
         /\ client.buf[Len(client.buf)].k = k
<1> DEFINE b == client.buf
           P(j) == b[j].k = k /\ \A m \in (j + 1)..Len(b) : b[m].k # k
           i == CHOOSE j \in 1..Len(b) : P(j)
<1>1. /\ Unread(client) \in Seq(Tokens) /\ Len(Unread(client)) = Len(b) - client.cursor
      /\ Len(b) \in Nat /\ client.cursor \in 0..Len(b)
      /\ \A j \in 1..Len(Unread(client)) : j + client.cursor \in 1..Len(b)
                                          /\ Unread(client)[j] = b[j + client.cursor]
  BY UnreadFacts DEF ConsoleTyped, Connected
<1>2. Len(b) \in 1..Len(b) /\ b[Len(b)].k = k
  <2> DEFINE l == Len(Unread(client))
  <2>1. l \in 1..l /\ Unread(client)[l].k = k
    BY <1>1, EmptySeq, LenProperties DEF LastIs, Last
  <2>2. l + client.cursor = Len(b)
    BY <1>1
  <2> QED  BY <1>1, <2>1, <2>2
<1>3. P(Len(b)) /\ \A j \in 1..Len(b) : P(j) => j = Len(b)
  BY <1>1, <1>2
<1>4. i = Len(b)
  <2> HIDE DEF P
  <2> QED  BY <1>2, <1>3
<1>5. /\ client' = [Unframed(client, Len(b)) EXCEPT !.cursor = i] /\ Send(<<In(in, 0)>>)
  BY DEF Respond
<1> HIDE DEF i
<1>6. /\ client' \in Clients /\ client'.sock = client.sock /\ client'.buf = client.buf
      /\ client'.cursor = Len(b) /\ ~client'.prompt
  <2>1. client \in Clients /\ Len(b) \in Nat
    BY <1>1 DEF ConsoleTyped
  <2> QED  BY <1>4, <1>5, <2>1 DEF Unframed, Clients, Modes
<1> QED  BY <1>2, <1>5, <1>6

\* A wait ends with the first keyword of the unread text.
IsFirstKey(text, i) == i \in 1..Len(text) /\ text[i].k = "key" /\ \A j \in 1..(i - 1) : text[j].k # "key"

LEMMA FirstKeyExists ==
  ASSUME NEW text \in Seq(Tokens), Has(text, "key")
  PROVE  /\ \E i \in 1..Len(text) : IsFirstKey(text, i)
         /\ \A i, j \in 1..Len(text) : IsFirstKey(text, i) /\ IsFirstKey(text, j) => i = j
         /\ \A i \in 1..Len(text) :
               IsFirstKey(text, i) <=> text[i].k = "key" /\ ~Has(SubSeq(text, 1, i - 1), "key")
<1>0. Len(text) \in Nat
  BY LenProperties
<1> DEFINE T == {i \in 1..Len(text) : text[i].k = "key"}
<1>1. PICK i \in T : \A j \in T : i <= j
  <2>1. T \subseteq Nat /\ T # {}
    BY DEF Has
  <2> HIDE DEF T
  <2> QED  BY <2>1, LeastExists
<1>2. IsFirstKey(text, i)
  BY <1>0, <1>1 DEF IsFirstKey
<1>3. ASSUME NEW m \in 1..Len(text), NEW j \in 1..Len(text), IsFirstKey(text, m), IsFirstKey(text, j)
      PROVE  m = j
  <2>1. ~(m < j) /\ ~(j < m)
    BY <1>0, <1>3 DEF IsFirstKey
  <2> QED  BY <1>0, <2>1
<1>4. ASSUME NEW m \in 1..Len(text)
      PROVE  IsFirstKey(text, m) <=> text[m].k = "key" /\ ~Has(SubSeq(text, 1, m - 1), "key")
  <2>1. PICK l \in 0..Len(text) : l = m - 1
    BY <1>0
  <2>2. /\ Len(SubSeq(text, 1, l)) = l
        /\ \A j \in 1..l : SubSeq(text, 1, l)[j] = text[j]
    BY Parted
  <2>3. Has(SubSeq(text, 1, l), "key") <=> \E j \in 1..l : text[j].k = "key"
    BY <2>2 DEF Has
  <2> QED  BY <2>1, <2>3 DEF IsFirstKey
<1> QED  BY <1>1, <1>2, <1>3, <1>4

LEMMA WaitEffect ==
  ASSUME ConsoleTyped, Connected, WaitEnds
  PROVE  /\ UNCHANGED <<config, wire, live, remote, result, count>> /\ op' = Idle
         /\ dev' = dev \/ Send(<<In("line", 0)>>)
         /\ \E i \in 1..Len(Unread(client)) :
               /\ IsFirstKey(Unread(client), i) /\ answer' = SubSeq(Unread(client), 1, i)
               /\ client' \in Clients /\ client'.sock = client.sock /\ client'.buf = client.buf
               /\ client'.cursor = client.cursor + i
<1> DEFINE text == Unread(client)
           P(j) == text[j].k = "key" /\ ~Has(SubSeq(text, 1, j - 1), "key")
           i == CHOOSE j \in 1..Len(text) : P(j)
           c == [client EXCEPT !.cursor = @ + i]
<1>1. /\ text \in Seq(Tokens) /\ Has(text, "key") /\ Len(client.buf) \in Nat
      /\ client \in Clients /\ client.cursor \in Nat
  BY UnreadFacts DEF ConsoleTyped, Connected, WaitEnds, Clients
<1>2. i \in 1..Len(text) /\ IsFirstKey(text, i)
  <2>1. \E j \in 1..Len(text) : P(j)
    <3> HIDE DEF text
    <3> QED  BY <1>1, FirstKeyExists
  <2>2. i \in 1..Len(text) /\ P(i)
    <3> HIDE DEF P, text
    <3> QED  BY <2>1
  <2> HIDE DEF text, i
  <2> QED  BY <1>1, <2>2, FirstKeyExists
<1>3. /\ answer' = SubSeq(text, 1, i)
      /\ \/ Send(<<In("line", 0)>>) /\ client' = Unframed(c, Len(c.buf))
         \/ client' = c /\ UNCHANGED dev
      /\ op' = Idle /\ UNCHANGED <<config, wire, live, remote, result, count>>
  BY DEF WaitEnds
<1> HIDE DEF i, text
<1>4. c \in Clients /\ c.sock = client.sock /\ c.buf = client.buf /\ c.cursor = client.cursor + i
  BY <1>1, <1>2 DEF Clients
<1>5. /\ Unframed(c, Len(c.buf)) \in Clients /\ Unframed(c, Len(c.buf)).sock = client.sock
      /\ Unframed(c, Len(c.buf)).buf = client.buf
      /\ Unframed(c, Len(c.buf)).cursor = client.cursor + i
  <2>1. Len(c.buf) \in Nat
    BY <1>1, <1>4
  <2> HIDE DEF c
  <2> QED  BY <1>4, <2>1 DEF Unframed, Clients, Modes
<1> QED  BY <1>2, <1>3, <1>4, <1>5 DEF text

LEMMA BaseSettles ==
  ASSUME ConsoleBase, LoggedIn \/ PrepareSession \/ Hello \/ Capability
  PROVE  ConsoleBase'
<1>1. Settles
  BY SettlesEffect DEF ConsoleBase
<1>2. /\ UNCHANGED <<config, wire, live, answer>> /\ client' \in Clients
      /\ client'.cursor <= Len(client'.buf) /\ client'.sock
  BY <1>1 DEF Settles, TextKept, ConsoleBase, Connected
<1>3. ASSUME NEW pc \in {"run", "capability"}, NEW inputs \in {Printf, PlainCommand, CommandWithPrintf},
             Sent(pc, inputs)
      PROVE  ConsoleBase'
  <2>1. /\ inputs \in Seq(Inputs) /\ \A j \in 1..Len(inputs) : inputs[j].n = Fresh
    BY <1>3, InputsTyped DEF ConsoleBase, In
  <2>2. /\ dev' \in DevStates /\ count' \in Counts /\ count'.sent = count.sent + 1 /\ count.sent \in Nat
        /\ op' \in Opers /\ op'.pc = pc /\ op'.n = count.sent + 1
        /\ \A i \in 1..Len(dev'.input) : dev'.input[i].n <= count'.sent
    BY <1>3, <2>1, SentEffect DEF Pcs
  <2>3. ASSUME NEW i \in 1..Len(wire) PROVE wire[i].n <= count'.sent
    <3>1. wire[i] \in Tokens /\ wire[i].n <= count.sent
      BY ElementOfSeq DEF ConsoleBase, ConsoleTyped, Drawn
    <3>2. wire[i].n \in Nat
      BY <3>1 DEF Tokens
    <3> QED  BY <2>2, <3>1, <3>2
  <2>4. ConsoleTyped'
    BY <1>2, <2>2 DEF ConsoleBase, ConsoleTyped
  <2> QED  BY <1>2, <1>3, <2>2, <2>3, <2>4 DEF ConsoleBase, Connected, Drawn
<1>4. CASE /\ UNCHANGED <<dev, count>>
           /\ op' \in {Idle, [op EXCEPT !.pc = "quiet"], [op EXCEPT !.pc = "prompt"]}
  <2>1. op \in Opers /\ count.sent \in Nat
    BY DEF ConsoleBase, ConsoleTyped, Counts
  <2>2. op' \in Opers /\ op'.n \in {0, op.n} /\ op'.pc # "session"
    BY <1>4, <2>1, RestTyped DEF Opers, Pcs
  <2>3. ConsoleTyped'
    BY <1>2, <1>4, <2>2 DEF ConsoleBase, ConsoleTyped
  <2> QED  BY <1>2, <1>4, <2>1, <2>2, <2>3 DEF ConsoleBase, Connected, Drawn
<1> QED  BY <1>1, <1>3, <1>4 DEF Settles, CommandSent

LEMMA BaseQuits == ASSUME ConsoleBase, Quits, answer' \in Seq(Tokens) PROVE ConsoleBase'
<1>1. /\ client' \in Clients /\ client'.cursor <= Len(client'.buf)
      /\ wire' \in Seq(Tokens) /\ live' \in BOOLEAN
      /\ \A i \in 1..Len(wire') : wire'[i].n <= count.sent
  <2>1. CASE UNCHANGED <<client, wire, live>>
    BY <2>1 DEF ConsoleBase, ConsoleTyped, Connected, Drawn
  <2>2. CASE Drop
    <3>1. client' = Dropped /\ live' = FALSE /\ wire' = <<>> /\ Len(<<>>) = 0
      BY <2>2 DEF Drop
    <3>2. client' \in Clients /\ client'.cursor = 0 /\ Len(client'.buf) = 0
      BY <3>1, RestTyped
    <3>3. \A i \in 1..Len(wire') : FALSE
      BY <3>1
    <3>4. wire' \in Seq(Tokens) /\ live' \in BOOLEAN
      <4>1. wire' \in Seq(Tokens)
        BY <3>1, RestTyped
      <4> QED  BY <3>1, <4>1
    <3>5. client'.cursor <= Len(client'.buf)
      BY <3>2
    <3> QED  BY <3>2, <3>3, <3>4, <3>5
  <2> QED  BY <2>1, <2>2 DEF Quits
<1>2. op' \in Opers /\ op'.n = 0 /\ op'.pc = "idle" /\ UNCHANGED <<config, dev, count>> /\ count.sent \in Nat
  BY RestTyped DEF Quits, ConsoleBase, ConsoleTyped, Counts
<1>3. ConsoleTyped'
  BY <1>1, <1>2 DEF ConsoleBase, ConsoleTyped
<1> QED  BY <1>1, <1>2, <1>3 DEF ConsoleBase, Connected, Drawn

\* A step that leaves the wire, or takes a packet from it, and sends at most a line
\* without a number.
LEMMA BaseReads ==
  ASSUME ConsoleBase, UNCHANGED <<config, live, count>>,
         \/ wire' = wire
         \/ \E p \in Packets : Gone(p)
         \/ Connects,
         \/ dev' = dev
         \/ /\ dev' \in DevStates
            /\ \A i \in 1..Len(dev'.input) : \/ \E j \in 1..Len(dev.input) : dev'.input[i] = dev.input[j]
                                            \/ dev'.input[i].n = 0,
         client' \in Clients, client'.cursor <= Len(client'.buf), answer' \in Seq(Tokens),
         op' \in Opers, op'.n \in {0, op.n}, op'.pc \notin {"idle", "session"} => client'.sock,
         op'.pc # "session"
  PROVE  ConsoleBase'
<1>1. /\ wire \in Seq(Tokens) /\ count.sent \in Nat /\ op.n <= count.sent
      /\ dev.state \in {"login", "password", "shell"} /\ dev \in DevStates
  BY DEF ConsoleBase, ConsoleTyped, Counts, Drawn, DevStates
<1>2. wire' \in Seq(Tokens) /\ \A i \in 1..Len(wire') : wire'[i].n <= count.sent
  <2>1. CASE wire' = wire
    BY <1>1, <2>1 DEF ConsoleBase, Drawn
  <2>2. ASSUME NEW p \in Packets, Gone(p)
        PROVE  wire' \in Seq(Tokens) /\ \A i \in 1..Len(wire') : wire'[i].n <= count.sent
    <3>1. PICK m \in 1..Len(wire) :
            /\ wire' \in Seq(Tokens)
            /\ \A j \in 1..Len(wire') : j + m \in 1..Len(wire) /\ wire'[j] = wire[j + m]
      BY <2>2, PacketEffect DEF ConsoleBase
    <3> QED  BY <3>1 DEF ConsoleBase, Drawn
  <2>3. CASE Connects
    <3>1. CASE wire' = <<>>
      <4>1. Len(wire') = 0 /\ \A i \in 1..Len(wire') : FALSE
        BY <3>1
      <4> QED  BY <3>1, <4>1, RestTyped
    <3>2. CASE wire' = Greeting(dev.state)
      BY <1>1, <3>2, GreetingTyped
    <3> QED  BY <2>3, <3>1, <3>2 DEF Connects
  <2> QED  BY <2>1, <2>2, <2>3
<1>3. dev' \in DevStates /\ \A i \in 1..Len(dev'.input) : dev'.input[i].n <= count.sent
  <2>1. \A i \in 1..Len(dev.input) : dev.input[i].n <= count.sent
    BY DEF ConsoleBase, Drawn
  <2>2. CASE dev' = dev
    BY <1>1, <2>1, <2>2
  <2>3. CASE dev' # dev
    <3> SUFFICES ASSUME NEW i \in 1..Len(dev'.input) PROVE dev'.input[i].n <= count.sent
      BY <2>3
    <3>1. CASE \E j \in 1..Len(dev.input) : dev'.input[i] = dev.input[j]
      BY <2>1, <3>1
    <3>2. CASE dev'.input[i].n = 0
      BY <1>1, <3>2
    <3> QED  BY <2>3, <3>1, <3>2
  <2> QED  BY <2>2, <2>3
<1>4. ConsoleTyped'
  BY <1>2, <1>3 DEF ConsoleBase, ConsoleTyped
<1> QED  BY <1>1, <1>2, <1>3, <1>4 DEF ConsoleBase, Connected, Drawn

LEMMA SendUnnumbered ==
  ASSUME ConsoleTyped, NEW k \in {"line", "user", "secret"}, Send(<<In(k, 0)>>)
  PROVE  /\ dev' \in DevStates /\ dev'.state = dev.state /\ dev'.code = dev.code
         /\ dev'.leaked = dev.leaked /\ dev'.late = dev.late
         /\ ~live => dev'.input = dev.input
         /\ live => dev'.input = dev.input \o <<In(k, 0)>>
         /\ \A i \in 1..Len(dev'.input) :
               \/ i \in 1..Len(dev.input) /\ dev'.input[i] = dev.input[i]
               \/ dev'.input[i] = In(k, 0)
<1> DEFINE u == <<In(k, 0)>>
           v == dev'.input
           s == dev.input
<1>1. u \in Seq(Inputs) /\ \A j \in 1..Len(u) : u[j] = In(k, 0)
  BY DEF In, Inputs
<1>2. /\ dev' \in DevStates /\ dev'.state = dev.state /\ dev'.code = dev.code
      /\ dev'.leaked = dev.leaked /\ dev'.late = dev.late
      /\ v = IF live THEN s \o u ELSE s
  <2> HIDE DEF u
  <2> QED  BY <1>1, SendEffect DEF u
<1>3. s \in Seq(Inputs)
  BY DEF ConsoleTyped, DevStates
<1> HIDE DEF u, v, s
<1>4. \A i \in 1..Len(v) : (i \in 1..Len(s) /\ v[i] = s[i]) \/ v[i] = In(k, 0)
  <2>1. CASE live
    <3>1. \A i \in 1..Len(v) : (i \in 1..Len(s) /\ v[i] = s[i]) \/ \E j \in 1..Len(u) : v[i] = u[j]
      BY <1>1, <1>2, <1>3, <2>1, JoinedElements
    <3> QED  BY <1>1, <3>1
  <2>2. CASE ~live
    BY <1>2, <2>2
  <2> QED  BY <2>1, <2>2
<1> QED  BY <1>2, <1>4 DEF u, v, s

LEMMA SendsAtMostLine ==
  ASSUME ConsoleTyped, NEW k \in {"line", "user", "secret"}, Send(<<In(k, 0)>>)
  PROVE  /\ dev' \in DevStates
         /\ \A i \in 1..Len(dev'.input) : \/ \E j \in 1..Len(dev.input) : dev'.input[i] = dev.input[j]
                                         \/ dev'.input[i].n = 0
<1>1. In(k, 0).n = 0
  BY DEF In
<1>2. /\ dev' \in DevStates
      /\ \A i \in 1..Len(dev'.input) : \/ i \in 1..Len(dev.input) /\ dev'.input[i] = dev.input[i]
                                      \/ dev'.input[i] = In(k, 0)
  BY SendUnnumbered
<1> QED  BY <1>1, <1>2

LEMMA BaseStream ==
  ASSUME ConsoleBase,
         \/ PassiveReceive \/ StreamOverflows \/ AnswerLogin \/ AnswerPassword \/ Receive
         \/ ReadEnds \/ MarkEnds \/ WaitEnds \/ WaitFails
  PROVE  ConsoleBase'
<1>1. /\ client \in Clients /\ client.cursor <= Len(client.buf) /\ op \in Opers
      /\ Unread(client) \in Seq(Tokens) /\ Len(client.buf) \in Nat
      /\ ConsoleTyped /\ Connected /\ answer \in Seq(Tokens)
  BY UnreadFacts DEF ConsoleBase, ConsoleTyped, Connected
<1>2. op.pc \notin {"idle", "session"} => client.sock
  BY <1>1 DEF Connected
<1>3. ASSUME NEW p \in Packets, Gone(p), client' = Fed(client, p)
      PROVE  /\ client' \in Clients /\ client'.sock = client.sock
             /\ client'.cursor <= Len(client'.buf)
  BY <1>1, <1>3, PacketEffect, FedEffect
<1>4. CASE PassiveReceive
  <2>1. PICK p \in Packets : Gone(p) /\ client' = Fed(client, p)
    BY <1>4 DEF PassiveReceive
  <2>2. UNCHANGED <<config, dev, live, op, answer, count>> /\ op.pc # "session"
    BY <1>4 DEF PassiveReceive, Passive
  <2> QED  BY <1>1, <1>2, <1>3, <2>1, <2>2, BaseReads
<1>5. CASE StreamOverflows
  <2>1. PICK p \in Packets : Gone(p) /\ client' = Fed(client, p)
    BY <1>5 DEF StreamOverflows
  <2>2. UNCHANGED <<config, dev, live, answer, count>> /\ op' = Idle
    BY <1>5, NoCommandEffect DEF StreamOverflows
  <2> QED  BY <1>1, <1>3, <2>1, <2>2, RestTyped, BaseReads
<1>6. CASE AnswerLogin
  <2>1. /\ client' \in Clients /\ client'.sock = client.sock /\ client'.buf = client.buf
        /\ client'.cursor = Len(client.buf) /\ Send(<<In("user", 0)>>)
    BY <1>1, <1>6, RespondEffect DEF AnswerLogin
  <2>2. UNCHANGED <<config, wire, live, answer, count>> /\ client.sock
    BY <1>2, <1>6 DEF AnswerLogin
  <2>3. op' \in Opers /\ op'.n = op.n /\ op'.pc = "password"
    BY <1>1, <1>6 DEF AnswerLogin, Opers, Pcs
  <2>4. /\ dev' \in DevStates
        /\ \A i \in 1..Len(dev'.input) : \/ \E j \in 1..Len(dev.input) : dev'.input[i] = dev.input[j]
                                        \/ dev'.input[i].n = 0
    BY <1>1, <2>1, SendsAtMostLine
  <2> QED  BY <1>1, <2>1, <2>2, <2>3, <2>4, BaseReads
<1>7. CASE AnswerPassword
  <2>1. /\ client' \in Clients /\ client'.sock = client.sock /\ client'.buf = client.buf
        /\ client'.cursor = Len(client.buf) /\ Send(<<In("secret", 0)>>)
    BY <1>1, <1>7, RespondEffect DEF AnswerPassword
  <2>2. UNCHANGED <<config, wire, live, answer, count>> /\ client.sock
    BY <1>2, <1>7 DEF AnswerPassword
  <2>3. op' \in Opers /\ op'.n = op.n /\ op'.pc = "authenticated"
    BY <1>1, <1>7 DEF AnswerPassword, Opers, Pcs
  <2>4. /\ dev' \in DevStates
        /\ \A i \in 1..Len(dev'.input) : \/ \E j \in 1..Len(dev.input) : dev'.input[i] = dev.input[j]
                                        \/ dev'.input[i].n = 0
    BY <1>1, <2>1, SendsAtMostLine
  <2> QED  BY <1>1, <2>1, <2>2, <2>3, <2>4, BaseReads
<1>8. CASE Receive
  <2>1. PICK p \in Packets : Gone(p) /\ op' = [op EXCEPT !.got = @ \o p]
    BY <1>8 DEF Receive
  <2>2. UNCHANGED <<config, dev, live, client, answer, count>> /\ op.pc \in {"hello", "capability", "run"}
    BY <1>8 DEF Receive
  <2>3. p \in Seq(Tokens) /\ op.got \in Seq(Tokens)
    BY <1>1, <2>1, PacketEffect DEF Opers
  <2>4. op.got \o p \in Seq(Tokens)
    BY <2>3, ConcatProperties
  <2>5. op' \in Opers /\ op'.n = op.n /\ op'.pc = op.pc
    BY <1>1, <2>1, <2>4 DEF Opers
  <2> QED  BY <1>1, <1>2, <2>1, <2>2, <2>5, BaseReads
<1>9. CASE ReadEnds \/ MarkEnds
  <2>1. UNCHANGED <<config, dev, wire, live, count>> /\ answer' \in Seq(Tokens) /\ op' = Idle
    BY <1>1, <1>9 DEF ReadEnds, MarkEnds
  <2>2. client' = [client EXCEPT !.cursor = Len(client.buf)]
    BY <1>9 DEF ReadEnds, MarkEnds
  <2>3. client' \in Clients /\ client'.cursor <= Len(client'.buf)
    BY <1>1, <2>2 DEF Clients
  <2> QED  BY <2>1, <2>3, RestTyped, BaseReads
<1>10. CASE WaitEnds
  <2>1. /\ UNCHANGED <<config, wire, live, count>> /\ op' = Idle
        /\ dev' = dev \/ Send(<<In("line", 0)>>)
    BY <1>1, <1>10, WaitEffect
  <2>2. PICK i \in 1..Len(Unread(client)) :
          /\ answer' = SubSeq(Unread(client), 1, i)
          /\ client' \in Clients /\ client'.buf = client.buf
          /\ client'.cursor = client.cursor + i
    BY <1>1, <1>10, WaitEffect
  <2>3. answer' \in Seq(Tokens) /\ client'.cursor <= Len(client'.buf)
    <3>1. i \in 0..Len(Unread(client))
      OBVIOUS
    <3>2. answer' \in Seq(Tokens)
      BY <1>1, <2>2, <3>1, Parted
    <3>3. Len(Unread(client)) = Len(client.buf) - client.cursor /\ client.cursor \in Nat
      BY <1>1, UnreadFacts
    <3> QED  BY <1>1, <2>2, <3>2, <3>3
  <2>4. \/ dev' = dev
        \/ /\ dev' \in DevStates
           /\ \A j \in 1..Len(dev'.input) : \/ \E m \in 1..Len(dev.input) : dev'.input[j] = dev.input[m]
                                           \/ dev'.input[j].n = 0
    BY <1>1, <2>1, SendsAtMostLine
  <2> QED  BY <2>1, <2>2, <2>3, <2>4, RestTyped, BaseReads
<1>11. CASE WaitFails
  <2>1. UNCHANGED <<config, dev, wire, live, client, count>> /\ answer' \in Seq(Tokens) /\ op' = Idle
    BY <1>1, <1>11 DEF WaitFails
  <2> QED  BY <1>1, <2>1, RestTyped, BaseReads
<1> QED  BY <1>4, <1>5, <1>6, <1>7, <1>8, <1>9, <1>10, <1>11

LEMMA BaseSends ==
  ASSUME ConsoleBase, OpenSession \/ SendBusiness \/ SendProbe \/ AnswerOutput
  PROVE  ConsoleBase'
<1>1. /\ client \in Clients /\ client.cursor <= Len(client.buf) /\ op \in Opers /\ dev \in DevStates
      /\ ConsoleTyped /\ Connected /\ answer \in Seq(Tokens) /\ dev.input \in Seq(Inputs)
  BY DEF ConsoleBase, ConsoleTyped, Connected, DevStates
<1>2. op.pc \notin {"idle", "session"} => client.sock
  BY <1>1 DEF Connected
<1>3. CASE OpenSession
  <2>1. /\ UNCHANGED <<config, answer, count>> /\ Connects
        /\ client' = [Dropped EXCEPT !.sock = TRUE]
        /\ op' = [op EXCEPT !.pc = "hello", !.own = TRUE]
        /\ dev' = [dev EXCEPT !.input = IF config.gateway THEN Append(@, In("line", 0)) ELSE <<In("line", 0)>>]
    BY <1>3 DEF OpenSession
  <2>2. In("line", 0) \in Inputs /\ In("line", 0).n = 0
    BY DEF In, Inputs
  <2>3. PICK v : /\ v = (IF config.gateway THEN Append(dev.input, In("line", 0)) ELSE <<In("line", 0)>>)
                 /\ v \in Seq(Inputs)
                 /\ \A i \in 1..Len(v) : (\E j \in 1..Len(dev.input) : v[i] = dev.input[j]) \/ v[i].n = 0
    <3>1. CASE config.gateway
      <4>1. /\ Append(dev.input, In("line", 0)) \in Seq(Inputs)
            /\ Len(Append(dev.input, In("line", 0))) = Len(dev.input) + 1 /\ Len(dev.input) \in Nat
            /\ \A i \in 1..Len(dev.input) : Append(dev.input, In("line", 0))[i] = dev.input[i]
            /\ Append(dev.input, In("line", 0))[Len(dev.input) + 1] = In("line", 0)
        BY <1>1, <2>2, AppendProperties, LenProperties
      <4>2. \A m \in Nat : \A i \in 1..(m + 1) : i \in 1..m \/ i = m + 1
        OBVIOUS
      <4>3. \A i \in 1..Len(Append(dev.input, In("line", 0))) :
               \/ \E j \in 1..Len(dev.input) : Append(dev.input, In("line", 0))[i] = dev.input[j]
               \/ Append(dev.input, In("line", 0))[i].n = 0
        BY <2>2, <4>1, <4>2
      <4> QED  BY <3>1, <4>1, <4>3
    <3>2. CASE ~config.gateway
      <4>1. <<In("line", 0)>> \in Seq(Inputs) /\ \A i \in 1..Len(<<In("line", 0)>>) : <<In("line", 0)>>[i] = In("line", 0)
        BY <2>2
      <4> QED  BY <2>2, <3>2, <4>1
    <3> QED  BY <3>1, <3>2
  <2>4. dev' \in DevStates /\ dev'.input = v
    BY <1>1, <2>1, <2>3 DEF DevStates
  <2>5. op' \in Opers /\ op'.n = op.n /\ op'.pc = "hello"
    BY <1>1, <2>1 DEF Opers, Pcs
  <2>6. client' \in Clients /\ client'.sock /\ client'.buf = <<>> /\ client'.cursor = 0
    BY <2>1, RestTyped
  <2>7. client'.cursor <= Len(client'.buf)
    BY <2>6
  <2>8. live' = TRUE
    BY <2>1 DEF Connects
  <2>9. ConsoleBase'
    <3>1. wire' \in Seq(Tokens) /\ \A i \in 1..Len(wire') : wire'[i].n = 0
      <4>1. CASE wire' = <<>>
        <5>1. \A i \in 1..Len(wire') : FALSE
          BY <4>1
        <5> QED  BY <4>1, <5>1, RestTyped
      <4>2. CASE wire' = Greeting(dev.state)
        BY <1>1, <4>2, GreetingTyped DEF DevStates
      <4> QED  BY <2>1, <4>1, <4>2 DEF Connects
    <3>2. count.sent \in Nat /\ 0 <= count.sent
      BY DEF ConsoleBase, ConsoleTyped, Counts
    <3>3. \A i \in 1..Len(v) : v[i].n <= count.sent
      BY <2>3, <3>2 DEF ConsoleBase, Drawn
    <3>4. ConsoleTyped'
      BY <2>1, <2>4, <2>5, <2>6, <2>8, <3>1 DEF ConsoleBase, ConsoleTyped
    <3>5. Connected'
      BY <2>5, <2>6, <2>7 DEF Connected
    <3>6. Drawn'
      BY <2>1, <2>4, <2>5, <3>1, <3>2, <3>3 DEF ConsoleBase, Drawn
    <3> QED  BY <3>4, <3>5, <3>6 DEF ConsoleBase
  <2> QED  BY <2>9
<1>4. ASSUME NEW pc \in {"run", "probe"}, NEW inputs \in {PlainCommand, CommandWithPrintf},
             Send(inputs), Numbered, UNCHANGED <<config, wire, live, client, answer>>,
             op' \in Opers, op'.pc = pc, op'.n = Fresh, client.sock
      PROVE  ConsoleBase'
  <2>1. /\ inputs \in Seq(Inputs) /\ \A j \in 1..Len(inputs) : inputs[j].n = Fresh
        /\ Fresh = count.sent + 1 /\ count.sent \in Nat
    BY <1>1, <1>4, InputsTyped DEF In
  <2>2. dev' \in DevStates /\ dev'.input = IF live THEN dev.input \o inputs ELSE dev.input
    BY <1>1, <1>4, <2>1, SendEffect
  <2>3. count' \in Counts /\ count'.sent = count.sent + 1
    BY <1>4, <2>1 DEF Numbered, ConsoleBase, ConsoleTyped, Counts
  <2>4. ASSUME NEW i \in 1..Len(dev.input) PROVE dev.input[i].n <= count'.sent
    <3>1. dev.input[i] \in Inputs /\ dev.input[i].n <= count.sent
      BY <1>1, ElementOfSeq DEF ConsoleBase, Drawn
    <3>2. dev.input[i].n \in Nat
      BY <3>1 DEF Inputs
    <3> QED  BY <2>1, <2>3, <3>1, <3>2
  <2>5. \A i \in 1..Len(dev'.input) : dev'.input[i].n <= count'.sent
    <3> DEFINE u == dev'.input
               s == dev.input
    <3>1. CASE live
      <4>1. u = s \o inputs /\ s \in Seq(Inputs)
        BY <1>1, <2>2, <3>1
      <4> HIDE DEF u, s
      <4>2. \A m \in 1..Len(u) : (m \in 1..Len(s) /\ u[m] = s[m]) \/ \E j \in 1..Len(inputs) : u[m] = inputs[j]
        BY <2>1, <4>1, JoinedElements
      <4>3. \A j \in 1..Len(inputs) : inputs[j].n <= count'.sent
        <5>1. count'.sent = Fresh /\ count'.sent <= count'.sent
          BY <2>1, <2>3 DEF Fresh
        <5> QED  BY <2>1, <5>1
      <4> QED  BY <2>4, <4>2, <4>3 DEF u, s
    <3>2. CASE ~live
      BY <2>2, <2>4, <3>2
    <3> QED  BY <3>1, <3>2
  <2>6. ASSUME NEW i \in 1..Len(wire) PROVE wire[i].n <= count'.sent
    <3>1. wire[i] \in Tokens /\ wire[i].n <= count.sent
      BY ElementOfSeq DEF ConsoleBase, ConsoleTyped, Drawn
    <3>2. wire[i].n \in Nat
      BY <3>1 DEF Tokens
    <3> QED  BY <2>1, <2>3, <3>1, <3>2
  <2>7. ConsoleTyped'
    BY <1>4, <2>2, <2>3 DEF ConsoleBase, ConsoleTyped
  <2>8. Connected' /\ Drawn'
    BY <1>1, <1>4, <2>1, <2>3, <2>5, <2>6 DEF Connected, Drawn
  <2> QED  BY <2>7, <2>8 DEF ConsoleBase
<1>5. CASE SendBusiness
  <2>1. /\ UNCHANGED <<config, wire, live, client, answer>> /\ client.sock /\ Numbered
        /\ op' = [op EXCEPT !.pc = "run", !.n = Fresh, !.got = <<>>]
        /\ Send(PlainCommand) \/ Send(CommandWithPrintf)
    BY <1>2, <1>5 DEF SendBusiness, SendCommand, PlainCommand, CommandWithPrintf
  <2>2. op' \in Opers /\ op'.pc = "run" /\ op'.n = Fresh
    BY <1>1, <2>1, InputsTyped, RestTyped DEF Opers, Pcs
  <2> QED  BY <1>4, <2>1, <2>2
<1>6. CASE SendProbe
  <2>1. /\ UNCHANGED <<config, wire, live, client, answer>> /\ client.sock /\ Numbered
        /\ op' = [op EXCEPT !.pc = "probe", !.n = Fresh, !.base = Len(client.buf)]
        /\ Send(PlainCommand)
    BY <1>2, <1>6 DEF SendProbe, PlainCommand
  <2>2. Len(client.buf) \in Nat
    BY <1>1, LenProperties DEF Clients
  <2>3. op' \in Opers /\ op'.pc = "probe" /\ op'.n = Fresh
    BY <1>1, <2>1, <2>2, InputsTyped DEF Opers, Pcs
  <2> QED  BY <1>4, <2>1, <2>3
<1>7. CASE AnswerOutput
  <2>1. /\ UNCHANGED <<config, answer, count>> /\ op' = Idle /\ Send(<<In("line", 0)>>)
        /\ client' = Dropped /\ live' = FALSE /\ wire' = <<>>
    BY <1>7, FinishEffect DEF AnswerOutput, Drop
  <2>2. /\ dev' \in DevStates
        /\ \A i \in 1..Len(dev'.input) : \/ \E j \in 1..Len(dev.input) : dev'.input[i] = dev.input[j]
                                        \/ dev'.input[i].n = 0
    BY <1>1, <2>1, SendsAtMostLine
  <2>3. count.sent \in Nat /\ 0 <= count.sent
    BY DEF ConsoleBase, ConsoleTyped, Counts
  <2>4. \A i \in 1..Len(dev'.input) : dev'.input[i].n <= count.sent
    BY <2>2, <2>3 DEF ConsoleBase, Drawn
  <2>5. \A i \in 1..Len(wire') : FALSE
    BY <2>1
  <2>6. client' \in Clients /\ client'.buf = <<>> /\ client'.cursor = 0 /\ client'.cursor <= Len(<<>>)
    BY <2>1, RestTyped
  <2>7. wire' \in Seq(Tokens) /\ op' \in Opers /\ op'.n = 0 /\ op'.pc = "idle"
    BY <2>1, RestTyped
  <2>8. live' \in BOOLEAN
    BY <2>1
  <2>9. ConsoleTyped'
    BY <2>1, <2>2, <2>6, <2>7, <2>8 DEF ConsoleBase, ConsoleTyped
  <2>10. Connected'
    BY <2>6, <2>7 DEF Connected
  <2>11. Drawn'
    BY <2>1, <2>3, <2>4, <2>5, <2>7 DEF Drawn
  <2> QED  BY <2>9, <2>10, <2>11 DEF ConsoleBase
<1> QED  BY <1>3, <1>5, <1>6, <1>7

LEMMA BaseNext == ConsoleBase /\ Next => ConsoleBase'
<1> SUFFICES ASSUME ConsoleBase, Next PROVE ConsoleBase'
  OBVIOUS
<1>1. CASE Device
  BY <1>1, BaseDeviceReads, BaseReboots, BaseBreaks DEF Device
<1>2. CASE Operations
  BY <1>2, BaseOperations
<1>3. CASE LoggedIn \/ PrepareSession \/ Hello \/ Capability
  BY <1>3, BaseSettles
<1>4. CASE \/ LoginFails \/ SessionFails \/ ConnectFails \/ TimedOut \/ SendFails \/ StreamEnds \/ ProbeEnds
           \/ Completed \/ ConnectionClosed
  <2>1. Quits /\ answer' = answer
    BY <1>4, QuitsEffect
  <2> QED  BY <2>1, BaseQuits DEF ConsoleBase, ConsoleTyped
<1>5. CASE \/ PassiveReceive \/ StreamOverflows \/ AnswerLogin \/ AnswerPassword \/ Receive
           \/ ReadEnds \/ MarkEnds \/ WaitEnds \/ WaitFails
  BY <1>5, BaseStream
<1>6. CASE OpenSession \/ SendBusiness \/ SendProbe \/ AnswerOutput
  BY <1>6, BaseSends
<1> QED  BY <1>1, <1>2, <1>3, <1>4, <1>5, <1>6 DEF Next, Command, Stream
-----------------------------------------------------------------------------
(* A console's codes: what a result says of a command.                      *)

\* What an operation waits for when it runs a command, and where it came from.
Own(t) == t.k = "marker" /\ t.n = op.n
Told(t) == \E i \in 1..Len(dev.code) : dev.code[i][1] = t.n /\ ((dev.code[i][2] = 0) <=> (t.rc = 0))
Exact(t) == \E i \in 1..Len(dev.code) : dev.code[i][1] = t.n /\ dev.code[i][2] = t.rc

\* While a command runs, every marker of its own tells its code, but for a digit that
\* was cut at the end of a broken connection; and its printf comes after it.
RunFits == op.pc = "run" =>
    /\ \A i \in 1..Len(op.got) : Own(op.got[i]) =>
          Told(op.got[i]) /\ (Exact(op.got[i]) \/ (i = Len(op.got) /\ ~live /\ wire = <<>>))
    /\ \A i \in 1..Len(wire) : Own(wire[i]) => Told(wire[i]) /\ (Exact(wire[i]) \/ (i = Len(wire) /\ ~live))
    /\ \A i \in 1..Len(dev.input) : dev.input[i].k = "printf" /\ dev.input[i].n = op.n =>
          \/ i > 1 /\ dev.input[i - 1] = In("command", op.n)
          \/ i = 1 /\ (dev.state = "shell" => dev.code # <<>> /\ Last(dev.code)[1] = op.n)

\* The device forgets no command that it ran.
CodesKept == \A i \in 1..Len(dev.code) : i \in 1..Len(dev'.code) /\ dev'.code[i] = dev.code[i]

LEMMA SendCommandEffect == ASSUME NEW c, SendCommand(c) PROVE CommandSent(c.mode)
BY DEF SendCommand, CommandSent, Sent, PlainCommand, CommandWithPrintf

LEMMA SendKeepsCodes ==
  ASSUME ConsoleTyped, \/ \E inputs \in {Printf, PlainCommand, CommandWithPrintf} : Send(inputs)
                       \/ \E k \in {"line", "user", "secret"} : Send(<<In(k, 0)>>)
  PROVE  dev'.code = dev.code
BY SendEffect, InputsTyped, SendUnnumbered

LEMMA CodesAreKept == ASSUME ConsoleBase, Next PROVE CodesKept
<1>1. ConsoleTyped /\ dev.code \in Seq(Nat \X Codes) /\ dev \in DevStates
  BY DEF ConsoleBase, ConsoleTyped, DevStates
<1>2. CASE dev'.code = dev.code
  BY <1>2 DEF CodesKept
<1>3. CASE \E rc \in Codes : dev'.code = Append(dev.code, <<Head(dev.input).n, rc>>) /\ dev.input # <<>>
  <2>1. PICK rc \in Codes : dev'.code = Append(dev.code, <<Head(dev.input).n, rc>>)
    BY <1>3
  <2>2. Head(dev.input) \in Inputs
    BY <1>1, <1>3, Tailed DEF DevStates
  <2>3. <<Head(dev.input).n, rc>> \in Nat \X Codes
    BY <2>2 DEF Inputs
  <2>4. /\ Len(Append(dev.code, <<Head(dev.input).n, rc>>)) = Len(dev.code) + 1 /\ Len(dev.code) \in Nat
        /\ \A i \in 1..Len(dev.code) : Append(dev.code, <<Head(dev.input).n, rc>>)[i] = dev.code[i]
    BY <1>1, <2>3, AppendProperties, LenProperties
  <2>5. \A m \in Nat : \A i \in 1..m : i \in 1..(m + 1)
    OBVIOUS
  <2>6. \A i \in 1..Len(dev.code) : i \in 1..(Len(dev.code) + 1)
    BY <2>4, <2>5
  <2> QED  BY <2>1, <2>4, <2>6 DEF CodesKept
<1>4. CASE DeviceReads
  BY <1>1, <1>2, <1>3, <1>4, DeviceReadsEffect
<1>5. CASE Reboots \/ Breaks
  BY <1>1, <1>2, <1>5, RebootsEffect, BreaksEffect
<1>6. CASE Operations
  <2>1. dev'.code = dev.code
    BY <1>1, <1>6 DEF Operations, Check, Execute, ExecuteOnOutput, Console, DevStates
  <2> QED  BY <1>2, <2>1
<1>7. CASE LoggedIn \/ PrepareSession \/ Hello \/ Capability
  <2>1. Settles
    BY <1>1, <1>7, SettlesEffect DEF ConsoleBase
  <2>2. \/ dev' = dev \/ \E inputs \in {Printf, PlainCommand, CommandWithPrintf} : Send(inputs)
    BY <2>1 DEF Settles, CommandSent, Sent
  <2> QED  BY <1>1, <1>2, <2>2, SendKeepsCodes
<1>8. CASE \/ LoginFails \/ SessionFails \/ ConnectFails \/ TimedOut \/ SendFails \/ StreamEnds \/ ProbeEnds
           \/ Completed \/ ConnectionClosed
  BY <1>2, <1>8, QuitsEffect DEF Quits
<1>9. CASE PassiveReceive \/ StreamOverflows \/ Receive \/ ReadEnds \/ MarkEnds \/ WaitFails
  BY <1>2, <1>9 DEF PassiveReceive, StreamOverflows, Receive, ReadEnds, MarkEnds, WaitFails
<1>10. CASE AnswerLogin \/ AnswerPassword \/ WaitEnds \/ AnswerOutput
  <2>1. dev' = dev \/ \E k \in {"line", "user", "secret"} : Send(<<In(k, 0)>>)
    BY <1>10, WaitEffect DEF AnswerLogin, AnswerPassword, Respond, AnswerOutput, ConsoleBase
  <2> QED  BY <1>1, <1>2, <2>1, SendKeepsCodes
<1>11. CASE SendBusiness \/ SendProbe
  <2>1. \E inputs \in {Printf, PlainCommand, CommandWithPrintf} : Send(inputs)
    BY <1>11, SendCommandEffect DEF SendBusiness, SendProbe, CommandSent, Sent, PlainCommand
  <2> QED  BY <1>1, <1>2, <2>1, SendKeepsCodes
<1>12. CASE OpenSession
  <2>1. dev'.code = dev.code
    BY <1>1, <1>12 DEF OpenSession, DevStates
  <2> QED  BY <1>2, <2>1
<1> QED  BY <1>4, <1>5, <1>6, <1>7, <1>8, <1>9, <1>10, <1>11, <1>12 DEF Next, Device, Command, Stream

\* A command runs because it was just sent, or goes on while the device works and
\* packets arrive.
LEMMA RunSteps ==
  ASSUME ConsoleBase, Next
  PROVE  \/ op'.pc # "run"
         \/ /\ Sent("run", PlainCommand) \/ Sent("run", CommandWithPrintf)
            /\ UNCHANGED <<config, wire, live>>
         \/ Device \/ Receive
<1>1. op \in Opers /\ ConsoleTyped /\ Connected
  BY DEF ConsoleBase, ConsoleTyped
<1>2. CASE Operations
  <2>1. op'.pc # "run"
    BY <1>2 DEF Operations, Check, Execute, ExecuteOnOutput, Console, Begin, Idle
  <2> QED  BY <2>1
<1>3. CASE LoggedIn \/ PrepareSession \/ Hello \/ Capability
  <2>1. Settles
    BY <1>1, <1>3, SettlesEffect
  <2>2. \/ Sent("run", PlainCommand) \/ Sent("run", CommandWithPrintf)
        \/ Sent("capability", Printf)
        \/ op' \in {Idle, [op EXCEPT !.pc = "quiet"], [op EXCEPT !.pc = "prompt"]}
    BY <2>1 DEF Settles, CommandSent
  <2>3. Sent("capability", Printf) => op'.pc = "capability"
    BY <1>1 DEF Sent, Opers
  <2>4. op' \in {Idle, [op EXCEPT !.pc = "quiet"], [op EXCEPT !.pc = "prompt"]} => op'.pc # "run"
    BY <1>1, RestTyped DEF Opers
  <2> QED  BY <2>1, <2>2, <2>3, <2>4 DEF Settles
<1>4. CASE \/ LoginFails \/ SessionFails \/ ConnectFails \/ TimedOut \/ SendFails \/ StreamEnds \/ ProbeEnds
           \/ Completed \/ ConnectionClosed
  BY <1>4, QuitsEffect, RestTyped DEF Quits
<1>5. CASE \/ StreamOverflows \/ ReadEnds \/ MarkEnds \/ WaitFails \/ WaitEnds \/ AnswerOutput
  <2>1. op' = Idle
    BY <1>1, <1>5, WaitEffect, NoCommandEffect, FinishEffect
       DEF StreamOverflows, ReadEnds, MarkEnds, WaitFails, AnswerOutput
  <2> QED  BY <2>1, RestTyped
<1>6. CASE PassiveReceive
  BY <1>6 DEF PassiveReceive, Passive
<1>7. CASE AnswerLogin \/ AnswerPassword \/ OpenSession \/ SendProbe
  <2>1. op'.pc # "run"
    BY <1>1, <1>7 DEF AnswerLogin, AnswerPassword, OpenSession, SendProbe, Opers
  <2> QED  BY <2>1
<1>8. CASE SendBusiness
  BY <1>8, SendCommandEffect DEF SendBusiness, CommandSent
<1> QED  BY <1>2, <1>3, <1>4, <1>5, <1>6, <1>7, <1>8 DEF Next, Command, Stream
LEMMA RunBegins ==
  ASSUME ConsoleBase, NEW inputs \in {PlainCommand, CommandWithPrintf}, Sent("run", inputs), wire' = wire
  PROVE  RunFits'
<1>1. /\ inputs \in Seq(Inputs) /\ \A j \in 1..Len(inputs) : inputs[j].n = Fresh
      /\ \A j \in 1..Len(inputs) : inputs[j].k = "printf" =>
            j = 2 /\ 1 \in 1..Len(inputs) /\ inputs[1] = In("command", Fresh)
      /\ Fresh = count.sent + 1
  BY InputsTyped DEF ConsoleBase, In
<1>2. /\ op'.n = count.sent + 1 /\ op'.got = <<>> /\ count.sent \in Nat
      /\ dev'.input = IF live THEN dev.input \o inputs ELSE dev.input
  BY <1>1, SentEffect DEF Pcs
<1>3. \A i \in 1..Len(op'.got) : FALSE
  BY <1>2
<1>4. \A i \in 1..Len(wire') : ~(wire'[i].n = op'.n)
  <2> SUFFICES ASSUME NEW i \in 1..Len(wire) PROVE wire[i].n # count.sent + 1
    BY <1>2
  <2>1. wire[i] \in Tokens /\ wire[i].n <= count.sent
    BY ElementOfSeq DEF ConsoleBase, ConsoleTyped, Drawn
  <2> QED  BY <1>2, <2>1 DEF Tokens
<1>5. \A i \in 1..Len(dev.input) : dev.input[i].n # count.sent + 1
  <2> SUFFICES ASSUME NEW i \in 1..Len(dev.input) PROVE dev.input[i].n # count.sent + 1
    OBVIOUS
  <2>1. dev.input[i] \in Inputs /\ dev.input[i].n <= count.sent
    BY ElementOfSeq DEF ConsoleBase, ConsoleTyped, Drawn, DevStates
  <2> QED  BY <1>2, <2>1 DEF Inputs
<1>6. ASSUME NEW i \in 1..Len(dev'.input), dev'.input[i].k = "printf", dev'.input[i].n = op'.n
      PROVE  i > 1 /\ dev'.input[i - 1] = In("command", op'.n)
  <2> DEFINE u == dev'.input
             s == dev.input
  <2>1. live /\ u = s \o inputs /\ s \in Seq(Inputs)
    BY <1>2, <1>5, <1>6 DEF ConsoleBase, ConsoleTyped, DevStates
  <2> HIDE DEF u, s
  <2>2. /\ Len(s) \in Nat
        /\ \A j \in 1..Len(inputs) : u[Len(s) + j] = inputs[j]
        /\ \A m \in 1..Len(u) : \/ m \in 1..Len(s) /\ u[m] = s[m]
                                \/ \E j \in 1..Len(inputs) : m = Len(s) + j /\ u[m] = inputs[j]
    BY <1>1, <2>1, Joined
  <2>3. i \in 1..Len(u) /\ u[i].k = "printf" /\ u[i].n = count.sent + 1
    BY <1>2, <1>6 DEF u
  <2>4. ~(i \in 1..Len(s) /\ u[i] = s[i])
    BY <1>5, <2>3 DEF s
  <2>5. PICK j \in 1..Len(inputs) : i = Len(s) + j /\ u[i] = inputs[j]
    BY <2>2, <2>3, <2>4
  <2>6. j = 2 /\ i = Len(s) + 2 /\ u[Len(s) + 1] = In("command", Fresh)
    BY <1>1, <2>2, <2>3, <2>5
  <2>7. i > 1 /\ i - 1 = Len(s) + 1
    BY <2>2, <2>6
  <2> QED  BY <1>1, <1>2, <2>6, <2>7 DEF u
<1> QED  BY <1>3, <1>4, <1>6 DEF RunFits, Own

\* What tells a code goes on telling it.
LEMMA ToldIsKept ==
  ASSUME CodesKept, op' = op
  PROVE  /\ \A t \in Tokens : Told(t) => \E i \in 1..Len(dev'.code) :
                                          dev'.code[i][1] = t.n /\ ((dev'.code[i][2] = 0) <=> (t.rc = 0))
         /\ \A t \in Tokens : Exact(t) => \E i \in 1..Len(dev'.code) :
                                          dev'.code[i][1] = t.n /\ dev'.code[i][2] = t.rc
<1>1. ASSUME NEW t \in Tokens, Told(t)
      PROVE  \E i \in 1..Len(dev'.code) :
                dev'.code[i][1] = t.n /\ ((dev'.code[i][2] = 0) <=> (t.rc = 0))
  <2>1. PICK i \in 1..Len(dev.code) : dev.code[i][1] = t.n /\ ((dev.code[i][2] = 0) <=> (t.rc = 0))
    BY <1>1 DEF Told
  <2>2. i \in 1..Len(dev'.code) /\ dev'.code[i] = dev.code[i]
    BY DEF CodesKept
  <2>3. dev'.code[i][1] = t.n /\ ((dev'.code[i][2] = 0) <=> (t.rc = 0))
    BY <2>1, <2>2
  <2> QED  BY <2>2, <2>3
<1>2. ASSUME NEW t \in Tokens, Exact(t)
      PROVE  \E i \in 1..Len(dev'.code) : dev'.code[i][1] = t.n /\ dev'.code[i][2] = t.rc
  <2>1. PICK i \in 1..Len(dev.code) : dev.code[i][1] = t.n /\ dev.code[i][2] = t.rc
    BY <1>2 DEF Exact
  <2>2. i \in 1..Len(dev'.code) /\ dev'.code[i] = dev.code[i]
    BY DEF CodesKept
  <2> QED  BY <2>1, <2>2
<1> QED  BY <1>1, <1>2

\* A marker that the device sends has the code of its own command.
LEMMA RunDeviceReads ==
  ASSUME ConsoleBase, RunFits, op.pc = "run", DeviceReads
  PROVE  RunFits'
<1>1. /\ ConsoleTyped /\ dev.input \in Seq(Inputs) /\ dev.code \in Seq(Nat \X Codes) /\ op.n \in Nat
      /\ wire \in Seq(Tokens) /\ op.got \in Seq(Tokens)
  BY DEF ConsoleBase, ConsoleTyped, DevStates, Opers
<1>2. /\ UNCHANGED <<live, op>>
  BY DEF DeviceReads
<1>3. CodesKept
  BY CodesAreKept DEF Next, Device
<1>4. /\ dev.input # <<>> /\ dev'.input = Tail(dev.input)
      /\ \/ dev'.code = dev.code /\ (Head(dev.input).k = "command" => dev.state # "shell")
         \/ \E rc \in Codes : dev'.code = Append(dev.code, <<Head(dev.input).n, rc>>)
      /\ dev.state = "shell" => dev'.state = "shell"
      /\ dev.state # "shell" /\ Head(dev.input).k = "command" => dev'.state # "shell"
  BY <1>1, DeviceReadsEffect
<1>5. PICK text : Reading(Head(dev.input), text) /\ wire' = IF live THEN wire \o text ELSE wire
  BY <1>1, DeviceReadsEffect
<1>6. /\ Head(dev.input) = dev.input[1] /\ 1 \in 1..Len(dev.input)
      /\ Head(dev.input) \in Inputs
      /\ \A i \in 1..Len(dev'.input) : i + 1 \in 1..Len(dev.input) /\ dev'.input[i] = dev.input[i + 1]
  BY <1>1, <1>4, Tailed
<1>7. ASSUME NEW j \in 1..Len(text), Own(text[j])
      PROVE  Told(text[j]) /\ Exact(text[j])
  <2>1. /\ Head(dev.input).k = "printf" /\ dev.state = "shell"
        /\ text[j] = Marker(Head(dev.input).n, LastCode)
    BY <1>5, <1>7 DEF Reading, Own
  <2>2. text[j].n = Head(dev.input).n /\ text[j].rc = LastCode /\ Head(dev.input).n = op.n
    BY <1>7, <2>1 DEF Own, Marker, Token
  <2>3. dev.code # <<>> /\ Last(dev.code)[1] = op.n
    <3>1. 1 \in 1..Len(dev.input) /\ dev.input[1].k = "printf" /\ dev.input[1].n = op.n /\ ~(1 > 1)
      BY <1>6, <2>1, <2>2
    <3> QED  BY <2>1, <3>1 DEF RunFits
  <2>4. Len(dev.code) \in 1..Len(dev.code) /\ Last(dev.code) = dev.code[Len(dev.code)]
    BY <1>1, <2>3, LenProperties, EmptySeq DEF Last
  <2>5. /\ dev.code[Len(dev.code)][1] = text[j].n
        /\ dev.code[Len(dev.code)][2] = text[j].rc
    BY <2>2, <2>3, <2>4 DEF LastCode
  <2> QED  BY <2>4, <2>5 DEF Told, Exact
<1>8. \A i \in 1..Len(wire) : Own(wire[i]) => Told(wire[i]) /\ (Exact(wire[i]) \/ (i = Len(wire) /\ ~live))
  BY DEF RunFits
<1>9. /\ wire' \in Seq(Tokens)
      /\ \A i \in 1..Len(wire') : Own(wire'[i]) => Told(wire'[i]) /\ (Exact(wire'[i]) \/ (i = Len(wire') /\ ~live))
  <2>1. CASE live
    <3>1. wire' = wire \o text /\ text \in Seq(Tokens)
      BY <1>5, <2>1 DEF Reading
    <3>2. wire' \in Seq(Tokens)
          /\ \A i \in 1..Len(wire') : \/ i \in 1..Len(wire) /\ wire'[i] = wire[i]
                                      \/ \E j \in 1..Len(text) : wire'[i] = text[j]
      <4>1. wire' \in Seq(Tokens)
        BY <1>1, <3>1, Joined
      <4>2. wire \in Seq(Tokens) /\ text \in Seq(Tokens) /\ wire' = wire \o text
        BY <1>1, <3>1
      <4> QED  BY <4>1, <4>2, JoinedElements
    <3> QED  BY <1>7, <1>8, <2>1, <3>2
  <2>2. CASE ~live
    BY <1>1, <1>5, <1>8, <2>2
  <2> QED  BY <2>1, <2>2
<1>10. \A i \in 1..Len(op.got) : Own(op.got[i]) =>
          Told(op.got[i]) /\ (Exact(op.got[i]) \/ (i = Len(op.got) /\ ~live /\ wire' = <<>>))
  BY <1>5 DEF RunFits
<1>11. ASSUME NEW i \in 1..Len(dev'.input), dev'.input[i].k = "printf", dev'.input[i].n = op.n
       PROVE  \/ i > 1 /\ dev'.input[i - 1] = In("command", op.n)
              \/ i = 1 /\ (dev'.state = "shell" => dev'.code # <<>> /\ Last(dev'.code)[1] = op.n)
  <2>1. i + 1 \in 1..Len(dev.input) /\ dev.input[i + 1].k = "printf" /\ dev.input[i + 1].n = op.n
    BY <1>6, <1>11
  <2>2. dev.input[i + 1 - 1] = In("command", op.n)
    BY <2>1 DEF RunFits
  <2>3. i + 1 - 1 = i
    OBVIOUS
  <2>4. dev.input[i] = In("command", op.n)
    BY <2>2, <2>3
  <2>5. CASE i > 1
    <3>1. i - 1 \in 1..Len(dev'.input) /\ i - 1 + 1 = i
      BY <1>4, <1>1, <2>5, Tailed
    <3>2. dev'.input[i - 1] = dev.input[i - 1 + 1]
      BY <1>6, <3>1
    <3> QED  BY <2>4, <2>5, <3>1, <3>2
  <2>6. CASE i = 1
    <3>1. Head(dev.input).k = "command" /\ Head(dev.input).n = op.n
      BY <1>6, <2>4, <2>6 DEF In
    <3>2. CASE dev.state = "shell"
      <4>1. PICK rc \in Codes : dev'.code = Append(dev.code, <<op.n, rc>>)
        BY <1>4, <3>1, <3>2
      <4>2. <<op.n, rc>> \in Nat \X Codes
        BY <1>1
      <4>3. /\ dev'.code \in Seq(Nat \X Codes) /\ Len(dev'.code) = Len(dev.code) + 1
            /\ dev'.code[Len(dev.code) + 1] = <<op.n, rc>>
        BY <1>1, <4>1, <4>2, AppendProperties
      <4>4. Len(dev.code) \in Nat
        BY <1>1, LenProperties
      <4>5. dev'.code # <<>> /\ Last(dev'.code)[1] = op.n
        BY <4>3, <4>4 DEF Last
      <4> QED  BY <2>6, <4>5
    <3>3. CASE dev.state # "shell"
      BY <1>4, <2>6, <3>1, <3>3
    <3> QED  BY <3>2, <3>3
  <2> QED  BY <2>5, <2>6
<1>12. ASSUME NEW s \in Seq(Tokens), NEW i \in 1..Len(s) PROVE s[i] \in Tokens
  BY ElementOfSeq
<1>13. \A t \in Tokens : (Told(t) => Told(t)') /\ (Exact(t) => Exact(t)')
  BY <1>2, <1>3, ToldIsKept DEF Told, Exact
<1> QED  BY <1>1, <1>2, <1>9, <1>10, <1>11, <1>12, <1>13 DEF RunFits, Own, Told, Exact
LEMMA RunOthers ==
  ASSUME ConsoleBase, RunFits, op.pc = "run", Reboots \/ Breaks \/ Receive
  PROVE  RunFits'
<1>1. /\ ConsoleTyped /\ wire \in Seq(Tokens) /\ op.got \in Seq(Tokens) /\ op \in Opers
      /\ Len(wire) \in Nat /\ CodesKept
      /\ \A i \in 1..Len(op.got) : Own(op.got[i]) =>
            Told(op.got[i]) /\ (Exact(op.got[i]) \/ (i = Len(op.got) /\ ~live /\ wire = <<>>))
      /\ \A i \in 1..Len(wire) : Own(wire[i]) =>
            Told(wire[i]) /\ (Exact(wire[i]) \/ (i = Len(wire) /\ ~live))
      /\ \A i \in 1..Len(dev.input) : dev.input[i].k = "printf" /\ dev.input[i].n = op.n =>
            \/ i > 1 /\ dev.input[i - 1] = In("command", op.n)
            \/ i = 1 /\ (dev.state = "shell" => dev.code # <<>> /\ Last(dev.code)[1] = op.n)
  BY CodesAreKept, LenProperties DEF ConsoleBase, ConsoleTyped, DevStates, Opers, RunFits, Next, Device
<1>2. CASE Reboots
  <2>1. /\ UNCHANGED <<live, op>> /\ dev'.input = <<>> /\ dev'.code = dev.code
    BY <1>1, <1>2, RebootsEffect
  <2>2. PICK text \in Seq(Tokens) :
          /\ wire' = IF live THEN wire \o text ELSE wire
          /\ \A j \in 1..Len(text) : text[j].n = 0 /\ text[j].k \in {"key", "prompt", "login"}
    BY <1>1, <1>2, RebootsEffect
  <2>3. \A i \in 1..Len(wire') : Own(wire'[i]) =>
            Told(wire'[i]) /\ (Exact(wire'[i]) \/ (i = Len(wire') /\ ~live))
    <3>1. CASE live
      <4>1. wire' = wire \o text
        BY <2>2, <3>1
      <4>2. \A i \in 1..Len(wire') : \/ i \in 1..Len(wire) /\ wire'[i] = wire[i]
                                     \/ \E j \in 1..Len(text) : wire'[i] = text[j]
        BY <1>1, <4>1, JoinedElements
      <4>3. \A j \in 1..Len(text) : ~Own(text[j])
        BY <2>2 DEF Own
      <4> QED  BY <1>1, <3>1, <4>2, <4>3
    <3>2. CASE ~live
      BY <1>1, <2>2, <3>2
    <3> QED  BY <3>1, <3>2
  <2>4. \A i \in 1..Len(dev'.input) : FALSE
    BY <2>1
  <2>5. ~live => wire' = wire
    BY <2>2
  <2> QED  BY <1>1, <2>1, <2>3, <2>4, <2>5 DEF RunFits, Own, Told, Exact
<1>3. CASE Breaks
  <2>1. live /\ live' = FALSE /\ UNCHANGED <<dev, op>>
    BY <1>1, <1>3, BreaksEffect
  <2>2. \A j \in 1..Len(wire') :
               /\ j \in 1..Len(wire) /\ wire'[j].k = wire[j].k /\ wire'[j].n = wire[j].n
               /\ \/ wire'[j] = wire[j]
                  \/ j = Len(wire') /\ wire[j].rc = 12 /\ wire'[j].rc = 1
    BY <1>1, <1>3, BreaksEffect
  <2>3. ASSUME NEW i \in 1..Len(wire'), Own(wire'[i])
        PROVE  Told(wire'[i]) /\ (Exact(wire'[i]) \/ (i = Len(wire') /\ ~live'))
    <3>1. Own(wire[i]) /\ Told(wire[i]) /\ Exact(wire[i])
      BY <1>1, <2>1, <2>2, <2>3 DEF Own
    <3>2. CASE wire'[i] = wire[i]
      BY <3>1, <3>2
    <3>3. CASE i = Len(wire') /\ wire[i].rc = 12 /\ wire'[i].rc = 1
      <4>1. Told(wire'[i])
        BY <2>2, <3>1, <3>3 DEF Told
      <4> QED  BY <2>1, <3>3, <4>1
    <3> QED  BY <2>2, <3>2, <3>3
  <2> QED  BY <1>1, <2>1, <2>3 DEF RunFits, Own, Told, Exact
<1>4. CASE Receive
  <2>1. PICK p \in Packets : Gone(p) /\ op' = [op EXCEPT !.got = @ \o p]
    BY <1>4 DEF Receive
  <2>2. PICK i \in 1..Len(wire) :
            /\ p \in Seq(Tokens) /\ Len(p) = i
            /\ Len(wire') = Len(wire) - i /\ wire' = SubSeq(wire, i + 1, Len(wire))
            /\ wire' \in Seq(Tokens)
            /\ \A j \in 1..Len(p) : j \in 1..Len(wire) /\ p[j] = wire[j]
            /\ \A j \in 1..Len(wire') : j + i \in 1..Len(wire) /\ wire'[j] = wire[j + i]
    BY <1>1, <2>1, PacketEffect
  <2>3. /\ UNCHANGED <<dev, live>> /\ op'.n = op.n /\ op'.got = op.got \o p
    BY <1>1, <1>4, <2>1 DEF Receive, Opers
  <2>4. /\ Len(op'.got) = Len(op.got) + Len(p) /\ Len(op.got) \in Nat
        /\ \A m \in 1..Len(op'.got) : \/ m \in 1..Len(op.got) /\ op'.got[m] = op.got[m]
                                      \/ \E j \in 1..Len(p) : m = Len(op.got) + j /\ op'.got[m] = p[j]
    <3> DEFINE u == op'.got
               s == op.got
    <3>1. u = s \o p /\ s \in Seq(Tokens)
      BY <1>1, <2>3
    <3> HIDE DEF u, s
    <3>2. /\ Len(u) = Len(s) + Len(p) /\ Len(s) \in Nat
          /\ \A m \in 1..Len(u) : \/ m \in 1..Len(s) /\ u[m] = s[m]
                                  \/ \E j \in 1..Len(p) : m = Len(s) + j /\ u[m] = p[j]
      <4>1. /\ Len(s \o p) = Len(s) + Len(p) /\ Len(s) \in Nat
            /\ \A m \in 1..Len(s \o p) :
                  \/ m \in 1..Len(s) /\ (s \o p)[m] = s[m]
                  \/ \E j \in 1..Len(p) : m = Len(s) + j /\ (s \o p)[m] = p[j]
        <5>1. p \in Seq(Tokens) /\ s \in Seq(Tokens)
          BY <2>2, <3>1
        <5> QED  BY <5>1, Joined
      <4> QED  BY <3>1, <4>1
    <3> QED  BY <3>2 DEF u, s
  <2>5. wire # <<>>
    <3>1. Len(wire) # 0
      BY <1>1, <2>2
    <3> QED  BY <3>1
  <2>6. ASSUME NEW m \in 1..Len(op'.got), Own(op'.got[m])
        PROVE  Told(op'.got[m]) /\ (Exact(op'.got[m]) \/ (m = Len(op'.got) /\ ~live /\ wire' = <<>>))
    <3>1. CASE m \in 1..Len(op.got) /\ op'.got[m] = op.got[m]
      BY <1>1, <2>5, <2>6, <3>1
    <3>2. ASSUME NEW j \in 1..Len(p), m = Len(op.got) + j, op'.got[m] = p[j]
          PROVE  Told(op'.got[m]) /\ (Exact(op'.got[m]) \/ (m = Len(op'.got) /\ ~live /\ wire' = <<>>))
      <4>1. op'.got[m] = wire[j] /\ j \in 1..Len(wire) /\ Own(wire[j])
        BY <2>2, <2>6, <3>2
      <4>2. Told(wire[j]) /\ (Exact(wire[j]) \/ (j = Len(wire) /\ ~live))
        BY <1>1, <4>1
      <4>3. j = Len(wire) => m = Len(op'.got) /\ Len(wire') = 0
        BY <1>1, <2>2, <2>4, <3>2
      <4>4. Len(wire') = 0 => wire' = <<>>
        BY <2>2, EmptySeq
      <4> QED  BY <4>1, <4>2, <4>3, <4>4
    <3> QED  BY <2>4, <3>1, <3>2
  <2>7. ASSUME NEW j \in 1..Len(wire'), Own(wire'[j])
        PROVE  Told(wire'[j]) /\ (Exact(wire'[j]) \/ (j = Len(wire') /\ ~live))
    <3>1. wire'[j] = wire[j + i] /\ j + i \in 1..Len(wire)
      BY <2>2
    <3>2. j + i = Len(wire) => j = Len(wire')
      BY <1>1, <2>2
    <3> QED  BY <1>1, <2>7, <3>1, <3>2
  <2> QED  BY <1>1, <2>3, <2>6, <2>7 DEF RunFits, Own, Told, Exact
<1> QED  BY <1>2, <1>3, <1>4

LEMMA RunFitsNext == ASSUME ConsoleBase, RunFits, Next PROVE RunFits'
<1>1. CASE op'.pc # "run"
  BY <1>1 DEF RunFits
<1>2. CASE /\ Sent("run", PlainCommand) \/ Sent("run", CommandWithPrintf)
           /\ UNCHANGED <<config, wire, live>>
  BY <1>2, RunBegins
<1>3. CASE (Device \/ Receive) /\ op'.pc = "run"
  <2>1. op.pc = "run"
    <3>1. op \in Opers
      BY DEF ConsoleBase, ConsoleTyped
    <3> QED  BY <1>3, <3>1 DEF Device, DeviceReads, Reboots, Breaks, Receive, Opers
  <2> QED  BY <1>3, <2>1, RunDeviceReads, RunOthers DEF Device
<1> QED  BY <1>1, <1>2, <1>3, RunSteps

\* The code of the first marker of its own is one of the codes that were told.
LEMMA ExitCodeOf ==
  ASSUME NEW text \in Seq(Tokens), NEW n, HasCode(text, n)
  PROVE  \E i \in 1..Len(text) : text[i].k = "marker" /\ text[i].n = n /\ ExitCode(text, n) = text[i].rc
<1> DEFINE T == Markers(text, n)
           i == CHOOSE x \in T : \A j \in T : x <= j
<1>1. T \subseteq Nat /\ T # {}
  BY DEF Markers, HasCode
<1>2. \E x \in T : \A j \in T : x <= j
  <2> HIDE DEF T
  <2> QED  BY <1>1, LeastExists
<1>3. i \in T
  <2> HIDE DEF T
  <2> QED  BY <1>2
<1>4. ExitCode(text, n) = text[i].rc
  BY DEF ExitCode
<1> HIDE DEF i
<1> QED  BY <1>3, <1>4 DEF Markers

\* A result says nothing of the code unless a command ended with a marker of its own.
CodedResult ==
    /\ op.pc = "run" /\ op.of # "onoutput" /\ Posix
    /\ HasCode(op.got, op.n)
    /\ \E lost \in BOOLEAN : /\ Coded(lost)
                             /\ ~lost => FindPrompt(op.got) /\ UNCHANGED <<dev, wire, live, client>> /\ config' = config
                             /\ lost => Drop
    /\ dev' = dev

LEMMA ResultSteps ==
  ASSUME ConsoleBase, Next
  PROVE  result' = result \/ result'.code = None \/ CodedResult
<1>1. ConsoleTyped /\ Connected
  BY DEF ConsoleBase
<1>2. NoResult.code = None
  BY DEF NoResult
<1>3. CASE Operations
  BY <1>2, <1>3 DEF Operations, Check, Execute, ExecuteOnOutput, Console
<1>4. CASE LoggedIn \/ PrepareSession \/ Hello \/ Capability
  BY <1>1, <1>4, SettlesEffect DEF Settles
<1>5. CASE SessionFails \/ ConnectFails \/ StreamEnds \/ StreamOverflows
  <2>1. PICK status : NoCommand(status)
    BY <1>5 DEF SessionFails, ConnectFails, StreamEnds, StreamOverflows
  <2> QED  BY <2>1, NoCommandEffect
<1>6. CASE TimedOut \/ SendFails \/ AnswerOutput
  <2>1. result'.code = None
    <3>1. PICK status, lost : Finish(status, None, lost)
      BY <1>6 DEF TimedOut, SendFails, AnswerOutput
    <3> QED  BY <3>1, FinishEffect
  <2> QED  BY <2>1
<1>7. CASE Completed
  <2>1. CASE Posix
    <3>1. Coded(FALSE) /\ HasCode(op.got, op.n) /\ FindPrompt(op.got)
      BY <1>7, <2>1 DEF Completed, Complete
    <3> QED  BY <1>7, <2>1, <3>1 DEF Completed, CodedResult
  <2>2. CASE ~Posix
    <3>1. result'.code = None
      <4>1. Finish("RESULT_UNKNOWN", None, FALSE)
        BY <1>7, <2>2 DEF Completed
      <4> QED  BY <4>1, FinishEffect
    <3> QED  BY <3>1
  <2> QED  BY <2>1, <2>2
<1>8. CASE ConnectionClosed
  <2>1. CASE op.of # "onoutput" /\ Posix /\ HasCode(op.got, op.n)
    <3>1. Coded(TRUE) /\ Drop
      BY <1>8, <2>1 DEF ConnectionClosed
    <3> QED  BY <1>8, <2>1, <3>1 DEF ConnectionClosed, CodedResult
  <2>2. CASE ~(op.of # "onoutput" /\ Posix /\ HasCode(op.got, op.n))
    <3>1. result'.code = None
      <4>1. Finish(IF op.expect THEN "SUCCESS" ELSE "DISCONNECTED", None, TRUE)
        BY <1>8, <2>2 DEF ConnectionClosed
      <4> QED  BY <4>1, FinishEffect
    <3> QED  BY <3>1
  <2> QED  BY <2>1, <2>2
<1>9. CASE \/ Device \/ PassiveReceive \/ AnswerLogin \/ AnswerPassword \/ LoginFails \/ OpenSession
           \/ Receive \/ SendBusiness \/ ReadEnds \/ MarkEnds \/ WaitEnds \/ WaitFails \/ SendProbe
           \/ ProbeEnds
  BY <1>9 DEF Device, DeviceReads, Reboots, Breaks, PassiveReceive, AnswerLogin, AnswerPassword,
     LoginFails, OpenSession, Receive, SendBusiness, ReadEnds, MarkEnds, WaitEnds, WaitFails,
     SendProbe, ProbeEnds
<1> QED  BY <1>3, <1>4, <1>5, <1>6, <1>7, <1>8, <1>9 DEF Next, Command, Stream

LEMMA CodedEffect ==
  ASSUME ConsoleTyped, CodedResult
  PROVE  \E lost \in BOOLEAN, i \in 1..Len(op.got) :
            /\ Own(op.got[i]) /\ dev' = dev
            /\ result'.code = op.got[i].rc /\ result'.n = op.n /\ result'.lost = lost
            /\ result'.text = Cleaned(op.got, op.n)
            /\ ~lost => FindPrompt(op.got)
<1>1. op.got \in Seq(Tokens) /\ HasCode(op.got, op.n)
  BY DEF ConsoleTyped, Opers, CodedResult
<1>2. PICK i \in 1..Len(op.got) : /\ op.got[i].k = "marker" /\ op.got[i].n = op.n
                                  /\ ExitCode(op.got, op.n) = op.got[i].rc
  BY <1>1, ExitCodeOf
<1>3. PICK lost \in BOOLEAN : Coded(lost) /\ (~lost => FindPrompt(op.got))
  BY DEF CodedResult
<1>4. /\ result'.code = op.got[i].rc /\ result'.n = op.n /\ result'.lost = lost
      /\ result'.text = Cleaned(op.got, op.n)
  BY <1>2, <1>3, FinishEffect DEF Coded
<1>5. Own(op.got[i]) /\ dev' = dev
  BY <1>2 DEF Own, CodedResult
<1> QED  BY <1>3, <1>4, <1>5

LEMMA ResultIsOwnNext == ASSUME ConsoleBase, RunFits, ResultIsOwn, Next PROVE ResultIsOwn'
<1>1. CASE result' = result
  <2>1. CodesKept
    BY CodesAreKept
  <2>2. ASSUME result.code # None
        PROVE  \E i \in 1..Len(dev'.code) :
                  /\ dev'.code[i][1] = result.n
                  /\ (dev'.code[i][2] = 0) <=> (result.code = 0)
                  /\ ~result.lost => dev'.code[i][2] = result.code
    <3>1. PICK i \in 1..Len(dev.code) :
            /\ dev.code[i][1] = result.n
            /\ (dev.code[i][2] = 0) <=> (result.code = 0)
            /\ ~result.lost => dev.code[i][2] = result.code
      BY <2>2 DEF ResultIsOwn
    <3>2. i \in 1..Len(dev'.code) /\ dev'.code[i] = dev.code[i]
      BY <2>1 DEF CodesKept
    <3>3. /\ dev'.code[i][1] = result.n
          /\ (dev'.code[i][2] = 0) <=> (result.code = 0)
          /\ ~result.lost => dev'.code[i][2] = result.code
      BY <3>1, <3>2
    <3> QED  BY <3>2, <3>3
  <2> QED  BY <1>1, <2>2 DEF ResultIsOwn
<1>2. CASE result'.code = None
  BY <1>2 DEF ResultIsOwn
<1>3. CASE CodedResult
  <2>1. PICK lost \in BOOLEAN, i \in 1..Len(op.got) :
          /\ Own(op.got[i]) /\ dev' = dev
          /\ result'.code = op.got[i].rc /\ result'.n = op.n /\ result'.lost = lost
          /\ ~lost => FindPrompt(op.got)
    BY <1>3, CodedEffect DEF ConsoleBase
  <2>2. Told(op.got[i]) /\ (Exact(op.got[i]) \/ i = Len(op.got)) /\ op.got[i].n = op.n
        /\ op.got[i].k = "marker"
    BY <1>3, <2>1 DEF RunFits, CodedResult, Own
  <2>3. ~lost => Exact(op.got[i])
    BY <2>1, <2>2 DEF FindPrompt, Last
  <2>4. CASE lost
    <3>1. PICK m \in 1..Len(dev.code) :
            dev.code[m][1] = op.n /\ ((dev.code[m][2] = 0) <=> (op.got[i].rc = 0))
      BY <2>2 DEF Told
    <3> QED  BY <2>1, <2>4, <3>1 DEF ResultIsOwn
  <2>5. CASE ~lost
    <3>1. PICK m \in 1..Len(dev.code) : dev.code[m][1] = op.n /\ dev.code[m][2] = op.got[i].rc
      BY <2>2, <2>3, <2>5 DEF Exact
    <3> QED  BY <2>1, <2>5, <3>1 DEF ResultIsOwn
  <2> QED  BY <2>4, <2>5
<1> QED  BY <1>1, <1>2, <1>3, ResultSteps
-----------------------------------------------------------------------------
(* A console that only commands use: the output of a result.                *)

NothingAsked == \A i \in 1..Len(dev.input) : dev.input[i].k \notin {"command", "printf"}
Answered(text) == \E i \in 1..Len(text) : Own(text[i])

\* On a connection that only commands use, there are no operations but theirs, and a
\* session is opened when there is none.
PlainPcs ==
    /\ op.pc \in {"idle", "session", "hello", "capability", "send", "run"}
    /\ op.pc # "idle" => op.of \in {"execute", "onoutput"}
    /\ op.pc = "session" => ~client.sock
    /\ op.pc \in {"hello", "capability"} => op.own

\* Between commands that end with a marker, nothing is asked of the device and it has
\* nothing more to say.
PlainQuiet ==
    op.pc = "hello" \/ (op.pc \in {"idle", "send"} /\ client.sock /\ Posix) =>
        NothingAsked /\ ~Has(wire, "out")

\* The probe asks for a marker alone; once it has come, nothing else will.
PlainProbing ==
    op.pc = "capability" =>
        /\ \A i \in 1..Len(dev.input) : dev.input[i].k = "printf" => i = Len(dev.input)
        /\ \A i \in 1..Len(dev.input) : dev.input[i].k # "command"
        /\ Has(wire, "out") => config.device # "posix"
        /\ Answered(op.got) \/ Answered(wire) => NothingAsked /\ config.device = "posix"

\* A command that a marker ends has asked for all that is on the way, and its marker
\* is the last of it.
PlainRunning ==
    op.pc = "run" /\ op.of = "execute" /\ Posix =>
        /\ \A i \in 1..Len(dev.input) : dev.input[i].k = "printf" => i = Len(dev.input)
        /\ \A i \in 1..Len(dev.input) : dev.input[i].k \in {"command", "printf"} => dev.input[i].n = op.n
        /\ \A i \in 1..Len(op.got) : op.got[i].k = "out" => op.got[i].n = op.n
        /\ \A i \in 1..Len(wire) : wire[i].k = "out" => wire[i].n = op.n
        /\ Answered(op.got) => NothingAsked /\ ~Has(wire, "out")
        /\ \A i \in 1..Len(wire) : Own(wire[i]) =>
              NothingAsked /\ \A j \in 1..Len(wire) : wire[j].k = "out" => j <= i

Plain == ~config.gateway => PlainPcs /\ PlainQuiet /\ PlainProbing /\ PlainRunning

LEMMA AskedAlone ==
  ASSUME ConsoleBase, NothingAsked, NEW pc \in Pcs, wire' = wire,
         NEW inputs \in {Printf, PlainCommand, CommandWithPrintf}, Sent(pc, inputs)
  PROVE  /\ op'.pc = pc /\ op'.of = op.of /\ op'.own = op.own /\ op'.got = <<>>
         /\ \A i \in 1..Len(dev'.input) : dev'.input[i].k \in {"command", "printf"} => dev'.input[i].n = op'.n
         /\ \A i \in 1..Len(dev'.input) : dev'.input[i].k = "printf" => i = Len(dev'.input)
         /\ inputs = Printf => \A i \in 1..Len(dev'.input) : dev'.input[i].k # "command"
         /\ \A i \in 1..Len(wire') : wire'[i].n # op'.n
<1>1. /\ inputs \in Seq(Inputs) /\ \A j \in 1..Len(inputs) : inputs[j].n = Fresh
      /\ \A j \in 1..Len(inputs) : inputs[j].k = "printf" => j = Len(inputs)
      /\ inputs = Printf => \A j \in 1..Len(inputs) : inputs[j].k # "command"
      /\ Fresh = count.sent + 1
  <2>1. /\ Fresh = count.sent + 1
        /\ Printf \in Seq(Inputs) /\ Len(Printf) = 1 /\ Printf[1] = In("printf", Fresh)
        /\ PlainCommand \in Seq(Inputs) /\ Len(PlainCommand) = 1
        /\ PlainCommand[1] = In("command", Fresh)
        /\ CommandWithPrintf \in Seq(Inputs) /\ Len(CommandWithPrintf) = 2
        /\ CommandWithPrintf[1] = In("command", Fresh)
        /\ CommandWithPrintf[2] = In("printf", Fresh)
    BY InputsTyped DEF ConsoleBase
  <2>2. /\ In("printf", Fresh).n = Fresh /\ In("command", Fresh).n = Fresh
        /\ In("printf", Fresh).k = "printf" /\ In("command", Fresh).k = "command"
    BY DEF In
  <2>3. \A j \in 1..Len(Printf) : Printf[j].k = "printf" /\ Printf[j].n = Fresh /\ j = Len(Printf)
    BY <2>1, <2>2
  <2>4. \A j \in 1..Len(PlainCommand) : PlainCommand[j].k = "command" /\ PlainCommand[j].n = Fresh
    BY <2>1, <2>2
  <2>5. \A j \in 1..Len(CommandWithPrintf) :
            /\ CommandWithPrintf[j].n = Fresh
            /\ CommandWithPrintf[j].k = "printf" => j = Len(CommandWithPrintf)
    BY <2>1, <2>2
  <2>6. CASE inputs = Printf
    BY <2>1, <2>3, <2>6
  <2>7. CASE inputs = PlainCommand
    <3>1. inputs # Printf
      BY <2>1, <2>2, <2>7
    <3> QED  BY <2>1, <2>4, <2>7, <3>1
  <2>8. CASE inputs = CommandWithPrintf
    <3>1. inputs # Printf
      <4>1. Len(inputs) = 2 /\ Len(Printf) = 1
        BY <2>1, <2>8
      <4> QED  BY <4>1
    <3> QED  BY <2>1, <2>5, <2>8, <3>1
  <2> QED  BY <2>6, <2>7, <2>8
<1>2. /\ op'.pc = pc /\ op'.of = op.of /\ op'.own = op.own /\ op'.n = count.sent + 1 /\ op'.got = <<>>
      /\ count.sent \in Nat
      /\ dev'.input = IF live THEN dev.input \o inputs ELSE dev.input
  BY <1>1, SentEffect
<1>3. ASSUME NEW i \in 1..Len(wire) PROVE wire[i].n # count.sent + 1
  <2>1. wire[i] \in Tokens /\ wire[i].n <= count.sent
    BY ElementOfSeq DEF ConsoleBase, ConsoleTyped, Drawn
  <2> QED  BY <1>2, <2>1 DEF Tokens
<1>4. ASSUME NEW i \in 1..Len(dev'.input), dev'.input[i].k \in {"command", "printf"}
      PROVE  /\ dev'.input[i].n = Fresh
             /\ dev'.input[i].k = "printf" => i = Len(dev'.input)
             /\ inputs = Printf => dev'.input[i].k # "command"
  <2> DEFINE u == dev'.input
             s == dev.input
  <2>1. live /\ u = s \o inputs /\ s \in Seq(Inputs) /\ \A j \in 1..Len(s) : s[j].k \notin {"command", "printf"}
    BY <1>2, <1>4 DEF ConsoleBase, ConsoleTyped, DevStates, NothingAsked
  <2> HIDE DEF u, s
  <2>2. /\ Len(s) \in Nat /\ Len(u) = Len(s) + Len(inputs)
        /\ \A m \in 1..Len(u) : \/ m \in 1..Len(s) /\ u[m] = s[m]
                                \/ \E j \in 1..Len(inputs) : m = Len(s) + j /\ u[m] = inputs[j]
    <3>1. /\ Len(s) \in Nat /\ Len(s \o inputs) = Len(s) + Len(inputs)
          /\ \A m \in 1..Len(s \o inputs) :
                \/ m \in 1..Len(s) /\ (s \o inputs)[m] = s[m]
                \/ \E j \in 1..Len(inputs) : m = Len(s) + j /\ (s \o inputs)[m] = inputs[j]
      BY <1>1, <2>1, Joined
    <3> QED  BY <2>1, <3>1
  <2>3. i \in 1..Len(u) /\ u[i].k \in {"command", "printf"}
    BY <1>4 DEF u
  <2>4. PICK j \in 1..Len(inputs) : i = Len(s) + j /\ u[i] = inputs[j]
    BY <2>1, <2>2, <2>3
  <2>5. u[i].n = Fresh /\ (u[i].k = "printf" => i = Len(u)) /\ (inputs = Printf => u[i].k # "command")
    BY <1>1, <2>2, <2>4
  <2> QED  BY <2>5 DEF u
<1> QED  BY <1>1, <1>2, <1>3, <1>4

LEMMA PlainDeviceReads ==
  ASSUME ConsoleBase, ~config.gateway, Plain, DeviceReads
  PROVE  Plain'
<1>1. /\ ConsoleTyped /\ dev.input \in Seq(Inputs) /\ wire \in Seq(Tokens)
      /\ UNCHANGED <<config, client, op, live>>
      /\ PlainPcs /\ PlainQuiet /\ PlainProbing /\ PlainRunning
  BY DEF ConsoleBase, ConsoleTyped, DevStates, DeviceReads, Plain
<1>2. dev.input # <<>> /\ dev'.input = Tail(dev.input)
  BY <1>1, DeviceReadsEffect
<1>3. PICK text : Reading(Head(dev.input), text) /\ wire' = IF live THEN wire \o text ELSE wire
  BY <1>1, DeviceReadsEffect
<1> DEFINE in == Head(dev.input)
<1>4. /\ in = dev.input[1] /\ 1 \in 1..Len(dev.input)
      /\ Len(dev.input) \in Nat /\ Len(dev'.input) = Len(dev.input) - 1
      /\ \A i \in 1..Len(dev'.input) : i + 1 \in 1..Len(dev.input) /\ dev'.input[i] = dev.input[i + 1]
  BY <1>1, <1>2, Tailed
<1>5. /\ text \in Seq(Tokens)
      /\ \A j \in 1..Len(text) :
          /\ text[j].k = "out" => /\ in.k \in {"command", "printf"} /\ text[j].n = in.n
                                  /\ in.k = "printf" => config.device # "posix"
          /\ text[j].k = "marker" => in.k = "printf" /\ config.device = "posix"
  BY <1>3 DEF Reading
<1>6. /\ Len(wire) \in Nat /\ \A i \in 1..Len(wire) : i <= Len(wire)
      /\ \A i \in 1..Len(wire') : \/ i \in 1..Len(wire) /\ wire'[i] = wire[i]
                                  \/ \E j \in 1..Len(text) : i > Len(wire) /\ wire'[i] = text[j]
  <2>1. Len(wire) \in Nat /\ \A i \in 1..Len(wire) : i <= Len(wire)
    BY <1>1, LenProperties
  <2>2. CASE live
    <3>1. /\ \A i \in 1..Len(wire \o text) :
                \/ i \in 1..Len(wire) /\ (wire \o text)[i] = wire[i]
                \/ \E j \in 1..Len(text) : i = Len(wire) + j /\ (wire \o text)[i] = text[j]
      BY <1>1, <1>5, Joined
    <3>2. \A j \in 1..Len(text) : Len(wire) + j > Len(wire)
      BY <2>1
    <3>3. wire' = wire \o text
      BY <1>3, <2>2
    <3> QED  BY <2>1, <3>1, <3>2, <3>3
  <2>3. CASE ~live
    BY <1>3, <2>1, <2>3
  <2> QED  BY <2>2, <2>3
<1> HIDE DEF in
<1>7. NothingAsked => NothingAsked' /\ \A j \in 1..Len(text) : text[j].k \notin {"out", "marker"}
  BY <1>4, <1>5 DEF NothingAsked
<1>8. PlainPcs'
  BY <1>1 DEF PlainPcs
<1>9. PlainQuiet'
  <2>1. NothingAsked /\ ~Has(wire, "out") => NothingAsked' /\ ~Has(wire', "out")
    BY <1>6, <1>7 DEF Has
  <2> QED  BY <1>1, <2>1 DEF PlainQuiet, Posix
<1>10. (\A i \in 1..Len(dev.input) : dev.input[i].k = "printf" => i = Len(dev.input)) =>
          /\ \A i \in 1..Len(dev'.input) : dev'.input[i].k = "printf" => i = Len(dev'.input)
          /\ in.k = "printf" => NothingAsked'
  <2> SUFFICES ASSUME \A i \in 1..Len(dev.input) : dev.input[i].k = "printf" => i = Len(dev.input)
               PROVE  /\ \A i \in 1..Len(dev'.input) : dev'.input[i].k = "printf" => i = Len(dev'.input)
                      /\ in.k = "printf" => NothingAsked'
    OBVIOUS
  <2>1. ASSUME NEW i \in 1..Len(dev'.input), dev'.input[i].k = "printf" PROVE i = Len(dev'.input)
    <3>1. i + 1 = Len(dev.input)
      BY <1>4, <2>1
    <3> QED  BY <1>4, <3>1
  <2>2. ASSUME in.k = "printf" PROVE NothingAsked'
    <3>1. 1 = Len(dev.input)
      BY <1>4, <2>2
    <3>2. \A i \in 1..Len(dev'.input) : FALSE
      BY <1>4, <3>1
    <3> QED  BY <3>2 DEF NothingAsked
  <2> QED  BY <2>1, <2>2
<1>11. PlainProbing'
  <2> SUFFICES ASSUME op.pc = "capability"
               PROVE  /\ \A i \in 1..Len(dev'.input) : dev'.input[i].k = "printf" => i = Len(dev'.input)
                      /\ \A i \in 1..Len(dev'.input) : dev'.input[i].k # "command"
                      /\ Has(wire', "out") => config.device # "posix"
                      /\ Answered(op.got) \/ (\E i \in 1..Len(wire') : Own(wire'[i])) =>
                            NothingAsked' /\ config.device = "posix"
    BY <1>1 DEF PlainProbing, Answered, Own
  <2>1. /\ \A i \in 1..Len(dev.input) : dev.input[i].k = "printf" => i = Len(dev.input)
        /\ \A i \in 1..Len(dev.input) : dev.input[i].k # "command"
        /\ Has(wire, "out") => config.device # "posix"
        /\ Answered(op.got) \/ Answered(wire) => NothingAsked /\ config.device = "posix"
    BY <1>1 DEF PlainProbing
  <2>2. Has(wire', "out") => config.device # "posix"
    BY <1>4, <1>5, <1>6, <2>1 DEF Has
  <2>3. ASSUME NEW i \in 1..Len(wire'), Own(wire'[i]) PROVE NothingAsked' /\ config.device = "posix"
    <3>1. CASE i \in 1..Len(wire) /\ wire'[i] = wire[i]
      BY <1>7, <2>1, <2>3, <3>1 DEF Answered
    <3>2. CASE \E j \in 1..Len(text) : wire'[i] = text[j]
      BY <1>5, <1>10, <2>1, <2>3, <3>2 DEF Own
    <3> QED  BY <1>6, <3>1, <3>2
  <2>4. \A i \in 1..Len(dev'.input) : dev'.input[i].k # "command"
    BY <1>4, <2>1
  <2> QED  BY <1>7, <1>10, <2>1, <2>2, <2>3, <2>4
<1>12. PlainRunning'
  <2> SUFFICES ASSUME op.pc = "run" /\ op.of = "execute" /\ Posix
               PROVE  /\ \A i \in 1..Len(dev'.input) : dev'.input[i].k = "printf" => i = Len(dev'.input)
                      /\ \A i \in 1..Len(dev'.input) : dev'.input[i].k \in {"command", "printf"} => dev'.input[i].n = op.n
                      /\ \A i \in 1..Len(op.got) : op.got[i].k = "out" => op.got[i].n = op.n
                      /\ \A i \in 1..Len(wire') : wire'[i].k = "out" => wire'[i].n = op.n
                      /\ Answered(op.got) => NothingAsked' /\ ~Has(wire', "out")
                      /\ \A i \in 1..Len(wire') : Own(wire'[i]) =>
                            NothingAsked' /\ \A j \in 1..Len(wire') : wire'[j].k = "out" => j <= i
    BY <1>1 DEF PlainRunning, Answered, Own, Posix
  <2>1. /\ \A i \in 1..Len(dev.input) : dev.input[i].k = "printf" => i = Len(dev.input)
        /\ \A i \in 1..Len(dev.input) : dev.input[i].k \in {"command", "printf"} => dev.input[i].n = op.n
        /\ \A i \in 1..Len(op.got) : op.got[i].k = "out" => op.got[i].n = op.n
        /\ \A i \in 1..Len(wire) : wire[i].k = "out" => wire[i].n = op.n
        /\ Answered(op.got) => NothingAsked /\ ~Has(wire, "out")
        /\ \A i \in 1..Len(wire) : Own(wire[i]) =>
              NothingAsked /\ \A j \in 1..Len(wire) : wire[j].k = "out" => j <= i
    BY <1>1 DEF PlainRunning
  <2>2. \A i \in 1..Len(dev'.input) : dev'.input[i].k \in {"command", "printf"} => dev'.input[i].n = op.n
    BY <1>4, <2>1
  <2>3. \A i \in 1..Len(wire') : wire'[i].k = "out" => wire'[i].n = op.n
    BY <1>4, <1>5, <1>6, <2>1
  <2>4. Answered(op.got) => NothingAsked' /\ ~Has(wire', "out")
    BY <1>6, <1>7, <2>1 DEF Has
  <2>5. ASSUME NEW i \in 1..Len(wire'), Own(wire'[i])
        PROVE  NothingAsked' /\ \A j \in 1..Len(wire') : wire'[j].k = "out" => j <= i
    <3>1. CASE i \in 1..Len(wire) /\ wire'[i] = wire[i]
      BY <1>6, <1>7, <2>1, <2>5, <3>1
    <3>2. CASE \E j \in 1..Len(text) : i > Len(wire) /\ wire'[i] = text[j]
      <4>1. in.k = "printf" /\ config.device = "posix" /\ i > Len(wire)
        BY <1>5, <2>5, <3>2 DEF Own
      <4>2. \A j \in 1..Len(text) : text[j].k # "out"
        BY <1>5, <4>1
      <4>3. ASSUME NEW j \in 1..Len(wire'), wire'[j].k = "out" PROVE j <= i
        <5>1. j \in 1..Len(wire)
          BY <1>6, <4>2, <4>3
        <5> QED  BY <1>6, <4>1, <5>1
      <4> QED  BY <1>10, <2>1, <4>1, <4>3
    <3> QED  BY <1>6, <3>1, <3>2
  <2> QED  BY <1>10, <2>1, <2>2, <2>3, <2>4, <2>5
<1> QED  BY <1>8, <1>9, <1>11, <1>12 DEF Plain
LEMMA PlainRebootsBreaks ==
  ASSUME ConsoleBase, ~config.gateway, Plain, Reboots \/ Breaks
  PROVE  Plain'
<1>1. /\ ConsoleTyped /\ wire \in Seq(Tokens) /\ UNCHANGED <<config, client, op>>
      /\ PlainPcs /\ PlainQuiet /\ PlainProbing /\ PlainRunning
      /\ Len(wire) \in Nat /\ \A i \in 1..Len(wire) : i <= Len(wire)
  <2>1. ConsoleTyped /\ wire \in Seq(Tokens) /\ UNCHANGED <<config, client, op>>
    BY DEF ConsoleBase, ConsoleTyped, Reboots, Breaks
  <2> QED  BY <2>1, LenProperties DEF Plain
<1>2. /\ dev'.input = dev.input \/ dev'.input = <<>>
      /\ \A i \in 1..Len(wire') :
            \/ i \in 1..Len(wire) /\ wire'[i].k = wire[i].k /\ wire'[i].n = wire[i].n
            \/ i > Len(wire) /\ wire'[i].k \notin {"out", "marker"}
  <2>1. CASE Reboots
    <3>1. dev'.input = <<>>
      BY <1>1, <2>1, RebootsEffect
    <3>2. PICK text \in Seq(Tokens) :
             /\ wire' = IF live THEN wire \o text ELSE wire
             /\ \A j \in 1..Len(text) : text[j].n = 0 /\ text[j].k \in {"key", "prompt", "login"}
      BY <1>1, <2>1, RebootsEffect
    <3>3. \A i \in 1..Len(wire') :
             \/ i \in 1..Len(wire) /\ wire'[i] = wire[i]
             \/ i > Len(wire) /\ wire'[i].k \notin {"out", "marker"}
      <4>1. CASE live
        <5>1. \A i \in 1..Len(wire \o text) :
                  \/ i \in 1..Len(wire) /\ (wire \o text)[i] = wire[i]
                  \/ \E j \in 1..Len(text) : i = Len(wire) + j /\ (wire \o text)[i] = text[j]
          BY <1>1, <3>2, Joined
        <5>2. \A j \in 1..Len(text) : Len(wire) + j > Len(wire)
          BY <1>1
        <5>3. wire' = wire \o text
          BY <3>2, <4>1
        <5> QED  BY <3>2, <5>1, <5>2, <5>3
      <4>2. CASE ~live
        BY <3>2, <4>2
      <4> QED  BY <4>1, <4>2
    <3> QED  BY <3>1, <3>3
  <2>2. CASE Breaks
    BY <1>1, <2>2, BreaksEffect
  <2> QED  BY <2>1, <2>2
<1>3. NothingAsked => NothingAsked'
  BY <1>2 DEF NothingAsked
<1>4. Has(wire', "out") => Has(wire, "out")
  BY <1>2 DEF Has
<1>5. PlainPcs' /\ PlainQuiet'
  BY <1>1, <1>3, <1>4 DEF PlainPcs, PlainQuiet, Posix
<1>6. \A i \in 1..Len(dev'.input) : i \in 1..Len(dev.input) /\ dev'.input = dev.input
  BY <1>2
<1>7. PlainProbing'
  <2> SUFFICES ASSUME op.pc = "capability"
               PROVE  /\ \A i \in 1..Len(dev'.input) : dev'.input[i].k = "printf" => i = Len(dev'.input)
                      /\ \A i \in 1..Len(dev'.input) : dev'.input[i].k # "command"
                      /\ Has(wire', "out") => config.device # "posix"
                      /\ Answered(op.got) \/ (\E i \in 1..Len(wire') : Own(wire'[i])) =>
                            NothingAsked' /\ config.device = "posix"
    BY <1>1 DEF PlainProbing, Answered, Own
  <2>1. (\E i \in 1..Len(wire') : Own(wire'[i])) => Answered(wire)
    BY <1>2 DEF Answered, Own
  <2>2. /\ \A i \in 1..Len(dev'.input) : dev'.input[i].k = "printf" => i = Len(dev'.input)
        /\ \A i \in 1..Len(dev'.input) : dev'.input[i].k # "command"
    BY <1>1, <1>6 DEF PlainProbing
  <2> QED  BY <1>1, <1>3, <1>4, <2>1, <2>2 DEF PlainProbing
<1>8. PlainRunning'
  <2> SUFFICES ASSUME op.pc = "run" /\ op.of = "execute" /\ Posix
               PROVE  /\ \A i \in 1..Len(dev'.input) : dev'.input[i].k = "printf" => i = Len(dev'.input)
                      /\ \A i \in 1..Len(dev'.input) : dev'.input[i].k \in {"command", "printf"} => dev'.input[i].n = op.n
                      /\ \A i \in 1..Len(op.got) : op.got[i].k = "out" => op.got[i].n = op.n
                      /\ \A i \in 1..Len(wire') : wire'[i].k = "out" => wire'[i].n = op.n
                      /\ Answered(op.got) => NothingAsked' /\ ~Has(wire', "out")
                      /\ \A i \in 1..Len(wire') : Own(wire'[i]) =>
                            NothingAsked' /\ \A j \in 1..Len(wire') : wire'[j].k = "out" => j <= i
    BY <1>1 DEF PlainRunning, Answered, Own, Posix
  <2>1. /\ \A i \in 1..Len(dev'.input) : dev'.input[i].k = "printf" => i = Len(dev'.input)
        /\ \A i \in 1..Len(dev'.input) : dev'.input[i].k \in {"command", "printf"} => dev'.input[i].n = op.n
    BY <1>1, <1>6 DEF PlainRunning
  <2>2. \A i \in 1..Len(wire') : wire'[i].k = "out" => wire'[i].n = op.n
    BY <1>1, <1>2 DEF PlainRunning
  <2>3. ASSUME NEW i \in 1..Len(wire'), Own(wire'[i])
        PROVE  NothingAsked' /\ \A j \in 1..Len(wire') : wire'[j].k = "out" => j <= i
    <3>1. i \in 1..Len(wire) /\ Own(wire[i])
      BY <1>2, <2>3 DEF Own
    <3>2. NothingAsked /\ \A j \in 1..Len(wire) : wire[j].k = "out" => j <= i
      BY <1>1, <3>1 DEF PlainRunning
    <3> QED  BY <1>2, <1>3, <3>2
  <2> QED  BY <1>1, <1>3, <1>4, <2>1, <2>2, <2>3 DEF PlainRunning
<1> QED  BY <1>5, <1>7, <1>8 DEF Plain

LEMMA PlainReceives ==
  ASSUME ConsoleBase, ~config.gateway, Plain, Receive
  PROVE  Plain'
<1>1. /\ ConsoleTyped /\ wire \in Seq(Tokens) /\ op \in Opers /\ op.got \in Seq(Tokens)
      /\ UNCHANGED <<config, dev, client, live>> /\ op.pc \in {"hello", "capability", "run"}
      /\ PlainPcs /\ PlainQuiet /\ PlainProbing /\ PlainRunning
  BY DEF ConsoleBase, ConsoleTyped, Opers, Receive, Plain
<1>2. PICK p \in Packets : Gone(p) /\ op' = [op EXCEPT !.got = @ \o p]
  BY DEF Receive
<1>3. /\ op'.pc = op.pc /\ op'.of = op.of /\ op'.own = op.own /\ op'.n = op.n
      /\ op'.got = op.got \o p
  BY <1>1, <1>2 DEF Opers
<1>4. PICK m \in 1..Len(wire) :
        /\ p \in Seq(Tokens) /\ Len(p) = m /\ Len(wire) \in Nat /\ Len(wire') = Len(wire) - m
        /\ \A j \in 1..Len(p) : j \in 1..Len(wire) /\ p[j] = wire[j]
        /\ \A j \in 1..Len(wire') : j + m \in 1..Len(wire) /\ wire'[j] = wire[j + m]
  BY <1>1, <1>2, PacketEffect
<1>5. \A i \in 1..Len(op'.got) : \/ i \in 1..Len(op.got) /\ op'.got[i] = op.got[i]
                                 \/ \E j \in 1..m : j \in 1..Len(wire) /\ op'.got[i] = wire[j]
  <2> DEFINE u == op'.got
             s == op.got
  <2>1. u = s \o p /\ s \in Seq(Tokens)
    BY <1>1, <1>3
  <2> HIDE DEF u, s
  <2>2. \A i \in 1..Len(u) : (i \in 1..Len(s) /\ u[i] = s[i]) \/ \E j \in 1..Len(p) : u[i] = p[j]
    <3>1. p \in Seq(Tokens)
      BY <1>4
    <3> QED  BY <2>1, <3>1, JoinedElements
  <2>3. \A i \in 1..Len(u) : \/ i \in 1..Len(s) /\ u[i] = s[i]
                             \/ \E j \in 1..m : j \in 1..Len(wire) /\ u[i] = wire[j]
    BY <1>4, <2>2
  <2> QED  BY <2>3 DEF u, s
<1>6. Has(wire', "out") => Has(wire, "out")
  BY <1>4 DEF Has
<1>7. PlainPcs' /\ PlainQuiet'
  <2>1. NothingAsked' <=> NothingAsked
    BY <1>1 DEF NothingAsked
  <2> QED  BY <1>1, <1>3, <1>6, <2>1 DEF PlainPcs, PlainQuiet, Posix
<1> DEFINE Mine(t) == t.k = "marker" /\ t.n = op.n
<1>8. \A t : Own(t)' <=> Own(t)
  BY <1>3 DEF Own
<1>9. (\E i \in 1..Len(op'.got) : Own(op'.got[i])) \/ (\E i \in 1..Len(wire') : Own(wire'[i])) =>
         Answered(op.got) \/ Answered(wire)
  BY <1>4, <1>5 DEF Answered
<1>10. PlainProbing'
  <2> SUFFICES ASSUME op.pc = "capability"
               PROVE  /\ \A i \in 1..Len(dev.input) : dev.input[i].k = "printf" => i = Len(dev.input)
                      /\ \A i \in 1..Len(dev.input) : dev.input[i].k # "command"
                      /\ Has(wire', "out") => config.device # "posix"
                      /\ (\E i \in 1..Len(op'.got) : Own(op'.got[i])) \/ (\E i \in 1..Len(wire') : Own(wire'[i])) =>
                            NothingAsked /\ config.device = "posix"
    BY <1>1, <1>3 DEF PlainProbing, Answered, Own, NothingAsked
  <2> QED  BY <1>1, <1>6, <1>9 DEF PlainProbing
<1>11. PlainRunning'
  <2> SUFFICES ASSUME op.pc = "run" /\ op.of = "execute" /\ Posix
               PROVE  /\ \A i \in 1..Len(dev.input) : dev.input[i].k = "printf" => i = Len(dev.input)
                      /\ \A i \in 1..Len(dev.input) : dev.input[i].k \in {"command", "printf"} => dev.input[i].n = op.n
                      /\ \A i \in 1..Len(op'.got) : op'.got[i].k = "out" => op'.got[i].n = op.n
                      /\ \A i \in 1..Len(wire') : wire'[i].k = "out" => wire'[i].n = op.n
                      /\ (\E i \in 1..Len(op'.got) : Own(op'.got[i])) => NothingAsked /\ ~Has(wire', "out")
                      /\ \A i \in 1..Len(wire') : Own(wire'[i]) =>
                            NothingAsked /\ \A j \in 1..Len(wire') : wire'[j].k = "out" => j <= i
    BY <1>1, <1>3 DEF PlainRunning, Answered, Own, NothingAsked, Posix
  <2>1. /\ \A i \in 1..Len(dev.input) : dev.input[i].k = "printf" => i = Len(dev.input)
        /\ \A i \in 1..Len(dev.input) : dev.input[i].k \in {"command", "printf"} => dev.input[i].n = op.n
        /\ \A i \in 1..Len(op.got) : op.got[i].k = "out" => op.got[i].n = op.n
        /\ \A i \in 1..Len(wire) : wire[i].k = "out" => wire[i].n = op.n
        /\ Answered(op.got) => NothingAsked /\ ~Has(wire, "out")
        /\ \A i \in 1..Len(wire) : Own(wire[i]) =>
              NothingAsked /\ \A j \in 1..Len(wire) : wire[j].k = "out" => j <= i
    BY <1>1 DEF PlainRunning
  <2>2. /\ \A i \in 1..Len(op'.got) : op'.got[i].k = "out" => op'.got[i].n = op.n
        /\ \A i \in 1..Len(wire') : wire'[i].k = "out" => wire'[i].n = op.n
    <3>1. \A i \in 1..Len(wire') : wire'[i].k = "out" => wire'[i].n = op.n
      BY <1>4, <2>1
    <3>2. \A i \in 1..Len(op'.got) : op'.got[i].k = "out" => op'.got[i].n = op.n
      BY <1>5, <2>1
    <3> QED  BY <3>1, <3>2
  <2>3. ASSUME NEW i \in 1..Len(op'.got), Own(op'.got[i]) PROVE NothingAsked /\ ~Has(wire', "out")
    <3>1. CASE i \in 1..Len(op.got) /\ op'.got[i] = op.got[i]
      BY <1>6, <2>1, <2>3, <3>1 DEF Answered
    <3>2. ASSUME NEW j \in 1..m, j \in 1..Len(wire), op'.got[i] = wire[j]
          PROVE  NothingAsked /\ ~Has(wire', "out")
      <4>1. NothingAsked /\ \A x \in 1..Len(wire) : wire[x].k = "out" => x <= j
        BY <2>1, <2>3, <3>2
      <4>2. \A x \in 1..Len(wire') : ~(x + m <= j)
        BY <1>4
      <4> QED  BY <1>4, <4>1, <4>2 DEF Has
    <3> QED  BY <1>5, <3>1, <3>2
  <2>4. ASSUME NEW i \in 1..Len(wire'), Own(wire'[i])
        PROVE  NothingAsked /\ \A j \in 1..Len(wire') : wire'[j].k = "out" => j <= i
    <3>1. /\ i + m \in 1..Len(wire) /\ Own(wire[i + m])
      BY <1>4, <2>4
    <3>2. NothingAsked /\ \A x \in 1..Len(wire) : wire[x].k = "out" => x <= i + m
      BY <2>1, <3>1
    <3>3. \A j \in 1..Len(wire') : j + m <= i + m => j <= i
      BY <1>4
    <3> QED  BY <1>4, <3>2, <3>3
  <2> QED  BY <2>1, <2>2, <2>3, <2>4
<1> QED  BY <1>7, <1>10, <1>11 DEF Plain
\* The prompt has come and the command of the operation is sent.
LEMMA PlainSends ==
  ASSUME ConsoleBase, ~config.gateway, Plain,
         Hello \/ Capability \/ SendBusiness
  PROVE  Plain'
<1>1. /\ ConsoleTyped /\ Connected /\ UNCHANGED <<config, wire, live>>
      /\ PlainPcs /\ PlainQuiet /\ PlainProbing /\ PlainRunning
      /\ op \in Opers /\ client \in Clients
  BY DEF ConsoleBase, ConsoleTyped, Hello, Capability, SendBusiness, Plain
<1>2. op.of \in {"execute", "onoutput"} /\ client.sock
  BY <1>1 DEF PlainPcs, Hello, Capability, SendBusiness, Connected
\* To a device of which nothing is asked, a command or a probe is sent.
<1>3. ASSUME NothingAsked, ~Has(wire, "out"), NEW pc \in {"run", "capability"},
             NEW inputs \in {Printf, PlainCommand, CommandWithPrintf}, Sent(pc, inputs),
             pc = "capability" => inputs = Printf /\ op.own
      PROVE  Plain'
  <2>1. /\ op'.pc = pc /\ op'.of = op.of /\ op'.own = op.own /\ op'.got = <<>>
        /\ \A i \in 1..Len(dev'.input) : dev'.input[i].k \in {"command", "printf"} => dev'.input[i].n = op'.n
        /\ \A i \in 1..Len(dev'.input) : dev'.input[i].k = "printf" => i = Len(dev'.input)
        /\ inputs = Printf => \A i \in 1..Len(dev'.input) : dev'.input[i].k # "command"
        /\ \A i \in 1..Len(wire') : wire'[i].n # op'.n
    BY <1>1, <1>3, AskedAlone DEF Pcs
  <2>2. /\ ~Has(wire', "out") /\ \A i \in 1..Len(op'.got) : FALSE
    BY <1>1, <1>3, <2>1
  <2>3. \A i \in 1..Len(wire') : wire'[i].k # "out"
    BY <2>2 DEF Has
  <2>4. PlainPcs' /\ PlainQuiet'
    BY <1>2, <1>3, <2>1 DEF PlainPcs, PlainQuiet
  <2>5. PlainProbing'
    BY <1>3, <2>1, <2>2 DEF PlainProbing, Answered, Own
  <2>6. PlainRunning'
    BY <2>1, <2>2, <2>3 DEF PlainRunning, Answered, Own
  <2> QED  BY <2>4, <2>5, <2>6 DEF Plain
\* A command whose end is no marker of its own.
<1>4. ASSUME NEW inputs, Sent("run", inputs), op.of = "onoutput" \/ client'.mode # "posix"
      PROVE  Plain'
  <2>1. op'.pc = "run" /\ op'.of = op.of
    BY <1>1, <1>4 DEF Sent, Opers
  <2> QED  BY <1>2, <1>4, <2>1 DEF Plain, PlainPcs, PlainQuiet, PlainProbing, PlainRunning, Posix
<1>5. ASSUME NEW c, Framed(c) PROVE client' = c /\ CommandSent(c.mode)
  <2>1. SendCommand(c) /\ client' = c
    BY <1>2, <1>5 DEF Framed
  <2> QED  BY <2>1, SendCommandEffect
<1>6. CASE Hello
  <2>1. NothingAsked /\ ~Has(wire, "out") /\ op.own
    BY <1>1, <1>6 DEF PlainQuiet, PlainPcs, Hello
  <2>2. CASE SendCapabilityProbe
    <3>1. Sent("capability", Printf)
      BY <2>2 DEF SendCapabilityProbe, Sent, Printf
    <3> QED  BY <1>3, <2>1, <3>1
  <2>3. CASE Framed([client EXCEPT !.prompt = TRUE, !.mode = config.mode])
    <3>1. PICK c : CommandSent(c.mode)
      BY <1>5, <2>3
    <3>2. Sent("run", PlainCommand) \/ Sent("run", CommandWithPrintf)
      BY <3>1 DEF CommandSent
    <3> QED  BY <1>3, <2>1, <3>2
  <2> QED  BY <1>6, <2>2, <2>3 DEF Hello
<1>7. CASE Capability
  <2>1. op.pc = "capability" /\ op.got \in Seq(Tokens)
    BY <1>1, <1>7 DEF Capability, Opers
  <2>2. CASE HasCode(op.got, op.n)
    <3>1. Answered(op.got)
      BY <2>2 DEF HasCode, Markers, Answered, Own
    <3>2. NothingAsked /\ ~Has(wire, "out")
      BY <1>1, <2>1, <3>1 DEF PlainProbing
    <3>3. PICK c : Framed(c)
      BY <1>7 DEF Capability
    <3>4. Sent("run", PlainCommand) \/ Sent("run", CommandWithPrintf)
      BY <1>5, <3>3 DEF CommandSent
    <3> QED  BY <1>3, <3>2, <3>4
  <2>3. CASE ~HasCode(op.got, op.n)
    <3>1. Framed([client EXCEPT !.mode = "prompt_only"])
      BY <1>7, <2>3 DEF Capability
    <3> DEFINE c == [client EXCEPT !.mode = "prompt_only"]
    <3>2. c.mode = "prompt_only"
      BY <1>1 DEF Clients
    <3> HIDE DEF c
    <3>3. client' = c /\ CommandSent(c.mode)
      BY <1>5, <3>1 DEF c
    <3>4. client'.mode # "posix" /\ (Sent("run", PlainCommand) \/ Sent("run", CommandWithPrintf))
      BY <3>2, <3>3 DEF CommandSent
    <3> QED  BY <1>4, <3>4
  <2> QED  BY <2>2, <2>3
<1>8. CASE SendBusiness
  <2>1. client' = client /\ op.pc = "send"
    BY <1>8 DEF SendBusiness
  <2>2. Sent("run", PlainCommand) \/ Sent("run", CommandWithPrintf)
    BY <1>8, SendCommandEffect DEF SendBusiness, CommandSent
  <2>3. CASE op.of = "onoutput" \/ client.mode # "posix"
    BY <1>4, <2>1, <2>2, <2>3
  <2>4. CASE client.mode = "posix"
    <3>1. NothingAsked /\ ~Has(wire, "out")
      BY <1>1, <1>2, <2>1, <2>4 DEF PlainQuiet, Posix
    <3> QED  BY <1>3, <2>2, <3>1
  <2> QED  BY <2>3, <2>4
<1> QED  BY <1>6, <1>7, <1>8

\* An operation that begins finds the connection as the last one left it, or opens one.
LEMMA PlainBegins ==
  ASSUME ConsoleBase, ~config.gateway, Plain, Operations \/ OpenSession
  PROVE  Plain'
<1>1. /\ config' = config /\ op \in Opers /\ dev \in DevStates /\ client \in Clients
      /\ PlainPcs /\ PlainQuiet
  BY DEF ConsoleBase, ConsoleTyped, Operations, Check, Execute, ExecuteOnOutput, Console, OpenSession, Plain
<1>2. CASE Operations
  <2>1. Execute \/ ExecuteOnOutput
    BY <1>2 DEF Operations, Check, Console
  <2>2. /\ UNCHANGED <<dev, wire, client>> /\ op.pc = "idle"
        /\ op'.pc = IF ~client.sock THEN "session" ELSE "send"
        /\ op'.of \in {"execute", "onoutput"}
    <3>1. CASE Execute
      <4>1. PICK expect \in BOOLEAN :
            op' = [Idle EXCEPT !.of = "execute", !.expect = expect,
                     !.pc = IF ~client.sock THEN "session"
                            ELSE IF config.gateway /\ ~client.prompt THEN "prepare" ELSE "send"]
        BY <3>1 DEF Execute
      <4>2. op'.pc = (IF ~client.sock THEN "session" ELSE "send") /\ op'.of = "execute"
        BY <4>1 DEF Idle
      <4> QED  BY <3>1, <4>2 DEF Execute
    <3>2. CASE ExecuteOnOutput
      <4>1. op' = [Idle EXCEPT !.of = "onoutput", !.pc = IF client.sock THEN "send" ELSE "session"]
        BY <3>2 DEF ExecuteOnOutput, Begin
      <4>2. op'.pc = (IF ~client.sock THEN "session" ELSE "send") /\ op'.of = "onoutput"
        BY <4>1 DEF Idle
      <4> QED  BY <3>2, <4>2 DEF ExecuteOnOutput, Begin
    <3> QED  BY <2>1, <3>1, <3>2
  <2>3. PlainPcs'
    BY <2>2 DEF PlainPcs
  <2>4. PlainQuiet'
    BY <1>1, <2>2 DEF PlainQuiet, NothingAsked, Posix
  <2> QED  BY <2>2, <2>3, <2>4 DEF Plain, PlainProbing, PlainRunning
<1>3. CASE OpenSession
  <2>1. /\ op' = [op EXCEPT !.pc = "hello", !.own = TRUE] /\ Connects
        /\ dev' = [dev EXCEPT !.input = <<In("line", 0)>>] /\ op.pc = "session"
    BY <1>3 DEF OpenSession
  <2>2. /\ op'.pc = "hello" /\ op'.own /\ op'.of = op.of /\ dev'.input = <<In("line", 0)>>
    BY <1>1, <2>1 DEF Opers, DevStates
  <2>3. \A i \in 1..Len(dev'.input) : dev'.input[i].k = "line"
    <3>1. \A i \in 1..Len(<<In("line", 0)>>) : <<In("line", 0)>>[i].k = "line"
      BY DEF In
    <3> QED  BY <2>2, <3>1
  <2>4. NothingAsked'
    BY <2>3 DEF NothingAsked
  <2>5. ~Has(wire', "out")
    <3>1. dev.state \in {"login", "password", "shell"}
      BY <1>1 DEF DevStates
    <3>2. CASE wire' = <<>>
      BY <3>2 DEF Has
    <3>3. CASE wire' = Greeting(dev.state)
      BY <3>1, <3>3, GreetingTyped DEF Has
    <3> QED  BY <2>1, <3>2, <3>3 DEF Connects
  <2>6. PlainPcs'
    BY <1>1, <2>1, <2>2 DEF PlainPcs
  <2> QED  BY <2>2, <2>4, <2>5, <2>6 DEF Plain, PlainQuiet, PlainProbing, PlainRunning
<1> QED  BY <1>2, <1>3

\* An operation that ends leaves no connection, or one on which its own marker has come.
LEMMA PlainQuits ==
  ASSUME ConsoleBase, ~config.gateway, Plain,
         \/ LoginFails \/ SessionFails \/ ConnectFails \/ TimedOut \/ SendFails \/ StreamEnds \/ ProbeEnds
         \/ Completed \/ ConnectionClosed \/ AnswerOutput
  PROVE  Plain'
<1>1. /\ PlainPcs /\ PlainRunning /\ op.pc \in {"session", "hello", "capability", "run"}
      /\ op.of \in {"execute", "onoutput"} /\ config' = config
  BY DEF Plain, PlainPcs, LoginFails, SessionFails, ConnectFails, TimedOut, SendFails, StreamEnds, ProbeEnds,
         Completed, ConnectionClosed, AnswerOutput, Passive
<1>2. op' = Idle /\ op'.pc = "idle"
  BY QuitsEffect, RestTyped, FinishEffect DEF Quits, AnswerOutput
<1>3. ASSUME ~client'.sock PROVE Plain'
  BY <1>2, <1>3 DEF Plain, PlainPcs, PlainQuiet, PlainProbing, PlainRunning
<1>4. CASE TimedOut \/ SendFails \/ ConnectionClosed \/ AnswerOutput
  BY <1>3, <1>4, RestTyped DEF TimedOut, SendFails, ConnectionClosed, AnswerOutput, Drop
<1>5. CASE SessionFails
  <2>1. op.own
    BY <1>1, <1>5 DEF SessionFails, PlainPcs
  <2>2. client' = Dropped
    BY <1>1, <1>5, <2>1 DEF SessionFails, Drop
  <2> QED  BY <1>3, <2>2, RestTyped
<1>6. CASE ConnectFails
  BY <1>3, <1>6 DEF ConnectFails
<1>7. CASE Completed
  <2>1. UNCHANGED <<client, wire, dev>> /\ op.pc = "run" /\ op.of = "execute" /\ Complete(op.got, op.n)
    BY <1>1, <1>7 DEF Completed
  <2>2. Posix => Answered(op.got)
    BY <2>1 DEF Complete, HasCode, Markers, Answered, Own
  <2>3. Posix => NothingAsked /\ ~Has(wire, "out")
    BY <1>1, <2>1, <2>2 DEF PlainRunning
  <2>4. PlainQuiet'
    BY <1>2, <2>1, <2>3 DEF PlainQuiet, Posix, NothingAsked
  <2> QED  BY <1>2, <2>4 DEF Plain, PlainPcs, PlainProbing, PlainRunning
<1>8. ~LoginFails /\ ~StreamEnds /\ ~ProbeEnds
  BY <1>1 DEF LoginFails, StreamEnds, ProbeEnds, Passive
<1> QED  BY <1>4, <1>5, <1>6, <1>7, <1>8

LEMMA ConfigIsKept == ASSUME Next PROVE config' = config
<1>1. CASE Device \/ Operations \/ PassiveReceive \/ AnswerLogin \/ AnswerPassword \/ OpenSession \/ Receive
  BY <1>1 DEF Device, DeviceReads, Reboots, Breaks, Operations, Check, Execute, ExecuteOnOutput,
     Console, PassiveReceive, AnswerLogin, AnswerPassword, OpenSession, Receive
<1>2. CASE LoggedIn \/ PrepareSession \/ Hello \/ Capability
  BY <1>2 DEF LoggedIn, PrepareSession, Hello, Capability
<1>3. CASE LoginFails \/ SessionFails \/ ConnectFails \/ Command
  BY <1>3 DEF LoginFails, SessionFails, ConnectFails, Command, SendBusiness, SendFails, Completed, TimedOut,
     ConnectionClosed, AnswerOutput
<1>4. CASE Stream
  BY <1>4 DEF Stream, ReadEnds, MarkEnds, WaitEnds, WaitFails, StreamEnds, StreamOverflows,
     SendProbe, ProbeEnds
<1> QED  BY <1>1, <1>2, <1>3, <1>4 DEF Next

LEMMA PlainNext == ASSUME ConsoleBase, Plain, Next PROVE Plain'
<1>1. config' = config
  BY ConfigIsKept
<1>2. CASE config.gateway
  BY <1>1, <1>2 DEF Plain
<1>3. CASE ~config.gateway
  <2>1. op.pc \in {"idle", "session", "hello", "capability", "send", "run"} /\ (op.pc = "session" => ~client.sock)
    BY <1>3 DEF Plain, PlainPcs
  <2>2. /\ ~PassiveReceive /\ ~LoggedIn /\ ~AnswerLogin /\ ~AnswerPassword /\ ~PrepareSession
        /\ ~ReadEnds /\ ~MarkEnds /\ ~WaitEnds /\ ~WaitFails /\ ~StreamOverflows /\ ~SendProbe
    BY <2>1 DEF PassiveReceive, LoggedIn, AnswerLogin, AnswerPassword, PrepareSession, ReadEnds,
       MarkEnds, WaitEnds, WaitFails, StreamOverflows, SendProbe, Passive
  <2> QED  BY <1>3, <2>2, PlainDeviceReads, PlainRebootsBreaks, PlainReceives, PlainSends, PlainBegins,
              PlainQuits DEF Next, Device, Command, Stream
<1> QED  BY <1>2, <1>3

LEMMA OutputIsOwnNext == ASSUME ConsoleBase, Plain, OutputIsOwn, Next PROVE OutputIsOwn'
<1>1. Plain' /\ config' = config
  BY PlainNext, ConfigIsKept
<1>2. CASE result' = result
  BY <1>1, <1>2 DEF OutputIsOwn
<1>3. CASE result'.code = None
  BY <1>3 DEF OutputIsOwn
<1>4. CASE CodedResult /\ ~config.gateway
  <2>1. PICK i \in 1..Len(op.got) : result'.n = op.n /\ result'.text = Cleaned(op.got, op.n)
    BY <1>4, CodedEffect DEF ConsoleBase
  <2>2. op.pc = "run" /\ op.of = "execute" /\ Posix
    BY <1>4 DEF CodedResult, Plain, PlainPcs
  <2>3. \A j \in 1..Len(op.got) : op.got[j].k = "out" => op.got[j].n = op.n
    BY <1>4, <2>2 DEF Plain, PlainRunning
  <2>4. \A t \in Cleaned(op.got, op.n) : t.k = "out" => t.n = op.n
    BY <2>3 DEF Cleaned
  <2> QED  BY <2>1, <2>4 DEF OutputIsOwn
<1>5. CASE config.gateway
  BY <1>1, <1>5 DEF OutputIsOwn
<1> QED  BY <1>2, <1>3, <1>4, <1>5, ResultSteps
-----------------------------------------------------------------------------
(* The configured password.                                                 *)

SaysIn(text, k) == \E i \in 1..Len(text) : text[i].k = k

\* Unless a device had unread input when it was connected to: a password that was sent
\* is the next thing a device at its password prompt reads, and a prompt for the user
\* name or the password was shown by a device that is still there.
SecretNext ==
    /\ ~dev.leaked
    /\ \A i \in 1..Len(dev.input) : dev.input[i].k = "secret" => i = 1 /\ dev.state = "password"

LoginShown ==
    op.pc = "login" =>
        /\ dev.input = <<>>
        /\ SaysIn(wire, "login") \/ SaysIn(client.buf, "login") => dev.state = "login"
        /\ SaysIn(wire, "password") \/ SaysIn(client.buf, "password") => dev.state = "password"

PasswordShown ==
    op.pc = "password" =>
        /\ dev.input = <<>> \/ (dev.input = <<In("user", 0)>> /\ dev.state = "login")
        /\ SaysIn(wire, "password") \/ SaysIn(client.buf, "password") =>
              dev.input = <<>> /\ dev.state = "password"

PasswordFits == ~dev.late => SecretNext /\ LoginShown /\ PasswordShown

LEMMA SecretDeviceReads ==
  ASSUME ConsoleBase, PasswordFits, DeviceReads
  PROVE  PasswordFits'
<1> SUFFICES ASSUME ~dev'.late PROVE SecretNext' /\ LoginShown' /\ PasswordShown'
  BY DEF PasswordFits
<1>1. ConsoleTyped /\ dev.input \in Seq(Inputs) /\ wire \in Seq(Tokens) /\ UNCHANGED <<client, op>>
  BY DEF ConsoleBase, ConsoleTyped, DevStates, DeviceReads
<1>2. /\ dev.input # <<>> /\ dev'.input = Tail(dev.input) /\ dev'.late = dev.late
      /\ dev'.leaked => dev.leaked \/ (Head(dev.input).k = "secret" /\ dev.state = "shell")
  BY <1>1, DeviceReadsEffect
<1>3. PICK text : Reading(Head(dev.input), text) /\ wire' = IF live THEN wire \o text ELSE wire
  BY <1>1, DeviceReadsEffect
<1>4. SecretNext /\ LoginShown /\ PasswordShown
  BY <1>2 DEF PasswordFits
<1>5. /\ Head(dev.input) = dev.input[1] /\ 1 \in 1..Len(dev.input)
      /\ Len(dev.input) \in Nat /\ Len(dev'.input) = Len(dev.input) - 1
      /\ \A i \in 1..Len(dev'.input) : i + 1 \in 1..Len(dev.input) /\ dev'.input[i] = dev.input[i + 1]
  BY <1>1, <1>2, Tailed
<1>6. SecretNext'
  <2>1. ~dev'.leaked
    BY <1>2, <1>4, <1>5 DEF SecretNext
  <2>2. ASSUME NEW i \in 1..Len(dev'.input), dev'.input[i].k = "secret" PROVE FALSE
    <3>1. i + 1 = 1
      BY <1>4, <1>5, <2>2 DEF SecretNext
    <3> QED  BY <3>1
  <2> QED  BY <2>1, <2>2 DEF SecretNext
<1>7. LoginShown'
  BY <1>1, <1>2, <1>4 DEF LoginShown
<1>8. PasswordShown'
  <2> SUFFICES ASSUME op.pc = "password"
               PROVE  dev'.input = <<>> /\ (SaysIn(wire', "password") \/ SaysIn(client.buf, "password") => dev'.state = "password")
    BY <1>1 DEF PasswordShown, SaysIn
  <2>1. /\ dev.input = <<In("user", 0)>>
        /\ ~SaysIn(wire, "password") /\ ~SaysIn(client.buf, "password")
    BY <1>2, <1>4 DEF PasswordShown
  <2>2. Len(dev'.input) = 0 /\ dev'.input \in Seq(Inputs)
    <3>1. Len(dev.input) = 1
      BY <2>1
    <3> QED  BY <1>1, <1>2, <1>5, <3>1, Tailed
  <2>3. dev'.input = <<>>
    BY <2>2, EmptySeq
  <2>4. SaysIn(wire', "password") => dev'.state = "password"
    <3>1. text \in Seq(Tokens) /\ \A j \in 1..Len(text) : text[j].k = "password" => dev'.state = "password"
      BY <1>3 DEF Reading
    <3>2. CASE live
      <4>1. wire' = wire \o text
        BY <1>3, <3>2
      <4>2. \A i \in 1..Len(wire') : \/ i \in 1..Len(wire) /\ wire'[i] = wire[i]
                                     \/ \E j \in 1..Len(text) : wire'[i] = text[j]
        BY <1>1, <3>1, <4>1, JoinedElements
      <4> QED  BY <2>1, <3>1, <4>2 DEF SaysIn
    <3>3. CASE ~live
      BY <1>3, <2>1, <3>3
    <3> QED  BY <3>2, <3>3
  <2> QED  BY <2>1, <2>3, <2>4
<1> QED  BY <1>6, <1>7, <1>8

LEMMA SecretRebootsBreaks ==
  ASSUME ConsoleBase, PasswordFits, Reboots \/ Breaks
  PROVE  PasswordFits'
<1> SUFFICES ASSUME ~dev'.late PROVE SecretNext' /\ LoginShown' /\ PasswordShown'
  BY DEF PasswordFits
<1>1. ConsoleTyped /\ UNCHANGED <<client, op>>
  BY DEF ConsoleBase, Reboots, Breaks
<1>2. CASE Reboots
  <2>1. /\ dev'.input = <<>> /\ dev'.leaked = dev.leaked /\ dev'.late = dev.late
        /\ op.pc \notin {"login", "password", "authenticated"}
    BY <1>1, <1>2, RebootsEffect
  <2>2. \A i \in 1..Len(dev'.input) : FALSE
    BY <2>1
  <2> QED  BY <1>1, <2>1, <2>2 DEF PasswordFits, SecretNext, LoginShown, PasswordShown
<1>3. CASE Breaks
  <2>1. /\ dev' = dev
        /\ \A j \in 1..Len(wire') : j \in 1..Len(wire) /\ wire'[j].k = wire[j].k
    BY <1>1, <1>3, BreaksEffect
  <2>2. SecretNext /\ LoginShown /\ PasswordShown
    BY <2>1 DEF PasswordFits
  <2>3. \A k : SaysIn(wire', k) => SaysIn(wire, k)
    BY <2>1 DEF SaysIn
  <2> QED  BY <1>1, <2>1, <2>2, <2>3 DEF SecretNext, LoginShown, PasswordShown, SaysIn
<1> QED  BY <1>2, <1>3

\* Input that is no password leaves the one that was sent where it is.
LEMMA SecretStays ==
  ASSUME ConsoleBase, PasswordFits, op'.pc \notin {"login", "password"},
         dev'.late = dev.late, dev'.leaked = dev.leaked, dev'.state = dev.state,
         \A i \in 1..Len(dev'.input) : \/ i \in 1..Len(dev.input) /\ dev'.input[i] = dev.input[i]
                                       \/ dev'.input[i].k # "secret"
  PROVE  PasswordFits'
BY DEF PasswordFits, SecretNext, LoginShown, PasswordShown

LEMMA SentNoSecret ==
  ASSUME ConsoleTyped, NEW inputs \in {Printf, PlainCommand, CommandWithPrintf}, Send(inputs)
  PROVE  /\ dev'.late = dev.late /\ dev'.leaked = dev.leaked /\ dev'.state = dev.state
         /\ \A i \in 1..Len(dev'.input) : \/ i \in 1..Len(dev.input) /\ dev'.input[i] = dev.input[i]
                                       \/ dev'.input[i].k # "secret"
<1>1. inputs \in Seq(Inputs) /\ \A j \in 1..Len(inputs) : inputs[j].k # "secret"
  BY InputsTyped DEF In
<1>2. /\ dev'.late = dev.late /\ dev'.leaked = dev.leaked /\ dev'.state = dev.state
      /\ dev'.input = IF live THEN dev.input \o inputs ELSE dev.input
  BY <1>1, SendEffect
<1> DEFINE u == dev'.input
           s == dev.input
<1>3. s \in Seq(Inputs) /\ u = IF live THEN s \o inputs ELSE s
  BY <1>2 DEF ConsoleTyped, DevStates
<1> HIDE DEF u, s
<1>4. \A i \in 1..Len(u) : (i \in 1..Len(s) /\ u[i] = s[i]) \/ u[i].k # "secret"
  <2>1. CASE live
    <3>1. u = s \o inputs
      BY <1>3, <2>1
    <3>2. \A i \in 1..Len(u) : (i \in 1..Len(s) /\ u[i] = s[i]) \/ \E j \in 1..Len(inputs) : u[i] = inputs[j]
      BY <1>1, <1>3, <3>1, JoinedElements
    <3> QED  BY <1>1, <3>2
  <2>2. CASE ~live
    BY <1>3, <2>2
  <2> QED  BY <2>1, <2>2
<1> QED  BY <1>2, <1>4 DEF u, s

LEMMA SecretPackets ==
  ASSUME ConsoleBase, PasswordFits, PassiveReceive
  PROVE  PasswordFits'
<1> SUFFICES ASSUME ~dev'.late PROVE SecretNext' /\ LoginShown' /\ PasswordShown'
  BY DEF PasswordFits
<1>1. ConsoleTyped /\ Connected /\ client.buf \in Seq(Tokens) /\ UNCHANGED <<dev, op>>
  BY DEF ConsoleBase, ConsoleTyped, Clients, PassiveReceive
<1>2. PICK p \in Packets : Gone(p) /\ client' = Fed(client, p)
  BY DEF PassiveReceive
<1>3. PICK m \in 1..Len(wire) :
        /\ p \in Seq(Tokens)
        /\ \A j \in 1..Len(p) : j \in 1..Len(wire) /\ p[j] = wire[j]
        /\ \A j \in 1..Len(wire') : j + m \in 1..Len(wire) /\ wire'[j] = wire[j + m]
  BY <1>1, <1>2, PacketEffect
<1>4. client'.buf = client.buf \o p
  BY <1>1, <1>2, <1>3, FedEffect
<1> DEFINE u == client'.buf
           s == client.buf
<1>5. \A i \in 1..Len(u) : (i \in 1..Len(s) /\ u[i] = s[i]) \/ \E j \in 1..Len(wire) : u[i] = wire[j]
  <2>1. u = s \o p /\ s \in Seq(Tokens) /\ p \in Seq(Tokens)
    BY <1>1, <1>3, <1>4
  <2> HIDE DEF u, s
  <2>2. \A i \in 1..Len(u) : (i \in 1..Len(s) /\ u[i] = s[i]) \/ \E j \in 1..Len(p) : u[i] = p[j]
    <3>1. p \in Seq(Tokens) /\ s \in Seq(Tokens)
      BY <2>1
    <3>2. \A i \in 1..Len(s \o p) :
             (i \in 1..Len(s) /\ (s \o p)[i] = s[i]) \/ \E j \in 1..Len(p) : (s \o p)[i] = p[j]
      BY <3>1, JoinedElements
    <3> QED  BY <2>1, <3>2
  <2> QED  BY <1>3, <2>2
<1>6. \A k : SaysIn(wire', k) \/ SaysIn(client'.buf, k) => SaysIn(wire, k) \/ SaysIn(client.buf, k)
  BY <1>3, <1>5 DEF SaysIn
<1>7. SecretNext /\ LoginShown /\ PasswordShown
  BY <1>1 DEF PasswordFits
<1> QED  BY <1>1, <1>6, <1>7 DEF SecretNext, LoginShown, PasswordShown, SaysIn

\* The credentials are sent at the prompts for them.
LEMMA SecretAnswers ==
  ASSUME ConsoleBase, PasswordFits, AnswerLogin \/ AnswerPassword
  PROVE  PasswordFits'
<1> SUFFICES ASSUME ~dev'.late PROVE SecretNext' /\ LoginShown' /\ PasswordShown'
  BY DEF PasswordFits
<1>1. ConsoleTyped /\ Connected /\ op \in Opers /\ dev.input \in Seq(Inputs)
  BY DEF ConsoleBase, ConsoleTyped, DevStates
<1>2. ASSUME NEW k \in {"user", "secret"}, Send(<<In(k, 0)>>), dev.input = <<>>
      PROVE  \/ dev'.input = <<>> \/ dev'.input = <<In(k, 0)>>
  <2>1. <<In(k, 0)>> \in Seq(Inputs)
    BY DEF In, Inputs
  <2>2. <<>> \o <<In(k, 0)>> = <<In(k, 0)>>
    BY <2>1, ConcatEmptySeq
  <2> QED  BY <1>1, <1>2, <2>2, SendUnnumbered
<1>3. CASE AnswerLogin
  <2>1. /\ Send(<<In("user", 0)>>) /\ client'.buf = client.buf
        /\ Len(client.buf) \in 1..Len(client.buf) /\ client.buf[Len(client.buf)].k = "login"
    BY <1>1, <1>3, RespondEffect DEF AnswerLogin
  <2>2. /\ dev'.leaked = dev.leaked /\ dev'.late = dev.late /\ dev'.state = dev.state
    BY <1>1, <2>1, SendUnnumbered
  <2>3. op.pc = "login" /\ op'.pc = "password" /\ wire' = wire
    BY <1>1, <1>3 DEF AnswerLogin, Opers
  <2>4. /\ ~dev.leaked /\ dev.input = <<>> /\ dev.state = "login"
        /\ ~SaysIn(wire, "password") /\ ~SaysIn(client.buf, "password")
    <3>1. SaysIn(client.buf, "login")
      BY <2>1 DEF SaysIn
    <3>2. dev.input = <<>> /\ dev.state = "login" /\ ~dev.leaked
      BY <2>2, <2>3, <3>1 DEF PasswordFits, LoginShown, SecretNext
    <3> QED  BY <2>2, <2>3, <3>2 DEF PasswordFits, LoginShown
  <2>5. dev'.input = <<>> \/ dev'.input = <<In("user", 0)>>
    BY <1>2, <2>1, <2>4
  <2>6. \A i \in 1..Len(dev'.input) : dev'.input[i].k # "secret"
    <3>1. \A i \in 1..Len(<<In("user", 0)>>) : <<In("user", 0)>>[i].k # "secret"
      BY DEF In
    <3>2. CASE dev'.input = <<>>
      BY <3>2
    <3> QED  BY <2>5, <3>1, <3>2
  <2>7. ~SaysIn(wire', "password") /\ ~SaysIn(client'.buf, "password")
    BY <2>1, <2>3, <2>4
  <2>8. SecretNext' /\ LoginShown'
    BY <2>2, <2>3, <2>4, <2>6 DEF SecretNext, LoginShown
  <2>9. PasswordShown'
    BY <2>2, <2>4, <2>5, <2>7 DEF PasswordShown, SaysIn, In
  <2> QED  BY <2>8, <2>9
<1>4. CASE AnswerPassword
  <2>1. /\ Send(<<In("secret", 0)>>)
        /\ Len(client.buf) \in 1..Len(client.buf) /\ client.buf[Len(client.buf)].k = "password"
    BY <1>1, <1>4, RespondEffect DEF AnswerPassword
  <2>2. /\ dev'.leaked = dev.leaked /\ dev'.late = dev.late /\ dev'.state = dev.state
    BY <1>1, <2>1, SendUnnumbered
  <2>3. op.pc = "password" /\ op'.pc = "authenticated"
    BY <1>1, <1>4 DEF AnswerPassword, Opers
  <2>4. SaysIn(client.buf, "password")
    BY <2>1 DEF SaysIn
  <2>5. ~dev.leaked /\ dev.input = <<>> /\ dev.state = "password"
    BY <2>2, <2>3, <2>4 DEF PasswordFits, PasswordShown, SecretNext
  <2>6. dev'.input = <<>> \/ dev'.input = <<In("secret", 0)>>
    BY <1>2, <2>1, <2>5
  <2>7. \A i \in 1..Len(dev'.input) : i = 1
    <3>1. \A i \in 1..Len(<<In("secret", 0)>>) : i = 1
      OBVIOUS
    <3>2. CASE dev'.input = <<>>
      BY <3>2
    <3> QED  BY <2>6, <3>1, <3>2
  <2> QED  BY <2>2, <2>3, <2>5, <2>7 DEF SecretNext, LoginShown, PasswordShown
<1> QED  BY <1>3, <1>4

\* A self-check begins on a new connection; its late device is not spoken of.
LEMMA SecretBegins ==
  ASSUME ConsoleBase, PasswordFits, Operations \/ OpenSession
  PROVE  PasswordFits'
<1>1. dev \in DevStates /\ op \in Opers /\ dev.input \in Seq(Inputs) /\ client \in Clients
  BY DEF ConsoleBase, ConsoleTyped, DevStates
<1>2. CASE Check
  <2> SUFFICES ASSUME ~dev'.late PROVE SecretNext' /\ LoginShown' /\ PasswordShown'
    BY DEF PasswordFits
  <2>1. /\ dev' = [dev EXCEPT !.late = @ \/ dev.input # <<>>]
        /\ op' = [Idle EXCEPT !.of = "check", !.pc = IF config.login THEN "login" ELSE "session"]
        /\ op'.pc = "login" => client' = [Dropped EXCEPT !.sock = TRUE] /\ Connects
    <3>1. op' = [Idle EXCEPT !.of = "check", !.pc = IF config.login THEN "login" ELSE "session"]
      BY <1>2 DEF Check, Begin
    <3>2. op'.pc = "login" => config.login
      BY <3>1 DEF Idle
    <3> QED  BY <1>2, <3>1, <3>2 DEF Check
  <2>2. op'.pc \in {"login", "session"}
    BY <2>1 DEF Idle
  <2>3. /\ ~dev.late /\ dev.input = <<>> /\ dev'.input = <<>> /\ dev'.leaked = dev.leaked
        /\ dev'.state = dev.state
    <3>1. dev'.late <=> (dev.late \/ dev.input # <<>>)
      BY <1>1, <2>1 DEF DevStates
    <3>2. dev'.input = dev.input /\ dev'.leaked = dev.leaked /\ dev'.state = dev.state
      BY <1>1, <2>1 DEF DevStates
    <3> QED  BY <3>1, <3>2
  <2>4. SecretNext'
    <3>1. \A i \in 1..Len(dev'.input) : FALSE
      BY <2>3
    <3> QED  BY <2>3, <3>1 DEF PasswordFits, SecretNext
  <2>5. LoginShown'
    <3> SUFFICES ASSUME op'.pc = "login"
                 PROVE  /\ SaysIn(wire', "login") \/ SaysIn(client'.buf, "login") => dev'.state = "login"
                        /\ SaysIn(wire', "password") \/ SaysIn(client'.buf, "password") => dev'.state = "password"
      BY <2>3 DEF LoginShown, SaysIn
    <3>1. client'.buf = <<>> /\ Connects
      BY <2>1, RestTyped
    <3>2. \A k : ~SaysIn(client'.buf, k)
      <4>1. \A i \in 1..Len(client'.buf) : FALSE
        BY <3>1
      <4> QED  BY <4>1 DEF SaysIn
    <3>3. /\ SaysIn(wire', "login") => dev'.state = "login"
          /\ SaysIn(wire', "password") => dev'.state = "password"
      <4>1. CASE wire' = <<>>
        <5>1. \A i \in 1..Len(wire') : FALSE
          BY <4>1
        <5> QED  BY <5>1 DEF SaysIn
      <4>2. CASE wire' = Greeting(dev.state)
        <5>1. dev.state \in {"login", "password", "shell"}
          BY <1>1 DEF DevStates
        <5> QED  BY <2>3, <4>2, <5>1, GreetingTyped DEF SaysIn
      <4> QED  BY <3>1, <4>1, <4>2 DEF Connects
    <3> QED  BY <3>2, <3>3
  <2> QED  BY <2>2, <2>4, <2>5 DEF PasswordShown
<1>3. CASE Execute \/ ExecuteOnOutput \/ Console
  <2>1. dev' = dev
    BY <1>3 DEF Execute, ExecuteOnOutput, Console
  <2>2. op'.pc \notin {"login", "password"}
    <3>1. CASE Execute
      <4>1. PICK expect \in BOOLEAN :
            op' = [Idle EXCEPT !.of = "execute", !.expect = expect,
                     !.pc = IF ~client.sock THEN "session"
                            ELSE IF config.gateway /\ ~client.prompt THEN "prepare" ELSE "send"]
        BY <3>1 DEF Execute
      <4> QED  BY <4>1 DEF Idle
    <3>2. CASE ExecuteOnOutput
      BY <3>2 DEF ExecuteOnOutput, Begin, Idle
    <3>3. CASE Console
      BY <3>3 DEF Console, Begin, Idle
    <3> QED  BY <1>3, <3>1, <3>2, <3>3
  <2> QED  BY <2>1, <2>2, SecretStays
<1>4. CASE OpenSession
  <2>1. /\ dev' = [dev EXCEPT !.input = IF config.gateway THEN Append(@, In("line", 0)) ELSE <<In("line", 0)>>]
        /\ op' = [op EXCEPT !.pc = "hello", !.own = TRUE]
    BY <1>4 DEF OpenSession
  <2>2. In("line", 0) \in Inputs /\ In("line", 0).k = "line"
    BY DEF In, Inputs
  <2>3. op'.pc = "hello" /\ dev'.late = dev.late /\ dev'.leaked = dev.leaked /\ dev'.state = dev.state
    BY <1>1, <2>1 DEF Opers, DevStates
  <2>4. \A i \in 1..Len(dev'.input) : \/ i \in 1..Len(dev.input) /\ dev'.input[i] = dev.input[i]
                                      \/ dev'.input[i].k # "secret"
    <3>1. CASE config.gateway
      <4>1. /\ Len(Append(dev.input, In("line", 0))) = Len(dev.input) + 1 /\ Len(dev.input) \in Nat
            /\ \A i \in 1..Len(dev.input) : Append(dev.input, In("line", 0))[i] = dev.input[i]
            /\ Append(dev.input, In("line", 0))[Len(dev.input) + 1] = In("line", 0)
        BY <1>1, <2>2, AppendProperties, LenProperties
      <4>2. \A m \in Nat : \A i \in 1..(m + 1) : i \in 1..m \/ i = m + 1
        OBVIOUS
      <4>3. dev'.input = Append(dev.input, In("line", 0))
        BY <1>1, <2>1, <3>1 DEF DevStates
      <4> QED  BY <2>2, <4>1, <4>2, <4>3
    <3>2. CASE ~config.gateway
      <4>1. \A i \in 1..Len(<<In("line", 0)>>) : <<In("line", 0)>>[i] = In("line", 0)
        OBVIOUS
      <4>2. dev'.input = <<In("line", 0)>>
        BY <1>1, <2>1, <3>2 DEF DevStates
      <4> QED  BY <2>2, <4>1, <4>2
    <3> QED  BY <3>1, <3>2
  <2> QED  BY <2>3, <2>4, SecretStays
<1> QED  BY <1>2, <1>3, <1>4 DEF Operations

LEMMA SecretOthers ==
  ASSUME ConsoleBase, PasswordFits, Next, op'.pc \notin {"login", "password"},
         ~Device, ~AnswerLogin, ~AnswerPassword, ~Operations, ~OpenSession
  PROVE  PasswordFits'
<1>1. ConsoleTyped /\ Connected /\ dev \in DevStates
  BY DEF ConsoleBase, ConsoleTyped
<1>2. \/ dev' = dev
      \/ \E inputs \in {Printf, PlainCommand, CommandWithPrintf} : Send(inputs)
      \/ Send(<<In("line", 0)>>)
  <2>1. CASE LoggedIn \/ PrepareSession \/ Hello \/ Capability
    BY <1>1, <2>1, SettlesEffect DEF Settles, CommandSent, Sent
  <2>2. CASE \/ LoginFails \/ SessionFails \/ ConnectFails \/ TimedOut \/ SendFails \/ StreamEnds \/ ProbeEnds
             \/ Completed \/ ConnectionClosed
    BY <2>2, QuitsEffect DEF Quits
  <2>3. CASE \/ PassiveReceive \/ StreamOverflows \/ Receive \/ ReadEnds \/ MarkEnds \/ WaitFails
    BY <2>3 DEF PassiveReceive, StreamOverflows, Receive, ReadEnds, MarkEnds, WaitFails
  <2>4. CASE WaitEnds \/ AnswerOutput
    BY <1>1, <2>4, WaitEffect DEF AnswerOutput
  <2>5. CASE SendBusiness \/ SendProbe
    BY <2>5, SendCommandEffect DEF SendBusiness, SendProbe, CommandSent, Sent, PlainCommand
  <2> QED  BY <2>1, <2>2, <2>3, <2>4, <2>5 DEF Next, Command, Stream
<1>3. CASE dev' = dev
  BY <1>3, SecretStays
<1>4. CASE \E inputs \in {Printf, PlainCommand, CommandWithPrintf} : Send(inputs)
  BY <1>1, <1>4, SentNoSecret, SecretStays
<1>5. CASE Send(<<In("line", 0)>>)
  <2>1. In("line", 0).k # "secret"
    BY DEF In
  <2>2. /\ dev'.late = dev.late /\ dev'.leaked = dev.leaked /\ dev'.state = dev.state
        /\ \A i \in 1..Len(dev'.input) : \/ i \in 1..Len(dev.input) /\ dev'.input[i] = dev.input[i]
                                         \/ dev'.input[i] = In("line", 0)
    BY <1>1, <1>5, SendUnnumbered
  <2> QED  BY <2>1, <2>2, SecretStays
<1> QED  BY <1>2, <1>3, <1>4, <1>5

LEMMA PasswordFitsNext == ASSUME ConsoleBase, PasswordFits, Next PROVE PasswordFits'
<1>1. CASE Device \/ AnswerLogin \/ AnswerPassword \/ Operations \/ OpenSession \/ PassiveReceive
  BY <1>1, SecretDeviceReads, SecretRebootsBreaks, SecretAnswers, SecretBegins, SecretPackets DEF Device
<1>2. ASSUME ~(Device \/ AnswerLogin \/ AnswerPassword \/ Operations \/ OpenSession \/ PassiveReceive)
      PROVE  op'.pc \notin {"login", "password"}
  <2>1. ConsoleTyped /\ Connected /\ op \in Opers
    BY DEF ConsoleBase, ConsoleTyped
  <2>2. CASE LoggedIn \/ PrepareSession \/ Hello \/ Capability
    <3>1. Settles
      BY <2>1, <2>2, SettlesEffect
    <3>2. \/ \E pc \in {"run", "capability"} : \E inputs : Sent(pc, inputs)
          \/ op' \in {Idle, [op EXCEPT !.pc = "quiet"], [op EXCEPT !.pc = "prompt"]}
      BY <3>1 DEF Settles, CommandSent
    <3>3. ASSUME NEW pc \in {"run", "capability"}, NEW inputs, Sent(pc, inputs) PROVE op'.pc = pc
      BY <2>1, <3>3 DEF Sent, Opers
    <3>4. op' \in {Idle, [op EXCEPT !.pc = "quiet"], [op EXCEPT !.pc = "prompt"]} => op'.pc \in {"idle", "quiet", "prompt"}
      BY <2>1, RestTyped DEF Opers
    <3> QED  BY <3>2, <3>3, <3>4
  <2>3. CASE \/ LoginFails \/ SessionFails \/ ConnectFails \/ TimedOut \/ SendFails \/ StreamEnds \/ ProbeEnds
             \/ Completed \/ ConnectionClosed
    BY <2>3, QuitsEffect, RestTyped DEF Quits
  <2>4. CASE \/ StreamOverflows \/ ReadEnds \/ MarkEnds \/ WaitFails \/ WaitEnds \/ AnswerOutput
    <3>1. op' = Idle
      BY <2>1, <2>4, WaitEffect, NoCommandEffect, FinishEffect
         DEF StreamOverflows, ReadEnds, MarkEnds, WaitFails, AnswerOutput
    <3> QED  BY <3>1, RestTyped
  <2>5. CASE Receive \/ SendBusiness \/ SendProbe
    <3>1. CASE Receive
      BY <2>1, <3>1 DEF Receive, Opers
    <3>2. CASE SendBusiness \/ SendProbe
      BY <2>1, <3>2 DEF SendBusiness, SendCommand, SendProbe, Opers
    <3> QED  BY <2>5, <3>1, <3>2
  <2> QED  BY <1>2, <2>2, <2>3, <2>4, <2>5 DEF Next, Command, Stream
<1> QED  BY <1>1, <1>2, SecretOthers
-----------------------------------------------------------------------------
(* The contract of a console's text.                                        *)

LEMMA Reversed ==
  ASSUME NEW S, NEW s \in Seq(S)
  PROVE  /\ Contract!Reverse(s) \in Seq(S) /\ Len(Contract!Reverse(s)) = Len(s)
         /\ \A i \in 1..Len(s) : Contract!Reverse(s)[i] = s[(Len(s) - i) + 1]
<1> DEFINE f == [i \in 1..Len(s) |-> s[(Len(s) - i) + 1]]
<1>1. Len(s) \in Nat
  BY LenProperties
<1>2. ASSUME NEW i \in 1..Len(s) PROVE s[(Len(s) - i) + 1] \in S
  <2>1. (Len(s) - i) + 1 \in 1..Len(s)
    BY <1>1
  <2> QED  BY <2>1, ElementOfSeq
<1>3. f \in [1..Len(s) -> S]
  BY <1>2
<1>4. f \in Seq(S) /\ Len(f) = Len(s)
  BY <1>1, <1>3, SeqDef, LenProperties
<1> QED  BY <1>4 DEF Contract!Reverse

LEMMA RestIsSuffix ==
  ASSUME NEW S, NEW s \in Seq(S), NEW i \in 0..Len(s), NEW t, t = SubSeq(s, i + 1, Len(s))
  PROVE  Contract!IsSuffix(t, s)
<1>1. /\ t \in Seq(S) /\ Len(t) = Len(s) - i /\ Len(s) \in Nat
      /\ \A j \in 1..Len(t) : j + i \in 1..Len(s) /\ t[j] = s[j + i]
  BY Parted
<1> DEFINE a == Contract!Reverse(t)
           b == Contract!Reverse(s)
<1>2. /\ a \in Seq(S) /\ Len(a) = Len(t) /\ b \in Seq(S) /\ Len(b) = Len(s)
      /\ \A j \in 1..Len(t) : a[j] = t[(Len(t) - j) + 1]
      /\ \A j \in 1..Len(s) : b[j] = s[(Len(s) - j) + 1]
  BY <1>1, Reversed
<1> HIDE DEF a, b
<1>3. ASSUME NEW j \in 1..Len(t) PROVE j \in 1..Len(s) /\ a[j] = b[j]
  <2>1. /\ j \in 1..Len(s) /\ (Len(t) - j) + 1 \in 1..Len(t)
        /\ (Len(t) - j) + 1 + i = (Len(s) - j) + 1
    BY <1>1
  <2>2. t[(Len(t) - j) + 1] = s[(Len(t) - j) + 1 + i]
    BY <1>1, <2>1
  <2> QED  BY <1>2, <2>1, <2>2
<1>4. SubSeq(a, 1, Len(a)) = a
  BY <1>2, SubSeqFull
<1>5. Len(a) \in 0..Len(b)
  BY <1>1, <1>2
<1>6. /\ SubSeq(b, 1, Len(a)) \in Seq(S) /\ Len(SubSeq(b, 1, Len(a))) = Len(a)
      /\ \A j \in 1..Len(a) : SubSeq(b, 1, Len(a))[j] = b[j]
  BY <1>2, <1>5, Parted
<1>7. SubSeq(b, 1, Len(a)) = a
  BY <1>2, <1>3, <1>6, SeqEqual
<1>8. Contract!IsPrefix(a, b)
  BY <1>1, <1>2, <1>4, <1>7 DEF Contract!IsPrefix
<1> QED  BY <1>8 DEF Contract!IsSuffix, a, b

LEMMA PrefixOfJoined ==
  ASSUME NEW S, NEW s \in Seq(S), NEW t \in Seq(S)
  PROVE  Contract!IsPrefix(s, s) /\ Contract!IsPrefix(s, s \o t)
<1>1. /\ s \o t \in Seq(S) /\ Len(s \o t) = Len(s) + Len(t) /\ Len(s) \in Nat /\ Len(t) \in Nat
      /\ \A i \in 1..Len(s) : (s \o t)[i] = s[i]
  BY Joined
<1>2. SubSeq(s, 1, Len(s)) = s
  BY SubSeqFull
<1>3. Len(s) \in 0..Len(s \o t)
  BY <1>1
<1>4. /\ SubSeq(s \o t, 1, Len(s)) \in Seq(S) /\ Len(SubSeq(s \o t, 1, Len(s))) = Len(s)
      /\ \A i \in 1..Len(s) : SubSeq(s \o t, 1, Len(s))[i] = (s \o t)[i]
  BY <1>1, <1>3, Parted
<1>5. SubSeq(s \o t, 1, Len(s)) = s
  BY <1>1, <1>4, SeqEqual
<1> QED  BY <1>1, <1>2, <1>5 DEF Contract!IsPrefix

LEMMA JoinedTokens ==
  ASSUME NEW u \in Seq(Tokens), NEW p \in Seq(Tokens)
  PROVE  /\ u \o p \in Seq(Tokens) /\ Len(u \o p) = Len(u) + Len(p)
         /\ \A i \in 1..Len(u \o p) : \/ i \in 1..Len(u) /\ (u \o p)[i] = u[i]
                                      \/ \E j \in 1..Len(p) : i = Len(u) + j /\ (u \o p)[i] = p[j]
BY Joined

\* What is unread of a text that grows, grows with it; of one that is taken, it is the rest.
LEMMA UnreadGrows ==
  ASSUME NEW c \in Clients, c.cursor <= Len(c.buf), NEW p \in Seq(Tokens),
         NEW d \in Clients, d.buf = c.buf \o p, d.cursor = c.cursor
  PROVE  Unread(d) = Unread(c) \o p
<1>1. /\ Unread(c) \in Seq(Tokens) /\ Len(Unread(c)) = Len(c.buf) - c.cursor
      /\ Len(c.buf) \in Nat /\ c.cursor \in 0..Len(c.buf) /\ c.buf \in Seq(Tokens)
      /\ \A j \in 1..Len(Unread(c)) : j + c.cursor \in 1..Len(c.buf)
                                     /\ Unread(c)[j] = c.buf[j + c.cursor]
  BY UnreadFacts
<1>2. /\ c.buf \o p \in Seq(Tokens) /\ Len(c.buf \o p) = Len(c.buf) + Len(p) /\ Len(p) \in Nat
      /\ \A i \in 1..Len(c.buf) : (c.buf \o p)[i] = c.buf[i]
      /\ \A j \in 1..Len(p) : (c.buf \o p)[Len(c.buf) + j] = p[j]
  BY <1>1, Joined
<1>3. d.cursor <= Len(d.buf)
  BY <1>1, <1>2
<1>4. /\ Unread(d) \in Seq(Tokens) /\ Len(Unread(d)) = (Len(c.buf) + Len(p)) - c.cursor
      /\ \A j \in 1..Len(Unread(d)) : Unread(d)[j] = (c.buf \o p)[j + c.cursor]
  <2>1. /\ Unread(d) \in Seq(Tokens) /\ Len(Unread(d)) = Len(d.buf) - d.cursor
        /\ \A j \in 1..Len(Unread(d)) : Unread(d)[j] = d.buf[j + d.cursor]
    BY <1>3, UnreadFacts
  <2>2. Len(d.buf) = Len(c.buf) + Len(p) /\ d.cursor = c.cursor
    BY <1>2
  <2>3. /\ Unread(d) \in Seq(Tokens) /\ Len(Unread(d)) = Len(d.buf) - c.cursor
        /\ \A j \in 1..Len(Unread(d)) : Unread(d)[j] = (c.buf \o p)[j + c.cursor]
    <3> HIDE DEF Unread
    <3> QED  BY <2>1
  <2>4. Len(Unread(d)) = (Len(c.buf) + Len(p)) - c.cursor
    BY <2>2, <2>3
  <2> QED  BY <2>3, <2>4
<1> DEFINE u == Unread(c)
           v == Unread(d)
<1> HIDE DEF u, v
<1>5. /\ u \o p \in Seq(Tokens) /\ Len(u \o p) = Len(u) + Len(p)
      /\ \A i \in 1..Len(u \o p) : \/ i \in 1..Len(u) /\ (u \o p)[i] = u[i]
                                   \/ \E j \in 1..Len(p) : i = Len(u) + j /\ (u \o p)[i] = p[j]
  <2>1. u \in Seq(Tokens) /\ p \in Seq(Tokens)
    BY <1>1 DEF u
  <2> QED  BY <2>1, JoinedTokens
<1>6. ASSUME NEW i \in 1..Len(u \o p) PROVE (u \o p)[i] = v[i]
  <2>1. i \in 1..Len(v)
    BY <1>1, <1>2, <1>4, <1>5 DEF u, v
  <2>2. CASE i \in 1..Len(u) /\ (u \o p)[i] = u[i]
    BY <1>1, <1>2, <1>4, <2>1, <2>2 DEF u, v
  <2>3. ASSUME NEW j \in 1..Len(p), i = Len(u) + j, (u \o p)[i] = p[j] PROVE (u \o p)[i] = v[i]
    <3>1. i + c.cursor = Len(c.buf) + j
      <4>1. /\ Len(u) = Len(c.buf) - c.cursor /\ Len(c.buf) \in Nat /\ c.cursor \in Nat
            /\ Len(p) \in Nat
        BY <1>1, <1>2 DEF u
      <4>2. i = Len(u) + j
        BY <2>3
      <4>3. \A x, y, z \in Nat : (x - y) + z + y = x + z
        OBVIOUS
      <4> QED  BY <4>1, <4>2, <4>3
    <3>2. v[i] = (c.buf \o p)[i + c.cursor]
      BY <1>4, <2>1 DEF v
    <3> QED  BY <1>2, <2>3, <3>1, <3>2
  <2> QED  BY <1>5, <2>2, <2>3
<1>7. Len(u \o p) = Len(v)
  BY <1>1, <1>2, <1>4, <1>5 DEF u, v
<1>8. v \in Seq(Tokens)
  BY <1>4 DEF v
<1>9. u \o p = v
  BY <1>5, <1>6, <1>7, <1>8, SeqEqual
<1> QED  BY <1>9 DEF u, v

LEMMA UnreadRest ==
  ASSUME NEW c \in Clients, c.cursor <= Len(c.buf), NEW i \in 0..Len(Unread(c)),
         NEW d \in Clients, d.buf = c.buf, d.cursor = c.cursor + i
  PROVE  Unread(d) = SubSeq(Unread(c), i + 1, Len(Unread(c)))
<1>1. /\ Unread(c) \in Seq(Tokens) /\ Len(Unread(c)) = Len(c.buf) - c.cursor
      /\ Len(c.buf) \in Nat /\ c.cursor \in 0..Len(c.buf)
      /\ \A j \in 1..Len(Unread(c)) : Unread(c)[j] = c.buf[j + c.cursor]
  BY UnreadFacts
<1>2. d.cursor <= Len(d.buf)
  BY <1>1
<1>3. /\ Unread(d) \in Seq(Tokens) /\ Len(Unread(d)) = Len(c.buf) - c.cursor - i
      /\ \A j \in 1..Len(Unread(d)) : Unread(d)[j] = c.buf[j + (c.cursor + i)]
  <2>1. /\ Unread(d) \in Seq(Tokens) /\ Len(Unread(d)) = Len(d.buf) - d.cursor
        /\ \A j \in 1..Len(Unread(d)) : Unread(d)[j] = d.buf[j + d.cursor]
    BY <1>2, UnreadFacts
  <2> HIDE DEF Unread
  <2> QED  BY <1>1, <2>1
<1> DEFINE u == Unread(c)
           v == Unread(d)
           w == SubSeq(u, i + 1, Len(u))
<1>4. /\ w \in Seq(Tokens) /\ Len(w) = Len(u) - i
      /\ \A j \in 1..(Len(u) - i) : j + i \in 1..Len(u) /\ w[j] = u[j + i]
  BY <1>1, Parted
<1> HIDE DEF u, v, w
<1>5. ASSUME NEW j \in 1..Len(w) PROVE w[j] = v[j]
  <2>1. j \in 1..Len(v) /\ j + i \in 1..Len(u) /\ w[j] = u[j + i]
    BY <1>1, <1>3, <1>4 DEF u, v
  <2>2. j + i + c.cursor = j + (c.cursor + i)
    BY <1>1
  <2>3. u[j + i] = c.buf[j + i + c.cursor] /\ v[j] = c.buf[j + (c.cursor + i)]
    BY <1>1, <1>3, <2>1 DEF u, v
  <2> QED  BY <2>1, <2>2, <2>3
<1>6. Len(w) = Len(v) /\ v \in Seq(Tokens)
  BY <1>1, <1>3, <1>4 DEF u, v
<1>7. w = v
  BY <1>4, <1>5, <1>6, SeqEqual
<1> QED  BY <1>7 DEF u, v, w

LEMMA UnreadNothing ==
  /\ \A c \in {Dropped, [Dropped EXCEPT !.sock = TRUE]} : Unread(c) = <<>>
  /\ \A c \in Clients : c.cursor = Len(c.buf) => Unread(c) = <<>>
<1>1. ASSUME NEW c \in Clients, c.cursor = Len(c.buf) PROVE Unread(c) = <<>>
  <2>1. Len(c.buf) \in Nat /\ c.cursor \in Nat
    BY LenProperties DEF Clients
  <2>2. Len(c.buf) < c.cursor + 1
    BY <1>1, <2>1
  <2> QED  BY <2>1, <2>2, SubSeqEmpty DEF Unread
<1>2. ASSUME NEW c \in {Dropped, [Dropped EXCEPT !.sock = TRUE]} PROVE Unread(c) = <<>>
  <2>1. c \in Clients /\ c.buf = <<>> /\ c.cursor = 0 /\ Len(<<>>) = 0
    BY RestTyped
  <2> QED  BY <1>1, <2>1
<1> QED  BY <1>1, <1>2

LEMMA UnreadCompact ==
  ASSUME NEW c \in Clients, c.cursor <= Len(c.buf)
  PROVE  /\ Unread(Compact(c)) = Unread(c) /\ Compact(c).sock = c.sock
<1>1. Unread(c) \in Seq(Tokens)
  BY UnreadFacts
<1> DEFINE u == Unread(c)
<1>2. Compact(c).buf = u /\ Compact(c).cursor = 0 /\ Compact(c).sock = c.sock
  BY DEF Compact, Clients
<1>3. Unread(Compact(c)) = SubSeq(u, 0 + 1, Len(u))
  <2> HIDE DEF u
  <2> QED  BY <1>2 DEF Unread
<1>4. SubSeq(u, 1, Len(u)) = u
  <2> HIDE DEF u
  <2> QED  BY <1>1, SubSeqFull DEF u
<1> HIDE DEF u
<1> QED  BY <1>2, <1>3, <1>4 DEF u
LEMMA ReaderOf ==
  ASSUME op \in Opers
  PROVE  /\ op.pc \in {"idle", "session"} <=> Reader = "none"
         /\ op.pc \in {"hello", "capability", "run"} <=> Reader = "command"
         /\ op.pc \in {"login", "password", "mark"} <=> Reader = "discard"
         /\ op.pc \in {"read", "wait"} => Reader = "console"
         /\ op.pc \in Passive => Reader # "command"
BY DEF Opers, Pcs, Reader, Passive

\* A step that leaves what the script has and what is unread.
LEMMA ContractWire ==
  ASSUME ConsoleBase, TextKept \/ client' = client, answer' = answer,
         \/ wire' = wire
         \/ \E text \in Seq(Tokens) : wire' = wire \o text
         \/ Reader = "command"
         \/ Len(wire') <= Len(wire) /\ \A i \in 1..(Len(wire') - 1) : wire'[i] = wire[i]
  PROVE  Contract!ContractNext
<1>1. wire \in Seq(Tokens)
  BY DEF ConsoleBase, ConsoleTyped
<1>2. client'.sock = client.sock /\ Unread(client)' = Unread(client)
  BY DEF TextKept, Unread
<1>3. \/ Reader = "command" \/ Contract!IsPrefix(wire, wire')
      \/ Len(wire') <= Len(wire) /\ \A i \in 1..(Len(wire') - 1) : wire'[i] = wire[i]
  <2>1. Contract!IsPrefix(wire, wire)
    <3>1. <<>> \in Seq(Tokens)
      OBVIOUS
    <3> QED  BY <1>1, <3>1, PrefixOfJoined
  <2>2. \A text \in Seq(Tokens) : Contract!IsPrefix(wire, wire \o text)
    BY <1>1, PrefixOfJoined
  <2> QED  BY <2>1, <2>2
<1>4. Contract!Wire
  BY <1>2, <1>3 DEF Contract!Wire
<1> QED  BY <1>4 DEF Contract!ContractNext

LEMMA ContractLose ==
  ASSUME client' = Dropped, answer' \in {answer, <<>>}
  PROVE  Contract!ContractNext
<1>1. ~client'.sock /\ Unread(client)' = <<>>
  BY UnreadNothing, RestTyped
<1>2. Contract!Lose
  BY <1>1 DEF Contract!Lose
<1> QED  BY <1>2 DEF Contract!ContractNext

LEMMA ContractOpen ==
  ASSUME op \in Opers, op.pc \in {"idle", "session"}, client' = [Dropped EXCEPT !.sock = TRUE], answer' = <<>>
  PROVE  Contract!ContractNext
<1>1. client'.sock /\ Unread(client)' = <<>> /\ Reader = "none"
  BY UnreadNothing, RestTyped, ReaderOf
<1>2. Contract!Open
  BY <1>1 DEF Contract!Open
<1> QED  BY <1>2 DEF Contract!ContractNext

LEMMA ContractForget ==
  ASSUME client'.sock = client.sock, Unread(client') = Unread(client), wire' = wire, answer' = <<>>
  PROVE  Contract!ContractNext
<1>1. Contract!Forget
  BY DEF Contract!Forget
<1> QED  BY <1>1 DEF Contract!ContractNext

LEMMA ContractBegins ==
  ASSUME ConsoleBase, Operations \/ OpenSession
  PROVE  Contract!ContractNext
<1>1. /\ op \in Opers /\ client \in Clients /\ client.cursor <= Len(client.buf)
      /\ op.pc = "session" => answer = <<>>
  BY DEF ConsoleBase, ConsoleTyped, Connected
<1>2. CASE Check
  <2>1. op.pc = "idle" /\ answer' = <<>> /\ client' \in {Dropped, [Dropped EXCEPT !.sock = TRUE]}
    BY <1>2 DEF Check, Begin
  <2> QED  BY <1>1, <2>1, ContractLose, ContractOpen
<1>3. CASE Execute \/ ExecuteOnOutput
  BY <1>3, ContractForget DEF Execute, ExecuteOnOutput
<1>4. CASE Console
  <2>1. PICK c \in {client, Unframed(client, client.cursor)} :
           IF client.sock THEN client' = Compact(c) /\ UNCHANGED <<wire, live>>
           ELSE client' = [Dropped EXCEPT !.sock = TRUE] /\ Connects
    BY <1>4 DEF Console
  <2>2. op.pc = "idle" /\ answer' = <<>>
    BY <1>4 DEF Console, Begin
  <2>3. /\ c \in Clients /\ c.cursor = client.cursor /\ c.buf = client.buf /\ c.sock = client.sock
    BY <1>1, <2>1 DEF Unframed, Clients, Modes
  <2>4. CASE client.sock
    <3>1. client' = Compact(c) /\ wire' = wire
      BY <2>1, <2>4
    <3>2. Unread(Compact(c)) = Unread(c) /\ Compact(c).sock = c.sock
      BY <1>1, <2>3, UnreadCompact
    <3>3. Unread(c) = Unread(client)
      BY <2>3 DEF Unread
    <3>4. client'.sock = client.sock /\ Unread(client') = Unread(client)
      BY <2>3, <3>1, <3>2, <3>3
    <3> QED  BY <2>2, <3>1, <3>4, ContractForget
  <2>5. CASE ~client.sock
    BY <1>1, <2>1, <2>2, <2>5, ContractOpen
  <2> QED  BY <2>4, <2>5
<1>5. CASE OpenSession
  <2>1. op.pc = "session" /\ answer' = answer /\ client' = [Dropped EXCEPT !.sock = TRUE]
    BY <1>5 DEF OpenSession
  <2> QED  BY <1>1, <2>1, ContractOpen
<1> QED  BY <1>2, <1>3, <1>4, <1>5 DEF Operations

LEMMA ContractPackets ==
  ASSUME ConsoleBase, PassiveReceive \/ StreamOverflows
  PROVE  Contract!ContractNext
<1>1. /\ ConsoleTyped /\ Connected /\ op \in Opers /\ client \in Clients /\ client.cursor <= Len(client.buf)
      /\ wire \in Seq(Tokens)
  BY DEF ConsoleBase, ConsoleTyped, Connected
<1>2. op.pc \in Passive /\ answer' = answer
  BY DEF PassiveReceive, StreamOverflows
<1>3. PICK p \in Packets : Gone(p) /\ client' = Fed(client, p)
  BY DEF PassiveReceive, StreamOverflows
<1>4. PICK i \in 1..Len(wire) :
            /\ p = SubSeq(wire, 1, i) /\ p \in Seq(Tokens) /\ Len(wire) \in Nat
            /\ wire' = SubSeq(wire, i + 1, Len(wire)) /\ Len(wire') = Len(wire) - i
  BY <1>1, <1>3, PacketEffect
<1>5. client' \in Clients /\ client'.sock = client.sock /\ client'.buf = client.buf \o p
      /\ client'.cursor = client.cursor
  BY <1>1, <1>3, <1>4, FedEffect
<1>6. Unread(client') = Unread(client) \o p
  <2>1. p \in Seq(Tokens)
    BY <1>4
  <2> QED  BY <1>1, <1>5, <2>1, UnreadGrows
<1>7. client.sock /\ Reader # "command"
  <2>1. op.pc \notin {"idle", "session"}
    BY <1>2 DEF Passive
  <2> QED  BY <1>1, <1>2, <2>1, ReaderOf DEF Connected
<1>8. wire # wire' /\ Len(wire) - Len(wire') = i
  BY <1>4
<1>9. Contract!IsSuffix(wire', wire)
  <2>1. i \in 0..Len(wire) /\ wire' = SubSeq(wire, i + 1, Len(wire))
    BY <1>4
  <2> QED  BY <1>1, <2>1, RestIsSuffix
<1>10. Unread(client)' = Unread(client) \o SubSeq(wire, 1, Len(wire) - Len(wire'))
  BY <1>4, <1>6, <1>8
<1>11. Contract!Arrive
  BY <1>2, <1>5, <1>7, <1>8, <1>9, <1>10 DEF Contract!Arrive
<1> QED  BY <1>11 DEF Contract!ContractNext

LEMMA ContractTakes ==
  ASSUME ConsoleBase, ReadEnds \/ WaitEnds \/ WaitFails \/ MarkEnds \/ AnswerLogin \/ AnswerPassword
  PROVE  Contract!ContractNext
<1>1. /\ ConsoleTyped /\ Connected /\ op \in Opers /\ client \in Clients /\ client.cursor <= Len(client.buf)
      /\ Unread(client) \in Seq(Tokens) /\ Len(client.buf) \in Nat
  BY UnreadFacts DEF ConsoleBase, ConsoleTyped, Connected
<1> DEFINE u == Unread(client)
<1>2. CASE ReadEnds
  <2>1. /\ op.pc = "read" /\ answer' = u /\ UNCHANGED <<wire>>
        /\ client' = [client EXCEPT !.cursor = Len(client.buf)]
    BY <1>2 DEF ReadEnds
  <2>2. client' \in Clients /\ client'.sock = client.sock /\ client'.cursor = Len(client'.buf)
    BY <1>1, <2>1 DEF Clients
  <2>3. Unread(client)' = <<>> /\ Reader = "console"
    BY <1>1, <2>1, <2>2, UnreadNothing, ReaderOf
  <2>4. Contract!TakeAll
    BY <2>1, <2>2, <2>3 DEF Contract!TakeAll
  <2> QED  BY <2>4 DEF Contract!ContractNext
<1>3. CASE WaitFails
  <2>1. /\ op.pc = "wait" /\ answer' = u /\ UNCHANGED <<wire, client>> /\ ~Has(u, "key")
    BY <1>3 DEF WaitFails
  <2>2. Reader = "console"
    BY <1>1, <2>1, ReaderOf
  <2>3. ~Contract!HasKey(u)
    BY <2>1 DEF Has, Contract!HasKey, Contract!IsKey
  <2>4. Contract!Show
    BY <2>1, <2>2, <2>3 DEF Contract!Show
  <2> QED  BY <2>4 DEF Contract!ContractNext
<1>4. CASE WaitEnds
  <2>1. op.pc = "wait" /\ wire' = wire /\ Has(u, "key")
    BY <1>4 DEF WaitEnds
  <2>2. PICK i \in 1..Len(u) :
               /\ IsFirstKey(u, i) /\ answer' = SubSeq(u, 1, i)
               /\ client' \in Clients /\ client'.sock = client.sock /\ client'.buf = client.buf
               /\ client'.cursor = client.cursor + i
    BY <1>1, <1>4, WaitEffect
  <2>3. Unread(client') = SubSeq(u, i + 1, Len(u))
    <3>1. i \in 0..Len(Unread(client))
      BY <2>2
    <3> QED  BY <1>1, <2>2, <3>1, UnreadRest
  <2>4. Contract!FirstKey(u) = i /\ Contract!HasKey(u)
    <3> HIDE DEF u
    <3>1. u \in Seq(Tokens)
      BY <1>1 DEF u
    <3>2. \A x, y \in 1..Len(u) : IsFirstKey(u, x) /\ IsFirstKey(u, y) => x = y
      BY <2>1, <3>1, FirstKeyExists
    <3> DEFINE P(x) == Contract!IsKey(u[x]) /\ \A j \in 1..(x - 1) : ~Contract!IsKey(u[j])
    <3>3. \A x \in 1..Len(u) : P(x) <=> IsFirstKey(u, x)
      BY DEF IsFirstKey, Contract!IsKey
    <3>4. P(i) /\ \A x \in 1..Len(u) : P(x) => x = i
      BY <2>2, <3>2, <3>3
    <3>5. Contract!FirstKey(u) = CHOOSE x \in 1..Len(u) : P(x)
      BY DEF Contract!FirstKey
    <3>6. Contract!HasKey(u)
      BY <2>1 DEF Has, Contract!HasKey, Contract!IsKey
    <3> HIDE DEF P
    <3> QED  BY <2>2, <3>4, <3>5, <3>6
  <2>5. Reader = "console"
    BY <1>1, <2>1, ReaderOf
  <2>6. Contract!TakeToKey
    BY <2>1, <2>2, <2>3, <2>4, <2>5 DEF Contract!TakeToKey
  <2> QED  BY <2>6 DEF Contract!ContractNext
<1>5. CASE MarkEnds \/ AnswerLogin \/ AnswerPassword
  <2>1. op.pc \in {"login", "password", "mark"} /\ UNCHANGED <<wire, answer>>
    BY <1>5 DEF MarkEnds, AnswerLogin, AnswerPassword
  <2>2. client' \in Clients /\ client'.sock = client.sock /\ client'.cursor = Len(client'.buf)
    <3>1. CASE MarkEnds
      <4>1. client' = [client EXCEPT !.cursor = Len(client.buf)]
        BY <3>1 DEF MarkEnds
      <4> QED  BY <1>1, <4>1 DEF Clients
    <3>2. CASE AnswerLogin
      BY <1>1, <3>2, RespondEffect DEF AnswerLogin
    <3>3. CASE AnswerPassword
      BY <1>1, <3>3, RespondEffect DEF AnswerPassword
    <3> QED  BY <1>5, <3>1, <3>2, <3>3
  <2>3. Unread(client)' = <<>> /\ Reader = "discard"
    BY <1>1, <2>1, <2>2, UnreadNothing, ReaderOf
  <2>4. Contract!IsSuffix(<<>>, u)
    <3>1. Len(u) \in Nat /\ u \in Seq(Tokens)
      BY <1>1, LenProperties
    <3> HIDE DEF u
    <3>2. PICK n : n = Len(u) /\ n \in 0..Len(u)
      BY <3>1
    <3>3. <<>> = SubSeq(u, n + 1, Len(u))
      BY <3>1, <3>2, SubSeqEmpty
    <3> QED  BY <3>1, <3>2, <3>3, RestIsSuffix
  <2>5. Contract!Discard
    BY <2>1, <2>2, <2>3, <2>4 DEF Contract!Discard
  <2> QED  BY <2>5 DEF Contract!ContractNext
<1> QED  BY <1>2, <1>3, <1>4, <1>5

LEMMA ContractStep == ASSUME ConsoleBase, Next PROVE Contract!ContractNext
<1>1. ConsoleTyped /\ Connected /\ op \in Opers /\ wire \in Seq(Tokens) /\ Len(wire) \in Nat
  BY LenProperties DEF ConsoleBase, ConsoleTyped
<1>2. CASE DeviceReads
  <2>1. PICK text : Reading(Head(dev.input), text) /\ wire' = IF live THEN wire \o text ELSE wire
    BY <1>1, <1>2, DeviceReadsEffect
  <2>2. wire' = wire \/ \E x \in Seq(Tokens) : wire' = wire \o x
    BY <2>1 DEF Reading
  <2> QED  BY <1>2, <2>2, ContractWire DEF DeviceReads
<1>3. CASE Reboots
  <2>1. PICK text \in Seq(Tokens) : wire' = IF live THEN wire \o text ELSE wire
    BY <1>1, <1>3, RebootsEffect
  <2>2. wire' = wire \/ \E x \in Seq(Tokens) : wire' = wire \o x
    BY <2>1
  <2> QED  BY <1>3, <2>2, ContractWire DEF Reboots
<1>4. CASE Breaks
  <2>1. /\ Len(wire') \in 0..Len(wire)
        /\ \A j \in 1..Len(wire') : wire'[j] = wire[j] \/ j = Len(wire')
    <3>1. \A j \in 1..Len(wire') : \/ wire'[j] = wire[j]
                                   \/ j = Len(wire') /\ wire[j].rc = 12 /\ wire'[j].rc = 1
      BY <1>1, <1>4, BreaksEffect
    <3> QED  BY <1>1, <1>4, <3>1, BreaksEffect
  <2>2. \A j \in 1..(Len(wire') - 1) : j \in 1..Len(wire') /\ j # Len(wire')
    BY <1>1, <2>1
  <2>3. Len(wire') <= Len(wire) /\ \A j \in 1..(Len(wire') - 1) : wire'[j] = wire[j]
    BY <1>1, <2>1, <2>2
  <2> QED  BY <1>4, <2>3, ContractWire DEF Breaks
<1>5. CASE Operations \/ OpenSession
  BY <1>5, ContractBegins
<1>6. CASE LoggedIn \/ PrepareSession \/ Hello \/ Capability
  BY <1>1, <1>6, SettlesEffect, ContractWire DEF Settles
<1>7. CASE \/ LoginFails \/ SessionFails \/ ConnectFails \/ TimedOut \/ SendFails \/ StreamEnds \/ ProbeEnds
           \/ Completed \/ ConnectionClosed
  BY <1>7, QuitsEffect, ContractWire, ContractLose DEF Quits, Drop
<1>8. CASE PassiveReceive \/ StreamOverflows
  BY <1>8, ContractPackets
<1>9. CASE ReadEnds \/ WaitEnds \/ WaitFails \/ MarkEnds \/ AnswerLogin \/ AnswerPassword
  BY <1>9, ContractTakes
<1>10. CASE Receive
  <2>1. Reader = "command" /\ client' = client /\ answer' = answer
    BY <1>1, <1>10, ReaderOf DEF Receive
  <2> QED  BY <2>1, ContractWire
<1>11. CASE SendBusiness \/ SendProbe
  BY <1>11, ContractWire DEF SendBusiness, SendProbe
<1>12. CASE AnswerOutput
  BY <1>12, ContractLose DEF AnswerOutput, Drop
<1> QED  BY <1>2, <1>3, <1>4, <1>5, <1>6, <1>7, <1>8, <1>9, <1>10, <1>11, <1>12 DEF Next, Device, Command, Stream

-----------------------------------------------------------------------------
(* The console, from its first state on.                                    *)

ConsoleInv == ConsoleBase /\ RunFits /\ ResultIsOwn /\ Plain /\ OutputIsOwn /\ PasswordFits

LEMMA ConsoleInit == Init => ConsoleInv
<1> SUFFICES ASSUME Init PROVE ConsoleInv
  OBVIOUS
<1>1. /\ wire = <<>> /\ client = Dropped /\ op = Idle /\ result = NoResult
      /\ \E s \in {"login", "shell"} :
            dev = [state |-> s, input |-> <<>>, code |-> <<>>, leaked |-> FALSE, late |-> FALSE]
  BY DEF Init
<1>2. op.pc = "idle" /\ op.of = None /\ client.sock = FALSE /\ result.code = None
  BY <1>1 DEF Idle, Dropped, NoResult
<1>3. dev.input = <<>> /\ ~dev.leaked /\ Len(<<>>) = 0
  BY <1>1
<1>4. RunFits /\ ResultIsOwn /\ OutputIsOwn
  BY <1>2 DEF RunFits, ResultIsOwn, OutputIsOwn
<1>5. Plain
  BY <1>2 DEF Plain, PlainPcs, PlainQuiet, PlainProbing, PlainRunning
<1>6. PasswordFits
  BY <1>2, <1>3 DEF PasswordFits, SecretNext, LoginShown, PasswordShown
<1> QED  BY <1>4, <1>5, <1>6, BaseInit DEF ConsoleInv

LEMMA ConsoleNextInv == ConsoleInv /\ Next => ConsoleInv'
BY BaseNext, RunFitsNext, ResultIsOwnNext, PlainNext, OutputIsOwnNext, PasswordFitsNext DEF ConsoleInv

LEMMA ConsoleUnchanged == ConsoleInv /\ UNCHANGED vars => ConsoleInv'
<1> SUFFICES ASSUME ConsoleInv, UNCHANGED vars PROVE ConsoleInv'
  OBVIOUS
<1>1. ConsoleBase'
  BY DEF ConsoleInv, ConsoleBase, ConsoleTyped, Connected, Drawn, vars
<1>2. RunFits' /\ ResultIsOwn' /\ OutputIsOwn'
  BY DEF ConsoleInv, RunFits, Own, Told, Exact, ResultIsOwn, OutputIsOwn, vars
<1>3. Plain'
  BY DEF ConsoleInv, Plain, PlainPcs, PlainQuiet, PlainProbing, PlainRunning, NothingAsked, Answered,
         Own, Posix, vars
<1>4. PasswordFits'
  BY DEF ConsoleInv, PasswordFits, SecretNext, LoginShown, PasswordShown, vars
<1> QED  BY <1>1, <1>2, <1>3, <1>4 DEF ConsoleInv

LEMMA ConsoleAlways == RemotesSpec => []ConsoleInv
<1>1. RemotesInit => ConsoleInv
  BY ConsoleInit DEF RemotesInit
<1>2. ConsoleInv /\ [RemotesNext]_<<kind, vars, hostVars>> => ConsoleInv'
  BY ConsoleNextInv, ConsoleUnchanged DEF RemotesNext
<1> QED  BY <1>1, <1>2, PTL DEF RemotesSpec

-----------------------------------------------------------------------------
(* What a remote object promises.                                           *)

\* An upload that reports success has left the whole file on the device, and a
\* download a whole file or none, whatever else the host does and whenever the
\* connection dies (_upload and _download of SSHHost and FTPHost).
THEOREM TransfersAreWholeTheorem == RemotesSpec => []TransfersAreWhole
<1>1. HostInv => TransfersAreWhole
  BY DEF HostInv, TransfersAreWhole, Host!TransfersAreWhole, Host!Idle
<1> QED  BY <1>1, HostAlways, PTL

\* A command's answer is true of that command: a console gives its own exit code and, on a
\* connection that only commands use, its own output (TelnetClient.execute), however the text
\* is cut into packets and whatever the device reboots; a host gives the device's exit status,
\* and a keyword when one stream has shown it (SSHHost._execute).
THEOREM AnswersAreTrueTheorem == RemotesSpec => []AnswersAreTrue
<1>1. HostInv => Host!VerdictIsTheDevices
  BY DEF HostInv, CallFits, ExecuteFits, OutcomeFits, Host!VerdictIsTheDevices, ExecuteFields
<1>2. HostInv => Host!KeywordIsAnswered
  <2> SUFFICES ASSUME HostInv, call.op = "execute", call.pc # "over" PROVE Host!KeywordIsAnswered
    BY DEF Host!KeywordIsAnswered
  <2>1. OutputFits(call)
    BY DEF HostInv, CallFits, ExecuteFits
  <2> QED  BY <2>1 DEF OutputFits, Host!KeywordIsAnswered
<1>3. ConsoleInv => ResultIsOwn /\ OutputIsOwn
  BY DEF ConsoleInv
<1>4. HostInv /\ ConsoleInv => AnswersAreTrue
  BY <1>1, <1>2, <1>3 DEF AnswersAreTrue
<1> QED  BY <1>4, HostAlways, ConsoleAlways, PTL

\* The configured password never becomes a command of a shell, on a device that had read
\* what earlier attempts sent before it was connected to again (login_passive).
THEOREM PasswordAtPromptsTheorem == RemotesSpec => []PasswordAtPrompts
<1>1. ConsoleInv => PasswordAtPrompts
  BY DEF ConsoleInv, PasswordFits, SecretNext, PasswordAtPrompts
<1> QED  BY <1>1, ConsoleAlways, PTL

\* The console keeps the contract of its text, step by step: nothing of what has arrived is lost,
\* repeated or reordered but by the operations that may discard it (read_passive, wait_passive,
\* mark_passive_output and _compact_passive of TelnetClient).
THEOREM ImplementsConsoleTheorem == RemotesSpec => ImplementsConsole
<1>1. RemotesInit => Contract!ContractInit
  <2> SUFFICES ASSUME Init PROVE Contract!ContractInit
    BY DEF RemotesInit
  <2>1. client = Dropped /\ op = Idle /\ answer = <<>>
    BY DEF Init
  <2>2. ~client.sock /\ Unread(client) = <<>> /\ Reader = "none"
    BY <2>1, UnreadNothing DEF Dropped, Idle, Reader
  <2> QED  BY <2>1, <2>2 DEF Contract!ContractInit
<1>2. ConsoleInv /\ [RemotesNext]_<<kind, vars, hostVars>> => [Contract!ContractNext]_(Contract!vars)
  <2> SUFFICES ASSUME ConsoleInv, [RemotesNext]_<<kind, vars, hostVars>>
               PROVE  [Contract!ContractNext]_(Contract!vars)
    OBVIOUS
  <2>1. CASE Next
    BY <2>1, ContractStep DEF ConsoleInv
  <2>2. CASE UNCHANGED vars
    BY <2>2 DEF vars, Contract!vars, Unread, Reader
  <2> QED  BY <2>1, <2>2 DEF RemotesNext
<1> QED  BY <1>1, <1>2, ConsoleAlways, PTL DEF RemotesSpec, ImplementsConsole, Contract!ContractSpec
=============================================================================
