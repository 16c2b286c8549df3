----------------------------- MODULE LinkProofs -----------------------------
(***************************************************************************)
(* The link, for any timeout, any messages and any number of reads that a  *)
(* frame takes: how far a call of recv can overrun its deadline, and that  *)
(* the link is a pipe.                                                     *)
(***************************************************************************)
EXTENDS Link, SequenceTheorems, WellFoundedInduction, TLAPS

\* The timing of a call: what has passed of the armed timeout's worth, but for the
\* present read of the socket, was spent on pieces that are here now.
TimingInv ==
    /\ left \in Int /\ armed \in 1 .. MaxWait /\ waited \in 0 .. armed
    /\ part \in 0 .. Pieces - 1 /\ left <= MaxWait
    /\ call = "read" => armed - left - waited <= part * armed

\* One piece more is worth one armed timeout more.
LEMMA OneMore == ASSUME NEW p \in Nat, NEW m \in Nat
                 PROVE  (p + 1) * m = p * m + m /\ p * m \in Nat
OBVIOUS

\* A link that is not connected has no call.
LEMMA TimingInit == Init => TimingInv
BY LinkAssumption DEF Init, TimingInv

\* A step of recv preserves it.
LEMMA TimingStep == ASSUME TimingInv, [Next]_vars PROVE TimingInv'
<1>. USE DEF TimingInv
<1>0. /\ armed \in Nat /\ waited \in Nat /\ part \in Nat /\ part * armed \in Nat
      /\ MaxWait \in Nat /\ Pieces \in Nat
  BY LinkAssumption, OneMore
<1>1. ASSUME NEW u \in Urls, NEW o, NEW ok \in BOOLEAN, Connect(u, o, ok) PROVE TimingInv'
  BY <1>1 DEF Connect, timing
<1>2. ASSUME NEW f \in Frames, ServerSends(f) PROVE TimingInv'
  BY <1>2 DEF ServerSends, timing
<1>3. ASSUME NEW how, NEW w, LineBreaks(how, w) PROVE TimingInv'
  BY <1>3 DEF LineBreaks, timing
<1>4. ASSUME NEW t \in 0 .. MaxWait, Recv(t) PROVE TimingInv'
  BY <1>0, <1>4 DEF Recv, Return, timing
<1>5. CASE Top
  <2>1. CASE Expired
    BY <1>5, <2>1 DEF Top, Return, timing
  <2>2. CASE ~Expired
    <3>1. /\ armed' = left /\ waited' = 0 /\ left' = left /\ part' = part /\ left > 0
          /\ left \in Nat
      BY <1>5, <2>2 DEF Top, Expired, TimeoutToArm
    <3>2. part * left \in Nat
      BY <1>0, <3>1, OneMore
    <3>. QED  BY <1>0, <3>1, <3>2
  <2>. QED  BY <2>1, <2>2
<1>6. CASE ReadPiece
  <2>1. part' = part + 1 /\ waited' = 0 /\ UNCHANGED <<left, armed, call>>
    BY <1>6 DEF ReadPiece
  <2>2. part' * armed = part * armed + armed
    BY <1>0, <2>1, OneMore
  <2>3. part' \in 0 .. Pieces - 1
    BY <1>0, <1>6, <2>1 DEF ReadPiece
  <2>. QED  BY <1>0, <1>6, <2>1, <2>2, <2>3 DEF ReadPiece
<1>7. CASE ReadFrame
  <2>1. part' = 0 /\ UNCHANGED timing /\ call' # "read"
    BY <1>7 DEF ReadFrame, Return
  <2>. QED  BY <1>0, <2>1, LinkAssumption DEF timing
<1>8. CASE ReadTimesOut \/ ReadEof \/ ReadFails
  BY <1>8 DEF ReadTimesOut, ReadEof, ReadFails, Return, timing
<1>9. CASE Wait
  BY <1>0, <1>9 DEF Wait
<1>10. ASSUME NEW w, Send(w) PROVE TimingInv'
  BY <1>10 DEF Send, Return, timing
<1>11. CASE UNCHANGED vars
  BY <1>11 DEF vars, timing
<1>. QED  BY <1>1, <1>2, <1>3, <1>4, <1>5, <1>6, <1>7, <1>8, <1>9, <1>10, <1>11
          DEF Next, Reads

\* The rest of the link's types.
FramesInv ==
    /\ dialed \in {Nowhere} \cup Dialable
    /\ wire \in Seq(Frames) /\ sent \in 0 .. MaxFrames /\ line \in {"up", "eof", "reset"}
    /\ lib \in {"active", "terminated"} /\ closed \in Codes \cup {NotClosed, NoCode}
    /\ call \in {"none", "top", "read"} /\ got \in Seq(Messages \cup {Bad})

\* What a broken line still brings are frames.
LEMMA CutsType == ASSUME wire \in Seq(Frames), NEW w \in Cuts PROVE w \in Seq(Frames)
<1>1. PICK n \in 0 .. Len(wire) : w = SubSeq(wire, 1, n)
  BY DEF Cuts
<1>2. \A i \in 1 .. n : wire[i] \in Frames
  BY <1>1, ElementOfSeq
<1>. QED  BY <1>1, <1>2, SubSeqProperties

\* Every step keeps them.
LEMMA FramesStep == ASSUME FramesInv, [Next]_vars PROVE FramesInv'
<1>. USE DEF FramesInv
<1>1. ASSUME NEW u \in Urls, NEW o, NEW ok \in BOOLEAN, Connect(u, o, ok) PROVE FramesInv'
  <2>1. CASE EnsureSecureUrl(u)
    <3>. DEFINE d == [host |-> u.host, tls |-> u.scheme = "wss"]
    <3>1. u.host \in Hosts /\ (u.scheme = "wss") \in BOOLEAN
      BY DEF Urls
    <3>2. d \in [host : Hosts, tls : BOOLEAN] /\ (d.tls \/ d.host = "loopback")
      BY <2>1, <3>1 DEF EnsureSecureUrl
    <3>3. d \in Dialable
      BY <3>2 DEF Dialable
    <3>4. dialed' \in {dialed, d}
      BY <1>1 DEF Connect
    <3>. QED  BY <1>1, <3>3, <3>4 DEF Connect, server
  <2>2. CASE ~EnsureSecureUrl(u)
    BY <1>1, <2>2 DEF Connect, server
  <2>. QED  BY <2>1, <2>2
<1>2. ASSUME NEW f \in Frames, ServerSends(f) PROVE FramesInv'
  BY <1>2, LinkAssumption DEF ServerSends
<1>3. ASSUME NEW how \in {"eof", "reset"}, NEW w \in Cuts, LineBreaks(how, w) PROVE FramesInv'
  BY <1>3, CutsType DEF LineBreaks, CutTo
<1>4. ASSUME NEW t \in 0 .. MaxWait, Recv(t) PROVE FramesInv'
  BY <1>4 DEF Recv, Return, server
<1>5. CASE Top
  BY <1>5 DEF Top, Return, server
<1>6. CASE ReadPiece
  BY <1>6 DEF ReadPiece, server
<1>7. CASE ReadFrame
  <2>1. Head(wire) \in Frames /\ wire' \in Seq(Frames)
    BY <1>7 DEF ReadFrame
  <2>2. IsData(Head(wire)) => Head(wire) \in Messages \cup {Bad}
    BY <2>1 DEF IsData, Frames
  <2>3. got' \in Seq(Messages \cup {Bad})
    BY <1>7, <2>2 DEF ReadFrame
  <2>4. closed' \in Codes \cup {NotClosed, NoCode} /\ call' \in {"none", "top", "read"}
    BY <1>7 DEF ReadFrame, Return, Closes, Close
  <2>. QED  BY <1>7, <2>1, <2>3, <2>4 DEF ReadFrame
<1>8. CASE ReadTimesOut \/ ReadEof \/ ReadFails
  BY <1>8 DEF ReadTimesOut, ReadEof, ReadFails, Return, server
<1>9. CASE Wait
  BY <1>9 DEF Wait, server
<1>10. ASSUME NEW w \in Cuts, Send(w) PROVE FramesInv'
  BY <1>10, CutsType DEF Send, Return, CutTo
<1>11. CASE UNCHANGED vars
  BY <1>11 DEF vars, server
<1>. QED  BY <1>1, <1>2, <1>3, <1>4, <1>5, <1>6, <1>7, <1>8, <1>9, <1>10, <1>11
          DEF Next, Reads

\* The link's types; in particular recv never arms a zero timeout, which
\* set_read_timeout would refuse (link.rs:115), and connect reaches nothing remote
\* without TLS (link.rs:208-245).
THEOREM LinkTypes == Spec => []TypeOK
<1>1. Init => FramesInv
  BY LinkAssumption DEF Init, FramesInv
<1>2. FramesInv /\ TimingInv => TypeOK
  BY DEF FramesInv, TimingInv, TypeOK
<1>3. FramesInv /\ [Next]_vars => FramesInv'
  BY FramesStep
<1>4. TimingInv /\ [Next]_vars => TimingInv'
  BY TimingStep
<1>. QED  BY <1>1, <1>2, <1>3, <1>4, TimingInit, PTL DEF Spec

\* recv is held past its deadline by at most one armed timeout for each piece of the
\* frame it is reading (link.rs:112-118).
THEOREM OverrunAlwaysBounded == Spec => []OverrunBounded
<1>1. TimingInv => OverrunBounded
  <2>. SUFFICES ASSUME TimingInv, call = "read" PROVE -left <= part * armed
    BY DEF OverrunBounded
  <2>1. part * armed \in Nat
    BY LinkAssumption, OneMore DEF TimingInv
  <2>. QED  BY <2>1 DEF TimingInv
<1>2. TimingInv /\ [Next]_vars => TimingInv'
  BY TimingStep
<1>. QED  BY <1>1, <1>2, TimingInit, PTL DEF Spec
-----------------------------------------------------------------------------
(* The link as a pipe.  DataOf is a recursive function; what it computes is proved   *)
(* by induction over the natural numbers, as a fact about sets.                      *)

\* The least number principle.
LEMMA LeastNat ==
    ASSUME NEW T \in SUBSET Nat, T # {}
    PROVE  \E x \in T : \A y \in T : x <= y
<1>. DEFINE R == {ss \in Nat \X Nat : ss[1] < ss[2]}
<1>1. IsWellFoundedOn(R, Nat)
  BY NatLessThanWellFounded DEF OpToRel
<1>2. PICK x \in T : \A y \in T : ~(<<y, x>> \in R)
  <2>. HIDE DEF R
  <2>. QED  BY <1>1, WFMin
<1>3. ASSUME NEW y \in T PROVE x <= y
  <2>1. <<y, x>> \in Nat \X Nat /\ ~(<<y, x>> \in R)
    BY <1>2
  <2>2. ~(<<y,x>>[1] < <<y,x>>[2])
    BY <2>1
  <2>3. ~(y < x)
    BY <2>2
  <2>. QED  BY <2>3
<1>. QED  BY <1>3

\* Induction over the natural numbers.
LEMMA SetInduction ==
    ASSUME NEW T \in SUBSET Nat, 0 \in T, \A n \in T : n + 1 \in T
    PROVE  T = Nat
<1>. SUFFICES ASSUME Nat \ T # {} PROVE FALSE
  OBVIOUS
<1>1. PICK x \in Nat \ T : \A y \in Nat \ T : x <= y
  BY LeastNat
<1>2. x # 0 /\ x - 1 \in Nat /\ x - 1 \notin Nat \ T
  BY <1>1
<1>3. x - 1 \in T /\ (x - 1) + 1 = x
  BY <1>2
<1>. QED  BY <1>1, <1>3

\* d holds the data frames of each first part of w, up to its first k frames.
Filtered(d, w, k) ==
    d = [n \in 0 .. k |-> IF n = 0 THEN <<>>
                          ELSE IF IsData(w[n]) THEN Append(d[n - 1], w[n]) ELSE d[n - 1]]

\* What a frame that is data can be.
Data == Messages \cup {Bad}

\* The frames other than pings and closes are data.
LEMMA DataFrames == ASSUME NEW f \in Frames, IsData(f) PROVE f \in Data
BY DEF Frames, IsData, Data

\* Filtered's equation, entry by entry.
LEMMA FilteredAt ==
    ASSUME NEW w, NEW k \in Nat, NEW d, Filtered(d, w, k)
    PROVE  /\ d[0] = <<>>
           /\ \A n \in 0 .. k : n > 0 => d[n] = IF IsData(w[n]) THEN Append(d[n - 1], w[n]) ELSE d[n - 1]
           /\ DOMAIN d = 0 .. k
<1>. DEFINE eq(n) == IF n = 0 THEN <<>>
                     ELSE IF IsData(w[n]) THEN Append(d[n - 1], w[n]) ELSE d[n - 1]
            g == [n \in 0 .. k |-> eq(n)]
<1>1. d = g
  BY DEF Filtered
<1>2. DOMAIN g = 0 .. k /\ \A n \in 0 .. k : g[n] = eq(n)
  <2>. HIDE DEF eq
  <2>. QED  OBVIOUS
<1>3. 0 \in 0 .. k /\ eq(0) = <<>>
  OBVIOUS
<1>4. \A n \in 0 .. k : n > 0 => eq(n) = IF IsData(w[n]) THEN Append(d[n - 1], w[n]) ELSE d[n - 1]
  OBVIOUS
<1>. HIDE DEF g, eq
<1>. QED  BY <1>1, <1>2, <1>3, <1>4

\* There is such a function for every w and k.
LEMMA FilteredExists ==
    ASSUME NEW w, NEW k \in Nat
    PROVE  \E d : Filtered(d, w, k)
<1>. DEFINE T == {i \in Nat : \E d : Filtered(d, w, i)}
<1>1. 0 \in T
  <2>. DEFINE z == [n \in 0 .. 0 |-> <<>>]
  <2>1. Filtered(z, w, 0)
    BY DEF Filtered
  <2>. QED  BY <2>1
<1>2. ASSUME NEW i \in T PROVE i + 1 \in T
  <2>1. PICK d : Filtered(d, w, i)
    OBVIOUS
  <2>. DEFINE x == IF IsData(w[i + 1]) THEN Append(d[i], w[i + 1]) ELSE d[i]
              e == [n \in 0 .. (i + 1) |-> IF n <= i THEN d[n] ELSE x]
              eq(n) == IF n = 0 THEN <<>>
                       ELSE IF IsData(w[n]) THEN Append(e[n - 1], w[n]) ELSE e[n - 1]
  <2>2. i \in Nat
    OBVIOUS
  <2>3. ASSUME NEW n \in 0 .. (i + 1) PROVE e[n] = eq(n)
    <3>1. CASE n = 0
      <4>1. e[n] = d[0] /\ d[0] = <<>>
        <5>1. d[0] = <<>>
          BY ONLY <2>1, <2>2, FilteredAt
        <5>2. 0 \in 0 .. (i + 1) /\ 0 <= i
          BY <2>2
        <5>. QED  BY <3>1, <5>1, <5>2
      <4>. HIDE DEF e
      <4>. QED  BY <3>1, <4>1
    <3>2. CASE n > 0 /\ n <= i
      <4>1. n \in 0 .. i /\ e[n] = d[n] /\ n - 1 \in 0 .. (i + 1) /\ n - 1 <= i /\ n # 0
        BY <2>2, <3>2
      <4>2. e[n - 1] = d[n - 1]
        BY <4>1
      <4>3. d[n] = IF IsData(w[n]) THEN Append(d[n - 1], w[n]) ELSE d[n - 1]
        BY <2>1, <2>2, <3>2, <4>1, FilteredAt
      <4>. HIDE DEF e
      <4>. QED  BY <4>1, <4>2, <4>3
    <3>3. CASE n = i + 1
      <4>1. e[n] = x /\ n - 1 = i /\ e[i] = d[i] /\ n # 0
        BY <2>2, <3>3
      <4>. HIDE DEF e
      <4>. QED  BY <3>3, <4>1
    <3>. QED  BY <2>2, <3>1, <3>2, <3>3
  <2>4. e = [n \in 0 .. (i + 1) |-> e[n]]
    OBVIOUS
  <2>5. Filtered(e, w, i + 1)
    <3>. HIDE DEF e
    <3>. QED  BY <2>3, <2>4 DEF Filtered
  <2>. QED  BY <2>2, <2>5
<1>3. T = Nat
  <2>1. T \in SUBSET Nat
    OBVIOUS
  <2>. HIDE DEF T
  <2>. QED  BY <1>1, <1>2, <2>1, SetInduction
<1>. QED  BY <1>3

\* The one DataOf takes.
LEMMA DataOfFiltered ==
    ASSUME NEW S, NEW w \in Seq(S)
    PROVE  \E d : Filtered(d, w, Len(w)) /\ DataOf(w) = d[Len(w)]
<1>. DEFINE c == CHOOSE d : Filtered(d, w, Len(w))
<1>1. Filtered(c, w, Len(w))
  BY FilteredExists
<1>2. DataOf(w) = c[Len(w)]
  BY DEF DataOf, Filtered
<1>. QED  BY <1>1, <1>2

\* Its entries hold data only.
LEMMA FilteredType ==
    ASSUME NEW w \in Seq(Frames), NEW k \in Nat, k <= Len(w), NEW d, Filtered(d, w, k),
           NEW n \in 0 .. k
    PROVE  d[n] \in Seq(Data)
<1>0. /\ d[0] = <<>>
      /\ \A i \in 0 .. k : i > 0 => d[i] = IF IsData(w[i]) THEN Append(d[i - 1], w[i]) ELSE d[i - 1]
  <2>1. Filtered(d, w, k)
    OBVIOUS
  <2>. QED  BY ONLY <2>1, k \in Nat, FilteredAt
<1>. DEFINE T == {i \in Nat : i <= k => d[i] \in Seq(Data)}
<1>1. 0 \in T
  <2>1. <<>> \in Seq(Data)
    BY EmptySeq
  <2>2. d[0] \in Seq(Data)
    BY <1>0, <2>1
  <2>. QED  BY <2>2
<1>2. ASSUME NEW i \in T PROVE i + 1 \in T
  <2>. SUFFICES ASSUME i + 1 <= k PROVE d[i + 1] \in Seq(Data)
    OBVIOUS
  <2>1. i + 1 \in 0 .. k /\ (i + 1) - 1 = i /\ d[i] \in Seq(Data) /\ w[i + 1] \in Frames
    OBVIOUS
  <2>2. d[i + 1] = IF IsData(w[i + 1]) THEN Append(d[i], w[i + 1]) ELSE d[i]
    BY <1>0, <2>1
  <2>. QED  BY <2>1, <2>2, DataFrames
<1>3. T = Nat
  <2>1. T \in SUBSET Nat
    OBVIOUS
  <2>. HIDE DEF T
  <2>. QED  BY <1>1, <1>2, <2>1, SetInduction
<1>. QED  BY <1>3

\* v and w begin with the same k frames.
Agree(v, w, k) == \A i \in 1 .. k : v[i] = w[i]

\* What it holds of the first k frames depends on them alone.
LEMMA FilteredAgrees ==
    ASSUME NEW v, NEW w, NEW k \in Nat, NEW m \in Nat, k <= m, Agree(v, w, k),
           NEW d, NEW e, Filtered(d, v, k), Filtered(e, w, m)
    PROVE  \A n \in 0 .. k : d[n] = e[n]
<1>. DEFINE T == {i \in Nat : i <= k => d[i] = e[i]}
<1>1. 0 \in T
  BY FilteredAt
<1>2. ASSUME NEW i \in T PROVE i + 1 \in T
  <2>. SUFFICES ASSUME i + 1 <= k PROVE d[i + 1] = e[i + 1]
    OBVIOUS
  <2>1. i + 1 \in 0 .. k /\ i + 1 \in 0 .. m /\ (i + 1) - 1 = i /\ d[i] = e[i] /\ v[i + 1] = w[i + 1]
    BY DEF Agree
  <2>2. d[i + 1] = IF IsData(v[i + 1]) THEN Append(d[i], v[i + 1]) ELSE d[i]
    BY <2>1, FilteredAt
  <2>3. e[i + 1] = IF IsData(w[i + 1]) THEN Append(e[i], w[i + 1]) ELSE e[i]
    BY <2>1, FilteredAt
  <2>. QED  BY <2>1, <2>2, <2>3
<1>3. T = Nat
  <2>1. T \in SUBSET Nat
    OBVIOUS
  <2>. HIDE DEF T
  <2>. QED  BY <1>1, <1>2, <2>1, SetInduction
<1>. QED  BY <1>3

\* Nothing comes of an empty wire, and only data of any.
LEMMA DataOfEmpty == DataOf(<<>>) = <<>>
<1>1. <<>> \in Seq(Frames) /\ Len(<<>>) = 0
  BY EmptySeq
<1>2. PICK d : Filtered(d, <<>>, 0) /\ DataOf(<<>>) = d[0]
  BY <1>1, DataOfFiltered
<1>. QED  BY <1>2, FilteredAt

\* What is read of a wire are messages and frames that do not parse.
LEMMA DataOfType == ASSUME NEW w \in Seq(Frames) PROVE DataOf(w) \in Seq(Data)
<1>1. PICK d : Filtered(d, w, Len(w)) /\ DataOf(w) = d[Len(w)]
  BY DataOfFiltered
<1>2. Len(w) \in Nat /\ Len(w) \in 0 .. Len(w)
  OBVIOUS
<1>. QED  BY <1>1, <1>2, FilteredType

\* One frame more.
LEMMA DataOfAppend ==
    ASSUME NEW w \in Seq(Frames), NEW f \in Frames
    PROVE  DataOf(Append(w, f)) = IF IsData(f) THEN Append(DataOf(w), f) ELSE DataOf(w)
<1>. DEFINE v == Append(w, f)
            k == Len(w)
<1>1. /\ v \in Seq(Frames) /\ Len(v) = k + 1 /\ k \in Nat /\ v[k + 1] = f
      /\ \A i \in 1 .. k : w[i] = v[i]
  OBVIOUS
<1>2. PICK d : Filtered(d, w, k) /\ DataOf(w) = d[k]
  BY DataOfFiltered
<1>3. PICK e : Filtered(e, v, k + 1) /\ DataOf(v) = e[k + 1]
  <2>. HIDE DEF v
  <2>. QED  BY <1>1, DataOfFiltered
<1>. HIDE DEF v, k
<1>4. d[k] = e[k]
  <2>1. k + 1 \in Nat /\ k <= k + 1 /\ k \in 0 .. k
    BY <1>1
  <2>2. k \in Nat /\ Filtered(d, w, k) /\ Filtered(e, v, k + 1) /\ Agree(w, v, k)
    BY <1>1, <1>2, <1>3 DEF Agree
  <2>3. \A n \in 0 .. k : d[n] = e[n]
    BY ONLY <2>1, <2>2, FilteredAgrees
  <2>. QED  BY <2>1, <2>3
<1>5. e[k + 1] = IF IsData(v[k + 1]) THEN Append(e[k], v[k + 1]) ELSE e[k]
  <2>1. k + 1 \in Nat /\ k + 1 \in 0 .. (k + 1) /\ (k + 1) - 1 = k /\ k + 1 > 0
    BY <1>1
  <2>. QED  BY <1>3, <2>1, FilteredAt
<1>. QED  BY <1>1, <1>2, <1>3, <1>4, <1>5 DEF v

\* A sequence that agrees with the beginning of another is a prefix of it.
LEMMA PrefixByEntry ==
    ASSUME NEW S, NEW s \in Seq(S), NEW t \in Seq(S), Len(s) <= Len(t),
           \A i \in 1 .. Len(s) : s[i] = t[i]
    PROVE  IsPrefix(s, t)
<1>1. Len(s) \in Nat /\ Len(t) \in Nat
  OBVIOUS
<1>2. SubSeq(s, 1, Len(s)) = s
  BY SubSeqFull
<1>3. SubSeq(t, 1, Len(s)) = s
  <2>. DEFINE u == SubSeq(t, 1, Len(s))
  <2>1. \A i \in 1 .. Len(s) : t[i] \in S
    BY <1>1, ElementOfSeq
  <2>2. u \in Seq(S) /\ Len(u) = Len(s) /\ \A i \in 1 .. Len(s) : u[i] = t[i]
    BY <1>1, <2>1, SubSeqProperties
  <2>. HIDE DEF u
  <2>3. u = s
    BY <2>2, SeqEqual
  <2>. QED  BY <2>3 DEF u
<1>. QED  BY <1>2, <1>3 DEF IsPrefix

\* Later entries of a filter extend earlier ones.
LEMMA FilteredGrows ==
    ASSUME NEW w \in Seq(Frames), NEW m \in Nat, m <= Len(w), NEW d, Filtered(d, w, m),
           NEW k \in 0 .. m
    PROVE  Len(d[k]) <= Len(d[m]) /\ \A j \in 1 .. Len(d[k]) : d[k][j] = d[m][j]
<1>. DEFINE G(i) == Len(d[k]) <= Len(d[i]) /\ \A j \in 1 .. Len(d[k]) : d[k][j] = d[i][j]
            T == {i \in Nat : k <= i /\ i <= m => G(i)}
<1>0. /\ d[0] = <<>>
      /\ \A i \in 0 .. m : i > 0 => d[i] = IF IsData(w[i]) THEN Append(d[i - 1], w[i]) ELSE d[i - 1]
  <2>1. Filtered(d, w, m)
    OBVIOUS
  <2>. QED  BY ONLY <2>1, m \in Nat, FilteredAt
<1>t. \A i \in 0 .. m : d[i] \in Seq(Data)
  BY FilteredType
<1>1. 0 \in T
  <2>. SUFFICES ASSUME k <= 0 PROVE G(0)
    OBVIOUS
  <2>1. k = 0 /\ d[k] \in Seq(Data)
    BY <1>t
  <2>2. Len(d[k]) \in Nat
    BY <2>1
  <2>. QED  BY <2>1, <2>2
<1>2. ASSUME NEW i \in T PROVE i + 1 \in T
  <2>. SUFFICES ASSUME k <= i + 1, i + 1 <= m PROVE G(i + 1)
    OBVIOUS
  <2>1. CASE k = i + 1
    <3>1. d[k] \in Seq(Data)
      BY <1>t
    <3>2. Len(d[k]) \in Nat
      BY <3>1
    <3>. QED  BY <2>1, <3>2
  <2>2. CASE k <= i
    <3>1. i + 1 \in 0 .. m /\ i \in 0 .. m /\ (i + 1) - 1 = i /\ i + 1 > 0 /\ w[i + 1] \in Frames
      BY <2>2
    <3>2. d[i + 1] = IF IsData(w[i + 1]) THEN Append(d[i], w[i + 1]) ELSE d[i]
      BY <1>0, <3>1
    <3>3. G(i) /\ d[i] \in Seq(Data) /\ d[k] \in Seq(Data)
      BY <1>t, <2>2, <3>1
    <3>4. CASE IsData(w[i + 1])
      <4>1. w[i + 1] \in Data /\ d[i + 1] = Append(d[i], w[i + 1])
        BY <3>1, <3>2, <3>4, DataFrames
      <4>2. Len(d[i + 1]) = Len(d[i]) + 1 /\ \A j \in 1 .. Len(d[i]) : d[i + 1][j] = d[i][j]
        BY <3>3, <4>1, AppendProperties
      <4>3. Len(d[k]) \in Nat /\ Len(d[i]) \in Nat
        BY <3>3
      <4>. QED  BY <3>3, <4>2, <4>3
    <3>5. CASE ~IsData(w[i + 1])
      BY <3>2, <3>3, <3>5
    <3>. QED  BY <3>4, <3>5
  <2>. QED  BY <2>1, <2>2
<1>3. T = Nat
  <2>1. T \in SUBSET Nat
    OBVIOUS
  <2>. HIDE DEF T
  <2>. QED  BY <1>1, <1>2, <2>1, SetInduction
<1>4. m \in T
  BY <1>3
<1>. QED  BY <1>4

\* A cut wire brings a first part of the data.
LEMMA DataOfCut ==
    ASSUME NEW w \in Seq(Frames), NEW k \in 0 .. Len(w)
    PROVE  IsPrefix(DataOf(SubSeq(w, 1, k)), DataOf(w))
<1>. DEFINE v == SubSeq(w, 1, k)
            m == Len(w)
<1>1. m \in Nat /\ k \in Nat /\ k <= m /\ k \in 0 .. m /\ k \in 0 .. k /\ m <= Len(w)
  OBVIOUS
<1>2. v \in Seq(Frames) /\ Len(v) = k /\ \A i \in 1 .. k : v[i] = w[i]
  <2>1. \A i \in 1 .. k : w[i] \in Frames
    BY ElementOfSeq
  <2>. QED  BY <2>1, SubSeqProperties
<1>. HIDE DEF v
<1>3. PICK d : Filtered(d, v, k) /\ DataOf(v) = d[k]
  BY <1>2, DataOfFiltered
<1>4. PICK e : Filtered(e, w, m) /\ DataOf(w) = e[m]
  BY DataOfFiltered
<1>. HIDE DEF m
<1>5. d[k] = e[k]
  <2>1. \A n \in 0 .. k : d[n] = e[n]
    <3>1. /\ m \in Nat /\ k \in Nat /\ k <= m /\ Filtered(d, v, k) /\ Filtered(e, w, m)
          /\ Agree(v, w, k)
      BY <1>1, <1>2, <1>3, <1>4 DEF Agree
    <3>. QED  BY ONLY <3>1, FilteredAgrees
  <2>. QED  BY <1>1, <2>1
<1>6. Len(e[k]) <= Len(e[m]) /\ \A j \in 1 .. Len(e[k]) : e[k][j] = e[m][j]
  BY <1>1, <1>4, FilteredGrows
<1>7. DataOf(v) \in Seq(Data) /\ DataOf(w) \in Seq(Data)
  BY <1>2, DataOfType
<1>8. IsPrefix(DataOf(v), DataOf(w))
  BY <1>3, <1>4, <1>5, <1>6, <1>7, PrefixByEntry
<1>. QED  BY <1>8 DEF v

\* Appending to the second of two sequences.
LEMMA AppendToConcat ==
    ASSUME NEW D, NEW a \in Seq(D), NEW b \in Seq(D), NEW x \in D
    PROVE  Append(a \o b, x) = a \o Append(b, x)
<1>1. /\ a \o b \in Seq(D) /\ Len(a \o b) = Len(a) + Len(b)
      /\ \A i \in 1 .. (Len(a) + Len(b)) : (a \o b)[i] = IF i <= Len(a) THEN a[i] ELSE b[i - Len(a)]
  BY ConcatProperties
<1>2. Append(b, x) \in Seq(D) /\ Len(Append(b, x)) = Len(b) + 1
  OBVIOUS
<1>. DEFINE y == Append(b, x)
            p == Append(a \o b, x)
            q == a \o y
<1>3. /\ q \in Seq(D) /\ Len(q) = Len(a) + Len(y)
      /\ \A i \in 1 .. (Len(a) + Len(y)) : q[i] = IF i <= Len(a) THEN a[i] ELSE y[i - Len(a)]
  BY <1>2, ConcatProperties
<1>4. /\ p \in Seq(D) /\ Len(p) = Len(a) + Len(b) + 1 /\ p[Len(a) + Len(b) + 1] = x
      /\ \A i \in 1 .. (Len(a) + Len(b)) : p[i] = (a \o b)[i]
  BY <1>1, AppendProperties
<1>5. \A i \in 1 .. (Len(a) + Len(b) + 1) : p[i] = q[i]
  BY <1>1, <1>2, <1>3, <1>4
<1>. HIDE DEF p, q
<1>6. p = q
  BY <1>1, <1>2, <1>3, <1>4, <1>5, SeqEqual
<1>. QED  BY <1>6 DEF p, q

\* The first frame comes out first.
LEMMA DataOfTail ==
    ASSUME NEW w \in Seq(Frames), w # <<>>
    PROVE  /\ IsData(Head(w)) => DataOf(w) = <<Head(w)>> \o DataOf(Tail(w))
           /\ ~IsData(Head(w)) => DataOf(w) = DataOf(Tail(w))
<1>. DEFINE v == Tail(w)
            m == Len(v)
            h == Head(w)
<1>1. /\ v \in Seq(Frames) /\ m \in Nat /\ Len(w) = m + 1 /\ h \in Frames /\ h = w[1]
      /\ \A i \in 1 .. m : v[i] = w[i + 1]
  BY HeadTailProperties
<1>2. PICK d : Filtered(d, w, m + 1) /\ DataOf(w) = d[m + 1]
  <2>. HIDE DEF m
  <2>. QED  BY <1>1, DataOfFiltered
<1>3. PICK e : Filtered(e, v, m) /\ DataOf(v) = e[m]
  <2>. HIDE DEF v
  <2>. QED  BY <1>1, DataOfFiltered
<1>. HIDE DEF v, m, h
<1>4. /\ d[0] = <<>>
      /\ \A i \in 0 .. (m + 1) : i > 0 => d[i] = IF IsData(w[i]) THEN Append(d[i - 1], w[i]) ELSE d[i - 1]
  <2>1. m + 1 \in Nat
    BY <1>1
  <2>. QED  BY <1>2, <2>1, FilteredAt, Zenon
<1>5. /\ e[0] = <<>>
      /\ \A i \in 0 .. m : i > 0 => e[i] = IF IsData(v[i]) THEN Append(e[i - 1], v[i]) ELSE e[i - 1]
  BY <1>1, <1>3, FilteredAt, Zenon
<1>t. \A i \in 0 .. m : e[i] \in Seq(Data)
  <2>1. m <= Len(v)
    BY <1>1 DEF m
  <2>. QED  BY <1>1, <1>3, <2>1, FilteredType
<1>. DEFINE G(i) == IF IsData(h) THEN d[i + 1] = <<h>> \o e[i] ELSE d[i + 1] = e[i]
            T == {i \in Nat : i <= m => G(i)}
<1>6. 0 \in T
  <2>1. 1 \in 0 .. (m + 1) /\ 1 > 0 /\ 1 - 1 = 0 /\ 0 + 1 = 1
    BY <1>1
  <2>2. d[1] = IF IsData(w[1]) THEN Append(d[0], w[1]) ELSE d[0]
    BY <1>4, <2>1
  <2>3. Append(<<>>, h) = <<h>> /\ <<h>> \o <<>> = <<h>>
    BY <1>1
  <2>4. G(0)
    BY <1>1, <1>4, <1>5, <2>1, <2>2, <2>3
  <2>. QED  BY <2>4
<1>7. ASSUME NEW i \in T PROVE i + 1 \in T
  <2>. SUFFICES ASSUME i + 1 <= m PROVE G(i + 1)
    OBVIOUS
  <2>. DEFINE x == w[(i + 1) + 1]
  <2>1. /\ i + 1 \in 0 .. m /\ i + 1 > 0 /\ (i + 1) - 1 = i /\ i \in 0 .. m
        /\ (i + 1) + 1 \in 0 .. (m + 1) /\ (i + 1) + 1 > 0 /\ ((i + 1) + 1) - 1 = i + 1
        /\ v[i + 1] = x /\ x \in Frames
    BY <1>1
  <2>2. d[(i + 1) + 1] = IF IsData(x) THEN Append(d[i + 1], x) ELSE d[i + 1]
    BY <1>4, <2>1
  <2>3. e[i + 1] = IF IsData(x) THEN Append(e[i], x) ELSE e[i]
    BY <1>5, <2>1
  <2>4. G(i) /\ e[i] \in Seq(Data)
    BY <1>t, <2>1
  <2>5. CASE IsData(h)
    <3>1. h \in Data /\ d[i + 1] = <<h>> \o e[i]
      BY <1>1, <2>4, <2>5, DataFrames
    <3>2. IsData(x) => Append(<<h>> \o e[i], x) = <<h>> \o Append(e[i], x)
      <4>. SUFFICES ASSUME IsData(x) PROVE Append(<<h>> \o e[i], x) = <<h>> \o Append(e[i], x)
        OBVIOUS
      <4>1. x \in Data
        BY <2>1, DataFrames
      <4>. DEFINE a == <<h>>
                  b == e[i]
      <4>2. a \in Seq(Data) /\ b \in Seq(Data)
        BY <2>4, <3>1
      <4>. HIDE DEF a, b, x
      <4>3. Append(a \o b, x) = a \o Append(b, x)
        BY ONLY <4>1, <4>2, AppendToConcat
      <4>. QED  BY <4>3 DEF a, b
    <3>3. d[(i + 1) + 1] = <<h>> \o e[i + 1]
      BY <2>2, <2>3, <3>1, <3>2
    <3>. QED  BY <2>5, <3>3
  <2>6. CASE ~IsData(h)
    BY <2>2, <2>3, <2>4, <2>6
  <2>. QED  BY <2>5, <2>6
<1>8. T = Nat
  <2>1. T \in SUBSET Nat
    OBVIOUS
  <2>. HIDE DEF T
  <2>. QED  BY <1>6, <1>7, <2>1, SetInduction
<1>9. G(m)
  <2>1. m \in T
    BY <1>1, <1>8
  <2>2. m <= m => G(m)
    <3>. HIDE DEF G
    <3>. QED  BY <2>1
  <2>3. m <= m
    BY <1>1
  <2>. QED  BY <2>2, <2>3
<1>. QED  BY <1>2, <1>3, <1>9 DEF v, h

-----------------------------------------------------------------------------
\* A close is the last frame of the wire.
ClosesLast(w) == \A i \in 1 .. Len(w) : w[i] \in Closes => i = Len(w)

\* Once the reader knows of the end nothing is left on the wire, and the line of a
\* connection whose end tungstenite has seen brings nothing more.
PipeInv ==
    /\ ClosesLast(wire)
    /\ closed # NotClosed => wire = <<>>
    /\ lib = "terminated" => wire = <<>> /\ line # "up"
    /\ call # "none" => closed = NotClosed

\* The code of a close is none of "not closed".
LEMMA CloseCode == ASSUME NEW f \in Closes PROVE f[2] \in Codes \cup {NoCode} /\ f[2] # NotClosed
<1>1. PICK c \in Codes \cup {NoCode} : f = <<"close", c>>
  BY DEF Closes, Close
<1>. QED  BY <1>1, LinkAssumption

\* The frames of a wire are the values of a function on 1 .. Len(w).
LEMMA ClosesInWire ==
    ASSUME NEW w \in Seq(Frames)
    PROVE  ClosesIn(w) = {f \in Closes : \E i \in 1 .. Len(w) : f = w[i]}
BY DEF ClosesIn, Range

\* The code of a wire's end is that of its last frame.
LEMMA CodeOfLast ==
    ASSUME NEW w \in Seq(Frames), ClosesLast(w)
    PROVE  /\ ClosesIn(w) # {} => w # <<>> /\ w[Len(w)] \in Closes /\ CodeIn(w) = w[Len(w)][2]
           /\ w # <<>> /\ w[Len(w)] \in Closes => ClosesIn(w) # {}
<1>1. ASSUME NEW f \in ClosesIn(w) PROVE w # <<>> /\ f = w[Len(w)] /\ f \in Closes
  BY <1>1, ClosesInWire DEF ClosesLast
<1>2. ASSUME w # <<>>, w[Len(w)] \in Closes PROVE ClosesIn(w) # {}
  <2>1. Len(w) \in 1 .. Len(w)
    BY <1>2
  <2>. QED  BY <1>2, <2>1, ClosesInWire
<1>3. ClosesIn(w) # {} => (CHOOSE f \in ClosesIn(w) : TRUE) \in ClosesIn(w)
  OBVIOUS
<1>. QED  BY <1>1, <1>2, <1>3 DEF CodeIn

\* The closes of a wire that grew by one frame.
LEMMA ClosesInAppend ==
    ASSUME NEW w \in Seq(Frames), ClosesIn(w) = {}, NEW f \in Frames
    PROVE  ClosesIn(Append(w, f)) = {f} \cap Closes /\ ClosesLast(Append(w, f))
<1>. DEFINE v == Append(w, f)
            k == Len(w)
<1>1. /\ v \in Seq(Frames) /\ Len(v) = k + 1 /\ v[k + 1] = f /\ k \in Nat
      /\ \A i \in 1 .. k : v[i] = w[i]
  OBVIOUS
<1>2. \A i \in 1 .. k : w[i] \notin Closes
  BY ClosesInWire
<1>. HIDE DEF v, k
<1>3. \A i \in 1 .. (k + 1) : v[i] \in Closes => i = k + 1
  BY <1>1, <1>2
<1>4. k + 1 \in 1 .. (k + 1)
  BY <1>1
<1>5. ClosesIn(v) = {f} \cap Closes /\ ClosesLast(v)
  BY <1>1, <1>3, <1>4, ClosesInWire DEF ClosesLast
<1>. QED  BY <1>5 DEF v

\* The closes of a wire whose first frame is read.
LEMMA ClosesInTail ==
    ASSUME NEW w \in Seq(Frames), w # <<>>, ClosesLast(w)
    PROVE  /\ ClosesLast(Tail(w))
           /\ Head(w) \notin Closes => ClosesIn(Tail(w)) = ClosesIn(w)
           /\ Head(w) \in Closes => Tail(w) = <<>>
<1>. DEFINE v == Tail(w)
            m == Len(v)
<1>1. /\ v \in Seq(Frames) /\ m \in Nat /\ Len(w) = m + 1 /\ Head(w) = w[1]
      /\ \A i \in 1 .. m : v[i] = w[i + 1]
  BY HeadTailProperties
<1>2. Head(w) \in Closes => Tail(w) = <<>>
  <2>1. 1 \in 1 .. Len(w)
    BY <1>1
  <2>2. Head(w) \in Closes => m = 0
    <3>. HIDE DEF m
    <3>. QED  BY <1>1, <2>1 DEF ClosesLast
  <2>. QED  BY <1>1, <2>2, EmptySeq
<1>. HIDE DEF v, m
<1>3. ClosesLast(v)
  <2>. SUFFICES ASSUME NEW i \in 1 .. m, v[i] \in Closes PROVE i = m
    BY DEF ClosesLast, m
  <2>1. i + 1 \in 1 .. Len(w) /\ w[i + 1] \in Closes
    BY <1>1
  <2>. QED  BY <1>1, <2>1 DEF ClosesLast
<1>4. ASSUME Head(w) \notin Closes PROVE ClosesIn(v) = ClosesIn(w)
  <2>1. ASSUME NEW f \in Closes, NEW i \in 1 .. Len(w), f = w[i] PROVE \E j \in 1 .. m : f = v[j]
    <3>1. i # 1
      BY <1>1, <1>4, <2>1
    <3>2. i - 1 \in 1 .. m /\ (i - 1) + 1 = i
      BY <1>1, <3>1
    <3>3. f = v[i - 1]
      BY <1>1, <2>1, <3>2
    <3>. QED  BY <3>2, <3>3
  <2>2. ASSUME NEW f \in Closes, NEW j \in 1 .. m, f = v[j] PROVE \E i \in 1 .. Len(w) : f = w[i]
    <3>1. j + 1 \in 1 .. Len(w) /\ f = w[j + 1]
      BY <1>1, <2>2
    <3>. QED  BY <3>1
  <2>3. ClosesIn(v) = {f \in Closes : \E i \in 1 .. m : f = v[i]}
    BY <1>1, ClosesInWire DEF m
  <2>4. ClosesIn(w) = {f \in Closes : \E i \in 1 .. Len(w) : f = w[i]}
    BY ClosesInWire
  <2>. QED  BY <2>1, <2>2, <2>3, <2>4
<1>. QED  BY <1>2, <1>3, <1>4 DEF v

\* The closes of a wire that is cut off: with its close the whole of it is left.
LEMMA ClosesInCut ==
    ASSUME NEW w \in Seq(Frames), NEW k \in 0 .. Len(w), ClosesLast(w)
    PROVE  /\ SubSeq(w, 1, k) \in Seq(Frames) /\ ClosesLast(SubSeq(w, 1, k))
           /\ ClosesIn(SubSeq(w, 1, k)) # {} => SubSeq(w, 1, k) = w
           /\ w = <<>> => SubSeq(w, 1, k) = <<>>
<1>. DEFINE v == SubSeq(w, 1, k)
<1>1. v \in Seq(Frames) /\ Len(v) = k /\ k \in Nat /\ \A i \in 1 .. k : v[i] = w[i]
  <2>1. \A i \in 1 .. k : w[i] \in Frames
    BY ElementOfSeq
  <2>. QED  BY <2>1, SubSeqProperties
<1>2. k = Len(w) => v = w
  BY SubSeqFull
<1>. HIDE DEF v
<1>3. \A i \in 1 .. k : v[i] \in Closes => i = Len(w)
  BY <1>1 DEF ClosesLast
<1>4. ClosesLast(v)
  BY <1>1, <1>3 DEF ClosesLast
<1>5. ClosesIn(v) # {} => v = w
  <2>. SUFFICES ASSUME NEW f \in ClosesIn(v) PROVE v = w
    OBVIOUS
  <2>1. PICK i \in 1 .. k : f \in Closes /\ f = v[i]
    BY <1>1, ClosesInWire
  <2>2. k = Len(w)
    BY <1>1, <1>3, <2>1
  <2>. QED  BY <1>2, <2>2
<1>6. w = <<>> => v = w
  BY <1>2
<1>. QED  BY <1>1, <1>4, <1>5, <1>6 DEF v

\* A sequence with one entry put before it.
LEMMA ConsProperties ==
    ASSUME NEW D, NEW f \in D, NEW r \in Seq(D)
    PROVE  LET q == <<f>> \o r IN q # <<>> /\ Head(q) = f /\ Tail(q) = r
<1>. DEFINE a == <<f>>
            q == a \o r
<1>1. a \in Seq(D) /\ Len(a) = 1 /\ a[1] = f
  OBVIOUS
<1>2. /\ q \in Seq(D) /\ Len(q) = 1 + Len(r)
      /\ \A i \in 1 .. 1 + Len(r) : q[i] = IF i <= 1 THEN f ELSE r[i - 1]
  <2>. HIDE DEF a
  <2>1. /\ q \in Seq(D) /\ Len(q) = Len(a) + Len(r)
        /\ \A i \in 1 .. Len(a) + Len(r) : q[i] = IF i <= Len(a) THEN a[i] ELSE r[i - Len(a)]
    BY <1>1, ConcatProperties
  <2>. HIDE DEF q
  <2>2. ASSUME NEW i \in 1 .. 1 + Len(r) PROVE q[i] = IF i <= 1 THEN f ELSE r[i - 1]
    <3>1. Len(r) \in Nat /\ i \in Nat /\ i >= 1
      OBVIOUS
    <3>2. q[i] = IF i <= 1 THEN a[i] ELSE r[i - 1]
      BY <1>1, <2>1
    <3>. QED  BY <1>1, <3>1, <3>2
  <2>. QED  BY <1>1, <2>1, <2>2
<1>. HIDE DEF q
<1>3. q # <<>> /\ Head(q) = q[1] /\ Tail(q) \in Seq(D) /\ Len(Tail(q)) = Len(q) - 1
      /\ \A i \in 1 .. Len(Tail(q)) : Tail(q)[i] = q[i + 1]
  BY <1>2, HeadTailProperties
<1>4. Len(r) \in Nat
  OBVIOUS
<1>5. Head(q) = f
  BY <1>2, <1>3, <1>4
<1>6. Len(Tail(q)) = Len(r) /\ \A i \in 1 .. Len(r) : Tail(q)[i] = r[i]
  BY <1>2, <1>3, <1>4
<1>7. Tail(q) = r
  BY <1>3, <1>6, SeqEqual
<1>. QED  BY <1>3, <1>5, <1>7 DEF q

\* Every step keeps it.
LEMMA PipeStep == ASSUME FramesInv, PipeInv, [Next]_vars PROVE PipeInv'
<1>0. wire \in Seq(Frames) /\ ClosesLast(wire)
  BY DEF FramesInv, PipeInv
<1>1. ASSUME NEW u \in Urls, NEW o, NEW ok \in BOOLEAN, Connect(u, o, ok) PROVE PipeInv'
  BY <1>1 DEF Connect, server, PipeInv
<1>2. ASSUME NEW f \in Frames, ServerSends(f) PROVE PipeInv'
  <2>1. ClosesLast(wire')
    BY <1>0, <1>2, ClosesInAppend DEF ServerSends
  <2>2. closed' = NotClosed /\ lib' # "terminated"
    BY <1>2 DEF ServerSends, PipeInv
  <2>. QED  BY <2>1, <2>2 DEF PipeInv
<1>3. ASSUME NEW how \in {"eof", "reset"}, NEW w \in Cuts, LineBreaks(how, w) PROVE PipeInv'
  <2>1. ClosesLast(wire') /\ (wire = <<>> => wire' = <<>>)
    BY <1>0, <1>3, ClosesInCut DEF LineBreaks, CutTo, Cuts
  <2>2. UNCHANGED <<closed, lib, call>> /\ line' # "up"
    BY <1>3 DEF LineBreaks
  <2>. QED  BY <2>1, <2>2 DEF PipeInv
<1>4. ASSUME NEW t \in 0 .. MaxWait, Recv(t) PROVE PipeInv'
  BY <1>4 DEF Recv, Return, server, PipeInv
<1>5. CASE Top
  BY <1>5 DEF Top, Return, server, PipeInv
<1>6. CASE ReadPiece
  BY <1>6 DEF ReadPiece, server, PipeInv
<1>7. CASE ReadFrame
  <2>1. wire # <<>> /\ wire' = Tail(wire) /\ lib' = "active" /\ closed = NotClosed
    BY <1>7 DEF ReadFrame, PipeInv
  <2>2. ClosesLast(wire') /\ (Head(wire) \in Closes => wire' = <<>>)
    BY <1>0, <2>1, ClosesInTail
  <2>3. closed' = NotClosed \/ (Head(wire) \in Closes /\ call' = "none")
    BY <1>7, <2>1 DEF ReadFrame, Return
  <2>. QED  BY <2>1, <2>2, <2>3 DEF PipeInv
<1>8. CASE ReadTimesOut \/ ReadEof \/ ReadFails
  BY <1>8 DEF ReadTimesOut, ReadEof, ReadFails, Return, server, PipeInv
<1>9. CASE Wait
  BY <1>9 DEF Wait, server, PipeInv
<1>10. ASSUME NEW w \in Cuts, Send(w) PROVE PipeInv'
  <2>1. call' = "none" /\ lib' = lib
    BY <1>10 DEF Send, Return
  <2>2. CASE wire' = w
    <3>1. ClosesLast(wire') /\ (wire = <<>> => wire' = <<>>)
      BY <1>0, <2>2, ClosesInCut DEF Cuts
    <3>2. (line # "up" => line' # "up") /\ (closed' = closed \/ wire = <<>>)
      BY <1>10 DEF Send, PipeInv
    <3>. QED  BY <2>1, <3>1, <3>2 DEF PipeInv
  <2>3. CASE wire' = wire
    <3>1. (line # "up" => line' # "up") /\ (closed' = closed \/ wire = <<>>)
      BY <1>10 DEF Send, PipeInv
    <3>. QED  BY <2>1, <2>3, <3>1 DEF PipeInv
  <2>. QED  BY <1>10, <2>2, <2>3 DEF Send, CutTo
<1>11. CASE UNCHANGED vars
  BY <1>11 DEF vars, server, PipeInv
<1>. QED  BY <1>1, <1>2, <1>3, <1>4, <1>5, <1>6, <1>7, <1>8, <1>9, <1>10, <1>11
          DEF Next, Reads

\* The pipe means the same by a prefix.
LEMMA SamePrefix == ASSUME NEW s, NEW t, IsPrefix(s, t) PROVE P!IsPrefix(s, t)
BY DEF IsPrefix, P!IsPrefix

\* A line that breaks takes a tail of the data and the close with it, or neither.
LEMMA CutBreaks ==
    ASSUME FramesInv, PipeInv, NEW w \in Cuts, CutTo(w), UNCHANGED <<closed, got>>,
           line' # "up", line' = line \/ line = "up" \/ line = "eof"
    PROVE  P!Break \/ UNCHANGED P!pipe
<1>1. PICK k \in 0 .. Len(wire) : w = SubSeq(wire, 1, k)
  BY DEF Cuts
<1>2. wire \in Seq(Frames) /\ ClosesLast(wire) /\ wire' = w
  BY DEF FramesInv, PipeInv, CutTo
<1>3. /\ ClosesIn(w) # {} => w = wire
      /\ wire = <<>> => w = <<>>
  BY <1>1, <1>2, ClosesInCut
<1>4. CASE closed # NotClosed
  <2>1. wire' = wire
    BY <1>2, <1>3, <1>4 DEF PipeInv
  <2>2. Ended' = Ended
    BY <1>4 DEF Ended
  <2>. QED  BY <2>1, <2>2 DEF P!pipe
<1>5. CASE closed = NotClosed /\ ClosesIn(w) # {}
  <2>1. wire' = wire
    BY <1>2, <1>3, <1>5
  <2>2. Ended' = Ended
    BY <1>2, <1>5, <2>1 DEF Ended
  <2>. QED  BY <2>1, <2>2 DEF P!pipe
<1>6. CASE closed = NotClosed /\ ClosesIn(w) = {}
  <2>1. Ended' = NoCode
    BY <1>2, <1>6 DEF Ended
  <2>2. IsPrefix(DataOf(w), DataOf(wire))
    BY <1>1, <1>2, DataOfCut
  <2>. QED  BY <1>2, <1>6, <2>1, <2>2, SamePrefix DEF P!Break
<1>. QED  BY <1>4, <1>5, <1>6

\* The reader hears of an end without a close once nothing is left.
LEMMA EndWithoutClose ==
    ASSUME PipeInv, closed = NotClosed, closed' = NoCode, wire = <<>>, line # "up", UNCHANGED <<wire, got>>
    PROVE  P!Over
<1>1. ClosesIn(wire) = {}
  BY DEF ClosesIn, Range
<1>2. Ended = NoCode /\ NoCode # NotClosed
  BY <1>1, LinkAssumption DEF Ended
<1>3. Ended' = NoCode
  BY <1>2 DEF Ended
<1>. QED  BY <1>2, <1>3, DataOfEmpty DEF P!Over

\* Every step of the link is a step of the pipe or none.
LEMMA PipeRefined ==
    ASSUME FramesInv, PipeInv, [Next]_vars
    PROVE  [P!Next]_(P!pipe)
<1>. USE DEF P!Next
<1>0. wire \in Seq(Frames) /\ ClosesLast(wire)
  BY DEF FramesInv, PipeInv
<1>s. ASSUME UNCHANGED <<wire, line, closed, got>> PROVE UNCHANGED P!pipe
  <2>1. Ended' = Ended
    BY <1>s DEF Ended
  <2>. QED  BY <1>s, <2>1 DEF P!pipe
<1>1. ASSUME NEW u \in Urls, NEW o, NEW ok \in BOOLEAN, Connect(u, o, ok) PROVE UNCHANGED P!pipe
  BY <1>1, <1>s DEF Connect, server
<1>2. ASSUME NEW f \in Frames, ServerSends(f) PROVE [P!Next]_(P!pipe)
  <2>1. /\ closed = NotClosed /\ ClosesIn(wire) = {} /\ line = "up" /\ wire' = Append(wire, f)
        /\ UNCHANGED <<closed, line, got>>
    BY <1>2 DEF ServerSends
  <2>2. Ended = NotClosed
    BY <2>1 DEF Ended
  <2>3. ClosesIn(wire') = {f} \cap Closes /\ ClosesLast(wire') /\ wire' \in Seq(Frames)
    BY <1>0, <2>1, ClosesInAppend
  <2>4. DataOf(wire') = IF IsData(f) THEN Append(DataOf(wire), f) ELSE DataOf(wire)
    BY <1>0, <2>1, DataOfAppend
  <2>5. DataOf(wire) \in Seq(Data)
    BY <1>0, DataOfType
  <2>6. CASE IsData(f)
    <3>1. Ended' = NotClosed
      BY <2>1, <2>3, <2>6 DEF Ended, IsData
    <3>2. f \in Data
      BY <2>6, DataFrames
    <3>. DEFINE q == DataOf(wire)
                r == DataOf(wire')
    <3>3. r = Append(q, f) /\ q \in Seq(Data)
      BY <2>4, <2>5, <2>6
    <3>. HIDE DEF q, r
    <3>4. /\ r \in Seq(Data) /\ Len(r) = Len(q) + 1 /\ Len(q) <= Len(r)
          /\ \A i \in 1 .. Len(q) : q[i] = r[i]
      BY <3>2, <3>3, AppendProperties
    <3>5. IsPrefix(q, r)
      BY <3>3, <3>4, PrefixByEntry
    <3>6. P!Put
      BY <2>1, <2>2, <3>1, <3>4, <3>5, SamePrefix DEF P!Put, q, r
    <3>. QED  BY <3>6
  <2>7. CASE f = Ping
    <3>1. ~IsData(f) /\ f \notin Closes
      BY <2>7, FramesAssumption DEF IsData
    <3>2. Ended' = NotClosed
      BY <2>1, <2>3, <3>1 DEF Ended
    <3>. QED  BY <2>1, <2>2, <2>4, <3>1, <3>2 DEF P!pipe
  <2>8. CASE f \in Closes
    <3>1. ~IsData(f) /\ ClosesIn(wire') = {f}
      BY <2>3, <2>8 DEF IsData
    <3>2. CodeIn(wire') = f[2]
      BY <3>1 DEF CodeIn
    <3>3. Ended' # NotClosed
      BY <2>1, <2>8, <3>1, <3>2, CloseCode DEF Ended
    <3>4. P!End
      BY <2>1, <2>2, <2>4, <3>1, <3>3 DEF P!End
    <3>. QED  BY <3>4
  <2>. QED  BY <2>6, <2>7, <2>8 DEF IsData
<1>3. ASSUME NEW how \in {"eof", "reset"}, NEW w \in Cuts, LineBreaks(how, w) PROVE [P!Next]_(P!pipe)
  <2>1. CutTo(w) /\ UNCHANGED <<closed, got>> /\ line' # "up" /\ line = "up"
    BY <1>3 DEF LineBreaks
  <2>. QED  BY <2>1, CutBreaks
<1>4. ASSUME NEW t \in 0 .. MaxWait, Recv(t) PROVE UNCHANGED P!pipe
  BY <1>4, <1>s DEF Recv, server
<1>5. CASE Top
  BY <1>5, <1>s DEF Top, server
<1>6. CASE ReadPiece
  BY <1>6, <1>s DEF ReadPiece, server
<1>7. CASE ReadFrame
  <2>. DEFINE f == Head(wire)
  <2>1. wire # <<>> /\ wire' = Tail(wire) /\ line' = line /\ closed = NotClosed /\ f \in Frames
    BY <1>0, <1>7 DEF ReadFrame, PipeInv
  <2>2. /\ IsData(f) => DataOf(wire) = <<f>> \o DataOf(wire')
        /\ ~IsData(f) => DataOf(wire) = DataOf(wire')
    BY <1>0, <2>1, DataOfTail
  <2>3. /\ f \notin Closes => ClosesIn(wire') = ClosesIn(wire)
        /\ f \in Closes => wire' = <<>>
    BY <1>0, <2>1, ClosesInTail
  <2>4. wire' \in Seq(Frames)
    BY <1>0, <2>1
  <2>5. CASE f \notin Closes
    <3>1. closed' = closed /\ got' = IF IsData(f) THEN Append(got, f) ELSE got
      BY <1>7, <2>5 DEF ReadFrame
    <3>2. Ended' = Ended
      <4>1. ClosesIn(wire') = ClosesIn(wire)
        BY <2>3, <2>5
      <4>2. CodeIn(wire') = CodeIn(wire)
        BY <4>1 DEF CodeIn
      <4>. QED  BY <2>1, <3>1, <4>1, <4>2 DEF Ended
    <3>3. CASE IsData(f)
      <4>. DEFINE q == DataOf(wire)
                  r == DataOf(wire')
      <4>1. r \in Seq(Data) /\ f \in Data /\ q = <<f>> \o r
        BY <2>1, <2>2, <2>4, <3>3, DataOfType, DataFrames
      <4>. HIDE DEF q, r
      <4>2. q # <<>> /\ Head(q) = f /\ Tail(q) = r
        BY <4>1, ConsProperties
      <4>3. P!Get
        BY <2>1, <3>1, <3>2, <3>3, <4>2 DEF P!Get, q, r
      <4>. QED  BY <4>3
    <3>4. CASE ~IsData(f)
      BY <2>2, <3>1, <3>2, <3>4 DEF P!pipe
    <3>. QED  BY <3>3, <3>4
  <2>6. CASE f \in Closes
    <3>1. ~IsData(f) /\ f \notin Messages \cup {Bad, Ping} /\ wire' = <<>>
      BY <2>3, <2>6, FramesAssumption DEF IsData
    <3>2. closed' = f[2] /\ got' = got
      BY <1>7, <3>1 DEF ReadFrame
    <3>3. Ended = f[2] /\ f[2] # NotClosed
      <4>1. Len(wire) = 1 /\ f = wire[1]
        <5>1. Len(Tail(wire)) = Len(wire) - 1 /\ f = wire[1] /\ Len(wire) \in Nat
          BY <1>0, <2>1, HeadTailProperties
        <5>2. Tail(wire) = <<>>
          BY <2>1, <3>1, Zenon
        <5>3. Len(<<>>) = 0
          OBVIOUS
        <5>4. Len(Tail(wire)) = 0
          BY <5>2, <5>3, Zenon
        <5>. QED  BY <5>1, <5>4
      <4>2. ClosesIn(wire) # {} /\ CodeIn(wire) = f[2]
        BY <1>0, <2>1, <2>6, <4>1, CodeOfLast
      <4>. QED  BY <2>1, <2>6, <4>2, CloseCode DEF Ended
    <3>4. Ended' = f[2]
      BY <3>2, <3>3 DEF Ended
    <3>5. DataOf(wire) = <<>> /\ DataOf(wire') = <<>>
      BY <2>2, <3>1, DataOfEmpty
    <3>6. P!Over
      BY <2>1, <3>2, <3>3, <3>4, <3>5 DEF P!Over
    <3>. QED  BY <3>6
  <2>. QED  BY <2>5, <2>6
<1>8. CASE ReadTimesOut
  BY <1>8, <1>s DEF ReadTimesOut, server
<1>9. CASE ReadEof
  <2>1. CASE lib = "active"
    <3>1. UNCHANGED <<wire, line, closed, got>>
      BY <1>9, <2>1 DEF ReadEof, server
    <3>. QED  BY <1>s, <3>1
  <2>2. CASE lib = "terminated"
    <3>1. wire = <<>> /\ line # "up" /\ closed = NotClosed /\ closed' = NoCode /\ UNCHANGED <<wire, got>>
      BY <1>9, <2>2 DEF ReadEof, server, PipeInv
    <3>. QED  BY <3>1, EndWithoutClose
  <2>. QED  BY <2>1, <2>2 DEF FramesInv
<1>10. CASE ReadFails
  <2>1. line # "up" /\ line' # "up" /\ UNCHANGED <<wire, closed, got>>
    BY <1>10 DEF ReadFails
  <2>2. Ended' = Ended
    BY <2>1 DEF Ended
  <2>. QED  BY <2>1, <2>2 DEF P!pipe
<1>11. CASE Wait
  BY <1>11, <1>s DEF Wait, server
<1>12. ASSUME NEW w \in Cuts, Send(w) PROVE [P!Next]_(P!pipe)
  <2>0. got' = got
    BY <1>12 DEF Send
  <2>1. CASE UNCHANGED <<wire, line, closed>>
    BY <1>s, <2>0, <2>1
  <2>2. CASE closed = NotClosed /\ lib = "terminated"
    <3>1. wire = <<>> /\ line # "up" /\ closed' = NoCode /\ wire' = wire
      BY <1>12, <2>2 DEF Send, PipeInv
    <3>. QED  BY <2>0, <2>2, <3>1, EndWithoutClose
  <2>3. CASE line = "eof" /\ line' = "reset" /\ CutTo(w) /\ closed' = closed
    BY <2>0, <2>3, CutBreaks
  <2>. QED  BY <1>12, <2>1, <2>2, <2>3 DEF Send
<1>13. CASE UNCHANGED vars
  BY <1>13, <1>s DEF vars, server
<1>. QED  BY <1>1, <1>2, <1>3, <1>4, <1>5, <1>6, <1>7, <1>8, <1>9, <1>10, <1>11, <1>12, <1>13
          DEF Next, Reads

\* WsLink is a pipe (link.rs:84-150): recv delivers what the server sent in order, loses
\* nothing to a timeout in the middle of a frame, and reports the close after all of it,
\* with the server's code and the same code ever after.
THEOREM LinkImplementsPipe == Spec => ImplementsPipe
<1>1. Init => FramesInv /\ PipeInv
  BY LinkAssumption, EmptySeq DEF Init, FramesInv, PipeInv, ClosesLast
<1>2. Init => P!Init
  <2>. SUFFICES ASSUME Init PROVE P!Init
    OBVIOUS
  <2>1. wire = <<>> /\ closed = NotClosed /\ line = "up" /\ got = <<>>
    BY DEF Init
  <2>2. ClosesIn(wire) = {}
    BY <2>1 DEF ClosesIn, Range
  <2>3. Ended = NotClosed
    BY <2>1, <2>2 DEF Ended
  <2>. QED  BY <2>1, <2>3, DataOfEmpty DEF P!Init
<1>3. FramesInv /\ [Next]_vars => FramesInv'
  BY FramesStep
<1>4. FramesInv /\ PipeInv /\ [Next]_vars => PipeInv'
  BY PipeStep
<1>5. FramesInv /\ PipeInv /\ [Next]_vars => [P!Next]_(P!pipe)
  BY PipeRefined
<1>. QED  BY <1>1, <1>2, <1>3, <1>4, <1>5, PTL DEF Spec, ImplementsPipe, P!Spec
=============================================================================
