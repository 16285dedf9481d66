---------------------------- MODULE AnswerProofs -----------------------------
(***************************************************************************)
(* Proofs about Answer, for any result, any rules and a connection that    *)
(* may break at any time.                                                  *)
(***************************************************************************)
EXTENDS Answer, SequenceTheorems, WellFoundedInduction, TLAPS

(* The inductive invariant.                                                *)

\* What the handler has to send.
JSONLines == [i \in DOMAIN rows |-> JSONRow(rows[i])]
Lines == IF route = "/" THEN <<"page">>
         ELSE IF route = "/csv" THEN csvOutput ELSE JSONLines
Line == {Lines[i] : i \in DOMAIN Lines}

ResultInv ==
  /\ route \in {"/", "/csv", "/json"}
  /\ cols \in Seq(STRING)
  /\ \E n \in Nat : rows \in [1..n -> [DOMAIN cols -> Values]]
  /\ page \in {<<>>, uiOutput}

\* The lines are somewhere on their way, all of them and in order.
SendInv ==
  /\ wire \in Seq(Line) /\ buffer \in Seq(Line) /\ left \in Seq(Line)
  /\ server \in {"render", "write", "ended", "torn", "cut"}
  /\ code \in {0, 200, 500} /\ (wire # <<>> => code = 200)
  /\ Compressed \/ buffer = <<>>
  /\ server = "render" => wire = <<>> /\ buffer = <<>> /\ code = 0
  /\ server = "write" => (wire \o buffer) \o left = Lines /\ code # 500
  /\ server = "ended" /\ code = 200 => wire = Lines

\* The client has read the first of them, and all if it is content.
ReadInv ==
  /\ client \in {"reads", "ok", "error"}
  /\ got \in Seq(Line)
  /\ Len(got) <= Len(wire) /\ got = SubSeq(wire, 1, Len(got))
  /\ client = "ok" => server = "ended" /\ code = 200 /\ got = wire

IInv == ResultInv /\ SendInv /\ ReadInv
-----------------------------------------------------------------------------
(* Sequences.                                                              *)

\* Lines put together.
LEMMA Joins ==
  ASSUME NEW a \in Seq(Line), NEW b \in Seq(Line), NEW c \in Seq(Line)
  PROVE  (a \o b) \o c = a \o (b \o c)
BY ConcatAssociative

\* To take the head off a sequence and put it back changes nothing.
LEMMA HeadFirst ==
  ASSUME NEW S, NEW s \in Seq(S), s # <<>>
  PROVE  Head(s) \in S /\ Tail(s) \in Seq(S) /\ <<Head(s)>> \o Tail(s) = s
<1>1. Head(s) \in S /\ Tail(s) \in Seq(S) /\ <<Head(s)>> \in Seq(S)
  BY HeadTailProperties
<1>2. Len(<<Head(s)>> \o Tail(s)) = Len(s)
  BY <1>1, HeadTailProperties, ConcatProperties, LenProperties
<1>3. ASSUME NEW i \in 1..Len(s) PROVE (<<Head(s)>> \o Tail(s))[i] = s[i]
  BY <1>1, HeadTailProperties, ConcatProperties, LenProperties
<1> QED
  BY <1>1, <1>2, <1>3, ConcatProperties, SeqEqual

\* What was read stays the beginning of what was sent.
LEMMA StillPrefix ==
  ASSUME NEW S, NEW w \in Seq(S), NEW b \in Seq(S), NEW g \in Seq(S),
         Len(g) <= Len(w), g = SubSeq(w, 1, Len(g))
  PROVE  Len(g) <= Len(w \o b) /\ g = SubSeq(w \o b, 1, Len(g))
<1>1. Len(g) \in Nat /\ Len(w) \in Nat /\ Len(b) \in Nat
  BY LenProperties
<1>2. CASE g = <<>>
  BY <1>1, <1>2, EmptySeq, SubSeqEmpty, ConcatProperties
<1>3. CASE g # <<>>
  <2>1. Len(g) \in 1..Len(w) /\ 1 \in 1..Len(w)
    BY <1>1, <1>3, EmptySeq
  <2> QED
    BY <1>1, <2>1, SubSeqOfConcat1, ConcatProperties
<1> QED
  BY <1>2, <1>3
-----------------------------------------------------------------------------
(* The lines of a result.                                                  *)

LEMMA LinesSeq ==
  ASSUME ResultInv
  PROVE  Lines \in Seq(Line)
<1> PICK n \in Nat : rows \in [1..n -> [DOMAIN cols -> Values]]
  BY DEF ResultInv
<1>1. \E S : Lines \in Seq(S)
  <2>1. CASE route = "/"
    <3>1. <<"page">> \in Seq({"page"})
      OBVIOUS
    <3> QED
      BY <2>1, <3>1 DEF Lines
  <2>2. CASE route = "/csv"
    <3> DEFINE T == [i \in DOMAIN rows |-> [j \in DOMAIN cols |-> Text(rows[i][j], "")]]
               S == {cols} \cup {T[i] : i \in 1..n}
    <3>2. Lines = IF cols = <<>> THEN <<>> ELSE <<cols>> \o T
      BY <2>2 DEF Lines, csvOutput
    <3> HIDE DEF T
    <3>4. DOMAIN T = 1..n /\ T = [i \in 1..n |-> T[i]]
      BY DEF T
    <3>5. T \in [1..n -> S]
      BY <3>4
    <3> HIDE DEF S
    <3>6. cols \in S
      BY DEF S
    <3>1. T \in Seq(S) /\ <<cols>> \in Seq(S) /\ <<>> \in Seq(S)
      BY <3>5, <3>6
    <3>3. Lines \in Seq(S)
      BY <3>1, <3>2, ConcatProperties
    <3> QED
      BY <3>3
  <2>3. CASE route = "/json"
    <3>1. JSONLines \in Seq({JSONRow(rows[i]) : i \in 1..n})
      BY DEF JSONLines
    <3> QED
      BY <2>3, <3>1 DEF Lines
  <2> QED
    BY <2>1, <2>2, <2>3 DEF ResultInv
<1> PICK S : Lines \in Seq(S)
  BY <1>1
<1>2. Lines \in [1..Len(Lines) -> Line] /\ Len(Lines) \in Nat
  BY LenProperties DEF Line
<1> QED
  BY <1>2

\* The lines are those of a result that does not change.
LEMMA SameLines ==
  ASSUME UNCHANGED result
  PROVE  Lines' = Lines /\ Line' = Line /\ uiOutput' = uiOutput
<1>1. csvOutput' = csvOutput /\ JSONLines' = JSONLines /\ uiOutput' = uiOutput
  BY DEF result, csvOutput, JSONLines, JSONRow, uiOutput
<1>2. Lines' = Lines
  BY <1>1 DEF result, Lines
<1> QED
  BY <1>1, <1>2 DEF Line
-----------------------------------------------------------------------------
(* The invariant is inductive.                                             *)

LEMMA Start == Init => IInv
<1> SUFFICES ASSUME Init PROVE IInv
  OBVIOUS
<1>1. cols \in Seq(STRING)
  BY LayoutsAssumption DEF Init
<1>2. \E n \in Nat : rows \in [1..n -> [DOMAIN cols -> Values]]
  BY ValuesAssumption DEF Init
<1>3. <<>> \in Seq(Line) /\ Len(<<>>) = 0 /\ <<>> = SubSeq(<<>>, 1, 0)
  BY EmptySeq, SubSeqEmpty
<1> QED
  BY <1>1, <1>2, <1>3 DEF Init, IInv, ResultInv, SendInv, ReadInv

LEMMA RenderStep ==
  ASSUME IInv, Render PROVE IInv'
<1> UNCHANGED <<result, buffer, wire, code, got, client>> /\ server = "render" /\ server' = "write"
  BY DEF Render
<1>1. Lines' = Lines /\ Line' = Line /\ uiOutput' = uiOutput
  BY SameLines
<1>2. left' = Lines
  BY DEF IInv, ResultInv, Render, Lines, JSONLines
<1>3. left' \in Seq(Line)
  BY <1>2, LinesSeq DEF IInv
<1>4. ResultInv'
  BY <1>1 DEF IInv, ResultInv, Render, result
<1>5. wire = <<>> /\ buffer = <<>> /\ code = 0
  BY DEF IInv, SendInv
<1>6. (wire \o buffer) \o left' = Lines
  BY <1>2, <1>3, <1>5, EmptySeq, ConcatEmptySeq
<1>7. SendInv'
  BY <1>1, <1>3, <1>5, <1>6 DEF IInv, SendInv
<1>8. ReadInv'
  BY <1>1 DEF IInv, ReadInv
<1> QED
  BY <1>4, <1>7, <1>8 DEF IInv

\* What the client has read stays right when lines are sent to it.
LEMMA ReadOn ==
  ASSUME IInv, server # "ended", UNCHANGED <<result, got, client>>,
         NEW b \in Seq(Line), wire' = wire \o b
  PROVE  ReadInv'
<1>1. Line' = Line
  BY SameLines
<1>2. Len(got) <= Len(wire') /\ got = SubSeq(wire', 1, Len(got))
  BY StillPrefix DEF IInv, SendInv, ReadInv
<1> QED
  BY <1>1, <1>2 DEF IInv, ReadInv

LEMMA WriteStep ==
  ASSUME IInv, WriteLine PROVE IInv'
<1> UNCHANGED <<result, page, server, got, client>> /\ server = "write" /\ left # <<>>
      /\ left' = Tail(left)
  BY DEF WriteLine
<1>1. Lines' = Lines /\ Line' = Line /\ uiOutput' = uiOutput /\ Compressed' = Compressed
  BY SameLines DEF Compressed, result
<1>2. wire \in Seq(Line) /\ buffer \in Seq(Line) /\ left \in Seq(Line) /\ <<>> \in Seq(Line)
  BY DEF IInv, SendInv
<1>3. Head(left) \in Line /\ Tail(left) \in Seq(Line) /\ <<Head(left)>> \in Seq(Line)
      /\ <<Head(left)>> \o Tail(left) = left
  BY <1>2, HeadFirst
<1>4. PICK h \in Seq(Line) : h = <<Head(left)>> /\ h \o Tail(left) = left
  BY <1>3
<1>5. (wire \o buffer) \o left = Lines /\ code # 500
  BY DEF IInv, SendInv
<1>6. wire \o buffer \in Seq(Line)
  BY <1>2, ConcatProperties
<1>7. ((wire \o buffer) \o h) \o Tail(left) = Lines
  <2>1. ((wire \o buffer) \o h) \o Tail(left) = (wire \o buffer) \o (h \o Tail(left))
    <3>1. Tail(left) \in Seq(Line)
      BY <1>3
    <3> QED
      BY <1>6, <3>1, Joins, Zenon
  <2> QED
    BY <1>4, <1>5, <2>1
<1>8. ResultInv'
  BY <1>1 DEF IInv, ResultInv, result
<1>9. CASE Compressed
  <2>1. buffer' = buffer \o h /\ UNCHANGED <<wire, code>>
    BY <1>2, <1>3, <1>4, <1>9, AppendIsConcat DEF WriteLine
  <2>2. buffer' \in Seq(Line) /\ wire' \o buffer' = (wire \o buffer) \o h
    <3>1. buffer \o h \in Seq(Line)
      BY <1>2, ConcatProperties
    <3>2. wire \in Seq(Line) /\ buffer \in Seq(Line) /\ h \in Seq(Line)
      BY <1>2
    <3>3. (wire \o buffer) \o h = wire \o (buffer \o h)
      BY <3>2, Joins, Zenon
    <3> QED
      BY <2>1, <3>1, <3>3
  <2>5. (wire' \o buffer') \o left' = Lines'
    BY <1>1, <1>7, <2>2
  <2>6. wire' \in Seq(Line') /\ buffer' \in Seq(Line') /\ left' \in Seq(Line')
    BY <1>1, <1>2, <1>3, <2>1, <2>2
  <2>3. SendInv'
    BY <1>1, <1>5, <1>9, <2>1, <2>5, <2>6 DEF IInv, SendInv
  <2>4. ReadInv'
    BY <1>1, <2>1 DEF IInv, ReadInv
  <2> QED
    BY <1>8, <2>3, <2>4 DEF IInv
<1>10. CASE ~Compressed
  <2>1. buffer = <<>> /\ buffer' = <<>>
    BY <1>10 DEF IInv, SendInv, WriteLine
  <2>2. wire' = wire \o h /\ h # <<>> /\ code' = 200
    BY <1>10, <1>4 DEF WriteLine, Send
  <2>3. wire' \in Seq(Line) /\ wire' \o buffer' = (wire \o buffer) \o h
    BY <1>2, <2>1, <2>2, ConcatProperties, ConcatEmptySeq
  <2>6. (wire' \o buffer') \o left' = Lines'
    BY <1>1, <1>7, <2>3
  <2>7. wire' \in Seq(Line') /\ buffer' \in Seq(Line') /\ left' \in Seq(Line')
    BY <1>1, <1>2, <1>3, <2>1, <2>3
  <2>8. /\ server' = "write" /\ code' \in {0, 200, 500} /\ code' = 200 /\ code' # 500
        /\ buffer' = <<>>
    BY <2>1, <2>2
  <2>4. SendInv'
    BY <2>6, <2>7, <2>8, Zenon DEF SendInv
  <2>5. ReadInv'
    BY <2>2, ReadOn
  <2> QED
    BY <1>8, <2>4, <2>5 DEF IInv
<1> QED
  BY <1>9, <1>10

LEMMA FlushStep ==
  ASSUME IInv, Flush PROVE IInv'
<1> UNCHANGED <<result, page, left, server, got, client>> /\ server = "write"
      /\ wire' = wire \o buffer /\ code' = 200 /\ buffer' = <<>>
  BY DEF Flush, Send
<1>1. Lines' = Lines /\ Line' = Line /\ uiOutput' = uiOutput /\ Compressed' = Compressed
  BY SameLines DEF Compressed, result
<1>2. wire' \in Seq(Line) /\ buffer' \in Seq(Line) /\ left' \in Seq(Line)
  BY <1>1, ConcatProperties DEF IInv, SendInv
<1>3. wire' \o buffer' = wire \o buffer
  BY <1>2, ConcatEmptySeq
<1>4. ResultInv'
  BY <1>1 DEF IInv, ResultInv, result
<1>5. SendInv'
  BY <1>1, <1>2, <1>3 DEF IInv, SendInv
<1>7. buffer \in Seq(Line)
  BY DEF IInv, SendInv
<1>6. ReadInv'
  BY <1>7, ReadOn
<1> QED
  BY <1>4, <1>5, <1>6 DEF IInv

LEMMA FailStep ==
  ASSUME IInv, FailLine PROVE IInv'
<1> UNCHANGED <<result, page, left, got, client>> /\ server = "write" /\ buffer' = <<>>
  BY DEF FailLine
<1>1. Lines' = Lines /\ Line' = Line /\ uiOutput' = uiOutput /\ Compressed' = Compressed
  BY SameLines DEF Compressed, result
<1>2. wire \in Seq(Line) /\ buffer \in Seq(Line) /\ <<>> \in Seq(Line)
  BY DEF IInv, SendInv
<1>3. ResultInv'
  BY <1>1 DEF IInv, ResultInv, result
<1>4. CASE wire \o buffer = <<>>
  <2>1. wire = <<>> /\ wire' = <<>> /\ code' = 500 /\ server' = "ended"
    BY <1>2, <1>4, ConcatEqualIffEmpty DEF FailLine
  <2>2. SendInv'
    BY <1>1, <1>2, <2>1 DEF IInv, SendInv
  <2>3. ReadInv'
    BY <1>1, <2>1 DEF IInv, ReadInv
  <2> QED
    BY <1>3, <2>2, <2>3 DEF IInv
<1>5. CASE wire \o buffer # <<>>
  <2>1. wire' = wire \o buffer /\ server' = "torn" /\ code' = IF buffer = <<>> THEN code ELSE 200
    BY <1>5 DEF FailLine, Send
  <2>2. wire' \in Seq(Line) /\ (buffer = <<>> => wire' = wire)
    BY <1>2, <2>1, ConcatProperties, ConcatEmptySeq
  <2>3. SendInv'
    BY <1>1, <1>2, <2>1, <2>2 DEF IInv, SendInv
  <2>4. ReadInv'
    BY <1>2, <2>1, ReadOn
  <2> QED
    BY <1>3, <2>3, <2>4 DEF IInv
<1> QED
  BY <1>4, <1>5

LEMMA EndStep ==
  ASSUME IInv, EndLines PROVE IInv'
<1> UNCHANGED <<result, page, left, got, client>> /\ server = "write" /\ server' = "ended"
      /\ left = <<>> /\ wire' = wire \o buffer /\ code' = 200 /\ buffer' = <<>>
  BY DEF EndLines
<1>1. Lines' = Lines /\ Line' = Line /\ uiOutput' = uiOutput /\ Compressed' = Compressed
  BY SameLines DEF Compressed, result
<1>2. wire \in Seq(Line) /\ buffer \in Seq(Line) /\ wire' \in Seq(Line) /\ <<>> \in Seq(Line)
  BY ConcatProperties DEF IInv, SendInv
<1>3. wire' = Lines
  BY <1>2, ConcatEmptySeq DEF IInv, SendInv
<1>4. ResultInv'
  BY <1>1 DEF IInv, ResultInv, result
<1>5. SendInv'
  BY <1>1, <1>2, <1>3 DEF IInv, SendInv
<1>6. ReadInv'
  BY <1>2, ReadOn
<1> QED
  BY <1>4, <1>5, <1>6 DEF IInv

LEMMA BreakStep ==
  ASSUME IInv, Break PROVE IInv'
<1> UNCHANGED <<result, page, left, buffer, code, got, client>> /\ client = "reads"
      /\ server' = "cut"
  BY DEF Break
<1>1. Lines' = Lines /\ Line' = Line /\ uiOutput' = uiOutput /\ Compressed' = Compressed
  BY SameLines DEF Compressed, result
<1>2. PICK n \in Len(got)..Len(wire) : wire' = SubSeq(wire, 1, n)
  BY DEF Break
<1>3. /\ wire \in Seq(Line) /\ got \in Seq(Line)
      /\ Len(got) <= Len(wire) /\ got = SubSeq(wire, 1, Len(got))
  BY DEF IInv, SendInv, ReadInv
<1>4. Len(got) \in Nat /\ Len(wire) \in Nat /\ n \in 0..Len(wire)
  BY <1>3, LenProperties
<1>5. wire' \in Seq(Line) /\ Len(wire') = n /\ \A i \in 1..n : wire'[i] = wire[i]
  BY <1>2, <1>3, <1>4, ElementOfSeq, SubSeqProperties
<1>6. \A i \in 1..Len(got) : got[i] = wire[i]
  BY <1>3, <1>4, ElementOfSeq, SubSeqProperties
<1>7. Len(got) <= Len(wire') /\ got = SubSeq(wire', 1, Len(got))
  <2>1. Len(got) <= n
    BY <1>2, <1>4
  <2>2. /\ SubSeq(wire', 1, Len(got)) \in Seq(Line)
        /\ Len(SubSeq(wire', 1, Len(got))) = Len(got)
        /\ \A i \in 1..Len(got) : SubSeq(wire', 1, Len(got))[i] = wire'[i]
    BY <2>1, <1>4, <1>5, ElementOfSeq, SubSeqProperties
  <2>3. \A i \in 1..Len(got) : SubSeq(wire', 1, Len(got))[i] = got[i]
    <3> SUFFICES ASSUME NEW i \in 1..Len(got)
                 PROVE  SubSeq(wire', 1, Len(got))[i] = got[i]
      OBVIOUS
    <3>1. i \in 1..n
      BY <2>1, <1>4
    <3> QED
      BY <3>1, <2>2, <1>5, <1>6, Zenon
  <2> QED
    BY <2>1, <2>2, <2>3, <1>3, <1>5, SeqEqual
<1>8. wire' # <<>> => code = 200
  <2>1. wire = <<>> => wire' = <<>>
    BY <1>2, <1>4, <1>5, EmptySeq
  <2> QED
    BY <2>1 DEF IInv, SendInv
<1>9. ResultInv'
  BY <1>1 DEF IInv, ResultInv, result
<1>10. SendInv'
  BY <1>1, <1>5, <1>8 DEF IInv, SendInv
<1>11. ReadInv'
  BY <1>1, <1>7 DEF IInv, ReadInv
<1> QED
  BY <1>9, <1>10, <1>11 DEF IInv

LEMMA ReadStep ==
  ASSUME IInv, Read PROVE IInv'
<1> UNCHANGED <<result, page, left, buffer, wire, code, server, client>>
      /\ client = "reads" /\ Len(got) < Len(wire) /\ got' = Append(got, wire[Len(got) + 1])
  BY DEF Read
<1>1. Lines' = Lines /\ Line' = Line /\ uiOutput' = uiOutput /\ Compressed' = Compressed
  BY SameLines DEF Compressed, result
<1>2. /\ wire \in Seq(Line) /\ got \in Seq(Line) /\ got = SubSeq(wire, 1, Len(got))
      /\ Len(got) \in Nat /\ Len(wire) \in Nat
  BY LenProperties DEF IInv, SendInv, ReadInv
<1>3. wire[Len(got) + 1] \in Line
  BY <1>2, ElementOfSeq
<1>4. got' \in Seq(Line) /\ Len(got') = Len(got) + 1
      /\ got' = got \o <<wire[Len(got) + 1]>>
  BY <1>2, <1>3, AppendProperties, AppendIsConcat
<1>5. SubSeq(wire, 1, Len(got) + 1)
        = SubSeq(wire, 1, Len(got) + 1 - 1) \o <<wire[Len(got) + 1]>>
  BY <1>2, SubSeqRecursiveSecond
<1>6. got' = SubSeq(wire, 1, Len(got'))
  BY <1>2, <1>4, <1>5
<1>7. ResultInv'
  BY <1>1 DEF IInv, ResultInv, result
<1>8. SendInv'
  BY <1>1 DEF IInv, SendInv
<1>9. ReadInv'
  BY <1>1, <1>2, <1>4, <1>6 DEF IInv, ReadInv
<1> QED
  BY <1>7, <1>8, <1>9 DEF IInv

LEMMA ReadEndStep ==
  ASSUME IInv, ReadEnd PROVE IInv'
<1> UNCHANGED <<result, page, left, buffer, wire, code, server, got>>
  BY DEF ReadEnd
<1>1. Lines' = Lines /\ Line' = Line /\ uiOutput' = uiOutput /\ Compressed' = Compressed
  BY SameLines DEF Compressed, result
<1>2. client' = "ok" => server = "ended" /\ code = 200 /\ Len(got) = Len(wire)
  BY DEF ReadEnd
<1>3. Len(got) = Len(wire) => got = wire
  BY SubSeqFull DEF IInv, SendInv, ReadInv
<1>4. ResultInv'
  BY <1>1 DEF IInv, ResultInv, result
<1>5. SendInv'
  BY <1>1 DEF IInv, SendInv
<1>6. client' \in {"reads", "ok", "error"}
  BY DEF ReadEnd
<1>7. ReadInv'
  BY <1>1, <1>2, <1>3, <1>6 DEF IInv, ReadInv
<1> QED
  BY <1>4, <1>5, <1>7 DEF IInv

LEMMA StutterStep ==
  ASSUME IInv, UNCHANGED vars PROVE IInv'
<1>1. UNCHANGED result
  BY DEF vars
<1>2. Lines' = Lines /\ Line' = Line /\ uiOutput' = uiOutput /\ Compressed' = Compressed
  BY <1>1, SameLines DEF Compressed, result
<1>3. ResultInv'
  BY <1>1, <1>2 DEF IInv, ResultInv, vars, result
<1>4. SendInv'
  BY <1>2 DEF IInv, SendInv, vars
<1>5. ReadInv'
  BY <1>2 DEF IInv, ReadInv, vars
<1> QED
  BY <1>3, <1>4, <1>5 DEF IInv

LEMMA Invariance == Spec => []IInv
<1>1. Init => IInv
  BY Start
<1>2. IInv /\ [Next]_vars => IInv'
  BY RenderStep, WriteStep, FlushStep, FailStep, EndStep, BreakStep, ReadStep,
     ReadEndStep, StutterStep DEF Next
<1> QED
  BY <1>1, <1>2, PTL DEF Spec
-----------------------------------------------------------------------------
(* Theorems.                                                               *)

\* A client that has a result has every line, whatever was compressed, lost
\* or cut off for others.
LEMMA AllRead == IInv /\ client = "ok" => got = Lines
  BY DEF IInv, SendInv, ReadInv

\* QueryJSON has every value of a column whose name is not used again, for
\* any columns and rows (tailsql.go:376-384, client.go:72-81).
THEOREM NothingLost == Spec => []NoSilentLoss
<1>1. ASSUME IInv PROVE NoSilentLoss
  <2> SUFFICES ASSUME client = "ok", route = "/json"
               PROVE  /\ Len(got) = Len(rows)
                      /\ \A i \in DOMAIN rows, j \in DOMAIN cols :
                           (\A k \in DOMAIN cols : k > j => cols[k] # cols[j])
                           => got[i][cols[j]] = IF rows[i][j] = "blob" THEN "base64"
                                                ELSE rows[i][j]
    BY DEF NoSilentLoss
  <2>1. got = JSONLines
    BY <1>1, AllRead DEF Lines
  <2>2. PICK n \in Nat : rows \in [1..n -> [DOMAIN cols -> Values]]
    BY <1>1 DEF IInv, ResultInv
  <2>3. Len(got) = Len(rows)
    <3>1. Len(rows) = n
      BY <2>2
    <3>2. Len(JSONLines) = n
      BY <2>2 DEF JSONLines
    <3> QED
      BY <2>1, <3>1, <3>2
  <2>4. ASSUME NEW i \in DOMAIN rows, NEW j \in DOMAIN cols,
               \A k \in DOMAIN cols : k > j => cols[k] # cols[j]
        PROVE  got[i][cols[j]] = IF rows[i][j] = "blob" THEN "base64" ELSE rows[i][j]
    <3> DEFINE K == {k \in DOMAIN cols : cols[k] = cols[j]}
    <3>1. DOMAIN cols \subseteq Nat
      BY <1>1 DEF IInv, ResultInv
    <3>2. j \in K /\ \A k \in K : j >= k
      BY <2>4, <3>1
    <3>3. Max(K) = j
      BY <3>1, <3>2 DEF Max
    <3>4. got[i][cols[j]] = JSONRow(rows[i])[cols[j]]
      BY <2>1 DEF JSONLines
    <3> QED
      BY <3>3, <3>4 DEF JSONRow
  <2> QED
    BY <2>3, <2>4
<1> QED
  BY <1>1, Invariance, PTL

\* Query has every line of the CSV that is not blank, for any columns and
\* rows (tailsql.go:353-358, client.go:100-109).
THEOREM CSVAlwaysComplete == Spec => []CSVComplete
<1>1. IInv => CSVComplete
  BY AllRead DEF CSVComplete, CSVLines, Lines
<1> QED
  BY <1>1, Invariance, PTL

\* A set of naturals that has an element has a least one, and Min is it.
LEMMA MinOfNats ==
  ASSUME NEW S \in SUBSET Nat, S # {}
  PROVE  Min(S) \in S /\ \A i \in S : Min(S) <= i
<1> DEFINE Less == {ss \in Nat \X Nat : ss[1] < ss[2]}
<1>1. IsWellFoundedOn(Less, Nat)
  BY NatLessThanWellFounded DEF OpToRel
<1>2. PICK m \in S : \A i \in S : <<i, m>> \notin Less
  <2> HIDE DEF Less
  <2> QED
    BY <1>1, WFMin
<1>3. ASSUME NEW i \in S PROVE m <= i
  <2>1. i \in Nat /\ m \in Nat
    OBVIOUS
  <2>2. i < m => <<i, m>> \in Less
    BY <2>1
  <2> HIDE DEF Less
  <2> QED
    BY <1>2, <2>1, <2>2
<1> QED
  BY <1>2, <1>3 DEF Min

\* With the rule of README.md:190-201 first no page shows a password, for any
\* rules after it and any values (utils.go:70-83).
THEOREM PasswordsStayHidden ==
  ASSUME 1 \in DOMAIN Rules, Rules[1] = "blot"
  PROVE  Spec => []RedactedStays
<1>1. ASSUME NEW text PROVE Rewrite("password", text) = "<redacted-password>"
  <2> DEFINE hits == {i \in DOMAIN Rules : CheckApply(Rules[i], "password", text)}
  <2>1. DOMAIN Rules \subseteq Nat \ {0}
    BY RulesAssumption
  <2>2. 1 \in hits
    BY DEF CheckApply, Matches, Apply
  <2>3. Min(hits) = 1
    BY <2>1, <2>2 DEF Min
  <2> QED
    BY <2>2, <2>3 DEF Rewrite, Apply
<1>2. ASSUME IInv PROVE RedactedStays
  <2> SUFFICES ASSUME NEW i \in DOMAIN page, NEW j \in DOMAIN cols, cols[j] = "password"
               PROVE  page[i][j] = "<redacted-password>"
    BY DEF RedactedStays
  <2>1. page = uiOutput
    BY <1>2 DEF IInv, ResultInv
  <2> QED
    BY <1>1, <2>1 DEF uiOutput
<1> QED
  BY <1>2, Invariance, PTL

\* A page links every URL of a column that is not redacted if the rule for
\* URLs is there, and shows NULL as such, whatever rules there are in whatever
\* order: none takes the text first, as the rule for JSON matches and passes
\* (uirules.go:52-60, utils.go:70-83).
THEOREM RulesAlwaysPass ==
  ASSUME NEW u \in DOMAIN Rules, Rules[u] = "url"
  PROVE  Spec => []RulesPass
<1>1. \A i \in DOMAIN Rules : i \in Nat /\ Rules[i] \in RuleNames
  BY RulesAssumption
<1>2. \A column : column # "password" => /\ Rewrite(column, "url") = "link"
                                         /\ Rewrite(column, "(null)") = "(null)"
  <2> SUFFICES ASSUME NEW column, column # "password"
               PROVE  /\ Rewrite(column, "url") = "link"
                      /\ Rewrite(column, "(null)") = "(null)"
    OBVIOUS
  <2> DEFINE hits(text) == {i \in DOMAIN Rules : CheckApply(Rules[i], column, text)}
  <2>1. hits("url") = {i \in DOMAIN Rules : Rules[i] = "url"}
    BY <1>1 DEF CheckApply, Matches, Apply, RuleNames
  <2>2. hits("(null)") = {}
    BY <1>1 DEF CheckApply, Matches, Apply, RuleNames
  <2>3. Min(hits("url")) \in hits("url")
    BY <1>1, <2>1, MinOfNats
  <2>4. Rewrite(column, "url") = "link"
    BY <2>1, <2>3 DEF Rewrite, Apply
  <2> QED
    BY <2>2, <2>4 DEF Rewrite
<1>3. ASSUME IInv PROVE RulesPass
  <2> SUFFICES ASSUME NEW i \in DOMAIN page, NEW j \in DOMAIN cols, cols[j] # "password"
               PROVE  /\ rows[i][j] = "url" => page[i][j] = "link"
                      /\ rows[i][j] = "null" => page[i][j] = "(null)"
    BY DEF RulesPass
  <2>1. page = uiOutput
    BY <1>3 DEF IInv, ResultInv
  <2>2. page[i][j] = Rewrite(cols[j], Text(rows[i][j], "(null)"))
    BY <2>1 DEF uiOutput
  <2>3. /\ rows[i][j] = "url" => page[i][j] = Rewrite(cols[j], "url")
        /\ rows[i][j] = "null" => page[i][j] = Rewrite(cols[j], "(null)")
    BY <2>2 DEF Text
  <2> QED
    BY <1>2, <2>3
<1> QED
  BY <1>3, Invariance, PTL

\* Any result keeps its types on its way.
THEOREM TypeCorrect == Spec => []TypeOK
<1>1. ASSUME IInv PROVE TypeOK
  <2>1. \/ page = <<>>
        \/ /\ DOMAIN page = DOMAIN rows
           /\ \A i \in DOMAIN page : DOMAIN page[i] = DOMAIN cols
    BY <1>1 DEF IInv, ResultInv, uiOutput
  <2> QED
    BY <1>1, <2>1 DEF IInv, SendInv, ReadInv, TypeOK
<1> QED
  BY <1>1, Invariance, PTL
=============================================================================
