-------------------------- MODULE SerializerProofs --------------------------
(***************************************************************************)
(* Proofs about the serializer, for any caller that keeps to the           *)
(* interface, any number of calls and any failure of memory.               *)
(***************************************************************************)
EXTENDS SerializerUse, FiniteSetTheorems, SequenceTheorems, TLAPS

-----------------------------------------------------------------------------
(* Induction, in the form that needs no operator as a parameter. *)

\* A set of natural numbers has a least element: the strict subset ordering
\* of the intervals 0 .. n is well-founded.
LEMMA LeastNat ==
    ASSUME NEW S \in SUBSET Nat, S # {}
    PROVE  \E n \in S : \A m \in S : n <= m
  <1> DEFINE T == {0 .. n : n \in S}
  <1>1. T \subseteq FiniteSubsetsOf(Nat)
    <2> SUFFICES ASSUME NEW n \in S
                 PROVE  0 .. n \in FiniteSubsetsOf(Nat)
      OBVIOUS
    <2>1. IsFiniteSet(0 .. n)
      BY FS_Interval
    <2> QED
      BY <2>1 DEF FiniteSubsetsOf
  <1>2. T # {}
    OBVIOUS
  <1>3. IsWellFoundedOn(StrictSubsetOrdering(Nat), FiniteSubsetsOf(Nat))
    BY FS_StrictSubsetOrderingWellFounded
  <1> HIDE DEF T
  <1>4. PICK x \in T : \A y \in T : ~(<<y, x>> \in StrictSubsetOrdering(Nat))
    BY <1>1, <1>2, <1>3, WFMin, Zenon
  <1>5. PICK n \in S : x = 0 .. n
    BY DEF T
  <1>6. ASSUME NEW m \in S, m < n
        PROVE  FALSE
    <2>1. 0 .. m \in T
      BY DEF T
    <2>2. n \in 0 .. n /\ n \notin 0 .. m /\ 0 .. m \subseteq 0 .. n
      BY <1>6
    <2>3. 0 .. m \in SUBSET Nat /\ 0 .. n \in SUBSET Nat
      BY <1>6
    <2>4. <<0 .. m, 0 .. n>> \in StrictSubsetOrdering(Nat)
      BY <2>2, <2>3 DEF StrictSubsetOrdering
    <2> QED
      BY <2>1, <2>4, <1>4, <1>5
  <1> QED
    BY <1>6

\* A set of natural numbers that has 0 and, with every number, the next one
\* is Nat.
LEMMA Induction ==
    ASSUME NEW S \in SUBSET Nat, 0 \in S, \A n \in S : n + 1 \in S
    PROVE  S = Nat
  <1> SUFFICES ASSUME Nat \ S # {}
               PROVE  FALSE
    OBVIOUS
  <1>1. PICK n \in Nat \ S : \A m \in Nat \ S : n <= m
    <2> DEFINE R == Nat \ S
    <2>1. R \in SUBSET Nat /\ R # {}
      OBVIOUS
    <2> HIDE DEF R
    <2>2. \E n \in R : \A m \in R : n <= m
      BY <2>1, LeastNat
    <2> QED
      BY <2>2 DEF R
  <1>2. n # 0 /\ n - 1 \in Nat /\ n - 1 \in S
    BY <1>1
  <1>3. (n - 1) + 1 \in S
    BY <1>2
  <1> QED
    BY <1>1, <1>2, <1>3

-----------------------------------------------------------------------------
(* Cells. *)

\* Every call that is ever made.
ReportCalls(r) == {ndpi_dpi2json(r)[i] : i \in 1 .. Len(ndpi_dpi2json(r))}
AllCalls == (UNION {c.calls : c \in Callers}) \cup (UNION {ReportCalls(r) : r \in Reports})

\* The words of which cells are made: those of the serializer, the keys and
\* values of the calls, and their TLV types.
Marks == {" ", "{", "}", "[", "]", ":", ",", "nl", "key", "num", "float", "text", "literal", "raw",
          "record", "nine digits", "and on", "version", "1", "format", "json", "csv", "tlv", "type",
          "unknown", "none", "string", "uint64", "int64", "f", "w33", "end_of_record", "start_of_list", "end_of_list",
          "start_of_block", "end_of_block"}
Texts == Marks \cup {c.key : c \in AllCalls} \cup {c.v : c \in AllCalls}
Word == Texts \cup {Unsigned[x] : x \in Texts} \cup {Signed[x] : x \in Texts}
              \cup {NumericKey[x] : x \in Texts}
Cell == Seq(Word)

-----------------------------------------------------------------------------
(* What the reader of JSON makes of a text, cell by cell. *)

\* The reader starts in the state it is given and takes one cell after the
\* other.
LEMMA JsonStatesDef ==
    ASSUME NEW start, NEW cells, Len(cells) \in Nat
    PROVE  /\ JsonStates(start, cells)[0] = start
           /\ \A n \in 1 .. Len(cells) :
                JsonStates(start, cells)[n] = JsonStep(JsonStates(start, cells)[n - 1], cells[n])
  <1> DEFINE Rec(g, m) == [n \in 0 .. m |-> IF n = 0 THEN start ELSE JsonStep(g[n - 1], cells[n])]
             S == {m \in Nat : \E g : g = Rec(g, m)}
  <1>1. 0 \in S
    <2> DEFINE g == [n \in 0 .. 0 |-> start]
    <2>1. g = Rec(g, 0)
      OBVIOUS
    <2> QED
      BY <2>1
  <1>2. ASSUME NEW m \in S
        PROVE  m + 1 \in S
    <2>1. PICK g : g = Rec(g, m)
      OBVIOUS
    <2> DEFINE h == [n \in 0 .. m + 1 |-> IF n <= m THEN g[n] ELSE JsonStep(g[m], cells[n])]
    <2>2. h = Rec(h, m + 1)
      <3> SUFFICES ASSUME NEW n \in 0 .. m + 1
                   PROVE  h[n] = IF n = 0 THEN start ELSE JsonStep(h[n - 1], cells[n])
        BY Zenon
      <3>1. CASE n <= m
        BY <2>1, <3>1
      <3>2. CASE n = m + 1
        BY <3>2
      <3> QED
        BY <3>1, <3>2
    <2> HIDE DEF h
    <2>3. \E f : f = Rec(f, m + 1)
      BY <2>2, Zenon
    <2>4. m + 1 \in Nat
      OBVIOUS
    <2> QED
      BY <2>3, <2>4
  <1>3. Len(cells) \in S
    <2> HIDE DEF S
    <2>1. S \in SUBSET Nat
      BY DEF S
    <2> QED
      BY <1>1, <1>2, <2>1, Induction
  <1>4. JsonStates(start, cells) = Rec(JsonStates(start, cells), Len(cells))
    <2>1. \E g : g = Rec(g, Len(cells))
      BY <1>3
    <2>2. JsonStates(start, cells) = CHOOSE g : g = Rec(g, Len(cells))
      BY Zenon DEF JsonStates
    <2> QED
      BY <2>1, <2>2, Zenon
  <1> HIDE DEF S
  <1> QED
    BY <1>4

\* What the reader is in after n cells depends on these cells only.
LEMMA JsonStatesAgree ==
    ASSUME NEW start, NEW cells, NEW more, NEW m \in Nat,
           Len(cells) \in Nat, Len(more) \in Nat, m <= Len(cells), m <= Len(more),
           \A i \in 1 .. m : cells[i] = more[i]
    PROVE  \A n \in 0 .. m : JsonStates(start, cells)[n] = JsonStates(start, more)[n]
  <1> DEFINE S == {n \in Nat : n <= m => JsonStates(start, cells)[n] = JsonStates(start, more)[n]}
  <1>1. 0 \in S
    BY JsonStatesDef
  <1>2. ASSUME NEW n \in S
        PROVE  n + 1 \in S
    <2> SUFFICES ASSUME n + 1 <= m
                 PROVE  JsonStates(start, cells)[n + 1] = JsonStates(start, more)[n + 1]
      OBVIOUS
    <2>1. n + 1 \in 1 .. Len(cells) /\ n + 1 \in 1 .. Len(more) /\ n + 1 \in 1 .. m
          /\ (n + 1) - 1 = n
      OBVIOUS
    <2>2. JsonStates(start, cells)[n + 1] = JsonStep(JsonStates(start, cells)[n], cells[n + 1])
      BY <2>1, JsonStatesDef
    <2>3. JsonStates(start, more)[n + 1] = JsonStep(JsonStates(start, more)[n], more[n + 1])
      BY <2>1, JsonStatesDef
    <2> QED
      BY <2>1, <2>2, <2>3
  <1>3. S = Nat
    <2>1. S \in SUBSET Nat
      OBVIOUS
    <2> HIDE DEF S
    <2> QED
      BY <1>1, <1>2, <2>1, Induction
  <1> QED
    BY <1>3

\* A document is read from its second cell on: the first is the blank, or
\* the bracket of an array.
ReadTo(start, data, n) == JsonStates(start, Tail(data))[n - 1]

LEMMA ReadToFirst ==
    ASSUME NEW start, NEW data \in Seq(Cell), Len(data) >= 1
    PROVE  ReadTo(start, data, 1) = start
  <1>1. Len(Tail(data)) \in Nat /\ 1 - 1 = 0
    OBVIOUS
  <1> QED
    BY <1>1, JsonStatesDef DEF ReadTo

LEMMA ReadToNext ==
    ASSUME NEW start, NEW data \in Seq(Cell), NEW n \in 2 .. Len(data)
    PROVE  ReadTo(start, data, n) = JsonStep(ReadTo(start, data, n - 1), data[n])
  <1> DEFINE cells == Tail(data)
             m == n - 1
  <1>1. Len(cells) \in Nat /\ m \in 1 .. Len(cells) /\ cells[m] = data[n]
    OBVIOUS
  <1> HIDE DEF cells, m
  <1>2. JsonStates(start, cells)[m] = JsonStep(JsonStates(start, cells)[m - 1], cells[m])
    BY <1>1, JsonStatesDef
  <1> QED
    BY <1>1, <1>2 DEF ReadTo, cells, m

LEMMA ReadToAgree ==
    ASSUME NEW start, NEW data \in Seq(Cell), NEW other \in Seq(Cell), NEW n \in Nat,
           1 <= n, n <= Len(data), n <= Len(other), \A i \in 2 .. n : data[i] = other[i]
    PROVE  ReadTo(start, data, n) = ReadTo(start, other, n)
  <1> DEFINE cells == Tail(data)
             more == Tail(other)
             m == n - 1
  <1>1. /\ Len(cells) \in Nat /\ Len(more) \in Nat /\ m \in Nat /\ m \in 0 .. m
        /\ m <= Len(cells) /\ m <= Len(more) /\ \A i \in 1 .. m : cells[i] = more[i]
    OBVIOUS
  <1> HIDE DEF cells, more, m
  <1>2. JsonStates(start, cells)[m] = JsonStates(start, more)[m]
    BY <1>1, JsonStatesAgree
  <1> QED
    BY <1>2 DEF ReadTo, cells, more, m

\* The brackets a reader may be in.
Bracket == {"{", "["}

\* The state after a value, in the brackets of stack.
After(stack) == [stack |-> stack, next |-> IF stack = <<>> THEN "end" ELSE "after"]

Within(stack, next) == [stack |-> stack, next |-> next]

Value == {"num", "float", "text", "literal", "raw", "record"}

\* One cell of each kind, read where it may stand.
LEMMA JsonStepFacts ==
    ASSUME NEW q \in Seq(Bracket), NEW x
    PROVE  /\ \A n \in {"value", "value or ]"} :
                /\ x[1] = "{" => JsonStep(Within(q, n), x) = Within(Append(q, "{"), "key or }")
                /\ x[1] = "[" => JsonStep(Within(q, n), x) = Within(Append(q, "["), "value or ]")
                /\ x[1] \in Value => JsonStep(Within(q, n), x) = After(q)
           /\ \A n \in {"key", "key or }"} :
                x[1] = "key" => JsonStep(Within(q, n), x) = Within(q, ":")
           /\ x[1] = ":" => JsonStep(Within(q, ":"), x) = Within(q, "value")
           /\ x[1] = "," => JsonStep(Within(q, "after"), x)
                = Within(q, IF Last(q) = "{" THEN "key" ELSE "value")
           /\ \A n \in {"key or }", "after"} :
                x[1] = "}" /\ Last(q) = "{" => JsonStep(Within(q, n), x) = After(Front(q))
           /\ \A n \in {"value or ]", "after"} :
                x[1] = "]" /\ Last(q) = "[" => JsonStep(Within(q, n), x) = After(Front(q))
  <1>1. ASSUME NEW n \in {"value", "value or ]"}, x[1] = "{"
        PROVE  JsonStep(Within(q, n), x) = Within(Append(q, "{"), "key or }")
    BY <1>1 DEF JsonStep, Within
  <1>2. ASSUME NEW n \in {"value", "value or ]"}, x[1] = "["
        PROVE  JsonStep(Within(q, n), x) = Within(Append(q, "["), "value or ]")
    BY <1>2 DEF JsonStep, Within
  <1>3. ASSUME NEW n \in {"value", "value or ]"}, x[1] \in Value
        PROVE  JsonStep(Within(q, n), x) = After(q)
    BY <1>3 DEF JsonStep, Within, After, Value
  <1>4. ASSUME NEW n \in {"key", "key or }"}, x[1] = "key"
        PROVE  JsonStep(Within(q, n), x) = Within(q, ":")
    BY <1>4 DEF JsonStep, Within
  <1>5. ASSUME x[1] = ":"
        PROVE  JsonStep(Within(q, ":"), x) = Within(q, "value")
    BY <1>5 DEF JsonStep, Within
  <1>6. ASSUME x[1] = ","
        PROVE  JsonStep(Within(q, "after"), x) = Within(q, IF Last(q) = "{" THEN "key" ELSE "value")
    BY <1>6 DEF JsonStep, Within
  <1>7. ASSUME NEW n \in {"key or }", "after"}, x[1] = "}", Last(q) = "{"
        PROVE  JsonStep(Within(q, n), x) = After(Front(q))
    BY <1>7 DEF JsonStep, Within, After
  <1>8. ASSUME NEW n \in {"value or ]", "after"}, x[1] = "]", Last(q) = "["
        PROVE  JsonStep(Within(q, n), x) = After(Front(q))
    BY <1>8 DEF JsonStep, Within, After
  <1> QED
    BY <1>1, <1>2, <1>3, <1>4, <1>5, <1>6, <1>7, <1>8

LEMMA FrontLast ==
    ASSUME NEW q \in Seq(Bracket), NEW x \in Bracket
    PROVE  Front(Append(q, x)) = q /\ Last(Append(q, x)) = x /\ Append(q, x) # <<>>
           /\ Append(q, x) \in Seq(Bracket)
  <1> DEFINE a == Append(q, x)
             f == SubSeq(a, 1, Len(a) - 1)
  <1>1. /\ a \in Seq(Bracket) /\ a # <<>> /\ Len(a) = Len(q) + 1 /\ a[Len(q) + 1] = x
        /\ \A i \in 1 .. Len(q) : a[i] = q[i]
    BY AppendProperties
  <1> HIDE DEF a
  <1>2. Len(q) \in Nat /\ \A i \in 1 .. Len(a) - 1 : a[i] \in Bracket
    BY <1>1
  <1>3. f \in Seq(Bracket) /\ Len(f) = Len(q) /\ \A i \in 1 .. Len(q) : f[i] = a[i]
    BY <1>1, <1>2, SubSeqProperties
  <1> HIDE DEF f
  <1>4. f = q
    BY <1>1, <1>3, SeqEqual
  <1> QED
    BY <1>1, <1>2, <1>4 DEF Front, Last, a, f

\* The brackets of q with n times x inside.
Row(x, n) == [i \in 1 .. n |-> x]
Rows(q, x, n) == q \o Row(x, n)

LEMMA RowFacts ==
    ASSUME NEW S, NEW x \in S, NEW n \in Nat
    PROVE  Row(x, n) \in Seq(S) /\ Len(Row(x, n)) = n /\ \A i \in 1 .. n : Row(x, n)[i] = x
  <1>1. Row(x, n) \in [1 .. n -> S]
    BY DEF Row
  <1>2. \A i \in 1 .. n : Row(x, n)[i] = x
    BY DEF Row
  <1> QED
    BY <1>1, <1>2

\* A sequence and another one behind it, by their elements.
LEMMA Joined ==
    ASSUME NEW S, NEW p \in Seq(S), NEW q \in Seq(S)
    PROVE  /\ p \o q \in Seq(S)
           /\ Len(p) \in Nat /\ Len(q) \in Nat /\ Len(p \o q) = Len(p) + Len(q)
           /\ \A i \in 1 .. Len(p) : (p \o q)[i] = p[i]
           /\ \A i \in 1 .. Len(q) : (p \o q)[Len(p) + i] = q[i]
  <1>1. Len(p) \in Nat /\ Len(q) \in Nat
    OBVIOUS
  <1>2. p \o q \in Seq(S)
    BY ConcatProperties
  <1>3. Len(p \o q) = Len(p) + Len(q)
    BY ConcatProperties
  <1>4. \A i \in 1 .. Len(p) + Len(q) :
          (p \o q)[i] = IF i <= Len(p) THEN p[i] ELSE q[i - Len(p)]
    BY ConcatProperties
  <1>5. ASSUME NEW i \in 1 .. Len(q)
        PROVE  (p \o q)[Len(p) + i] = q[i]
    <2>1. Len(p) + i \in 1 .. Len(p) + Len(q) /\ ~(Len(p) + i <= Len(p)) /\ (Len(p) + i) - Len(p) = i
      BY <1>1
    <2> QED
      BY <1>4, <2>1
  <1>6. \A i \in 1 .. Len(p) : (p \o q)[i] = p[i]
    BY <1>1, <1>4
  <1> QED
    BY <1>1, <1>2, <1>3, <1>5, <1>6

LEMMA RowsFacts ==
    ASSUME NEW S, NEW q \in Seq(S), NEW x \in S, NEW n \in Nat
    PROVE  /\ Rows(q, x, n) \in Seq(S)
           /\ Rows(q, x, 0) = q
           /\ Rows(q, x, n + 1) = Append(Rows(q, x, n), x)
  <1> DEFINE b == Row(x, n)
             c == Row(x, n + 1)
  <1>0. n + 1 \in Nat
    OBVIOUS
  <1>1. b \in Seq(S) /\ Len(b) = n /\ \A i \in 1 .. n : b[i] = x
    BY RowFacts
  <1>2. c \in Seq(S) /\ Len(c) = n + 1 /\ \A i \in 1 .. n + 1 : c[i] = x
    BY <1>0, RowFacts
  <1> HIDE DEF b, c
  <1>3. /\ q \o b \in Seq(S) /\ Len(q \o b) = Len(q) + n /\ Len(q) \in Nat
        /\ \A i \in 1 .. Len(q) : (q \o b)[i] = q[i]
        /\ \A i \in 1 .. n : (q \o b)[Len(q) + i] = x
    BY <1>1, Joined
  <1>4. /\ q \o c \in Seq(S) /\ Len(q \o c) = Len(q) + (n + 1)
        /\ \A i \in 1 .. Len(q) : (q \o c)[i] = q[i]
        /\ \A i \in 1 .. n + 1 : (q \o c)[Len(q) + i] = x
    <2>1. /\ q \o c \in Seq(S) /\ Len(q \o c) = Len(q) + Len(c)
          /\ \A i \in 1 .. Len(q) : (q \o c)[i] = q[i]
          /\ \A i \in 1 .. Len(c) : (q \o c)[Len(q) + i] = c[i]
      <3>1. c \in Seq(S)
        BY <1>2
      <3> QED
        BY <3>1, Joined
    <2> QED
      BY <1>2, <2>1
  <1> DEFINE a == Append(q \o b, x)
  <1>5. /\ a \in Seq(S) /\ Len(a) = Len(q \o b) + 1 /\ a[Len(q \o b) + 1] = x
        /\ \A i \in 1 .. Len(q \o b) : a[i] = (q \o b)[i]
    BY <1>3, AppendProperties
  <1> HIDE DEF a
  <1>6. q \o c = a
    <2>1. ASSUME NEW i \in 1 .. Len(q \o c)
          PROVE  (q \o c)[i] = a[i]
      <3>1. CASE i <= Len(q)
        BY <1>3, <1>4, <1>5, <3>1
      <3>2. CASE i > Len(q) /\ i <= Len(q) + n
        <4>1. i - Len(q) \in 1 .. n /\ i - Len(q) \in 1 .. n + 1 /\ Len(q) + (i - Len(q)) = i
              /\ i \in 1 .. Len(q \o b)
          BY <1>3, <1>4, <3>2
        <4> QED
          BY <4>1, <1>3, <1>4, <1>5
      <3>3. CASE i = Len(q) + (n + 1)
        <4>1. n + 1 \in 1 .. n + 1 /\ i = Len(q \o b) + 1
          BY <1>3, <3>3
        <4> QED
          BY <4>1, <3>3, <1>4, <1>5
      <3> QED
        BY <1>3, <1>4, <3>1, <3>2, <3>3
    <2>2. Len(q \o c) = Len(a)
      BY <1>3, <1>4, <1>5
    <2> QED
      BY <1>4, <1>5, <2>1, <2>2, SeqEqual
  <1>7. Rows(q, x, 0) = q
    <2>1. Row(x, 0) = <<>>
      BY DEF Row
    <2> QED
      BY <2>1, ConcatEmptySeq DEF Rows
  <1> QED
    BY <1>3, <1>6, <1>7 DEF Rows, a, b, c

LEMMA Prefix ==
    ASSUME NEW S, NEW d \in Seq(S), NEW m \in Nat, NEW n \in Nat, 1 <= m, n <= Len(d), m <= n + 1
    PROVE  /\ SubSeq(d, m, n) \in Seq(S)
           /\ Len(SubSeq(d, m, n)) = (n - m) + 1
           /\ \A i \in 1 .. (n - m) + 1 : SubSeq(d, m, n)[i] = d[(m + i) - 1]
  <1>1. \A i \in m .. n : d[i] \in S
    OBVIOUS
  <1>2. Len(SubSeq(d, m, n)) = IF m <= n THEN (n - m) + 1 ELSE 0
    BY SubSeqProperties
  <1>3. \A i \in 1 .. (n - m) + 1 : SubSeq(d, m, n)[i] = d[m + i - 1]
    BY SubSeqProperties
  <1>4. SubSeq(d, m, n) \in Seq(S)
    BY <1>1, SubSeqProperties
  <1> QED
    BY <1>2, <1>3, <1>4

\* New elements after the first u of d, and perhaps a tail behind them.
Overwrite(d, u, new, rest) == SubSeq(d, 1, u) \o new \o rest

LEMMA Overwritten ==
    ASSUME NEW S, NEW d \in Seq(S), NEW u \in Nat, u <= Len(d), NEW new \in Seq(S), NEW rest \in Seq(S)
    PROVE  /\ Overwrite(d, u, new, rest) \in Seq(S)
           /\ Len(Overwrite(d, u, new, rest)) = (u + Len(new)) + Len(rest)
           /\ \A i \in 1 .. u : Overwrite(d, u, new, rest)[i] = d[i]
           /\ \A i \in 1 .. Len(new) : Overwrite(d, u, new, rest)[u + i] = new[i]
           /\ \A i \in 1 .. Len(rest) :
                Overwrite(d, u, new, rest)[(u + Len(new)) + i] = rest[i]
  <1> DEFINE p == SubSeq(d, 1, u)
             q == p \o new
             e == q \o rest
  <1>0. e = Overwrite(d, u, new, rest)
    BY DEF Overwrite
  <1>1. p \in Seq(S) /\ Len(p) = u /\ \A i \in 1 .. u : p[i] = d[i]
    <2>1. /\ p \in Seq(S) /\ Len(p) = (u - 1) + 1
          /\ \A i \in 1 .. (u - 1) + 1 : p[i] = d[(1 + i) - 1]
      BY Prefix
    <2> QED
      BY <2>1
  <1> HIDE DEF p
  <1>2. p \in Seq(S)
    BY <1>1
  <1>3. /\ q \in Seq(S) /\ Len(q) = Len(p) + Len(new) /\ Len(new) \in Nat
        /\ \A i \in 1 .. Len(p) : q[i] = p[i]
        /\ \A i \in 1 .. Len(new) : q[Len(p) + i] = new[i]
    BY <1>2, Joined
  <1> HIDE DEF q
  <1>4. q \in Seq(S)
    BY <1>3
  <1>5. /\ e \in Seq(S) /\ Len(e) = Len(q) + Len(rest) /\ Len(rest) \in Nat
        /\ \A i \in 1 .. Len(q) : e[i] = q[i]
        /\ \A i \in 1 .. Len(rest) : e[Len(q) + i] = rest[i]
    BY <1>4, Joined
  <1> HIDE DEF e
  <1>6. \A i \in 1 .. u : e[i] = d[i]
    BY <1>1, <1>3, <1>5
  <1>7. ASSUME NEW i \in 1 .. Len(new)
        PROVE  e[u + i] = new[i]
    <2>1. u + i \in 1 .. Len(q)
      BY <1>1, <1>3
    <2> QED
      BY <2>1, <1>1, <1>3, <1>5
  <1>8. \A i \in 1 .. Len(rest) : e[(u + Len(new)) + i] = rest[i]
    BY <1>1, <1>3, <1>5
  <1>9. Len(e) = (u + Len(new)) + Len(rest)
    BY <1>1, <1>3, <1>5
  <1> QED
    BY <1>0, <1>5, <1>6, <1>7, <1>8, <1>9

-----------------------------------------------------------------------------
(* Serializers. *)

Flags == {"EOR", "HDR_DONE", "NOT_EMPTY", "COMMA", "SOB", "SOL", "LIST", "ARRAY"}

Snapshots == [flags : SUBSET (Flags \cup {"none"}), used : Nat, hused : Nat]

Serializers ==
    [fmt : Formats, flags : SUBSET Flags, used : Nat, hused : Nat, header : Seq(Cell),
     snapshot : Snapshots, data : Seq(Cell)]

\* The used part lies in the buffer, now and at the snapshot.
InBuffer(s) ==
    /\ s \in Serializers
    /\ s.used <= Len(s.data) /\ s.hused <= Len(s.header)
    /\ s.snapshot.used <= Len(s.data)

\* What Put leaves alone and what it writes.
LEMMA PutFacts ==
    ASSUME NEW s \in Serializers, s.used <= Len(s.data), s.snapshot.used <= Len(s.data),
           NEW cells \in Seq(Cell)
    PROVE  LET t == Put(s, cells)
           IN  /\ t \in Serializers
               /\ t.fmt = s.fmt /\ t.flags = s.flags /\ t.hused = s.hused
               /\ t.header = s.header /\ t.snapshot = s.snapshot
               /\ t.used = s.used + Len(cells)
               /\ t.used <= Len(t.data)
               /\ s.snapshot # NoSnapshot => Len(t.data) >= Len(s.data)
               /\ t.snapshot.used <= Len(t.data)
               /\ \A i \in 1 .. s.used : t.data[i] = s.data[i]
               /\ \A i \in 1 .. Len(cells) : t.data[s.used + i] = cells[i]
  <1> DEFINE d == s.data
             u == s.used
             n == Len(cells)
             rest == IF s.snapshot = NoSnapshot THEN <<>> ELSE SubSeq(d, (u + n) + 1, Len(d))
             e == Overwrite(d, u, cells, rest)
  <1>1. d \in Seq(Cell) /\ u \in Nat /\ n \in Nat /\ u <= Len(d) /\ Len(d) \in Nat
    BY DEF Serializers
  <1>2. /\ rest \in Seq(Cell) /\ Len(rest) \in Nat
        /\ s.snapshot # NoSnapshot => (u + n) + Len(rest) >= Len(d)
    <2>1. CASE s.snapshot = NoSnapshot
      BY <2>1
    <2>2. CASE s.snapshot # NoSnapshot /\ u + n <= Len(d)
      <3>2. rest = SubSeq(d, (u + n) + 1, Len(d))
        BY <2>2
      <3> HIDE DEF d, u, n, rest
      <3>1. /\ SubSeq(d, (u + n) + 1, Len(d)) \in Seq(Cell)
            /\ Len(SubSeq(d, (u + n) + 1, Len(d))) = (Len(d) - ((u + n) + 1)) + 1
        BY <1>1, <2>2, Prefix
      <3> QED
        <4>1. rest \in Seq(Cell) /\ Len(rest) = (Len(d) - ((u + n) + 1)) + 1
          BY <3>1, <3>2
        <4> QED
          BY <1>1, <2>2, <4>1
    <2>3. CASE s.snapshot # NoSnapshot /\ u + n > Len(d)
      <3>2. rest = SubSeq(d, (u + n) + 1, Len(d))
        BY <2>3
      <3> HIDE DEF d, u, n, rest
      <3>1. SubSeq(d, (u + n) + 1, Len(d)) = <<>>
        BY <1>1, <2>3, SubSeqEmpty
      <3> QED
        BY <1>1, <2>3, <3>1, <3>2
    <2> QED
      BY <1>1, <2>1, <2>2, <2>3
  <1>3. Put(s, cells) = [s EXCEPT !.data = e, !.used = u + n]
    BY DEF Put, Overwrite
  <1> HIDE DEF rest, d, u, n
  <1>4. /\ e \in Seq(Cell)
        /\ Len(e) = (u + Len(cells)) + Len(rest)
        /\ \A i \in 1 .. u : e[i] = d[i]
        /\ \A i \in 1 .. Len(cells) : e[u + i] = cells[i]
    <2>1. d \in Seq(Cell) /\ u \in Nat /\ u <= Len(d)
      BY <1>1
    <2>2. rest \in Seq(Cell)
      BY <1>2
    <2>3. e \in Seq(Cell)
      BY <2>1, <2>2, Overwritten
    <2>4. Len(e) = (u + Len(cells)) + Len(rest)
      BY <2>1, <2>2, Overwritten
    <2>5. \A i \in 1 .. u : e[i] = d[i]
      BY <2>1, <2>2, Overwritten
    <2>6. \A i \in 1 .. Len(cells) : e[u + i] = cells[i]
      BY <2>1, <2>2, Overwritten
    <2> QED
      BY <2>3, <2>4, <2>5, <2>6
  <1> HIDE DEF e
  <1> DEFINE t == Put(s, cells)
  <1>5. /\ t \in Serializers
        /\ t.fmt = s.fmt /\ t.flags = s.flags /\ t.hused = s.hused
        /\ t.header = s.header /\ t.snapshot = s.snapshot
        /\ t.used = u + n /\ t.data = e
    <2>1. e \in Seq(Cell) /\ u + n \in Nat
      BY <1>1, <1>4
    <2>2. t = [s EXCEPT !.data = e, !.used = u + n]
      BY <1>3
    <2> HIDE DEF t
    <2> QED
      BY <2>1, <2>2 DEF Serializers
  <1> HIDE DEF t
  <1>6. s.snapshot = NoSnapshot => s.snapshot.used = 0
    BY DEF NoSnapshot
  <1>7. s.snapshot.used \in Nat
    BY DEF Serializers, Snapshots
  <1>8. t.used <= Len(t.data) /\ (s.snapshot # NoSnapshot => Len(t.data) >= Len(s.data))
    BY <1>1, <1>2, <1>4, <1>5 DEF d, u, n
  <1>9. t.snapshot.used <= Len(t.data)
    BY <1>1, <1>2, <1>4, <1>5, <1>6, <1>7, <1>8 DEF d, u, n
  <1>10. \A i \in 1 .. s.used : t.data[i] = s.data[i]
    BY <1>4, <1>5 DEF d, u, n
  <1>11. \A i \in 1 .. Len(cells) : t.data[s.used + i] = cells[i]
    BY <1>4, <1>5 DEF d, u, n
  <1>12. t.used = s.used + Len(cells)
    BY <1>5 DEF u, n
  <1> QED
    BY <1>5, <1>8, <1>9, <1>10, <1>11, <1>12 DEF t

\* Raising or clearing a flag changes nothing else.
LEMMA FlagFacts ==
    ASSUME NEW s \in Serializers, NEW f \in Flags
    PROVE  /\ Raise(s, f) \in Serializers /\ Clear(s, f) \in Serializers
           /\ Raise(s, f) = [s EXCEPT !.flags = s.flags \cup {f}]
           /\ Clear(s, f) = [s EXCEPT !.flags = s.flags \ {f}]
           /\ Raise(s, f).flags = s.flags \cup {f} /\ Clear(s, f).flags = s.flags \ {f}
           /\ Raise(s, f).fmt = s.fmt /\ Clear(s, f).fmt = s.fmt
           /\ Raise(s, f).used = s.used /\ Clear(s, f).used = s.used
           /\ Raise(s, f).hused = s.hused /\ Clear(s, f).hused = s.hused
           /\ Raise(s, f).header = s.header /\ Clear(s, f).header = s.header
           /\ Raise(s, f).snapshot = s.snapshot /\ Clear(s, f).snapshot = s.snapshot
           /\ Raise(s, f).data = s.data /\ Clear(s, f).data = s.data
  BY DEF Serializers, Raise, Clear

LEMMA DropFacts ==
    ASSUME NEW s \in Serializers, NEW n \in Nat, n <= s.used
    PROVE  /\ Drop(s, n) \in Serializers /\ Drop(s, n).used = s.used - n
           /\ Drop(s, n).flags = s.flags /\ Drop(s, n).fmt = s.fmt /\ Drop(s, n).hused = s.hused
           /\ Drop(s, n).header = s.header /\ Drop(s, n).snapshot = s.snapshot
           /\ Drop(s, n).data = s.data
  BY DEF Serializers, Drop

LEMMA PokeFacts ==
    ASSUME NEW s \in Serializers, NEW n \in 1 .. Len(s.data), NEW x \in Cell
    PROVE  /\ Poke(s, n, x) \in Serializers /\ Poke(s, n, x).used = s.used
           /\ Poke(s, n, x).flags = s.flags /\ Poke(s, n, x).fmt = s.fmt
           /\ Poke(s, n, x).hused = s.hused
           /\ Poke(s, n, x).header = s.header /\ Poke(s, n, x).snapshot = s.snapshot
           /\ Len(Poke(s, n, x).data) = Len(s.data)
           /\ Poke(s, n, x).data[n] = x
           /\ \A i \in 1 .. Len(s.data) : i # n => Poke(s, n, x).data[i] = s.data[i]
  <1> DEFINE e == [s.data EXCEPT ![n] = x]
  <1>1. s.data \in Seq(Cell)
    BY DEF Serializers
  <1>2. e \in Seq(Cell)
    BY <1>1, ExceptSeq
  <1>3. Len(e) = Len(s.data)
    BY <1>1, ExceptSeq
  <1>4. e[n] = x /\ \A i \in 1 .. Len(s.data) : i # n => e[i] = s.data[i]
    BY <1>1
  <1>5. Poke(s, n, x) = [s EXCEPT !.data = e]
    BY DEF Poke, Serializers
  <1> HIDE DEF e
  <1>6. /\ Poke(s, n, x) \in Serializers /\ Poke(s, n, x).used = s.used
        /\ Poke(s, n, x).flags = s.flags /\ Poke(s, n, x).fmt = s.fmt
        /\ Poke(s, n, x).hused = s.hused
        /\ Poke(s, n, x).header = s.header /\ Poke(s, n, x).snapshot = s.snapshot
        /\ Poke(s, n, x).data = e
    BY <1>2, <1>5 DEF Serializers
  <1> QED
    BY <1>3, <1>4, <1>6

\* t comes from s, and holds the cells a .. b of s.
Keeps(s, a, b, t) ==
    /\ InBuffer(t)
    /\ t.fmt = s.fmt /\ t.snapshot = s.snapshot /\ t.header = s.header /\ t.hused = s.hused
    /\ b <= t.used
    /\ \A i \in a .. b : t.data[i] = s.data[i]

LEMMA KeepsDrop ==
    ASSUME NEW s, InBuffer(s), NEW n \in Nat, n <= s.used
    PROVE  /\ Keeps(s, 1, s.used - n, Drop(s, n))
           /\ Drop(s, n).flags = s.flags /\ Drop(s, n).used = s.used - n
           /\ Drop(s, n).data = s.data
  <1>1. s \in Serializers /\ s.used \in Nat /\ Len(s.data) \in Nat
    BY DEF InBuffer, Serializers
  <1> QED
    BY <1>1, DropFacts DEF Keeps, InBuffer

LEMMA KeepsPut ==
    ASSUME NEW s, NEW a \in Nat, NEW b \in Nat, NEW t, Keeps(s, a, b, t), 1 <= a,
           NEW cells \in Seq(Cell)
    PROVE  /\ Keeps(s, a, b, Put(t, cells))
           /\ Keeps(t, 1, t.used, Put(t, cells))
           /\ Put(t, cells).flags = t.flags
           /\ Put(t, cells).used = t.used + Len(cells)
           /\ \A i \in 1 .. Len(cells) : Put(t, cells).data[t.used + i] = cells[i]
  <1>1. t \in Serializers /\ t.used \in Nat /\ Len(t.data) \in Nat /\ Len(cells) \in Nat
        /\ t.used <= Len(t.data) /\ t.snapshot.used <= Len(t.data) /\ t.hused <= Len(t.header)
        /\ b <= t.used
    BY DEF Keeps, InBuffer, Serializers
  <1> DEFINE u == Put(t, cells)
  <1>2. /\ u \in Serializers
        /\ u.fmt = t.fmt /\ u.flags = t.flags /\ u.hused = t.hused
        /\ u.header = t.header /\ u.snapshot = t.snapshot
        /\ u.used = t.used + Len(cells)
        /\ u.used <= Len(u.data)
        /\ u.snapshot.used <= Len(u.data)
        /\ \A i \in 1 .. t.used : u.data[i] = t.data[i]
        /\ \A i \in 1 .. Len(cells) : u.data[t.used + i] = cells[i]
    BY <1>1, PutFacts
  <1> HIDE DEF u
  <1>3. InBuffer(u)
    BY <1>1, <1>2 DEF InBuffer
  <1>4. Keeps(t, 1, t.used, u)
    BY <1>1, <1>2, <1>3 DEF Keeps
  <1>5. \A i \in a .. b : u.data[i] = s.data[i]
    BY <1>1, <1>2 DEF Keeps
  <1>6. Keeps(s, a, b, u)
    BY <1>1, <1>2, <1>3, <1>5 DEF Keeps
  <1> QED
    BY <1>2, <1>4, <1>6 DEF u

LEMMA PutKeeps ==
    ASSUME NEW s, InBuffer(s), NEW cells \in Seq(Cell)
    PROVE  /\ Keeps(s, 1, s.used, Put(s, cells))
           /\ Put(s, cells).flags = s.flags
           /\ Put(s, cells).used = s.used + Len(cells)
           /\ \A i \in 1 .. Len(cells) : Put(s, cells).data[s.used + i] = cells[i]
  <1>1. s \in Serializers /\ s.used \in Nat /\ Len(s.data) \in Nat /\ Len(cells) \in Nat
        /\ s.used <= Len(s.data) /\ s.snapshot.used <= Len(s.data) /\ s.hused <= Len(s.header)
    BY DEF InBuffer, Serializers
  <1> QED
    BY <1>1, PutFacts DEF Keeps, InBuffer

LEMMA KeepsFlag ==
    ASSUME NEW s, NEW a, NEW b, NEW t, Keeps(s, a, b, t), NEW f \in Flags
    PROVE  /\ Keeps(s, a, b, Raise(t, f)) /\ Keeps(s, a, b, Clear(t, f))
           /\ Raise(t, f).flags = t.flags \cup {f} /\ Clear(t, f).flags = t.flags \ {f}
           /\ Raise(t, f).used = t.used /\ Clear(t, f).used = t.used
           /\ Raise(t, f).data = t.data /\ Clear(t, f).data = t.data
  <1>1. t \in Serializers
    BY DEF Keeps, InBuffer
  <1> QED
    BY <1>1, FlagFacts DEF Keeps, InBuffer

LEMMA KeepsPoke ==
    ASSUME NEW s, NEW a \in Nat, NEW b \in Nat, NEW t, Keeps(s, a, b, t), 1 <= a,
           NEW n \in Nat, 1 <= n, n <= t.used, n \notin a .. b, NEW x \in Cell
    PROVE  /\ Keeps(s, a, b, Poke(t, n, x))
           /\ Poke(t, n, x).flags = t.flags
           /\ Poke(t, n, x).used = t.used
           /\ Poke(t, n, x).data[n] = x
           /\ \A i \in 1 .. t.used : i # n => Poke(t, n, x).data[i] = t.data[i]
  <1>1. t \in Serializers /\ t.used \in Nat /\ Len(t.data) \in Nat
        /\ t.used <= Len(t.data) /\ t.snapshot.used <= Len(t.data) /\ t.hused <= Len(t.header)
        /\ b <= t.used
    BY DEF Keeps, InBuffer, Serializers
  <1> DEFINE u == Poke(t, n, x)
  <1>2. n \in 1 .. Len(t.data)
    BY <1>1
  <1>3. /\ u \in Serializers
        /\ u.fmt = t.fmt /\ u.flags = t.flags /\ u.hused = t.hused
        /\ u.header = t.header /\ u.snapshot = t.snapshot
        /\ u.used = t.used /\ Len(u.data) = Len(t.data) /\ u.data[n] = x
        /\ \A i \in 1 .. Len(t.data) : i # n => u.data[i] = t.data[i]
    BY <1>1, <1>2, PokeFacts
  <1> HIDE DEF u
  <1>4. InBuffer(u)
    BY <1>1, <1>3 DEF InBuffer
  <1>5. \A i \in a .. b : u.data[i] = s.data[i]
    <2> SUFFICES ASSUME NEW i \in a .. b
                 PROVE  u.data[i] = s.data[i]
      OBVIOUS
    <2>1. i \in 1 .. Len(t.data) /\ i # n
      BY <1>1
    <2>2. t.data[i] = s.data[i]
      BY DEF Keeps
    <2> QED
      BY <1>3, <2>1, <2>2
  <1>6. Keeps(s, a, b, u)
    BY <1>1, <1>3, <1>4, <1>5 DEF Keeps
  <1>7. \A i \in 1 .. t.used : i # n => u.data[i] = t.data[i]
    BY <1>1, <1>3
  <1> QED
    BY <1>3, <1>6, <1>7 DEF u

LEMMA KeepsTrans ==
    ASSUME NEW s, NEW t, NEW u, NEW a \in Nat, NEW b \in Nat, NEW c \in Nat, NEW d \in Nat,
           Keeps(s, a, b, t), Keeps(t, c, d, u), c <= a, b <= d
    PROVE  Keeps(s, a, b, u)
  <1>1. u.used \in Nat
    BY DEF Keeps, InBuffer, Serializers
  <1>2. \A i \in a .. b : u.data[i] = s.data[i]
    BY DEF Keeps
  <1> QED
    BY <1>1, <1>2 DEF Keeps

LEMMA KeepsSelf ==
    ASSUME NEW s, InBuffer(s), NEW a \in Nat, NEW b \in Nat, b <= s.used
    PROVE  Keeps(s, a, b, s)
  BY DEF Keeps

\* A part of what is kept is kept.
LEMMA KeepsPart ==
    ASSUME NEW s, NEW t, NEW a \in Nat, NEW b \in Nat, NEW c \in Nat, NEW d \in Nat,
           Keeps(s, a, b, t), a <= c, d <= b
    PROVE  Keeps(s, c, d, t)
  <1>1. t.used \in Nat
    BY DEF Keeps, InBuffer, Serializers
  <1> QED
    BY <1>1 DEF Keeps

-----------------------------------------------------------------------------
(* The cells of a text. *)

LEMMA Tuples ==
    ASSUME NEW S, NEW x \in S, NEW y \in S, NEW z \in S
    PROVE  /\ <<x>> \in Seq(S) /\ Len(<<x>>) = 1 /\ <<x>>[1] = x
           /\ <<x, y>> \in Seq(S) /\ Len(<<x, y>>) = 2 /\ <<x, y>>[1] = x /\ <<x, y>>[2] = y
           /\ <<x, y, z>> \in Seq(S) /\ Len(<<x, y, z>>) = 3
           /\ <<x, y, z>>[1] = x /\ <<x, y, z>>[2] = y /\ <<x, y, z>>[3] = z
  OBVIOUS

LEMMA MarkCell ==
    ASSUME NEW w \in Marks
    PROVE  <<w>> \in Cell
  <1>1. w \in Word
    BY DEF Word, Texts
  <1> QED
    BY <1>1, Tuples DEF Cell

LEMMA JsonCells ==
    /\ <<" ">> \in Cell /\ <<"{">> \in Cell /\ <<"}">> \in Cell /\ <<"[">> \in Cell
    /\ <<"]">> \in Cell /\ <<":">> \in Cell /\ <<",">> \in Cell /\ <<"nl">> \in Cell
  <1>1. " " \in Marks /\ "{" \in Marks /\ "}" \in Marks /\ "[" \in Marks
        /\ "]" \in Marks /\ ":" \in Marks /\ "," \in Marks /\ "nl" \in Marks
    BY DEF Marks
  <1> QED
    BY <1>1, MarkCell

\* The cells of a value.
ValueCell == {x \in Cell : x[1] \in Value}

LEMMA ValueCells ==
    ASSUME NEW v \in Texts
    PROVE  /\ \A w \in Value : <<w, v>> \in ValueCell
           /\ <<"num", v, "nine digits">> \in ValueCell /\ <<"text", v, "and on">> \in ValueCell
           /\ <<"key", v>> \in Cell
  <1>1. /\ v \in Word /\ Value \subseteq Word /\ "key" \in Word /\ "num" \in Word /\ "text" \in Word
        /\ "nine digits" \in Word /\ "and on" \in Word /\ "num" \in Value /\ "text" \in Value
    BY DEF Value, Word, Texts, Marks
  <1>2. ASSUME NEW w \in Value
        PROVE  <<w, v>> \in Cell /\ <<w, v>>[1] = w
    <2>1. w \in Word
      BY <1>1
    <2> QED
      BY <1>1, <2>1, Tuples DEF Cell
  <1>3. ASSUME NEW w \in {"num", "text"}, NEW e \in {"nine digits", "and on"}
        PROVE  <<w, v, e>> \in Cell /\ <<w, v, e>>[1] = w
    <2>1. w \in Word /\ e \in Word
      BY <1>1
    <2> QED
      BY <1>1, <2>1, Tuples DEF Cell
  <1>4. <<"key", v>> \in Cell
    BY <1>1, Tuples DEF Cell
  <1> QED
    BY <1>1, <1>2, <1>3, <1>4 DEF ValueCell

-----------------------------------------------------------------------------
(* The calls for an item: all of them come down to AddItem. *)

ItemResult(s, mem, key, d) ==
    \/ s.fmt = "tlv" /\ d = Returns(-1, s)
    \/ \E kt \in Word, et \in Word, raw \in Texts, text \in ValueCell :
         d = AddItem(s, mem, kt, key, et, raw, text)
    \/ s.fmt = "csv" /\ \E text \in ValueCell : d = AddCsvItem(s, mem, key, text)

LEMMA ItemIntro ==
    ASSUME NEW s, NEW mem, NEW key, NEW kt \in Word, NEW et \in Word, NEW raw \in Texts,
           NEW text \in ValueCell
    PROVE  ItemResult(s, mem, key, AddItem(s, mem, kt, key, et, raw, text))
  BY DEF ItemResult

LEMMA CsvItemIntro ==
    ASSUME NEW s, s.fmt = "csv", NEW mem, NEW key, NEW text \in ValueCell
    PROVE  ItemResult(s, mem, key, AddCsvItem(s, mem, key, text))
  BY DEF ItemResult

LEMMA NoItemIntro ==
    ASSUME NEW s, s.fmt = "tlv", NEW mem, NEW key
    PROVE  ItemResult(s, mem, key, Returns(-1, s))
  BY DEF ItemResult

LEMMA TypeWords ==
    ASSUME NEW v \in Texts
    PROVE  /\ Unsigned[v] \in Word /\ Signed[v] \in Word /\ NumericKey[v] \in Word
           /\ v \in Word /\ "string" \in Word /\ "uint64" \in Word /\ "int64" \in Word
           /\ "float" \in Word /\ "none" \in Word /\ "f" \in Texts /\ AsInt32(v) \in Texts
           /\ <<"num", v>> \in ValueCell /\ <<"float", v>> \in ValueCell
           /\ <<"text", v>> \in ValueCell /\ <<"literal", v>> \in ValueCell
           /\ <<"raw", v>> \in ValueCell /\ <<"num", v, "nine digits">> \in ValueCell
           /\ <<"text", v, "and on">> \in ValueCell
  <1>1. Unsigned[v] \in Word /\ Signed[v] \in Word /\ NumericKey[v] \in Word /\ v \in Word
    BY Zenon DEF Word
  <1>2. /\ "string" \in Word /\ "uint64" \in Word /\ "int64" \in Word
        /\ "float" \in Word /\ "none" \in Word /\ "f" \in Texts /\ AsInt32(v) \in Texts
    <2>1. /\ "string" \in Marks /\ "uint64" \in Marks /\ "int64" \in Marks
          /\ "float" \in Marks /\ "none" \in Marks /\ "f" \in Marks /\ "w33" \in Marks
      BY DEF Marks
    <2>2. Marks \subseteq Texts /\ Texts \subseteq Word
      BY DEF Texts, Word
    <2>3. AsInt32(v) \in {"w33", v}
      BY DEF AsInt32
    <2> QED
      BY <2>1, <2>2, <2>3
  <1>3. "num" \in Value /\ "float" \in Value /\ "text" \in Value /\ "literal" \in Value
        /\ "raw" \in Value
    BY DEF Value
  <1> QED
    BY <1>1, <1>2, <1>3, ValueCells

LEMMA ItemCalls ==
    ASSUME NEW s, NEW mem, NEW key \in Texts, NEW v \in Texts
    PROVE  /\ ItemResult(s, mem, key, ndpi_serialize_uint32_uint32(s, mem, key, v))
           /\ ItemResult(s, mem, key, ndpi_serialize_uint32_uint64(s, mem, key, v))
           /\ ItemResult(s, mem, key, ndpi_serialize_uint32_int32(s, mem, key, v))
           /\ ItemResult(s, mem, key, ndpi_serialize_uint32_int64(s, mem, key, v))
           /\ ItemResult(s, mem, key, ndpi_serialize_uint32_float(s, mem, key, v))
           /\ ItemResult(s, mem, key, ndpi_serialize_uint32_string(s, mem, key, v))
           /\ ItemResult(s, mem, key, ndpi_serialize_uint32_boolean(s, mem, key, v))
           /\ ItemResult(s, mem, key, ndpi_serialize_string_uint32(s, mem, key, v))
           /\ ItemResult(s, mem, key, ndpi_serialize_string_uint64(s, mem, key, v))
           /\ ItemResult(s, mem, key, ndpi_serialize_string_int32(s, mem, key, v))
           /\ ItemResult(s, mem, key, ndpi_serialize_binary_int32(s, mem, key, v))
           /\ ItemResult(s, mem, key, ndpi_serialize_string_int64(s, mem, key, v))
           /\ ItemResult(s, mem, key, ndpi_serialize_string_float(s, mem, key, v))
           /\ ItemResult(s, mem, key, ndpi_serialize_string_string(s, mem, key, v))
           /\ ItemResult(s, mem, key, ndpi_serialize_string_binary(s, mem, key, v))
           /\ ItemResult(s, mem, key, ndpi_serialize_string_raw(s, mem, key, v))
           /\ ItemResult(s, mem, key, ndpi_serialize_string_uint32_format(s, mem, key, v))
           /\ ItemResult(s, mem, key, ndpi_serialize_string_boolean(s, mem, key, v))
  <1> USE TypeWords
  <1>1. \A w \in Texts : ItemResult(s, mem, key, ndpi_serialize_uint32_uint32(s, mem, key, w))
    BY ItemIntro DEF ndpi_serialize_uint32_uint32, ndpi_serialize_key_uint32
  <1>2. \A w \in Texts : ItemResult(s, mem, key, ndpi_serialize_uint32_int32(s, mem, key, w))
    BY ItemIntro DEF ndpi_serialize_uint32_int32, ndpi_serialize_key_uint32
  <1>3. ItemResult(s, mem, key, ndpi_serialize_uint32_uint64(s, mem, key, v))
    BY <1>1, ItemIntro DEF ndpi_serialize_uint32_uint64, ndpi_serialize_key_uint32
  <1>4. ItemResult(s, mem, key, ndpi_serialize_uint32_int64(s, mem, key, v))
    BY <1>2, ItemIntro DEF ndpi_serialize_uint32_int64, ndpi_serialize_key_uint32
  <1>5. ItemResult(s, mem, key, ndpi_serialize_uint32_float(s, mem, key, v))
    BY ItemIntro DEF ndpi_serialize_uint32_float, ndpi_serialize_key_uint32
  <1>6. \A nul \in BOOLEAN :
          ItemResult(s, mem, key, ndpi_serialize_uint32_binary(s, mem, key, v, nul))
    BY ItemIntro DEF ndpi_serialize_uint32_binary, ndpi_serialize_key_uint32
  <1>7. ItemResult(s, mem, key, ndpi_serialize_uint32_boolean(s, mem, key, v))
    BY ItemIntro, NoItemIntro DEF ndpi_serialize_uint32_boolean, ndpi_serialize_key_uint32
  <1>8. ItemResult(s, mem, key, ndpi_serialize_string_uint32(s, mem, key, v))
    BY <1>1, ItemIntro, CsvItemIntro
       DEF ndpi_serialize_string_uint32, ndpi_serialize_binary_uint32
  <1>9. ItemResult(s, mem, key, ndpi_serialize_string_uint64(s, mem, key, v))
    BY <1>3, <1>8, ItemIntro DEF ndpi_serialize_string_uint64, ndpi_serialize_binary_uint64
  <1>10. \A w \in Texts : ItemResult(s, mem, key, ndpi_serialize_binary_int32(s, mem, key, w))
    BY <1>2, ItemIntro DEF ndpi_serialize_binary_int32
  <1>11. \A w \in Texts : ItemResult(s, mem, key, ndpi_serialize_string_int32(s, mem, key, w))
    BY <1>10, CsvItemIntro DEF ndpi_serialize_string_int32
  <1>12. ItemResult(s, mem, key, ndpi_serialize_string_int64(s, mem, key, v))
    BY <1>4, <1>11, ItemIntro DEF ndpi_serialize_string_int64, ndpi_serialize_binary_int64
  <1>13. ItemResult(s, mem, key, ndpi_serialize_string_float(s, mem, key, v))
    BY <1>5, ItemIntro DEF ndpi_serialize_string_float, ndpi_serialize_binary_float
  <1>14. \A e \in BOOLEAN :
           ItemResult(s, mem, key, ndpi_serialize_binary_raw(s, mem, key, v, e))
    BY ItemIntro DEF ndpi_serialize_binary_raw
  <1>15. ItemResult(s, mem, key, ndpi_serialize_string_binary(s, mem, key, v))
    BY <1>6, <1>14 DEF ndpi_serialize_string_binary, ndpi_serialize_binary_binary
  <1>16. ItemResult(s, mem, key, ndpi_serialize_string_string(s, mem, key, v))
    BY <1>15, CsvItemIntro DEF ndpi_serialize_string_string, ndpi_serialize_string_binary
  <1>17. ItemResult(s, mem, key, ndpi_serialize_string_raw(s, mem, key, v))
    BY <1>14 DEF ndpi_serialize_string_raw
  <1>18. ItemResult(s, mem, key, ndpi_serialize_string_uint32_format(s, mem, key, v))
    BY <1>8, <1>16 DEF ndpi_serialize_string_uint32_format
  <1>19. ItemResult(s, mem, key, ndpi_serialize_string_boolean(s, mem, key, v))
    BY <1>7, ItemIntro, NoItemIntro
       DEF ndpi_serialize_string_boolean, ndpi_serialize_binary_boolean
  <1>20. ItemResult(s, mem, key, ndpi_serialize_uint32_string(s, mem, key, v))
    BY <1>6 DEF ndpi_serialize_uint32_string
  <1> QED
    BY <1>1, <1>2, <1>3, <1>4, <1>5, <1>7, <1>8, <1>9, <1>10, <1>11, <1>12, <1>13, <1>15,
       <1>16, <1>17, <1>18, <1>19, <1>20

LEMMA PerformItem ==
    ASSUME NEW s, NEW mem, NEW c, c.key \in Texts, c.v \in Texts, c.op \in Items
    PROVE  ItemResult(s, mem, c.key, Perform(s, mem, c))
  <1> DEFINE key == c.key
             v == c.v
             op == c.op
  <1>1. /\ ItemResult(s, mem, key, ndpi_serialize_uint32_uint32(s, mem, key, v))
        /\ ItemResult(s, mem, key, ndpi_serialize_uint32_uint64(s, mem, key, v))
        /\ ItemResult(s, mem, key, ndpi_serialize_uint32_int32(s, mem, key, v))
        /\ ItemResult(s, mem, key, ndpi_serialize_uint32_int64(s, mem, key, v))
        /\ ItemResult(s, mem, key, ndpi_serialize_uint32_float(s, mem, key, v))
        /\ ItemResult(s, mem, key, ndpi_serialize_uint32_string(s, mem, key, v))
        /\ ItemResult(s, mem, key, ndpi_serialize_uint32_boolean(s, mem, key, v))
        /\ ItemResult(s, mem, key, ndpi_serialize_string_uint32(s, mem, key, v))
        /\ ItemResult(s, mem, key, ndpi_serialize_string_uint64(s, mem, key, v))
        /\ ItemResult(s, mem, key, ndpi_serialize_string_int32(s, mem, key, v))
        /\ ItemResult(s, mem, key, ndpi_serialize_binary_int32(s, mem, key, v))
        /\ ItemResult(s, mem, key, ndpi_serialize_string_int64(s, mem, key, v))
        /\ ItemResult(s, mem, key, ndpi_serialize_string_float(s, mem, key, v))
        /\ ItemResult(s, mem, key, ndpi_serialize_string_string(s, mem, key, v))
        /\ ItemResult(s, mem, key, ndpi_serialize_string_binary(s, mem, key, v))
        /\ ItemResult(s, mem, key, ndpi_serialize_string_raw(s, mem, key, v))
        /\ ItemResult(s, mem, key, ndpi_serialize_string_uint32_format(s, mem, key, v))
        /\ ItemResult(s, mem, key, ndpi_serialize_string_boolean(s, mem, key, v))
    BY ItemCalls
  <1> QED
    BY <1>1 DEF Perform, Items

-----------------------------------------------------------------------------
(* JSON: what the calls leave of a document and how it is read. *)

\* The brackets at the end of a document, and what is before them.
Closing(fl) ==
    IF "EOR" \in fl THEN 1
    ELSE 1 + (IF "ARRAY" \in fl THEN 1 ELSE 0) + (IF "LIST" \in fl THEN 1 ELSE 0)

Body(s) == s.used - Closing(s.flags)

\* The reader at the end of what is written.
End(start, s) == ReadTo(start, s.data, s.used)

LEMMA ReadKept ==
    ASSUME NEW s, NEW t, NEW b \in Nat, InBuffer(s), Keeps(s, 2, b, t), 1 <= b, b <= s.used, NEW start
    PROVE  ReadTo(start, t.data, b) = ReadTo(start, s.data, b)
  <1> DEFINE d == s.data
             e == t.data
  <1>1. /\ d \in Seq(Cell) /\ e \in Seq(Cell) /\ b <= Len(d) /\ b <= Len(e)
        /\ \A i \in 2 .. b : d[i] = e[i]
    BY DEF Keeps, InBuffer, Serializers
  <1> HIDE DEF d, e
  <1>2. ReadTo(start, d, b) = ReadTo(start, e, b)
    BY <1>1, ReadToAgree
  <1> QED
    BY <1>2 DEF d, e

LEMMA PutCells ==
    ASSUME NEW s, InBuffer(s), 1 <= s.used, NEW start, NEW cells \in Seq(Cell),
           Len(cells) \in 1 .. 3
    PROVE  /\ Put(s, cells).used = s.used + Len(cells)
           /\ ReadTo(start, Put(s, cells).data, s.used) = End(start, s)
           /\ \A i \in 1 .. Len(cells) :
                ReadTo(start, Put(s, cells).data, s.used + i)
                  = JsonStep(ReadTo(start, Put(s, cells).data, (s.used + i) - 1), cells[i])
  <1>a. s.used \in Nat /\ s.used <= s.used
    BY DEF InBuffer, Serializers
  <1>b. Keeps(s, 1, s.used, s) /\ 1 \in Nat /\ 1 <= 1
    BY <1>a, KeepsSelf
  <1> DEFINE t == Put(s, cells)
  <1>1. /\ Keeps(s, 1, s.used, t) /\ t.used = s.used + Len(cells)
        /\ \A i \in 1 .. Len(cells) : t.data[s.used + i] = cells[i]
    BY PutKeeps
  <1> HIDE DEF t
  <1>2. Keeps(s, 2, s.used, t)
    BY <1>a, <1>1, KeepsPart
  <1>3. ReadTo(start, t.data, s.used) = End(start, s)
    <2> DEFINE u == s.used
    <2>1. u \in Nat /\ Keeps(s, 2, u, t) /\ u <= s.used /\ 1 <= u
      BY <1>a, <1>2
    <2> HIDE DEF u
    <2>2. ReadTo(start, t.data, u) = ReadTo(start, s.data, u)
      BY <2>1, ReadKept
    <2> QED
      BY <2>2 DEF End, u
  <1>4. ASSUME NEW i \in 1 .. Len(cells)
        PROVE  ReadTo(start, t.data, s.used + i)
                 = JsonStep(ReadTo(start, t.data, (s.used + i) - 1), cells[i])
    <2> DEFINE d == t.data
               m == s.used + i
    <2>1. d \in Seq(Cell) /\ m \in 2 .. Len(d)
      BY <1>a, <1>1 DEF Keeps, InBuffer, Serializers
    <2>2. d[m] = cells[i]
      BY <1>1
    <2> HIDE DEF d, m
    <2>3. ReadTo(start, d, m) = JsonStep(ReadTo(start, d, m - 1), d[m])
      BY <2>1, ReadToNext
    <2> QED
      BY <2>2, <2>3 DEF d, m
  <1> QED
    BY <1>1, <1>3, <1>4 DEF t

LEMMA OneRead ==
    ASSUME NEW s, InBuffer(s), 1 <= s.used, NEW x \in Cell, NEW start
    PROVE  End(start, Put(s, <<x>>)) = JsonStep(End(start, s), x)
  <1>a. s.used \in Nat
    BY DEF InBuffer, Serializers
  <1>1. <<x>> \in Seq(Cell) /\ Len(<<x>>) = 1 /\ <<x>>[1] = x
    BY Tuples
  <1> DEFINE c == <<x>>
             t == Put(s, c)
  <1>2. /\ t.used = s.used + Len(c)
        /\ ReadTo(start, t.data, s.used) = End(start, s)
        /\ \A i \in 1 .. Len(c) : ReadTo(start, t.data, s.used + i)
                        = JsonStep(ReadTo(start, t.data, (s.used + i) - 1), c[i])
    <2>1. c \in Seq(Cell) /\ Len(c) \in 1 .. 3
      BY <1>1
    <2> HIDE DEF c
    <2>2. t.used = s.used + Len(c)
      BY PutCells, <2>1
    <2>3. ReadTo(start, t.data, s.used) = End(start, s)
      BY PutCells, <2>1
    <2>4. \A i \in 1 .. Len(c) : ReadTo(start, t.data, s.used + i)
                        = JsonStep(ReadTo(start, t.data, (s.used + i) - 1), c[i])
      BY PutCells, <2>1
    <2> QED
      BY <2>2, <2>3, <2>4
  <1> HIDE DEF t, c
  <1>3. 1 \in 1 .. Len(c) /\ (s.used + 1) - 1 = s.used /\ c[1] = x /\ Len(c) = 1
    BY <1>a, <1>1 DEF c
  <1>4. ReadTo(start, t.data, s.used + 1) = JsonStep(End(start, s), x)
    BY <1>2, <1>3
  <1> QED
    BY <1>2, <1>3, <1>4 DEF End, t, c

LEMMA TwoRead ==
    ASSUME NEW s, InBuffer(s), 1 <= s.used, NEW x \in Cell, NEW y \in Cell, NEW start
    PROVE  End(start, Put(s, <<x, y>>)) = JsonStep(JsonStep(End(start, s), x), y)
  <1>a. s.used \in Nat
    BY DEF InBuffer, Serializers
  <1>1. <<x, y>> \in Seq(Cell) /\ Len(<<x, y>>) = 2 /\ <<x, y>>[1] = x /\ <<x, y>>[2] = y
    BY Tuples
  <1> DEFINE c == <<x, y>>
             t == Put(s, c)
  <1>2. /\ t.used = s.used + Len(c)
        /\ ReadTo(start, t.data, s.used) = End(start, s)
        /\ \A i \in 1 .. Len(c) : ReadTo(start, t.data, s.used + i)
                        = JsonStep(ReadTo(start, t.data, (s.used + i) - 1), c[i])
    <2>1. c \in Seq(Cell) /\ Len(c) \in 1 .. 3
      BY <1>1
    <2> HIDE DEF c
    <2>2. t.used = s.used + Len(c)
      BY PutCells, <2>1
    <2>3. ReadTo(start, t.data, s.used) = End(start, s)
      BY PutCells, <2>1
    <2>4. \A i \in 1 .. Len(c) : ReadTo(start, t.data, s.used + i)
                        = JsonStep(ReadTo(start, t.data, (s.used + i) - 1), c[i])
      BY PutCells, <2>1
    <2> QED
      BY <2>2, <2>3, <2>4
  <1> HIDE DEF t, c
  <1>3. /\ 1 \in 1 .. Len(c) /\ (s.used + 1) - 1 = s.used /\ c[1] = x /\ Len(c) = 2
        /\ 2 \in 1 .. Len(c) /\ (s.used + 2) - 1 = s.used + 1 /\ c[2] = y
    BY <1>a, <1>1 DEF c
  <1>4. ReadTo(start, t.data, s.used + 1) = JsonStep(End(start, s), x)
    BY <1>2, <1>3
  <1>5. ReadTo(start, t.data, s.used + 2) = JsonStep(JsonStep(End(start, s), x), y)
    BY <1>2, <1>3, <1>4
  <1> QED
    BY <1>2, <1>3, <1>5 DEF End, t, c

\* Three cells.
Three(x, y, z) == <<x, y, z>>

LEMMA ThreeRead ==
    ASSUME NEW s, InBuffer(s), 1 <= s.used, NEW x \in Cell, NEW y \in Cell,
           NEW z \in Cell, NEW start
    PROVE  End(start, Put(s, Three(x, y, z))) = JsonStep(JsonStep(JsonStep(End(start, s), x), y), z)
  <1>a. s.used \in Nat
    BY DEF InBuffer, Serializers
  <1>1. /\ <<x, y, z>> \in Seq(Cell) /\ Len(<<x, y, z>>) = 3 /\ <<x, y, z>>[1] = x
        /\ <<x, y, z>>[2] = y /\ <<x, y, z>>[3] = z
    BY Tuples
  <1> DEFINE c == <<x, y, z>>
             t == Put(s, c)
  <1>2. /\ t.used = s.used + Len(c)
        /\ ReadTo(start, t.data, s.used) = End(start, s)
        /\ \A i \in 1 .. Len(c) : ReadTo(start, t.data, s.used + i)
                        = JsonStep(ReadTo(start, t.data, (s.used + i) - 1), c[i])
    <2>1. c \in Seq(Cell) /\ Len(c) \in 1 .. 3
      BY <1>1
    <2> HIDE DEF c
    <2>2. t.used = s.used + Len(c)
      BY PutCells, <2>1
    <2>3. ReadTo(start, t.data, s.used) = End(start, s)
      BY PutCells, <2>1
    <2>4. \A i \in 1 .. Len(c) : ReadTo(start, t.data, s.used + i)
                        = JsonStep(ReadTo(start, t.data, (s.used + i) - 1), c[i])
      BY PutCells, <2>1
    <2> QED
      BY <2>2, <2>3, <2>4
  <1> HIDE DEF t, c
  <1>3. /\ 1 \in 1 .. Len(c) /\ (s.used + 1) - 1 = s.used /\ c[1] = x /\ Len(c) = 3
        /\ 2 \in 1 .. Len(c) /\ (s.used + 2) - 1 = s.used + 1 /\ c[2] = y
        /\ 3 \in 1 .. Len(c) /\ (s.used + 3) - 1 = s.used + 2 /\ c[3] = z
    BY <1>a, <1>1 DEF c
  <1>4. ReadTo(start, t.data, s.used + 1) = JsonStep(End(start, s), x)
    BY <1>2, <1>3
  <1>5. ReadTo(start, t.data, s.used + 2) = JsonStep(JsonStep(End(start, s), x), y)
    BY <1>2, <1>3, <1>4
  <1>6. ReadTo(start, t.data, s.used + 3) = JsonStep(JsonStep(JsonStep(End(start, s), x), y), z)
    BY <1>2, <1>3, <1>5
  <1> QED
    BY <1>2, <1>3, <1>6 DEF End, t, c, Three

\* How ndpi_serialize_json_pre continues what it has reopened.
PreStep(fl, st) ==
    CASE "EOR" \in fl -> JsonStep(JsonStep(st, <<",">>), <<"{">>)
      [] "EOR" \notin fl /\ "LIST" \in fl -> IF "SOL" \in fl THEN st ELSE JsonStep(st, <<",">>)
      [] OTHER -> IF "SOB" \notin fl /\ "COMMA" \in fl THEN JsonStep(st, <<",">>) ELSE st

\* A document that can be reopened.
IsClosed(s) == InBuffer(s) /\ Closing(s.flags) <= s.used

LEMMA ClosingFacts ==
    ASSUME NEW s, IsClosed(s)
    PROVE  /\ Closing(s.flags) \in 1 .. 3 /\ s.used \in Nat /\ Body(s) \in Nat
           /\ Body(s) < s.used /\ Body(s) + Closing(s.flags) = s.used
           /\ s \in Serializers /\ InBuffer(s)
  <1>1. s.used \in Nat /\ s \in Serializers
    BY DEF IsClosed, InBuffer, Serializers
  <1>2. Closing(s.flags) \in 1 .. 3
    BY DEF Closing
  <1> QED
    BY <1>1, <1>2 DEF IsClosed, Body

LEMMA JsonPre ==
    ASSUME NEW s, IsClosed(s)
    PROVE  LET t == ndpi_serialize_json_pre(s)
           IN  /\ Keeps(s, 1, Body(s), t)
               /\ t.flags = s.flags \ (IF "EOR" \in s.flags THEN {"EOR"}
                                       ELSE IF "LIST" \in s.flags THEN {"SOL"} ELSE {"SOB"})
               /\ 1 <= Body(s) => \A start : End(start, t)
                                    = PreStep(s.flags, ReadTo(start, s.data, Body(s)))
  <1> DEFINE b == Body(s)
             n == Closing(s.flags)
             cut == Drop(s, n)
             t == ndpi_serialize_json_pre(s)
  <1>1. n \in Nat /\ b \in Nat /\ n <= s.used /\ s.used - n = b /\ InBuffer(s) /\ s \in Serializers
        /\ b <= s.used /\ 1 \in Nat /\ 1 <= 1
    BY ClosingFacts DEF IsClosed, Body
  <1>2. Keeps(s, 1, b, cut) /\ cut.flags = s.flags /\ cut.used = b /\ cut.data = s.data
    <2>1. n \in Nat /\ n <= s.used
      BY <1>1
    <2> HIDE DEF n
    <2>2. /\ Keeps(s, 1, s.used - n, cut) /\ cut.flags = s.flags /\ cut.used = s.used - n
          /\ cut.data = s.data
      BY <1>1, <2>1, KeepsDrop
    <2> QED
      BY <1>1, <2>2
  <1>3. InBuffer(cut) /\ \A start : End(start, cut) = ReadTo(start, s.data, b)
    BY <1>2 DEF Keeps, End
  <1>4. <<",">> \in Cell /\ <<"{">> \in Cell
    BY JsonCells
  <1>5. "EOR" \in Flags /\ "SOL" \in Flags /\ "SOB" \in Flags
    BY DEF Flags
  <1>6. CASE "EOR" \in s.flags
    <2> DEFINE c == Clear(cut, "EOR")
               two == <<<<",">>, <<"{">>>>
    <2>1. t = Put(c, two)
      <3>1. n = 1
        BY <1>6 DEF Closing
      <3> QED
        BY <3>1, <1>6 DEF ndpi_serialize_json_pre, Has
    <2>2. Keeps(s, 1, b, c) /\ c.flags = s.flags \ {"EOR"} /\ c.used = b /\ c.data = s.data
      <3> DEFINE e == "EOR"
      <3> HIDE DEF e
      <3>1. e \in Flags
        BY <1>5 DEF e
      <3>2. /\ Keeps(s, 1, b, Clear(cut, e)) /\ Clear(cut, e).flags = cut.flags \ {e}
            /\ Clear(cut, e).used = cut.used /\ Clear(cut, e).data = cut.data
        BY <1>2, <3>1, KeepsFlag
      <3> QED
        BY <1>2, <3>2 DEF e
    <2>3. two \in Seq(Cell)
      BY <1>4, Tuples
    <2>4. InBuffer(c) /\ \A start : End(start, c) = ReadTo(start, s.data, b)
      BY <2>2 DEF Keeps, End
    <2> HIDE DEF c, b, cut, n, t
    <2>5. Keeps(s, 1, b, Put(c, two))
      <3> HIDE DEF two
      <3> QED
        BY <1>1, <2>2, <2>3, KeepsPut, Zenon
    <2>6. Put(c, two).flags = c.flags
      <3> HIDE DEF two
      <3> QED
        BY <2>3, <2>4, PutKeeps
    <2>7. ASSUME 1 <= b, NEW start
          PROVE  End(start, Put(c, two)) = JsonStep(JsonStep(End(start, c), <<",">>), <<"{">>)
      <3>1. 1 <= c.used
        BY <2>2, <2>7
      <3> QED
        BY <1>4, <2>4, <3>1, TwoRead
    <2>8. ASSUME 1 <= b, NEW start
          PROVE  End(start, t) = PreStep(s.flags, ReadTo(start, s.data, b))
      BY <1>6, <2>1, <2>4, <2>7, <2>8 DEF PreStep
    <2> QED
      BY <1>6, <2>1, <2>2, <2>5, <2>6, <2>8 DEF t, b
  <1>7. CASE "EOR" \notin s.flags
    <2> DEFINE first == IF "LIST" \in s.flags THEN "SOL" ELSE "SOB"
               comma == Put(cut, <<<<",">>>>)
    <2>1. n = 1 + (IF "ARRAY" \in s.flags THEN 1 ELSE 0) + (IF "LIST" \in s.flags THEN 1 ELSE 0)
      BY <1>7 DEF Closing
    <2>2. /\ first \in s.flags => t = Clear(cut, first)
          /\ first \notin s.flags /\ ("LIST" \in s.flags \/ "COMMA" \in s.flags) => t = comma
          /\ first \notin s.flags /\ ~("LIST" \in s.flags \/ "COMMA" \in s.flags) => t = cut
      BY <2>1, <1>7 DEF ndpi_serialize_json_pre, Has
    <2>3. first \in Flags
      BY <1>5
    <2>4. <<<<",">>>> \in Seq(Cell)
      BY <1>4, Tuples
    <2> HIDE DEF n, cut, b, t
    <2>5. CASE first \in s.flags
      <3> DEFINE c == Clear(cut, first)
      <3>1. Keeps(s, 1, b, c) /\ c.flags = s.flags \ {first} /\ c.used = b /\ c.data = s.data
        <4> HIDE DEF first
        <4> QED
          BY <1>2, <2>3, KeepsFlag
      <3>2. t = c
        BY <2>2, <2>5
      <3>3. \A start : End(start, c) = PreStep(s.flags, ReadTo(start, s.data, b))
        BY <3>1, <1>7, <2>5 DEF End, PreStep
      <3> HIDE DEF c
      <3> QED
        BY <3>1, <3>2, <3>3, <1>7 DEF t, b
    <2>6. CASE first \notin s.flags /\ ("LIST" \in s.flags \/ "COMMA" \in s.flags)
      <3>1. Keeps(s, 1, b, comma)
        BY <1>1, <1>2, <2>4, KeepsPut, Zenon
      <3>2. comma.flags = s.flags
        BY <1>2, <1>3, <2>4, PutKeeps
      <3>3. ASSUME 1 <= b, NEW start
            PROVE  End(start, comma) = JsonStep(End(start, cut), <<",">>)
        <4>1. 1 <= cut.used
          BY <1>2, <3>3
        <4> QED
          BY <1>3, <1>4, <4>1, OneRead
      <3>4. ASSUME 1 <= b, NEW start
            PROVE  End(start, t) = PreStep(s.flags, ReadTo(start, s.data, b))
        BY <1>3, <1>7, <2>2, <2>6, <3>3, <3>4 DEF PreStep
      <3>5. t.flags = s.flags \ {first}
        BY <2>2, <2>6, <3>2
      <3> QED
        BY <2>2, <2>6, <3>1, <3>4, <3>5, <1>7 DEF t, b
    <2>7. CASE first \notin s.flags /\ ~("LIST" \in s.flags \/ "COMMA" \in s.flags)
      <3>1. t = cut
        BY <2>2, <2>7
      <3>2. t.flags = s.flags \ {first}
        BY <1>2, <2>7, <3>1
      <3>3. \A start : End(start, t) = PreStep(s.flags, ReadTo(start, s.data, b))
        BY <1>3, <1>7, <2>7, <3>1 DEF PreStep
      <3> QED
        BY <1>2, <1>7, <3>1, <3>2, <3>3 DEF t, b
    <2> QED
      BY <2>5, <2>6, <2>7
  <1> QED
    BY <1>6, <1>7

\* The closing brackets are those that were written.
BracketsRight(s) ==
    /\ "EOR" \in s.flags => s.data[s.used] = <<"]">>
    /\ "EOR" \notin s.flags =>
         /\ "LIST" \in s.flags => s.data[Body(s) + 1] = <<"]">> /\ s.data[Body(s) + 2] = <<"}">>
         /\ "LIST" \notin s.flags => s.data[Body(s) + 1] = <<"}">>
         /\ "ARRAY" \in s.flags => s.data[s.used] = <<"]">>

LEMMA AppendTuples ==
    ASSUME NEW S, NEW x \in S, NEW y \in S, NEW z \in S
    PROVE  Append(<<x>>, y) = <<x, y>> /\ Append(<<x, y>>, z) = <<x, y, z>>
  <1>0. ASSUME NEW p \in Seq(S), NEW e \in S, NEW r \in Seq(S), Len(r) = Len(p) + 1,
               r[Len(p) + 1] = e, \A i \in 1 .. Len(p) : r[i] = p[i]
        PROVE  Append(p, e) = r
    <2> DEFINE a == Append(p, e)
    <2>1. a \in Seq(S) /\ Len(a) = Len(p) + 1 /\ a[Len(p) + 1] = e
          /\ \A i \in 1 .. Len(p) : a[i] = p[i]
      BY AppendProperties
    <2> HIDE DEF a
    <2>2. Len(p) \in Nat
      OBVIOUS
    <2>3. \A i \in 1 .. Len(a) : a[i] = r[i]
      BY <1>0, <2>1, <2>2
    <2>4. a = r
      BY <1>0, <2>1, <2>3, SeqEqual
    <2> QED
      BY <2>4 DEF a
  <1>1. Append(<<x>>, y) = <<x, y>>
    <2> DEFINE p == <<x>>
               r == <<x, y>>
    <2>1. /\ p \in Seq(S) /\ r \in Seq(S) /\ Len(r) = Len(p) + 1
          /\ r[Len(p) + 1] = y /\ \A i \in 1 .. Len(p) : r[i] = p[i]
      OBVIOUS
    <2> HIDE DEF p, r
    <2>2. Append(p, y) = r
      BY <1>0, <2>1
    <2> QED
      BY <2>2 DEF p, r
  <1>2. Append(<<x, y>>, z) = <<x, y, z>>
    <2> DEFINE p == <<x, y>>
               r == <<x, y, z>>
    <2>1. /\ p \in Seq(S) /\ r \in Seq(S) /\ Len(p) = 2 /\ Len(r) = 3
          /\ r[3] = z /\ p[1] = x /\ p[2] = y /\ r[1] = x /\ r[2] = y
      OBVIOUS
    <2> HIDE DEF p, r
    <2>2. Len(r) = Len(p) + 1 /\ r[Len(p) + 1] = z /\ \A i \in 1 .. Len(p) : r[i] = p[i]
      BY <2>1
    <2>3. p \in Seq(S) /\ r \in Seq(S)
      BY <2>1
    <2>4. Append(p, z) = r
      BY <1>0, <2>2, <2>3
    <2> QED
      BY <2>4 DEF p, r
  <1> QED
    BY <1>1, <1>2

LEMMA Joins ==
    ASSUME NEW S, NEW x \in S, NEW y \in S, NEW z \in S
    PROVE  /\ <<>> \o <<y>> \o <<>> = <<y>>
           /\ <<x>> \o <<y>> \o <<>> = <<x, y>>
           /\ <<>> \o <<y>> \o <<z>> = <<y, z>>
           /\ <<x>> \o <<y>> \o <<x>> = <<x, y, x>>
           /\ <<>> \o <<x>> = <<x>>
  <1>1. /\ <<x>> \in Seq(S) /\ <<y>> \in Seq(S) /\ <<x, y>> \in Seq(S) /\ <<y, z>> \in Seq(S)
    BY Tuples
  <1>2. \A p \in Seq(S) : p \o <<>> = p /\ <<>> \o p = p
    BY ConcatEmptySeq
  <1>3. <<x>> \o <<y>> = <<x, y>> /\ <<y>> \o <<z>> = <<y, z>> /\ <<x, y>> \o <<z>> = <<x, y, z>>
    <2>1. Append(<<x>>, y) = <<x>> \o <<y>>
      BY <1>1, AppendIsConcat
    <2>2. Append(<<y>>, z) = <<y>> \o <<z>>
      BY <1>1, AppendIsConcat
    <2>3. Append(<<x, y>>, z) = <<x, y>> \o <<z>>
      BY <1>1, AppendIsConcat
    <2>4. Append(<<x>>, y) = <<x, y>> /\ Append(<<y>>, z) = <<y, z>>
          /\ Append(<<x, y>>, z) = <<x, y, z>>
      BY AppendTuples
    <2> QED
      BY <2>1, <2>2, <2>3, <2>4, Zenon
  <1>4. <<>> \o <<y>> = <<y>> /\ <<>> \o <<x>> = <<x>> /\ <<y>> \o <<>> = <<y>>
        /\ <<x, y>> \o <<>> = <<x, y>>
    BY <1>1, <1>2, Zenon
  <1>5. <<x, y>> \o <<x>> = <<x, y, x>>
    <2>1. Append(<<x, y>>, x) = <<x, y>> \o <<x>>
      BY <1>1, AppendIsConcat
    <2>2. Append(<<x, y>>, x) = <<x, y, x>>
      BY AppendTuples
    <2> QED
      BY <2>1, <2>2, Zenon
  <1> QED
    BY <1>3, <1>4, <1>5, Zenon

LEMMA JoinThree ==
    ASSUME NEW S, NEW x \in S, NEW y \in S, NEW z \in S
    PROVE  /\ <<x, y>> \o <<z>> = Three(x, y, z)
           /\ Three(x, y, z) \in Seq(S) /\ Len(Three(x, y, z)) = 3
           /\ Three(x, y, z)[1] = x /\ Three(x, y, z)[2] = y /\ Three(x, y, z)[3] = z
  <1>1. <<x, y>> \in Seq(S)
    BY Tuples
  <1>2. Append(<<x, y>>, z) = <<x, y>> \o <<z>>
    BY <1>1, AppendIsConcat
  <1>3. Append(<<x, y>>, z) = <<x, y, z>>
    BY AppendTuples
  <1>4. <<x, y>> \o <<z>> = Three(x, y, z)
    BY <1>2, <1>3, Zenon DEF Three
  <1> QED
    BY <1>4 DEF Three

LEMMA JsonPost ==
    ASSUME NEW s, InBuffer(s)
    PROVE  LET t == ndpi_serialize_json_post(s)
           IN  /\ Keeps(s, 1, s.used, t)
               /\ t.flags = s.flags \cup {"COMMA"}
               /\ IsClosed(t) /\ s.used <= Body(t)
               /\ "EOR" \notin s.flags => Body(t) = s.used /\ BracketsRight(t)
  <1> DEFINE fl == s.flags
             list == "LIST" \in fl
             array == "ARRAY" \in fl
             x == <<"]">>
             y == <<"}">>
             cells == (IF list THEN <<x>> ELSE <<>>) \o <<y>> \o (IF array THEN <<x>> ELSE <<>>)
             p == Put(s, cells)
             t == Raise(p, "COMMA")
  <1>1. x \in Cell /\ y \in Cell /\ s.used \in Nat
    BY JsonCells DEF InBuffer, Serializers
  <1>2. t = ndpi_serialize_json_post(s)
    BY DEF ndpi_serialize_json_post, Has
  <1> HIDE DEF x, y
  <1>3. /\ cells \in Seq(Cell)
        /\ Len(cells) = 1 + (IF array THEN 1 ELSE 0) + (IF list THEN 1 ELSE 0)
        /\ list => cells[1] = x /\ cells[2] = y
        /\ ~list => cells[1] = y
        /\ array => cells[Len(cells)] = x
    <2>1. CASE list /\ array
      <3>1. cells = <<x, y, x>>
        <4>1. cells = <<x>> \o <<y>> \o <<x>>
          BY <2>1
        <4> HIDE DEF cells
        <4>2. <<x>> \o <<y>> \o <<x>> = <<x, y, x>>
          BY <1>1, Joins
        <4> QED
          BY <4>1, <4>2, Zenon
      <3> HIDE DEF cells
      <3> QED
        BY <1>1, <2>1, <3>1, Tuples
    <2>2. CASE list /\ ~array
      <3>1. cells = <<x, y>>
        BY <1>1, <2>2, Joins
      <3> HIDE DEF cells
      <3> QED
        BY <1>1, <2>2, <3>1, Tuples
    <2>3. CASE ~list /\ array
      <3>1. cells = <<y, x>>
        BY <1>1, <2>3, Joins
      <3> HIDE DEF cells
      <3> QED
        BY <1>1, <2>3, <3>1, Tuples
    <2>4. CASE ~list /\ ~array
      <3>1. cells = <<y>>
        BY <1>1, <2>4, Joins
      <3> HIDE DEF cells
      <3> QED
        BY <1>1, <2>4, <3>1, Tuples
    <2> QED
      BY <2>1, <2>2, <2>3, <2>4
  <1> HIDE DEF cells
  <1>4. /\ Keeps(s, 1, s.used, p) /\ p.flags = s.flags /\ p.used = s.used + Len(cells)
        /\ \A i \in 1 .. Len(cells) : p.data[s.used + i] = cells[i]
    BY <1>3, PutKeeps
  <1> HIDE DEF p
  <1>5. "COMMA" \in Flags
    BY DEF Flags
  <1>6. /\ Keeps(s, 1, s.used, t) /\ t.flags = fl \cup {"COMMA"} /\ t.used = p.used
        /\ t.data = p.data
    <2> DEFINE c == "COMMA"
               u == s.used
    <2>1. c \in Flags /\ Keeps(s, 1, u, p)
      BY <1>4, <1>5
    <2> HIDE DEF c, u
    <2>2. /\ Keeps(s, 1, u, Raise(p, c)) /\ Raise(p, c).flags = p.flags \cup {c}
          /\ Raise(p, c).used = p.used /\ Raise(p, c).data = p.data
      BY <2>1, KeepsFlag
    <2> QED
      BY <2>2, <1>4 DEF c, u
  <1> HIDE DEF t
  <1>7. /\ "EOR" \in t.flags <=> "EOR" \in fl
        /\ ("LIST" \in t.flags <=> list) /\ ("ARRAY" \in t.flags <=> array)
    BY <1>6
  <1>8. Closing(t.flags) <= Len(cells) /\ ("EOR" \notin fl => Closing(t.flags) = Len(cells))
        /\ Closing(t.flags) \in 1 .. 3
    BY <1>3, <1>7 DEF Closing
  <1>9. Len(cells) \in 1 .. 3 /\ t.used = s.used + Len(cells)
    BY <1>3, <1>4, <1>6
  <1>10. IsClosed(t) /\ s.used <= Body(t) /\ ("EOR" \notin fl => Body(t) = s.used)
    BY <1>1, <1>6, <1>8, <1>9 DEF IsClosed, Body, Keeps
  <1>11. ASSUME "EOR" \notin fl
         PROVE  BracketsRight(t)
    <2>1. list => t.data[s.used + 1] = x /\ t.data[s.used + 2] = y
      BY <1>3, <1>4, <1>6
    <2>2. ~list => t.data[s.used + 1] = y
      BY <1>3, <1>4, <1>6
    <2>3. array => t.data[t.used] = x
      BY <1>3, <1>4, <1>6, <1>9
    <2> QED
      BY <1>7, <1>10, <1>11, <2>1, <2>2, <2>3 DEF BracketsRight, x, y
  <1> QED
    BY <1>2, <1>6, <1>10, <1>11

\* Closing what was written onto a reopened document.
LEMMA JsonFinish ==
    ASSUME NEW s, IsClosed(s), NEW p, Keeps(s, 1, Body(s), p)
    PROVE  LET t == ndpi_serialize_json_post(p)
           IN  /\ Keeps(s, 1, Body(s), t)
               /\ t.flags = p.flags \cup {"COMMA"}
               /\ IsClosed(t) /\ Body(s) <= Body(t)
               /\ "EOR" \notin p.flags /\ 1 <= p.used =>
                    /\ Body(t) = p.used /\ BracketsRight(t)
                    /\ \A start : ReadTo(start, t.data, Body(t)) = End(start, p)
  <1> DEFINE b == Body(s)
             u == p.used
             t == ndpi_serialize_json_post(p)
  <1>1. InBuffer(p) /\ u \in Nat /\ b \in Nat /\ b <= u /\ 1 \in Nat /\ 1 <= 1
    BY ClosingFacts DEF Keeps, InBuffer, Serializers
  <1>2. /\ Keeps(p, 1, p.used, t) /\ t.flags = p.flags \cup {"COMMA"}
        /\ IsClosed(t) /\ p.used <= Body(t)
        /\ "EOR" \notin p.flags => Body(t) = p.used /\ BracketsRight(t)
    BY <1>1, JsonPost
  <1>3. Keeps(p, 1, u, t) /\ Keeps(s, 1, b, p)
    BY <1>2
  <1> HIDE DEF t, u, b
  <1>4. Keeps(s, 1, b, t)
    BY <1>1, <1>3, KeepsTrans
  <1>5. ASSUME "EOR" \notin p.flags, 1 <= u, NEW start
        PROVE  ReadTo(start, t.data, Body(t)) = End(start, p)
    <2>1. Keeps(p, 2, u, t)
      BY <1>1, <1>3, KeepsPart
    <2>2. u <= p.used
      BY <1>1 DEF u
    <2>3. ReadTo(start, t.data, u) = ReadTo(start, p.data, u)
      BY <1>1, <1>5, <2>1, <2>2, ReadKept
    <2> QED
      BY <1>2, <1>5, <2>3 DEF End, u
  <1>6. Body(t) \in Nat
    BY <1>2, ClosingFacts
  <1>7. b <= Body(t)
    BY <1>1, <1>2, <1>6 DEF u
  <1> QED
    BY <1>2, <1>4, <1>5, <1>7 DEF t, u, b

\* Where a document may stand: alone, or as the first element of an array.
InArray == Within(<<"[">>, "value or ]")

Bases == {JsonStart, InArray}

LEMMA BaseFacts ==
    ASSUME NEW base \in Bases
    PROVE  /\ base.stack \in Seq(Bracket)
           /\ base = Within(base.stack, base.next) /\ base.next \in {"value", "value or ]"}
  <1>1. CASE base = JsonStart
    <2>1. base.stack = <<>> /\ base.next = "value" /\ base = [stack |-> <<>>, next |-> "value"]
      BY <1>1 DEF JsonStart
    <2>2. <<>> \in Seq(Bracket)
      OBVIOUS
    <2> QED
      BY <2>1, <2>2 DEF Within
  <1>2. CASE base = InArray
    <2>1. base.stack = <<"[">> /\ base.next = "value or ]"
          /\ base = [stack |-> <<"[">>, next |-> "value or ]"]
      BY <1>2 DEF InArray, Within
    <2>2. "[" \in Bracket
      BY DEF Bracket
    <2>3. <<"[">> \in Seq(Bracket)
      BY <2>2, Tuples
    <2> QED
      BY <2>1, <2>3 DEF Within
  <1> QED
    BY <1>1, <1>2 DEF Bases

\* k blocks deep in the record of a document.
Deep(base, k) == Rows(base.stack, "{", k)

LEMMA DeepFacts ==
    ASSUME NEW base \in Bases, NEW k \in Nat
    PROVE  /\ Deep(base, k) \in Seq(Bracket) /\ Deep(base, k + 1) \in Seq(Bracket)
           /\ Deep(base, 0) = base.stack
           /\ Append(Deep(base, k), "{") = Deep(base, k + 1)
           /\ Deep(base, k + 1) # <<>> /\ Last(Deep(base, k + 1)) = "{"
           /\ Front(Deep(base, k + 1)) = Deep(base, k)
           /\ Append(Deep(base, k + 1), "[") \in Seq(Bracket)
           /\ Append(Deep(base, k + 1), "[") # <<>> /\ Last(Append(Deep(base, k + 1), "[")) = "["
           /\ Front(Append(Deep(base, k + 1), "[")) = Deep(base, k + 1)
  <1> DEFINE q == base.stack
             x == "{"
             y == "["
             p == Rows(q, x, k)
             n == Rows(q, x, k + 1)
  <1>1. q \in Seq(Bracket) /\ x \in Bracket /\ y \in Bracket
    BY BaseFacts DEF Bracket
  <1> HIDE DEF q, x, y
  <1>2. p \in Seq(Bracket) /\ Rows(q, x, 0) = q /\ n = Append(p, x)
    BY <1>1, RowsFacts
  <1> HIDE DEF p, n
  <1>3. Front(Append(p, x)) = p /\ Last(Append(p, x)) = x /\ Append(p, x) # <<>>
        /\ Append(p, x) \in Seq(Bracket)
    BY <1>1, <1>2, FrontLast
  <1>4. n \in Seq(Bracket)
    BY <1>2, <1>3
  <1>5. Front(Append(n, y)) = n /\ Last(Append(n, y)) = y /\ Append(n, y) # <<>>
        /\ Append(n, y) \in Seq(Bracket)
    BY <1>1, <1>4, FrontLast
  <1>6. Deep(base, k) = p /\ Deep(base, k + 1) = n /\ Deep(base, 0) = Rows(q, x, 0)
    BY DEF Deep, p, n, q, x
  <1> QED
    BY <1>2, <1>3, <1>4, <1>5, <1>6 DEF q, x, y

\* The reader's state before the closing brackets, k blocks deep.
Inside(fl, base, k) ==
    CASE "EOR" \in fl -> Within(base.stack, "after")
      [] "EOR" \notin fl /\ "LIST" \in fl ->
           Within(Append(Deep(base, k + 1), "["), IF "SOL" \in fl THEN "value or ]" ELSE "after")
      [] OTHER ->
           Within(Deep(base, k + 1),
                  IF "SOB" \in fl \/ "COMMA" \notin fl THEN "key or }" ELSE "after")

\* The flags agree with each other and with the caller's open blocks.
FlagsRight(fl, k) ==
    /\ "EOR" \in fl => "ARRAY" \in fl
    /\ "ARRAY" \in fl => k = 0
    /\ "SOB" \in fl => k > 0
    /\ "SOL" \in fl => "LIST" \in fl
    /\ "LIST" \in fl => "COMMA" \in fl /\ "SOB" \notin fl /\ "EOR" \notin fl

\* A JSON document in order, in which k blocks are open: what is before its
\* brackets can be read, and goes on where the flags say.
GoodJson(s, k) ==
    /\ IsClosed(s) /\ 1 <= Body(s) /\ BracketsRight(s) /\ FlagsRight(s.flags, k)
    /\ s.data[1] = IF "ARRAY" \in s.flags THEN <<"[">> ELSE <<" ">>
    /\ \A base \in Bases :
         "ARRAY" \notin s.flags \/ base = InArray =>
           ReadTo(base, s.data, Body(s)) = Inside(s.flags, base, k)

LEMMA Comma ==
    ASSUME NEW q \in Seq(Bracket)
    PROVE  /\ JsonStep(Within(q, "after"), <<",">>)
                = Within(q, IF Last(q) = "{" THEN "key" ELSE "value")
           /\ \A n \in {"value", "value or ]"} :
                JsonStep(Within(q, n), <<"{">>) = Within(Append(q, "{"), "key or }")
  <1> DEFINE x == <<",">>
             y == <<"{">>
  <1>1. x[1] = "," /\ y[1] = "{"
    OBVIOUS
  <1> HIDE DEF x, y
  <1>2. JsonStep(Within(q, "after"), x) = Within(q, IF Last(q) = "{" THEN "key" ELSE "value")
    BY <1>1, JsonStepFacts
  <1>3. \A n \in {"value", "value or ]"} :
          JsonStep(Within(q, n), y) = Within(Append(q, "{"), "key or }")
    BY <1>1, JsonStepFacts
  <1> QED
    BY <1>2, <1>3 DEF x, y

\* A reopened document waits for an item.
LEMMA PreWaits ==
    ASSUME NEW fl, NEW k \in Nat, FlagsRight(fl, k), NEW base \in Bases,
           "ARRAY" \notin fl \/ base = InArray
    PROVE  /\ "LIST" \in fl => PreStep(fl, Inside(fl, base, k))
                \in {Within(Append(Deep(base, k + 1), "["), n) : n \in {"value", "value or ]"}}
           /\ "LIST" \notin fl => PreStep(fl, Inside(fl, base, k))
                \in {Within(Deep(base, k + 1), n) : n \in {"key", "key or }"}}
  <1> DEFINE d == Deep(base, k + 1)
             e == Append(d, "[")
             q == base.stack
  <1>1. /\ d \in Seq(Bracket) /\ Last(d) = "{" /\ e \in Seq(Bracket) /\ Last(e) = "["
        /\ Deep(base, 0) = q /\ Append(Deep(base, k), "{") = d /\ q \in Seq(Bracket)
    BY DeepFacts, BaseFacts
  <1> HIDE DEF d, e
  <1>2. CASE "EOR" \in fl
    <2>1. "ARRAY" \in fl /\ k = 0 /\ "LIST" \notin fl /\ base = InArray
      BY <1>2 DEF FlagsRight
    <2>2. q = <<"[">>
      BY <2>1 DEF InArray, Within
    <2>3. Last(q) = "["
      BY <2>2 DEF Last
    <2>4. d = Append(q, "{")
      BY <1>1, <2>1
    <2> HIDE DEF q
    <2>5. JsonStep(Within(q, "after"), <<",">>) = Within(q, "value")
      BY <1>1, <2>3, Comma
    <2>6. JsonStep(Within(q, "value"), <<"{">>) = Within(Append(q, "{"), "key or }")
      BY <1>1, Comma
    <2>7. PreStep(fl, Inside(fl, base, k)) = Within(d, "key or }")
      BY <1>2, <2>4, <2>5, <2>6 DEF PreStep, Inside, q
    <2> QED
      BY <2>1, <2>7 DEF d
  <1>3. CASE "EOR" \notin fl /\ "LIST" \in fl
    <2>1. Inside(fl, base, k) = Within(e, IF "SOL" \in fl THEN "value or ]" ELSE "after")
      BY <1>3 DEF Inside, d, e
    <2>2. JsonStep(Within(e, "after"), <<",">>) = Within(e, "value")
      BY <1>1, Comma
    <2>3. PreStep(fl, Inside(fl, base, k)) = Within(e, IF "SOL" \in fl THEN "value or ]" ELSE "value")
      BY <1>3, <2>1, <2>2 DEF PreStep
    <2> QED
      BY <1>3, <2>3 DEF d, e
  <1>4. CASE "EOR" \notin fl /\ "LIST" \notin fl
    <2>1. Inside(fl, base, k)
            = Within(d, IF "SOB" \in fl \/ "COMMA" \notin fl THEN "key or }" ELSE "after")
      BY <1>4 DEF Inside, d
    <2>2. JsonStep(Within(d, "after"), <<",">>) = Within(d, "key")
      BY <1>1, Comma
    <2>3. PreStep(fl, Inside(fl, base, k))
            = Within(d, IF "SOB" \in fl \/ "COMMA" \notin fl THEN "key or }" ELSE "key")
      BY <1>4, <2>1, <2>2 DEF PreStep
    <2> QED
      BY <1>4, <2>3 DEF d
  <1> QED
    BY <1>2, <1>3, <1>4

\* The flags of a reopened document.
PreFlags(fl) ==
    fl \ (IF "EOR" \in fl THEN {"EOR"} ELSE IF "LIST" \in fl THEN {"SOL"} ELSE {"SOB"})

\* What every call on a document leaves as it was: what is before the
\* brackets.
JsonResult(s, t) == IsClosed(t) /\ Keeps(s, 1, Body(s), t) /\ Body(s) <= Body(t)

LEMMA PutOnto ==
    ASSUME NEW s, IsClosed(s), NEW cells \in Seq(Cell), 1 <= Len(cells)
    PROVE  LET p == Put(ndpi_serialize_json_pre(s), cells)
           IN  /\ Keeps(s, 1, Body(s), p) /\ p.flags = PreFlags(s.flags)
               /\ "EOR" \notin p.flags /\ 1 <= p.used
  <1> DEFINE b == Body(s)
             o == ndpi_serialize_json_pre(s)
             p == Put(o, cells)
  <1>1. Keeps(s, 1, b, o) /\ o.flags = PreFlags(s.flags)
    BY JsonPre DEF PreFlags
  <1>2. b \in Nat /\ 1 \in Nat /\ 1 <= 1 /\ InBuffer(o) /\ o.used \in Nat
    BY <1>1, ClosingFacts DEF Keeps, InBuffer, Serializers
  <1> HIDE DEF b, o
  <1>3. Keeps(s, 1, b, p)
    BY <1>1, <1>2, KeepsPut, Zenon
  <1>4. p.flags = o.flags /\ p.used = o.used + Len(cells)
    BY <1>2, PutKeeps
  <1> HIDE DEF p
  <1>5. "EOR" \notin p.flags
    BY <1>1, <1>4 DEF PreFlags
  <1>6. 1 <= p.used
    BY <1>2, <1>4
  <1> QED
    BY <1>1, <1>3, <1>4, <1>5, <1>6 DEF p, o, b

\* The reader where the next item goes.
LEMMA PreReads ==
    ASSUME NEW s, NEW k \in Nat, GoodJson(s, k), NEW base \in Bases,
           "ARRAY" \notin s.flags \/ base = InArray
    PROVE  LET o == ndpi_serialize_json_pre(s)
           IN  /\ InBuffer(o) /\ 1 <= o.used
               /\ "LIST" \in s.flags => End(base, o)
                    \in {Within(Append(Deep(base, k + 1), "["), n) : n \in {"value", "value or ]"}}
               /\ "LIST" \notin s.flags => End(base, o)
                    \in {Within(Deep(base, k + 1), n) : n \in {"key", "key or }"}}
  <1> DEFINE o == ndpi_serialize_json_pre(s)
             fl == s.flags
  <1>1. IsClosed(s) /\ 1 <= Body(s) /\ FlagsRight(fl, k)
        /\ ReadTo(base, s.data, Body(s)) = Inside(fl, base, k)
    BY DEF GoodJson
  <1>2. Keeps(s, 1, Body(s), o) /\ End(base, o) = PreStep(fl, ReadTo(base, s.data, Body(s)))
    BY <1>1, JsonPre
  <1>3. InBuffer(o) /\ 1 <= o.used
    <2>1. Body(s) \in Nat /\ o.used \in Nat /\ Body(s) <= o.used
      BY <1>1, <1>2, ClosingFacts DEF Keeps, InBuffer, Serializers
    <2> QED
      BY <1>1, <1>2, <2>1 DEF Keeps
  <1> HIDE DEF o, fl
  <1>4. End(base, o) = PreStep(fl, Inside(fl, base, k))
    BY <1>1, <1>2
  <1>5. "ARRAY" \notin fl \/ base = InArray
    BY DEF fl
  <1>6. /\ "LIST" \in fl => PreStep(fl, Inside(fl, base, k))
                \in {Within(Append(Deep(base, k + 1), "["), n) : n \in {"value", "value or ]"}}
        /\ "LIST" \notin fl => PreStep(fl, Inside(fl, base, k))
                \in {Within(Deep(base, k + 1), n) : n \in {"key", "key or }"}}
    BY <1>1, <1>5, PreWaits
  <1> QED
    BY <1>3, <1>4, <1>6, Zenon DEF o, fl

\* A key and what comes after it.
LEMMA NamedReads ==
    ASSUME NEW s, NEW k \in Nat, GoodJson(s, k), NEW base \in Bases,
           "ARRAY" \notin s.flags \/ base = InArray, "LIST" \notin s.flags,
           NEW key \in Texts, NEW z \in Cell
    PROVE  End(base, Put(ndpi_serialize_json_pre(s), <<<<"key", key>>, <<":">>, z>>))
             = JsonStep(Within(Deep(base, k + 1), "value"), z)
  <1> DEFINE o == ndpi_serialize_json_pre(s)
             x == <<"key", key>>
             y == <<":">>
             d == Deep(base, k + 1)
  <1>1. x \in Cell /\ x[1] = "key" /\ y \in Cell /\ y[1] = ":"
    BY ValueCells, JsonCells
  <1>2. InBuffer(o) /\ 1 <= o.used /\ End(base, o) \in {Within(d, n) : n \in {"key", "key or }"}}
    BY PreReads
  <1>3. d \in Seq(Bracket)
    BY DeepFacts
  <1> HIDE DEF o, x, y, d
  <1>5. End(base, Put(o, Three(x, y, z))) = JsonStep(JsonStep(JsonStep(End(base, o), x), y), z)
    <2>1. x \in Cell /\ y \in Cell
      BY <1>1
    <2>2. InBuffer(o) /\ 1 <= o.used
      BY <1>2
    <2> QED
      BY <2>1, <2>2, ThreeRead
  <1>4. PICK n \in {"key", "key or }"} : End(base, o) = Within(d, n)
    BY <1>2
  <1>6. JsonStep(Within(d, n), x) = Within(d, ":")
    BY <1>1, <1>3, JsonStepFacts
  <1>7. JsonStep(Within(d, ":"), y) = Within(d, "value")
    BY <1>1, <1>3, JsonStepFacts
  <1>8. End(base, Put(o, Three(x, y, z))) = JsonStep(Within(d, "value"), z)
    BY <1>4, <1>5, <1>6, <1>7
  <1> QED
    BY <1>8 DEF o, x, y, d, Three

\* An item of a document: its key and its value, or its value in a list.
LEMMA JsonItem ==
    ASSUME NEW s, IsClosed(s), NEW key \in Texts, NEW text \in ValueCell
    PROVE  LET pre  == ndpi_serialize_json_pre(s)
               name == IF Has(pre, "LIST") THEN <<>> ELSE <<<<"key", key>>, <<":">>>>
               t    == ndpi_serialize_json_post(Put(pre, name \o <<text>>))
           IN  /\ JsonResult(s, t) /\ t.flags = PreFlags(s.flags) \cup {"COMMA"}
               /\ \A k \in Nat : GoodJson(s, k) => GoodJson(t, k)
  <1> DEFINE o == ndpi_serialize_json_pre(s)
             x == <<"key", key>>
             y == <<":">>
             list == "LIST" \in s.flags
             name == IF Has(o, "LIST") THEN <<>> ELSE <<x, y>>
             cells == IF list THEN <<text>> ELSE <<x, y, text>>
             p == Put(o, cells)
             t == ndpi_serialize_json_post(p)
             fl == s.flags
  <1>1. x \in Cell /\ y \in Cell /\ text \in Cell /\ text[1] \in Value
    BY ValueCells, JsonCells DEF ValueCell
  <1>2. o.flags = PreFlags(fl)
    BY JsonPre DEF PreFlags
  <1>3. "LIST" \in o.flags <=> list
    BY <1>2 DEF PreFlags
  <1>4. name \o <<text>> = cells
    <2> HIDE DEF x, y
    <2>1. <<>> \o <<text>> = <<text>> /\ <<x, y>> \o <<text>> = <<x, y, text>>
      <3>1. x \in Cell /\ y \in Cell /\ text \in Cell
        BY <1>1
      <3>2. <<>> \o <<text>> = <<text>>
        BY <3>1, Joins
      <3>3. <<x, y>> \o <<text>> = <<x, y, text>>
        <4>1. <<x, y>> \o <<text>> = Three(x, y, text)
          BY <3>1, JoinThree
        <4> QED
          BY <4>1, Zenon DEF Three
      <3> QED
        BY <3>2, <3>3, Zenon
    <2> QED
      BY <1>3, <2>1, Zenon DEF Has
  <1>5. cells \in Seq(Cell) /\ 1 <= Len(cells)
    <2> HIDE DEF x, y
    <2>1. <<text>> \in Seq(Cell) /\ <<x, y, text>> \in Seq(Cell)
      BY <1>1, Tuples
    <2>2. Len(<<text>>) = 1 /\ Len(<<x, y, text>>) = 3
      BY <1>1, Tuples
    <2> QED
      BY <2>1, <2>2
  <1>6. /\ Keeps(s, 1, Body(s), p) /\ p.flags = PreFlags(fl) /\ "EOR" \notin p.flags
        /\ 1 <= p.used
    <2> HIDE DEF cells
    <2> QED
      BY <1>5, PutOnto
  <1>7. /\ Keeps(s, 1, Body(s), t) /\ t.flags = p.flags \cup {"COMMA"}
        /\ IsClosed(t) /\ Body(s) <= Body(t)
        /\ Body(t) = p.used /\ BracketsRight(t)
        /\ \A start : ReadTo(start, t.data, Body(t)) = End(start, p)
    <2> HIDE DEF p
    <2> QED
      BY <1>6, JsonFinish
  <1>8. ASSUME NEW k \in Nat, GoodJson(s, k)
        PROVE  GoodJson(t, k)
    <2>0. s.data[1] = IF "ARRAY" \in fl THEN <<"[">> ELSE <<" ">>
      BY <1>8 DEF GoodJson
    <2>1. FlagsRight(fl, k) /\ 1 <= Body(s)
      BY <1>8 DEF GoodJson
    <2>2. FlagsRight(t.flags, k)
      BY <1>6, <1>7, <2>1 DEF FlagsRight, PreFlags
    <2>3. t.data[1] = IF "ARRAY" \in t.flags THEN <<"[">> ELSE <<" ">>
      <3>1. t.data[1] = s.data[1]
        <4>1. Body(s) \in Nat /\ 1 \in 1 .. Body(s)
          <5>1. Body(s) \in Nat
            BY ClosingFacts
          <5> QED
            BY <2>1, <5>1
        <4> QED
          BY <1>7, <4>1 DEF Keeps
      <3>2. "ARRAY" \in t.flags <=> "ARRAY" \in fl
        BY <1>6, <1>7 DEF PreFlags
      <3> QED
        BY <2>0, <3>1, <3>2, Zenon
    <2>4. 1 <= Body(t)
      BY <1>6, <1>7
    <2>5. ASSUME NEW base \in Bases, "ARRAY" \notin t.flags \/ base = InArray
          PROVE  ReadTo(base, t.data, Body(t)) = Inside(t.flags, base, k)
      <3> DEFINE d == Deep(base, k + 1)
                 e == Append(d, "[")
      <3>1. "ARRAY" \notin s.flags \/ base = InArray
        BY <1>6, <1>7, <2>5 DEF PreFlags
      <3>2. d \in Seq(Bracket) /\ e \in Seq(Bracket) /\ d # <<>> /\ e # <<>>
        BY DeepFacts
      <3>3. CASE list
        <4>1. InBuffer(o) /\ 1 <= o.used
              /\ End(base, o) \in {Within(e, n) : n \in {"value", "value or ]"}}
          BY <1>8, <3>1, <3>3, PreReads
        <4> HIDE DEF o, d, e
        <4>2. PICK n \in {"value", "value or ]"} : End(base, o) = Within(e, n)
          BY <4>1
        <4>3. End(base, Put(o, <<text>>)) = JsonStep(End(base, o), text)
          BY <1>1, <4>1, OneRead
        <4>4. JsonStep(Within(e, n), text) = After(e)
          BY <1>1, <3>2, JsonStepFacts
        <4>5. p = Put(o, <<text>>)
          BY <3>3
        <4>6. End(base, p) = Within(e, "after")
          <5> HIDE DEF p
          <5> QED
            BY <3>2, <4>2, <4>3, <4>4, <4>5 DEF After, Within
        <4>7. Inside(t.flags, base, k) = Within(e, "after")
          <5>1. "EOR" \notin t.flags /\ "LIST" \in t.flags /\ "SOL" \notin t.flags
            BY <1>6, <1>7, <2>1, <3>3 DEF PreFlags, FlagsRight
          <5> QED
            BY <5>1 DEF Inside, d, e
        <4> QED
          BY <1>7, <4>6, <4>7
      <3>4. CASE ~list
        <4>1. p = Put(o, <<x, y, text>>)
          BY <3>4
        <4>2. End(base, Put(o, <<x, y, text>>)) = JsonStep(Within(d, "value"), text)
          BY <1>1, <1>8, <3>1, <3>4, NamedReads
        <4> HIDE DEF d
        <4>3. JsonStep(Within(d, "value"), text) = After(d)
          BY <1>1, <3>2, JsonStepFacts
        <4>4. End(base, p) = Within(d, "after")
          <5> HIDE DEF p
          <5> QED
            BY <3>2, <4>1, <4>2, <4>3 DEF After, Within
        <4>5. Inside(t.flags, base, k) = Within(d, "after")
          <5>1. /\ "EOR" \notin t.flags /\ "LIST" \notin t.flags /\ "SOB" \notin t.flags
                /\ "COMMA" \in t.flags
            <6>1. "EOR" \in fl => "SOB" \notin fl
              BY <2>1 DEF FlagsRight
            <6> QED
              BY <1>6, <1>7, <3>4, <6>1 DEF PreFlags
          <5> QED
            BY <5>1 DEF Inside, d
        <4> QED
          BY <1>7, <4>4, <4>5
      <3> QED
        BY <3>3, <3>4
    <2> QED
      BY <1>7, <2>2, <2>3, <2>4, <2>5 DEF GoodJson
  <1>9. JsonResult(s, t) /\ t.flags = PreFlags(fl) \cup {"COMMA"}
    BY <1>6, <1>7 DEF JsonResult
  <1> QED
    BY <1>4, <1>8, <1>9, Zenon

\* The first closing bracket closes the list, or the innermost block.
LEMMA CloseOne ==
    ASSUME NEW s, NEW k \in Nat, GoodJson(s, k), "EOR" \notin s.flags, NEW base \in Bases,
           "ARRAY" \notin s.flags \/ base = InArray
    PROVE  /\ "LIST" \in s.flags =>
                ReadTo(base, s.data, Body(s) + 1) = Within(Deep(base, k + 1), "after")
           /\ "LIST" \notin s.flags =>
                ReadTo(base, s.data, Body(s) + 1) = After(Deep(base, k))
  <1> DEFINE d == Deep(base, k + 1)
             e == Append(d, "[")
             c == Deep(base, k)
             data == s.data
             m == Body(s) + 1
             st == ReadTo(base, data, m - 1)
             x == data[m]
  <1>1. IsClosed(s) /\ 1 <= Body(s)
    BY DEF GoodJson
  <1>2. data \in Seq(Cell) /\ m \in 2 .. Len(data) /\ m - 1 = Body(s)
    <2>1. Body(s) \in Nat /\ Body(s) < s.used /\ InBuffer(s) /\ s.used \in Nat
      BY <1>1, ClosingFacts
    <2>2. data \in Seq(Cell) /\ s.used <= Len(data) /\ Len(data) \in Nat
      BY <2>1 DEF InBuffer, Serializers
    <2> QED
      BY <1>1, <2>1, <2>2
  <1>3. st = Inside(s.flags, base, k)
    <2>1. ReadTo(base, data, Body(s)) = Inside(s.flags, base, k)
      BY DEF GoodJson
    <2> QED
      BY <1>2, <2>1
  <1>4. ReadTo(base, data, m) = JsonStep(st, x)
    <2> HIDE DEF data, m
    <2> QED
      BY <1>2, ReadToNext
  <1>5. /\ d \in Seq(Bracket) /\ e \in Seq(Bracket) /\ c \in Seq(Bracket)
        /\ Last(d) = "{" /\ Front(d) = c /\ Last(e) = "[" /\ Front(e) = d /\ d # <<>>
    BY DeepFacts
  <1>6. "LIST" \in s.flags => x = <<"]">>
    BY DEF GoodJson, BracketsRight
  <1>7. "LIST" \notin s.flags => x = <<"}">>
    BY DEF GoodJson, BracketsRight
  <1>8. CASE "LIST" \in s.flags
    <2>1. st \in {Within(e, n) : n \in {"value or ]", "after"}}
      BY <1>3, <1>8 DEF Inside
    <2>2. x[1] = "]"
      BY <1>6, <1>8
    <2> HIDE DEF d, e, c, x, st
    <2>3. PICK n \in {"value or ]", "after"} : st = Within(e, n)
      BY <2>1
    <2>4. JsonStep(Within(e, n), x) = After(d)
      BY <1>5, <2>2, JsonStepFacts
    <2>5. After(d) = Within(d, "after")
      BY <1>5 DEF After, Within
    <2> QED
      BY <1>4, <1>8, <2>3, <2>4, <2>5 DEF d, m, data
  <1>9. CASE "LIST" \notin s.flags
    <2>1. st \in {Within(d, n) : n \in {"key or }", "after"}}
      BY <1>3, <1>9 DEF Inside
    <2>2. x[1] = "}"
      <3>1. x = <<"}">>
        BY <1>7, <1>9
      <3> HIDE DEF x
      <3> QED
        BY <3>1
    <2> HIDE DEF d, e, c, x, st
    <2>3. PICK n \in {"key or }", "after"} : st = Within(d, n)
      BY <2>1
    <2>4. JsonStep(Within(d, n), x) = After(c)
      BY <1>5, <2>2, JsonStepFacts
    <2> QED
      BY <1>4, <1>9, <2>3, <2>4 DEF c, m, data
  <1> QED
    BY <1>8, <1>9

\* The first cell of a document stays.
LEMMA FirstKept ==
    ASSUME NEW s, NEW t, NEW k, GoodJson(s, k), Keeps(s, 1, Body(s), t),
           "ARRAY" \in t.flags <=> "ARRAY" \in s.flags
    PROVE  t.data[1] = IF "ARRAY" \in t.flags THEN <<"[">> ELSE <<" ">>
  <1>1. IsClosed(s) /\ 1 <= Body(s)
    BY DEF GoodJson
  <1>2. Body(s) \in Nat
    BY <1>1, ClosingFacts
  <1>3. 1 \in 1 .. Body(s)
    BY <1>1, <1>2
  <1>4. t.data[1] = s.data[1]
    BY <1>3 DEF Keeps
  <1>5. s.data[1] = IF "ARRAY" \in s.flags THEN <<"[">> ELSE <<" ">>
    BY DEF GoodJson
  <1> QED
    BY <1>4, <1>5, Zenon

LEMMA JsonEndOfList ==
    ASSUME NEW s, IsClosed(s)
    PROVE  LET t == Clear(Clear(s, "SOL"), "LIST")
           IN  /\ JsonResult(s, t) /\ t.flags = s.flags \ {"SOL", "LIST"}
               /\ \A k \in Nat : GoodJson(s, k) /\ "LIST" \in s.flags => GoodJson(t, k)
  <1> DEFINE b == Body(s)
             c == Clear(s, "SOL")
             t == Clear(c, "LIST")
             fl == s.flags
  <1>1. /\ t \in Serializers /\ t.flags = fl \ {"SOL", "LIST"} /\ t.fmt = s.fmt /\ t.used = s.used
        /\ t.hused = s.hused /\ t.header = s.header /\ t.snapshot = s.snapshot /\ t.data = s.data
    <2> DEFINE x == "SOL"
               y == "LIST"
    <2>1. x \in Flags /\ y \in Flags /\ s \in Serializers
      BY ClosingFacts DEF Flags
    <2> HIDE DEF x, y
    <2>2. /\ Clear(s, x) \in Serializers /\ Clear(s, x) = [s EXCEPT !.flags = s.flags \ {x}]
      BY <2>1, FlagFacts
    <2>3. Clear(Clear(s, x), y) = [Clear(s, x) EXCEPT !.flags = Clear(s, x).flags \ {y}]
          /\ Clear(Clear(s, x), y) \in Serializers
      BY <2>1, <2>2, FlagFacts
    <2>4. t = [s EXCEPT !.flags = (s.flags \ {x}) \ {y}] /\ t \in Serializers
      BY <2>1, <2>2, <2>3 DEF Serializers, x, y
    <2>5. t.flags = (fl \ {x}) \ {y}
      BY <2>1, <2>4 DEF Serializers
    <2> HIDE DEF t
    <2>6. t.flags = fl \ {"SOL", "LIST"}
      BY <2>5 DEF x, y
    <2> QED
      BY <2>1, <2>4, <2>6 DEF Serializers
  <1> HIDE DEF t
  <1>2. Closing(t.flags) <= Closing(fl) /\ Closing(t.flags) \in 1 .. 3 /\ Closing(fl) \in 1 .. 3
        /\ ("EOR" \notin fl /\ "LIST" \in fl => Closing(fl) = Closing(t.flags) + 1)
    BY <1>1 DEF Closing
  <1>3. s.used \in Nat /\ InBuffer(s) /\ b \in Nat /\ Closing(fl) <= s.used /\ b < s.used
    BY ClosingFacts DEF IsClosed
  <1>4. IsClosed(t) /\ b <= Body(t) /\ Keeps(s, 1, b, t)
    <2>1. InBuffer(t)
      BY <1>1, <1>3 DEF InBuffer
    <2> QED
      BY <1>1, <1>2, <1>3, <2>1 DEF IsClosed, Body, Keeps
  <1>5. ASSUME NEW k \in Nat, GoodJson(s, k), "LIST" \in s.flags
        PROVE  GoodJson(t, k)
    <2>1. FlagsRight(fl, k) /\ 1 <= b /\ BracketsRight(s)
      BY <1>5 DEF GoodJson
    <2>2. "EOR" \notin fl
      BY <2>1, <1>5 DEF FlagsRight
    <2>3. Body(t) = b + 1
      BY <1>1, <1>2, <1>3, <1>5, <2>2 DEF Body
    <2>4. FlagsRight(t.flags, k)
      BY <1>1, <1>5, <2>1 DEF FlagsRight
    <2>5. t.data[1] = IF "ARRAY" \in t.flags THEN <<"[">> ELSE <<" ">>
      BY <1>1, <1>4, <1>5, FirstKept
    <2>6. BracketsRight(t)
      <3>1. s.data[b + 2] = <<"}">>
        BY <1>5, <2>1, <2>2 DEF BracketsRight
      <3>2. "ARRAY" \in fl => s.data[s.used] = <<"]">>
        BY <2>1, <2>2 DEF BracketsRight
      <3>3. Body(t) + 1 = b + 2
        BY <1>3, <2>3
      <3>4. "EOR" \notin t.flags /\ "LIST" \notin t.flags /\ ("ARRAY" \in t.flags <=> "ARRAY" \in fl)
        BY <1>1, <2>2
      <3> QED
        BY <1>1, <3>1, <3>2, <3>3, <3>4, Zenon DEF BracketsRight
    <2>7. ASSUME NEW base \in Bases, "ARRAY" \notin t.flags \/ base = InArray
          PROVE  ReadTo(base, t.data, Body(t)) = Inside(t.flags, base, k)
      <3>1. "ARRAY" \notin s.flags \/ base = InArray
        BY <1>1, <2>7
      <3>2. ReadTo(base, s.data, b + 1) = Within(Deep(base, k + 1), "after")
        BY <1>5, <2>2, <3>1, CloseOne
      <3>3. "EOR" \notin t.flags /\ "LIST" \notin t.flags /\ "SOB" \notin t.flags /\ "COMMA" \in t.flags
        BY <1>1, <1>5, <2>1, <2>2 DEF FlagsRight
      <3>4. Inside(t.flags, base, k) = Within(Deep(base, k + 1), "after")
        BY <3>3 DEF Inside
      <3> QED
        BY <1>1, <2>3, <3>2, <3>4
    <2>8. 1 <= Body(t)
      BY <1>3, <2>3
    <2> QED
      BY <1>4, <2>4, <2>5, <2>6, <2>7, <2>8 DEF GoodJson
  <1> QED
    BY <1>1, <1>4, <1>5 DEF JsonResult, t

LEMMA JsonStartOfList ==
    ASSUME NEW s, IsClosed(s), NEW key \in Texts
    PROVE  LET begun == Put(ndpi_serialize_json_pre(s), <<<<"key", key>>, <<":">>, <<"[">>>>)
               t == ndpi_serialize_json_post(Raise(Raise(begun, "LIST"), "SOL"))
           IN  /\ JsonResult(s, t) /\ t.flags = PreFlags(s.flags) \cup {"LIST", "SOL", "COMMA"}
               /\ \A k \in Nat : GoodJson(s, k) /\ "LIST" \notin s.flags => GoodJson(t, k)
  <1> DEFINE o == ndpi_serialize_json_pre(s)
             x == <<"key", key>>
             y == <<":">>
             z == <<"[">>
             cells == <<x, y, z>>
             begun == Put(o, cells)
             r == Raise(begun, "LIST")
             p == Raise(r, "SOL")
             t == ndpi_serialize_json_post(p)
             fl == s.flags
             b == Body(s)
  <1>1. x \in Cell /\ y \in Cell /\ z \in Cell
    BY ValueCells, JsonCells
  <1>2. cells \in Seq(Cell) /\ 1 <= Len(cells)
    <2> HIDE DEF x, y, z
    <2>1. cells \in Seq(Cell) /\ Len(cells) = 3
      BY <1>1, Tuples
    <2> QED
      BY <2>1
  <1>3. /\ Keeps(s, 1, b, begun) /\ begun.flags = PreFlags(fl) /\ "EOR" \notin begun.flags
        /\ 1 <= begun.used
    <2> HIDE DEF cells
    <2> QED
      BY <1>2, PutOnto
  <1>4. /\ Keeps(s, 1, b, p) /\ p.flags = PreFlags(fl) \cup {"LIST", "SOL"}
        /\ p.used = begun.used /\ p.data = begun.data
    <2> DEFINE v == "LIST"
               w == "SOL"
    <2>1. v \in Flags /\ w \in Flags
      BY DEF Flags
    <2> HIDE DEF v, w, begun, b
    <2>2. /\ Keeps(s, 1, b, Raise(begun, v)) /\ Raise(begun, v).flags = begun.flags \cup {v}
          /\ Raise(begun, v).used = begun.used /\ Raise(begun, v).data = begun.data
      <3>1. Keeps(s, 1, b, begun)
        BY <1>3
      <3>2. v \in Flags
        BY <2>1
      <3> QED
        BY <3>1, <3>2, KeepsFlag
    <2> DEFINE q == Raise(begun, v)
    <2> HIDE DEF q
    <2>3. /\ Keeps(s, 1, b, Raise(q, w)) /\ Raise(q, w).flags = q.flags \cup {w}
          /\ Raise(q, w).used = q.used /\ Raise(q, w).data = q.data
      <3>1. Keeps(s, 1, b, q)
        BY <2>2 DEF q
      <3>2. w \in Flags
        BY <2>1
      <3> QED
        BY <3>1, <3>2, KeepsFlag
    <2>4. p = Raise(q, w)
      BY DEF q, v, w
    <2> HIDE DEF p
    <2>5. p.flags = (PreFlags(fl) \cup {v}) \cup {w}
      BY <1>3, <2>2, <2>3, <2>4 DEF q
    <2>6. p.flags = PreFlags(fl) \cup {"LIST", "SOL"}
      BY <2>5 DEF v, w
    <2> QED
      BY <2>2, <2>3, <2>4, <2>6 DEF q
  <1>5. "EOR" \notin p.flags /\ 1 <= p.used
    BY <1>3, <1>4
  <1>6. /\ Keeps(s, 1, Body(s), t) /\ t.flags = p.flags \cup {"COMMA"}
        /\ IsClosed(t) /\ Body(s) <= Body(t)
        /\ Body(t) = p.used /\ BracketsRight(t)
        /\ \A start : ReadTo(start, t.data, Body(t)) = End(start, p)
    <2> HIDE DEF p
    <2> QED
      BY <1>4, <1>5, JsonFinish
  <1> HIDE DEF p, t
  <1>7. t.flags = PreFlags(fl) \cup {"LIST", "SOL", "COMMA"}
    BY <1>4, <1>6
  <1>8. ASSUME NEW k \in Nat, GoodJson(s, k), "LIST" \notin s.flags
        PROVE  GoodJson(t, k)
    <2>1. FlagsRight(fl, k) /\ 1 <= Body(s)
      BY <1>8 DEF GoodJson
    <2>2. FlagsRight(t.flags, k)
      BY <1>7, <2>1 DEF FlagsRight, PreFlags
    <2>3. "ARRAY" \in t.flags <=> "ARRAY" \in s.flags
      BY <1>7 DEF PreFlags
    <2>4. t.data[1] = IF "ARRAY" \in t.flags THEN <<"[">> ELSE <<" ">>
      BY <1>6, <1>8, <2>3, FirstKept
    <2>5. ASSUME NEW base \in Bases, "ARRAY" \notin t.flags \/ base = InArray
          PROVE  ReadTo(base, t.data, Body(t)) = Inside(t.flags, base, k)
      <3> DEFINE d == Deep(base, k + 1)
      <3>1. "ARRAY" \notin s.flags \/ base = InArray
        BY <2>3, <2>5
      <3>2. d \in Seq(Bracket)
        BY DeepFacts
      <3>3. End(base, begun) = JsonStep(Within(d, "value"), z)
        BY <1>1, <1>8, <3>1, NamedReads
      <3>4. End(base, p) = End(base, begun)
        BY <1>4 DEF End
      <3>5. z[1] = "["
        OBVIOUS
      <3> HIDE DEF z, d, begun
      <3>6. JsonStep(Within(d, "value"), z) = Within(Append(d, "["), "value or ]")
        BY <3>2, <3>5, JsonStepFacts
      <3>7. "EOR" \notin t.flags /\ "LIST" \in t.flags /\ "SOL" \in t.flags
        BY <1>7 DEF PreFlags
      <3>8. Inside(t.flags, base, k) = Within(Append(d, "["), "value or ]")
        BY <3>7 DEF Inside, d
      <3> QED
        BY <1>6, <3>3, <3>4, <3>6, <3>8
    <2>6. 1 <= Body(t)
      BY <1>5, <1>6
    <2> QED
      BY <1>6, <2>2, <2>4, <2>5, <2>6 DEF GoodJson
  <1>9. JsonResult(s, t)
    BY <1>6 DEF JsonResult
  <1> QED
    BY <1>7, <1>8, <1>9, Zenon DEF t, p

LEMMA JsonStartOfBlock ==
    ASSUME NEW s, IsClosed(s), NEW key \in Texts
    PROVE  LET begun == Put(ndpi_serialize_json_pre(s), <<<<"key", key>>, <<":">>, <<"{">>>>)
               t == Raise(ndpi_serialize_json_post(begun), "SOB")
           IN  /\ JsonResult(s, t) /\ t.flags = PreFlags(s.flags) \cup {"SOB", "COMMA"}
               /\ \A k \in Nat : GoodJson(s, k) /\ "LIST" \notin s.flags /\ "ARRAY" \notin s.flags
                    => GoodJson(t, k + 1)
  <1> DEFINE o == ndpi_serialize_json_pre(s)
             x == <<"key", key>>
             y == <<":">>
             z == <<"{">>
             cells == <<x, y, z>>
             begun == Put(o, cells)
             q == ndpi_serialize_json_post(begun)
             t == Raise(q, "SOB")
             fl == s.flags
             b == Body(s)
  <1>1. x \in Cell /\ y \in Cell /\ z \in Cell
    BY ValueCells, JsonCells
  <1>2. cells \in Seq(Cell) /\ 1 <= Len(cells)
    <2> HIDE DEF x, y, z
    <2>1. cells \in Seq(Cell) /\ Len(cells) = 3
      BY <1>1, Tuples
    <2> QED
      BY <2>1
  <1>3. /\ Keeps(s, 1, b, begun) /\ begun.flags = PreFlags(fl) /\ "EOR" \notin begun.flags
        /\ 1 <= begun.used
    <2> HIDE DEF cells
    <2> QED
      BY <1>2, PutOnto
  <1>4. /\ Keeps(s, 1, b, q) /\ q.flags = begun.flags \cup {"COMMA"}
        /\ IsClosed(q) /\ b <= Body(q)
        /\ Body(q) = begun.used /\ BracketsRight(q)
        /\ \A start : ReadTo(start, q.data, Body(q)) = End(start, begun)
    <2> HIDE DEF begun
    <2> QED
      BY <1>3, JsonFinish
  <1>5. Keeps(s, 1, b, t) /\ t.flags = q.flags \cup {"SOB"} /\ t.used = q.used /\ t.data = q.data
    <2> DEFINE v == "SOB"
    <2>1. v \in Flags
      BY DEF Flags
    <2> HIDE DEF v, q, b
    <2>2. /\ Keeps(s, 1, b, Raise(q, v)) /\ Raise(q, v).flags = q.flags \cup {v}
          /\ Raise(q, v).used = q.used /\ Raise(q, v).data = q.data
      <3>1. Keeps(s, 1, b, q)
        BY <1>4
      <3> QED
        BY <2>1, <3>1, KeepsFlag
    <2> QED
      BY <2>2 DEF v
  <1> HIDE DEF q, t
  <1>6. t.flags = PreFlags(fl) \cup {"SOB", "COMMA"} /\ Closing(t.flags) = Closing(q.flags)
    BY <1>3, <1>4, <1>5 DEF Closing
  <1>7. IsClosed(t) /\ Body(t) = Body(q)
    BY <1>4, <1>5, <1>6 DEF IsClosed, Body, Keeps
  <1>8. BracketsRight(t)
    <2>1. /\ ("EOR" \in t.flags <=> "EOR" \in q.flags) /\ ("LIST" \in t.flags <=> "LIST" \in q.flags)
          /\ ("ARRAY" \in t.flags <=> "ARRAY" \in q.flags)
      BY <1>5
    <2> QED
      BY <1>4, <1>5, <1>7, <2>1, Zenon DEF BracketsRight
  <1>9. ASSUME NEW k \in Nat, GoodJson(s, k), "LIST" \notin s.flags, "ARRAY" \notin s.flags
        PROVE  GoodJson(t, k + 1)
    <2>1. FlagsRight(fl, k) /\ 1 <= Body(s)
      BY <1>9 DEF GoodJson
    <2>2. FlagsRight(t.flags, k + 1)
      BY <1>6, <1>9, <2>1 DEF FlagsRight, PreFlags
    <2>3. "ARRAY" \in t.flags <=> "ARRAY" \in s.flags
      BY <1>6 DEF PreFlags
    <2>4. t.data[1] = IF "ARRAY" \in t.flags THEN <<"[">> ELSE <<" ">>
      BY <1>5, <1>9, <2>3, FirstKept
    <2>5. ASSUME NEW base \in Bases, "ARRAY" \notin t.flags \/ base = InArray
          PROVE  ReadTo(base, t.data, Body(t)) = Inside(t.flags, base, k + 1)
      <3> DEFINE d == Deep(base, k + 1)
                 e == Deep(base, (k + 1) + 1)
      <3>1. "ARRAY" \notin s.flags \/ base = InArray
        BY <2>3, <2>5
      <3>2. d \in Seq(Bracket)
        BY DeepFacts
      <3>3. Append(d, "{") = e
        <4> DEFINE m == k + 1
        <4>1. m \in Nat
          OBVIOUS
        <4> HIDE DEF m
        <4>2. Append(Deep(base, m), "{") = Deep(base, m + 1)
          BY <4>1, DeepFacts
        <4> QED
          BY <4>2 DEF m
      <3>4. End(base, begun) = JsonStep(Within(d, "value"), z)
        BY <1>1, <1>9, <3>1, NamedReads
      <3>5. z[1] = "{"
        OBVIOUS
      <3> HIDE DEF z, d, e, begun
      <3>6. JsonStep(Within(d, "value"), z) = Within(Append(d, "{"), "key or }")
        BY <3>2, <3>5, JsonStepFacts
      <3>7. "EOR" \notin t.flags /\ "LIST" \notin t.flags /\ "SOB" \in t.flags
        BY <1>6, <1>9 DEF PreFlags
      <3>8. Inside(t.flags, base, k + 1) = Within(e, "key or }")
        BY <3>7 DEF Inside, e
      <3> QED
        BY <1>4, <1>5, <1>7, <3>3, <3>4, <3>6, <3>8
    <2>6. 1 <= Body(t)
      BY <1>3, <1>4, <1>7
    <2> QED
      BY <1>7, <1>8, <2>2, <2>4, <2>5, <2>6 DEF GoodJson
  <1>10. JsonResult(s, t)
    BY <1>4, <1>5, <1>7 DEF JsonResult
  <1> QED
    BY <1>6, <1>9, <1>10, Zenon DEF t, q

LEMMA JsonEndOfBlock ==
    ASSUME NEW s, IsClosed(s)
    PROVE  LET t == ndpi_serialize_json_post(Clear(s, "SOB"))
           IN  /\ JsonResult(s, t) /\ t.flags = (s.flags \ {"SOB"}) \cup {"COMMA"}
               /\ \A k \in Nat : GoodJson(s, k + 1) /\ "LIST" \notin s.flags => GoodJson(t, k)
  <1> DEFINE p == Clear(s, "SOB")
             t == ndpi_serialize_json_post(p)
             fl == s.flags
             b == Body(s)
  <1>1. InBuffer(s) /\ b \in Nat /\ b <= s.used /\ s.used \in Nat
    BY ClosingFacts
  <1>2. Keeps(s, 1, b, p) /\ p.flags = fl \ {"SOB"} /\ p.used = s.used /\ p.data = s.data
    <2> DEFINE v == "SOB"
    <2>1. v \in Flags
      BY DEF Flags
    <2>2. Keeps(s, 1, b, s)
      BY <1>1 DEF Keeps
    <2> HIDE DEF v, b
    <2>3. /\ Keeps(s, 1, b, Clear(s, v)) /\ Clear(s, v).flags = s.flags \ {v}
          /\ Clear(s, v).used = s.used /\ Clear(s, v).data = s.data
      BY <2>1, <2>2, KeepsFlag
    <2> QED
      BY <2>3 DEF v
  <1> HIDE DEF p
  <1>3. /\ Keeps(s, 1, b, t) /\ t.flags = p.flags \cup {"COMMA"}
        /\ IsClosed(t) /\ b <= Body(t)
        /\ "EOR" \notin p.flags /\ 1 <= p.used =>
             /\ Body(t) = p.used /\ BracketsRight(t)
             /\ \A start : ReadTo(start, t.data, Body(t)) = End(start, p)
    BY <1>2, JsonFinish
  <1> HIDE DEF t
  <1>4. t.flags = (fl \ {"SOB"}) \cup {"COMMA"}
    BY <1>2, <1>3
  <1>5. ASSUME NEW k \in Nat, GoodJson(s, k + 1), "LIST" \notin s.flags
        PROVE  GoodJson(t, k)
    <2>1. FlagsRight(fl, k + 1) /\ 1 <= b
      BY <1>5 DEF GoodJson
    <2>2. "EOR" \notin fl /\ "ARRAY" \notin fl
      BY <2>1 DEF FlagsRight
    <2>3. "EOR" \notin p.flags
      BY <1>2, <2>2
    <2>4. 1 <= p.used
      BY <1>1, <1>2, <2>1
    <2>5. Body(t) = s.used /\ BracketsRight(t) /\ \A start : ReadTo(start, t.data, Body(t)) = End(start, p)
      BY <1>2, <1>3, <2>3, <2>4
    <2>6. s.used = b + 1
      <3>1. Closing(fl) = 1
        BY <1>5, <2>2 DEF Closing
      <3> QED
        BY <1>1, <3>1 DEF Body
    <2>7. FlagsRight(t.flags, k)
      BY <1>4, <1>5, <2>1, <2>2 DEF FlagsRight
    <2>8. t.data[1] = IF "ARRAY" \in t.flags THEN <<"[">> ELSE <<" ">>
      <3>1. "ARRAY" \in t.flags <=> "ARRAY" \in s.flags
        BY <1>4
      <3> QED
        BY <1>3, <1>5, <3>1, FirstKept
    <2>9. ASSUME NEW base \in Bases
          PROVE  ReadTo(base, t.data, Body(t)) = Inside(t.flags, base, k)
      <3> DEFINE m == k + 1
                 d == Deep(base, k + 1)
      <3>1. m \in Nat /\ GoodJson(s, m)
        BY <1>5
      <3> HIDE DEF m
      <3>2. ReadTo(base, s.data, b + 1) = After(Deep(base, m))
        BY <1>5, <2>2, <3>1, CloseOne
      <3>3. ReadTo(base, t.data, Body(t)) = After(d)
        BY <1>2, <2>5, <2>6, <3>2 DEF End, m
      <3>4. d # <<>>
        BY DeepFacts
      <3>5. /\ "EOR" \notin t.flags /\ "LIST" \notin t.flags /\ "SOB" \notin t.flags
            /\ "COMMA" \in t.flags
        BY <1>4, <1>5, <2>2
      <3>6. Inside(t.flags, base, k) = Within(d, "after")
        BY <3>5 DEF Inside
      <3> HIDE DEF d
      <3> QED
        BY <3>3, <3>4, <3>6 DEF After, Within
    <2>10. 1 <= Body(t)
      BY <1>1, <2>1, <2>5
    <2> QED
      BY <1>3, <2>5, <2>7, <2>8, <2>9, <2>10 DEF GoodJson
  <1> QED
    BY <1>3, <1>4, <1>5 DEF JsonResult, t, p

\* A document whose last record has ended.
LEMMA EndedFacts ==
    ASSUME NEW a, InBuffer(a), 1 <= a.used
    PROVE  LET t == Clear(Clear(Raise(Raise(a, "ARRAY"), "EOR"), "COMMA"), "NOT_EMPTY")
           IN  /\ t.flags = (a.flags \cup {"ARRAY", "EOR"}) \ {"COMMA", "NOT_EMPTY"}
               /\ Keeps(a, 1, a.used, t) /\ t.used = a.used /\ t.data = a.data
               /\ IsClosed(t) /\ Body(t) = a.used - 1
  <1> DEFINE v == "ARRAY"
             w == "EOR"
             x == "COMMA"
             y == "NOT_EMPTY"
             t1 == Raise(a, v)
             t2 == Raise(t1, w)
             t3 == Clear(t2, x)
             t == Clear(t3, y)
             u == a.used
  <1>1. v \in Flags
    BY DEF Flags
  <1>2. w \in Flags
    BY DEF Flags
  <1>3. x \in Flags
    BY DEF Flags
  <1>4. y \in Flags
    BY DEF Flags
  <1>5. Keeps(a, 1, u, a) /\ u \in Nat
    BY DEF Keeps, InBuffer, Serializers
  <1> HIDE DEF v, w, x, y, u
  <1>6. Keeps(a, 1, u, a)
    BY <1>5
  <1>7. Keeps(a, 1, u, t1) /\ t1.flags = a.flags \cup {v} /\ t1.used = a.used /\ t1.data = a.data
    BY <1>1, <1>6, KeepsFlag
  <1> HIDE DEF t1
  <1>8. Keeps(a, 1, u, t1)
    BY <1>7
  <1>9. Keeps(a, 1, u, t2) /\ t2.flags = t1.flags \cup {w} /\ t2.used = t1.used /\ t2.data = t1.data
    BY <1>2, <1>8, KeepsFlag
  <1> HIDE DEF t2
  <1>10. Keeps(a, 1, u, t2)
    BY <1>9
  <1>11. Keeps(a, 1, u, t3) /\ t3.flags = t2.flags \ {x} /\ t3.used = t2.used /\ t3.data = t2.data
    BY <1>3, <1>10, KeepsFlag
  <1> HIDE DEF t3
  <1>12. Keeps(a, 1, u, t3)
    BY <1>11
  <1>13. Keeps(a, 1, u, t) /\ t.flags = t3.flags \ {y} /\ t.used = t3.used /\ t.data = t3.data
    BY <1>4, <1>12, KeepsFlag
  <1> HIDE DEF t
  <1>14. t.flags = (((a.flags \cup {v}) \cup {w}) \ {x}) \ {y}
    BY <1>7, <1>9, <1>11, <1>13
  <1>15. t.flags = (a.flags \cup {"ARRAY", "EOR"}) \ {"COMMA", "NOT_EMPTY"}
    BY <1>14 DEF v, w, x, y
  <1>16. Closing(t.flags) = 1
    BY <1>15 DEF Closing
  <1>17. t.used = a.used /\ t.data = a.data
    BY <1>7, <1>9, <1>11, <1>13
  <1>18. IsClosed(t) /\ Body(t) = a.used - 1
    BY <1>5, <1>13, <1>16, <1>17 DEF IsClosed, Body, Keeps, u
  <1> QED
    BY <1>13, <1>15, <1>17, <1>18 DEF t, t3, t2, t1, v, w, x, y, u

\* The bracket an array begins with goes in front of the first record.
LEMMA ArrayFacts ==
    ASSUME NEW s, InBuffer(s), 1 <= s.used
    PROVE  LET a == Put(Poke(s, 1, <<"[">>), <<<<"]">>>>)
           IN  /\ Keeps(s, 2, s.used, a) /\ a.flags = s.flags /\ a.used = s.used + 1
               /\ a.data[1] = <<"[">> /\ a.data[a.used] = <<"]">>
  <1> DEFINE x == <<"[">>
             y == <<"]">>
             one == 1
             p == Poke(s, one, x)
             c == <<y>>
             a == Put(p, c)
             u == s.used
  <1>1. x \in Cell /\ y \in Cell
    BY JsonCells
  <1>2. InBuffer(s) /\ u \in Nat /\ 1 <= u
    BY DEF InBuffer, Serializers
  <1>3. Keeps(s, 2, u, s) /\ one \notin 2 .. u /\ 2 \in Nat /\ 1 <= 2
    BY <1>2 DEF Keeps
  <1>4. c \in Seq(Cell) /\ Len(c) = 1 /\ c[1] = y
    <2> HIDE DEF y
    <2> QED
      BY <1>1, Tuples
  <1> HIDE DEF x, y, c, u
  <1>5. one \in Nat /\ 1 <= one /\ one <= s.used
    BY <1>2 DEF u
  <1>6. /\ Keeps(s, 2, u, p) /\ p.flags = s.flags /\ p.used = s.used /\ p.data[one] = x
    <2> DEFINE two == 2
    <2>1. x \in Cell
      BY <1>1
    <2>2. Keeps(s, two, u, s) /\ one \notin two .. u
      BY <1>3
    <2>3. two \in Nat /\ 1 <= two /\ u \in Nat
      BY <1>2
    <2>4. one \in 1 .. s.used
      BY <1>2, <1>5 DEF u
    <2> HIDE DEF one, two
    <2>5. Keeps(s, two, u, p)
      BY <2>1, <2>2, <2>3, <1>5, KeepsPoke
    <2>6. s \in Serializers /\ one \in 1 .. Len(s.data)
      BY <1>2, <2>4 DEF InBuffer, Serializers
    <2>7. p.flags = s.flags /\ p.used = s.used /\ p.data[one] = x
      BY <2>1, <2>6, PokeFacts
    <2> QED
      BY <2>5, <2>7 DEF two
  <1> HIDE DEF p
  <1>7. InBuffer(p)
    BY <1>6 DEF Keeps
  <1>8. Keeps(s, 2, u, a)
    BY <1>2, <1>3, <1>4, <1>6, KeepsPut
  <1>9. /\ Keeps(p, 1, p.used, a) /\ a.flags = p.flags /\ a.used = p.used + Len(c)
        /\ \A i \in 1 .. Len(c) : a.data[p.used + i] = c[i]
    BY <1>4, <1>7, PutKeeps
  <1> HIDE DEF a
  <1>10. a.used = s.used + 1 /\ a.data[a.used] = y
    BY <1>4, <1>6, <1>9
  <1>11. a.data[1] = x
    <2>1. 1 \in 1 .. p.used
      BY <1>2, <1>6 DEF u
    <2> QED
      BY <1>6, <1>9, <2>1 DEF Keeps
  <1> QED
    BY <1>6, <1>8, <1>9, <1>10, <1>11 DEF a, p, c, x, y, u

\* The end of a record, as ndpi_serialize_end_of_record leaves the document.
EndJson(s) ==
    LET array == IF Has(s, "ARRAY") THEN s ELSE Put(Poke(s, 1, <<"[">>), <<<<"]">>>>)
    IN  Clear(Clear(Raise(Raise(array, "ARRAY"), "EOR"), "COMMA"), "NOT_EMPTY")

LEMMA EndJsonFacts ==
    ASSUME NEW s, InBuffer(s), 1 <= s.used
    PROVE  LET t == EndJson(s)
           IN  /\ t.flags = (s.flags \cup {"ARRAY", "EOR"}) \ {"COMMA", "NOT_EMPTY"}
               /\ Keeps(s, 2, s.used, t) /\ IsClosed(t) /\ Body(t) = t.used - 1
               /\ "ARRAY" \in s.flags => t.used = s.used /\ t.data = s.data
               /\ "ARRAY" \notin s.flags => /\ t.used = s.used + 1
                                            /\ t.data[1] = <<"[">> /\ t.data[t.used] = <<"]">>
  <1> DEFINE a == IF "ARRAY" \in s.flags THEN s ELSE Put(Poke(s, 1, <<"[">>), <<<<"]">>>>)
             t == EndJson(s)
             u == s.used
  <1>1. u \in Nat /\ Keeps(s, 2, u, s)
    BY DEF Keeps, InBuffer, Serializers
  <1>2. /\ Keeps(s, 2, u, a) /\ a.flags = s.flags
        /\ "ARRAY" \in s.flags => a = s
        /\ "ARRAY" \notin s.flags => /\ a.used = s.used + 1
                                     /\ a.data[1] = <<"[">> /\ a.data[a.used] = <<"]">>
    <2>1. CASE "ARRAY" \in s.flags
      BY <1>1, <2>1
    <2>2. CASE "ARRAY" \notin s.flags
      <3> DEFINE n == Put(Poke(s, 1, <<"[">>), <<<<"]">>>>)
      <3>1. /\ Keeps(s, 2, s.used, n) /\ n.flags = s.flags /\ n.used = s.used + 1
            /\ n.data[1] = <<"[">> /\ n.data[n.used] = <<"]">>
        BY ArrayFacts
      <3>2. a = n
        BY <2>2
      <3> HIDE DEF a, n
      <3> QED
        BY <2>2, <3>1, <3>2, Zenon
    <2> QED
      BY <2>1, <2>2, Zenon
  <1> HIDE DEF a
  <1>3. InBuffer(a) /\ a.used \in Nat /\ u <= a.used
    BY <1>2 DEF Keeps, InBuffer, Serializers
  <1>4. 1 <= a.used
    BY <1>1, <1>3
  <1>5. t = Clear(Clear(Raise(Raise(a, "ARRAY"), "EOR"), "COMMA"), "NOT_EMPTY")
    BY DEF EndJson, Has, a
  <1> HIDE DEF t
  <1>6. /\ t.flags = (a.flags \cup {"ARRAY", "EOR"}) \ {"COMMA", "NOT_EMPTY"}
        /\ Keeps(a, 1, a.used, t) /\ t.used = a.used /\ t.data = a.data
        /\ IsClosed(t) /\ Body(t) = a.used - 1
    BY <1>3, <1>4, <1>5, EndedFacts
  <1>7. Keeps(s, 2, u, t)
    <2> DEFINE v == a.used
    <2>1. v \in Nat /\ Keeps(a, 1, v, t) /\ u <= v
      BY <1>3, <1>6
    <2>2. Keeps(s, 2, u, a) /\ u \in Nat
      BY <1>1, <1>2
    <2> HIDE DEF v, u
    <2> QED
      BY <2>1, <2>2, KeepsTrans
  <1>8. "ARRAY" \in s.flags => t.used = s.used /\ t.data = s.data
    BY <1>2, <1>6, Zenon
  <1>9. "ARRAY" \notin s.flags => t.used = s.used + 1
    BY <1>2, <1>6
  <1>10. "ARRAY" \notin s.flags => t.data[1] = <<"[">> /\ t.data[t.used] = <<"]">>
    BY <1>2, <1>6, Zenon
  <1>11. t.flags = (s.flags \cup {"ARRAY", "EOR"}) \ {"COMMA", "NOT_EMPTY"}
    BY <1>2, <1>6
  <1> QED
    BY <1>6, <1>7, <1>8, <1>9, <1>10, <1>11 DEF t, u

\* What every call but a raw record leaves of a document: what is before the
\* brackets, but for the first cell, which an array changes.
JsonKeeps(s, t) ==
    /\ IsClosed(t) /\ Keeps(s, 2, Body(s), t) /\ Body(s) <= Body(t)
    /\ "ARRAY" \in s.flags => "ARRAY" \in t.flags
    /\ "ARRAY" \in s.flags /\ 1 <= Body(s) => t.data[1] = s.data[1]

LEMMA ResultKeeps ==
    ASSUME NEW s, NEW t, IsClosed(s), JsonResult(s, t),
           "ARRAY" \in s.flags => "ARRAY" \in t.flags
    PROVE  JsonKeeps(s, t)
  <1> DEFINE b == Body(s)
  <1>1. b \in Nat /\ Keeps(s, 1, b, t) /\ 1 \in Nat /\ 2 \in Nat /\ 1 <= 2 /\ b <= b
    BY ClosingFacts DEF JsonResult
  <1> HIDE DEF b
  <1>2. Keeps(s, 2, b, t)
    BY <1>1, KeepsPart
  <1>3. 1 <= b => t.data[1] = s.data[1]
    BY <1>1 DEF Keeps
  <1> QED
    BY <1>2, <1>3 DEF JsonKeeps, JsonResult, b

LEMMA JsonEndOfRecord ==
    ASSUME NEW s, IsClosed(s)
    PROVE  /\ JsonKeeps(s, EndJson(s))
           /\ GoodJson(s, 0) /\ "LIST" \notin s.flags => GoodJson(EndJson(s), 0)
  <1> DEFINE t == EndJson(s)
             fl == s.flags
             b == Body(s)
             u == s.used
  <1>1. InBuffer(s) /\ u \in Nat /\ b \in Nat /\ b < u /\ 1 <= u /\ Closing(fl) \in 1 .. 3
        /\ b + Closing(fl) = u
    BY ClosingFacts
  <1>2. /\ t.flags = (fl \cup {"ARRAY", "EOR"}) \ {"COMMA", "NOT_EMPTY"}
        /\ Keeps(s, 2, u, t) /\ IsClosed(t) /\ Body(t) = t.used - 1
        /\ "ARRAY" \in fl => t.used = s.used /\ t.data = s.data
        /\ "ARRAY" \notin fl => /\ t.used = s.used + 1
                                /\ t.data[1] = <<"[">> /\ t.data[t.used] = <<"]">>
    BY <1>1, EndJsonFacts
  <1> HIDE DEF t
  <1>3. "ARRAY" \in fl => t.used = s.used
    BY <1>2, Zenon
  <1>4. "ARRAY" \notin fl => t.used = s.used + 1
    BY <1>2, Zenon
  <1>5. JsonKeeps(s, t)
    <2>1. Keeps(s, 2, b, t)
      <3>1. Keeps(s, 2, u, t) /\ u \in Nat /\ b \in Nat /\ b <= u /\ 2 \in Nat /\ 2 <= 2
        BY <1>1, <1>2
      <3> HIDE DEF u, b
      <3> QED
        BY <3>1, KeepsPart
    <2>2. b <= Body(t)
      BY <1>1, <1>2, <1>3, <1>4
    <2>3. "ARRAY" \in t.flags
      BY <1>2
    <2>4. "ARRAY" \in fl => t.data[1] = s.data[1]
      BY <1>2, Zenon
    <2> QED
      BY <1>2, <2>1, <2>2, <2>3, <2>4, Zenon DEF JsonKeeps
  <1>6. ASSUME GoodJson(s, 0), "LIST" \notin s.flags
        PROVE  GoodJson(t, 0)
    <2>1. FlagsRight(fl, 0) /\ 1 <= b /\ BracketsRight(s)
      BY <1>6 DEF GoodJson
    <2>2. FlagsRight(t.flags, 0)
      BY <1>2, <1>6, <2>1 DEF FlagsRight
    <2>3. "ARRAY" \in t.flags /\ "EOR" \in t.flags
      BY <1>2
    <2>4. t.data[1] = <<"[">>
      <3>1. CASE "ARRAY" \in fl
        <4>1. t.data = s.data
          BY <1>2, <3>1, Zenon
        <4>2. s.data[1] = <<"[">>
          BY <1>6, <3>1, Zenon DEF GoodJson
        <4> QED
          BY <4>1, <4>2, Zenon
      <3>2. CASE "ARRAY" \notin fl
        BY <1>2, <3>2, Zenon
      <3> QED
        BY <3>1, <3>2
    <2>5. t.data[t.used] = <<"]">>
      <3>1. CASE "ARRAY" \in fl
        <4>1. t.data = s.data /\ t.used = s.used
          BY <1>2, <3>1, Zenon
        <4>2. s.data[s.used] = <<"]">>
          BY <2>1, <3>1, Zenon DEF BracketsRight
        <4> QED
          BY <4>1, <4>2, Zenon
      <3>2. CASE "ARRAY" \notin fl
        BY <1>2, <3>2, Zenon
      <3> QED
        BY <3>1, <3>2
    <2>6. BracketsRight(t)
      BY <2>3, <2>5, Zenon DEF BracketsRight
    <2> DEFINE q == InArray.stack
    <2>7. InArray \in Bases /\ q # <<>> /\ Deep(InArray, 0) = q
      <3>1. q = <<"[">>
        BY DEF InArray, Within
      <3>2. InArray \in Bases
        BY DEF Bases
      <3>3. Deep(InArray, 0) = q
        BY <3>2, DeepFacts
      <3> QED
        BY <3>1, <3>2, <3>3
    <2>8. Inside(t.flags, InArray, 0) = Within(q, "after")
      BY <2>3 DEF Inside
    <2>9. ReadTo(InArray, t.data, Body(t)) = Within(q, "after")
      <3>1. CASE "EOR" \in fl
        <4>1. "ARRAY" \in fl
          BY <2>1, <3>1 DEF FlagsRight
        <4>2. t.data = s.data /\ Body(t) = b
          <5>1. Closing(fl) = 1
            BY <3>1 DEF Closing
          <5>2. t.data = s.data
            BY <1>2, <4>1, Zenon
          <5> QED
            BY <1>1, <1>2, <1>3, <4>1, <5>1, <5>2
        <4>3. ReadTo(InArray, s.data, b) = Inside(fl, InArray, 0)
          BY <1>6, <2>7 DEF GoodJson
        <4>4. Inside(fl, InArray, 0) = Within(q, "after")
          BY <3>1 DEF Inside
        <4> QED
          BY <4>2, <4>3, <4>4
      <3>2. CASE "EOR" \notin fl
        <4>1. ReadTo(InArray, s.data, b + 1) = After(Deep(InArray, 0))
          BY <1>6, <2>7, <3>2, CloseOne
        <4> HIDE DEF q
        <4>2. After(Deep(InArray, 0)) = Within(q, "after")
          BY <2>7 DEF After, Within
        <4>3. Body(t) = b + 1
          <5>1. "ARRAY" \in fl => Closing(fl) = 2
            BY <1>6, <3>2 DEF Closing
          <5>2. "ARRAY" \notin fl => Closing(fl) = 1
            BY <1>6, <3>2 DEF Closing
          <5> QED
            BY <1>1, <1>2, <1>3, <1>4, <5>1, <5>2
        <4>4. ReadTo(InArray, t.data, b + 1) = ReadTo(InArray, s.data, b + 1)
          <5> DEFINE m == b + 1
          <5>1. m \in Nat /\ 1 <= m /\ m <= s.used /\ m <= u /\ 2 \in Nat /\ 2 <= 2
            BY <1>1
          <5>2. Keeps(s, 2, u, t)
            BY <1>2
          <5> HIDE DEF m, u
          <5>3. Keeps(s, 2, m, t)
            BY <1>1, <5>1, <5>2, KeepsPart
          <5>4. ReadTo(InArray, t.data, m) = ReadTo(InArray, s.data, m)
            BY <1>1, <5>1, <5>3, ReadKept
          <5> QED
            BY <5>4 DEF m
        <4> QED
          BY <4>1, <4>2, <4>3, <4>4
      <3> QED
        BY <3>1, <3>2
    <2>10. ASSUME NEW base \in Bases, "ARRAY" \notin t.flags \/ base = InArray
           PROVE  ReadTo(base, t.data, Body(t)) = Inside(t.flags, base, 0)
      BY <2>3, <2>8, <2>9, <2>10
    <2>11. 1 <= Body(t)
      BY <1>1, <1>2, <1>3, <1>4, <2>1
    <2>12. t.data[1] = IF "ARRAY" \in t.flags THEN <<"[">> ELSE <<" ">>
      BY <2>3, <2>4, Zenon
    <2> QED
      BY <1>2, <2>2, <2>6, <2>10, <2>11, <2>12 DEF GoodJson
  <1> QED
    BY <1>5, <1>6 DEF t

\* Between two records the reader is in the array only.
LEMMA BetweenRecords ==
    ASSUME NEW s, GoodJson(s, 0), "LIST" \notin s.flags, "ARRAY" \in s.flags
    PROVE  ReadTo(InArray, s.data, s.used - 1) = Within(InArray.stack, "after")
  <1> DEFINE q == InArray.stack
             fl == s.flags
             b == Body(s)
  <1>1. InArray \in Bases /\ q # <<>> /\ Deep(InArray, 0) = q
    <2>1. q = <<"[">>
      BY DEF InArray, Within
    <2>2. InArray \in Bases
      BY DEF Bases
    <2>3. Deep(InArray, 0) = q
      BY <2>2, DeepFacts
    <2> QED
      BY <2>1, <2>2, <2>3
  <1>2. IsClosed(s)
    BY DEF GoodJson
  <1>3. s.used \in Nat /\ b \in Nat /\ b + Closing(fl) = s.used
    BY <1>2, ClosingFacts
  <1>4. CASE "EOR" \in fl
    <2>1. Closing(fl) = 1
      BY <1>4 DEF Closing
    <2>2. s.used - 1 = b
      BY <1>3, <2>1
    <2>3. ReadTo(InArray, s.data, b) = Inside(fl, InArray, 0)
      BY <1>1 DEF GoodJson
    <2>4. Inside(fl, InArray, 0) = Within(q, "after")
      BY <1>4 DEF Inside
    <2> QED
      BY <2>2, <2>3, <2>4
  <1>5. CASE "EOR" \notin fl
    <2>1. Closing(fl) = 2
      BY <1>5 DEF Closing
    <2>2. s.used - 1 = b + 1
      BY <1>3, <2>1
    <2>3. ReadTo(InArray, s.data, b + 1) = After(Deep(InArray, 0))
      BY <1>1, <1>5, CloseOne
    <2> HIDE DEF q
    <2>4. After(Deep(InArray, 0)) = Within(q, "after")
      BY <1>1 DEF After, Within
    <2> QED
      BY <2>2, <2>3, <2>4 DEF q
  <1> QED
    BY <1>4, <1>5

\* A document that ends with a record.
LEMMA EndsWithRecord ==
    ASSUME NEW t, IsClosed(t), 1 <= Body(t), "EOR" \in t.flags, "ARRAY" \in t.flags,
           "LIST" \notin t.flags, "SOB" \notin t.flags, "SOL" \notin t.flags,
           t.data[1] = <<"[">>, t.data[t.used] = <<"]">>,
           ReadTo(InArray, t.data, Body(t)) = Within(InArray.stack, "after")
    PROVE  GoodJson(t, 0)
  <1>1. FlagsRight(t.flags, 0)
    BY DEF FlagsRight
  <1>2. BracketsRight(t)
    BY Zenon DEF BracketsRight
  <1>3. Inside(t.flags, InArray, 0) = Within(InArray.stack, "after")
    BY DEF Inside
  <1>4. ASSUME NEW base \in Bases, "ARRAY" \notin t.flags \/ base = InArray
        PROVE  ReadTo(base, t.data, Body(t)) = Inside(t.flags, base, 0)
    BY <1>3, <1>4, Zenon
  <1>5. t.data[1] = IF "ARRAY" \in t.flags THEN <<"[">> ELSE <<" ">>
    BY Zenon
  <1> QED
    BY <1>1, <1>2, <1>4, <1>5 DEF GoodJson

\* A raw record after others: its comma goes over the bracket of the array.
LEMMA JsonRawAppend ==
    ASSUME NEW s, IsClosed(s), "ARRAY" \in s.flags, NEW x \in ValueCell
    PROVE  LET t == EndJson(Put(Poke(s, s.used, <<",">>), <<x>> \o <<<<"]">>>>))
           IN  /\ JsonKeeps(s, t)
               /\ t.flags = (s.flags \cup {"ARRAY", "EOR"}) \ {"COMMA", "NOT_EMPTY"}
               /\ GoodJson(s, 0) /\ "LIST" \notin s.flags => GoodJson(t, 0)
  <1> DEFINE comma == <<",">>
             y == <<"]">>
             c == <<x, y>>
             u == s.used
             b == Body(s)
             p == Poke(s, u, comma)
             q == Put(p, c)
             t == EndJson(q)
             one == 1
             v == u - 1
  <1>1. x \in Cell /\ comma \in Cell /\ y \in Cell
    <2>1. x \in Cell
      BY DEF ValueCell
    <2> QED
      BY <2>1, JsonCells
  <1>2. <<x>> \o <<y>> = c /\ c \in Seq(Cell) /\ Len(c) = 2 /\ c[1] = x /\ c[2] = y
    <2> HIDE DEF y
    <2>1. <<x>> \in Seq(Cell)
      BY <1>1, Tuples
    <2>2. Append(<<x>>, y) = <<x>> \o <<y>>
      BY <1>1, <2>1, AppendIsConcat
    <2>3. Append(<<x>>, y) = <<x, y>>
      BY <1>1, AppendTuples
    <2>4. <<x>> \o <<y>> = c
      BY <2>2, <2>3, Zenon
    <2> QED
      BY <1>1, <2>4, Tuples
  <1>3. InBuffer(s) /\ u \in Nat /\ b \in Nat /\ b < u /\ s \in Serializers /\ u <= Len(s.data)
        /\ Len(s.data) \in Nat
    BY ClosingFacts DEF InBuffer, Serializers
  <1>4. v \in Nat /\ one \in Nat /\ 1 <= one /\ one <= 1 /\ 1 <= u /\ u <= s.used /\ v + 1 = u /\ b <= v
        /\ u \notin one .. v /\ u \in 1 .. Len(s.data) /\ v <= u
    BY <1>3
  <1>5. Keeps(s, one, v, s)
    BY <1>3, <1>4 DEF Keeps
  <1> HIDE DEF u, comma, y, c, one, v
  <1>6. Keeps(s, one, v, p)
    <2>1. comma \in Cell
      BY <1>1
    <2> QED
      BY <2>1, <1>3, <1>4, <1>5, KeepsPoke
  <1>7. p.flags = s.flags /\ p.used = s.used /\ p.data[u] = comma
    <2>1. comma \in Cell
      BY <1>1
    <2> QED
      BY <2>1, <1>3, <1>4, PokeFacts
  <1> HIDE DEF p
  <1>8. InBuffer(p)
    BY <1>6 DEF Keeps
  <1>9. Keeps(s, one, v, q)
    <2>1. c \in Seq(Cell)
      BY <1>2
    <2> QED
      BY <2>1, <1>4, <1>6, KeepsPut
  <1>10. /\ q.flags = s.flags /\ q.used = u + 2
         /\ q.data[u + 1] = x /\ q.data[u + 2] = y /\ q.data[u] = comma
    <2>1. c \in Seq(Cell)
      BY <1>2
    <2>2. Keeps(p, 1, p.used, q) /\ q.flags = p.flags /\ q.used = p.used + Len(c)
          /\ \A i \in 1 .. Len(c) : q.data[p.used + i] = c[i]
      BY <2>1, <1>8, PutKeeps
    <2>3. p.used = u
      BY <1>7 DEF u
    <2>4. q.used = u + 2 /\ q.flags = s.flags
      BY <1>2, <1>7, <2>2, <2>3
    <2>5. q.data[u] = comma
      <3>1. u \in 1 .. p.used
        BY <1>3, <1>4, <2>3
      <3> QED
        BY <1>7, <2>2, <3>1 DEF Keeps
    <2>6. 1 \in 1 .. Len(c) /\ 2 \in 1 .. Len(c)
      BY <1>2
    <2>7. q.data[u + 1] = x
      BY <1>2, <2>2, <2>3, <2>6
    <2>8. q.data[u + 2] = y
      BY <1>2, <2>2, <2>3, <2>6
    <2> QED
      BY <2>4, <2>5, <2>7, <2>8
  <1> HIDE DEF q
  <1>11. InBuffer(q) /\ 1 <= q.used /\ q.used \in Nat
    BY <1>3, <1>9, <1>10 DEF Keeps
  <1>12. /\ t.flags = (q.flags \cup {"ARRAY", "EOR"}) \ {"COMMA", "NOT_EMPTY"}
         /\ Keeps(q, 2, q.used, t) /\ IsClosed(t) /\ Body(t) = t.used - 1
         /\ "ARRAY" \in q.flags => t.used = q.used /\ t.data = q.data
    BY <1>11, EndJsonFacts
  <1> HIDE DEF t
  <1>13. t.used = u + 2 /\ t.data = q.data /\ Body(t) = u + 1
    <2>1. t.used = q.used /\ t.data = q.data
      BY <1>10, <1>12
    <2> QED
      BY <1>3, <1>10, <1>12, <2>1
  <1>14. InBuffer(t) /\ t.fmt = s.fmt /\ t.snapshot = s.snapshot /\ t.header = s.header
         /\ t.hused = s.hused
    BY <1>9, <1>12 DEF Keeps
  <1>15. \A i \in 1 .. v : t.data[i] = s.data[i]
    BY <1>9, <1>13 DEF Keeps, one
  <1>16. JsonKeeps(s, t)
    <2>1. Keeps(s, 2, b, t)
      BY <1>3, <1>4, <1>13, <1>14, <1>15 DEF Keeps
    <2>2. 1 <= b => t.data[1] = s.data[1]
      BY <1>3, <1>4, <1>15
    <2>3. b <= Body(t)
      BY <1>3, <1>13
    <2>4. "ARRAY" \in t.flags
      BY <1>12
    <2> QED
      BY <1>12, <2>1, <2>2, <2>3, <2>4 DEF JsonKeeps
  <1>17. t.flags = (s.flags \cup {"ARRAY", "EOR"}) \ {"COMMA", "NOT_EMPTY"}
    BY <1>10, <1>12
  <1>18. ASSUME GoodJson(s, 0), "LIST" \notin s.flags
         PROVE  GoodJson(t, 0)
    <2> DEFINE k == InArray.stack
               d == t.data
    <2>1. ReadTo(InArray, s.data, v) = Within(k, "after")
      BY <1>18, BetweenRecords DEF v, u
    <2>2. 1 <= b /\ FlagsRight(s.flags, 0)
      BY <1>18 DEF GoodJson
    <2>3. 1 <= v
      BY <1>3, <1>4, <2>2
    <2>4. ReadTo(InArray, d, v) = ReadTo(InArray, s.data, v)
      <3>1. Keeps(s, 2, v, t)
        BY <1>3, <1>4, <1>13, <1>14, <1>15 DEF Keeps
      <3>2. v <= s.used
        BY <1>3, <1>4 DEF u
      <3> QED
        BY <1>3, <1>4, <2>3, <3>1, <3>2, ReadKept
    <2>5. d \in Seq(Cell) /\ u + 2 <= Len(d) /\ Len(d) \in Nat
      BY <1>13, <1>14 DEF InBuffer, Serializers
    <2>6. d[u] = comma /\ d[u + 1] = x
      BY <1>10, <1>13
    <2>7. ReadTo(InArray, d, u) = JsonStep(ReadTo(InArray, d, u - 1), d[u])
      <3>1. u \in 2 .. Len(d) /\ d \in Seq(Cell)
        BY <1>3, <1>4, <2>3, <2>5
      <3> HIDE DEF d
      <3> QED
        BY <3>1, ReadToNext
    <2>8. ReadTo(InArray, d, u + 1) = JsonStep(ReadTo(InArray, d, u), d[u + 1])
      <3> DEFINE m == u + 1
      <3>1. m \in 2 .. Len(d) /\ m - 1 = u /\ d \in Seq(Cell)
        BY <1>3, <1>4, <2>3, <2>5
      <3> HIDE DEF d, m
      <3>2. ReadTo(InArray, d, m) = JsonStep(ReadTo(InArray, d, m - 1), d[m])
        BY <3>1, ReadToNext
      <3> QED
        BY <3>1, <3>2 DEF m
    <2>9. k \in Seq(Bracket) /\ Last(k) = "[" /\ k # <<>>
      <3>1. InArray \in Bases
        BY DEF Bases
      <3>2. k = <<"[">>
        BY DEF InArray, Within
      <3>3. k \in Seq(Bracket)
        BY <3>1, BaseFacts
      <3>4. Last(k) = "["
        BY <3>2 DEF Last
      <3> QED
        BY <3>2, <3>3, <3>4
    <2> HIDE DEF k, d
    <2>10. ReadTo(InArray, d, u - 1) = Within(k, "after")
      <3>1. u - 1 = v
        BY DEF v
      <3> QED
        BY <2>1, <2>4, <3>1
    <2>11. ReadTo(InArray, d, u) = Within(k, "value")
      <3>1. JsonStep(Within(k, "after"), <<",">>) = Within(k, "value")
        BY <2>9, Comma
      <3> QED
        BY <2>6, <2>7, <2>10, <3>1, Zenon DEF comma
    <2>12. JsonStep(Within(k, "value"), x) = After(k)
      <3>1. x[1] \in Value
        BY DEF ValueCell
      <3> QED
        BY <2>9, <3>1, JsonStepFacts
    <2>13. After(k) = Within(k, "after")
      BY <2>9 DEF After, Within
    <2>14. ReadTo(InArray, d, Body(t)) = Within(k, "after")
      BY <1>13, <2>6, <2>8, <2>11, <2>12, <2>13
    <2>15. "EOR" \in t.flags /\ "ARRAY" \in t.flags /\ "LIST" \notin t.flags /\ "SOB" \notin t.flags
           /\ "SOL" \notin t.flags
      BY <1>17, <1>18, <2>2 DEF FlagsRight
    <2>16. t.data[1] = <<"[">>
      <3>1. t.data[1] = s.data[1]
        BY <1>4, <1>15, <2>3
      <3>2. s.data[1] = <<"[">>
        BY <1>18, Zenon DEF GoodJson
      <3> QED
        BY <3>1, <3>2, Zenon
    <2>17. t.data[t.used] = <<"]">>
      BY <1>10, <1>13 DEF y
    <2>18. 1 <= Body(t)
      BY <1>3, <1>13
    <2> QED
      BY <1>12, <2>14, <2>15, <2>16, <2>17, <2>18, EndsWithRecord DEF k, d
  <1>19. t = EndJson(Put(Poke(s, s.used, <<",">>), <<x>> \o <<<<"]">>>>))
    BY <1>2, Zenon DEF t, q, p, u, comma, y
  <1> QED
    BY <1>16, <1>17, <1>18, <1>19, Zenon

\* A raw record on an empty document: it takes the place of the braces.
LEMMA JsonRawFirst ==
    ASSUME NEW s, InBuffer(s), s.used = 3, NEW x \in ValueCell
    PROVE  LET t == EndJson(Put(Drop([s EXCEPT !.used = 2], 1), <<x>>))
           IN  /\ IsClosed(t) /\ Keeps(s, 2, 1, t)
               /\ t.flags = (s.flags \cup {"ARRAY", "EOR"}) \ {"COMMA", "NOT_EMPTY"}
               /\ GoodJson(s, 0) /\ "LIST" \notin s.flags /\ s.data[2] = <<"{">> => GoodJson(t, 0)
  <1> DEFINE c == <<x>>
             r == [s EXCEPT !.used = 2]
             p == Drop(r, 1)
             q == Put(p, c)
             t == EndJson(q)
  <1>1. x \in Cell
    BY DEF ValueCell
  <1>2. c \in Seq(Cell) /\ Len(c) = 1 /\ c[1] = x
    BY <1>1, Tuples
  <1>3. InBuffer(r) /\ r.used = 2 /\ r.flags = s.flags /\ r.fmt = s.fmt /\ r.snapshot = s.snapshot
        /\ r.header = s.header /\ r.hused = s.hused
    BY DEF InBuffer, Serializers
  <1> HIDE DEF r
  <1>4. Keeps(r, 1, r.used - 1, p) /\ p.flags = r.flags /\ p.used = r.used - 1
    BY <1>3, KeepsDrop
  <1> HIDE DEF c, p
  <1>5. /\ InBuffer(p) /\ p.flags = s.flags /\ p.used = 1
        /\ p.fmt = s.fmt /\ p.snapshot = s.snapshot /\ p.header = s.header /\ p.hused = s.hused
    BY <1>3, <1>4 DEF Keeps
  <1>6. /\ Keeps(p, 1, p.used, q) /\ q.flags = p.flags /\ q.used = p.used + Len(c)
        /\ \A i \in 1 .. Len(c) : q.data[p.used + i] = c[i]
    BY <1>2, <1>5, PutKeeps
  <1> HIDE DEF q
  <1>7. InBuffer(q) /\ 1 <= q.used /\ q.used = 2 /\ q.flags = s.flags /\ q.data[2] = x
        /\ q.fmt = s.fmt /\ q.snapshot = s.snapshot /\ q.header = s.header /\ q.hused = s.hused
    <2>1. q.used = 2
      BY <1>2, <1>5, <1>6
    <2>2. q.data[1 + 1] = c[1]
      BY <1>2, <1>5, <1>6
    <2>3. InBuffer(q) /\ q.fmt = s.fmt /\ q.snapshot = s.snapshot /\ q.header = s.header
          /\ q.hused = s.hused
      BY <1>5, <1>6 DEF Keeps
    <2> QED
      BY <1>2, <1>5, <1>6, <2>1, <2>2, <2>3
  <1>8. /\ t.flags = (q.flags \cup {"ARRAY", "EOR"}) \ {"COMMA", "NOT_EMPTY"}
        /\ Keeps(q, 2, q.used, t) /\ IsClosed(t) /\ Body(t) = t.used - 1
        /\ "ARRAY" \notin q.flags => /\ t.used = q.used + 1
                                     /\ t.data[1] = <<"[">> /\ t.data[t.used] = <<"]">>
    BY <1>7, EndJsonFacts
  <1> HIDE DEF t
  <1>9. t.flags = (s.flags \cup {"ARRAY", "EOR"}) \ {"COMMA", "NOT_EMPTY"}
    BY <1>7, <1>8
  <1>10. Keeps(s, 2, 1, t)
    <2>1. InBuffer(t) /\ t.fmt = s.fmt /\ t.snapshot = s.snapshot /\ t.header = s.header
          /\ t.hused = s.hused /\ 2 <= t.used /\ t.used \in Nat
      BY <1>7, <1>8 DEF Keeps, InBuffer, Serializers
    <2>2. \A i \in 2 .. 1 : FALSE
      OBVIOUS
    <2> QED
      BY <2>1, <2>2 DEF Keeps
  <1>11. ASSUME GoodJson(s, 0), "LIST" \notin s.flags, s.data[2] = <<"{">>
         PROVE  GoodJson(t, 0)
    <2> DEFINE k == InArray.stack
    <2>1. k \in Seq(Bracket) /\ k # <<>> /\ InArray = Within(k, "value or ]") /\ InArray \in Bases
      <3>1. InArray \in Bases
        BY DEF Bases
      <3>2. k = <<"[">> /\ InArray = Within(k, "value or ]")
        BY DEF InArray, Within
      <3>3. k \in Seq(Bracket)
        BY <3>1, BaseFacts
      <3>4. k # <<>>
        <4>1. k = <<"[">>
          BY <3>2
        <4> HIDE DEF k
        <4> QED
          BY <4>1
      <3> QED
        BY <3>1, <3>2, <3>3, <3>4, Zenon
    <2>0. "LIST" \notin s.flags
      BY <1>11
    <2>2. FlagsRight(s.flags, 0) /\ 1 <= Body(s) /\ IsClosed(s)
      BY <1>11 DEF GoodJson
    <2>3. s.data \in Seq(Cell) /\ 3 <= Len(s.data)
      BY DEF InBuffer, Serializers
    <2> HIDE DEF k
    <2>4. ReadTo(InArray, s.data, 1) = InArray
      BY <2>3, ReadToFirst
    <2>5. ReadTo(InArray, s.data, 2) = Within(Append(k, "{"), "key or }")
      <3> DEFINE d == s.data
                 m == 2
      <3>1. d \in Seq(Cell) /\ m \in 2 .. Len(d) /\ m - 1 = 1
        BY <2>3
      <3>2. d[m] = <<"{">>
        BY <1>11
      <3>3. ReadTo(InArray, d, 1) = Within(k, "value or ]")
        BY <2>1, <2>4
      <3>4. JsonStep(Within(k, "value or ]"), <<"{">>) = Within(Append(k, "{"), "key or }")
        BY <2>1, Comma
      <3> HIDE DEF d, m
      <3>5. ReadTo(InArray, d, m) = JsonStep(ReadTo(InArray, d, m - 1), d[m])
        BY <3>1, ReadToNext
      <3>6. ReadTo(InArray, d, m) = JsonStep(ReadTo(InArray, d, 1), d[m])
        BY <3>1, <3>5
      <3>7. ReadTo(InArray, d, m) = Within(Append(k, "{"), "key or }")
        BY <3>2, <3>3, <3>4, <3>6, Zenon
      <3> QED
        BY <3>7 DEF d, m
    <2>6. ASSUME "ARRAY" \in s.flags
          PROVE  FALSE
      <3>1. ReadTo(InArray, s.data, Body(s)) = Inside(s.flags, InArray, 0)
        BY <1>11, <2>1 DEF GoodJson
      <3>2. CASE "EOR" \in s.flags
        <4>1. Body(s) = 2
          BY <3>2 DEF Body, Closing
        <4>2. Inside(s.flags, InArray, 0) = Within(k, "after")
          BY <3>2 DEF Inside, k
        <4>3. Within(Append(k, "{"), "key or }") = Within(k, "after")
          BY <2>5, <3>1, <4>1, <4>2
        <4>4. Within(Append(k, "{"), "key or }").next = "key or }" /\ Within(k, "after").next = "after"
          BY DEF Within
        <4> QED
          BY <4>3, <4>4
      <3>3. CASE "EOR" \notin s.flags
        <4>1. Body(s) = 1
          BY <2>0, <2>6, <3>3 DEF Body, Closing
        <4> DEFINE n == IF "SOB" \in s.flags \/ "COMMA" \notin s.flags THEN "key or }" ELSE "after"
        <4>2. Inside(s.flags, InArray, 0) = Within(Deep(InArray, 0 + 1), n)
          BY <1>11, <3>3 DEF Inside
        <4>3. InArray = Within(Deep(InArray, 0 + 1), n)
          BY <2>4, <3>1, <4>1, <4>2
        <4>4. InArray.next = "value or ]" /\ Within(Deep(InArray, 0 + 1), n).next = n
              /\ n # "value or ]"
          BY DEF Within, InArray
        <4> QED
          BY <4>3, <4>4
      <3> QED
        BY <3>2, <3>3
    <2>7. t.used = 3 /\ t.data[1] = <<"[">> /\ t.data[t.used] = <<"]">> /\ Body(t) = 2
      <3>1. t.used = q.used + 1
        BY <1>7, <1>8, <2>6
      <3>2. t.data[1] = <<"[">> /\ t.data[t.used] = <<"]">>
        BY <1>7, <1>8, <2>6, Zenon
      <3> QED
        BY <1>7, <1>8, <3>1, <3>2
    <2>8. t.data[2] = x
      <3>1. 2 \in 2 .. q.used
        BY <1>7
      <3> QED
        BY <1>7, <1>8, <3>1 DEF Keeps
    <2>9. t.data \in Seq(Cell) /\ 3 <= Len(t.data)
      BY <1>8, <2>7 DEF IsClosed, InBuffer, Serializers
    <2>10. ReadTo(InArray, t.data, 2) = After(k)
      <3> DEFINE d == t.data
                 m == 2
      <3>1. d \in Seq(Cell) /\ m \in 2 .. Len(d) /\ m - 1 = 1 /\ Len(d) >= 1
        BY <2>9
      <3>2. d[m] = x
        BY <2>8
      <3> HIDE DEF d, m
      <3>3. ReadTo(InArray, d, 1) = InArray
        BY <3>1, ReadToFirst
      <3>4. ReadTo(InArray, d, m) = JsonStep(ReadTo(InArray, d, m - 1), d[m])
        BY <3>1, ReadToNext
      <3>5. ReadTo(InArray, d, m) = JsonStep(InArray, x)
        BY <3>1, <3>2, <3>3, <3>4
      <3>6. x[1] \in Value
        BY DEF ValueCell
      <3>7. JsonStep(Within(k, "value or ]"), x) = After(k)
        BY <2>1, <3>6, JsonStepFacts
      <3>8. ReadTo(InArray, d, m) = After(k)
        BY <2>1, <3>5, <3>7
      <3> QED
        BY <3>8 DEF d, m
    <2>11. ReadTo(InArray, t.data, Body(t)) = Within(k, "after")
      <3>1. After(k) = Within(k, "after")
        BY <2>1 DEF After, Within
      <3> QED
        BY <2>7, <2>10, <3>1
    <2>12. "EOR" \in t.flags /\ "ARRAY" \in t.flags /\ "LIST" \notin t.flags /\ "SOB" \notin t.flags
           /\ "SOL" \notin t.flags
      BY <1>9, <2>0, <2>2 DEF FlagsRight
    <2>13. 1 <= Body(t)
      BY <2>7
    <2> QED
      BY <1>8, <2>7, <2>11, <2>12, <2>13, EndsWithRecord DEF k
  <1> QED
    BY <1>8, <1>9, <1>10, <1>11, Zenon DEF t, q, c, p, r

-----------------------------------------------------------------------------
(* Serializers in any format. *)

\* The least a serializer holds: the brackets of JSON, the two cells that
\* begin TLV.
Least(fmt, fl) == CASE fmt = "json" -> Closing(fl) [] fmt = "tlv" -> 2 [] OTHER -> 0

Sane(s) == InBuffer(s) /\ Least(s.fmt, s.flags) <= s.used

\* t is the same serializer, later.
Same(s, t) == Sane(t) /\ t.fmt = s.fmt /\ t.snapshot = s.snapshot

LEMMA SaneJson ==
    ASSUME NEW s, s.fmt = "json"
    PROVE  Sane(s) <=> IsClosed(s)
  BY DEF Sane, IsClosed, Least

LEMMA PutSane ==
    ASSUME NEW s, InBuffer(s), NEW cells \in Seq(Cell),
           Least(s.fmt, s.flags) <= s.used
    PROVE  Same(s, Put(s, cells))
  <1> DEFINE t == Put(s, cells)
             u == s.used
  <1>1. Keeps(s, 1, u, t) /\ t.flags = s.flags /\ t.used = u + Len(cells)
    BY PutKeeps
  <1>2. Least(s.fmt, s.flags) \in Int
    BY DEF Least, Closing
  <1>3. u \in Nat /\ Len(cells) \in Nat
    BY DEF InBuffer, Serializers
  <1> HIDE DEF t
  <1>4. InBuffer(t) /\ t.fmt = s.fmt /\ t.snapshot = s.snapshot
    BY <1>1 DEF Keeps
  <1> QED
    BY <1>1, <1>2, <1>3, <1>4 DEF Same, Sane, t

\* The cells of a document without an item.
Blank(d) == d[1] = <<" ">> /\ d[2] = <<"{">> /\ d[3] = <<"}">>

LEMMA EmptyJson ==
    ASSUME NEW t, InBuffer(t), t.flags = {}, t.used = 3, Blank(t.data)
    PROVE  GoodJson(t, 0)
  <1>1. Closing(t.flags) = 1
    BY DEF Closing
  <1>2. Body(t) = 2
    <2>1. 3 - 1 = 2
      OBVIOUS
    <2> QED
      BY <1>1, <2>1, Zenon DEF Body
  <1>3. IsClosed(t)
    <2>1. 1 <= 3
      OBVIOUS
    <2> QED
      BY <1>1, <2>1, Zenon DEF IsClosed
  <1>4. BracketsRight(t)
    <2>1. 2 + 1 = 3
      OBVIOUS
    <2>2. t.data[Body(t) + 1] = <<"}">>
      BY <1>2, <2>1, Zenon DEF Blank
    <2>3. "EOR" \notin t.flags /\ "LIST" \notin t.flags /\ "ARRAY" \notin t.flags
      BY Zenon
    <2> QED
      BY <2>2, <2>3, Zenon DEF BracketsRight
  <1>5. FlagsRight(t.flags, 0)
    BY Zenon DEF FlagsRight
  <1>6. t.data[1] = IF "ARRAY" \in t.flags THEN <<"[">> ELSE <<" ">>
    BY Zenon DEF Blank
  <1>7. ASSUME NEW base \in Bases
        PROVE  ReadTo(base, t.data, Body(t)) = Inside(t.flags, base, 0)
    <2> DEFINE d == t.data
               m == 2
               x == <<"{">>
               q == base.stack
    <2>1. d \in Seq(Cell) /\ 3 <= Len(d)
      BY DEF InBuffer, Serializers
    <2>2. m \in 2 .. Len(d) /\ m - 1 = 1 /\ Len(d) >= 1
      BY <2>1
    <2>3. d[m] = x
      BY Zenon DEF Blank
    <2>4. q \in Seq(Bracket) /\ base = Within(q, base.next) /\ base.next \in {"value", "value or ]"}
      BY BaseFacts, Zenon
    <2>5. Append(q, "{") = Deep(base, 0 + 1)
      <3>1. Deep(base, 0) = base.stack /\ Append(Deep(base, 0), "{") = Deep(base, 0 + 1)
        BY DeepFacts
      <3> QED
        BY <3>1, Zenon
    <2>6. JsonStep(base, x) = Within(Append(q, "{"), "key or }")
      BY <2>4, Comma, Zenon
    <2> HIDE DEF d, m, x, q
    <2>7. ReadTo(base, d, 1) = base
      BY <2>1, <2>2, ReadToFirst
    <2>8. ReadTo(base, d, m) = JsonStep(ReadTo(base, d, m - 1), d[m])
      BY <2>1, <2>2, ReadToNext
    <2>9. ReadTo(base, d, m) = Within(Deep(base, 0 + 1), "key or }")
      BY <2>2, <2>3, <2>5, <2>6, <2>7, <2>8, Zenon
    <2>10. Inside(t.flags, base, 0) = Within(Deep(base, 0 + 1), "key or }")
      <3>1. "EOR" \notin t.flags /\ "LIST" \notin t.flags /\ "COMMA" \notin t.flags
        BY Zenon
      <3> QED
        BY <3>1 DEF Inside
    <2> QED
      BY <1>2, <2>9, <2>10, Zenon DEF d, m
  <1>8. 1 <= Body(t)
    BY <1>2
  <1> QED
    BY <1>3, <1>4, <1>5, <1>6, <1>7, <1>8, Zenon DEF GoodJson

\* A reset serializer is as good as new.
LEMMA ResetFacts ==
    ASSUME NEW s, InBuffer(s), s.fmt = "tlv" => 2 <= Len(s.data)
    PROVE  LET t == ndpi_reset_serializer(s)
           IN  /\ Same(s, t) /\ t.flags = {}
               /\ s.fmt = "json" => GoodJson(t, 0)
               /\ s.fmt = "csv" => t.used = 0 /\ t.hused = 0
  <1> DEFINE t == ndpi_reset_serializer(s)
             x == <<" ">>
             y == <<"{">>
             z == <<"}">>
             a == [s EXCEPT !.flags = {}, !.used = 0]
             b == [s EXCEPT !.flags = {}, !.used = 0, !.hused = 0]
             c == [s EXCEPT !.flags = {}, !.used = 2]
  <1>1. s \in Serializers /\ s.fmt \in Formats /\ s.used <= Len(s.data) /\ s.hused <= Len(s.header)
        /\ s.snapshot.used <= Len(s.data) /\ Len(s.data) \in Nat /\ Len(s.header) \in Nat
    BY DEF InBuffer, Serializers
  <1>2. CASE s.fmt = "json"
    <2>1. t = Put(a, Three(x, y, z))
      BY <1>1, <1>2 DEF ndpi_reset_serializer, Three, Serializers
    <2>2. InBuffer(a) /\ a.fmt = s.fmt /\ a.snapshot = s.snapshot /\ a.flags = {} /\ a.used = 0
      <3>1. a \in Serializers
        BY <1>1 DEF Serializers
      <3>2. /\ a.fmt = s.fmt /\ a.snapshot = s.snapshot /\ a.flags = {} /\ a.used = 0
            /\ a.data = s.data /\ a.header = s.header /\ a.hused = s.hused
        BY <1>1 DEF Serializers
      <3> HIDE DEF a
      <3> QED
        BY <1>1, <3>1, <3>2 DEF InBuffer
    <2>3. x \in Cell /\ y \in Cell /\ z \in Cell
      BY JsonCells
    <2> HIDE DEF a, t, x, y, z
    <2> DEFINE new == Three(x, y, z)
    <2>4. new \in Seq(Cell) /\ Len(new) = 3 /\ new[1] = x /\ new[2] = y /\ new[3] = z
      <3>1. new \in Seq(Cell) /\ Len(new) = 3
        BY <2>3, Tuples DEF Three
      <3>2. new[1] = x /\ new[2] = y /\ new[3] = z
        BY <2>3, Tuples DEF Three
      <3> QED
        BY <3>1, <3>2
    <2> HIDE DEF new
    <2>5. /\ Keeps(a, 1, a.used, t) /\ t.flags = a.flags /\ t.used = a.used + Len(new)
          /\ \A i \in 1 .. Len(new) : t.data[a.used + i] = new[i]
      BY <2>1, <2>2, <2>4, PutKeeps DEF new
    <2>6. InBuffer(t) /\ t.fmt = s.fmt /\ t.snapshot = s.snapshot
      BY <2>2, <2>5 DEF Keeps
    <2>7. t.flags = {} /\ t.used = 3
      BY <2>2, <2>4, <2>5
    <2>8. t.data[1] = x /\ t.data[2] = y /\ t.data[3] = z
      <3>1. 1 \in 1 .. Len(new) /\ 2 \in 1 .. Len(new) /\ 3 \in 1 .. Len(new)
            /\ 0 + 1 = 1 /\ 0 + 2 = 2 /\ 0 + 3 = 3
        BY <2>4
      <3>2. t.data[0 + 1] = new[1] /\ t.data[0 + 2] = new[2] /\ t.data[0 + 3] = new[3]
        BY <2>2, <2>5, <3>1
      <3> QED
        BY <2>4, <3>1, <3>2
    <2>9. GoodJson(t, 0)
      BY <2>6, <2>7, <2>8, EmptyJson, Zenon DEF x, y, z, Blank
    <2>10. Sane(t)
      <3>1. IsClosed(t)
        BY <2>9 DEF GoodJson
      <3>2. t.fmt = "json"
        BY <1>2, <2>6
      <3> QED
        BY <3>1, <3>2, SaneJson
    <2>11. s.fmt # "csv"
      BY <1>2
    <2> QED
      BY <2>6, <2>7, <2>9, <2>10, <2>11 DEF Same, t
  <1>3. CASE s.fmt = "csv"
    <2>1. t = Put(b, <<>>)
      BY <1>1, <1>3 DEF ndpi_reset_serializer, Serializers
    <2>2. InBuffer(b) /\ b.fmt = s.fmt /\ b.snapshot = s.snapshot /\ b.flags = {} /\ b.used = 0
          /\ b.hused = 0
      <3>1. b \in Serializers
        BY <1>1 DEF Serializers
      <3>2. /\ b.fmt = s.fmt /\ b.snapshot = s.snapshot /\ b.flags = {} /\ b.used = 0
            /\ b.data = s.data /\ b.header = s.header /\ b.hused = 0
        BY <1>1 DEF Serializers
      <3> HIDE DEF b
      <3> QED
        BY <1>1, <3>1, <3>2 DEF InBuffer
    <2> DEFINE new == <<>>
    <2>3. new \in Seq(Cell) /\ Len(new) = 0
      OBVIOUS
    <2>4. Least(b.fmt, b.flags) <= b.used
      BY <1>3, <2>2 DEF Least
    <2>5. t = Put(b, new)
      BY <2>1
    <2> HIDE DEF b, t, new
    <2>6. Same(b, t)
      BY <2>2, <2>3, <2>4, <2>5, PutSane
    <2>7. Keeps(b, 1, b.used, t) /\ t.flags = b.flags /\ t.used = b.used + Len(new)
      BY <2>2, <2>3, <2>5, PutKeeps
    <2>8. t.hused = 0
      BY <2>2, <2>7 DEF Keeps
    <2>9. t.used = 0 /\ t.flags = {}
      BY <2>2, <2>3, <2>7
    <2>10. s.fmt # "json"
      BY <1>3
    <2> QED
      BY <2>2, <2>6, <2>8, <2>9, <2>10 DEF Same, t
  <1>4. CASE s.fmt = "tlv"
    <2>1. t = Put(c, <<>>)
      BY <1>1, <1>4 DEF ndpi_reset_serializer, Serializers
    <2>2. InBuffer(c) /\ c.fmt = s.fmt /\ c.snapshot = s.snapshot /\ c.flags = {} /\ c.used = 2
      BY <1>1, <1>4 DEF InBuffer, Serializers
    <2> DEFINE new == <<>>
    <2>3. new \in Seq(Cell) /\ Len(new) = 0
      OBVIOUS
    <2>4. Least(c.fmt, c.flags) <= c.used
      BY <1>4, <2>2 DEF Least
    <2>5. t = Put(c, new)
      BY <2>1
    <2> HIDE DEF c, t, new
    <2>6. Same(c, t)
      BY <2>2, <2>3, <2>4, <2>5, PutSane
    <2>7. t.flags = c.flags
      BY <2>2, <2>3, <2>5, PutKeeps
    <2>8. t.flags = {}
      BY <2>2, <2>7
    <2>9. s.fmt # "json" /\ s.fmt # "csv"
      BY <1>4
    <2> QED
      BY <2>2, <2>6, <2>8, <2>9 DEF Same, t
  <1> QED
    BY <1>1, <1>2, <1>3, <1>4 DEF Formats

\* A new serializer.
LEMMA NewFacts ==
    ASSUME NEW f \in Formats
    PROVE  LET t == ndpi_init_serializer_ll(f)
           IN  /\ Sane(t) /\ t.fmt = f /\ t.snapshot = NoSnapshot /\ t.flags = {}
               /\ f = "json" => GoodJson(t, 0)
               /\ f = "csv" => t.used = 0 /\ t.hused = 0
  <1> DEFINE d == IF f = "tlv" THEN <<<<"version", "1">>, <<"format", f>>>> ELSE <<>>
             s == [fmt |-> f, flags |-> {}, used |-> 0, hused |-> 0, header |-> <<>>,
                   snapshot |-> NoSnapshot, data |-> d]
  <1>1. d \in Seq(Cell) /\ (f = "tlv" => Len(d) = 2)
    <2> DEFINE x == <<"version", "1">>
               y == <<"format", f>>
    <2>1. "version" \in Word /\ "1" \in Word /\ "format" \in Word /\ f \in Word
      BY DEF Word, Texts, Marks, Formats
    <2>2. x \in Cell /\ y \in Cell
      BY <2>1, Tuples DEF Cell
    <2> HIDE DEF x, y
    <2>3. <<x, y>> \in Seq(Cell) /\ Len(<<x, y>>) = 2
      BY <2>2, Tuples
    <2>4. CASE f = "tlv"
      <3>1. d = <<x, y>>
        BY <2>4 DEF x, y
      <3> HIDE DEF d
      <3> QED
        BY <2>3, <3>1
    <2>5. CASE f # "tlv"
      <3>1. d = <<>>
        BY <2>5
      <3> HIDE DEF d
      <3> QED
        BY <2>5, <3>1
    <2> QED
      BY <2>4, <2>5
  <1> HIDE DEF d
  <1>2. NoSnapshot \in Snapshots /\ NoSnapshot.used = 0
    BY DEF NoSnapshot, Snapshots
  <1>3. s \in Serializers
    BY <1>1, <1>2 DEF Serializers
  <1>4. s.used = 0 /\ s.hused = 0 /\ s.snapshot = NoSnapshot /\ s.data = d /\ s.header = <<>>
        /\ s.fmt = f
    OBVIOUS
  <1>5. ndpi_init_serializer_ll(f) = ndpi_reset_serializer(s)
    BY DEF ndpi_init_serializer_ll, d
  <1> HIDE DEF s
  <1>6. InBuffer(s)
    BY <1>1, <1>2, <1>3, <1>4 DEF InBuffer
  <1>7. s.fmt = "tlv" => 2 <= Len(s.data)
    <2>1. f = "tlv" => 2 <= Len(d)
      BY <1>1
    <2> QED
      BY <1>4, <2>1, Zenon
  <1>8. LET t == ndpi_reset_serializer(s)
        IN  /\ Same(s, t) /\ t.flags = {}
            /\ s.fmt = "json" => GoodJson(t, 0)
            /\ s.fmt = "csv" => t.used = 0 /\ t.hused = 0
    BY <1>6, <1>7, ResetFacts
  <1> QED
    BY <1>4, <1>5, <1>8 DEF Same

\* In CSV and TLV, what is written stays.
Grows(s, t) ==
    /\ Same(s, t) /\ s.used <= t.used /\ s.hused <= t.hused
    /\ \A i \in 1 .. s.used : t.data[i] = s.data[i]
    /\ \A i \in 1 .. s.hused : t.header[i] = s.header[i]

Plain == {"csv", "tlv"}

LEMMA GrowsSelf ==
    ASSUME NEW s, Sane(s)
    PROVE  Grows(s, s)
  <1>1. s.used \in Nat /\ s.hused \in Nat
    BY DEF Sane, InBuffer, Serializers
  <1> QED
    BY <1>1 DEF Grows, Same

LEMMA GrowsTrans ==
    ASSUME NEW s, Sane(s), NEW t, NEW u, Grows(s, t), Grows(t, u)
    PROVE  Grows(s, u)
  <1>1. s.used \in Nat /\ t.used \in Nat /\ u.used \in Nat
        /\ s.hused \in Nat /\ t.hused \in Nat /\ u.hused \in Nat
    BY DEF Grows, Same, Sane, InBuffer, Serializers
  <1>2. s.used <= t.used /\ t.used <= u.used /\ s.hused <= t.hused /\ t.hused <= u.hused
    BY DEF Grows
  <1>3. \A i \in 1 .. s.used : u.data[i] = s.data[i]
    BY <1>1, <1>2 DEF Grows
  <1>4. \A i \in 1 .. s.hused : u.header[i] = s.header[i]
    BY <1>1, <1>2 DEF Grows
  <1>5. Same(s, u)
    BY DEF Grows, Same
  <1> QED
    BY <1>1, <1>2, <1>3, <1>4, <1>5 DEF Grows

LEMMA GrowsPut ==
    ASSUME NEW s, Sane(s), NEW cells \in Seq(Cell)
    PROVE  Grows(s, Put(s, cells))
  <1> DEFINE t == Put(s, cells)
             u == s.used
  <1>1. InBuffer(s) /\ Least(s.fmt, s.flags) <= s.used
    BY DEF Sane
  <1>2. Same(s, t)
    BY <1>1, PutSane
  <1>3. Keeps(s, 1, u, t) /\ t.used = u + Len(cells)
    BY <1>1, PutKeeps
  <1>4. u \in Nat /\ Len(cells) \in Nat /\ s.hused \in Nat
    BY <1>1 DEF InBuffer, Serializers
  <1> HIDE DEF t
  <1>5. t.header = s.header /\ t.hused = s.hused /\ \A i \in 1 .. u : t.data[i] = s.data[i]
    BY <1>3 DEF Keeps
  <1> QED
    BY <1>2, <1>3, <1>4, <1>5 DEF Grows, t

LEMMA GrowsFlag ==
    ASSUME NEW s, Sane(s), s.fmt \in Plain, NEW x \in Flags
    PROVE  Grows(s, Raise(s, x)) /\ Grows(s, Clear(s, x))
  <1>1. s \in Serializers /\ s.used \in Nat /\ s.hused \in Nat
    BY DEF Sane, InBuffer, Serializers
  <1> DEFINE r == Raise(s, x)
             c == Clear(s, x)
  <1>2. /\ r \in Serializers /\ c \in Serializers
        /\ r.fmt = s.fmt /\ c.fmt = s.fmt /\ r.used = s.used /\ c.used = s.used
        /\ r.hused = s.hused /\ c.hused = s.hused /\ r.header = s.header /\ c.header = s.header
        /\ r.snapshot = s.snapshot /\ c.snapshot = s.snapshot
        /\ r.data = s.data /\ c.data = s.data
    BY <1>1, FlagFacts
  <1> HIDE DEF r, c
  <1>3. \A fl, gl : Least(s.fmt, fl) = Least(s.fmt, gl)
    BY DEF Least, Plain
  <1>4. Least(s.fmt, r.flags) <= s.used /\ Least(s.fmt, c.flags) <= s.used
    BY <1>3 DEF Sane
  <1>5. InBuffer(r) /\ InBuffer(c)
    BY <1>2 DEF Sane, InBuffer
  <1>6. Sane(r) /\ Sane(c)
    BY <1>2, <1>4, <1>5 DEF Sane
  <1> QED
    BY <1>1, <1>2, <1>6 DEF Grows, Same, r, c

\* A column's name at the end of the header.
LEMMA GrowsHeader ==
    ASSUME NEW s, Sane(s), NEW key \in Texts
    PROVE  LET t == ndpi_serializer_header_string(s, key)
           IN  /\ Grows(s, t) /\ t.flags = s.flags /\ t.used = s.used /\ t.data = s.data
               /\ "HDR_DONE" \notin s.flags =>
                    /\ t.hused = s.hused + (IF s.hused > 0 THEN 2 ELSE 1)
                    /\ Len(t.header) = t.hused
                    /\ s.hused > 0 => t.header[s.hused + 1] = <<",">>
                    /\ t.header[t.hused] = <<"key", key>>
               /\ "HDR_DONE" \in s.flags => t = s
  <1> DEFINE comma == <<",">>
             x == <<"key", key>>
             cells == (IF s.hused > 0 THEN <<comma>> ELSE <<>>) \o <<x>>
             new == IF s.hused > 0 THEN <<comma, x>> ELSE <<x>>
             h == s.hused
             e == Overwrite(s.header, h, new, <<>>)
             t == ndpi_serializer_header_string(s, key)
  <1>1. s \in Serializers /\ h \in Nat /\ s.header \in Seq(Cell) /\ h <= Len(s.header) /\ s.used \in Nat
    BY DEF Sane, InBuffer, Serializers
  <1>2. comma \in Cell /\ x \in Cell
    BY JsonCells, ValueCells
  <1>3. cells = new /\ new \in Seq(Cell) /\ Len(new) = (IF h > 0 THEN 2 ELSE 1)
        /\ new[Len(new)] = x /\ (h > 0 => new[1] = comma)
    <2> HIDE DEF comma, x
    <2>1. <<comma>> \in Seq(Cell) /\ <<x>> \in Seq(Cell) /\ <<comma, x>> \in Seq(Cell)
      BY <1>2, Tuples
    <2>2. <<comma>> \o <<x>> = <<comma, x>>
      <3>1. Append(<<comma>>, x) = <<comma>> \o <<x>>
        BY <1>2, <2>1, AppendIsConcat
      <3>2. Append(<<comma>>, x) = <<comma, x>>
        BY <1>2, AppendTuples
      <3> QED
        BY <3>1, <3>2, Zenon
    <2>3. <<>> \o <<x>> = <<x>>
      BY <1>2, Joins
    <2>4. cells = new
      BY <2>2, <2>3, Zenon
    <2>5. CASE h > 0
      <3>1. new = <<comma, x>>
        BY <2>5
      <3> HIDE DEF new, cells
      <3> QED
        BY <2>1, <2>4, <2>5, <3>1
    <2>6. CASE ~(h > 0)
      <3>1. new = <<x>>
        BY <2>6
      <3> HIDE DEF new, cells
      <3> QED
        BY <2>1, <2>4, <2>6, <3>1
    <2> QED
      BY <2>5, <2>6
  <1> HIDE DEF comma, x, cells, new
  <1>4. CASE "HDR_DONE" \in s.flags
    <2>1. t = s
      BY <1>4 DEF ndpi_serializer_header_string, Has
    <2>2. Grows(s, s)
      BY GrowsSelf
    <2> QED
      BY <1>4, <2>1, <2>2 DEF t
  <1>5. CASE "HDR_DONE" \notin s.flags
    <2>1. /\ e \in Seq(Cell) /\ Len(e) = (h + Len(new)) + Len(<<>>)
          /\ \A i \in 1 .. h : e[i] = s.header[i]
          /\ \A i \in 1 .. Len(new) : e[h + i] = new[i]
      <3> DEFINE rest == <<>>
                 hd == s.header
      <3>1. rest \in Seq(Cell)
        OBVIOUS
      <3>2. hd \in Seq(Cell) /\ h \in Nat /\ h <= Len(hd) /\ new \in Seq(Cell)
        BY <1>1, <1>3
      <3> HIDE DEF rest, hd, h
      <3>3. /\ Overwrite(hd, h, new, rest) \in Seq(Cell)
            /\ Len(Overwrite(hd, h, new, rest)) = (h + Len(new)) + Len(rest)
        BY <3>1, <3>2, Overwritten
      <3>4. \A i \in 1 .. h : Overwrite(hd, h, new, rest)[i] = hd[i]
        BY <3>1, <3>2, Overwritten
      <3>5. \A i \in 1 .. Len(new) : Overwrite(hd, h, new, rest)[h + i] = new[i]
        BY <3>1, <3>2, Overwritten
      <3> QED
        BY <3>3, <3>4, <3>5 DEF rest, hd
    <2>2. t = [s EXCEPT !.header = e, !.hused = h + Len(new)]
      <3>1. e = SubSeq(s.header, 1, s.hused) \o cells
        <4> DEFINE a == SubSeq(s.header, 1, s.hused)
        <4>1. a \in Seq(Cell)
          BY <1>1
        <4> HIDE DEF a
        <4>2. a \o new \in Seq(Cell)
          BY <1>3, <4>1, ConcatProperties
        <4>3. (a \o new) \o <<>> = a \o new
          BY <4>2, ConcatEmptySeq
        <4> QED
          BY <1>3, <4>3 DEF Overwrite, a
      <3>2. Len(cells) = Len(new)
        BY <1>3
      <3> HIDE DEF e
      <3> QED
        BY <1>1, <1>5, <3>1, <3>2 DEF ndpi_serializer_header_string, Has, Serializers, cells, comma, x
    <2>3. Len(e) = h + Len(new) /\ h + Len(new) \in Nat /\ Len(new) \in {1, 2}
      BY <1>1, <1>3, <2>1
    <2> HIDE DEF e, t
    <2>4. /\ t \in Serializers /\ t.header = e /\ t.hused = h + Len(new) /\ t.fmt = s.fmt
          /\ t.flags = s.flags /\ t.used = s.used /\ t.data = s.data /\ t.snapshot = s.snapshot
      BY <1>1, <2>1, <2>2, <2>3 DEF Serializers
    <2>5. Same(s, t)
      BY <2>3, <2>4 DEF Same, Sane, InBuffer
    <2>6. Grows(s, t)
      BY <1>1, <2>1, <2>3, <2>4, <2>5 DEF Grows
    <2>7. t.hused = s.hused + (IF s.hused > 0 THEN 2 ELSE 1)
      BY <1>1, <1>3, <2>4
    <2>8. t.header[t.hused] = x
      <3>1. Len(new) \in 1 .. Len(new)
        BY <2>3
      <3>2. e[h + Len(new)] = new[Len(new)]
        BY <2>1, <3>1
      <3> QED
        BY <1>3, <2>4, <3>2
    <2>9. h > 0 => t.header[h + 1] = comma
      <3>1. 1 \in 1 .. Len(new)
        BY <2>3
      <3>2. e[h + 1] = new[1]
        BY <2>1, <3>1
      <3> QED
        BY <1>3, <2>4, <3>2
    <2>10. Len(t.header) = t.hused
      BY <2>3, <2>4
    <2> QED
      BY <1>5, <2>4, <2>6, <2>7, <2>8, <2>9, <2>10, Zenon DEF t, x, comma
  <1> QED
    BY <1>4, <1>5

-----------------------------------------------------------------------------
(* What a call for an item leaves. *)

JsonAdd(s, key, text) ==
    LET pre  == ndpi_serialize_json_pre(s)
        name == IF Has(pre, "LIST") THEN <<>> ELSE <<<<"key", key>>, <<":">>>>
    IN  ndpi_serialize_json_post(Put(pre, name \o <<text>>))

CsvAdd(s, key, text) ==
    Put(ndpi_serialize_csv_pre(ndpi_serializer_header_string(s, key)), <<text>>)

ItemOutcome(s, key, d) ==
    \/ d.rc = -1 /\ d.s = s
    \/ /\ d.rc = 0 /\ s.fmt = "json"
       /\ \E text \in ValueCell : d.s = Raise(JsonAdd(s, key, text), "NOT_EMPTY")
    \/ /\ d.rc = 0 /\ s.fmt = "csv"
       /\ \E text \in ValueCell :
            \/ d.s = Raise(CsvAdd(s, key, text), "NOT_EMPTY")
            \/ d.s = Clear(Raise(CsvAdd(s, key, text), "NOT_EMPTY"), "NOT_EMPTY")
    \/ /\ d.rc = 0 /\ s.fmt = "tlv"
       /\ \E cells \in Seq(Cell) : d.s = Raise(Put(s, cells), "NOT_EMPTY")

LEMMA AddItemOutcome ==
    ASSUME NEW s \in Serializers, NEW mem, NEW key \in Texts, NEW kt \in Word, NEW et \in Word,
           NEW raw \in Texts, NEW text \in ValueCell
    PROVE  LET d == AddItem(s, mem, kt, key, et, raw, text)
           IN  /\ ItemOutcome(s, key, d)
               /\ s.fmt = "csv" => \/ d.rc = -1 /\ d.s = s
                                   \/ d.rc = 0 /\ d.s = Raise(CsvAdd(s, key, text), "NOT_EMPTY")
  <1> DEFINE d == AddItem(s, mem, kt, key, et, raw, text)
             no == mem = "noBuffer" \/ (mem = "noHeader" /\ s.fmt = "csv" /\ ~Has(s, "HDR_DONE"))
             x == <<"type", kt, et>>
             y == <<kt, key>>
             z == <<et, raw>>
             cells == Three(x, y, z)
  <1>0. s.fmt \in Formats
    BY DEF Serializers
  <1>1. CASE no
    <2>1. d = Returns(-1, s)
      BY <1>1 DEF AddItem
    <2>2. d.rc = -1 /\ d.s = s
      BY <2>1 DEF Returns
    <2> QED
      BY <2>2 DEF ItemOutcome
  <1>2. CASE ~no /\ s.fmt = "json"
    <2> DEFINE t == Raise(JsonAdd(s, key, text), "NOT_EMPTY")
    <2>1. d = Returns(0, t)
      BY <1>2 DEF AddItem, JsonAdd
    <2> HIDE DEF t
    <2>2. d.rc = 0 /\ d.s = t
      BY <2>1 DEF Returns
    <2> QED
      BY <1>2, <2>2 DEF ItemOutcome, t
  <1>3. CASE ~no /\ s.fmt = "csv"
    <2> DEFINE t == Raise(CsvAdd(s, key, text), "NOT_EMPTY")
    <2>1. d = Returns(0, t)
      BY <1>3 DEF AddItem, CsvAdd, ndpi_serializer_header_uint32
    <2> HIDE DEF t
    <2>2. d.rc = 0 /\ d.s = t
      BY <2>1 DEF Returns
    <2> QED
      BY <1>3, <2>2 DEF ItemOutcome, t
  <1>4. CASE ~no /\ s.fmt = "tlv"
    <2> DEFINE t == Raise(Put(s, cells), "NOT_EMPTY")
    <2>1. d = Returns(0, t)
      BY <1>4 DEF AddItem, Three
    <2>2. cells \in Seq(Cell)
      <3>1. key \in Word /\ raw \in Word /\ "type" \in Word
        BY DEF Word, Texts, Marks
      <3>2. x \in Cell /\ y \in Cell /\ z \in Cell
        BY <3>1, Tuples DEF Cell
      <3> HIDE DEF x, y, z
      <3> QED
        BY <3>2, Tuples DEF Three
    <2> HIDE DEF cells
    <2>3. d.rc = 0 /\ d.s = Raise(Put(s, cells), "NOT_EMPTY")
      <3> HIDE DEF t
      <3>1. d.rc = 0 /\ d.s = t
        BY <2>1 DEF Returns
      <3> QED
        BY <3>1 DEF t
    <2> HIDE DEF d
    <2>4. s.fmt # "csv"
      BY <1>4
    <2> QED
      BY <1>4, <2>2, <2>3, <2>4, Zenon DEF ItemOutcome, d
  <1> QED
    BY <1>0, <1>1, <1>2, <1>3, <1>4 DEF Formats

LEMMA AddCsvItemOutcome ==
    ASSUME NEW s \in Serializers, s.fmt = "csv", NEW mem, NEW key \in Texts, NEW text \in ValueCell
    PROVE  ItemOutcome(s, key, AddCsvItem(s, mem, key, text))
  <1> DEFINE w == "string"
             full == AddItem(s, mem, w, key, w, key, text)
             d == AddCsvItem(s, mem, key, text)
             e == "NOT_EMPTY"
  <1>1. w \in Word
    BY DEF Word, Texts, Marks
  <1> HIDE DEF w
  <1>2. \/ full.rc = -1 /\ full.s = s
        \/ full.rc = 0 /\ full.s = Raise(CsvAdd(s, key, text), "NOT_EMPTY")
    BY <1>1, AddItemOutcome
  <1>3. d = Returns(full.rc, IF e \in s.flags THEN full.s ELSE Clear(full.s, e))
    BY DEF AddCsvItem, Has, w
  <1> HIDE DEF full, d
  <1>4. d.rc = full.rc /\ d.s = IF e \in s.flags THEN full.s ELSE Clear(full.s, e)
    BY <1>3 DEF Returns
  <1>5. e \notin s.flags => Clear(s, e) = s
    <2> HIDE DEF e
    <2>1. ASSUME e \notin s.flags
          PROVE  Clear(s, e) = s
      <3>1. s.flags \ {e} = s.flags
        BY <2>1
      <3> QED
        BY <3>1 DEF Clear, Serializers
    <2> QED
      BY <2>1
  <1>6. CASE full.rc = -1 /\ full.s = s
    <2>1. d.rc = -1
      BY <1>4, <1>6
    <2>2. d.s = s
      BY <1>4, <1>5, <1>6, Zenon
    <2> QED
      BY <2>1, <2>2, Zenon DEF ItemOutcome, d
  <1>7. CASE full.rc = 0 /\ full.s = Raise(CsvAdd(s, key, text), e)
    <2> DEFINE t == CsvAdd(s, key, text)
    <2> HIDE DEF t
    <2>1. d.rc = 0
      BY <1>4, <1>7
    <2>2. d.s = Raise(t, e) \/ d.s = Clear(Raise(t, e), e)
      BY <1>4, <1>7, Zenon DEF t
    <2>3. \E x \in ValueCell : \/ d.s = Raise(CsvAdd(s, key, x), "NOT_EMPTY")
                              \/ d.s = Clear(Raise(CsvAdd(s, key, x), "NOT_EMPTY"), "NOT_EMPTY")
      BY <2>2 DEF t
    <2> QED
      BY <2>1, <2>3, Zenon DEF ItemOutcome, d
  <1> QED
    BY <1>2, <1>6, <1>7, Zenon DEF e

\* Every call for an item: it fails and changes nothing, or adds the item.
LEMMA ItemOutcomes ==
    ASSUME NEW s \in Serializers, NEW mem, NEW c, c.key \in Texts, c.v \in Texts, c.op \in Items
    PROVE  ItemOutcome(s, c.key, Perform(s, mem, c))
  <1> DEFINE key == c.key
             d == Perform(s, mem, c)
  <1>1. ItemResult(s, mem, key, d)
    BY PerformItem
  <1>2. key \in Texts
    OBVIOUS
  <1> HIDE DEF key, d
  <1>3. CASE s.fmt = "tlv" /\ d = Returns(-1, s)
    <2>1. d.rc = -1 /\ d.s = s
      BY <1>3 DEF Returns
    <2> QED
      BY <2>1, Zenon DEF ItemOutcome, d, key
  <1>4. CASE \E kt \in Word, et \in Word, raw \in Texts, text \in ValueCell :
               d = AddItem(s, mem, kt, key, et, raw, text)
    <2>1. PICK kt \in Word, et \in Word, raw \in Texts, text \in ValueCell :
               d = AddItem(s, mem, kt, key, et, raw, text)
      BY <1>4
    <2> QED
      <3>1. ItemOutcome(s, key, AddItem(s, mem, kt, key, et, raw, text))
        BY <1>2, AddItemOutcome
      <3> QED
        BY <2>1, <3>1, Zenon DEF d, key
  <1>5. CASE s.fmt = "csv" /\ \E text \in ValueCell : d = AddCsvItem(s, mem, key, text)
    <2>1. PICK text \in ValueCell : d = AddCsvItem(s, mem, key, text)
      BY <1>5
    <2>2. ItemOutcome(s, key, AddCsvItem(s, mem, key, text))
      BY <1>2, <1>5, AddCsvItemOutcome
    <2> QED
      BY <2>1, <2>2, Zenon DEF d, key
  <1> QED
    BY <1>1, <1>3, <1>4, <1>5 DEF ItemResult, key, d

\* The end of a record, by format.
EndCsv(s) == Clear(Raise(Raise(Put(s, <<<<"nl">>>>), "HDR_DONE"), "EOR"), "NOT_EMPTY")
EndTlv(s) == Clear(Put(s, <<<<"type", "unknown", "end_of_record">>>>), "NOT_EMPTY")
EndRecord(s) == CASE s.fmt = "json" -> EndJson(s) [] s.fmt = "csv" -> EndCsv(s) [] OTHER -> EndTlv(s)

LEMMA EndOfRecord ==
    ASSUME NEW s, s.fmt \in Formats, NEW mem
    PROVE  /\ mem = "noBuffer" => ndpi_serialize_end_of_record(s, mem) = Returns(-1, s)
           /\ mem # "noBuffer" => ndpi_serialize_end_of_record(s, mem) = Returns(0, EndRecord(s))
  <1>1. mem = "noBuffer" => ndpi_serialize_end_of_record(s, mem) = Returns(-1, s)
    BY DEF ndpi_serialize_end_of_record
  <1>2. ASSUME mem # "noBuffer", s.fmt = "json"
        PROVE  ndpi_serialize_end_of_record(s, mem) = Returns(0, EndRecord(s))
    BY <1>2 DEF ndpi_serialize_end_of_record, EndRecord, EndJson
  <1>3. ASSUME mem # "noBuffer", s.fmt = "csv"
        PROVE  ndpi_serialize_end_of_record(s, mem) = Returns(0, EndRecord(s))
    BY <1>3 DEF ndpi_serialize_end_of_record, EndRecord, EndCsv
  <1>4. ASSUME mem # "noBuffer", s.fmt = "tlv"
        PROVE  ndpi_serialize_end_of_record(s, mem) = Returns(0, EndRecord(s))
    BY <1>4 DEF ndpi_serialize_end_of_record, EndRecord, EndTlv
  <1> QED
    BY <1>1, <1>2, <1>3, <1>4 DEF Formats

\* The calls for structure.
LEMMA StructureCalls ==
    ASSUME NEW s, NEW mem, NEW c
    PROVE  /\ c.op = "end_of_record" => Perform(s, mem, c) = ndpi_serialize_end_of_record(s, mem)
           /\ c.op = "raw_record" => Perform(s, mem, c) = ndpi_serialize_raw_record(s, mem, c.v)
           /\ c.op = "start_of_list" =>
                Perform(s, mem, c) = ndpi_serialize_start_of_list_binary(s, mem, c.key)
           /\ c.op = "end_of_list" => Perform(s, mem, c) = ndpi_serialize_end_of_list(s)
           /\ c.op = "start_of_block" =>
                Perform(s, mem, c) = ndpi_serialize_start_of_block_binary(s, mem, c.key)
           /\ c.op = "end_of_block" => Perform(s, mem, c) = ndpi_serialize_end_of_block(s, mem)
  <1>1. c.op = "end_of_record" => Perform(s, mem, c) = ndpi_serialize_end_of_record(s, mem)
    BY DEF Perform
  <1>2. c.op = "raw_record" => Perform(s, mem, c) = ndpi_serialize_raw_record(s, mem, c.v)
    BY DEF Perform
  <1>3. c.op = "start_of_list" =>
          Perform(s, mem, c) = ndpi_serialize_start_of_list_binary(s, mem, c.key)
    BY DEF Perform, ndpi_serialize_start_of_list
  <1>4. c.op = "end_of_list" => Perform(s, mem, c) = ndpi_serialize_end_of_list(s)
    BY DEF Perform
  <1>5. c.op = "start_of_block" =>
          Perform(s, mem, c) = ndpi_serialize_start_of_block_binary(s, mem, c.key)
    BY DEF Perform, ndpi_serialize_start_of_block
  <1>6. c.op = "end_of_block" => Perform(s, mem, c) = ndpi_serialize_end_of_block(s, mem)
    BY DEF Perform
  <1> QED
    BY <1>1, <1>2, <1>3, <1>4, <1>5, <1>6

\* A call that fails changes nothing, but for a raw record.
LEMMA FailedCall ==
    ASSUME NEW s \in Serializers, NEW mem, NEW c, c.key \in Texts, c.v \in Texts,
           c.op \in Items \cup Structure
    PROVE  /\ Perform(s, mem, c).rc \in {0, -1}
           /\ Perform(s, mem, c).rc = -1 /\ c.op # "raw_record" => Perform(s, mem, c).s = s
  <1> DEFINE d == Perform(s, mem, c)
             Fits == d.rc = 0 \/ (d.rc = -1 /\ (c.op # "raw_record" => d.s = s))
  <1>0. s.fmt \in Formats
    BY DEF Serializers
  <1>a. \A t : Returns(0, t).rc = 0 /\ Returns(-1, t).rc = -1 /\ Returns(-1, t).s = t
    BY DEF Returns
  <1>1. ASSUME c.op \in Items
        PROVE  Fits
    <2>1. ItemOutcome(s, c.key, d)
      BY <1>1, ItemOutcomes
    <2> HIDE DEF d
    <2> QED
      BY <2>1 DEF ItemOutcome
  <1>2. ASSUME c.op = "end_of_record"
        PROVE  Fits
    <2>1. d = Returns(-1, s) \/ d = Returns(0, EndRecord(s))
      <3>1. d = ndpi_serialize_end_of_record(s, mem)
        BY <1>2, StructureCalls
      <3> QED
        BY <1>0, <3>1, EndOfRecord, Zenon
    <2> HIDE DEF d
    <2> QED
      BY <1>a, <2>1
  <1>3. ASSUME c.op = "raw_record"
        PROVE  Fits
    <2> HIDE DEF d
    <2>1. d = ndpi_serialize_raw_record(s, mem, c.v)
      BY <1>3, StructureCalls, Zenon DEF d
    <2>2. (\E t : d = Returns(-1, t)) \/ (\E t : d = Returns(0, t))
      BY <2>1 DEF ndpi_serialize_raw_record
    <2> QED
      BY <1>3, <1>a, <2>2
  <1>4. ASSUME c.op = "start_of_list"
        PROVE  Fits
    <2> HIDE DEF d
    <2>1. d = ndpi_serialize_start_of_list_binary(s, mem, c.key)
      BY <1>4, StructureCalls, Zenon DEF d
    <2>2. d = Returns(-1, s) \/ (\E t : d = Returns(0, t))
      BY <2>1 DEF ndpi_serialize_start_of_list_binary
    <2> QED
      BY <1>a, <2>2
  <1>5. ASSUME c.op = "end_of_list"
        PROVE  Fits
    <2> HIDE DEF d
    <2>1. d = ndpi_serialize_end_of_list(s)
      BY <1>5, StructureCalls, Zenon DEF d
    <2>2. d = Returns(-1, s) \/ (\E t : d = Returns(0, t))
      BY <1>0, <2>1 DEF ndpi_serialize_end_of_list, Formats
    <2> QED
      BY <1>a, <2>2
  <1>6. ASSUME c.op = "start_of_block"
        PROVE  Fits
    <2> HIDE DEF d
    <2>1. d = ndpi_serialize_start_of_block_binary(s, mem, c.key)
      BY <1>6, StructureCalls, Zenon DEF d
    <2>2. d = Returns(-1, s) \/ (\E t : d = Returns(0, t))
      BY <2>1 DEF ndpi_serialize_start_of_block_binary
    <2> QED
      BY <1>a, <2>2
  <1>7. ASSUME c.op = "end_of_block"
        PROVE  Fits
    <2> HIDE DEF d
    <2>1. d = ndpi_serialize_end_of_block(s, mem)
      BY <1>7, StructureCalls, Zenon DEF d
    <2>2. d = Returns(-1, s) \/ (\E t : d = Returns(0, t))
      BY <2>1 DEF ndpi_serialize_end_of_block
    <2> QED
      BY <1>a, <2>2
  <1>8. Fits
    BY <1>1, <1>2, <1>3, <1>4, <1>5, <1>6, <1>7 DEF Structure
  <1> HIDE DEF d
  <1>9. d.rc \in {0, -1} /\ (d.rc = -1 /\ c.op # "raw_record" => d.s = s)
    BY <1>8
  <1> QED
    BY <1>9 DEF d

LEMMA FlagNames ==
    /\ "EOR" \in Flags /\ "HDR_DONE" \in Flags /\ "NOT_EMPTY" \in Flags /\ "COMMA" \in Flags
    /\ "SOB" \in Flags /\ "SOL" \in Flags /\ "LIST" \in Flags /\ "ARRAY" \in Flags
  BY DEF Flags

\* What grows twice.
LEMMA GrowsOn ==
    ASSUME NEW s, Sane(s), NEW t, Grows(s, t)
    PROVE  /\ Sane(t) /\ t.fmt = s.fmt
           /\ \A cells \in Seq(Cell) : Grows(s, Put(t, cells))
           /\ s.fmt \in Plain => \A x \in Flags : Grows(s, Raise(t, x)) /\ Grows(s, Clear(t, x))
  <1>1. Sane(t) /\ t.fmt = s.fmt
    BY DEF Grows, Same
  <1>2. ASSUME NEW cells \in Seq(Cell)
        PROVE  Grows(s, Put(t, cells))
    <2>1. Grows(t, Put(t, cells))
      BY <1>1, GrowsPut
    <2> QED
      BY <2>1, GrowsTrans
  <1>3. ASSUME s.fmt \in Plain, NEW x \in Flags
        PROVE  Grows(s, Raise(t, x)) /\ Grows(s, Clear(t, x))
    <2>1. t.fmt \in Plain
      BY <1>1, <1>3
    <2>2. Grows(t, Raise(t, x)) /\ Grows(t, Clear(t, x))
      BY <1>1, <2>1, GrowsFlag
    <2> QED
      BY <2>2, GrowsTrans
  <1> QED
    BY <1>1, <1>2, <1>3

LEMMA CsvAddGrows ==
    ASSUME NEW s, Sane(s), s.fmt = "csv", NEW key \in Texts, NEW text \in ValueCell
    PROVE  Grows(s, CsvAdd(s, key, text))
  <1> DEFINE h == ndpi_serializer_header_string(s, key)
             p == ndpi_serialize_csv_pre(h)
             comma == <<<<",">>>>
             c == <<text>>
             e == "EOR"
  <1>1. Grows(s, h)
    BY GrowsHeader
  <1>2. comma \in Seq(Cell)
    <2> DEFINE x == <<",">>
    <2>1. x \in Cell
      BY JsonCells
    <2> HIDE DEF x
    <2>2. <<x>> \in Seq(Cell)
      BY <2>1, Tuples
    <2> QED
      BY <2>2 DEF x
  <1>3. c \in Seq(Cell)
    <2>1. text \in Cell
      BY DEF ValueCell
    <2> QED
      BY <2>1, Tuples
  <1>4. s.fmt \in Plain /\ e \in Flags
    BY FlagNames DEF Plain
  <1> HIDE DEF h, comma, c, e
  <1>5. p = Clear(h, e) \/ p = h \/ p = Put(h, comma)
    BY DEF ndpi_serialize_csv_pre, Has, e, comma
  <1> HIDE DEF p
  <1>6. Grows(s, Put(h, comma))
    BY <1>1, <1>2, GrowsOn
  <1>7. Grows(s, Clear(h, e))
    BY <1>1, <1>4, GrowsOn
  <1>8. Grows(s, p)
    BY <1>1, <1>5, <1>6, <1>7
  <1>9. Grows(s, Put(p, c))
    BY <1>3, <1>8, GrowsOn
  <1> QED
    BY <1>9 DEF CsvAdd, h, p, c

LEMMA EndPlainGrows ==
    ASSUME NEW s, Sane(s), s.fmt \in Plain
    PROVE  Grows(s, EndRecord(s))
  <1> DEFINE x == <<"nl">>
             y == <<"type", "unknown", "end_of_record">>
             cx == <<x>>
             cy == <<y>>
             a == "HDR_DONE"
             b == "EOR"
             n == "NOT_EMPTY"
  <1>1. x \in Cell /\ y \in Cell
    <2>1. "type" \in Word /\ "unknown" \in Word /\ "end_of_record" \in Word
      BY DEF Word, Texts, Marks
    <2>2. y \in Cell
      BY <2>1, Tuples DEF Cell
    <2> QED
      BY <2>2, JsonCells
  <1>2. cx \in Seq(Cell) /\ cy \in Seq(Cell)
    <2> HIDE DEF x, y
    <2> QED
      BY <1>1, Tuples
  <1>3. a \in Flags /\ b \in Flags /\ n \in Flags
    BY FlagNames
  <1> HIDE DEF cx, cy, a, b, n
  <1> DEFINE p == Put(s, cx)
             q == Raise(p, a)
             r == Raise(q, b)
             w == Put(s, cy)
  <1>4. Grows(s, p) /\ Grows(s, w)
    BY <1>2, GrowsPut
  <1> HIDE DEF p, w
  <1>5. Grows(s, q)
    BY <1>3, <1>4, GrowsOn
  <1> HIDE DEF q
  <1>6. Grows(s, r)
    BY <1>3, <1>5, GrowsOn
  <1> HIDE DEF r
  <1>7. Grows(s, Clear(r, n)) /\ Grows(s, Clear(w, n))
    BY <1>3, <1>4, <1>6, GrowsOn
  <1>8. EndCsv(s) = Clear(r, n)
    BY DEF EndCsv, r, q, p, cx, x, a, b, n
  <1>9. EndTlv(s) = Clear(w, n)
    BY DEF EndTlv, w, cy, y, n
  <1>10. EndRecord(s) = EndCsv(s) \/ EndRecord(s) = EndTlv(s)
    BY DEF EndRecord, Plain
  <1> QED
    BY <1>7, <1>8, <1>9, <1>10

LEMMA PlainCall ==
    ASSUME NEW s, Sane(s), s.fmt \in Plain, NEW mem, NEW c, c.key \in Texts, c.v \in Texts,
           c.op \in Items \cup Structure
    PROVE  Grows(s, Perform(s, mem, c).s)
  <1> DEFINE d == Perform(s, mem, c)
  <1>a. s \in Serializers /\ s.fmt \in Formats /\ s.fmt # "json"
    BY DEF Sane, InBuffer, Plain, Formats
  <1>b. \A t : Returns(0, t).s = t /\ Returns(-1, t).s = t
    BY DEF Returns
  <1>c. Grows(s, s)
    BY GrowsSelf
  <1>d. \A cells \in Seq(Cell) : Grows(s, Put(s, cells))
    BY GrowsPut
  <1>1. ASSUME c.op \in Items
        PROVE  Grows(s, d.s)
    <2> DEFINE key == c.key
               n == "NOT_EMPTY"
    <2>1. ItemOutcome(s, key, d)
      BY <1>1, <1>a, ItemOutcomes
    <2>2. key \in Texts /\ n \in Flags
      BY FlagNames
    <2> HIDE DEF d, key, n
    <2>3. CASE d.s = s
      BY <1>c, <2>3
    <2>4. CASE s.fmt = "csv" /\ \E text \in ValueCell :
                 d.s = Raise(CsvAdd(s, key, text), n) \/ d.s = Clear(Raise(CsvAdd(s, key, text), n), n)
      <3>1. PICK text \in ValueCell :
              d.s = Raise(CsvAdd(s, key, text), n) \/ d.s = Clear(Raise(CsvAdd(s, key, text), n), n)
        BY <2>4
      <3> DEFINE t == CsvAdd(s, key, text)
                 r == Raise(t, n)
      <3>2. Grows(s, t)
        BY <2>2, <2>4, CsvAddGrows
      <3> HIDE DEF t
      <3>3. Grows(s, r)
        BY <2>2, <3>2, GrowsOn
      <3> HIDE DEF r
      <3>4. Grows(s, Clear(r, n))
        BY <2>2, <3>3, GrowsOn
      <3> QED
        BY <3>1, <3>3, <3>4, Zenon DEF r, t
    <2>5. CASE \E cells \in Seq(Cell) : d.s = Raise(Put(s, cells), n)
      <3>1. PICK cells \in Seq(Cell) : d.s = Raise(Put(s, cells), n)
        BY <2>5
      <3>2. Grows(s, Put(s, cells))
        BY <1>d
      <3>3. Grows(s, Raise(Put(s, cells), n))
        BY <2>2, <3>2, GrowsOn
      <3> QED
        BY <3>1, <3>3, Zenon
    <2> QED
      BY <1>a, <2>1, <2>3, <2>4, <2>5, Zenon DEF ItemOutcome, n
  <1>2. ASSUME c.op = "end_of_record"
        PROVE  Grows(s, d.s)
    <2>1. d = ndpi_serialize_end_of_record(s, mem)
      BY <1>2, StructureCalls
    <2> HIDE DEF d
    <2>2. d = Returns(-1, s) \/ d = Returns(0, EndRecord(s))
      BY <1>a, <2>1, EndOfRecord, Zenon
    <2>3. Grows(s, EndRecord(s))
      BY EndPlainGrows
    <2> QED
      BY <1>b, <1>c, <2>2, <2>3, Zenon
  <1>3. ASSUME c.op = "raw_record"
        PROVE  Grows(s, d.s)
    <2>1. d = ndpi_serialize_raw_record(s, mem, c.v)
      BY <1>3, StructureCalls
    <2> DEFINE x == <<"record", c.v>>
               cells == <<x>>
               p == Put(s, cells)
               second == IF mem = "noHeader" THEN "noBuffer" ELSE "ok"
    <2>2. x \in Cell
      <3>1. "record" \in Value
        BY DEF Value
      <3>2. x \in ValueCell
        BY <3>1, ValueCells
      <3> QED
        BY <3>2 DEF ValueCell
    <2>3. cells \in Seq(Cell)
      <3> HIDE DEF x
      <3> QED
        BY <2>2, Tuples
    <2> HIDE DEF d
    <2>4. d = Returns(-1, s) \/ d = Returns(0, ndpi_serialize_end_of_record(p, second).s)
      BY <1>a, <2>1 DEF ndpi_serialize_raw_record, IsEmptyJson
    <2> HIDE DEF cells, second
    <2>6. Grows(s, p)
      BY <1>d, <2>3
    <2> HIDE DEF p
    <2>7. Sane(p) /\ p.fmt \in Plain /\ p.fmt \in Formats
      BY <2>6, <1>a, GrowsOn
    <2>8. Grows(p, EndRecord(p))
      BY <2>7, EndPlainGrows
    <2>9. \/ ndpi_serialize_end_of_record(p, second) = Returns(0, EndRecord(p))
          \/ ndpi_serialize_end_of_record(p, second) = Returns(-1, p)
      BY <2>7, EndOfRecord
    <2>10. Grows(s, EndRecord(p))
      BY <2>6, <2>8, GrowsTrans
    <2> QED
      BY <1>b, <1>c, <2>4, <2>6, <2>9, <2>10, Zenon
  <1>4. ASSUME c.op = "start_of_list"
        PROVE  Grows(s, d.s)
    <2>1. d = ndpi_serialize_start_of_list_binary(s, mem, c.key)
      BY <1>4, StructureCalls
    <2> DEFINE x == <<"type", "unknown", "start_of_list">>
               y == <<"string", c.key>>
               cells == <<x, y>>
    <2>2. x \in Cell /\ y \in Cell
      <3>1. /\ "type" \in Word /\ "unknown" \in Word /\ "start_of_list" \in Word
            /\ "string" \in Word /\ c.key \in Word
        BY DEF Word, Texts, Marks
      <3> QED
        BY <3>1, Tuples DEF Cell
    <2>3. cells \in Seq(Cell)
      <3> HIDE DEF x, y
      <3> QED
        BY <2>2, Tuples
    <2> HIDE DEF d
    <2>4. d = Returns(-1, s) \/ d = Returns(0, Put(s, cells))
      BY <1>a, <2>1 DEF ndpi_serialize_start_of_list_binary, Formats
    <2> HIDE DEF cells
    <2>5. Grows(s, Put(s, cells))
      BY <1>d, <2>3
    <2> QED
      BY <1>b, <1>c, <2>4, <2>5, Zenon
  <1>5. ASSUME c.op = "end_of_list"
        PROVE  Grows(s, d.s)
    <2>1. d = ndpi_serialize_end_of_list(s)
      BY <1>5, StructureCalls
    <2> DEFINE x == <<"type", "unknown", "end_of_list">>
               cells == <<x>>
    <2>2. x \in Cell
      <3>1. "type" \in Word /\ "unknown" \in Word /\ "end_of_list" \in Word
        BY DEF Word, Texts, Marks
      <3> QED
        BY <3>1, Tuples DEF Cell
    <2>3. cells \in Seq(Cell)
      <3> HIDE DEF x
      <3> QED
        BY <2>2, Tuples
    <2> HIDE DEF d
    <2>4. d = Returns(-1, s) \/ d = Returns(0, Put(s, cells))
      BY <1>a, <2>1 DEF ndpi_serialize_end_of_list, Formats
    <2> HIDE DEF cells
    <2>5. Grows(s, Put(s, cells))
      BY <1>d, <2>3
    <2> QED
      BY <1>b, <1>c, <2>4, <2>5, Zenon
  <1>6. ASSUME c.op = "start_of_block"
        PROVE  Grows(s, d.s)
    <2>1. d = ndpi_serialize_start_of_block_binary(s, mem, c.key)
      BY <1>6, StructureCalls
    <2> DEFINE x == <<"type", "unknown", "start_of_block">>
               y == <<"string", c.key>>
               cells == <<x, y>>
    <2>2. x \in Cell /\ y \in Cell
      <3>1. /\ "type" \in Word /\ "unknown" \in Word /\ "start_of_block" \in Word
            /\ "string" \in Word /\ c.key \in Word
        BY DEF Word, Texts, Marks
      <3> QED
        BY <3>1, Tuples DEF Cell
    <2>3. cells \in Seq(Cell)
      <3> HIDE DEF x, y
      <3> QED
        BY <2>2, Tuples
    <2> HIDE DEF d
    <2>4. d = Returns(-1, s) \/ d = Returns(0, Put(s, cells))
      BY <1>a, <2>1 DEF ndpi_serialize_start_of_block_binary, Formats
    <2> HIDE DEF cells
    <2>5. Grows(s, Put(s, cells))
      BY <1>d, <2>3
    <2> QED
      BY <1>b, <1>c, <2>4, <2>5, Zenon
  <1>7. ASSUME c.op = "end_of_block"
        PROVE  Grows(s, d.s)
    <2>1. d = ndpi_serialize_end_of_block(s, mem)
      BY <1>7, StructureCalls
    <2> DEFINE x == <<"type", "unknown", "end_of_block">>
               cells == <<x>>
    <2>2. x \in Cell
      <3>1. "type" \in Word /\ "unknown" \in Word /\ "end_of_block" \in Word
        BY DEF Word, Texts, Marks
      <3> QED
        BY <3>1, Tuples DEF Cell
    <2>3. cells \in Seq(Cell)
      <3> HIDE DEF x
      <3> QED
        BY <2>2, Tuples
    <2> HIDE DEF d
    <2>4. d = Returns(-1, s) \/ d = Returns(0, Put(s, cells))
      BY <1>a, <2>1 DEF ndpi_serialize_end_of_block, Formats
    <2> HIDE DEF cells
    <2>5. Grows(s, Put(s, cells))
      BY <1>d, <2>3
    <2> QED
      BY <1>b, <1>c, <2>4, <2>5, Zenon
  <1> HIDE DEF d
  <1>8. Grows(s, d.s)
    BY <1>1, <1>2, <1>3, <1>4, <1>5, <1>6, <1>7 DEF Structure
  <1> QED
    BY <1>8 DEF d

-----------------------------------------------------------------------------
(* What a call leaves of a JSON document. *)

\* The flag of an empty record plays no part in JSON.
LEMMA NotEmptyFlag ==
    ASSUME NEW t, IsClosed(t)
    PROVE  LET r == Raise(t, "NOT_EMPTY")
           IN  /\ IsClosed(r) /\ Body(r) = Body(t) /\ r.data = t.data /\ r.used = t.used
               /\ r.fmt = t.fmt /\ r.snapshot = t.snapshot /\ r.header = t.header /\ r.hused = t.hused
               /\ \A x : x # "NOT_EMPTY" => (x \in r.flags <=> x \in t.flags)
               /\ \A k : GoodJson(t, k) => GoodJson(r, k)
  <1> DEFINE n == "NOT_EMPTY"
             r == Raise(t, n)
             fl == t.flags
             gl == r.flags
  <1>1. t \in Serializers /\ n \in Flags
    BY ClosingFacts, FlagNames
  <1>2. /\ r \in Serializers /\ gl = fl \cup {n} /\ r.data = t.data /\ r.used = t.used
        /\ r.fmt = t.fmt /\ r.snapshot = t.snapshot /\ r.header = t.header /\ r.hused = t.hused
    <2> HIDE DEF n
    <2> QED
      BY <1>1, FlagFacts
  <1> HIDE DEF r
  <1>3. \A x : x # "NOT_EMPTY" => (x \in gl <=> x \in fl)
    BY <1>2
  <1>4. Closing(gl) = Closing(fl)
    BY <1>3 DEF Closing
  <1>5. IsClosed(r) /\ Body(r) = Body(t)
    BY <1>2, <1>4 DEF IsClosed, InBuffer, Body
  <1>6. ASSUME NEW k, GoodJson(t, k)
        PROVE  GoodJson(r, k)
    <2>1. /\ "EOR" \in gl <=> "EOR" \in fl
          /\ "LIST" \in gl <=> "LIST" \in fl
          /\ "ARRAY" \in gl <=> "ARRAY" \in fl
          /\ "SOB" \in gl <=> "SOB" \in fl
          /\ "SOL" \in gl <=> "SOL" \in fl
          /\ "COMMA" \in gl <=> "COMMA" \in fl
      BY <1>3
    <2> HIDE DEF gl, fl
    <2>2. FlagsRight(gl, k)
      <3>1. FlagsRight(fl, k)
        BY <1>6 DEF GoodJson, fl
      <3> QED
        BY <2>1, <3>1 DEF FlagsRight
    <2>3. BracketsRight(r)
      <3>1. BracketsRight(t)
        BY <1>6 DEF GoodJson
      <3> QED
        BY <1>2, <1>5, <2>1, <3>1, Zenon DEF BracketsRight, gl, fl
    <2>4. \A base : Inside(gl, base, k) = Inside(fl, base, k)
      BY <2>1 DEF Inside
    <2>5. r.data[1] = IF "ARRAY" \in gl THEN <<"[">> ELSE <<" ">>
      <3>1. t.data[1] = IF "ARRAY" \in fl THEN <<"[">> ELSE <<" ">>
        BY <1>6, Zenon DEF GoodJson, fl
      <3> QED
        BY <1>2, <2>1, <3>1, Zenon
    <2>6. ASSUME NEW base \in Bases, "ARRAY" \notin gl \/ base = InArray
          PROVE  ReadTo(base, r.data, Body(r)) = Inside(gl, base, k)
      <3>1. "ARRAY" \notin t.flags \/ base = InArray
        BY <2>1, <2>6 DEF fl
      <3>2. ReadTo(base, t.data, Body(t)) = Inside(fl, base, k)
        BY <1>6, <3>1, Zenon DEF GoodJson, fl
      <3> QED
        BY <1>2, <1>5, <2>4, <3>2, Zenon
    <2>7. 1 <= Body(r)
      BY <1>5, <1>6 DEF GoodJson
    <2> QED
      BY <1>5, <2>2, <2>3, <2>5, <2>6, <2>7, Zenon DEF GoodJson, gl
  <1> QED
    BY <1>2, <1>3, <1>5, <1>6, Zenon DEF r, n, fl, gl

LEMMA JsonKeepsSelf ==
    ASSUME NEW s, IsClosed(s)
    PROVE  JsonKeeps(s, s)
  <1> DEFINE b == Body(s)
             two == 2
  <1>1. InBuffer(s) /\ b \in Nat /\ b <= s.used /\ two \in Nat
    BY ClosingFacts
  <1> HIDE DEF b, two
  <1>2. Keeps(s, two, b, s)
    BY <1>1, KeepsSelf
  <1> QED
    BY <1>1, <1>2 DEF JsonKeeps, b, two

LEMMA JsonItemCall ==
    ASSUME NEW s, IsClosed(s), s.fmt = "json", NEW mem, NEW c, c.key \in Texts, c.v \in Texts,
           c.op \in Items
    PROVE  LET t == Perform(s, mem, c).s
           IN  /\ JsonKeeps(s, t)
               /\ "LIST" \in t.flags <=> "LIST" \in s.flags
               /\ "ARRAY" \in t.flags <=> "ARRAY" \in s.flags
               /\ \A k \in Nat : GoodJson(s, k) => GoodJson(t, k)
  <1> DEFINE d == Perform(s, mem, c)
             key == c.key
             t == d.s
  <1>1. s \in Serializers /\ key \in Texts
    BY ClosingFacts
  <1>2. ItemOutcome(s, key, d)
    BY <1>1, ItemOutcomes
  <1> HIDE DEF d, key
  <1>3. \/ t = s
        \/ \E text \in ValueCell : t = Raise(JsonAdd(s, key, text), "NOT_EMPTY")
    BY <1>2 DEF ItemOutcome
  <1>4. CASE t = s
    <2>1. JsonKeeps(s, s)
      BY JsonKeepsSelf
    <2> QED
      BY <1>4, <2>1 DEF d
  <1>5. ASSUME NEW text \in ValueCell, t = Raise(JsonAdd(s, key, text), "NOT_EMPTY")
        PROVE  /\ JsonKeeps(s, t)
               /\ "LIST" \in t.flags <=> "LIST" \in s.flags
               /\ "ARRAY" \in t.flags <=> "ARRAY" \in s.flags
               /\ \A k \in Nat : GoodJson(s, k) => GoodJson(t, k)
    <2> DEFINE a == JsonAdd(s, key, text)
    <2>1. /\ JsonResult(s, a) /\ a.flags = PreFlags(s.flags) \cup {"COMMA"}
          /\ \A k \in Nat : GoodJson(s, k) => GoodJson(a, k)
      BY <1>1, JsonItem DEF JsonAdd
    <2>2. t = Raise(a, "NOT_EMPTY")
      BY <1>5
    <2> HIDE DEF a, t
    <2>3. IsClosed(a)
      BY <2>1 DEF JsonResult
    <2>4. /\ IsClosed(t) /\ Body(t) = Body(a) /\ t.data = a.data /\ t.used = a.used
          /\ t.fmt = a.fmt /\ t.snapshot = a.snapshot /\ t.header = a.header /\ t.hused = a.hused
          /\ \A x : x # "NOT_EMPTY" => (x \in t.flags <=> x \in a.flags)
          /\ \A k : GoodJson(a, k) => GoodJson(t, k)
      BY <2>2, <2>3, NotEmptyFlag
    <2>5. /\ "LIST" \in a.flags <=> "LIST" \in s.flags
          /\ "ARRAY" \in a.flags <=> "ARRAY" \in s.flags
      BY <2>1 DEF PreFlags
    <2>6. /\ "LIST" \in t.flags <=> "LIST" \in s.flags
          /\ "ARRAY" \in t.flags <=> "ARRAY" \in s.flags
      BY <2>4, <2>5
    <2>7. JsonResult(s, t)
      <3>1. InBuffer(t)
        BY <2>4 DEF IsClosed
      <3>2. Keeps(s, 1, Body(s), t)
        BY <2>1, <2>4, <3>1, Zenon DEF JsonResult, Keeps
      <3> QED
        BY <2>1, <2>4, <3>2, Zenon DEF JsonResult
    <2>8. JsonKeeps(s, t)
      BY <2>6, <2>7, ResultKeeps
    <2> QED
      BY <2>1, <2>4, <2>6, <2>8, Zenon
  <1>6. /\ JsonKeeps(s, t)
        /\ "LIST" \in t.flags <=> "LIST" \in s.flags
        /\ "ARRAY" \in t.flags <=> "ARRAY" \in s.flags
        /\ \A k \in Nat : GoodJson(s, k) => GoodJson(t, k)
    BY <1>3, <1>4, <1>5, Zenon DEF d
  <1> QED
    BY <1>6, Zenon DEF d

LEMMA JsonListCalls ==
    ASSUME NEW s, IsClosed(s), s.fmt = "json", NEW mem, NEW c, c.key \in Texts
    PROVE  LET d == Perform(s, mem, c)
           IN  /\ c.op = "start_of_list" /\ "LIST" \notin s.flags =>
                    /\ JsonKeeps(s, d.s)
                    /\ \/ d.rc = -1 /\ d.s = s
                       \/ /\ d.rc = 0 /\ "LIST" \in d.s.flags
                          /\ \A k \in Nat : GoodJson(s, k) => GoodJson(d.s, k)
               /\ c.op = "end_of_list" /\ "LIST" \in s.flags =>
                    /\ JsonKeeps(s, d.s) /\ d.rc = 0 /\ "LIST" \notin d.s.flags
                    /\ \A k \in Nat : GoodJson(s, k) => GoodJson(d.s, k)
  <1> DEFINE d == Perform(s, mem, c)
             key == c.key
  <1>a. key \in Texts
    OBVIOUS
  <1>b. JsonKeeps(s, s)
    BY JsonKeepsSelf
  <1>1. ASSUME c.op = "start_of_list", "LIST" \notin s.flags
        PROVE  /\ JsonKeeps(s, d.s)
               /\ \/ d.rc = -1 /\ d.s = s
                  \/ /\ d.rc = 0 /\ "LIST" \in d.s.flags
                     /\ \A k \in Nat : GoodJson(s, k) => GoodJson(d.s, k)
    <2> DEFINE begun == Put(ndpi_serialize_json_pre(s), <<<<"key", key>>, <<":">>, <<"[">>>>)
               t == ndpi_serialize_json_post(Raise(Raise(begun, "LIST"), "SOL"))
    <2>1. d = ndpi_serialize_start_of_list_binary(s, mem, key)
      BY <1>1, StructureCalls
    <2>2. /\ JsonResult(s, t) /\ t.flags = PreFlags(s.flags) \cup {"LIST", "SOL", "COMMA"}
          /\ \A k \in Nat : GoodJson(s, k) /\ "LIST" \notin s.flags => GoodJson(t, k)
      BY <1>a, JsonStartOfList
    <2> HIDE DEF d
    <2>3. d = Returns(-1, s) \/ d = Returns(0, t)
      BY <2>1 DEF ndpi_serialize_start_of_list_binary
    <2> HIDE DEF t
    <2>4. (d.rc = -1 /\ d.s = s) \/ (d.rc = 0 /\ d.s = t)
      BY <2>3 DEF Returns
    <2>5. "LIST" \in t.flags /\ ("ARRAY" \in s.flags => "ARRAY" \in t.flags)
      BY <2>2 DEF PreFlags
    <2>6. JsonKeeps(s, t)
      BY <2>2, <2>5, ResultKeeps
    <2> QED
      BY <1>1, <1>b, <2>2, <2>4, <2>5, <2>6, Zenon
  <1>2. ASSUME c.op = "end_of_list", "LIST" \in s.flags
        PROVE  /\ JsonKeeps(s, d.s) /\ d.rc = 0 /\ "LIST" \notin d.s.flags
               /\ \A k \in Nat : GoodJson(s, k) => GoodJson(d.s, k)
    <2> DEFINE t == Clear(Clear(s, "SOL"), "LIST")
    <2>1. d = ndpi_serialize_end_of_list(s)
      BY <1>2, StructureCalls
    <2>2. /\ JsonResult(s, t) /\ t.flags = s.flags \ {"SOL", "LIST"}
          /\ \A k \in Nat : GoodJson(s, k) /\ "LIST" \in s.flags => GoodJson(t, k)
      BY JsonEndOfList
    <2> HIDE DEF d
    <2>3. d = Returns(0, t)
      BY <2>1 DEF ndpi_serialize_end_of_list
    <2> HIDE DEF t
    <2>4. d.rc = 0 /\ d.s = t
      BY <2>3 DEF Returns
    <2>5. "LIST" \notin t.flags /\ ("ARRAY" \in s.flags => "ARRAY" \in t.flags)
      BY <2>2
    <2>6. JsonKeeps(s, t)
      BY <2>2, <2>5, ResultKeeps
    <2> QED
      BY <1>2, <2>2, <2>4, <2>5, <2>6, Zenon
  <1> QED
    BY <1>1, <1>2, Zenon

LEMMA JsonBlockCalls ==
    ASSUME NEW s, IsClosed(s), s.fmt = "json", NEW mem, NEW c, c.key \in Texts, "LIST" \notin s.flags
    PROVE  LET d == Perform(s, mem, c)
           IN  /\ c.op = "start_of_block" =>
                    /\ JsonKeeps(s, d.s)
                    /\ \/ d.rc = -1 /\ d.s = s
                       \/ /\ d.rc = 0 /\ "LIST" \notin d.s.flags /\ mem # "noBuffer"
                          /\ "ARRAY" \in d.s.flags <=> "ARRAY" \in s.flags
                          /\ \A k \in Nat : GoodJson(s, k) /\ "ARRAY" \notin s.flags
                                              => GoodJson(d.s, k + 1)
               /\ c.op = "end_of_block" =>
                    /\ JsonKeeps(s, d.s)
                    /\ \/ d.rc = -1 /\ d.s = s
                       \/ /\ d.rc = 0 /\ "LIST" \notin d.s.flags
                          /\ "ARRAY" \in d.s.flags <=> "ARRAY" \in s.flags
                          /\ \A k \in Nat : GoodJson(s, k + 1) => GoodJson(d.s, k)
               /\ c.op \in {"start_of_block", "end_of_block"} /\ mem # "noBuffer" => d.rc = 0
  <1> DEFINE d == Perform(s, mem, c)
             key == c.key
  <1>a. key \in Texts
    OBVIOUS
  <1>b. JsonKeeps(s, s)
    BY JsonKeepsSelf
  <1>1. ASSUME c.op = "start_of_block"
        PROVE  /\ JsonKeeps(s, d.s)
               /\ \/ d.rc = -1 /\ d.s = s
                  \/ /\ d.rc = 0 /\ "LIST" \notin d.s.flags /\ mem # "noBuffer"
                     /\ "ARRAY" \in d.s.flags <=> "ARRAY" \in s.flags
                     /\ \A k \in Nat : GoodJson(s, k) /\ "ARRAY" \notin s.flags => GoodJson(d.s, k + 1)
               /\ mem # "noBuffer" => d.rc = 0
    <2> DEFINE begun == Put(ndpi_serialize_json_pre(s), <<<<"key", key>>, <<":">>, <<"{">>>>)
               t == Raise(ndpi_serialize_json_post(begun), "SOB")
    <2>1. d = ndpi_serialize_start_of_block_binary(s, mem, key)
      BY <1>1, StructureCalls
    <2>2. /\ JsonResult(s, t) /\ t.flags = PreFlags(s.flags) \cup {"SOB", "COMMA"}
          /\ \A k \in Nat : GoodJson(s, k) /\ "LIST" \notin s.flags /\ "ARRAY" \notin s.flags
                    => GoodJson(t, k + 1)
      BY <1>a, JsonStartOfBlock
    <2> HIDE DEF d
    <2>3. (mem = "noBuffer" /\ d = Returns(-1, s)) \/ (mem # "noBuffer" /\ d = Returns(0, t))
      BY <2>1 DEF ndpi_serialize_start_of_block_binary
    <2> HIDE DEF t
    <2>4. (mem = "noBuffer" /\ d.rc = -1 /\ d.s = s) \/ (mem # "noBuffer" /\ d.rc = 0 /\ d.s = t)
      BY <2>3 DEF Returns
    <2>5. "LIST" \notin t.flags /\ ("ARRAY" \in s.flags <=> "ARRAY" \in t.flags)
      BY <2>2 DEF PreFlags
    <2>6. JsonKeeps(s, t)
      BY <2>2, <2>5, ResultKeeps
    <2> QED
      BY <1>b, <2>2, <2>4, <2>5, <2>6, Zenon
  <1>2. ASSUME c.op = "end_of_block"
        PROVE  /\ JsonKeeps(s, d.s)
               /\ \/ d.rc = -1 /\ d.s = s
                  \/ /\ d.rc = 0 /\ "LIST" \notin d.s.flags
                     /\ "ARRAY" \in d.s.flags <=> "ARRAY" \in s.flags
                     /\ \A k \in Nat : GoodJson(s, k + 1) => GoodJson(d.s, k)
               /\ mem # "noBuffer" => d.rc = 0
    <2> DEFINE t == ndpi_serialize_json_post(Clear(s, "SOB"))
    <2>1. d = ndpi_serialize_end_of_block(s, mem)
      BY <1>2, StructureCalls
    <2>2. /\ JsonResult(s, t) /\ t.flags = (s.flags \ {"SOB"}) \cup {"COMMA"}
          /\ \A k \in Nat : GoodJson(s, k + 1) /\ "LIST" \notin s.flags => GoodJson(t, k)
      BY JsonEndOfBlock
    <2> HIDE DEF d
    <2>3. (mem = "noBuffer" /\ d = Returns(-1, s)) \/ (mem # "noBuffer" /\ d = Returns(0, t))
      BY <2>1 DEF ndpi_serialize_end_of_block
    <2> HIDE DEF t
    <2>4. (mem = "noBuffer" /\ d.rc = -1 /\ d.s = s) \/ (mem # "noBuffer" /\ d.rc = 0 /\ d.s = t)
      BY <2>3 DEF Returns
    <2>5. "LIST" \notin t.flags /\ ("ARRAY" \in s.flags <=> "ARRAY" \in t.flags)
      BY <2>2
    <2>6. JsonKeeps(s, t)
      BY <2>2, <2>5, ResultKeeps
    <2> QED
      BY <1>b, <2>2, <2>4, <2>5, <2>6, Zenon
  <1>3. c.op \in {"start_of_block", "end_of_block"} /\ mem # "noBuffer" => d.rc = 0
    <2> HIDE DEF d
    <2> QED
      BY <1>1, <1>2
  <1> QED
    BY <1>1, <1>2, <1>3, Zenon

LEMMA JsonRecordCalls ==
    ASSUME NEW s, IsClosed(s), s.fmt = "json", NEW mem, NEW c, c.v \in Texts, "LIST" \notin s.flags
    PROVE  LET d == Perform(s, mem, c)
           IN  /\ c.op = "end_of_record" =>
                    /\ JsonKeeps(s, d.s) /\ "LIST" \notin d.s.flags
                    /\ GoodJson(s, 0) => GoodJson(d.s, 0)
               /\ c.op = "raw_record" /\ (IsEmptyJson(s) \/ "ARRAY" \in s.flags) =>
                    /\ IsClosed(d.s) /\ "LIST" \notin d.s.flags
                    /\ d.s.fmt = s.fmt /\ d.s.snapshot = s.snapshot /\ d.s.hused = s.hused
                    /\ ~IsEmptyJson(s) => JsonKeeps(s, d.s)
                    /\ mem # "noBuffer" /\ GoodJson(s, 0) => GoodJson(d.s, 0)
  <1> DEFINE d == Perform(s, mem, c)
  <1>b. JsonKeeps(s, s)
    BY JsonKeepsSelf
  <1>c. s.fmt \in Formats /\ InBuffer(s) /\ s \in Serializers
    BY ClosingFacts DEF Formats
  <1>1. ASSUME c.op = "end_of_record"
        PROVE  /\ JsonKeeps(s, d.s) /\ "LIST" \notin d.s.flags
               /\ GoodJson(s, 0) => GoodJson(d.s, 0)
    <2> DEFINE t == EndJson(s)
    <2>1. d = ndpi_serialize_end_of_record(s, mem)
      BY <1>1, StructureCalls
    <2>2. /\ JsonKeeps(s, t)
          /\ GoodJson(s, 0) /\ "LIST" \notin s.flags => GoodJson(t, 0)
      BY JsonEndOfRecord
    <2>3. EndRecord(s) = t
      BY DEF EndRecord
    <2> HIDE DEF d
    <2>4. d = Returns(-1, s) \/ d = Returns(0, t)
      BY <1>c, <2>1, <2>3, EndOfRecord, Zenon
    <2>5. "LIST" \notin t.flags
      <3>1. 1 <= s.used
        BY ClosingFacts
      <3>2. t.flags = (s.flags \cup {"ARRAY", "EOR"}) \ {"COMMA", "NOT_EMPTY"}
        BY <1>c, <3>1, EndJsonFacts
      <3> QED
        BY <3>2
    <2> HIDE DEF t
    <2>6. d.s = s \/ d.s = t
      BY <2>4 DEF Returns
    <2> QED
      BY <1>b, <2>2, <2>5, <2>6, Zenon
  <1>2. ASSUME c.op = "raw_record", IsEmptyJson(s) \/ "ARRAY" \in s.flags
        PROVE  /\ IsClosed(d.s) /\ "LIST" \notin d.s.flags
               /\ d.s.fmt = s.fmt /\ d.s.snapshot = s.snapshot /\ d.s.hused = s.hused
               /\ ~IsEmptyJson(s) => JsonKeeps(s, d.s)
               /\ mem # "noBuffer" /\ GoodJson(s, 0) => GoodJson(d.s, 0)
    <2> DEFINE x == <<"record", c.v>>
               v == c.v
               cut == [s EXCEPT !.used = 2]
               p == Put(Drop(cut, 1), <<x>>)
               q == Put(Poke(s, s.used, <<",">>), <<x>> \o <<<<"]">>>>)
    <2>1. d = ndpi_serialize_raw_record(s, mem, v)
      BY <1>2, StructureCalls
    <2>2. x \in ValueCell
      <3>1. "record" \in Value
        BY DEF Value
      <3> QED
        BY <3>1, ValueCells
    <2> HIDE DEF d
    <2>3. CASE IsEmptyJson(s)
      <3> DEFINE t == EndJson(p)
      <3>1. s.used = 3 /\ s.data[2] = <<"{">>
        BY <2>3 DEF IsEmptyJson
      <3>2. s.used = 3
        BY <3>1, Zenon
      <3>3. /\ IsClosed(t) /\ Keeps(s, 2, 1, t)
            /\ t.flags = (s.flags \cup {"ARRAY", "EOR"}) \ {"COMMA", "NOT_EMPTY"}
            /\ GoodJson(s, 0) /\ "LIST" \notin s.flags /\ s.data[2] = <<"{">> => GoodJson(t, 0)
        <4> HIDE DEF x
        <4> QED
          BY <1>c, <2>2, <3>2, JsonRawFirst
      <3>4. IsClosed(cut) /\ cut.flags = s.flags /\ cut.fmt = s.fmt /\ cut.snapshot = s.snapshot
            /\ cut.hused = s.hused
        <4>1. cut \in Serializers /\ cut.flags = s.flags /\ cut.fmt = s.fmt /\ cut.snapshot = s.snapshot
              /\ cut.used = 2 /\ cut.data = s.data /\ cut.header = s.header /\ cut.hused = s.hused
          BY <1>c DEF Serializers
        <4> HIDE DEF cut
        <4>2. Len(s.data) \in Nat /\ s.used <= Len(s.data)
          BY <1>c DEF InBuffer, Serializers
        <4>3. InBuffer(cut)
          BY <1>c, <3>2, <4>1, <4>2 DEF InBuffer
        <4>4. Closing(s.flags) <= 2
          BY DEF Closing
        <4> QED
          BY <4>1, <4>3, <4>4 DEF IsClosed
      <3>5. p.fmt = "json"
        <4>1. p.fmt = s.fmt
          BY <1>c DEF Put, Drop, Serializers
        <4> QED
          BY <4>1
      <3> HIDE DEF cut, x
      <3>6. (mem = "noBuffer" /\ d = Returns(-1, cut))
            \/ (mem # "noBuffer" /\ d = Returns(0, ndpi_serialize_end_of_record(p, "ok").s))
        BY <2>1, <2>3 DEF ndpi_serialize_raw_record, cut, x, v
      <3> HIDE DEF p
      <3>7. ndpi_serialize_end_of_record(p, "ok").s = t
        <4>1. p.fmt \in Formats /\ "ok" # "noBuffer"
          BY <3>5 DEF Formats
        <4>2. ndpi_serialize_end_of_record(p, "ok") = Returns(0, EndRecord(p))
          BY <4>1, EndOfRecord, Zenon
        <4>3. EndRecord(p) = t
          BY <3>5 DEF EndRecord
        <4> QED
          BY <4>2, <4>3 DEF Returns
      <3> HIDE DEF t
      <3>8. (mem = "noBuffer" /\ d.s = cut) \/ (mem # "noBuffer" /\ d.s = t)
        BY <3>6, <3>7 DEF Returns
      <3>9. "LIST" \notin t.flags
        BY <3>3
      <3>10. t.fmt = s.fmt /\ t.snapshot = s.snapshot /\ t.hused = s.hused
        BY <3>3 DEF Keeps
      <3> QED
        BY <2>3, <3>1, <3>3, <3>4, <3>8, <3>9, <3>10, Zenon
    <2>4. CASE ~IsEmptyJson(s)
      <3> DEFINE t == EndJson(q)
      <3>1. "ARRAY" \in s.flags
        BY <1>2, <2>4
      <3>2. /\ JsonKeeps(s, t)
            /\ t.flags = (s.flags \cup {"ARRAY", "EOR"}) \ {"COMMA", "NOT_EMPTY"}
            /\ GoodJson(s, 0) /\ "LIST" \notin s.flags => GoodJson(t, 0)
        <4> HIDE DEF x
        <4> QED
          BY <2>2, <3>1, JsonRawAppend
      <3>3. q.fmt = "json"
        <4>1. q.fmt = s.fmt
          BY <1>c DEF Put, Poke, Serializers
        <4> QED
          BY <4>1
      <3> HIDE DEF x
      <3>4. (mem = "noBuffer" /\ d = Returns(-1, s))
            \/ (mem # "noBuffer" /\ d = Returns(0, ndpi_serialize_end_of_record(q, "ok").s))
        BY <2>1, <2>4 DEF ndpi_serialize_raw_record, x, v
      <3> HIDE DEF q
      <3>5. ndpi_serialize_end_of_record(q, "ok").s = t
        <4>1. q.fmt \in Formats /\ "ok" # "noBuffer"
          BY <3>3 DEF Formats
        <4>2. ndpi_serialize_end_of_record(q, "ok") = Returns(0, EndRecord(q))
          BY <4>1, EndOfRecord, Zenon
        <4>3. EndRecord(q) = t
          BY <3>3 DEF EndRecord
        <4> QED
          BY <4>2, <4>3 DEF Returns
      <3> HIDE DEF t
      <3>6. (mem = "noBuffer" /\ d.s = s) \/ (mem # "noBuffer" /\ d.s = t)
        BY <3>4, <3>5 DEF Returns
      <3>7. "LIST" \notin t.flags
        BY <3>2
      <3>8. t.fmt = s.fmt /\ t.snapshot = s.snapshot /\ t.hused = s.hused /\ IsClosed(t)
        BY <3>2 DEF JsonKeeps, Keeps
      <3> QED
        BY <1>b, <3>2, <3>6, <3>7, <3>8, Zenon
    <2> QED
      BY <2>3, <2>4
  <1> QED
    BY <1>1, <1>2, Zenon

-----------------------------------------------------------------------------
(* What the caller has open. *)

\* Blocks in blocks, and at most a list in the innermost.
IsOpen(o) ==
    /\ o \in Seq({"block", "list"})
    /\ \A i \in 1 .. Len(o) : i < Len(o) => o[i] = "block"

InnerOf(o) == IF o = <<>> THEN "record" ELSE o[Len(o)]

\* The blocks among what is open.
Depth(o) == IF InnerOf(o) = "list" THEN Len(o) - 1 ELSE Len(o)

-----------------------------------------------------------------------------
(* The inductive invariant. *)

\* The serializers can be written to, and JSON is in a list when the caller is.
Standing ==
    /\ DOMAIN ser = Formats
    /\ \A f \in Formats : Sane(ser[f]) /\ ser[f].fmt = f
    /\ caller \in Callers \cup {LANShield}
    /\ IsOpen(open)
    /\ "LIST" \in ser["json"].flags <=> InnerOf(open) = "list"

\* A serializer that can go back to its snapshot.
CanReturn(s) ==
    /\ s.snapshot # NoSnapshot
    /\ s.snapshot.flags \subseteq Flags
    /\ Least(s.fmt, s.snapshot.flags) <= s.snapshot.used
    /\ s.snapshot.hused <= s.hused
    /\ s.fmt \in Plain => s.snapshot.used <= s.used

SavedStanding ==
    /\ saved = [text |-> saved.text, open |-> saved.open, sound |-> saved.sound]
    /\ saved.sound \subseteq Formats
    /\ saved.sound # {} =>
         /\ Plain \subseteq saved.sound
         /\ \A f \in Formats : CanReturn(ser[f])
         /\ IsOpen(saved.open)
         /\ "LIST" \in ser["json"].snapshot.flags <=> InnerOf(saved.open) = "list"
         /\ \A f \in Plain : saved.text[f] = SubSeq(ser[f].data, 1, ser[f].snapshot.used)

\* g is what a document was: what it had before its bracket is still there.
Held(g, s) ==
    /\ Body(g) <= Body(s)
    /\ \A i \in 2 .. Body(g) : s.data[i] = g.data[i]
    /\ "ARRAY" \in g.flags => "ARRAY" \in s.flags /\ s.data[1] = g.data[1]

\* The document of the snapshot.
IsSaved(g, k, text, s) ==
    /\ GoodJson(g, k) /\ g.fmt = "json" /\ Closing(g.flags) = 1
    /\ ndpi_serializer_get_buffer(g) = text
    /\ s.snapshot.flags = g.flags /\ s.snapshot.used = g.used
    /\ Held(g, s)

SavedGood ==
    "json" \in saved.sound =>
      \E g : IsSaved(g, Depth(saved.open), saved.text["json"], ser["json"])

\* The marks of what is not claimed of JSON.
Spoilt == {"late block", "cut", "brace"}

JsonGood ==
    /\ caller # LANShield => "brace" \notin marks
    /\ marks \cap Spoilt = {} => GoodJson(ser["json"], Depth(open))

SerializerInv == Standing /\ SavedStanding /\ SavedGood /\ JsonGood

-----------------------------------------------------------------------------
(* How the calls change what is open. *)

LEMMA OpenFacts ==
    ASSUME NEW o, IsOpen(o)
    PROVE  /\ Len(o) \in Nat /\ Depth(o) \in Nat
           /\ InnerOf(o) \in {"record", "block", "list"}
           /\ InnerOf(o) = "record" <=> o = <<>>
           /\ InnerOf(o) = "record" => Depth(o) = 0
           /\ InnerOf(o) # "list" => Depth(o) = Len(o) /\ \A i \in 1 .. Len(o) : o[i] = "block"
  <1>1. Len(o) \in Nat /\ o \in Seq({"block", "list"})
    BY DEF IsOpen
  <1>2. o # <<>> => Len(o) \in 1 .. Len(o) /\ o[Len(o)] \in {"block", "list"}
    BY <1>1
  <1>3. o = <<>> => Len(o) = 0
    BY <1>1
  <1>4. InnerOf(o) \in {"record", "block", "list"} /\ (InnerOf(o) = "record" <=> o = <<>>)
    BY <1>2 DEF InnerOf
  <1>5. InnerOf(o) = "list" => 1 <= Len(o)
    BY <1>1, <1>2 DEF InnerOf
  <1>6. Depth(o) \in Nat
    BY <1>1, <1>5 DEF Depth
  <1>7. InnerOf(o) = "record" => Depth(o) = 0
    BY <1>3, <1>4 DEF Depth
  <1>8. InnerOf(o) # "list" => Depth(o) = Len(o)
    BY DEF Depth
  <1>9. ASSUME InnerOf(o) # "list", NEW i \in 1 .. Len(o)
        PROVE  o[i] = "block"
    <2>1. o # <<>>
      BY <1>1
    <2>2. o[Len(o)] = "block"
      BY <1>2, <1>9, <2>1 DEF InnerOf
    <2> QED
      BY <1>1, <2>2 DEF IsOpen
  <1> QED
    BY <1>1, <1>4, <1>6, <1>7, <1>8, <1>9, Zenon

LEMMA OpenEmpty ==
    IsOpen(<<>>) /\ InnerOf(<<>>) = "record" /\ Depth(<<>>) = 0
  <1>1. <<>> \in Seq({"block", "list"}) /\ Len(<<>>) = 0
    OBVIOUS
  <1>2. IsOpen(<<>>)
    BY <1>1 DEF IsOpen
  <1> QED
    BY <1>1, <1>2 DEF InnerOf, Depth

LEMMA OpenMore ==
    ASSUME NEW o, IsOpen(o), InnerOf(o) # "list", NEW x \in {"block", "list"}
    PROVE  /\ IsOpen(Append(o, x)) /\ InnerOf(Append(o, x)) = x
           /\ x = "list" => Depth(Append(o, x)) = Depth(o)
           /\ x = "block" => Depth(Append(o, x)) = Depth(o) + 1
  <1> DEFINE p == Append(o, x)
             S == {"block", "list"}
  <1>1. o \in Seq(S) /\ Len(o) \in Nat /\ x \in S /\ Depth(o) = Len(o)
    BY OpenFacts DEF IsOpen
  <1>a. \A i \in 1 .. Len(o) : o[i] = "block"
    BY OpenFacts
  <1>2. p \in Seq(S) /\ Len(p) = Len(o) + 1 /\ p[Len(o) + 1] = x
        /\ \A i \in 1 .. Len(o) : p[i] = o[i]
    <2> HIDE DEF S
    <2> QED
      BY <1>1
  <1> HIDE DEF p
  <1>3. p # <<>>
    BY <1>1, <1>2
  <1>4. IsOpen(p)
    BY <1>1, <1>a, <1>2 DEF IsOpen
  <1>5. InnerOf(p) = x
    BY <1>2, <1>3 DEF InnerOf
  <1>6. x = "list" => Depth(p) = Len(o)
    BY <1>1, <1>2, <1>5 DEF Depth
  <1>7. x = "block" => Depth(p) = Len(o) + 1
    BY <1>1, <1>2, <1>5 DEF Depth
  <1> QED
    BY <1>1, <1>4, <1>5, <1>6, <1>7 DEF p

LEMMA OpenLess ==
    ASSUME NEW o, IsOpen(o), InnerOf(o) # "record"
    PROVE  /\ IsOpen(Front(o)) /\ InnerOf(Front(o)) # "list"
           /\ InnerOf(o) = "list" => Depth(Front(o)) = Depth(o)
           /\ InnerOf(o) = "block" => Depth(Front(o)) + 1 = Depth(o)
  <1> DEFINE p == Front(o)
             S == {"block", "list"}
  <1>1. o \in Seq(S) /\ Len(o) \in Nat /\ o # <<>>
    BY OpenFacts DEF IsOpen
  <1>2. p \in Seq(S) /\ Len(p) = Len(o) - 1 /\ \A i \in 1 .. Len(o) - 1 : p[i] = o[i]
    <2> HIDE DEF S
    <2> QED
      BY <1>1 DEF Front
  <1>3. 1 <= Len(o)
    BY <1>1
  <1> HIDE DEF p
  <1>4. \A i \in 1 .. Len(p) : p[i] = "block"
    BY <1>1, <1>2 DEF IsOpen
  <1>5. IsOpen(p)
    BY <1>2, <1>4 DEF IsOpen
  <1>6. InnerOf(p) # "list"
    <2>1. p # <<>> => Len(p) \in 1 .. Len(p)
      BY <1>2
    <2> QED
      BY <1>4, <2>1 DEF InnerOf
  <1>7. Depth(p) = Len(o) - 1
    BY <1>2, <1>6 DEF Depth
  <1>8. (InnerOf(o) = "list" => Depth(p) = Depth(o)) /\ (InnerOf(o) = "block" => Depth(p) + 1 = Depth(o))
    BY <1>1, <1>7 DEF Depth
  <1> QED
    BY <1>5, <1>6, <1>8 DEF p

-----------------------------------------------------------------------------
(* A call of the caller. *)

LEMMA CallFacts ==
    ASSUME caller \in Callers \cup {LANShield}, NEW c \in caller.calls
    PROVE  c.key \in Texts /\ c.v \in Texts /\ c.op \in Items \cup Structure
  <1>1. caller \in Callers
    BY DEF LANShield
  <1>2. c \in AllCalls
    BY <1>1 DEF AllCalls
  <1>3. c.key \in Texts /\ c.v \in Texts
    BY <1>2 DEF Texts
  <1> QED
    BY <1>1, <1>3, SerializerAssumption

\* What the interface asks for, operation by operation.
LEMMA AllowedFacts ==
    ASSUME NEW op, Allowed(op)
    PROVE  /\ op \in {"start_of_list", "start_of_block"} => InnerOf(open) # "list"
           /\ op = "end_of_list" => InnerOf(open) = "list"
           /\ op = "end_of_block" => InnerOf(open) = "block"
           /\ op \in {"end_of_record", "raw_record"} => InnerOf(open) = "record"
           /\ op = "raw_record" => IsEmptyJson(ser["json"]) \/ "ARRAY" \in ser["json"].flags
  <1>1. Inner = InnerOf(open)
    BY DEF Inner, InnerOf
  <1>2. ASSUME op \in {"start_of_list", "start_of_block"}
        PROVE  InnerOf(open) # "list"
    BY <1>1, <1>2 DEF Allowed
  <1>3. ASSUME op = "end_of_list"
        PROVE  InnerOf(open) = "list"
    BY <1>1, <1>3 DEF Allowed
  <1>4. ASSUME op = "end_of_block"
        PROVE  InnerOf(open) = "block"
    BY <1>1, <1>4 DEF Allowed
  <1>5. ASSUME op = "end_of_record"
        PROVE  InnerOf(open) = "record"
    BY <1>1, <1>5 DEF Allowed
  <1>6. ASSUME op = "raw_record"
        PROVE  InnerOf(open) = "record" /\ (IsEmptyJson(ser["json"]) \/ "ARRAY" \in ser["json"].flags)
    BY <1>1, <1>6 DEF Allowed
  <1> QED
    BY <1>2, <1>3, <1>4, <1>5, <1>6

LEMMA OpenAfterFacts ==
    ASSUME NEW op, op \in Items \cup Structure
    PROVE  /\ op = "start_of_list" => OpenAfter(op) = Append(open, "list")
           /\ op = "start_of_block" => OpenAfter(op) = Append(open, "block")
           /\ op \in {"end_of_list", "end_of_block"} => OpenAfter(op) = Front(open)
           /\ op \in Items \cup {"end_of_record", "raw_record"} => OpenAfter(op) = open
  <1>1. op = "start_of_list" => OpenAfter(op) = Append(open, "list")
    BY DEF OpenAfter
  <1>2. op = "start_of_block" => OpenAfter(op) = Append(open, "block")
    BY DEF OpenAfter
  <1>3. op \in {"end_of_list", "end_of_block"} => OpenAfter(op) = Front(open)
    BY DEF OpenAfter
  <1>4. op \in Items \cup {"end_of_record", "raw_record"} => OpenAfter(op) = open
    BY DEF OpenAfter, Items
  <1> QED
    BY <1>1, <1>2, <1>3, <1>4

LEMMA MarkFacts ==
    ASSUME NEW c, NEW mem
    PROVE  /\ c.op = "raw_record" /\ mem = "noBuffer" => "cut" \in MarksOf(c, mem)
           /\ c.op = "start_of_block" /\ mem # "noBuffer" /\ "ARRAY" \in ser["json"].flags
                => "late block" \in MarksOf(c, mem)
           /\ "brace" \notin MarksOf(c, mem) \cup Uneven(c, mem)
                                \cup (IF mem = "ok" THEN {} ELSE {"memory"})
  <1>1. c.op = "raw_record" /\ mem = "noBuffer" => "cut" \in MarksOf(c, mem)
    BY DEF MarksOf
  <1>2. c.op = "start_of_block" /\ mem # "noBuffer" /\ "ARRAY" \in ser["json"].flags
                => "late block" \in MarksOf(c, mem)
    BY DEF MarksOf
  <1>3. "brace" \notin MarksOf(c, mem)
    <2> DEFINE m == MarksOf(c, mem)
    <2>1. \/ m = {} \/ m = {"cut"} \/ m = {"raw"} \/ m = {"boolean"}
          \/ m = {"format"} \/ m = {"i33"} \/ m = {"digits"} \/ m = {"slice"} \/ m = {"late block"}
      BY Zenon DEF MarksOf
    <2> HIDE DEF m
    <2>2. m = {} \/ m = {"cut"} \/ m = {"raw"} \/ m = {"boolean"} => "brace" \notin m
      OBVIOUS
    <2>3. m = {"format"} \/ m = {"i33"} \/ m = {"digits"} \/ m = {"slice"} => "brace" \notin m
      OBVIOUS
    <2>4. m = {"late block"} => "brace" \notin m
      OBVIOUS
    <2>5. "brace" \notin m
      BY <2>1, <2>2, <2>3, <2>4
    <2> QED
      BY <2>5 DEF m
  <1>4. "brace" \notin Uneven(c, mem) /\ "brace" \notin (IF mem = "ok" THEN {} ELSE {"memory"})
    BY DEF Uneven
  <1> QED
    BY <1>1, <1>2, <1>3, <1>4

\* What a call leaves of the JSON document, and of what is open.
JsonCallFacts(c, mem, s, d, o) ==
    /\ IsClosed(d.s) /\ d.s.fmt = s.fmt /\ d.s.snapshot = s.snapshot /\ d.s.hused = s.hused
    /\ (c.op = "raw_record" /\ IsEmptyJson(s)) \/ JsonKeeps(s, d.s)
    /\ IsOpen(o) /\ ("LIST" \in d.s.flags <=> InnerOf(o) = "list")
    /\ GoodJson(s, Depth(open)) /\ MarksOf(c, mem) \cap Spoilt = {} => GoodJson(d.s, Depth(o))

LEMMA SerializeJson ==
    ASSUME Standing, NEW c \in caller.calls, NEW mem, Allowed(c.op)
    PROVE  LET s == ser["json"]
               d == Perform(s, mem, c)
               o == IF d.rc = 0 THEN OpenAfter(c.op) ELSE open
           IN  JsonCallFacts(c, mem, s, d, o)
  <1> DEFINE s == ser["json"]
             d == Perform(s, mem, c)
             o == IF d.rc = 0 THEN OpenAfter(c.op) ELSE open
             Goal == JsonCallFacts(c, mem, s, d, o)
             k == Depth(open)
  <1>1. IsClosed(s) /\ s.fmt = "json"
    <2>1. "json" \in Formats
      BY DEF Formats
    <2>2. Sane(s) /\ s.fmt = "json"
      BY <2>1 DEF Standing
    <2> QED
      BY <2>2, SaneJson
  <1>2. c.key \in Texts /\ c.v \in Texts /\ c.op \in Items \cup Structure
    BY CallFacts DEF Standing
  <1>3. IsOpen(open) /\ ("LIST" \in s.flags <=> InnerOf(open) = "list")
    BY DEF Standing
  <1>4. k \in Nat
    BY <1>3, OpenFacts
  <1>5. \A t : JsonKeeps(s, t) =>
          IsClosed(t) /\ t.fmt = s.fmt /\ t.snapshot = s.snapshot /\ t.hused = s.hused
    BY DEF JsonKeeps, Keeps
  <1>6. JsonKeeps(s, s)
    BY <1>1, JsonKeepsSelf
  <1> HIDE DEF s, d, k
  <1>7. ASSUME c.op \in Items
        PROVE  Goal
    <2>1. /\ JsonKeeps(s, d.s)
          /\ "LIST" \in d.s.flags <=> "LIST" \in s.flags
          /\ \A n \in Nat : GoodJson(s, n) => GoodJson(d.s, n)
      BY <1>1, <1>2, <1>7, JsonItemCall DEF d
    <2>2. o = open
      BY <1>2, <1>7, OpenAfterFacts
    <2> HIDE DEF o
    <2> QED
      BY <1>3, <1>4, <1>5, <2>1, <2>2, Zenon DEF JsonCallFacts, k
  <1>8. ASSUME c.op = "start_of_list"
        PROVE  Goal
    <2>1. InnerOf(open) # "list"
      BY <1>8, AllowedFacts
    <2>2. /\ JsonKeeps(s, d.s)
          /\ \/ d.rc = -1 /\ d.s = s
             \/ /\ d.rc = 0 /\ "LIST" \in d.s.flags
                /\ \A n \in Nat : GoodJson(s, n) => GoodJson(d.s, n)
      BY <1>1, <1>2, <1>3, <1>8, <2>1, JsonListCalls DEF d
    <2>3. CASE d.rc = -1 /\ d.s = s
      <3>1. o = open
        BY <2>3
      <3>2. "LIST" \in d.s.flags <=> "LIST" \in s.flags
        BY <2>3
      <3> HIDE DEF o
      <3> QED
        BY <1>3, <1>4, <1>5, <2>2, <2>3, <3>1, <3>2, Zenon DEF JsonCallFacts, k
    <2>4. CASE d.rc = 0 /\ "LIST" \in d.s.flags /\ \A n \in Nat : GoodJson(s, n) => GoodJson(d.s, n)
      <3>1. o = Append(open, "list")
        BY <1>2, <1>8, <2>4, OpenAfterFacts
      <3>2. IsOpen(o) /\ InnerOf(o) = "list" /\ Depth(o) = k
        <4> HIDE DEF o
        <4> QED
          BY <1>3, <2>1, <3>1, OpenMore DEF k
      <3> QED
        BY <1>3, <1>4, <1>5, <2>2, <2>4, <3>2, Zenon DEF JsonCallFacts, k
    <2> QED
      BY <2>2, <2>3, <2>4
  <1>9. ASSUME c.op = "end_of_list"
        PROVE  Goal
    <2>1. InnerOf(open) = "list"
      BY <1>9, AllowedFacts
    <2>2. /\ JsonKeeps(s, d.s) /\ d.rc = 0 /\ "LIST" \notin d.s.flags
          /\ \A n \in Nat : GoodJson(s, n) => GoodJson(d.s, n)
      BY <1>1, <1>2, <1>3, <1>9, <2>1, JsonListCalls DEF d
    <2>3. o = Front(open)
      BY <1>2, <1>9, <2>2, OpenAfterFacts
    <2>4. IsOpen(o) /\ InnerOf(o) # "list" /\ Depth(o) = k
      <3> HIDE DEF o
      <3> QED
        BY <1>3, <2>1, <2>3, OpenLess DEF k
    <2> QED
      BY <1>3, <1>4, <1>5, <2>2, <2>4, Zenon DEF JsonCallFacts, k
  <1>10. ASSUME c.op = "start_of_block"
         PROVE  Goal
    <2>1. InnerOf(open) # "list"
      BY <1>10, AllowedFacts
    <2>2. /\ JsonKeeps(s, d.s)
          /\ \/ d.rc = -1 /\ d.s = s
             \/ /\ d.rc = 0 /\ "LIST" \notin d.s.flags /\ mem # "noBuffer"
                /\ "ARRAY" \in d.s.flags <=> "ARRAY" \in s.flags
                /\ \A n \in Nat : GoodJson(s, n) /\ "ARRAY" \notin s.flags => GoodJson(d.s, n + 1)
      <3>1. "LIST" \notin s.flags
        BY <1>3, <2>1
      <3> QED
        BY <1>1, <1>2, <1>10, <3>1, JsonBlockCalls, Zenon DEF d
    <2>3. CASE d.rc = -1 /\ d.s = s
      <3>1. o = open
        BY <2>3
      <3>2. "LIST" \in d.s.flags <=> "LIST" \in s.flags
        BY <2>3
      <3> HIDE DEF o
      <3> QED
        BY <1>3, <1>4, <1>5, <2>2, <2>3, <3>1, <3>2, Zenon DEF JsonCallFacts, k
    <2>4. CASE /\ d.rc = 0 /\ "LIST" \notin d.s.flags /\ mem # "noBuffer"
               /\ \A n \in Nat : GoodJson(s, n) /\ "ARRAY" \notin s.flags => GoodJson(d.s, n + 1)
      <3>1. o = Append(open, "block")
        BY <1>2, <1>10, <2>4, OpenAfterFacts
      <3>2. IsOpen(o) /\ InnerOf(o) = "block" /\ Depth(o) = k + 1
        <4> HIDE DEF o
        <4> QED
          BY <1>3, <2>1, <3>1, OpenMore DEF k
      <3>3. MarksOf(c, mem) \cap Spoilt = {} => "ARRAY" \notin s.flags
        BY <1>10, <2>4, MarkFacts DEF Spoilt, s
      <3>4. InnerOf(o) # "list"
        BY <3>2
      <3> QED
        BY <1>3, <1>4, <1>5, <2>2, <2>4, <3>2, <3>3, <3>4, Zenon DEF JsonCallFacts, k
    <2> QED
      BY <2>2, <2>3, <2>4
  <1>11. ASSUME c.op = "end_of_block"
         PROVE  Goal
    <2>1. InnerOf(open) = "block"
      BY <1>11, AllowedFacts
    <2>2. /\ JsonKeeps(s, d.s)
          /\ \/ d.rc = -1 /\ d.s = s
             \/ /\ d.rc = 0 /\ "LIST" \notin d.s.flags
                /\ "ARRAY" \in d.s.flags <=> "ARRAY" \in s.flags
                /\ \A n \in Nat : GoodJson(s, n + 1) => GoodJson(d.s, n)
      <3>1. "LIST" \notin s.flags
        BY <1>3, <2>1
      <3> QED
        BY <1>1, <1>2, <1>11, <3>1, JsonBlockCalls, Zenon DEF d
    <2>3. CASE d.rc = -1 /\ d.s = s
      <3>1. o = open
        BY <2>3
      <3>2. "LIST" \in d.s.flags <=> "LIST" \in s.flags
        BY <2>3
      <3> HIDE DEF o
      <3> QED
        BY <1>3, <1>4, <1>5, <2>2, <2>3, <3>1, <3>2, Zenon DEF JsonCallFacts, k
    <2>4. CASE /\ d.rc = 0 /\ "LIST" \notin d.s.flags
               /\ \A n \in Nat : GoodJson(s, n + 1) => GoodJson(d.s, n)
      <3>1. o = Front(open)
        BY <1>2, <1>11, <2>4, OpenAfterFacts
      <3>2. IsOpen(o) /\ InnerOf(o) # "list" /\ Depth(o) + 1 = k /\ Depth(o) \in Nat
        <4> HIDE DEF o
        <4>1. IsOpen(o) /\ InnerOf(o) # "list" /\ Depth(o) + 1 = k
          BY <1>3, <2>1, <3>1, OpenLess DEF k
        <4> QED
          BY <4>1, OpenFacts
      <3>3. GoodJson(s, k) => GoodJson(d.s, Depth(o))
        BY <2>4, <3>2, Zenon
      <3> QED
        BY <1>3, <1>5, <2>2, <2>4, <3>2, <3>3, Zenon DEF JsonCallFacts, k
    <2> QED
      BY <2>2, <2>3, <2>4
  <1>12. ASSUME c.op \in {"end_of_record", "raw_record"}
         PROVE  Goal
    <2>1. InnerOf(open) = "record" /\ k = 0 /\ "LIST" \notin s.flags
      BY <1>3, <1>12, AllowedFacts, OpenFacts DEF k
    <2>2. o = open
      BY <1>2, <1>12, OpenAfterFacts
    <2>3. CASE c.op = "end_of_record"
      <3>1. /\ JsonKeeps(s, d.s) /\ "LIST" \notin d.s.flags
            /\ GoodJson(s, 0) => GoodJson(d.s, 0)
        BY <1>1, <1>2, <2>1, <2>3, JsonRecordCalls, Zenon DEF d
      <3> QED
        BY <1>3, <1>5, <2>1, <2>2, <3>1, Zenon DEF JsonCallFacts, k
    <2>4. CASE c.op = "raw_record"
      <3>1. IsEmptyJson(s) \/ "ARRAY" \in s.flags
        BY <2>4, AllowedFacts DEF s
      <3>2. /\ IsClosed(d.s) /\ "LIST" \notin d.s.flags
            /\ d.s.fmt = s.fmt /\ d.s.snapshot = s.snapshot /\ d.s.hused = s.hused
            /\ ~IsEmptyJson(s) => JsonKeeps(s, d.s)
            /\ mem # "noBuffer" /\ GoodJson(s, 0) => GoodJson(d.s, 0)
        BY <1>1, <1>2, <2>1, <2>4, <3>1, JsonRecordCalls, Zenon DEF d
      <3>3. MarksOf(c, mem) \cap Spoilt = {} => mem # "noBuffer"
        BY <2>4, MarkFacts DEF Spoilt
      <3> QED
        BY <1>3, <2>1, <2>2, <2>4, <3>2, <3>3, Zenon DEF JsonCallFacts, k
    <2> QED
      BY <1>12, <2>3, <2>4
  <1>13. Goal
    BY <1>2, <1>7, <1>8, <1>9, <1>10, <1>11, <1>12 DEF Structure
  <1> QED
    BY <1>13, Zenon DEF s, d

-----------------------------------------------------------------------------
(* Snapshots. *)

\* A serializer taken back, before its bracket is rewritten.
Back(s) == [s EXCEPT !.flags = s.snapshot.flags, !.used = s.snapshot.used,
                     !.hused = s.snapshot.hused, !.snapshot = NoSnapshot]

LEMMA BackFacts ==
    ASSUME NEW s, InBuffer(s), CanReturn(s)
    PROVE  /\ Sane(Back(s)) /\ Back(s).fmt = s.fmt /\ Back(s).flags = s.snapshot.flags
           /\ Back(s).used = s.snapshot.used /\ Back(s).hused = s.snapshot.hused
           /\ Back(s).data = s.data /\ Back(s).header = s.header /\ Back(s).snapshot = NoSnapshot
           /\ s.fmt # "json" => ndpi_serializer_rollback_snapshot(s) = Back(s)
           /\ s.fmt = "json" /\ "ARRAY" \in s.snapshot.flags =>
                ndpi_serializer_rollback_snapshot(s) = Poke(Back(s), Back(s).used, <<"]">>)
           /\ s.fmt = "json" /\ "ARRAY" \notin s.snapshot.flags =>
                ndpi_serializer_rollback_snapshot(s)
                  = Poke(Poke(Back(s), 1, <<" ">>), Back(s).used, <<"}">>)
  <1> DEFINE b == Back(s)
             z == s.snapshot
  <1>1. s \in Serializers /\ s.fmt \in Formats /\ z \in Snapshots /\ Len(s.data) \in Nat
        /\ Len(s.header) \in Nat /\ s.hused \in Nat /\ s.hused <= Len(s.header)
        /\ z.used <= Len(s.data)
    BY DEF InBuffer, Serializers
  <1>2. z.used \in Nat /\ z.hused \in Nat
    BY <1>1 DEF Snapshots
  <1>3. z.flags \in SUBSET Flags /\ z.hused <= s.hused /\ Least(s.fmt, z.flags) <= z.used
        /\ z # NoSnapshot
    BY DEF CanReturn
  <1>4. NoSnapshot \in Snapshots /\ NoSnapshot.used = 0
    BY DEF NoSnapshot, Snapshots
  <1>5. b \in Serializers
    <2> HIDE DEF z
    <2>1. b = [s EXCEPT !.flags = z.flags, !.used = z.used, !.hused = z.hused, !.snapshot = NoSnapshot]
      BY DEF Back, z
    <2> QED
      BY <1>1, <1>2, <1>3, <1>4, <2>1 DEF Serializers
  <1>6. /\ b.fmt = s.fmt /\ b.flags = z.flags /\ b.used = z.used /\ b.hused = z.hused
        /\ b.data = s.data /\ b.header = s.header /\ b.snapshot = NoSnapshot
    BY <1>1 DEF Back, Serializers
  <1>7. s.fmt # "json" => ndpi_serializer_rollback_snapshot(s) = b
    BY <1>3, Zenon DEF ndpi_serializer_rollback_snapshot, Back
  <1>8. s.fmt = "json" /\ "ARRAY" \in b.flags =>
          ndpi_serializer_rollback_snapshot(s) = Poke(b, b.used, <<"]">>)
    BY <1>3, Zenon DEF ndpi_serializer_rollback_snapshot, Back, Has
  <1>9. s.fmt = "json" /\ "ARRAY" \notin b.flags =>
          ndpi_serializer_rollback_snapshot(s) = Poke(Poke(b, 1, <<" ">>), b.used, <<"}">>)
    BY <1>3, Zenon DEF ndpi_serializer_rollback_snapshot, Back, Has
  <1> HIDE DEF b
  <1>10. InBuffer(b)
    <2> HIDE DEF z
    <2> QED
      BY <1>1, <1>2, <1>3, <1>4, <1>5, <1>6 DEF InBuffer
  <1>11. Sane(b)
    BY <1>3, <1>6, <1>10 DEF Sane
  <1> QED
    BY <1>6, <1>7, <1>8, <1>9, <1>11, Zenon DEF b

\* What is rewritten when a document goes back: its last bracket, and its
\* first cell when an array has begun since.
LEMMA RollbackJson ==
    ASSUME NEW s, InBuffer(s), CanReturn(s), s.fmt = "json"
    PROVE  LET t == ndpi_serializer_rollback_snapshot(s)
           IN  /\ Sane(t) /\ t.fmt = "json" /\ t.flags = s.snapshot.flags /\ t.used = s.snapshot.used
               /\ 1 <= t.used
               /\ "ARRAY" \in t.flags => t.data[t.used] = <<"]">>
               /\ "ARRAY" \notin t.flags => t.data[t.used] = <<"}">>
               /\ \A i \in 2 .. t.used - 1 : t.data[i] = s.data[i]
               /\ 1 < t.used => /\ "ARRAY" \in t.flags => t.data[1] = s.data[1]
                                /\ "ARRAY" \notin t.flags => t.data[1] = <<" ">>
  <1> DEFINE b == Back(s)
             t == ndpi_serializer_rollback_snapshot(s)
             fl == s.snapshot.flags
             u == s.snapshot.used
             open1 == <<" ">>
             curly == <<"}">>
             square == <<"]">>
             one == 1
  <1>1. /\ Sane(b) /\ b.fmt = "json" /\ b.flags = fl /\ b.used = u /\ b.data = s.data
        /\ "ARRAY" \in fl => t = Poke(b, u, square)
        /\ "ARRAY" \notin fl => t = Poke(Poke(b, one, open1), u, curly)
    BY BackFacts
  <1>2. open1 \in Cell /\ curly \in Cell /\ square \in Cell
    BY JsonCells
  <1> HIDE DEF b, t, fl, open1, curly, square, one
  <1>3. InBuffer(b) /\ Closing(fl) <= u /\ u \in Nat /\ b \in Serializers
    <2>1. Least("json", fl) = Closing(fl)
      BY DEF Least
    <2>2. InBuffer(b) /\ Closing(fl) <= u
      BY <1>1, <2>1, Zenon DEF Sane
    <2> HIDE DEF u
    <2> QED
      BY <1>1, <2>2 DEF InBuffer, Serializers
  <1>4. Closing(fl) \in Int /\ 1 <= Closing(fl)
    BY DEF Closing
  <1> HIDE DEF u
  <1>5. 1 <= u
    BY <1>3, <1>4
  <1>6. \A x \in Cell, n \in 1 .. u : \A y : InBuffer(y) /\ y.used = u =>
          /\ InBuffer(Poke(y, n, x)) /\ Poke(y, n, x).fmt = y.fmt /\ Poke(y, n, x).flags = y.flags
          /\ Poke(y, n, x).used = u /\ Poke(y, n, x).data[n] = x
          /\ \A i \in 1 .. u : i # n => Poke(y, n, x).data[i] = y.data[i]
    <2> SUFFICES ASSUME NEW x \in Cell, NEW n \in 1 .. u, NEW y, InBuffer(y), y.used = u
                 PROVE  /\ InBuffer(Poke(y, n, x)) /\ Poke(y, n, x).fmt = y.fmt
                        /\ Poke(y, n, x).flags = y.flags
                        /\ Poke(y, n, x).used = u /\ Poke(y, n, x).data[n] = x
                        /\ \A i \in 1 .. u : i # n => Poke(y, n, x).data[i] = y.data[i]
      OBVIOUS
    <2>1. y \in Serializers /\ Len(y.data) \in Nat /\ u <= Len(y.data)
      BY DEF InBuffer, Serializers
    <2>2. n \in 1 .. Len(y.data)
      BY <1>3, <2>1
    <2> DEFINE q == Poke(y, n, x)
    <2>3. /\ q \in Serializers
          /\ q.fmt = y.fmt /\ q.flags = y.flags /\ q.hused = y.hused
          /\ q.header = y.header /\ q.snapshot = y.snapshot
          /\ q.used = y.used /\ Len(q.data) = Len(y.data) /\ q.data[n] = x
          /\ \A i \in 1 .. Len(y.data) : i # n => q.data[i] = y.data[i]
      BY <2>1, <2>2, PokeFacts
    <2> HIDE DEF q
    <2>4. InBuffer(q)
      BY <2>3 DEF InBuffer
    <2>5. \A i \in 1 .. u : i # n => q.data[i] = y.data[i]
      BY <1>3, <2>1, <2>3
    <2> QED
      BY <2>3, <2>4, <2>5 DEF q
  <1>7. one \in 1 .. u /\ u \in 1 .. u
    BY <1>3, <1>5 DEF one
  <1>8. CASE "ARRAY" \in fl
    <2>1. /\ InBuffer(t) /\ t.fmt = "json" /\ t.flags = fl /\ t.used = u /\ t.data[u] = square
          /\ \A i \in 1 .. u : i # u => t.data[i] = s.data[i]
      BY <1>1, <1>2, <1>3, <1>6, <1>7, <1>8
    <2>2. Sane(t)
      <3>1. Least(t.fmt, t.flags) = Closing(fl)
        BY <2>1 DEF Least
      <3> QED
        BY <1>3, <2>1, <3>1, Zenon DEF Sane
    <2>3. \A i \in 2 .. u - 1 : t.data[i] = s.data[i]
      BY <1>3, <2>1
    <2>4. 1 < u => t.data[1] = s.data[1]
      BY <1>3, <2>1
    <2> QED
      BY <1>5, <1>8, <2>1, <2>2, <2>3, <2>4, Zenon DEF t, u, fl, square
  <1>9. CASE "ARRAY" \notin fl
    <2> DEFINE a == Poke(b, one, open1)
    <2>1. /\ InBuffer(a) /\ a.fmt = "json" /\ a.flags = fl /\ a.used = u /\ a.data[one] = open1
          /\ \A i \in 1 .. u : i # one => a.data[i] = s.data[i]
      BY <1>1, <1>2, <1>3, <1>6, <1>7
    <2>2. t = Poke(a, u, curly)
      BY <1>1, <1>9
    <2> HIDE DEF a
    <2>3. /\ InBuffer(t) /\ t.fmt = "json" /\ t.flags = fl /\ t.used = u /\ t.data[u] = curly
          /\ \A i \in 1 .. u : i # u => t.data[i] = a.data[i]
      BY <1>2, <1>6, <1>7, <2>1, <2>2
    <2>4. Sane(t)
      <3>1. Least(t.fmt, t.flags) = Closing(fl)
        BY <2>3 DEF Least
      <3> QED
        BY <1>3, <2>3, <3>1, Zenon DEF Sane
    <2>5. \A i \in 2 .. u - 1 : t.data[i] = s.data[i]
      BY <1>3, <2>1, <2>3 DEF one
    <2>6. 1 < u => t.data[1] = open1
      <3>1. 1 < u => t.data[1] = a.data[1]
        BY <1>3, <2>3
      <3> QED
        BY <2>1, <3>1 DEF one
    <2> QED
      BY <1>5, <1>9, <2>3, <2>4, <2>5, <2>6, Zenon DEF t, u, fl, curly, open1
  <1> QED
    BY <1>8, <1>9

\* Parts of two texts that agree there.
LEMMA SamePart ==
    ASSUME NEW S, NEW d \in Seq(S), NEW e \in Seq(S), NEW m \in Nat, NEW n \in Nat, 1 <= m,
           m <= n + 1, n <= Len(d), n <= Len(e), \A i \in m .. n : d[i] = e[i]
    PROVE  SubSeq(d, m, n) = SubSeq(e, m, n)
  <1> DEFINE p == SubSeq(d, m, n)
             q == SubSeq(e, m, n)
             w == (n - m) + 1
  <1>1. p \in Seq(S) /\ Len(p) = w /\ \A i \in 1 .. w : p[i] = d[(m + i) - 1]
    BY Prefix
  <1>2. q \in Seq(S) /\ Len(q) = w /\ \A i \in 1 .. w : q[i] = e[(m + i) - 1]
    BY Prefix
  <1>3. \A i \in 1 .. w : (m + i) - 1 \in m .. n
    OBVIOUS
  <1>4. \A i \in 1 .. w : p[i] = q[i]
    BY <1>1, <1>2, <1>3
  <1> HIDE DEF p, q, w
  <1>5. p = q
    BY <1>1, <1>2, <1>4, SeqEqual
  <1> QED
    BY <1>5 DEF p, q

\* What a document was stays in it as long as the calls keep it.
LEMMA HeldKeeps ==
    ASSUME NEW g, NEW s, NEW t, IsClosed(g), 1 <= Body(g), IsClosed(s), Held(g, s), JsonKeeps(s, t)
    PROVE  Held(g, t)
  <1>1. Body(g) \in Nat /\ Body(s) \in Nat
    BY ClosingFacts
  <1>2. IsClosed(t)
    BY DEF JsonKeeps
  <1>3. Body(t) \in Nat
    BY <1>2, ClosingFacts
  <1>4. Body(g) <= Body(s) /\ Body(s) <= Body(t)
    BY DEF Held, JsonKeeps
  <1>5. \A i \in 2 .. Body(g) : t.data[i] = g.data[i]
    <2> SUFFICES ASSUME NEW i \in 2 .. Body(g)
                 PROVE  t.data[i] = g.data[i]
      OBVIOUS
    <2>1. i \in 2 .. Body(s)
      BY <1>1, <1>4
    <2>2. t.data[i] = s.data[i]
      BY <2>1 DEF JsonKeeps, Keeps
    <2>3. s.data[i] = g.data[i]
      BY DEF Held
    <2> QED
      BY <2>2, <2>3
  <1>6. 1 <= Body(s)
    BY <1>1, <1>4
  <1>7. "ARRAY" \in g.flags => "ARRAY" \in t.flags /\ t.data[1] = g.data[1]
    BY <1>6, Zenon DEF Held, JsonKeeps
  <1>8. Body(g) <= Body(t)
    BY <1>1, <1>3, <1>4
  <1> QED
    BY <1>5, <1>7, <1>8, Zenon DEF Held

\* A document that goes back is in order again, and its text what it was.
LEMMA Restored ==
    ASSUME NEW g, NEW k, NEW text, NEW s, IsSaved(g, k, text, s), InBuffer(s), CanReturn(s),
           s.fmt = "json"
    PROVE  LET t == ndpi_serializer_rollback_snapshot(s)
           IN  GoodJson(t, k) /\ ndpi_serializer_get_buffer(t) = text
  <1> DEFINE t == ndpi_serializer_rollback_snapshot(s)
             fl == g.flags
             d == g.data
             e == t.data
             b == Body(g)
             u == g.used
             curly == <<"}">>
             square == <<"]">>
             blank == <<" ">>
             array == <<"[">>
  <1>1. /\ GoodJson(g, k) /\ g.fmt = "json" /\ Closing(fl) = 1 /\ Held(g, s)
        /\ ndpi_serializer_get_buffer(g) = text
        /\ s.snapshot.flags = fl /\ s.snapshot.used = u
    BY DEF IsSaved
  <1>2. /\ Sane(t) /\ t.fmt = "json" /\ t.flags = fl /\ t.used = u
        /\ "ARRAY" \in fl => e[u] = square
        /\ "ARRAY" \notin fl => e[u] = curly
        /\ \A i \in 2 .. u - 1 : e[i] = s.data[i]
        /\ 1 < u => /\ "ARRAY" \in fl => e[1] = s.data[1]
                    /\ "ARRAY" \notin fl => e[1] = blank
    BY <1>1, RollbackJson, ZenonT(90)
  <1> HIDE DEF t
  <1>3. IsClosed(g) /\ 1 <= b /\ BracketsRight(g) /\ FlagsRight(fl, k)
    BY <1>1 DEF GoodJson
  <1>4. b \in Nat /\ u \in Nat /\ b + 1 = u /\ InBuffer(g)
    BY <1>1, <1>3, ClosingFacts
  <1>5. Body(t) = b /\ IsClosed(t)
    <2>1. IsClosed(t)
      BY <1>2, SaneJson
    <2>2. Body(t) = b
      BY <1>2, Zenon DEF Body
    <2> QED
      BY <2>1, <2>2
  <1>6. d \in Seq(Cell) /\ e \in Seq(Cell) /\ u <= Len(d) /\ u <= Len(e)
    <2>1. InBuffer(t)
      BY <1>2 DEF Sane
    <2> QED
      BY <1>2, <1>4, <2>1 DEF InBuffer, Serializers
  <1>7. \A i \in 2 .. b : e[i] = d[i]
    <2>1. \A i \in 2 .. b : s.data[i] = d[i]
      BY <1>1 DEF Held
    <2>2. u - 1 = b
      BY <1>4
    <2>3. \A i \in 2 .. b : e[i] = s.data[i]
      BY <1>2, <2>2, Zenon
    <2> QED
      BY <2>1, <2>3, Zenon
  <1>8. ("LIST" \in fl => "EOR" \in fl) /\ ("ARRAY" \in fl => "EOR" \in fl)
    BY <1>1 DEF Closing
  <1>9. ("EOR" \in fl <=> "ARRAY" \in fl) /\ "LIST" \notin fl
    BY <1>3, <1>8 DEF FlagsRight
  <1>10. d[u] = IF "ARRAY" \in fl THEN square ELSE curly
    BY <1>3, <1>4, <1>9, Zenon DEF BracketsRight
  <1>11. d[1] = IF "ARRAY" \in fl THEN array ELSE blank
    BY <1>1, Zenon DEF GoodJson
  <1> HIDE DEF curly, square, blank, array
  <1>12. e[1] = d[1]
    <2>1. 1 < u
      BY <1>3, <1>4
    <2> QED
      BY <1>1, <1>2, <1>11, <2>1, Zenon DEF Held
  <1>13. e[u] = d[u]
    BY <1>2, <1>10
  <1>14. BracketsRight(t)
    BY <1>2, <1>4, <1>5, <1>9, <1>10, <1>13, Zenon DEF BracketsRight, curly, square
  <1>15. ASSUME NEW base \in Bases, "ARRAY" \notin t.flags \/ base = InArray
         PROVE  ReadTo(base, t.data, Body(t)) = Inside(t.flags, base, k)
    <2>1. ReadTo(base, d, b) = Inside(fl, base, k)
      BY <1>1, <1>2, <1>15, Zenon DEF GoodJson
    <2> HIDE DEF d, e, b
    <2>2. ReadTo(base, d, b) = ReadTo(base, e, b)
      BY <1>3, <1>4, <1>6, <1>7, ReadToAgree
    <2> QED
      BY <1>2, <1>5, <2>1, <2>2, Zenon DEF e
  <1>16. GoodJson(t, k)
    <2>1. t.data[1] = IF "ARRAY" \in t.flags THEN array ELSE blank
      BY <1>2, <1>11, <1>12, Zenon
    <2> QED
      BY <1>2, <1>3, <1>5, <1>14, <1>15, <2>1, Zenon DEF GoodJson, array, blank
  <1>17. \A i \in 1 .. u : d[i] = e[i]
    <2> HIDE DEF d, e, b, u
    <2> QED
      BY <1>4, <1>7, <1>12, <1>13
  <1>18. ndpi_serializer_get_buffer(t) = ndpi_serializer_get_buffer(g)
    <2> HIDE DEF d, e, b, u
    <2>1. SubSeq(d, 2, u) = SubSeq(e, 2, u)
      BY <1>3, <1>4, <1>6, <1>17, SamePart
    <2>2. SubSeq(d, 1, u) = SubSeq(e, 1, u)
      BY <1>4, <1>6, <1>17, SamePart
    <2> QED
      BY <1>1, <1>2, <1>12, <2>1, <2>2, Zenon DEF ndpi_serializer_get_buffer, Used, d, e, u
  <1> QED
    BY <1>1, <1>16, <1>18 DEF t

\* In CSV and TLV a call keeps what the snapshot counts on.
LEMMA ReturnGrows ==
    ASSUME NEW s, Sane(s), s.fmt \in Plain, CanReturn(s), NEW t, Grows(s, t)
    PROVE  /\ CanReturn(t)
           /\ SubSeq(t.data, 1, t.snapshot.used) = SubSeq(s.data, 1, s.snapshot.used)
  <1> DEFINE z == s.snapshot
  <1>1. /\ z # NoSnapshot /\ z.flags \subseteq Flags /\ Least(s.fmt, z.flags) <= z.used
        /\ z.hused <= s.hused /\ z.used <= s.used
    BY DEF CanReturn
  <1>2. /\ s.used <= t.used /\ s.hused <= t.hused /\ t.fmt = s.fmt /\ t.snapshot = z
        /\ \A i \in 1 .. s.used : t.data[i] = s.data[i]
        /\ Sane(t)
    BY DEF Grows, Same
  <1>3. /\ s.used \in Nat /\ s.hused \in Nat /\ s.data \in Seq(Cell) /\ s.used <= Len(s.data)
        /\ z \in Snapshots
    BY DEF Sane, InBuffer, Serializers
  <1>4. t.used \in Nat /\ t.hused \in Nat /\ t.data \in Seq(Cell) /\ t.used <= Len(t.data)
    BY <1>2 DEF Sane, InBuffer, Serializers
  <1>5. z.used \in Nat /\ z.hused \in Nat
    BY <1>3 DEF Snapshots
  <1> HIDE DEF z
  <1>6. z.hused <= t.hused /\ z.used <= t.used
    BY <1>1, <1>2, <1>3, <1>4, <1>5
  <1>7. CanReturn(t)
    BY <1>1, <1>2, <1>6, Zenon DEF CanReturn
  <1> DEFINE d == s.data
             e == t.data
             n == z.used
  <1>8. n <= Len(d) /\ n <= Len(e) /\ \A i \in 1 .. n : e[i] = d[i]
    BY <1>1, <1>2, <1>3, <1>4, <1>5, <1>6
  <1>9. SubSeq(e, 1, n) = SubSeq(d, 1, n)
    <2>1. d \in Seq(Cell) /\ e \in Seq(Cell) /\ n \in Nat
      BY <1>3, <1>4, <1>5
    <2> HIDE DEF d, e, n
    <2>2. 1 <= n + 1
      BY <2>1
    <2> QED
      BY <1>8, <2>1, <2>2, SamePart
  <1> QED
    BY <1>2, <1>7, <1>9 DEF z

-----------------------------------------------------------------------------
(* Programs: the calls of a report. *)

\* The serializer after each call of a program.
IsRun(after, s, program, lost) ==
    /\ after[0] = s
    /\ \A i \in 1 .. Len(program) :
         after[i] = Perform(after[i - 1], IF i = lost THEN "noBuffer" ELSE "ok", program[i]).s

LEMMA RunDef ==
    ASSUME NEW s, NEW program, NEW lost, Len(program) \in Nat
    PROVE  \E after : IsRun(after, s, program, lost) /\ Run(s, program, lost) = after[Len(program)]
  <1> DEFINE Rec(g, m) ==
               [i \in 0 .. m |->
                  IF i = 0 THEN s
                  ELSE Perform(g[i - 1], IF i = lost THEN "noBuffer" ELSE "ok", program[i]).s]
             S == {m \in Nat : \E g : g = Rec(g, m)}
  <1>1. 0 \in S
    <2> DEFINE g == [i \in 0 .. 0 |-> s]
    <2>1. g = Rec(g, 0)
      OBVIOUS
    <2> QED
      BY <2>1
  <1>2. ASSUME NEW m \in S
        PROVE  m + 1 \in S
    <2>1. PICK g : g = Rec(g, m)
      OBVIOUS
    <2> DEFINE h == [i \in 0 .. m + 1 |->
                       IF i <= m THEN g[i]
                       ELSE Perform(g[m], IF i = lost THEN "noBuffer" ELSE "ok", program[i]).s]
    <2>2. h = Rec(h, m + 1)
      <3> SUFFICES ASSUME NEW i \in 0 .. m + 1
                   PROVE  h[i] = IF i = 0 THEN s
                                 ELSE Perform(h[i - 1], IF i = lost THEN "noBuffer" ELSE "ok", program[i]).s
        BY Zenon
      <3>1. CASE i <= m
        BY <2>1, <3>1
      <3>2. CASE i = m + 1
        BY <3>2
      <3> QED
        BY <3>1, <3>2
    <2> HIDE DEF h
    <2>3. \E f : f = Rec(f, m + 1)
      BY <2>2, Zenon
    <2>4. m + 1 \in Nat
      OBVIOUS
    <2> QED
      BY <2>3, <2>4
  <1>3. Len(program) \in S
    <2> HIDE DEF S
    <2>1. S \in SUBSET Nat
      BY DEF S
    <2> QED
      BY <1>1, <1>2, <2>1, Induction
  <1> DEFINE after == CHOOSE g : g = Rec(g, Len(program))
  <1>4. after = Rec(after, Len(program))
    BY <1>3
  <1>5. Run(s, program, lost) = after[Len(program)]
    BY Zenon DEF Run
  <1> HIDE DEF S, after
  <1>6. IsRun(after, s, program, lost)
    BY <1>4 DEF IsRun
  <1> QED
    BY <1>5, <1>6

\* A program of items and blocks, in which every block is closed.
Balanced(p) ==
    /\ \E S : p \in Seq(S)
    /\ \E level \in [0 .. Len(p) -> Nat] :
         /\ level[0] = 0 /\ level[Len(p)] = 0
         /\ \A i \in 1 .. Len(p) :
              \/ p[i].op \in Items /\ level[i] = level[i - 1]
              \/ p[i].op = "start_of_block" /\ level[i] = level[i - 1] + 1
              \/ p[i].op = "end_of_block" /\ level[i - 1] = level[i] + 1

Known(p) == \A i \in 1 .. Len(p) : p[i].key \in Texts /\ p[i].v \in Texts

LEMMA BalancedFlat ==
    ASSUME NEW S, \A c \in S : c.op \in Items, NEW p \in Seq(S)
    PROVE  Balanced(p)
  <1> DEFINE level == [i \in 0 .. Len(p) |-> 0]
  <1>1. level \in [0 .. Len(p) -> Nat] /\ level[0] = 0 /\ level[Len(p)] = 0
    OBVIOUS
  <1>2. \A i \in 1 .. Len(p) : p[i].op \in Items /\ level[i] = level[i - 1]
    OBVIOUS
  <1> HIDE DEF level
  <1> QED
    BY <1>1, <1>2, Zenon DEF Balanced

LEMMA BalancedCat ==
    ASSUME NEW p, Balanced(p), NEW q, Balanced(q)
    PROVE  Balanced(p \o q)
  <1>1. PICK S, T : p \in Seq(S) /\ q \in Seq(T)
    BY DEF Balanced
  <1> DEFINE m == Len(p)
             n == Len(q)
             w == p \o q
  <1>2. m \in Nat /\ n \in Nat
    BY <1>1
  <1>3. /\ w \in Seq(S \cup T) /\ Len(w) = m + n
        /\ \A i \in 1 .. m : w[i] = p[i]
        /\ \A i \in m + 1 .. m + n : w[i] = q[i - m]
    <2>1. p \in Seq(S \cup T) /\ q \in Seq(S \cup T)
      BY <1>1
    <2> QED
      BY <2>1
  <1>4. PICK a \in [0 .. m -> Nat] :
          /\ a[0] = 0 /\ a[m] = 0
          /\ \A i \in 1 .. m :
              \/ p[i].op \in Items /\ a[i] = a[i - 1]
              \/ p[i].op = "start_of_block" /\ a[i] = a[i - 1] + 1
              \/ p[i].op = "end_of_block" /\ a[i - 1] = a[i] + 1
    BY DEF Balanced
  <1>5. PICK b \in [0 .. n -> Nat] :
          /\ b[0] = 0 /\ b[n] = 0
          /\ \A i \in 1 .. n :
              \/ q[i].op \in Items /\ b[i] = b[i - 1]
              \/ q[i].op = "start_of_block" /\ b[i] = b[i - 1] + 1
              \/ q[i].op = "end_of_block" /\ b[i - 1] = b[i] + 1
    BY DEF Balanced
  <1> DEFINE level == [i \in 0 .. m + n |-> IF i <= m THEN a[i] ELSE b[i - m]]
  <1> HIDE DEF m, n, w
  <1>6. level \in [0 .. m + n -> Nat]
    BY <1>2
  <1>7. level[0] = 0 /\ level[m + n] = 0
    BY <1>2, <1>4, <1>5
  <1>8. \A i \in 1 .. m : level[i] = a[i] /\ level[i - 1] = a[i - 1]
    BY <1>2
  <1>9. \A i \in m + 1 .. m + n : i - m \in 1 .. n /\ level[i] = b[i - m] /\ level[i - 1] = b[(i - m) - 1]
    <2> SUFFICES ASSUME NEW i \in m + 1 .. m + n
                 PROVE  i - m \in 1 .. n /\ level[i] = b[i - m] /\ level[i - 1] = b[(i - m) - 1]
      OBVIOUS
    <2>1. i - m \in 1 .. n /\ level[i] = b[i - m]
      BY <1>2
    <2>2. CASE i = m + 1
      BY <1>2, <1>4, <1>5, <2>2
    <2>3. CASE i # m + 1
      BY <1>2, <2>3
    <2> QED
      BY <2>1, <2>2, <2>3
  <1> HIDE DEF level
  <1>10. ASSUME NEW i \in 1 .. m + n
         PROVE  \/ w[i].op \in Items /\ level[i] = level[i - 1]
                \/ w[i].op = "start_of_block" /\ level[i] = level[i - 1] + 1
                \/ w[i].op = "end_of_block" /\ level[i - 1] = level[i] + 1
    <2>1. CASE i \in 1 .. m
      BY <1>3, <1>4, <1>8, <2>1, Zenon
    <2>2. CASE i \in m + 1 .. m + n
      BY <1>3, <1>5, <1>9, <2>2, ZenonT(90)
    <2>3. i \in 1 .. m \/ i \in m + 1 .. m + n
      BY <1>2
    <2> QED
      BY <2>1, <2>2, <2>3, Zenon
  <1>11. Balanced(w)
    <2>1. \E U : w \in Seq(U)
      BY <1>3, Zenon
    <2> DEFINE l == m + n
    <2>2. level \in [0 .. l -> Nat] /\ level[0] = 0 /\ level[l] = 0
      BY <1>6, <1>7
    <2>3. \A i \in 1 .. l :
            \/ w[i].op \in Items /\ level[i] = level[i - 1]
            \/ w[i].op = "start_of_block" /\ level[i] = level[i - 1] + 1
            \/ w[i].op = "end_of_block" /\ level[i - 1] = level[i] + 1
      BY <1>10
    <2>4. Len(w) = l
      BY <1>3
    <2> HIDE DEF l
    <2> QED
      BY <2>1, <2>2, <2>3, <2>4, Zenon DEF Balanced
  <1> QED
    BY <1>11 DEF w

LEMMA BalancedBlock ==
    ASSUME NEW p, Balanced(p), NEW key
    PROVE  Balanced(Block(key, p))
  <1> DEFINE x == Call("start_of_block", key, "")
             y == Call("end_of_block", "", "")
             w == <<x>> \o p \o <<y>>
             m == Len(p)
  <1>1. x.op = "start_of_block" /\ y.op = "end_of_block" /\ Block(key, p) = w
    BY DEF Call, Block
  <1>2. PICK S : p \in Seq(S)
    BY DEF Balanced
  <1> HIDE DEF x, y
  <1>3. m \in Nat
    BY <1>2
  <1>4. /\ w \in Seq(S \cup {x, y}) /\ Len(w) = m + 2
        /\ w[1] = x /\ w[m + 2] = y
        /\ \A i \in 2 .. m + 1 : w[i] = p[i - 1]
    <2> DEFINE U == S \cup {x, y}
    <2>1. p \in Seq(U) /\ x \in U /\ y \in U
      BY <1>2
    <2> HIDE DEF U
    <2>2. <<x>> \in Seq(U) /\ <<y>> \in Seq(U) /\ Len(<<x>>) = 1 /\ Len(<<y>>) = 1
          /\ <<x>>[1] = x /\ <<y>>[1] = y
      BY <2>1
    <2> DEFINE v == <<x>> \o p
    <2>3. v \in Seq(U) /\ Len(v) = m + 1 /\ v[1] = x /\ \A i \in 2 .. m + 1 : v[i] = p[i - 1]
      BY <2>1, <2>2
    <2> HIDE DEF v, m
    <2>4. v \o <<y>> \in Seq(U) /\ Len(v \o <<y>>) = m + 2 /\ (v \o <<y>>)[1] = v[1]
          /\ (v \o <<y>>)[m + 2] = y /\ \A i \in 2 .. m + 1 : (v \o <<y>>)[i] = v[i]
      BY <1>3, <2>1, <2>2, <2>3
    <2> QED
      BY <2>3, <2>4 DEF v, U
  <1>5. PICK a \in [0 .. m -> Nat] :
          /\ a[0] = 0 /\ a[m] = 0
          /\ \A i \in 1 .. m :
              \/ p[i].op \in Items /\ a[i] = a[i - 1]
              \/ p[i].op = "start_of_block" /\ a[i] = a[i - 1] + 1
              \/ p[i].op = "end_of_block" /\ a[i - 1] = a[i] + 1
    BY DEF Balanced
  <1> DEFINE level == [i \in 0 .. m + 2 |-> IF i = 0 \/ i = m + 2 THEN 0 ELSE a[i - 1] + 1]
  <1> HIDE DEF m, w
  <1>6. level \in [0 .. m + 2 -> Nat] /\ level[0] = 0 /\ level[m + 2] = 0 /\ level[1] = 1
        /\ level[m + 1] = 1
    BY <1>3, <1>5
  <1>7. \A i \in 2 .. m + 1 : i - 1 \in 1 .. m /\ level[i] = a[i - 1] + 1
                              /\ level[i - 1] = a[(i - 1) - 1] + 1
    BY <1>3
  <1>8. \A j \in 0 .. m : a[j] \in Nat
    OBVIOUS
  <1> HIDE DEF level
  <1>9. ASSUME NEW i \in 1 .. m + 2
        PROVE  \/ w[i].op \in Items /\ level[i] = level[i - 1]
               \/ w[i].op = "start_of_block" /\ level[i] = level[i - 1] + 1
               \/ w[i].op = "end_of_block" /\ level[i - 1] = level[i] + 1
    <2>1. CASE i = 1
      BY <1>1, <1>4, <1>6, <2>1
    <2>2. CASE i = m + 2
      <3>1. w[i].op = "end_of_block"
        BY <1>1, <1>4, <2>2
      <3>2. level[i - 1] = level[i] + 1
        BY <1>3, <1>6, <2>2
      <3> QED
        BY <3>1, <3>2
    <2>3. CASE i \in 2 .. m + 1
      <3> DEFINE j == i - 1
      <3>1. /\ w[i] = p[j] /\ j \in 1 .. m /\ level[i] = a[j] + 1 /\ level[i - 1] = a[j - 1] + 1
        BY <1>4, <1>7, <2>3
      <3>2. j \in 0 .. m /\ j - 1 \in 0 .. m
        BY <1>3, <3>1
      <3> HIDE DEF j
      <3>3. a[j] \in Nat /\ a[j - 1] \in Nat
        BY <1>8, <3>2
      <3>4. CASE p[j].op \in Items /\ a[j] = a[j - 1]
        BY <3>1, <3>4
      <3>5. CASE p[j].op = "start_of_block" /\ a[j] = a[j - 1] + 1
        BY <3>1, <3>3, <3>5
      <3>6. CASE p[j].op = "end_of_block" /\ a[j - 1] = a[j] + 1
        BY <3>1, <3>3, <3>6
      <3> QED
        BY <1>5, <3>1, <3>4, <3>5, <3>6, Zenon
    <2>4. i = 1 \/ i = m + 2 \/ i \in 2 .. m + 1
      BY <1>3
    <2> QED
      BY <2>1, <2>2, <2>3, <2>4, Zenon
  <1>10. Balanced(w)
    <2>1. \E U : w \in Seq(U)
      BY <1>4, Zenon
    <2> QED
      BY <1>4, <1>6, <1>9, <2>1, Zenon DEF Balanced
  <1> QED
    BY <1>1, <1>10, Zenon DEF w

IsItem(c) == c.op \in Items

LEMMA ItemTuples ==
    ASSUME NEW a, IsItem(a), NEW b, IsItem(b), NEW c, IsItem(c), NEW d, IsItem(d),
           NEW e, IsItem(e), NEW f, IsItem(f)
    PROVE  /\ Balanced(<<>>) /\ Balanced(<<a>>) /\ Balanced(<<a, b>>) /\ Balanced(<<a, b, c>>)
           /\ Balanced(<<a, b, c, d>>) /\ Balanced(<<a, b, c, d, e, f>>)
  <1> DEFINE S == {a, b, c, d, e, f}
  <1>1. /\ a \in S /\ b \in S /\ c \in S /\ d \in S /\ e \in S /\ f \in S
    OBVIOUS
  <1>2. \A x \in S : x.op \in Items
    BY DEF IsItem
  <1> HIDE DEF S
  <1>3. /\ <<>> \in Seq(S) /\ <<a>> \in Seq(S) /\ <<a, b>> \in Seq(S) /\ <<a, b, c>> \in Seq(S)
        /\ <<a, b, c, d>> \in Seq(S) /\ <<a, b, c, d, e, f>> \in Seq(S)
    BY <1>1
  <1> QED
    BY <1>2, <1>3, BalancedFlat

LEMMA BalancedEmpty ==
    Balanced(<<>>)
  <1>1. <<>> \in Seq({})
    OBVIOUS
  <1> QED
    BY <1>1, BalancedFlat

LEMMA BalancedWhen ==
    ASSUME NEW r, NEW field, NEW p, Balanced(p)
    PROVE  Balanced(When(r, field, p))
  <1>1. When(r, field, p) = p \/ When(r, field, p) = <<>>
    BY DEF When
  <1> QED
    BY <1>1, BalancedEmpty

LEMMA BalancedCats ==
    ASSUME NEW a, Balanced(a), NEW b, Balanced(b), NEW c, Balanced(c), NEW d, Balanced(d)
    PROVE  Balanced(a \o b \o c) /\ Balanced(a \o b \o c \o d)
  <1>1. Balanced(a \o b)
    BY BalancedCat
  <1> DEFINE e == a \o b
             f == e \o c
  <1> HIDE DEF e
  <1>2. Balanced(f)
    BY <1>1, BalancedCat DEF e
  <1> HIDE DEF f
  <1>3. Balanced(f \o d)
    BY <1>2, BalancedCat
  <1> QED
    BY <1>2, <1>3 DEF e, f

LEMMA ReportItems ==
    /\ \A key : IsItem(Str(key)) /\ IsItem(Num(key))
    /\ \A key, v : IsItem(Call("uint32_string", key, v)) /\ IsItem(Call("string_float", key, v))
  <1>1. /\ "string_string" \in Items /\ "string_uint32" \in Items
        /\ "uint32_string" \in Items /\ "string_float" \in Items
    BY DEF Items
  <1>2. /\ \A key : Str(key).op = "string_string" /\ Num(key).op = "string_uint32"
        /\ \A key, v : /\ Call("uint32_string", key, v).op = "uint32_string"
                       /\ Call("string_float", key, v).op = "string_float"
    BY DEF Str, Num, Call
  <1> QED
    BY <1>1, <1>2, Zenon DEF IsItem

\* Items in a row.
LEMMA Named ==
    /\ \A a : Balanced(<<Str(a)>>)
    /\ \A a, b : Balanced(<<Str(a), Str(b)>>) /\ Balanced(<<Num(a), Num(b)>>)
    /\ \A a, b, c : Balanced(<<Str(a), Str(b), Str(c)>>) /\ Balanced(<<Str(a), Str(b), Num(c)>>)
    /\ \A a, b, c, d : /\ Balanced(<<Str(a), Str(b), Str(c), Str(d)>>)
                       /\ Balanced(<<Str(a), Str(b), Num(c), Str(d)>>)
                       /\ Balanced(<<Str(a), Num(b), Str(c), Str(d)>>)
    /\ \A a, b, c, d, e, f : Balanced(<<Num(a), Num(b), Num(c), Num(d), Num(e), Str(f)>>)
  <1> SUFFICES ASSUME NEW a, NEW b, NEW c, NEW d, NEW e, NEW f
               PROVE  /\ Balanced(<<Str(a)>>)
                      /\ Balanced(<<Str(a), Str(b)>>) /\ Balanced(<<Num(a), Num(b)>>)
                      /\ Balanced(<<Str(a), Str(b), Str(c)>>) /\ Balanced(<<Str(a), Str(b), Num(c)>>)
                      /\ Balanced(<<Str(a), Str(b), Str(c), Str(d)>>)
                      /\ Balanced(<<Str(a), Str(b), Num(c), Str(d)>>)
                      /\ Balanced(<<Str(a), Num(b), Str(c), Str(d)>>)
                      /\ Balanced(<<Num(a), Num(b), Num(c), Num(d), Num(e), Str(f)>>)
    BY Zenon
  <1>1. /\ IsItem(Str(a)) /\ IsItem(Str(b)) /\ IsItem(Str(c)) /\ IsItem(Str(d)) /\ IsItem(Str(f))
        /\ IsItem(Num(a)) /\ IsItem(Num(b)) /\ IsItem(Num(c)) /\ IsItem(Num(d)) /\ IsItem(Num(e))
    BY ReportItems
  <1>2. /\ Balanced(<<Str(a)>>) /\ Balanced(<<Str(a), Str(b)>>)
        /\ Balanced(<<Str(a), Str(b), Str(c)>>) /\ Balanced(<<Str(a), Str(b), Str(c), Str(d)>>)
    <2> DEFINE i == Str(a)
               j == Str(b)
               k == Str(c)
               l == Str(d)
    <2>1. IsItem(i) /\ IsItem(j) /\ IsItem(k) /\ IsItem(l)
      BY <1>1
    <2> HIDE DEF i, j, k, l
    <2>2. Balanced(<<i>>) /\ Balanced(<<i, j>>) /\ Balanced(<<i, j, k>>) /\ Balanced(<<i, j, k, l>>)
      BY <2>1, ItemTuples
    <2> QED
      BY <2>2 DEF i, j, k, l
  <1>3. Balanced(<<Str(a), Str(b), Num(c)>>) /\ Balanced(<<Num(a), Num(b)>>)
    <2> DEFINE i == Str(a)
               j == Str(b)
               k == Num(c)
               l == Num(a)
               m == Num(b)
    <2>1. IsItem(i) /\ IsItem(j) /\ IsItem(k) /\ IsItem(l) /\ IsItem(m)
      BY <1>1
    <2> HIDE DEF i, j, k, l, m
    <2>2. Balanced(<<i, j, k>>)
      BY <2>1, ItemTuples
    <2>3. Balanced(<<l, m>>)
      BY <2>1, ItemTuples
    <2> QED
      BY <2>2, <2>3 DEF i, j, k, l, m
  <1>4. Balanced(<<Str(a), Str(b), Num(c), Str(d)>>) /\ Balanced(<<Str(a), Num(b), Str(c), Str(d)>>)
    <2> DEFINE i == Str(a)
               j == Str(b)
               k == Num(c)
               l == Str(d)
               m == Num(b)
               n == Str(c)
    <2>1. IsItem(i) /\ IsItem(j) /\ IsItem(k) /\ IsItem(l) /\ IsItem(m) /\ IsItem(n)
      BY <1>1, ReportItems
    <2> HIDE DEF i, j, k, l, m, n
    <2>2. Balanced(<<i, j, k, l>>)
      BY <2>1, ItemTuples
    <2>3. Balanced(<<i, m, n, l>>)
      BY <2>1, ItemTuples
    <2> QED
      BY <2>2, <2>3 DEF i, j, k, l, m, n
  <1>5. Balanced(<<Num(a), Num(b), Num(c), Num(d), Num(e), Str(f)>>)
    <2> DEFINE i == Num(a)
               j == Num(b)
               k == Num(c)
               l == Num(d)
               m == Num(e)
               n == Str(f)
    <2>1. IsItem(i) /\ IsItem(j) /\ IsItem(k) /\ IsItem(l) /\ IsItem(m) /\ IsItem(n)
      BY <1>1
    <2> HIDE DEF i, j, k, l, m, n
    <2>2. Balanced(<<i, j, k, l, m, n>>)
      BY <2>1, ItemTuples
    <2> QED
      BY <2>2 DEF i, j, k, l, m, n
  <1> QED
    BY <1>2, <1>3, <1>4, <1>5

LEMMA NamedWhen ==
    ASSUME NEW r, NEW field
    PROVE  \A a : Balanced(When(r, field, <<Str(a)>>))
  BY Named, BalancedWhen

-----------------------------------------------------------------------------
(* The report of a packet closes every block it opens. *)

LEMMA ProtoBalanced ==
    ASSUME NEW r
    PROVE  Balanced(ndpi_serialize_proto(r))
  <1> DEFINE x == Call("uint32_string", "12", "s")
             risk == Block("flow_risk", <<x>>)
             a == When(r, "risk", risk)
             b == <<Str("proto"), Str("breed")>>
             c == When(r, "category", <<Str("category")>>)
  <1>1. Balanced(<<x>>)
    <2>1. IsItem(x)
      BY ReportItems
    <2> HIDE DEF x
    <2> QED
      BY <2>1, ItemTuples
  <1>2. Balanced(a)
    <2> HIDE DEF x
    <2>1. Balanced(risk)
      BY <1>1, BalancedBlock
    <2> HIDE DEF risk
    <2> QED
      BY <2>1, BalancedWhen
  <1>3. Balanced(b) /\ Balanced(c)
    BY Named, NamedWhen
  <1>4. Balanced(Block("ndpi", a \o b \o c))
    <2> HIDE DEF a, b, c
    <2>1. Balanced(a \o b \o c)
      BY <1>2, <1>3, BalancedCats
    <2> DEFINE body == a \o b \o c
    <2> HIDE DEF body
    <2> QED
      BY <2>1, BalancedBlock DEF body
  <1> QED
    BY <1>4, Zenon DEF ndpi_serialize_proto, ndpi_serialize_risk

LEMMA TlsBalanced ==
    ASSUME NEW r
    PROVE  Balanced(TlsReport(r))
  <1> DEFINE a == <<Str("version"), Str("client_requested_server_name")>>
             b == When(r, "server_names", <<Str("server_names")>>)
             c == When(r, "notBefore", <<Str("notbefore")>>)
             d == When(r, "notAfter", <<Str("notafter")>>)
             e == <<Str("ja3"), Str("ja3s"), Num("unsafe_cipher"), Str("cipher")>>
             f == When(r, "issuerDN", <<Str("issuerDN")>>)
             g == When(r, "subjectDN", <<Str("subjectDN")>>)
             h == When(r, "alpn", <<Str("alpn")>>)
             i == When(r, "tls_supported_versions", <<Str("tls_supported_versions")>>)
             j == When(r, "fingerprint", <<Str("fingerprint")>>)
             body == a \o b \o c \o d \o e \o f \o g \o h \o i \o j
  <1>1. Balanced(a) /\ Balanced(e)
    BY Named
  <1>2. /\ Balanced(b) /\ Balanced(c) /\ Balanced(d) /\ Balanced(f)
        /\ Balanced(g) /\ Balanced(h) /\ Balanced(i) /\ Balanced(j)
    BY NamedWhen
  <1>3. Balanced(body)
    <2> HIDE DEF a, b, c, d, e, f, g, h, i, j
    <2> DEFINE first == a \o b \o c \o d
               second == first \o e \o f \o g
    <2>1. Balanced(first)
      BY <1>1, <1>2, BalancedCats
    <2> HIDE DEF first
    <2>2. Balanced(second)
      BY <1>1, <1>2, <2>1, BalancedCats
    <2> HIDE DEF second
    <2>3. Balanced(second \o h \o i \o j)
      BY <1>2, <2>2, BalancedCats
    <2> QED
      BY <2>3 DEF first, second
  <1> HIDE DEF body
  <1>4. Balanced(Block("tls", body))
    BY <1>3, BalancedBlock
  <1>5. TlsReport(r) = Block("tls", body) \/ TlsReport(r) = <<>>
    BY Zenon DEF TlsReport, body
  <1> QED
    BY <1>4, <1>5, BalancedEmpty

LEMMA QuicBalanced ==
    ASSUME NEW r
    PROVE  Balanced(QuicReport(r))
  <1> DEFINE a == When(r, "host", <<Str("client_requested_server_name")>>)
             b == When(r, "server_names", <<Str("server_names")>>)
             c == When(r, "user_agent", <<Str("user_agent")>>)
             e == When(r, "known_version", <<Str("version")>>)
             f == When(r, "alpn", <<Str("alpn")>>)
             g == <<Str("ja3")>>
             h == When(r, "tls_supported_versions", <<Str("tls_supported_versions")>>)
             tls == e \o f \o g \o h
             d == When(r, "ssl_version", tls)
             body == a \o b \o c \o d
  <1>1. /\ Balanced(a) /\ Balanced(b) /\ Balanced(c) /\ Balanced(e) /\ Balanced(f) /\ Balanced(g)
        /\ Balanced(h)
    BY Named, NamedWhen
  <1> HIDE DEF a, b, c, e, f, g, h
  <1>2. Balanced(tls)
    BY <1>1, BalancedCats
  <1> HIDE DEF tls
  <1>3. Balanced(d)
    BY <1>2, BalancedWhen
  <1> HIDE DEF d
  <1>4. Balanced(body)
    BY <1>1, <1>3, BalancedCats
  <1> HIDE DEF body
  <1>5. Balanced(Block("quic", body))
    BY <1>4, BalancedBlock
  <1> QED
    BY <1>5, Zenon DEF QuicReport, a, b, c, d, e, f, g, h, tls, body

LEMMA HttpBalanced ==
    ASSUME NEW r
    PROVE  Balanced(HttpReport(r))
  <1> DEFINE a == When(r, "host", <<Str("hostname")>>)
             c == <<Str("url"), Num("code"), Str("content_type"), Str("user_agent")>>
             b == When(r, "url", c)
             body == a \o b
  <1>1. Balanced(a) /\ Balanced(c)
    BY Named, NamedWhen
  <1> HIDE DEF a, c
  <1>2. Balanced(b)
    BY <1>1, BalancedWhen
  <1> HIDE DEF b
  <1>3. Balanced(body)
    BY <1>1, <1>2, BalancedCat
  <1> HIDE DEF body
  <1>4. Balanced(Block("http", body))
    BY <1>3, BalancedBlock
  <1> QED
    BY <1>4, Zenon DEF HttpReport, a, b, c, body

LEMMA DnsBalanced ==
    ASSUME NEW r
    PROVE  Balanced(DnsReport(r))
  <1> DEFINE a == When(r, "host", <<Str("query")>>)
             b == <<Num("num_queries"), Num("num_answers"), Num("reply_code"), Num("query_type"),
                    Num("rsp_type"), Str("rsp_addr")>>
             body == a \o b
  <1>1. Balanced(a) /\ Balanced(b)
    BY Named, NamedWhen
  <1> HIDE DEF a, b
  <1>2. Balanced(body)
    BY <1>1, BalancedCat
  <1> HIDE DEF body
  <1>3. Balanced(Block("dns", body))
    BY <1>2, BalancedBlock
  <1> QED
    BY <1>3, Zenon DEF DnsReport, a, b, body

\* One block of items.
LEMMA BlockBalanced ==
    /\ \A key, a : Balanced(Block(key, <<Str(a)>>))
    /\ \A key, a, b : /\ Balanced(Block(key, <<Str(a), Str(b)>>))
                      /\ Balanced(Block(key, <<Num(a), Num(b)>>))
    /\ \A key, a, b, c : /\ Balanced(Block(key, <<Str(a), Str(b), Str(c)>>))
                         /\ Balanced(Block(key, <<Str(a), Str(b), Num(c)>>))
    /\ \A key, a, b, c, d : Balanced(Block(key, <<Str(a), Str(b), Str(c), Str(d)>>))
  BY Named, BalancedBlock

LEMMA ReportBalanced ==
    ASSUME NEW r
    PROVE  Balanced(ndpi_dpi2json(r))
  <1> DEFINE x == Call("string_float", "entropy", "%.6f")
             more ==
               CASE r.proto = "IP_ICMP" -> When(r, "entropy", <<x>>)
                 [] r.proto = "DHCP" ->
                      Block("dhcp", <<Str("hostname"), Str("fingerprint"), Str("class_ident")>>)
                 [] r.proto = "BITTORRENT" -> Block("bittorrent", <<Str("hash")>>)
                 [] r.proto = "DNS" -> DnsReport(r)
                 [] r.proto = "NTP" -> Block("ntp", <<Num("request_code"), Num("version")>>)
                 [] r.proto = "MDNS" -> Block("mdns", <<Str("answer")>>)
                 [] r.proto = "UBNTAC2" -> Block("ubntac2", <<Str("version")>>)
                 [] r.proto = "KERBEROS" ->
                      Block("kerberos", <<Str("hostname"), Str("domain"), Str("username")>>)
                 [] r.proto = "TELNET" -> Block("telnet", <<Str("username"), Str("password")>>)
                 [] r.proto = "HTTP" -> HttpReport(r)
                 [] r.proto = "QUIC" -> QuicReport(r)
                 [] r.proto = "MAIL_IMAP" -> UserAndPassword("imap")
                 [] r.proto = "MAIL_POP" -> UserAndPassword("pop")
                 [] r.proto = "MAIL_SMTP" -> UserAndPassword("smtp")
                 [] r.proto = "FTP_CONTROL" ->
                      Block("ftp", <<Str("user"), Str("password"), Num("auth_failed")>>)
                 [] r.proto = "SSH" ->
                      Block("ssh", <<Str("client_signature"), Str("server_signature"),
                                     Str("hassh_client"), Str("hassh_server")>>)
                 [] r.proto \in {"TLS", "DTLS"} -> TlsReport(r)
                 [] OTHER -> <<>>
             proto == ndpi_serialize_proto(r)
  <1>1. Balanced(proto)
    BY ProtoBalanced
  <1>2. Balanced(When(r, "entropy", <<x>>))
    <2>1. IsItem(x)
      BY ReportItems
    <2> HIDE DEF x
    <2>2. Balanced(<<x>>)
      BY <2>1, ItemTuples
    <2> QED
      BY <2>2, BalancedWhen
  <1>3. /\ Balanced(DnsReport(r)) /\ Balanced(HttpReport(r)) /\ Balanced(QuicReport(r))
        /\ Balanced(TlsReport(r)) /\ Balanced(<<>>)
    BY DnsBalanced, HttpBalanced, QuicBalanced, TlsBalanced, BalancedEmpty
  <1>4. \A key : Balanced(UserAndPassword(key))
    BY BlockBalanced DEF UserAndPassword
  <1> HIDE DEF x
  <1>5. \/ more = When(r, "entropy", <<x>>)
        \/ more = DnsReport(r) \/ more = HttpReport(r) \/ more = QuicReport(r)
        \/ more = TlsReport(r) \/ more = <<>>
        \/ more = UserAndPassword("imap") \/ more = UserAndPassword("pop")
        \/ more = UserAndPassword("smtp")
        \/ more = Block("dhcp", <<Str("hostname"), Str("fingerprint"), Str("class_ident")>>)
        \/ more = Block("bittorrent", <<Str("hash")>>)
        \/ more = Block("ntp", <<Num("request_code"), Num("version")>>)
        \/ more = Block("mdns", <<Str("answer")>>)
        \/ more = Block("ubntac2", <<Str("version")>>)
        \/ more = Block("kerberos", <<Str("hostname"), Str("domain"), Str("username")>>)
        \/ more = Block("telnet", <<Str("username"), Str("password")>>)
        \/ more = Block("ftp", <<Str("user"), Str("password"), Num("auth_failed")>>)
        \/ more = Block("ssh", <<Str("client_signature"), Str("server_signature"),
                                 Str("hassh_client"), Str("hassh_server")>>)
    BY Zenon
  <1> HIDE DEF more, proto
  <1>6. Balanced(more)
    BY <1>2, <1>3, <1>4, <1>5, BlockBalanced, Zenon
  <1>7. Balanced(proto \o more)
    BY <1>1, <1>6, BalancedCat
  <1> QED
    BY <1>7, Zenon DEF ndpi_dpi2json, more, proto, x

LEMMA BalancedCalls ==
    ASSUME NEW p, Balanced(p)
    PROVE  /\ Len(p) \in Nat
           /\ \A i \in 1 .. Len(p) : p[i].op \in Items \cup {"start_of_block", "end_of_block"}
           /\ \A i \in 1 .. Len(p) : p[i].op \in Items \cup Structure
  <1>1. Len(p) \in Nat
    BY DEF Balanced
  <1>2. \A i \in 1 .. Len(p) : p[i].op \in Items \cup {"start_of_block", "end_of_block"}
    BY DEF Balanced
  <1>3. Items \cup {"start_of_block", "end_of_block"} \subseteq Items \cup Structure
    BY DEF Structure
  <1> QED
    BY <1>1, <1>2, <1>3

\* A report in CSV or TLV.
LEMMA RunPlain ==
    ASSUME NEW s, Sane(s), s.fmt \in Plain, NEW p, Balanced(p), Known(p), NEW lost
    PROVE  Grows(s, Run(s, p, lost))
  <1>1. Len(p) \in Nat /\ \A i \in 1 .. Len(p) : p[i].op \in Items \cup Structure
    BY BalancedCalls
  <1>2. PICK after : IsRun(after, s, p, lost) /\ Run(s, p, lost) = after[Len(p)]
    BY <1>1, RunDef
  <1> DEFINE S == {i \in Nat : i <= Len(p) => Grows(s, after[i])}
  <1>3. 0 \in S
    BY <1>2, GrowsSelf DEF IsRun
  <1>4. ASSUME NEW i \in S
        PROVE  i + 1 \in S
    <2> SUFFICES ASSUME i + 1 <= Len(p)
                 PROVE  Grows(s, after[i + 1])
      OBVIOUS
    <2> DEFINE j == i + 1
               mem == IF j = lost THEN "noBuffer" ELSE "ok"
               u == after[i]
    <2>1. Grows(s, u) /\ j \in 1 .. Len(p) /\ j - 1 = i
      BY <1>1
    <2>2. after[j] = Perform(u, mem, p[j]).s
      <3> HIDE DEF mem
      <3>1. after[j] = Perform(after[j - 1], mem, p[j]).s
        BY <1>2, <2>1, Zenon DEF IsRun, mem
      <3> QED
        BY <2>1, <3>1
    <2>3. Sane(u) /\ u.fmt \in Plain
      BY <2>1 DEF Grows, Same
    <2>4. p[j].key \in Texts /\ p[j].v \in Texts /\ p[j].op \in Items \cup Structure
      BY <1>1, <2>1 DEF Known
    <2> HIDE DEF j, mem, u
    <2>5. Grows(u, Perform(u, mem, p[j]).s)
      BY <2>3, <2>4, PlainCall
    <2>6. Grows(s, after[j])
      BY <2>1, <2>2, <2>5, GrowsTrans
    <2> QED
      BY <2>6 DEF j
  <1>5. S = Nat
    <2>1. S \in SUBSET Nat
      OBVIOUS
    <2> HIDE DEF S
    <2> QED
      BY <1>3, <1>4, <2>1, Induction
  <1> QED
    BY <1>1, <1>2, <1>5

\* A report in JSON: it leaves a document in order, unless the call that
\* found no memory opened or closed a block.
LEMMA RunJson ==
    ASSUME NEW s, IsClosed(s), s.fmt = "json", s.flags = {}, NEW p, Balanced(p), Known(p),
           NEW lost
    PROVE  LET t == Run(s, p, lost)
           IN  /\ IsClosed(t) /\ t.fmt = "json" /\ t.snapshot = s.snapshot /\ "LIST" \notin t.flags
               /\ \/ ~GoodJson(s, 0)
                  \/ lost \in 1 .. Len(p) /\ p[lost].op \in {"start_of_block", "end_of_block"}
                  \/ GoodJson(t, 0)
  <1>1. Len(p) \in Nat
        /\ \A i \in 1 .. Len(p) : p[i].op \in Items \cup {"start_of_block", "end_of_block"}
    BY BalancedCalls
  <1>2. PICK after : IsRun(after, s, p, lost) /\ Run(s, p, lost) = after[Len(p)]
    BY <1>1, RunDef
  <1>3. PICK level \in [0 .. Len(p) -> Nat] :
         /\ level[0] = 0 /\ level[Len(p)] = 0
         /\ \A i \in 1 .. Len(p) :
              \/ p[i].op \in Items /\ level[i] = level[i - 1]
              \/ p[i].op = "start_of_block" /\ level[i] = level[i - 1] + 1
              \/ p[i].op = "end_of_block" /\ level[i - 1] = level[i] + 1
    BY DEF Balanced
  <1> DEFINE ok == /\ GoodJson(s, 0)
                   /\ ~(lost \in 1 .. Len(p) /\ p[lost].op \in {"start_of_block", "end_of_block"})
             Held1(u) == IsClosed(u) /\ u.fmt = "json" /\ u.snapshot = s.snapshot
                         /\ "LIST" \notin u.flags /\ "ARRAY" \notin u.flags
             S == {i \in Nat : i <= Len(p) =>
                     Held1(after[i]) /\ (ok => GoodJson(after[i], level[i]))}
  <1>4. 0 \in S
    <2>1. after[0] = s
      BY <1>2 DEF IsRun
    <2>2. Held1(s)
      OBVIOUS
    <2>3. ok => GoodJson(s, level[0])
      BY <1>3, Zenon
    <2> HIDE DEF Held1, ok
    <2> QED
      BY <2>1, <2>2, <2>3
  <1>5. ASSUME NEW i \in S
        PROVE  i + 1 \in S
    <2> SUFFICES ASSUME i + 1 <= Len(p)
                 PROVE  Held1(after[i + 1]) /\ (ok => GoodJson(after[i + 1], level[i + 1]))
      OBVIOUS
    <2> DEFINE j == i + 1
               mem == IF j = lost THEN "noBuffer" ELSE "ok"
               u == after[i]
               c == p[j]
               t == Perform(u, mem, c).s
               k == level[i]
               n == level[j]
    <2>1. j \in 1 .. Len(p) /\ j - 1 = i /\ i <= Len(p) /\ i \in 0 .. Len(p) /\ j \in 0 .. Len(p)
      BY <1>1
    <2>2. after[j] = t
      <3> HIDE DEF mem
      <3>1. after[j] = Perform(after[j - 1], mem, p[j]).s
        BY <1>2, <2>1, Zenon DEF IsRun, mem
      <3> QED
        BY <2>1, <3>1
    <2>3. Held1(u) /\ (ok => GoodJson(u, k))
      <3> HIDE DEF Held1, ok
      <3> QED
        BY <2>1
    <2>4. c.key \in Texts /\ c.v \in Texts /\ k \in Nat /\ n \in Nat
      BY <2>1 DEF Known
    <2>5. \/ c.op \in Items /\ n = k
          \/ c.op = "start_of_block" /\ n = k + 1
          \/ c.op = "end_of_block" /\ k = n + 1
      BY <1>3, <2>1, Zenon
    <2>6. ok /\ c.op \in {"start_of_block", "end_of_block"} => mem # "noBuffer"
      <3>1. j = lost => lost \in 1 .. Len(p) /\ p[lost] = c
        BY <2>1
      <3> HIDE DEF c
      <3> QED
        BY <3>1
    <2> HIDE DEF j, mem, u, c, k, n, ok
    <2>7. ASSUME c.op \in Items, n = k
          PROVE  Held1(t) /\ (ok => GoodJson(t, n))
      <3>1. /\ JsonKeeps(u, t)
            /\ "LIST" \in t.flags <=> "LIST" \in u.flags
            /\ "ARRAY" \in t.flags <=> "ARRAY" \in u.flags
            /\ \A x \in Nat : GoodJson(u, x) => GoodJson(t, x)
        BY <2>3, <2>4, <2>7, JsonItemCall
      <3> HIDE DEF t
      <3>2. IsClosed(t) /\ t.fmt = u.fmt /\ t.snapshot = u.snapshot
        BY <3>1 DEF JsonKeeps, Keeps
      <3> QED
        BY <2>3, <2>4, <2>7, <3>1, <3>2, Zenon
    <2>8. ASSUME c.op = "start_of_block", n = k + 1
          PROVE  Held1(t) /\ (ok => GoodJson(t, n))
      <3> DEFINE d == Perform(u, mem, c)
      <3>1. /\ JsonKeeps(u, d.s)
            /\ \/ d.rc = -1 /\ d.s = u
               \/ /\ d.rc = 0 /\ "LIST" \notin d.s.flags /\ mem # "noBuffer"
                  /\ "ARRAY" \in d.s.flags <=> "ARRAY" \in u.flags
                  /\ \A x \in Nat : GoodJson(u, x) /\ "ARRAY" \notin u.flags => GoodJson(d.s, x + 1)
            /\ mem # "noBuffer" => d.rc = 0
        BY <2>3, <2>4, <2>8, JsonBlockCalls
      <3> HIDE DEF d
      <3>2. IsClosed(d.s) /\ d.s.fmt = u.fmt /\ d.s.snapshot = u.snapshot
        BY <3>1 DEF JsonKeeps, Keeps
      <3>3. Held1(d.s)
        BY <2>3, <3>1, <3>2
      <3>4. ok => GoodJson(d.s, n)
        <4>1. ok => mem # "noBuffer"
          BY <2>6, <2>8
        <4> QED
          BY <2>3, <2>4, <2>8, <3>1, <4>1
      <3> QED
        BY <3>3, <3>4 DEF d
    <2>9. ASSUME c.op = "end_of_block", k = n + 1
          PROVE  Held1(t) /\ (ok => GoodJson(t, n))
      <3> DEFINE d == Perform(u, mem, c)
      <3>1. /\ JsonKeeps(u, d.s)
            /\ \/ d.rc = -1 /\ d.s = u
               \/ /\ d.rc = 0 /\ "LIST" \notin d.s.flags
                  /\ "ARRAY" \in d.s.flags <=> "ARRAY" \in u.flags
                  /\ \A x \in Nat : GoodJson(u, x + 1) => GoodJson(d.s, x)
            /\ mem # "noBuffer" => d.rc = 0
        BY <2>3, <2>4, <2>9, JsonBlockCalls
      <3> HIDE DEF d
      <3>2. IsClosed(d.s) /\ d.s.fmt = u.fmt /\ d.s.snapshot = u.snapshot
        BY <3>1 DEF JsonKeeps, Keeps
      <3>3. Held1(d.s)
        BY <2>3, <3>1, <3>2
      <3>4. ok => GoodJson(d.s, n)
        <4>1. ok => mem # "noBuffer"
          BY <2>6, <2>9
        <4> QED
          BY <2>3, <2>4, <2>9, <3>1, <4>1
      <3> QED
        BY <3>3, <3>4 DEF d
    <2> HIDE DEF Held1, t
    <2>10. Held1(t) /\ (ok => GoodJson(t, n))
      BY <2>5, <2>7, <2>8, <2>9
    <2> QED
      BY <2>2, <2>10, Zenon DEF j, n
  <1>6. S = Nat
    <2>1. S \in SUBSET Nat
      OBVIOUS
    <2> HIDE DEF S
    <2> QED
      BY <1>4, <1>5, <2>1, Induction
  <1>7. Held1(after[Len(p)]) /\ (ok => GoodJson(after[Len(p)], 0))
    <2> HIDE DEF Held1, ok
    <2>1. Len(p) \in S /\ Len(p) <= Len(p)
      BY <1>1, <1>6
    <2> QED
      BY <1>3, <2>1
  <1> HIDE DEF S
  <1> QED
    BY <1>2, <1>7, Zenon

-----------------------------------------------------------------------------
(* The invariant is inductive. *)

LEMMA StandingFacts ==
    ASSUME Standing
    PROVE  /\ \A f \in Formats : Sane(ser[f]) /\ ser[f].fmt = f /\ InBuffer(ser[f])
                                 /\ ser[f] \in Serializers
           /\ IsClosed(ser["json"]) /\ ser["json"].fmt = "json"
           /\ "json" \in Formats /\ Plain \subseteq Formats /\ \A f \in Plain : f # "json"
           /\ \A f \in Formats : f \in Plain \/ f = "json"
  <1>1. /\ "json" \in Formats /\ Plain \subseteq Formats /\ \A f \in Plain : f # "json"
        /\ \A f \in Formats : f \in Plain \/ f = "json"
    BY DEF Formats, Plain
  <1>2. \A f \in Formats : Sane(ser[f]) /\ ser[f].fmt = f
    BY DEF Standing
  <1>3. \A f \in Formats : InBuffer(ser[f]) /\ ser[f] \in Serializers
    BY <1>2 DEF Sane, InBuffer
  <1>4. IsClosed(ser["json"])
    BY <1>1, <1>2, SaneJson
  <1> QED
    BY <1>1, <1>2, <1>3, <1>4, Zenon

LEMMA InitInv ==
    ASSUME Init
    PROVE  SerializerInv
  <1>1. /\ ser = [f \in Formats |-> ndpi_init_serializer_ll(f)]
        /\ caller \in Callers \cup {LANShield} /\ open = <<>> /\ marks = {} /\ saved = NothingSaved
    BY DEF Init
  <1>2. "json" \in Formats
    BY DEF Formats
  <1>3. \A f \in Formats : Sane(ser[f]) /\ ser[f].fmt = f /\ ser[f].flags = {}
    <2> TAKE f \in Formats
    <2>1. ser[f] = ndpi_init_serializer_ll(f)
      BY <1>1
    <2> QED
      BY <2>1, NewFacts
  <1>4. GoodJson(ser["json"], 0)
    <2>1. ser["json"] = ndpi_init_serializer_ll("json")
      BY <1>1, <1>2
    <2> QED
      BY <1>2, <2>1, NewFacts
  <1>5. Standing
    <2>1. DOMAIN ser = Formats
      BY <1>1
    <2>2. "LIST" \notin ser["json"].flags /\ IsOpen(open) /\ InnerOf(open) # "list"
      BY <1>1, <1>2, <1>3, OpenEmpty
    <2> QED
      BY <1>1, <1>3, <2>1, <2>2, Zenon DEF Standing
  <1>6. SavedStanding /\ SavedGood
    BY <1>1 DEF SavedStanding, SavedGood, NothingSaved
  <1>7. JsonGood
    BY <1>1, <1>4, OpenEmpty DEF JsonGood
  <1> QED
    BY <1>5, <1>6, <1>7 DEF SerializerInv

LEMMA SerializeInv ==
    ASSUME SerializerInv, NEW c \in caller.calls, NEW mem \in Memory, Serialize(c, mem)
    PROVE  SerializerInv'
  <1> DEFINE s == ser["json"]
             t == ser'["json"]
             d == Perform(s, mem, c)
  <1>1. Standing /\ SavedStanding /\ SavedGood /\ JsonGood
    BY DEF SerializerInv
  <1>2. c.key \in Texts /\ c.v \in Texts /\ c.op \in Items \cup Structure
    BY <1>1, CallFacts DEF Standing
  <1>3. /\ Allowed(c.op) /\ caller' = caller
        /\ ser' = [f \in Formats |-> Perform(ser[f], mem, c).s]
        /\ open' = IF d.rc = 0 THEN OpenAfter(c.op) ELSE open
        /\ marks' = marks \cup MarksOf(c, mem) \cup Uneven(c, mem)
                          \cup (IF mem = "ok" THEN {} ELSE {"memory"})
        /\ saved' = SavedAfter(c)
    <2>1. "json" \in Formats
      BY DEF Formats
    <2>2. /\ Allowed(c.op) /\ caller' = caller
          /\ ser' = [f \in Formats |-> [g \in Formats |-> Perform(ser[g], mem, c)][f].s]
          /\ open' = IF [g \in Formats |-> Perform(ser[g], mem, c)]["json"].rc = 0
                     THEN OpenAfter(c.op) ELSE open
          /\ marks' = marks \cup MarksOf(c, mem) \cup Uneven(c, mem)
                            \cup (IF mem = "ok" THEN {} ELSE {"memory"})
          /\ saved' = SavedAfter(c)
      BY Zenon DEF Serialize
    <2>3. [g \in Formats |-> Perform(ser[g], mem, c)]["json"] = d
      BY <2>1
    <2>4. [f \in Formats |-> [g \in Formats |-> Perform(ser[g], mem, c)][f].s]
            = [f \in Formats |-> Perform(ser[f], mem, c).s]
      BY Zenon
    <2> QED
      BY <2>2, <2>3, <2>4, Zenon
  <1>4. /\ \A f \in Formats : Sane(ser[f]) /\ ser[f].fmt = f
        /\ IsClosed(s) /\ s.fmt = "json"
        /\ "json" \in Formats /\ Plain \subseteq Formats
        /\ \A f \in Formats : f \in Plain \/ f = "json"
    BY <1>1, StandingFacts
  <1>5. t = d.s /\ DOMAIN ser' = Formats /\ \A f \in Formats : ser'[f] = Perform(ser[f], mem, c).s
    BY <1>3, <1>4
  <1>6. JsonCallFacts(c, mem, s, d, open')
    BY <1>1, <1>3, SerializeJson
  <1>7. \A f \in Plain : Grows(ser[f], ser'[f])
    <2> TAKE f \in Plain
    <2>1. f \in Formats /\ Sane(ser[f]) /\ ser[f].fmt \in Plain
      BY <1>4
    <2>2. Grows(ser[f], Perform(ser[f], mem, c).s)
      BY <1>2, <2>1, PlainCall
    <2> QED
      BY <1>5, <2>1, <2>2
  <1>8. /\ saved'.text = saved.text /\ saved'.open = saved.open
        /\ saved' = [text |-> saved'.text, open |-> saved'.open, sound |-> saved'.sound]
        /\ saved'.sound \subseteq saved.sound /\ saved.sound \ {"json"} \subseteq saved'.sound
        /\ "json" \in saved'.sound => ~(c.op = "raw_record" /\ IsEmptyJson(s))
    <2>1. saved = [text |-> saved.text, open |-> saved.open, sound |-> saved.sound]
      BY <1>1 DEF SavedStanding
    <2>2. CASE c.op = "raw_record" /\ IsEmptyJson(s)
      <3>1. saved' = [saved EXCEPT !.sound = @ \ {"json"}]
        BY <1>3, <2>2 DEF SavedAfter
      <3>2. saved' = [text |-> saved.text, open |-> saved.open, sound |-> saved.sound \ {"json"}]
        BY <2>1, <3>1
      <3> QED
        BY <3>2
    <2>3. CASE ~(c.op = "raw_record" /\ IsEmptyJson(s))
      <3>1. saved' = saved
        BY <1>3, <2>3 DEF SavedAfter
      <3> QED
        BY <2>1, <2>3, <3>1
    <2> QED
      BY <2>2, <2>3
  <1> HIDE DEF d, s, t
  <1>9. Sane(t) /\ t.fmt = "json" /\ t.snapshot = s.snapshot /\ t.hused = s.hused
    <2>1. IsClosed(t) /\ t.fmt = "json" /\ t.snapshot = s.snapshot /\ t.hused = s.hused
      BY <1>4, <1>5, <1>6 DEF JsonCallFacts
    <2> QED
      BY <2>1, SaneJson
  <1>10. Standing'
    <2>1. \A f \in Formats : Sane(ser'[f]) /\ ser'[f].fmt = f
      <3> TAKE f \in Formats
      <3>1. CASE f \in Plain
        BY <1>4, <1>7, <3>1 DEF Grows, Same
      <3>2. CASE f = "json"
        BY <1>9, <3>2 DEF t
      <3> QED
        BY <1>4, <3>1, <3>2
    <2>2. IsOpen(open') /\ ("LIST" \in t.flags <=> InnerOf(open') = "list")
      BY <1>5, <1>6, Zenon DEF JsonCallFacts
    <2>3. caller' \in Callers \cup {LANShield}
      BY <1>1, <1>3 DEF Standing
    <2> QED
      BY <1>5, <2>1, <2>2, <2>3, Zenon DEF Standing, t
  <1>11. SavedStanding'
    <2> SUFFICES ASSUME saved'.sound # {}
                 PROVE  /\ Plain \subseteq saved'.sound
                        /\ \A f \in Formats : CanReturn(ser'[f])
                        /\ IsOpen(saved'.open)
                        /\ "LIST" \in t.snapshot.flags <=> InnerOf(saved'.open) = "list"
                        /\ \A f \in Plain :
                             saved'.text[f] = SubSeq(ser'[f].data, 1, ser'[f].snapshot.used)
      <3>1. saved'.sound \subseteq Formats
        BY <1>1, <1>8 DEF SavedStanding
      <3> QED
        BY <1>8, <3>1, Zenon DEF SavedStanding, t
    <2>1. /\ Plain \subseteq saved.sound
          /\ \A f \in Formats : CanReturn(ser[f])
          /\ IsOpen(saved.open)
          /\ "LIST" \in s.snapshot.flags <=> InnerOf(saved.open) = "list"
          /\ \A f \in Plain : saved.text[f] = SubSeq(ser[f].data, 1, ser[f].snapshot.used)
      <3>1. saved.sound # {}
        BY <1>8
      <3> QED
        BY <1>1, <3>1, Zenon DEF SavedStanding, s
    <2>2. Plain \subseteq saved'.sound
      BY <1>8, <2>1 DEF Plain
    <2>3. \A f \in Plain : CanReturn(ser'[f])
                           /\ SubSeq(ser'[f].data, 1, ser'[f].snapshot.used)
                                = SubSeq(ser[f].data, 1, ser[f].snapshot.used)
      <3> TAKE f \in Plain
      <3>1. f \in Formats /\ Sane(ser[f]) /\ ser[f].fmt \in Plain /\ CanReturn(ser[f])
            /\ Grows(ser[f], ser'[f])
        BY <1>4, <1>7, <2>1
      <3> QED
        BY <3>1, ReturnGrows
    <2>4. CanReturn(t)
      <3>1. CanReturn(s) /\ "json" \notin Plain
        BY <1>4, <2>1 DEF s, Plain
      <3> QED
        BY <1>4, <1>9, <3>1, Zenon DEF CanReturn
    <2>5. \A f \in Formats : CanReturn(ser'[f])
      BY <1>4, <2>3, <2>4 DEF t
    <2>6. \A f \in Plain : saved'.text[f] = SubSeq(ser'[f].data, 1, ser'[f].snapshot.used)
      BY <1>8, <2>1, <2>3, Zenon
    <2> QED
      BY <1>8, <1>9, <2>1, <2>2, <2>5, <2>6, Zenon
  <1>12. SavedGood'
    <2> SUFFICES ASSUME "json" \in saved'.sound
                 PROVE  \E g : IsSaved(g, Depth(saved'.open), saved'.text["json"], t)
      BY Zenon DEF SavedGood, t
    <2>1. PICK g : IsSaved(g, Depth(saved.open), saved.text["json"], s)
      BY <1>1, <1>8 DEF SavedGood, s
    <2>2. JsonKeeps(s, t)
      BY <1>5, <1>6, <1>8, Zenon DEF JsonCallFacts
    <2>3. IsClosed(g) /\ 1 <= Body(g) /\ Held(g, s)
      BY <2>1 DEF IsSaved, GoodJson
    <2>4. Held(g, t)
      BY <1>4, <2>2, <2>3, HeldKeeps
    <2>5. IsSaved(g, Depth(saved.open), saved.text["json"], t)
      BY <1>9, <2>1, <2>4, Zenon DEF IsSaved
    <2> QED
      BY <1>8, <2>5
  <1>13. JsonGood'
    <2>1. "brace" \notin MarksOf(c, mem) \cup Uneven(c, mem)
                           \cup (IF mem = "ok" THEN {} ELSE {"memory"})
      BY MarkFacts
    <2>2. caller' # LANShield => "brace" \notin marks'
      <3>1. LANShield' = LANShield
        BY DEF LANShield
      <3> QED
        BY <1>1, <1>3, <2>1, <3>1 DEF JsonGood
    <2>3. ASSUME marks' \cap Spoilt = {}
          PROVE  GoodJson(t, Depth(open'))
      <3>1. marks \cap Spoilt = {} /\ MarksOf(c, mem) \cap Spoilt = {}
        BY <1>3, <2>3
      <3>2. GoodJson(s, Depth(open))
        BY <1>1, <3>1 DEF JsonGood, s
      <3> QED
        BY <1>5, <1>6, <3>1, <3>2, Zenon DEF JsonCallFacts
    <2> QED
      BY <2>2, <2>3 DEF JsonGood, t
  <1> QED
    BY <1>10, <1>11, <1>12, <1>13 DEF SerializerInv

\* Nothing is saved once the caller has started again.
LEMMA NothingSound ==
    ASSUME SavedStanding, saved' = [saved EXCEPT !.sound = {}] \/ saved' = NothingSaved
    PROVE  SavedStanding' /\ SavedGood'
  <1>1. saved = [text |-> saved.text, open |-> saved.open, sound |-> saved.sound]
    BY DEF SavedStanding
  <1>2. saved'.sound = {}
        /\ saved' = [text |-> saved'.text, open |-> saved'.open, sound |-> saved'.sound]
    <2>1. CASE saved' = [saved EXCEPT !.sound = {}]
      <3>1. saved' = [text |-> saved.text, open |-> saved.open, sound |-> {}]
        BY <1>1, <2>1
      <3> QED
        BY <3>1
    <2>2. CASE saved' = NothingSaved
      BY <2>2 DEF NothingSaved
    <2> QED
      BY <2>1, <2>2
  <1> QED
    BY <1>2 DEF SavedStanding, SavedGood

LEMMA ResetInv ==
    ASSUME SerializerInv, Reset
    PROVE  SerializerInv'
  <1>1. Standing /\ SavedStanding
    BY DEF SerializerInv
  <1>2. /\ ser' = [f \in Formats |-> ndpi_reset_serializer(ser[f])]
        /\ open' = <<>> /\ marks' = {} /\ saved' = [saved EXCEPT !.sound = {}]
        /\ caller' = caller
    BY DEF Reset, Direct
  <1>3. /\ \A f \in Formats : Sane(ser[f]) /\ ser[f].fmt = f /\ InBuffer(ser[f])
        /\ "json" \in Formats
    BY <1>1, StandingFacts
  <1>4. \A f \in Formats : /\ Sane(ser'[f]) /\ ser'[f].fmt = f /\ ser'[f].flags = {}
                           /\ f = "json" => GoodJson(ser'[f], 0)
    <2> TAKE f \in Formats
    <2>1. ser'[f] = ndpi_reset_serializer(ser[f])
      BY <1>2
    <2>2. InBuffer(ser[f]) /\ ser[f].fmt = f
      BY <1>3
    <2>3. ser[f].fmt = "tlv" => 2 <= Len(ser[f].data)
      <3>1. ser[f].used \in Nat /\ ser[f].used <= Len(ser[f].data) /\ Len(ser[f].data) \in Nat
        BY <2>2 DEF InBuffer, Serializers
      <3>2. ser[f].fmt = "tlv" => 2 <= ser[f].used
        BY <1>3 DEF Sane, Least
      <3> QED
        BY <3>1, <3>2
    <2>4. Same(ser[f], ser'[f]) /\ ser'[f].flags = {}
          /\ (ser[f].fmt = "json" => GoodJson(ser'[f], 0))
      BY <2>1, <2>2, <2>3, ResetFacts
    <2> QED
      BY <2>2, <2>4, Zenon DEF Same
  <1>5. Standing'
    <2>1. DOMAIN ser' = Formats
      BY <1>2
    <2>2. "LIST" \notin ser'["json"].flags /\ IsOpen(open') /\ InnerOf(open') # "list"
      BY <1>2, <1>3, <1>4, OpenEmpty
    <2>3. caller' \in Callers \cup {LANShield}
      BY <1>1, <1>2 DEF Standing
    <2> QED
      BY <1>4, <2>1, <2>2, <2>3, Zenon DEF Standing
  <1>6. SavedStanding' /\ SavedGood'
    BY <1>1, <1>2, NothingSound
  <1>7. JsonGood'
    <2>1. Depth(open') = 0
      BY <1>2, OpenEmpty
    <2> QED
      BY <1>2, <1>3, <1>4, <2>1 DEF JsonGood
  <1> QED
    BY <1>5, <1>6, <1>7 DEF SerializerInv

LEMMA SkipInv ==
    ASSUME SerializerInv, SkipHeader
    PROVE  SerializerInv'
  <1> DEFINE s == ser["csv"]
             t == Raise(s, "HDR_DONE")
  <1>1. Standing /\ SavedStanding /\ SavedGood /\ JsonGood
    BY DEF SerializerInv
  <1>2. /\ ser' = [ser EXCEPT !["csv"] = t] /\ open' = open /\ saved' = saved
        /\ marks' = marks \cup {"skip"} /\ caller' = caller
    BY DEF SkipHeader, Direct, ndpi_serializer_skip_header
  <1>3. /\ \A f \in Formats : Sane(ser[f]) /\ ser[f].fmt = f
        /\ "json" \in Formats /\ "csv" \in Formats /\ "json" # "csv"
        /\ "csv" \in Plain /\ Plain \subseteq Formats
    BY <1>1, StandingFacts DEF Plain
  <1>4. Grows(s, t)
    <2>1. "HDR_DONE" \in Flags
      BY DEF Flags
    <2> QED
      BY <1>3, <2>1, GrowsFlag
  <1>5. /\ DOMAIN ser' = Formats /\ ser'["csv"] = t
        /\ \A f \in Formats : f # "csv" => ser'[f] = ser[f]
    BY <1>1, <1>2, <1>3 DEF Standing
  <1> HIDE DEF s, t
  <1>6. ser'["json"] = ser["json"]
    BY <1>3, <1>5
  <1>7. Standing'
    <2>1. \A f \in Formats : Sane(ser'[f]) /\ ser'[f].fmt = f
      <3> TAKE f \in Formats
      <3>1. CASE f = "csv"
        BY <1>3, <1>4, <1>5, <3>1, Zenon DEF Grows, Same, s
      <3>2. CASE f # "csv"
        BY <1>3, <1>5, <3>2
      <3> QED
        BY <3>1, <3>2
    <2>2. caller' \in Callers \cup {LANShield}
      BY <1>1, <1>2 DEF Standing
    <2> QED
      BY <1>1, <1>2, <1>5, <1>6, <2>1, <2>2, Zenon DEF Standing
  <1>8. SavedStanding'
    <2>1. ASSUME saved.sound # {}
          PROVE  /\ Plain \subseteq saved.sound
                 /\ \A f \in Formats : CanReturn(ser'[f])
                 /\ IsOpen(saved.open)
                 /\ "LIST" \in ser'["json"].snapshot.flags <=> InnerOf(saved.open) = "list"
                 /\ \A f \in Plain :
                      saved.text[f] = SubSeq(ser'[f].data, 1, ser'[f].snapshot.used)
      <3>1. /\ Plain \subseteq saved.sound
            /\ \A f \in Formats : CanReturn(ser[f])
            /\ IsOpen(saved.open)
            /\ "LIST" \in ser["json"].snapshot.flags <=> InnerOf(saved.open) = "list"
            /\ \A f \in Plain : saved.text[f] = SubSeq(ser[f].data, 1, ser[f].snapshot.used)
        BY <1>1, <2>1, Zenon DEF SavedStanding
      <3>2. CanReturn(t) /\ SubSeq(t.data, 1, t.snapshot.used) = SubSeq(s.data, 1, s.snapshot.used)
        <4>1. Sane(s) /\ s.fmt \in Plain /\ CanReturn(s)
          BY <1>3, <3>1 DEF s
        <4> QED
          BY <1>4, <4>1, ReturnGrows
      <3>3. \A f \in Formats : CanReturn(ser'[f])
        <4> TAKE f \in Formats
        <4>1. CASE f = "csv"
          BY <1>5, <3>2, <4>1
        <4>2. CASE f # "csv"
          BY <1>5, <3>1, <4>2
        <4> QED
          BY <4>1, <4>2
      <3>4. \A f \in Plain : saved.text[f] = SubSeq(ser'[f].data, 1, ser'[f].snapshot.used)
        <4> TAKE f \in Plain
        <4>1. saved.text[f] = SubSeq(ser[f].data, 1, ser[f].snapshot.used) /\ f \in Formats
          BY <1>3, <3>1
        <4>2. CASE f = "csv"
          BY <1>5, <3>2, <4>1, <4>2, Zenon DEF s
        <4>3. CASE f # "csv"
          BY <1>5, <4>1, <4>3
        <4> QED
          BY <4>2, <4>3
      <3> QED
        BY <1>6, <3>1, <3>3, <3>4, Zenon
    <2> QED
      BY <1>1, <1>2, <2>1, Zenon DEF SavedStanding
  <1>9. SavedGood'
    BY <1>1, <1>2, <1>6, Zenon DEF SavedGood
  <1>10. JsonGood'
    <2>1. LANShield' = LANShield
      BY DEF LANShield
    <2>2. "skip" \notin Spoilt /\ "skip" # "brace"
      BY DEF Spoilt
    <2>3. marks' \cap Spoilt = {} => marks \cap Spoilt = {}
      BY <1>2
    <2>4. "brace" \notin marks => "brace" \notin marks'
      BY <1>2, <2>2
    <2> QED
      BY <1>1, <1>2, <1>6, <2>1, <2>3, <2>4, Zenon DEF JsonGood
  <1> QED
    BY <1>7, <1>8, <1>9, <1>10 DEF SerializerInv

LEMMA SnapshotFacts ==
    ASSUME NEW s, Sane(s)
    PROVE  LET t == ndpi_serializer_create_snapshot(s)
           IN  /\ Sane(t) /\ CanReturn(t) /\ t.snapshot = Status(s)
               /\ t.fmt = s.fmt /\ t.flags = s.flags /\ t.used = s.used /\ t.hused = s.hused
               /\ t.data = s.data /\ t.header = s.header
               /\ \A k : GoodJson(s, k) => GoodJson(t, k)
  <1> DEFINE t == ndpi_serializer_create_snapshot(s)
             z == Status(s)
  <1>1. s \in Serializers /\ s.used \in Nat /\ s.hused \in Nat /\ s.flags \in SUBSET Flags
        /\ InBuffer(s) /\ Least(s.fmt, s.flags) <= s.used
    BY DEF Sane, InBuffer, Serializers
  <1>2. z = [flags |-> s.flags, used |-> s.used, hused |-> s.hused]
    BY DEF Status
  <1>3. "none" \notin s.flags
    BY <1>1 DEF Flags
  <1>4. z # NoSnapshot
    <2>1. NoSnapshot.flags = {"none"} /\ z.flags = s.flags
      BY <1>2 DEF NoSnapshot
    <2> QED
      BY <1>3, <2>1
  <1>5. z \in Snapshots
    BY <1>1, <1>2 DEF Snapshots
  <1> HIDE DEF z
  <1>6. t = [s EXCEPT !.snapshot = z]
    BY DEF ndpi_serializer_create_snapshot, z
  <1> HIDE DEF t
  <1>7. /\ t \in Serializers /\ t.snapshot = z
        /\ t.fmt = s.fmt /\ t.flags = s.flags /\ t.used = s.used /\ t.hused = s.hused
        /\ t.data = s.data /\ t.header = s.header
    BY <1>1, <1>5, <1>6 DEF Serializers
  <1>8. z.flags = s.flags /\ z.used = s.used /\ z.hused = s.hused
    BY <1>2
  <1>9. InBuffer(t)
    BY <1>1, <1>7, <1>8 DEF InBuffer
  <1>10. Sane(t)
    BY <1>1, <1>7, <1>9, Zenon DEF Sane
  <1>11. CanReturn(t)
    <2>1. s.hused <= s.hused /\ s.used <= s.used
      BY <1>1
    <2>2. s.flags \subseteq Flags
      BY <1>1
    <2> QED
      BY <1>1, <1>4, <1>7, <1>8, <2>1, <2>2, Zenon DEF CanReturn
  <1>12. ASSUME NEW k, GoodJson(s, k)
         PROVE  GoodJson(t, k)
    <2>1. Body(t) = Body(s)
      BY <1>7, Zenon DEF Body
    <2>2. IsClosed(t)
      BY <1>7, <1>9, <1>12, Zenon DEF IsClosed, GoodJson
    <2>3. BracketsRight(t)
      BY <1>7, <1>12, <2>1, Zenon DEF BracketsRight, GoodJson
    <2> QED
      BY <1>7, <1>12, <2>1, <2>2, <2>3, Zenon DEF GoodJson
  <1> QED
    BY <1>7, <1>10, <1>11, <1>12, Zenon DEF t, z

LEMMA SnapshotInv ==
    ASSUME SerializerInv, caller # LANShield, Snapshot
    PROVE  SerializerInv'
  <1> DEFINE s == ser["json"]
             t == ser'["json"]
             ends == /\ Inner # "list"
                     /\ marks \cap {"cut", "late block"} = {}
                     /\ ("ARRAY" \in s.flags => "EOR" \in s.flags)
  <1>1. Standing /\ JsonGood
    BY DEF SerializerInv
  <1>2. /\ ser' = [f \in Formats |-> ndpi_serializer_create_snapshot(ser[f])]
        /\ saved' = [text |-> Text, open |-> open,
                     sound |-> {"csv", "tlv"} \cup (IF ends THEN {"json"} ELSE {})]
        /\ open' = open /\ marks' = marks /\ caller' = caller
    BY Zenon DEF Snapshot, Direct
  <1>3. /\ \A f \in Formats : Sane(ser[f]) /\ ser[f].fmt = f /\ InBuffer(ser[f])
        /\ "json" \in Formats /\ Plain \subseteq Formats /\ \A f \in Plain : f # "json"
    BY <1>1, StandingFacts
  <1>4. \A f \in Formats :
          LET a == ser[f]
              b == ser'[f]
          IN  /\ Sane(b) /\ CanReturn(b) /\ b.snapshot = Status(a)
              /\ b.fmt = a.fmt /\ b.flags = a.flags /\ b.used = a.used /\ b.hused = a.hused
              /\ b.data = a.data /\ b.header = a.header
              /\ \A k : GoodJson(a, k) => GoodJson(b, k)
    <2> TAKE f \in Formats
    <2>1. ser'[f] = ndpi_serializer_create_snapshot(ser[f])
      BY <1>2
    <2> QED
      BY <1>3, <2>1, SnapshotFacts
  <1>5. /\ saved'.text = Text /\ saved'.open = open
        /\ saved'.sound = {"csv", "tlv"} \cup (IF ends THEN {"json"} ELSE {})
        /\ saved' = [text |-> saved'.text, open |-> saved'.open, sound |-> saved'.sound]
    <2> HIDE DEF ends
    <2> QED
      BY <1>2
  <1>6. LANShield' = LANShield
    BY DEF LANShield
  <1>7. Standing'
    <2>1. DOMAIN ser' = Formats
      BY <1>2
    <2>2. \A f \in Formats : Sane(ser'[f]) /\ ser'[f].fmt = f
      BY <1>3, <1>4
    <2>3. "LIST" \in ser'["json"].flags <=> InnerOf(open) = "list"
      BY <1>1, <1>3, <1>4 DEF Standing
    <2>4. caller' \in Callers \cup {LANShield}
      BY <1>1, <1>2 DEF Standing
    <2> QED
      BY <1>1, <1>2, <2>1, <2>2, <2>3, <2>4, Zenon DEF Standing
  <1>8. SavedStanding'
    <2>1. saved'.sound \subseteq Formats /\ Plain \subseteq saved'.sound
      <3> HIDE DEF ends
      <3>1. {"csv", "tlv"} \subseteq Formats /\ {"json"} \subseteq Formats
        BY DEF Formats
      <3> QED
        BY <1>5, <3>1 DEF Plain
    <2>2. "LIST" \in ser'["json"].snapshot.flags <=> InnerOf(saved'.open) = "list"
      <3>1. ser'["json"].snapshot = Status(s)
        BY <1>3, <1>4
      <3>2. ser'["json"].snapshot.flags = ser["json"].flags
        BY <3>1 DEF Status
      <3> QED
        BY <1>1, <1>5, <3>2, Zenon DEF Standing
    <2>3. \A f \in Plain : saved'.text[f] = SubSeq(ser'[f].data, 1, ser'[f].snapshot.used)
      <3> TAKE f \in Plain
      <3>1. f \in Formats /\ f # "json" /\ ser[f].fmt # "json"
        BY <1>3
      <3>5. ser'[f].data = ser[f].data /\ ser'[f].snapshot = Status(ser[f])
        BY <1>4, <3>1
      <3>2. ser'[f].data = ser[f].data /\ ser'[f].snapshot.used = ser[f].used
        BY <3>5 DEF Status
      <3>3. Text[f] = ndpi_serializer_get_buffer(ser[f])
        BY <3>1 DEF Text
      <3>4. ndpi_serializer_get_buffer(ser[f]) = SubSeq(ser[f].data, 1, ser[f].used)
        BY <3>1, Zenon DEF ndpi_serializer_get_buffer, Used
      <3> QED
        BY <1>5, <3>2, <3>3, <3>4, Zenon
    <2>4. IsOpen(saved'.open)
      BY <1>1, <1>5 DEF Standing
    <2> QED
      BY <1>4, <1>5, <2>1, <2>2, <2>3, <2>4, Zenon DEF SavedStanding
  <1>9. SavedGood'
    <2> SUFFICES ASSUME "json" \in saved'.sound
                 PROVE  \E g : IsSaved(g, Depth(saved'.open), saved'.text["json"], t)
      BY Zenon DEF SavedGood
    <2>1. ends
      <3> HIDE DEF ends
      <3> QED
        BY <1>5
    <2>2. "brace" \notin marks
      BY <1>1 DEF JsonGood
    <2>3. marks \cap Spoilt = {}
      BY <2>1, <2>2 DEF Spoilt
    <2>4. GoodJson(s, Depth(open)) /\ s.fmt = "json" /\ IsClosed(s)
      BY <1>1, <1>3, <2>3 DEF JsonGood, GoodJson
    <2>5. InnerOf(open) # "list" /\ "LIST" \notin s.flags
      BY <1>1, <2>1 DEF Inner, InnerOf, Standing
    <2>6. Closing(s.flags) = 1
      <3>1. "EOR" \notin s.flags => "ARRAY" \notin s.flags
        BY <2>1, Zenon
      <3>2. "EOR" \in s.flags => Closing(s.flags) = 1
        BY Zenon DEF Closing
      <3>3. "EOR" \notin s.flags => Closing(s.flags) = 1
        <4> DEFINE fl == s.flags
        <4>1. "ARRAY" \notin fl /\ "LIST" \notin fl => (IF "ARRAY" \in fl THEN 1 ELSE 0) = 0
                                                    /\ (IF "LIST" \in fl THEN 1 ELSE 0) = 0
          BY Zenon
        <4> HIDE DEF fl
        <4>2. "EOR" \notin fl /\ "ARRAY" \notin fl /\ "LIST" \notin fl => Closing(fl) = 1 + 0 + 0
          BY <4>1, Zenon DEF Closing
        <4>3. 1 + 0 + 0 = 1
          OBVIOUS
        <4> QED
          BY <2>5, <3>1, <4>2, <4>3, Zenon DEF fl
      <3> QED
        BY <3>2, <3>3
    <2>7. t.data = s.data /\ t.flags = s.flags /\ t.used = s.used /\ t.snapshot = Status(s)
      BY <1>3, <1>4
    <2>8. Text["json"] = ndpi_serializer_get_buffer(s)
      BY <1>3 DEF Text
    <2> HIDE DEF s, t, ends
    <2>9. Held(s, t)
      <3>1. Body(t) = Body(s)
        BY <2>7, Zenon DEF Body
      <3>2. Body(s) \in Nat
        BY <2>4, ClosingFacts
      <3>3. Body(s) <= Body(t)
        BY <3>1, <3>2
      <3> QED
        BY <2>7, <3>3, Zenon DEF Held
    <2>10. t.snapshot.flags = s.flags /\ t.snapshot.used = s.used
      BY <2>7 DEF Status
    <2>11. IsSaved(s, Depth(open), ndpi_serializer_get_buffer(s), t)
      BY <2>4, <2>6, <2>9, <2>10, Zenon DEF IsSaved
    <2> QED
      BY <1>5, <2>8, <2>11, Zenon
  <1>10. JsonGood'
    BY <1>1, <1>2, <1>3, <1>4, <1>6 DEF JsonGood
  <1> QED
    BY <1>7, <1>8, <1>9, <1>10 DEF SerializerInv

\* What a rollback leaves of each format.
LEMMA RollbackFacts ==
    ASSUME SerializerInv, Rollback
    PROVE  /\ \A f \in Formats : Sane(ser'[f]) /\ ser'[f].fmt = f
           /\ ser'["json"].flags = ser["json"].snapshot.flags
           /\ \A f \in saved.sound : ndpi_serializer_get_buffer(ser'[f]) = saved.text[f]
           /\ "json" \in saved.sound => GoodJson(ser'["json"], Depth(saved.open))
  <1>1. Standing /\ SavedStanding /\ SavedGood
    BY DEF SerializerInv
  <1>2. /\ ser' = [f \in Formats |-> ndpi_serializer_rollback_snapshot(ser[f])]
        /\ saved.sound # {}
    BY DEF Rollback
  <1>3. /\ \A f \in Formats : CanReturn(ser[f])
        /\ saved.sound \subseteq Formats
        /\ \A f \in Plain : saved.text[f] = SubSeq(ser[f].data, 1, ser[f].snapshot.used)
    BY <1>1, <1>2, Zenon DEF SavedStanding
  <1>4. /\ \A f \in Formats : Sane(ser[f]) /\ ser[f].fmt = f /\ InBuffer(ser[f])
        /\ "json" \in Formats /\ Plain \subseteq Formats /\ \A f \in Plain : f # "json"
        /\ \A f \in Formats : f \in Plain \/ f = "json"
    BY <1>1, StandingFacts
  <1>5. \A f \in Plain : /\ Sane(ser'[f]) /\ ser'[f].fmt = f
                         /\ ndpi_serializer_get_buffer(ser'[f]) = saved.text[f]
    <2> TAKE f \in Plain
    <2> DEFINE s == ser[f]
    <2>1. f \in Formats /\ f # "json" /\ s.fmt = f /\ InBuffer(s) /\ CanReturn(s)
          /\ saved.text[f] = SubSeq(s.data, 1, s.snapshot.used)
      BY <1>3, <1>4
    <2>2. ser'[f] = ndpi_serializer_rollback_snapshot(s)
      BY <1>2, <2>1
    <2> HIDE DEF s
    <2> DEFINE b == Back(s)
    <2>3. /\ Sane(b) /\ b.fmt = s.fmt /\ b.used = s.snapshot.used /\ b.data = s.data
          /\ ndpi_serializer_rollback_snapshot(s) = b
      BY <2>1, BackFacts
    <2> HIDE DEF b
    <2>4. ndpi_serializer_get_buffer(b) = SubSeq(b.data, 1, b.used)
      BY <2>1, <2>3, Zenon DEF ndpi_serializer_get_buffer, Used
    <2> QED
      BY <2>1, <2>2, <2>3, <2>4, Zenon
  <1> DEFINE s == ser["json"]
             t == ser'["json"]
  <1>6. t = ndpi_serializer_rollback_snapshot(s) /\ InBuffer(s) /\ CanReturn(s) /\ s.fmt = "json"
    BY <1>2, <1>3, <1>4
  <1>7. "json" \in saved.sound => \E g : IsSaved(g, Depth(saved.open), saved.text["json"], s)
    BY <1>1 DEF SavedGood
  <1> HIDE DEF s, t
  <1>8. Sane(t) /\ t.fmt = "json" /\ t.flags = s.snapshot.flags
    BY <1>6, RollbackJson
  <1>9. "json" \in saved.sound =>
          /\ GoodJson(t, Depth(saved.open))
          /\ ndpi_serializer_get_buffer(t) = saved.text["json"]
    <2> SUFFICES ASSUME "json" \in saved.sound
                 PROVE  /\ GoodJson(t, Depth(saved.open))
                        /\ ndpi_serializer_get_buffer(t) = saved.text["json"]
      OBVIOUS
    <2>1. PICK g : IsSaved(g, Depth(saved.open), saved.text["json"], s)
      BY <1>7
    <2> QED
      BY <1>6, <2>1, Restored
  <1>10. \A f \in saved.sound : ndpi_serializer_get_buffer(ser'[f]) = saved.text[f]
    <2> TAKE f \in saved.sound
    <2>1. f \in Plain \/ f = "json"
      BY <1>3, <1>4
    <2>2. CASE f \in Plain
      BY <1>5, <2>2
    <2>3. CASE f = "json"
      BY <1>9, <2>3 DEF t
    <2> QED
      BY <2>1, <2>2, <2>3
  <1>11. \A f \in Formats : Sane(ser'[f]) /\ ser'[f].fmt = f
    <2> TAKE f \in Formats
    <2>1. CASE f \in Plain
      BY <1>5, <2>1
    <2>2. CASE f = "json"
      BY <1>8, <2>2 DEF t
    <2> QED
      BY <1>4, <2>1, <2>2
  <1> QED
    BY <1>8, <1>9, <1>10, <1>11, Zenon DEF s, t

LEMMA RollbackInv ==
    ASSUME SerializerInv, caller # LANShield, Rollback
    PROVE  SerializerInv'
  <1>1. Standing /\ SavedStanding /\ JsonGood
    BY DEF SerializerInv
  <1>2. /\ ser' = [f \in Formats |-> ndpi_serializer_rollback_snapshot(ser[f])]
        /\ open' = saved.open /\ saved' = NothingSaved /\ caller' = caller
        /\ marks' = (IF "json" \in saved.sound THEN marks ELSE marks \cup {"cut"})
        /\ saved.sound # {}
    BY Zenon DEF Rollback, Direct
  <1>3. /\ \A f \in Formats : Sane(ser'[f]) /\ ser'[f].fmt = f
        /\ ser'["json"].flags = ser["json"].snapshot.flags
        /\ "json" \in saved.sound => GoodJson(ser'["json"], Depth(saved.open))
    BY RollbackFacts
  <1>4. LANShield' = LANShield
    BY DEF LANShield
  <1>5. IsOpen(saved.open) /\ ("LIST" \in ser["json"].snapshot.flags <=> InnerOf(saved.open) = "list")
    BY <1>1, <1>2, Zenon DEF SavedStanding
  <1>6. Standing'
    <2>1. DOMAIN ser' = Formats
      BY <1>2
    <2>2. caller' \in Callers \cup {LANShield}
      BY <1>1, <1>2 DEF Standing
    <2> QED
      BY <1>2, <1>3, <1>5, <2>1, <2>2, Zenon DEF Standing
  <1>7. SavedStanding' /\ SavedGood'
    BY <1>1, <1>2, NothingSound
  <1>8. JsonGood'
    <2>1. "brace" \notin marks'
      BY <1>1, <1>2 DEF JsonGood
    <2>2. marks' \cap Spoilt = {} => "json" \in saved.sound
      BY <1>2 DEF Spoilt
    <2>3. marks' \cap Spoilt = {} => GoodJson(ser'["json"], Depth(open'))
      BY <1>2, <1>3, <2>2, Zenon
    <2> QED
      BY <2>1, <2>3, Zenon DEF JsonGood
  <1> QED
    BY <1>6, <1>7, <1>8 DEF SerializerInv

LEMMA ReportKnown ==
    ASSUME NEW r \in Reports
    PROVE  Known(ndpi_dpi2json(r))
  <1> DEFINE p == ndpi_dpi2json(r)
  <1>1. \A i \in 1 .. Len(p) : p[i] \in AllCalls
    <2> TAKE i \in 1 .. Len(p)
    <2>1. p[i] \in ReportCalls(r)
      BY Zenon DEF ReportCalls
    <2>2. p[i] \in UNION {ReportCalls(q) : q \in Reports}
      BY <2>1, Zenon
    <2> QED
      BY <2>2, Zenon DEF AllCalls
  <1> HIDE DEF p
  <1>2. \A c \in AllCalls : c.key \in Texts /\ c.v \in Texts
    <2> TAKE c \in AllCalls
    <2>1. c.key \in {d.key : d \in AllCalls} /\ c.v \in {d.v : d \in AllCalls}
      BY Zenon
    <2> QED
      BY <2>1, Zenon DEF Texts
  <1>3. Known(p)
    BY <1>1, <1>2, Zenon DEF Known
  <1> QED
    BY <1>3, Zenon DEF p

\* The report, in every format.
LEMMA ReportFacts ==
    ASSUME Standing, NEW r \in Reports, NEW lost, NEW f \in Formats
    PROVE  LET p == ndpi_dpi2json(r)
               t == Run(ndpi_reset_serializer(ser[f]), p, lost)
           IN  /\ Sane(t) /\ t.fmt = f
               /\ f = "json" =>
                    /\ "LIST" \notin t.flags
                    /\ \/ lost \in 1 .. Len(p) /\ p[lost].op \in {"start_of_block", "end_of_block"}
                       \/ GoodJson(t, 0)
  <1> DEFINE p == ndpi_dpi2json(r)
             s == ser[f]
             u == ndpi_reset_serializer(s)
             t == Run(u, p, lost)
             LostBlock == lost \in 1 .. Len(p) /\ p[lost].op \in {"start_of_block", "end_of_block"}
  <1>1. Sane(s) /\ s.fmt = f /\ InBuffer(s) /\ (f \in Plain \/ f = "json")
    BY StandingFacts
  <1>2. Balanced(p) /\ Known(p)
    BY ReportBalanced, ReportKnown
  <1> HIDE DEF p, s
  <1>3. s.fmt = "tlv" => 2 <= Len(s.data)
    <2>1. s.used \in Nat /\ s.used <= Len(s.data) /\ Len(s.data) \in Nat
      BY <1>1 DEF InBuffer, Serializers
    <2>2. s.fmt = "tlv" => 2 <= s.used
      BY <1>1 DEF Sane, Least
    <2> QED
      BY <2>1, <2>2
  <1>4. Same(s, u) /\ u.flags = {} /\ (s.fmt = "json" => GoodJson(u, 0))
    BY <1>1, <1>3, ResetFacts
  <1> HIDE DEF u
  <1>5. Sane(u) /\ u.fmt = f
    BY <1>1, <1>4 DEF Same
  <1>6. CASE f \in Plain
    <2>1. Grows(u, t)
      BY <1>2, <1>5, <1>6, RunPlain
    <2>2. f # "json"
      BY <1>6 DEF Plain
    <2> HIDE DEF t
    <2>3. Sane(t) /\ t.fmt = f
      BY <1>5, <2>1 DEF Grows, Same
    <2> QED
      BY <2>2, <2>3, Zenon DEF p, s, u, t
  <1>7. CASE f = "json"
    <2>1. IsClosed(u) /\ u.fmt = "json" /\ GoodJson(u, 0)
      BY <1>1, <1>4, <1>5, <1>7, SaneJson
    <2>2. /\ IsClosed(t) /\ t.fmt = "json" /\ "LIST" \notin t.flags
          /\ LostBlock \/ GoodJson(t, 0)
      <3>1. /\ IsClosed(t) /\ t.fmt = "json" /\ "LIST" \notin t.flags
            /\ ~GoodJson(u, 0) \/ LostBlock \/ GoodJson(t, 0)
        BY <1>2, <1>4, <2>1, RunJson
      <3> QED
        BY <2>1, <3>1
    <2> HIDE DEF t
    <2>3. Sane(t)
      BY <2>2, SaneJson
    <2> QED
      BY <1>7, <2>2, <2>3, Zenon DEF p, s, u, t
  <1> QED
    BY <1>1, <1>6, <1>7

LEMMA ReportInv ==
    ASSUME SerializerInv, NEW r \in Reports, NEW lost \in 0 .. Len(ndpi_dpi2json(r)),
           _doDPI(r, lost)
    PROVE  SerializerInv'
  <1> DEFINE p == ndpi_dpi2json(r)
             LostBlock == p[lost].op \in {"start_of_block", "end_of_block"}
             t == ser'["json"]
  <1>1. Standing /\ SavedStanding
    BY DEF SerializerInv
  <1>2. /\ ser' = [f \in Formats |-> Run(ndpi_reset_serializer(ser[f]), p, lost)]
        /\ marks' = (IF "entropy" \in r.has THEN {"format"} ELSE {})
                      \cup (IF "risk" \in r.has THEN {"slice"} ELSE {})
                      \cup (IF lost # 0 /\ LostBlock THEN {"brace"} ELSE {})
        /\ open' = <<>> /\ saved' = [saved EXCEPT !.sound = {}]
        /\ caller = LANShield /\ caller' = caller
    BY Zenon DEF _doDPI, Direct
  <1>3. "json" \in Formats
    BY DEF Formats
  <1>4. \A f \in Formats :
          /\ Sane(ser'[f]) /\ ser'[f].fmt = f
          /\ f = "json" => /\ "LIST" \notin ser'[f].flags
                           /\ (lost \in 1 .. Len(p) /\ LostBlock) \/ GoodJson(ser'[f], 0)
    <2> TAKE f \in Formats
    <2> DEFINE u == Run(ndpi_reset_serializer(ser[f]), p, lost)
    <2>1. ser'[f] = u
      BY <1>2
    <2>2. /\ Sane(u) /\ u.fmt = f
          /\ f = "json" => /\ "LIST" \notin u.flags
                           /\ (lost \in 1 .. Len(p) /\ LostBlock) \/ GoodJson(u, 0)
      BY <1>1, ReportFacts
    <2> QED
      BY <2>1, <2>2
  <1> HIDE DEF p
  <1>5. LANShield' = LANShield
    BY DEF LANShield
  <1>6. Standing'
    <2>1. DOMAIN ser' = Formats
      BY <1>2
    <2>2. "LIST" \notin t.flags /\ IsOpen(open') /\ InnerOf(open') # "list"
      BY <1>2, <1>3, <1>4, OpenEmpty
    <2>3. caller' \in Callers \cup {LANShield}
      BY <1>1, <1>2 DEF Standing
    <2> QED
      BY <1>4, <2>1, <2>2, <2>3, Zenon DEF Standing
  <1>7. SavedStanding' /\ SavedGood'
    BY <1>1, <1>2, NothingSound
  <1>8. JsonGood'
    <2>1. Depth(open') = 0
      BY <1>2, OpenEmpty
    <2>2. marks' \cap Spoilt = {} => ~(lost # 0 /\ LostBlock)
      BY <1>2 DEF Spoilt
    <2>3. lost \in 1 .. Len(p) => lost # 0
      OBVIOUS
    <2>4. marks' \cap Spoilt = {} => GoodJson(t, 0)
      BY <1>3, <1>4, <2>2, <2>3
    <2>5. ~(caller' # LANShield')
      BY <1>2, <1>5
    <2> QED
      BY <2>1, <2>4, <2>5, Zenon DEF JsonGood
  <1> QED
    BY <1>6, <1>7, <1>8 DEF SerializerInv

-----------------------------------------------------------------------------
(* Theorems. *)

\* The serializers can be written to after every call: what is used of a
\* buffer or a header lies in it, the brackets the next call takes off are
\* there, the JSON serializer is in a list exactly when its caller is, the
\* parts a rollback counts on are still in the buffer, and the JSON document is
\* one the reader can go on with.  It is what the room ndpi_extend_serializer_buffer
\* makes, size_used and the status flags keep through every call, snapshot,
\* rollback and report of _doDPI.
THEOREM SerializerInvariant == Spec => []SerializerInv
  <1>1. Init => SerializerInv
    BY InitInv
  <1>2. SerializerInv /\ [Next]_vars => SerializerInv'
    <2> SUFFICES ASSUME SerializerInv, [Next]_vars
                 PROVE  SerializerInv'
      OBVIOUS
    <2>1. CASE \E c \in caller.calls, mem \in Memory : Serialize(c, mem)
      BY <2>1, SerializeInv
    <2>2. CASE caller # LANShield /\ Reset
      BY <2>2, ResetInv
    <2>3. CASE caller # LANShield /\ SkipHeader
      BY <2>3, SkipInv
    <2>4. CASE caller # LANShield /\ Snapshot
      BY <2>4, SnapshotInv
    <2>5. CASE caller # LANShield /\ Rollback
      BY <2>5, RollbackInv
    <2>6. CASE \E r \in Reports : \E lost \in 0 .. Len(ndpi_dpi2json(r)) : _doDPI(r, lost)
      BY <2>6, ReportInv
    <2>7. CASE UNCHANGED vars
      <3>1. ser' = ser /\ caller' = caller /\ open' = open /\ marks' = marks /\ saved' = saved
        BY <2>7 DEF vars
      <3>2. LANShield' = LANShield
        BY DEF LANShield
      <3>3. Standing' /\ SavedStanding'
        BY <3>1, Zenon DEF SerializerInv, Standing, SavedStanding
      <3>4. SavedGood' /\ JsonGood'
        BY <3>1, <3>2, Zenon DEF SerializerInv, SavedGood, JsonGood
      <3> QED
        BY <3>3, <3>4 DEF SerializerInv
    <2> QED
      BY <2>1, <2>2, <2>3, <2>4, <2>5, <2>6, <2>7, Zenon DEF Next
  <1> QED
    BY <1>1, <1>2, PTL DEF Spec

LEMMA TextFacts ==
    /\ \A f \in Formats : Text[f] = ndpi_serializer_get_buffer(ser[f])
    /\ \A f \in Formats : Text'[f] = ndpi_serializer_get_buffer(ser'[f])
  BY DEF Text

\* A call that returns an error has changed no text, no flag and no header: every
\* ndpi_serialize_ call asks ndpi_extend_serializer_buffer for its room before it
\* writes anything, in every format, whatever was called before.
THEOREM FailedCallsChangeNothing == Spec => FailedChangesNothing
  <1> DEFINE Quiet == \A f \in Formats :
                        (rc'[f] < 0 /\ last' # "raw_record") =>
                          /\ Text'[f] = Text[f]
                          /\ ser'[f].flags = ser[f].flags
                          /\ ser'[f].hused = ser[f].hused
  <1>1. SerializerInv /\ [Next]_vars => [Quiet]_vars
    <2> SUFFICES ASSUME SerializerInv, Next
                 PROVE  Quiet
      OBVIOUS
    <2>1. Standing
      BY DEF SerializerInv
    <2>2. ASSUME NEW c \in caller.calls, NEW mem \in Memory, Serialize(c, mem)
          PROVE  Quiet
      <3> SUFFICES ASSUME NEW f \in Formats, rc'[f] < 0, c.op # "raw_record"
                   PROVE  /\ Text'[f] = Text[f]
                          /\ ser'[f].flags = ser[f].flags
                          /\ ser'[f].hused = ser[f].hused
        BY <2>2 DEF Serialize
      <3> DEFINE d == Perform(ser[f], mem, c)
      <3>1. ser'[f] = d.s /\ rc'[f] = d.rc
        BY <2>2 DEF Serialize
      <3>2. c.key \in Texts /\ c.v \in Texts /\ c.op \in Items \cup Structure
        BY <2>1, CallFacts DEF Standing
      <3>3. ser[f] \in Serializers
        BY <2>1, StandingFacts
      <3>4. d.rc \in {0, -1} /\ (d.rc = -1 /\ c.op # "raw_record" => d.s = ser[f])
        BY <3>2, <3>3, FailedCall
      <3> HIDE DEF d
      <3>5. d.rc = -1
        BY <3>1, <3>4
      <3>6. ser'[f] = ser[f]
        BY <3>1, <3>4, <3>5
      <3> QED
        BY <3>6, TextFacts
    <2>3. ASSUME rc' = [f \in Formats |-> 0]
          PROVE  Quiet
      BY <2>3
    <2>4. \A op : Direct(op) => rc' = [f \in Formats |-> 0]
      BY DEF Direct
    <2> HIDE DEF Quiet
    <2>5. CASE caller # LANShield /\ (Reset \/ SkipHeader \/ Snapshot \/ Rollback)
      BY <2>3, <2>4, <2>5 DEF Reset, SkipHeader, Snapshot, Rollback
    <2>6. CASE \E r \in Reports : \E lost \in 0 .. Len(ndpi_dpi2json(r)) : _doDPI(r, lost)
      <3>1. rc' = [f \in Formats |-> 0]
        BY <2>4, <2>6, Zenon DEF _doDPI
      <3> QED
        BY <2>3, <3>1
    <2>7. CASE \E c \in caller.calls, mem \in Memory : Serialize(c, mem)
      BY <2>2, <2>7
    <2> QED
      BY <2>5, <2>6, <2>7, Zenon DEF Next
  <1> QED
    BY <1>1, SerializerInvariant, PTL DEF Spec, FailedChangesNothing

\* ndpi_serializer_rollback_snapshot brings back the text of
\* ndpi_serializer_create_snapshot cell for cell, though it only rewrites the
\* last bracket and the first character: what is between them has been
\* overwritten by nothing since, through items, lists, blocks, records and
\* failed calls.
THEOREM RollbackRestoresText == Spec => RollbackRestores
  <1> DEFINE Same0 == last' = "rollback" /\ calls' # calls =>
                        \A f \in saved.sound : Text'[f] = saved.text[f]
  <1>1. SerializerInv /\ [Next]_vars => [Same0]_vars
    <2> SUFFICES ASSUME SerializerInv, Next, last' = "rollback"
                 PROVE  \A f \in saved.sound : Text'[f] = saved.text[f]
      OBVIOUS
    <2>1. Standing /\ SavedStanding
      BY DEF SerializerInv
    <2>2. ~ \E c \in caller.calls, mem \in Memory : Serialize(c, mem)
      <3> SUFFICES ASSUME NEW c \in caller.calls, NEW mem \in Memory, Serialize(c, mem)
                   PROVE  FALSE
        OBVIOUS
      <3>1. c.op = "rollback"
        BY DEF Serialize
      <3>2. c.op \in Items \cup Structure
        BY <2>1, CallFacts DEF Standing
      <3>3. "rollback" \notin Items
        BY DEF Items
      <3>4. "rollback" \notin Structure
        BY DEF Structure
      <3> QED
        BY <3>1, <3>2, <3>3, <3>4
    <2>3. \A op : Direct(op) => last' = op
      BY DEF Direct
    <2>4. ~Reset /\ ~SkipHeader /\ ~Snapshot
      BY <2>3 DEF Reset, SkipHeader, Snapshot
    <2>5. ~ \E r \in Reports : \E lost \in 0 .. Len(ndpi_dpi2json(r)) : _doDPI(r, lost)
      <3>1. \A r, lost : _doDPI(r, lost) => Direct("doDPI")
        BY Zenon DEF _doDPI
      <3> QED
        BY <2>3, <3>1
    <2>6. Rollback
      BY <2>2, <2>4, <2>5, Zenon DEF Next
    <2>7. \A f \in saved.sound : ndpi_serializer_get_buffer(ser'[f]) = saved.text[f]
      BY <2>6, RollbackFacts
    <2>8. saved.sound \subseteq Formats
      BY <2>1 DEF SavedStanding
    <2> QED
      BY <2>7, <2>8, TextFacts
  <1> QED
    BY <1>1, SerializerInvariant, PTL DEF Spec, RollbackRestores

-----------------------------------------------------------------------------
(* The JSON text is JSON. *)

\* The reader at the end of a document.
LEMMA JsonEnd ==
    ASSUME NEW s, NEW k \in Nat, GoodJson(s, k)
    PROVE  /\ "ARRAY" \in s.flags => End(InArray, s) = After(<<>>) /\ k = 0
           /\ "ARRAY" \notin s.flags => End(JsonStart, s) = After(Deep(JsonStart, k))
  <1> DEFINE fl == s.flags
             d == s.data
             u == s.used
             b == Body(s)
             base == IF "ARRAY" \in fl THEN InArray ELSE JsonStart
             square == <<"]">>
             curly == <<"}">>
             n == b + 1 + (IF "LIST" \in fl THEN 1 ELSE 0)
             bottom == <<"[">>
  <1>1. /\ IsClosed(s) /\ 1 <= b /\ BracketsRight(s) /\ FlagsRight(fl, k)
        /\ \A p \in Bases : "ARRAY" \notin fl \/ p = InArray =>
             ReadTo(p, d, b) = Inside(fl, p, k)
    BY DEF GoodJson
  <1>2. /\ base \in Bases /\ ("ARRAY" \notin fl \/ base = InArray)
        /\ ("ARRAY" \in fl => base = InArray) /\ ("ARRAY" \notin fl => base = JsonStart)
    BY DEF Bases
  <1>3. /\ b \in Nat /\ u \in Nat /\ b < u /\ d \in Seq(Cell) /\ u <= Len(d) /\ Len(d) \in Nat
        /\ b = u - Closing(fl)
    <2>1. b \in Nat /\ b < u /\ InBuffer(s) /\ u \in Nat
      BY <1>1, ClosingFacts
    <2> QED
      BY <2>1 DEF InBuffer, Serializers, Body
  <1>4. square[1] = "]" /\ curly[1] = "}" /\ bottom \in Seq(Bracket)
        /\ Last(bottom) = "[" /\ Front(bottom) = <<>> /\ bottom # <<>>
        /\ InArray.stack = bottom
    <2>1. "[" \in Bracket
      BY DEF Bracket
    <2>2. <<>> \in Seq(Bracket) /\ bottom = Append(<<>>, "[")
      OBVIOUS
    <2>3. Last(bottom) = "[" /\ Front(bottom) = <<>> /\ bottom # <<>> /\ bottom \in Seq(Bracket)
      BY <2>1, <2>2, FrontLast
    <2>4. InArray.stack = bottom
      BY DEF InArray, Within
    <2> QED
      BY <2>3, <2>4
  <1>5. "ARRAY" \in fl => k = 0
    BY <1>1 DEF FlagsRight
  <1>6. JsonStep(Within(bottom, "after"), square) = After(<<>>)
    <2> HIDE DEF bottom, square
    <2>1. JsonStep(Within(bottom, "after"), square) = After(Front(bottom))
      BY <1>4, JsonStepFacts
    <2> QED
      BY <1>4, <2>1
  <1>7. ASSUME "EOR" \in fl
        PROVE  "ARRAY" \in fl /\ End(InArray, s) = After(<<>>)
    <2>1. "ARRAY" \in fl /\ d[u] = square
      BY <1>1, <1>7 DEF FlagsRight, BracketsRight
    <2>2. Closing(fl) = 1
      BY <1>7, Zenon DEF Closing
    <2>3. u - 1 = b /\ u \in 2 .. Len(d)
      BY <1>1, <1>3, <2>2
    <2>4. Inside(fl, InArray, k) = Within(bottom, "after")
      BY <1>4, <1>7, Zenon DEF Inside
    <2>5. ReadTo(InArray, d, b) = Within(bottom, "after")
      BY <1>1, <1>2, <2>1, <2>4
    <2> HIDE DEF d, u, b, square, bottom
    <2>6. ReadTo(InArray, d, u) = JsonStep(ReadTo(InArray, d, u - 1), d[u])
      BY <1>3, <2>3, ReadToNext
    <2>7. ReadTo(InArray, d, u) = After(<<>>)
      BY <1>6, <2>1, <2>3, <2>5, <2>6
    <2> QED
      BY <2>1, <2>7 DEF End, d, u
  <1>8. ASSUME "EOR" \notin fl
        PROVE  /\ ReadTo(base, d, n) = After(Deep(base, k))
               /\ u = n + (IF "ARRAY" \in fl THEN 1 ELSE 0)
               /\ n \in Nat /\ 1 <= n
    <2>1. Closing(fl) = 1 + (IF "ARRAY" \in fl THEN 1 ELSE 0) + (IF "LIST" \in fl THEN 1 ELSE 0)
      BY <1>8, Zenon DEF Closing
    <2>2. u = n + (IF "ARRAY" \in fl THEN 1 ELSE 0) /\ n \in Nat /\ 1 <= n
      <3> DEFINE x == IF "ARRAY" \in fl THEN 1 ELSE 0
                 y == IF "LIST" \in fl THEN 1 ELSE 0
      <3>1. x \in {0, 1} /\ y \in {0, 1}
        OBVIOUS
      <3>2. b = u - (1 + x + y)
        BY <1>3, <2>1
      <3> HIDE DEF x, y
      <3>3. u = b + 1 + y + x /\ b + 1 + y \in Nat /\ 1 <= b + 1 + y
        BY <1>3, <3>1, <3>2
      <3> QED
        BY <3>3 DEF x, y
    <2>3. CASE "LIST" \notin fl
      <3>1. n = b + 1
        BY <1>3, <2>3
      <3>2. ReadTo(base, d, b + 1) = After(Deep(base, k))
        BY <1>2, <1>8, <2>3, CloseOne
      <3> QED
        BY <2>2, <3>1, <3>2
    <2>4. CASE "LIST" \in fl
      <3> DEFINE q == Deep(base, k + 1)
      <3>1. n = b + 2
        BY <1>3, <2>4
      <3>2. ReadTo(base, d, b + 1) = Within(q, "after")
        BY <1>2, <1>8, <2>4, CloseOne
      <3>3. d[b + 2] = curly
        BY <1>1, <1>8, <2>4 DEF BracketsRight
      <3>4. q \in Seq(Bracket) /\ Last(q) = "{" /\ Front(q) = Deep(base, k)
        BY <1>2, DeepFacts
      <3>5. (b + 2) - 1 = b + 1 /\ b + 2 \in 2 .. Len(d)
        <4>1. u \in {n, n + 1}
          BY <2>2
        <4>2. b + 2 <= u
          BY <1>3, <3>1, <4>1
        <4> QED
          BY <1>3, <4>2
      <3> HIDE DEF d, b, q, curly, base, n, u, fl
      <3>6. ReadTo(base, d, b + 2) = JsonStep(ReadTo(base, d, (b + 2) - 1), d[b + 2])
        BY <1>3, <3>5, ReadToNext
      <3>7. JsonStep(Within(q, "after"), curly) = After(Front(q))
        BY <1>4, <3>4, JsonStepFacts
      <3>8. ReadTo(base, d, b + 2) = After(Deep(base, k))
        BY <3>2, <3>3, <3>4, <3>5, <3>6, <3>7
      <3> QED
        BY <2>2, <3>1, <3>8
    <2> QED
      BY <2>2, <2>3, <2>4
  <1>9. CASE "EOR" \in fl
    BY <1>5, <1>7, <1>9
  <1>10. CASE "EOR" \notin fl /\ "ARRAY" \notin fl
    <2>1. u = n
      BY <1>8, <1>10
    <2>2. base = JsonStart
      BY <1>10
    <2>3. ReadTo(JsonStart, d, u) = After(Deep(JsonStart, k))
      <3> HIDE DEF n, base, d, u
      <3> QED
        BY <1>8, <1>10, <2>1, <2>2
    <2> QED
      BY <1>10, <2>3 DEF End
  <1>11. CASE "EOR" \notin fl /\ "ARRAY" \in fl
    <2>1. u = n + 1 /\ base = InArray /\ n \in Nat /\ 1 <= n
      BY <1>8, <1>11
    <2>2. u - 1 = n /\ u \in 2 .. Len(d)
      <3> HIDE DEF n, d, u
      <3> QED
        BY <1>3, <2>1
    <2>3. d[u] = square
      BY <1>1, <1>11 DEF BracketsRight
    <2>4. Deep(InArray, 0) = bottom
      <3>1. InArray \in Bases
        BY DEF Bases
      <3> QED
        BY <1>4, <3>1, DeepFacts
    <2>5. After(bottom) = Within(bottom, "after")
      BY <1>4, Zenon DEF After, Within
    <2> HIDE DEF d, u, b, n, square, bottom, base
    <2>6. ReadTo(InArray, d, n) = Within(bottom, "after")
      BY <1>5, <1>8, <1>11, <2>1, <2>4, <2>5
    <2>7. ReadTo(InArray, d, u) = JsonStep(ReadTo(InArray, d, u - 1), d[u])
      BY <1>3, <2>2, ReadToNext
    <2>8. ReadTo(InArray, d, u) = After(<<>>)
      BY <1>6, <2>2, <2>3, <2>6, <2>7
    <2> QED
      BY <1>5, <1>11, <2>8 DEF End, d, u
  <1> QED
    BY <1>9, <1>10, <1>11

\* A document outside an array, with a brace for each open block.
LEMMA PlainText ==
    ASSUME NEW s, NEW k \in Nat, GoodJson(s, k), "ARRAY" \notin s.flags
    PROVE  IsJson(SubSeq(s.data, 2, s.used) \o Braces(k))
  <1> DEFINE d == s.data
             u == s.used
             p == SubSeq(d, 2, u)
             q == Braces(k)
             w == p \o q
             cells == Tail(d)
             m == u - 1
             curly == <<"}">>
             st == JsonStates(JsonStart, w)
             deep(j) == Deep(JsonStart, j)
  <1>1. u \in Nat /\ 2 <= u /\ d \in Seq(Cell) /\ u <= Len(d) /\ Len(d) \in Nat
    <2>1. IsClosed(s) /\ 1 <= Body(s)
      BY DEF GoodJson
    <2>2. Body(s) \in Nat /\ Body(s) < u /\ InBuffer(s) /\ u \in Nat
      BY <2>1, ClosingFacts
    <2> HIDE DEF u
    <2>3. 2 <= u
      BY <2>1, <2>2
    <2>4. s \in Serializers /\ u <= Len(d)
      BY <2>2 DEF InBuffer, u
    <2> QED
      BY <2>2, <2>3, <2>4 DEF Serializers
  <1>2. curly \in Cell /\ curly[1] = "}"
    BY JsonCells
  <1>3. q \in Seq(Cell) /\ Len(q) = k /\ \A i \in 1 .. k : q[i] = curly
    <2>1. q = Row(curly, k)
      BY Zenon DEF Braces, Row
    <2> HIDE DEF q, curly
    <2> QED
      BY <1>2, <2>1, RowFacts
  <1>4. p \in Seq(Cell) /\ Len(p) = m /\ m \in Nat /\ \A i \in 1 .. m : p[i] = d[i + 1]
    <2> HIDE DEF d, u
    <2>1. /\ p \in Seq(Cell) /\ Len(p) = (u - 2) + 1
          /\ \A i \in 1 .. (u - 2) + 1 : p[i] = d[(2 + i) - 1]
      BY <1>1, Prefix
    <2>2. (u - 2) + 1 = m /\ m \in Nat /\ \A i \in 1 .. m : (2 + i) - 1 = i + 1
      BY <1>1
    <2> HIDE DEF p
    <2> QED
      BY <2>1, <2>2
  <1>5. cells \in Seq(Cell) /\ m <= Len(cells) /\ Len(cells) \in Nat
        /\ \A i \in 1 .. m : cells[i] = d[i + 1]
    <2> HIDE DEF d, u
    <2> QED
      BY <1>1
  <1>6. End(JsonStart, s) = JsonStates(JsonStart, cells)[m]
    BY Zenon DEF End, ReadTo
  <1>7. End(JsonStart, s) = After(deep(k))
    BY JsonEnd
  <1> HIDE DEF p, q, cells
  <1>8. /\ Len(w) = m + k /\ Len(w) \in Nat
        /\ \A i \in 1 .. m : w[i] = p[i]
        /\ \A i \in 1 .. k : w[m + i] = curly
    <2>1. p \in Seq(Cell) /\ q \in Seq(Cell)
      BY <1>3, <1>4
    <2>2. /\ Len(w) = Len(p) + Len(q)
          /\ \A i \in 1 .. Len(p) : w[i] = p[i]
          /\ \A i \in 1 .. Len(q) : w[Len(p) + i] = q[i]
      BY <2>1, Joined
    <2>3. Len(p) = m /\ Len(q) = k /\ m \in Nat
      BY <1>3, <1>4
    <2> HIDE DEF w, m, curly
    <2>4. Len(w) = m + k /\ Len(w) \in Nat
      BY <2>2, <2>3
    <2>5. \A i \in 1 .. m : w[i] = p[i]
      BY <2>2, <2>3
    <2>6. \A i \in 1 .. k : w[m + i] = curly
      <3> TAKE i \in 1 .. k
      <3>1. w[Len(p) + i] = q[i] /\ q[i] = curly
        BY <1>3, <2>2, <2>3
      <3> QED
        BY <2>3, <3>1
    <2> QED
      BY <2>4, <2>5, <2>6
  <1> HIDE DEF w, curly
  <1>9. st[m] = After(deep(k))
    <2>1. /\ m \in Nat /\ Len(cells) \in Nat /\ Len(w) \in Nat /\ m <= Len(cells) /\ m <= Len(w)
          /\ \A i \in 1 .. m : cells[i] = w[i]
      <3> HIDE DEF m
      <3> QED
        BY <1>4, <1>5, <1>8
    <2> HIDE DEF m
    <2>2. m \in 0 .. m
      BY <2>1
    <2>3. JsonStates(JsonStart, cells)[m] = JsonStates(JsonStart, w)[m]
      BY <2>1, <2>2, JsonStatesAgree
    <2> QED
      BY <1>6, <1>7, <2>3, Zenon
  <1> HIDE DEF st, m
  <1> DEFINE S == {j \in Nat : j <= k => st[m + j] = After(deep(k - j))}
  <1>10. 0 \in S
    <2>1. m + 0 = m /\ k - 0 = k
      BY <1>4
    <2> HIDE DEF deep
    <2> QED
      BY <1>9, <2>1
  <1>11. ASSUME NEW j \in S
         PROVE  j + 1 \in S
    <2> SUFFICES ASSUME j + 1 <= k
                 PROVE  st[m + (j + 1)] = After(deep(k - (j + 1)))
      OBVIOUS
    <2> DEFINE i == k - (j + 1)
               n == m + (j + 1)
               e == deep(i + 1)
    <2>1. i \in Nat /\ k - j = i + 1 /\ n \in 1 .. Len(w) /\ n - 1 = m + j /\ j + 1 \in 1 .. k /\ j <= k
      BY <1>4, <1>8
    <2>2. w[n] = curly
      BY <1>8, <2>1
    <2>3. /\ e \in Seq(Bracket) /\ Last(e) = "{" /\ Front(e) = deep(i) /\ e # <<>>
      <3>1. JsonStart \in Bases
        BY DEF Bases
      <3> HIDE DEF i
      <3> QED
        BY <2>1, <3>1, DeepFacts
    <2> HIDE DEF i, n, deep
    <2>4. st[n - 1] = After(e)
      <3>1. st[m + j] = After(deep(k - j))
        BY <2>1
      <3> QED
        BY <2>1, <3>1
    <2> HIDE DEF e
    <2>5. st[n] = JsonStep(st[n - 1], w[n])
      BY <1>8, <2>1, JsonStatesDef DEF st
    <2>6. After(e) = Within(e, "after")
      BY <2>3, Zenon DEF After, Within
    <2>7. JsonStep(Within(e, "after"), curly) = After(Front(e))
      BY <1>2, <2>3, JsonStepFacts
    <2>8. st[n] = After(deep(i))
      BY <2>2, <2>3, <2>4, <2>5, <2>6, <2>7, Zenon
    <2> QED
      BY <2>8, Zenon DEF i, n
  <1>12. k \in S
    <2>1. S \in SUBSET Nat
      OBVIOUS
    <2> HIDE DEF S
    <2>2. S = Nat
      BY <1>10, <1>11, <2>1, Induction
    <2> QED
      BY <2>2
  <1>13. st[Len(w)] = After(deep(0))
    <2>1. k <= k /\ k - k = 0
      OBVIOUS
    <2>2. st[m + k] = After(deep(k - k))
      BY <1>12, <2>1
    <2> HIDE DEF deep, S
    <2> QED
      BY <1>8, <2>1, <2>2
  <1>14. deep(0) = <<>>
    <2>1. JsonStart \in Bases /\ JsonStart.stack = <<>>
      BY DEF Bases, JsonStart
    <2> QED
      BY <2>1, DeepFacts
  <1>15. After(<<>>) = [stack |-> <<>>, next |-> "end"]
    BY Zenon DEF After
  <1> HIDE DEF deep, S
  <1>16. st[Len(w)] = [stack |-> <<>>, next |-> "end"]
    BY <1>13, <1>14, <1>15, Zenon
  <1>17. IsJson(w)
    BY <1>16, Zenon DEF IsJson, st
  <1> QED
    BY <1>17, Zenon DEF w, p, q, d, u

\* A document of several records is read in the bracket of the array.
LEMMA ArrayText ==
    ASSUME NEW s, NEW k \in Nat, GoodJson(s, k), "ARRAY" \in s.flags
    PROVE  IsJson(SubSeq(s.data, 1, s.used) \o Braces(k))
  <1> DEFINE d == s.data
             u == s.used
             w == SubSeq(d, 1, u)
             st == JsonStates(JsonStart, w)
             array == <<"[">>
  <1>1. u \in Nat /\ 1 <= u /\ d \in Seq(Cell) /\ u <= Len(d) /\ Len(d) \in Nat
    <2>1. IsClosed(s) /\ 1 <= Body(s)
      BY DEF GoodJson
    <2>2. Body(s) \in Nat /\ Body(s) < u /\ InBuffer(s) /\ u \in Nat
      BY <2>1, ClosingFacts
    <2> HIDE DEF u
    <2>3. 1 <= u
      BY <2>1, <2>2
    <2>4. s \in Serializers /\ u <= Len(d)
      BY <2>2 DEF InBuffer, u
    <2> QED
      BY <2>2, <2>3, <2>4 DEF Serializers
  <1>2. d[1] = array /\ array[1] = "["
    BY DEF GoodJson
  <1>3. End(InArray, s) = After(<<>>) /\ k = 0
    BY JsonEnd
  <1>4. JsonStep(JsonStart, array) = InArray
    <2>1. <<>> \in Seq(Bracket) /\ Append(<<>>, "[") = <<"[">>
      OBVIOUS
    <2>2. JsonStep(Within(<<>>, "value"), array) = Within(Append(<<>>, "["), "value or ]")
      BY <1>2, <2>1, JsonStepFacts
    <2> QED
      BY <2>1, <2>2, Zenon DEF JsonStart, InArray, Within
  <1> HIDE DEF d, u, array
  <1>5. w \in Seq(Cell) /\ Len(w) = u /\ \A i \in 1 .. u : w[i] = d[i]
    <2>1. /\ w \in Seq(Cell) /\ Len(w) = (u - 1) + 1
          /\ \A i \in 1 .. (u - 1) + 1 : w[i] = d[(1 + i) - 1]
      BY <1>1, Prefix
    <2>2. (u - 1) + 1 = u /\ \A i \in 1 .. u : (1 + i) - 1 = i
      BY <1>1
    <2> HIDE DEF w
    <2> QED
      BY <2>1, <2>2
  <1> HIDE DEF w
  <1>6. st[0] = JsonStart /\ \A n \in 1 .. u : st[n] = JsonStep(st[n - 1], w[n])
    <2>1. Len(w) \in Nat
      BY <1>1, <1>5
    <2>2. st[0] = JsonStart /\ \A n \in 1 .. Len(w) : st[n] = JsonStep(st[n - 1], w[n])
      BY <2>1, JsonStatesDef
    <2> QED
      BY <1>5, <2>2, Zenon
  <1> HIDE DEF st
  <1> DEFINE S == {n \in Nat : n + 1 <= u => st[n + 1] = ReadTo(InArray, d, n + 1)}
  <1>7. 0 \in S
    <2>1. ReadTo(InArray, d, 1) = InArray
      BY <1>1, ReadToFirst
    <2>2. 1 \in 1 .. u /\ 1 - 1 = 0 /\ 0 + 1 = 1
      BY <1>1
    <2>3. st[1] = JsonStep(st[0], w[1])
      BY <1>6, <2>2
    <2>4. w[1] = array
      BY <1>2, <1>5, <2>2
    <2>5. st[1] = InArray
      BY <1>4, <1>6, <2>3, <2>4
    <2> QED
      BY <2>1, <2>2, <2>5
  <1>8. ASSUME NEW n \in S
        PROVE  n + 1 \in S
    <2> SUFFICES ASSUME (n + 1) + 1 <= u
                 PROVE  st[(n + 1) + 1] = ReadTo(InArray, d, (n + 1) + 1)
      OBVIOUS
    <2> DEFINE j == (n + 1) + 1
    <2>1. j \in 1 .. u /\ j \in 2 .. Len(d) /\ j - 1 = n + 1 /\ n + 1 <= u
      BY <1>1
    <2>2. st[n + 1] = ReadTo(InArray, d, n + 1)
      BY <2>1
    <2> HIDE DEF j
    <2>3. st[j] = JsonStep(st[j - 1], w[j]) /\ w[j] = d[j]
      BY <1>5, <1>6, <2>1
    <2>4. ReadTo(InArray, d, j) = JsonStep(ReadTo(InArray, d, j - 1), d[j])
      BY <1>1, <2>1, ReadToNext
    <2>5. st[j] = ReadTo(InArray, d, j)
      BY <2>1, <2>2, <2>3, <2>4
    <2> QED
      BY <2>5 DEF j
  <1>9. S = Nat
    <2>1. S \in SUBSET Nat
      OBVIOUS
    <2> HIDE DEF S
    <2> QED
      BY <1>7, <1>8, <2>1, Induction
  <1>10. st[u] = ReadTo(InArray, d, u)
    <2>1. u - 1 \in Nat /\ (u - 1) + 1 = u /\ u <= u
      BY <1>1
    <2>2. u - 1 \in S
      BY <1>9, <2>1
    <2>3. st[(u - 1) + 1] = ReadTo(InArray, d, (u - 1) + 1)
      BY <2>1, <2>2
    <2> HIDE DEF S
    <2> QED
      BY <2>1, <2>3
  <1>11. ReadTo(InArray, d, u) = After(<<>>)
    BY <1>3, Zenon DEF End, d, u
  <1>12. After(<<>>) = [stack |-> <<>>, next |-> "end"]
    BY Zenon DEF After
  <1>13. IsJson(w)
    BY <1>5, <1>10, <1>11, <1>12, Zenon DEF IsJson, st
  <1>14. w \o Braces(0) = w
    <2>1. Braces(0) = <<>>
      BY DEF Braces
    <2> QED
      BY <1>5, <2>1
  <1>15. IsJson(w \o Braces(k))
    BY <1>3, <1>13, <1>14
  <1> QED
    BY <1>15, Zenon DEF w, d, u

\* The blocks the caller has open, counted.
LEMMA BlocksOpen ==
    ASSUME NEW o, IsOpen(o)
    PROVE  Cardinality({i \in 1 .. Len(o) : o[i] = "block"}) = Depth(o) /\ Depth(o) \in Nat
  <1> DEFINE B == {i \in 1 .. Len(o) : o[i] = "block"}
             k == Depth(o)
             n == Len(o)
  <1>1. /\ n \in Nat /\ k \in Nat /\ InnerOf(o) \in {"record", "block", "list"}
        /\ InnerOf(o) = "record" <=> o = <<>>
        /\ InnerOf(o) # "list" => k = n /\ \A i \in 1 .. n : o[i] = "block"
    BY OpenFacts
  <1>2. \A i \in 1 .. n : i < n => o[i] = "block"
    BY DEF IsOpen
  <1>3. B = 1 .. k
    <2>1. CASE InnerOf(o) # "list"
      <3>1. k = n /\ \A i \in 1 .. n : o[i] = "block"
        BY <1>1, <2>1
      <3> QED
        BY <3>1
    <2>2. CASE InnerOf(o) = "list"
      <3>1. k = n - 1
        BY <2>2 DEF Depth
      <3>2. o[n] = "list"
        <4>1. o # <<>>
          BY <1>1, <2>2
        <4> QED
          BY <2>2, <4>1, Zenon DEF InnerOf
      <3>3. "list" # "block"
        OBVIOUS
      <3>4. ~(o[n] = "block")
        BY <3>2, <3>3
      <3> HIDE DEF k, n
      <3>5. \A i \in 1 .. n : i \in 1 .. k <=> i < n
        BY <1>1, <3>1
      <3>6. \A i \in 1 .. n : i < n \/ i = n
        BY <1>1
      <3>7. 1 .. k \subseteq 1 .. n
        BY <1>1, <3>1
      <3>8. \A i \in 1 .. n : o[i] = "block" <=> i \in 1 .. k
        BY <1>2, <3>4, <3>5, <3>6, Zenon
      <3>9. \A i : i \in B <=> i \in 1 .. n /\ o[i] = "block"
        BY DEF n
      <3> HIDE DEF B
      <3> QED
        BY <3>7, <3>8, <3>9
    <2> QED
      BY <2>1, <2>2
  <1> HIDE DEF B, k
  <1>4. Cardinality(1 .. k) = k
    <2>1. 1 \in Int /\ k \in Int
      BY <1>1
    <2>2. Cardinality(1 .. k) = IF 1 > k THEN 0 ELSE k - 1 + 1
      BY <2>1, FS_Interval
    <2> QED
      BY <1>1, <2>2
  <1>5. Cardinality(B) = k
    BY <1>3, <1>4
  <1> QED
    BY <1>1, <1>5 DEF B, k

\* The text of a document in order.
LEMMA GoodText ==
    ASSUME NEW s, NEW k \in Nat, GoodJson(s, k), s.fmt = "json"
    PROVE  IsJson(ndpi_serializer_get_buffer(s) \o Braces(k))
  <1> DEFINE b == <<" ">>
             a == <<"[">>
  <1>1. a # b
    <2>1. a[1] = "[" /\ b[1] = " "
      OBVIOUS
    <2> HIDE DEF a, b
    <2>2. "[" # " "
      OBVIOUS
    <2> QED
      BY <2>1, <2>2
  <1>2. s.data[1] = IF "ARRAY" \in s.flags THEN a ELSE b
    BY DEF GoodJson
  <1> HIDE DEF a
  <1>3. CASE "ARRAY" \in s.flags
    <2>1. s.data[1] # b
      BY <1>1, <1>2, <1>3
    <2>2. ndpi_serializer_get_buffer(s) = SubSeq(s.data, 1, s.used)
      BY <2>1, Zenon DEF ndpi_serializer_get_buffer, Used
    <2> QED
      BY <1>3, <2>2, ArrayText
  <1>4. CASE "ARRAY" \notin s.flags
    <2>1. s.data[1] = b
      BY <1>2, <1>4
    <2>2. ndpi_serializer_get_buffer(s) = SubSeq(s.data, 2, s.used)
      BY <2>1, Zenon DEF ndpi_serializer_get_buffer
    <2> QED
      BY <1>4, <2>2, PlainText
  <1> QED
    BY <1>3, <1>4

\* The JSON text, with a brace for every block the caller has open, is JSON
\* after every call and every report, however long the behaviour and however
\* deep the blocks: the brackets ndpi_serialize_json_pre takes off are those
\* the call before it put there.
THEOREM JsonTextParses == Spec => []JsonParses
  <1>1. SerializerInv => JsonParses
    <2> SUFFICES ASSUME SerializerInv, marks \cap {"late block", "cut", "brace"} = {}
                 PROVE  IsJson(Text["json"] \o
                               Braces(Cardinality({i \in 1 .. Len(open) : open[i] = "block"})))
      BY DEF JsonParses
    <2> DEFINE s == ser["json"]
               k == Depth(open)
    <2>1. Standing /\ JsonGood
      BY DEF SerializerInv
    <2>2. GoodJson(s, k)
      BY <2>1 DEF JsonGood, Spoilt
    <2>3. s.fmt = "json" /\ "json" \in Formats
      BY <2>1, StandingFacts
    <2>4. k \in Nat /\ Cardinality({i \in 1 .. Len(open) : open[i] = "block"}) = k
      BY <2>1, BlocksOpen DEF Standing
    <2>5. Text["json"] = ndpi_serializer_get_buffer(s)
      BY <2>3, TextFacts
    <2> HIDE DEF s, k
    <2>6. IsJson(ndpi_serializer_get_buffer(s) \o Braces(k))
      BY <2>2, <2>3, <2>4, GoodText
    <2> QED
      BY <2>4, <2>5, <2>6, Zenon
  <1> QED
    BY <1>1, SerializerInvariant, PTL DEF Spec

-----------------------------------------------------------------------------
(* What the reader of CSV makes of a text. *)

LEMMA CsvStatesDef ==
    ASSUME NEW cells, Len(cells) \in Nat
    PROVE  /\ CsvStates(cells)[0] = [lines |-> <<>>, fields |-> 0, comma |-> FALSE]
           /\ \A n \in 1 .. Len(cells) :
                CsvStates(cells)[n] = CsvStep(CsvStates(cells)[n - 1], cells[n])
  <1> DEFINE start == [lines |-> <<>>, fields |-> 0, comma |-> FALSE]
             Rec(g, m) == [n \in 0 .. m |-> IF n = 0 THEN start ELSE CsvStep(g[n - 1], cells[n])]
             S == {m \in Nat : \E g : g = Rec(g, m)}
  <1>0. CsvStates(cells) = CHOOSE g : g = Rec(g, Len(cells))
    BY Zenon DEF CsvStates
  <1> HIDE DEF start
  <1>1. 0 \in S
    <2> DEFINE g == [n \in 0 .. 0 |-> start]
    <2>1. g = Rec(g, 0)
      OBVIOUS
    <2> QED
      BY <2>1
  <1>2. ASSUME NEW m \in S
        PROVE  m + 1 \in S
    <2>1. PICK g : g = Rec(g, m)
      OBVIOUS
    <2> DEFINE h == [n \in 0 .. m + 1 |-> IF n <= m THEN g[n] ELSE CsvStep(g[m], cells[n])]
    <2>2. h = Rec(h, m + 1)
      <3> SUFFICES ASSUME NEW n \in 0 .. m + 1
                   PROVE  h[n] = IF n = 0 THEN start ELSE CsvStep(h[n - 1], cells[n])
        BY Zenon
      <3>1. CASE n <= m
        BY <2>1, <3>1
      <3>2. CASE n = m + 1
        BY <3>2
      <3> QED
        BY <3>1, <3>2
    <2> HIDE DEF h
    <2>3. \E f : f = Rec(f, m + 1)
      BY <2>2, Zenon
    <2>4. m + 1 \in Nat
      OBVIOUS
    <2> QED
      BY <2>3, <2>4
  <1>3. Len(cells) \in S
    <2> HIDE DEF S
    <2>1. S \in SUBSET Nat
      BY DEF S
    <2> QED
      BY <1>1, <1>2, <2>1, Induction
  <1>4. CsvStates(cells) = Rec(CsvStates(cells), Len(cells))
    <2>1. \E g : g = Rec(g, Len(cells))
      BY <1>3
    <2> QED
      BY <1>0, <2>1, Zenon
  <1> HIDE DEF S
  <1>5. CsvStates(cells)[0] = start
    BY <1>4
  <1>6. \A n \in 1 .. Len(cells) :
          CsvStates(cells)[n] = CsvStep(CsvStates(cells)[n - 1], cells[n])
    BY <1>4
  <1> QED
    BY <1>5, <1>6, Zenon DEF start

LEMMA CsvStatesAgree ==
    ASSUME NEW cells, NEW more, NEW m \in Nat,
           Len(cells) \in Nat, Len(more) \in Nat, m <= Len(cells), m <= Len(more),
           \A i \in 1 .. m : cells[i] = more[i]
    PROVE  CsvStates(cells)[m] = CsvStates(more)[m]
  <1> DEFINE S == {n \in Nat : n <= m => CsvStates(cells)[n] = CsvStates(more)[n]}
  <1>1. 0 \in S
    BY CsvStatesDef
  <1>2. ASSUME NEW n \in S
        PROVE  n + 1 \in S
    <2> SUFFICES ASSUME n + 1 <= m
                 PROVE  CsvStates(cells)[n + 1] = CsvStates(more)[n + 1]
      OBVIOUS
    <2>1. n + 1 \in 1 .. Len(cells) /\ n + 1 \in 1 .. Len(more) /\ n + 1 \in 1 .. m
          /\ (n + 1) - 1 = n
      OBVIOUS
    <2>2. CsvStates(cells)[n + 1] = CsvStep(CsvStates(cells)[n], cells[n + 1])
      BY <2>1, CsvStatesDef
    <2>3. CsvStates(more)[n + 1] = CsvStep(CsvStates(more)[n], more[n + 1])
      BY <2>1, CsvStatesDef
    <2> QED
      BY <2>1, <2>2, <2>3
  <1>3. S = Nat
    <2>1. S \in SUBSET Nat
      OBVIOUS
    <2> HIDE DEF S
    <2> QED
      BY <1>1, <1>2, <2>1, Induction
  <1> QED
    BY <1>3

\* The lines that have ended and the fields of the last, without or with a
\* separator behind them.
OnLine(lines, n) == [lines |-> lines, fields |-> n, comma |-> FALSE]
OnComma(lines, n) == [lines |-> lines, fields |-> n, comma |-> TRUE]

CsvWith(st, comma, fields) == [st EXCEPT !.comma = comma, !.fields = fields]

LEMMA CsvChange ==
    ASSUME NEW lines, NEW n, NEW m
    PROVE  /\ CsvWith(OnLine(lines, n), FALSE, m) = OnLine(lines, m)
           /\ CsvWith(OnComma(lines, n), FALSE, m) = OnLine(lines, m)
           /\ CsvWith(OnLine(lines, n), TRUE, m) = OnComma(lines, m)
  <1>1. ASSUME NEW r, NEW c, NEW d, r = [lines |-> lines, fields |-> n, comma |-> c]
        PROVE  CsvWith(r, d, m) = [lines |-> lines, fields |-> m, comma |-> d]
    <2> DEFINE p == [r EXCEPT !.comma = d]
               q == [r EXCEPT !.comma = d, !.fields = m]
    <2>1. p = [lines |-> lines, fields |-> n, comma |-> d]
      BY <1>1
    <2>2. q = [p EXCEPT !.fields = m]
      OBVIOUS
    <2> HIDE DEF p, q
    <2>3. q = [lines |-> lines, fields |-> m, comma |-> d]
      BY <2>1, <2>2
    <2> QED
      BY <2>3, Zenon DEF q, CsvWith
  <1> DEFINE a == OnLine(lines, n)
             b == OnComma(lines, n)
  <1>2. /\ a = [lines |-> lines, fields |-> n, comma |-> FALSE]
        /\ b = [lines |-> lines, fields |-> n, comma |-> TRUE]
    BY Zenon DEF OnLine, OnComma
  <1> HIDE DEF a, b
  <1>3. CsvWith(a, FALSE, m) = OnLine(lines, m)
    BY <1>1, <1>2, Zenon DEF OnLine
  <1>4. CsvWith(b, FALSE, m) = OnLine(lines, m)
    BY <1>1, <1>2, Zenon DEF OnLine
  <1>5. CsvWith(a, TRUE, m) = OnComma(lines, m)
    BY <1>1, <1>2, Zenon DEF OnComma
  <1> QED
    BY <1>3, <1>4, <1>5, Zenon DEF a, b

LEMMA CsvStepFacts ==
    ASSUME NEW lines, NEW n \in Nat, NEW x
    PROVE  /\ x[1] = "nl" => CsvStep(OnLine(lines, n), x) = OnLine(Append(lines, n), 0)
           /\ x[1] = "," /\ n > 0 => CsvStep(OnLine(lines, n), x) = OnComma(lines, n)
           /\ x[1] \notin {"nl", ","} =>
                /\ n = 0 => CsvStep(OnLine(lines, n), x) = OnLine(lines, 1)
                /\ CsvStep(OnComma(lines, n), x) = OnLine(lines, n + 1)
  <1> DEFINE a == OnLine(lines, n)
             b == OnComma(lines, n)
  <1>1. /\ a.lines = lines /\ a.fields = n /\ a.comma = FALSE
        /\ b.lines = lines /\ b.fields = n /\ b.comma = TRUE
    BY Zenon DEF OnLine, OnComma
  <1>2. "nl" # ","
    OBVIOUS
  <1>3. (n > 0 => n # 0) /\ n # -1 /\ ~(0 > 0) /\ 0 # -1 /\ 0 + 1 = 1
    OBVIOUS
  <1>4. \A m : /\ CsvWith(a, FALSE, m) = OnLine(lines, m)
               /\ CsvWith(b, FALSE, m) = OnLine(lines, m)
               /\ CsvWith(a, TRUE, m) = OnComma(lines, m)
    BY CsvChange
  <1> HIDE DEF a, b
  <1>5. ASSUME x[1] = "nl"
        PROVE  CsvStep(a, x) = OnLine(Append(lines, n), 0)
    <2>1. CsvStep(a, x) = [lines |-> Append(a.lines, IF a.comma THEN -1 ELSE a.fields),
                            fields |-> 0, comma |-> FALSE]
      BY <1>2, <1>5, Zenon DEF CsvStep
    <2>2. (IF a.comma THEN -1 ELSE a.fields) = n
      BY <1>1, Zenon
    <2> QED
      BY <1>1, <2>1, <2>2, Zenon DEF OnLine
  <1>6. ASSUME x[1] = ",", n > 0
        PROVE  CsvStep(a, x) = OnComma(lines, n)
    <2>1. CsvStep(a, x) = CsvWith(a, TRUE, IF a.comma \/ a.fields = 0 THEN -1 ELSE a.fields)
      BY <1>2, <1>6, Zenon DEF CsvStep, CsvWith
    <2>2. (IF a.comma \/ a.fields = 0 THEN -1 ELSE a.fields) = n
      BY <1>1, <1>3, <1>6, Zenon
    <2> QED
      BY <1>4, <2>1, <2>2, Zenon
  <1>7. ASSUME x[1] \notin {"nl", ","}, NEW c
        PROVE  CsvStep(c, x)
                 = CsvWith(c, FALSE, IF c.fields = -1 \/ (c.fields > 0 /\ ~c.comma) THEN -1
                                     ELSE c.fields + 1)
    <2>1. x[1] # "nl" /\ x[1] # ","
      BY <1>7, Zenon
    <2> QED
      BY <2>1, Zenon DEF CsvStep, CsvWith
  <1>8. ASSUME x[1] \notin {"nl", ","}, n = 0
        PROVE  CsvStep(a, x) = OnLine(lines, 1)
    <2>1. (IF a.fields = -1 \/ (a.fields > 0 /\ ~a.comma) THEN -1 ELSE a.fields + 1) = 1
      BY <1>1, <1>3, <1>8, Zenon
    <2> QED
      BY <1>4, <1>7, <1>8, <2>1, Zenon
  <1>9. ASSUME x[1] \notin {"nl", ","}
        PROVE  CsvStep(b, x) = OnLine(lines, n + 1)
    <2>1. (IF b.fields = -1 \/ (b.fields > 0 /\ ~b.comma) THEN -1 ELSE b.fields + 1) = n + 1
      BY <1>1, <1>3, Zenon
    <2> QED
      BY <1>4, <1>7, <1>9, <2>1, Zenon
  <1> QED
    BY <1>5, <1>6, <1>8, <1>9, Zenon DEF a, b

\* The reader at the end of the text, and of the header.
CsvEnd(s) == CsvStates(s.data)[s.used]
CsvHead(s) == CsvStates(s.header)[s.hused]

LEMMA CsvKept ==
    ASSUME NEW d \in Seq(Cell), NEW e \in Seq(Cell), NEW m \in Nat, m <= Len(d), m <= Len(e),
           \A i \in 1 .. m : e[i] = d[i]
    PROVE  /\ CsvStates(e)[m] = CsvStates(d)[m]
           /\ m + 1 <= Len(e) => CsvStates(e)[m + 1] = CsvStep(CsvStates(d)[m], e[m + 1])
           /\ m + 2 <= Len(e) =>
                CsvStates(e)[m + 2] = CsvStep(CsvStep(CsvStates(d)[m], e[m + 1]), e[m + 2])
  <1>1. Len(d) \in Nat /\ Len(e) \in Nat
    OBVIOUS
  <1>2. CsvStates(e)[m] = CsvStates(d)[m]
    BY <1>1, CsvStatesAgree
  <1>3. ASSUME m + 1 <= Len(e)
        PROVE  CsvStates(e)[m + 1] = CsvStep(CsvStates(d)[m], e[m + 1])
    <2>1. m + 1 \in 1 .. Len(e) /\ (m + 1) - 1 = m
      BY <1>1, <1>3
    <2>2. CsvStates(e)[m + 1] = CsvStep(CsvStates(e)[(m + 1) - 1], e[m + 1])
      BY <1>1, <2>1, CsvStatesDef
    <2> QED
      BY <1>2, <2>1, <2>2
  <1>4. ASSUME m + 2 <= Len(e)
        PROVE  CsvStates(e)[m + 2] = CsvStep(CsvStep(CsvStates(d)[m], e[m + 1]), e[m + 2])
    <2>1. m + 2 \in 1 .. Len(e) /\ (m + 2) - 1 = m + 1 /\ m + 1 <= Len(e)
      BY <1>1, <1>4
    <2>2. CsvStates(e)[m + 2] = CsvStep(CsvStates(e)[(m + 2) - 1], e[m + 2])
      BY <1>1, <2>1, CsvStatesDef
    <2> QED
      BY <1>3, <2>1, <2>2
  <1> QED
    BY <1>2, <1>3, <1>4

LEMMA CsvPut ==
    ASSUME NEW s, Sane(s), NEW x \in Cell
    PROVE  /\ CsvEnd(Put(s, <<x>>)) = CsvStep(CsvEnd(s), x)
           /\ CsvHead(Put(s, <<x>>)) = CsvHead(s)
           /\ Put(s, <<x>>).used = s.used + 1 /\ Put(s, <<x>>).flags = s.flags
           /\ Put(s, <<x>>).hused = s.hused
  <1> DEFINE c == <<x>>
             t == Put(s, c)
             u == s.used
             d == s.data
             e == t.data
  <1>1. c \in Seq(Cell) /\ Len(c) = 1 /\ c[1] = x /\ 1 \in 1 .. Len(c)
    BY Tuples
  <1>2. s \in Serializers /\ u <= Len(d) /\ s.snapshot.used <= Len(d) /\ u \in Nat /\ d \in Seq(Cell)
        /\ Len(d) \in Nat
    BY DEF Sane, InBuffer, Serializers
  <1> HIDE DEF c
  <1>3. /\ t \in Serializers /\ t.flags = s.flags /\ t.hused = s.hused /\ t.header = s.header
        /\ t.used = u + Len(c) /\ t.used <= Len(e)
        /\ \A i \in 1 .. u : e[i] = d[i]
        /\ \A i \in 1 .. Len(c) : e[u + i] = c[i]
    BY <1>1, <1>2, PutFacts
  <1>4. e \in Seq(Cell) /\ Len(e) \in Nat
    BY <1>3 DEF Serializers
  <1>5. e[u + 1] = x /\ t.used = u + 1
    BY <1>1, <1>3
  <1> HIDE DEF t, d, e, u
  <1>6. u <= Len(e) /\ u + 1 <= Len(e)
    BY <1>2, <1>3, <1>4, <1>5
  <1>7. CsvStates(e)[u + 1] = CsvStep(CsvStates(d)[u], e[u + 1])
    BY <1>2, <1>3, <1>4, <1>6, CsvKept
  <1>8. CsvEnd(t) = CsvStep(CsvEnd(s), x)
    BY <1>5, <1>7 DEF CsvEnd, d, e, u
  <1>9. CsvHead(t) = CsvHead(s)
    BY <1>3, Zenon DEF CsvHead
  <1> QED
    BY <1>3, <1>5, <1>8, <1>9, Zenon DEF t, c, u

\* The fields of the first line.
FirstLine(lines, n) == IF lines = <<>> THEN n ELSE lines[1]

\* A CSV text with n fields on its last line, and the flags and the header that
\* go with it.  A caller who skips the header may do so at any time.
CsvIs(s, lines, n, skip) ==
    /\ CsvEnd(s) = OnLine(lines, n)
    /\ "EOR" \in s.flags => n = 0
    /\ "EOR" \notin s.flags => (s.used = 0 <=> n = 0)
    /\ ~skip =>
         /\ CsvHead(s) = OnLine(<<>>, FirstLine(lines, n))
         /\ s.hused = 0 <=> FirstLine(lines, n) = 0
         /\ "HDR_DONE" \in s.flags <=> lines # <<>>
         /\ "EOR" \in s.flags => lines # <<>>

HasColumns(s, skip) == \E lines \in Seq(Nat), n \in Nat : CsvIs(s, lines, n, skip)

\* A text that has its columns, or whose first value was empty and lost the
\* separator behind it.
Lost(s) == s.used > 1 /\ s.data[1] = <<"text", "">> /\ s.data[2][1] \notin {",", "nl"}

GoodCsv(s, skip) == Lost(s) \/ HasColumns(s, skip)

\* Only the flags, the text and the header matter.
LEMMA CsvIsSame ==
    ASSUME NEW s, NEW t, NEW lines, NEW n, NEW skip, CsvIs(s, lines, n, skip),
           CsvEnd(t) = CsvEnd(s), CsvHead(t) = CsvHead(s), t.used = s.used, t.hused = s.hused,
           "EOR" \in t.flags <=> "EOR" \in s.flags,
           "HDR_DONE" \in t.flags <=> "HDR_DONE" \in s.flags
    PROVE  CsvIs(t, lines, n, skip)
  BY Zenon DEF CsvIs

LEMMA ColumnsSame ==
    ASSUME NEW s, Sane(s), NEW t, Sane(t), NEW skip, HasColumns(s, skip),
           t.used = s.used, t.hused = s.hused,
           \A i \in 1 .. s.used : t.data[i] = s.data[i],
           \A i \in 1 .. s.hused : t.header[i] = s.header[i],
           "EOR" \in t.flags <=> "EOR" \in s.flags,
           "HDR_DONE" \in t.flags <=> "HDR_DONE" \in s.flags
    PROVE  HasColumns(t, skip)
  <1>1. /\ s.data \in Seq(Cell) /\ t.data \in Seq(Cell) /\ s.header \in Seq(Cell)
        /\ t.header \in Seq(Cell) /\ s.used \in Nat /\ s.hused \in Nat
        /\ s.used <= Len(s.data) /\ t.used <= Len(t.data)
        /\ s.hused <= Len(s.header) /\ t.hused <= Len(t.header)
    BY DEF Sane, InBuffer, Serializers
  <1>2. CsvStates(t.data)[s.used] = CsvStates(s.data)[s.used]
    BY <1>1, CsvKept
  <1>3. CsvStates(t.header)[s.hused] = CsvStates(s.header)[s.hused]
    BY <1>1, CsvKept
  <1>4. CsvEnd(t) = CsvEnd(s) /\ CsvHead(t) = CsvHead(s)
    BY <1>2, <1>3, Zenon DEF CsvEnd, CsvHead
  <1>5. PICK lines \in Seq(Nat), n \in Nat : CsvIs(s, lines, n, skip)
    BY DEF HasColumns
  <1>6. CsvIs(t, lines, n, skip)
    BY <1>4, <1>5, CsvIsSame
  <1> QED
    BY <1>6 DEF HasColumns

\* A separator once lost stays lost as long as the text is only added to.
LEMMA LostKept ==
    ASSUME NEW s, Sane(s), Lost(s), NEW t, s.used <= t.used, t.used \in Nat,
           \A i \in 1 .. s.used : t.data[i] = s.data[i]
    PROVE  Lost(t)
  <1>1. s.used \in Nat /\ s.used > 1
    BY DEF Sane, InBuffer, Serializers, Lost
  <1>2. 1 \in 1 .. s.used /\ 2 \in 1 .. s.used /\ t.used > 1
    BY <1>1
  <1>3. t.data[1] = s.data[1] /\ t.data[2] = s.data[2]
    BY <1>2
  <1> QED
    BY <1>2, <1>3, Zenon DEF Lost

LEMMA LostGrows ==
    ASSUME NEW s, Sane(s), Lost(s), NEW t, Grows(s, t)
    PROVE  Lost(t)
  <1>1. t.used \in Nat
    BY DEF Grows, Same, Sane, InBuffer, Serializers
  <1> QED
    BY <1>1, LostKept DEF Grows

LEMMA GoodCsvSame ==
    ASSUME NEW s, Sane(s), NEW t, Sane(t), NEW skip, GoodCsv(s, skip),
           t.used = s.used, t.hused = s.hused,
           \A i \in 1 .. s.used : t.data[i] = s.data[i],
           \A i \in 1 .. s.hused : t.header[i] = s.header[i],
           "EOR" \in t.flags <=> "EOR" \in s.flags,
           "HDR_DONE" \in t.flags <=> "HDR_DONE" \in s.flags
    PROVE  GoodCsv(t, skip)
  <1>1. CASE Lost(s)
    <2>1. s.used \in Nat /\ s.used <= t.used /\ t.used \in Nat
      BY DEF Sane, InBuffer, Serializers
    <2>2. Lost(t)
      BY <1>1, <2>1, LostKept
    <2> QED
      BY <2>2 DEF GoodCsv
  <1>2. CASE HasColumns(s, skip)
    BY <1>2, ColumnsSame DEF GoodCsv
  <1> QED
    BY <1>1, <1>2 DEF GoodCsv

\* The header takes one more name.
LEMMA CsvHeadAdd ==
    ASSUME NEW s, Sane(s), NEW key \in Texts, "HDR_DONE" \notin s.flags, NEW n \in Nat,
           CsvHead(s) = OnLine(<<>>, n), s.hused = 0 <=> n = 0
    PROVE  LET h == ndpi_serializer_header_string(s, key)
           IN  CsvHead(h) = OnLine(<<>>, n + 1) /\ h.hused \in Nat /\ h.hused # 0
  <1> DEFINE h == ndpi_serializer_header_string(s, key)
             x == <<"key", key>>
             comma == <<",">>
             m == s.hused
             empty == <<>>
  <1>1. /\ Grows(s, h) /\ h.hused = m + (IF m > 0 THEN 2 ELSE 1) /\ Len(h.header) = h.hused
        /\ m > 0 => h.header[m + 1] = comma
        /\ h.header[h.hused] = x
    BY GrowsHeader
  <1>2. comma[1] = "," /\ x[1] \notin {"nl", ","}
    BY Tuples
  <1> HIDE DEF h, x, comma, empty
  <1>3. /\ s.header \in Seq(Cell) /\ h.header \in Seq(Cell) /\ m \in Nat /\ m <= Len(s.header)
        /\ m <= h.hused /\ h.hused \in Nat
        /\ \A i \in 1 .. m : h.header[i] = s.header[i]
    BY <1>1 DEF Grows, Same, Sane, InBuffer, Serializers
  <1>4. CsvStates(s.header)[m] = OnLine(empty, n)
    BY Zenon DEF CsvHead, empty
  <1> HIDE DEF m
  <1>5. CASE m > 0
    <2>1. h.hused = m + 2 /\ h.header[m + 1] = comma /\ h.header[m + 2] = x
      BY <1>1, <1>5
    <2>2. m <= Len(h.header) /\ m + 2 <= Len(h.header)
      BY <1>1, <1>3, <2>1
    <2>3. CsvStates(h.header)[m + 2]
            = CsvStep(CsvStep(CsvStates(s.header)[m], h.header[m + 1]), h.header[m + 2])
      BY <1>3, <2>2, CsvKept
    <2>4. n > 0
      BY <1>3, <1>5 DEF m
    <2>5. CsvStep(OnLine(empty, n), comma) = OnComma(empty, n)
      BY <1>2, <2>4, CsvStepFacts
    <2>6. CsvStep(OnComma(empty, n), x) = OnLine(empty, n + 1)
      BY <1>2, CsvStepFacts
    <2>7. CsvHead(h) = OnLine(empty, n + 1)
      BY <1>4, <2>1, <2>3, <2>5, <2>6 DEF CsvHead
    <2>8. h.hused # 0
      BY <1>3, <2>1
    <2> QED
      BY <1>3, <2>7, <2>8, Zenon DEF h, empty
  <1>6. CASE m = 0
    <2>1. h.hused = m + 1 /\ h.header[m + 1] = x
      BY <1>1, <1>3, <1>6
    <2>2. m <= Len(h.header) /\ m + 1 <= Len(h.header)
      BY <1>1, <1>3, <2>1
    <2>3. CsvStates(h.header)[m + 1] = CsvStep(CsvStates(s.header)[m], h.header[m + 1])
      BY <1>3, <2>2, CsvKept
    <2>4. n = 0
      BY <1>6 DEF m
    <2>5. CsvStep(OnLine(empty, n), x) = OnLine(empty, 1)
      BY <1>2, <2>4, CsvStepFacts
    <2>6. n + 1 = 1
      BY <2>4
    <2>7. CsvHead(h) = OnLine(empty, n + 1)
      BY <1>4, <2>1, <2>3, <2>5, <2>6 DEF CsvHead
    <2>8. h.hused # 0
      BY <1>3, <2>1
    <2> QED
      BY <1>3, <2>7, <2>8, Zenon DEF h, empty
  <1> QED
    BY <1>3, <1>5, <1>6

\* The text takes one more field.
LEMMA CsvTextAdd ==
    ASSUME NEW s, Sane(s), s.fmt = "csv", NEW key \in Texts, NEW text \in ValueCell,
           NEW lines \in Seq(Nat), NEW n \in Nat, CsvEnd(s) = OnLine(lines, n),
           "EOR" \in s.flags => n = 0,
           "EOR" \notin s.flags => (s.used = 0 <=> n = 0),
           "EOR" \notin s.flags /\ s.used # 0 => ~NoByte(s)
    PROVE  LET t == CsvAdd(s, key, text)
               h == ndpi_serializer_header_string(s, key)
           IN  /\ CsvEnd(t) = OnLine(lines, n + 1) /\ t.used # 0
               /\ "EOR" \notin t.flags /\ ("HDR_DONE" \in t.flags <=> "HDR_DONE" \in s.flags)
               /\ CsvHead(t) = CsvHead(h) /\ t.hused = h.hused
  <1> DEFINE h == ndpi_serializer_header_string(s, key)
             p == ndpi_serialize_csv_pre(h)
             comma == <<",">>
             e == "EOR"
             t == Put(p, <<text>>)
             Ready == /\ Sane(p) /\ e \notin p.flags
                      /\ ("HDR_DONE" \in p.flags <=> "HDR_DONE" \in s.flags)
                      /\ CsvHead(p) = CsvHead(h) /\ p.hused = h.hused
                      /\ CsvStep(CsvEnd(p), text) = OnLine(lines, n + 1)
  <1>1. /\ Grows(s, h) /\ h.flags = s.flags /\ h.used = s.used /\ h.data = s.data
    BY GrowsHeader
  <1>2. comma \in Cell /\ comma[1] = ","
    BY JsonCells
  <1>3. text \in Cell /\ text[1] \notin {"nl", ","}
    BY DEF ValueCell, Value
  <1>4. e \in Flags /\ "HDR_DONE" # e
    BY FlagNames
  <1>5. t = CsvAdd(s, key, text)
    BY DEF CsvAdd
  <1>6. /\ e \in h.flags => p = Clear(h, e)
        /\ e \notin h.flags /\ h.used = 0 => p = h
        /\ e \notin h.flags /\ h.used # 0 => p = Put(h, <<comma>>)
    <2>1. /\ e \in h.flags => p = Clear(h, e)
          /\ e \notin h.flags /\ NoByte(h) => p = h
          /\ e \notin h.flags /\ ~NoByte(h) => p = Put(h, <<comma>>)
      BY Zenon DEF ndpi_serialize_csv_pre, Has
    <2>2. NoByte(h) <=> NoByte(s)
      BY <1>1, Zenon DEF NoByte
    <2> HIDE DEF h, p, comma
    <2>3. h.used = 0 => NoByte(h)
      <3>1. h.used = 0 => 1 .. h.used = {}
        OBVIOUS
      <3> QED
        BY <3>1, Zenon DEF NoByte
    <2> QED
      BY <1>1, <2>1, <2>2, <2>3
  <1> HIDE DEF h, p, comma
  <1>7. Sane(h) /\ h.fmt = "csv" /\ h \in Serializers /\ h.used \in Nat
    BY <1>1 DEF Grows, Same, Sane, InBuffer, Serializers
  <1>8. CsvEnd(h) = OnLine(lines, n)
    BY <1>1, Zenon DEF CsvEnd
  <1>9. n = 0 => CsvStep(OnLine(lines, n), text) = OnLine(lines, n + 1)
    <2>1. n = 0 => n + 1 = 1
      OBVIOUS
    <2>2. n = 0 => CsvStep(OnLine(lines, n), text) = OnLine(lines, 1)
      BY <1>3, CsvStepFacts
    <2> QED
      BY <2>1, <2>2
  <1>10. ASSUME e \in s.flags
         PROVE  Ready
    <2>1. p = Clear(h, e) /\ n = 0
      BY <1>1, <1>6, <1>10
    <2>2. /\ p.flags = h.flags \ {e} /\ p.data = h.data /\ p.used = h.used
          /\ p.header = h.header /\ p.hused = h.hused
      BY <1>4, <1>7, <2>1, FlagFacts
    <2>3. Grows(h, p)
      <3>1. h.fmt \in Plain
        BY <1>7 DEF Plain
      <3> QED
        BY <1>4, <1>7, <2>1, <3>1, GrowsFlag
    <2>4. Sane(p)
      BY <2>3 DEF Grows, Same
    <2>5. CsvHead(p) = CsvHead(h) /\ CsvEnd(p) = OnLine(lines, n)
      BY <1>8, <2>2, Zenon DEF CsvHead, CsvEnd
    <2>6. e \notin p.flags /\ ("HDR_DONE" \in p.flags <=> "HDR_DONE" \in s.flags)
      BY <1>1, <1>4, <2>2
    <2>7. Ready
      BY <1>9, <2>1, <2>2, <2>4, <2>5, <2>6, Zenon
    <2> QED
      BY <2>7
  <1>11. ASSUME e \notin s.flags /\ s.used = 0
         PROVE  Ready
    <2>1. p = h /\ n = 0
      BY <1>1, <1>6, <1>11
    <2>2. Ready
      BY <1>1, <1>7, <1>8, <1>9, <1>11, <2>1, Zenon
    <2> QED
      BY <2>2
  <1>12. ASSUME e \notin s.flags /\ s.used # 0
         PROVE  Ready
    <2>1. p = Put(h, <<comma>>) /\ n > 0
      BY <1>1, <1>6, <1>12
    <2>2. /\ CsvEnd(p) = CsvStep(CsvEnd(h), comma) /\ CsvHead(p) = CsvHead(h)
          /\ p.flags = h.flags /\ p.hused = h.hused
      BY <1>2, <1>7, <2>1, CsvPut
    <2>3. Sane(p)
      <3>1. <<comma>> \in Seq(Cell)
        BY <1>2, Tuples
      <3>2. Grows(h, p)
        BY <1>7, <2>1, <3>1, GrowsPut
      <3> QED
        BY <3>2 DEF Grows, Same
    <2>4. CsvStep(OnLine(lines, n), comma) = OnComma(lines, n)
      BY <1>2, <2>1, CsvStepFacts
    <2>5. CsvStep(OnComma(lines, n), text) = OnLine(lines, n + 1)
      BY <1>3, CsvStepFacts
    <2>6. CsvStep(CsvEnd(p), text) = OnLine(lines, n + 1)
      BY <1>8, <2>2, <2>4, <2>5, Zenon
    <2>7. Ready
      BY <1>1, <1>12, <2>2, <2>3, <2>6, Zenon
    <2> QED
      BY <2>7
  <1>13. Ready
    BY <1>10, <1>11, <1>12
  <1> HIDE DEF e
  <1>14. /\ CsvEnd(t) = CsvStep(CsvEnd(p), text) /\ CsvHead(t) = CsvHead(p)
         /\ t.used = p.used + 1 /\ t.flags = p.flags /\ t.hused = p.hused
    BY <1>3, <1>13, CsvPut
  <1>15. t.used # 0
    <2>1. p.used \in Nat
      BY <1>13 DEF Sane, InBuffer, Serializers
    <2> HIDE DEF t
    <2> QED
      BY <1>14, <2>1
  <1> HIDE DEF t
  <1> QED
    BY <1>5, <1>13, <1>14, <1>15, Zenon DEF h, e

LEMMA ColumnsAdd ==
    ASSUME NEW s, Sane(s), s.fmt = "csv", NEW key \in Texts, NEW text \in ValueCell, NEW skip,
           HasColumns(s, skip), "EOR" \notin s.flags /\ s.used # 0 => ~NoByte(s)
    PROVE  HasColumns(CsvAdd(s, key, text), skip)
  <1> DEFINE t == CsvAdd(s, key, text)
             h == ndpi_serializer_header_string(s, key)
  <1>1. PICK lines \in Seq(Nat), n \in Nat : CsvIs(s, lines, n, skip)
    BY DEF HasColumns
  <1>2. /\ CsvEnd(t) = OnLine(lines, n + 1) /\ t.used # 0
        /\ "EOR" \notin t.flags /\ ("HDR_DONE" \in t.flags <=> "HDR_DONE" \in s.flags)
        /\ CsvHead(t) = CsvHead(h) /\ t.hused = h.hused
    <2>1. /\ CsvEnd(s) = OnLine(lines, n)
          /\ "EOR" \in s.flags => n = 0
          /\ "EOR" \notin s.flags => (s.used = 0 <=> n = 0)
      BY <1>1, Zenon DEF CsvIs
    <2> QED
      BY <2>1, CsvTextAdd
  <1>3. n + 1 \in Nat /\ n + 1 # 0
    OBVIOUS
  <1> HIDE DEF t, h
  <1>4. ASSUME ~skip
        PROVE  /\ CsvHead(h) = OnLine(<<>>, FirstLine(lines, n + 1))
               /\ h.hused = 0 <=> FirstLine(lines, n + 1) = 0
               /\ "HDR_DONE" \in s.flags <=> lines # <<>>
    <2>1. /\ CsvHead(s) = OnLine(<<>>, FirstLine(lines, n))
          /\ s.hused = 0 <=> FirstLine(lines, n) = 0
          /\ "HDR_DONE" \in s.flags <=> lines # <<>>
      BY <1>1, <1>4, Zenon DEF CsvIs
    <2>2. CASE "HDR_DONE" \in s.flags
      <3>1. h = s
        BY <2>2, GrowsHeader DEF h
      <3>2. FirstLine(lines, n + 1) = FirstLine(lines, n)
        BY <2>1, <2>2, Zenon DEF FirstLine
      <3> QED
        BY <2>1, <3>1, <3>2, Zenon
    <2>3. CASE "HDR_DONE" \notin s.flags
      <3>1. FirstLine(lines, n) = n /\ FirstLine(lines, n + 1) = n + 1
        BY <2>1, <2>3, Zenon DEF FirstLine
      <3>2. CsvHead(s) = OnLine(<<>>, n) /\ (s.hused = 0 <=> n = 0)
        BY <2>1, <3>1, Zenon
      <3>3. CsvHead(h) = OnLine(<<>>, n + 1) /\ h.hused # 0
        BY <2>3, <3>2, CsvHeadAdd DEF h
      <3> QED
        BY <1>3, <2>1, <3>1, <3>3, Zenon
    <2> QED
      BY <2>2, <2>3
  <1>5. CsvIs(t, lines, n + 1, skip)
    BY <1>2, <1>3, <1>4, Zenon DEF CsvIs
  <1>6. HasColumns(t, skip)
    BY <1>3, <1>5, Zenon DEF HasColumns
  <1> QED
    BY <1>6 DEF t

\* An empty value alone in the text loses the separator to the next one.
LEMMA SeparatorGoes ==
    ASSUME NEW s, Sane(s), s.fmt = "csv", NEW key \in Texts, NEW text \in ValueCell,
           "EOR" \notin s.flags, s.used = 1, NoByte(s)
    PROVE  Lost(CsvAdd(s, key, text))
  <1> DEFINE h == ndpi_serializer_header_string(s, key)
             p == ndpi_serialize_csv_pre(h)
             t == Put(p, <<text>>)
             c == <<text>>
  <1>1. Grows(s, h) /\ h.flags = s.flags /\ h.used = s.used /\ h.data = s.data
    BY GrowsHeader
  <1>2. text \in Cell /\ text[1] \notin {"nl", ","}
    BY DEF ValueCell, Value
  <1>3. t = CsvAdd(s, key, text)
    BY DEF CsvAdd
  <1> HIDE DEF h
  <1>4. NoByte(h) /\ "EOR" \notin h.flags
    BY <1>1, Zenon DEF NoByte
  <1>5. p = h
    BY <1>4, Zenon DEF ndpi_serialize_csv_pre, Has
  <1>6. InBuffer(h) /\ c \in Seq(Cell) /\ Len(c) = 1 /\ c[1] = text
    BY <1>1, <1>2, Tuples DEF Grows, Same, Sane
  <1>7. t = Put(h, c)
    BY <1>5
  <1> HIDE DEF p, t, c
  <1>8. t.used = 2 /\ t.data[1] = h.data[1] /\ t.data[2] = text
    <2>1. h.used = 1 /\ h \in Serializers /\ h.used <= Len(h.data) /\ h.snapshot.used <= Len(h.data)
      BY <1>1, <1>6 DEF InBuffer
    <2>2. /\ t.used = h.used + Len(c)
          /\ \A i \in 1 .. h.used : t.data[i] = h.data[i]
          /\ \A i \in 1 .. Len(c) : t.data[h.used + i] = c[i]
      BY <1>6, <1>7, <2>1, PutFacts
    <2>3. 1 \in 1 .. h.used /\ 1 \in 1 .. Len(c) /\ h.used + 1 = 2
      BY <1>6, <2>1
    <2> QED
      BY <1>6, <2>1, <2>2, <2>3
  <1>9. h.data[1] = <<"text", "">>
    <2>1. 1 \in 1 .. h.used
      BY <1>1
    <2> QED
      BY <1>4, <2>1, Zenon DEF NoByte
  <1>10. Lost(t)
    <2>1. t.used > 1
      BY <1>8
    <2> QED
      BY <1>2, <1>8, <1>9, <2>1, Zenon DEF Lost
  <1> QED
    BY <1>3, <1>10

LEMMA CsvAddGood ==
    ASSUME NEW s, Sane(s), s.fmt = "csv", NEW key \in Texts, NEW text \in ValueCell, NEW skip,
           GoodCsv(s, skip)
    PROVE  GoodCsv(CsvAdd(s, key, text), skip)
  <1> DEFINE t == CsvAdd(s, key, text)
  <1> HIDE DEF t
  <1>1. CASE Lost(s)
    <2>1. Grows(s, t)
      BY CsvAddGrows DEF t
    <2> QED
      BY <1>1, <2>1, LostGrows DEF GoodCsv, t
  <1>2. CASE HasColumns(s, skip) /\ ("EOR" \notin s.flags /\ s.used # 0 => ~NoByte(s))
    BY <1>2, ColumnsAdd DEF GoodCsv
  <1>3. CASE ~Lost(s) /\ "EOR" \notin s.flags /\ s.used # 0 /\ NoByte(s)
    <2>1. s.used \in Nat
      BY DEF Sane, InBuffer, Serializers
    <2>2. s.used = 1
      <3>1. SUFFICES ASSUME s.used > 1 PROVE FALSE
        BY <1>3, <2>1
      <3>2. s.data[1] = <<"text", "">> /\ s.data[2] = <<"text", "">>
        <4>1. 1 \in 1 .. s.used /\ 2 \in 1 .. s.used
          BY <2>1, <3>1
        <4> QED
          BY <1>3, <4>1, Zenon DEF NoByte
      <3>3. s.data[2][1] \notin {",", "nl"}
        <4>1. <<"text", "">>[1] = "text"
          OBVIOUS
        <4>2. s.data[2][1] = "text"
          BY <3>2, <4>1, Zenon
        <4> QED
          BY <4>2
      <3> QED
        BY <1>3, <3>1, <3>2, <3>3, Zenon DEF Lost
    <2> QED
      BY <1>3, <2>2, SeparatorGoes DEF GoodCsv
  <1> QED
    BY <1>1, <1>2, <1>3, Zenon DEF GoodCsv

LEMMA AppendFirst ==
    ASSUME NEW lines \in Seq(Nat), NEW n \in Nat
    PROVE  /\ Append(lines, n) \in Seq(Nat) /\ Append(lines, n) # <<>>
           /\ lines = <<>> => Append(lines, n)[1] = n
           /\ lines # <<>> => Append(lines, n)[1] = lines[1]
  OBVIOUS

\* The end of a record ends the line.
LEMMA ColumnsEnd ==
    ASSUME NEW s, Sane(s), NEW skip, HasColumns(s, skip)
    PROVE  HasColumns(EndCsv(s), skip)
  <1> DEFINE x == <<"nl">>
             p == Put(s, <<x>>)
             a == Raise(p, "HDR_DONE")
             b == Raise(a, "EOR")
             t == Clear(b, "NOT_EMPTY")
  <1>1. PICK lines \in Seq(Nat), n \in Nat : CsvIs(s, lines, n, skip)
    BY DEF HasColumns
  <1>2. x \in Cell /\ x[1] = "nl"
    BY JsonCells
  <1>3. t = EndCsv(s)
    BY DEF EndCsv
  <1> HIDE DEF x
  <1>4. /\ CsvEnd(p) = CsvStep(CsvEnd(s), x) /\ CsvHead(p) = CsvHead(s)
        /\ p.flags = s.flags /\ p.hused = s.hused
    BY <1>2, CsvPut
  <1>5. CsvEnd(s) = OnLine(lines, n)
    BY <1>1, Zenon DEF CsvIs
  <1>6. CsvStep(OnLine(lines, n), x) = OnLine(Append(lines, n), 0)
    BY <1>2, CsvStepFacts
  <1>7. CsvEnd(p) = OnLine(Append(lines, n), 0)
    BY <1>4, <1>5, <1>6, Zenon
  <1>8. p \in Serializers
    <2>1. <<x>> \in Seq(Cell)
      BY <1>2, Tuples
    <2>2. Grows(s, p)
      BY <2>1, GrowsPut
    <2> HIDE DEF p
    <2> QED
      BY <2>2 DEF Grows, Same, Sane, InBuffer
  <1> HIDE DEF p
  <1>9. a \in Serializers /\ a.flags = p.flags \cup {"HDR_DONE"}
        /\ a.data = p.data /\ a.used = p.used /\ a.header = p.header /\ a.hused = p.hused
    BY <1>8, FlagNames, FlagFacts
  <1> HIDE DEF a
  <1>10. b \in Serializers /\ b.flags = a.flags \cup {"EOR"}
         /\ b.data = a.data /\ b.used = a.used /\ b.header = a.header /\ b.hused = a.hused
    BY <1>9, FlagNames, FlagFacts
  <1> HIDE DEF b
  <1>11. t.flags = b.flags \ {"NOT_EMPTY"}
         /\ t.data = b.data /\ t.used = b.used /\ t.header = b.header /\ t.hused = b.hused
    BY <1>10, FlagNames, FlagFacts
  <1> HIDE DEF t
  <1>12. CsvEnd(t) = CsvEnd(p) /\ CsvHead(t) = CsvHead(p) /\ t.hused = s.hused
    BY <1>4, <1>9, <1>10, <1>11, Zenon DEF CsvEnd, CsvHead
  <1>13. "EOR" \in t.flags /\ "HDR_DONE" \in t.flags
    BY <1>9, <1>10, <1>11
  <1>14. /\ Append(lines, n) \in Seq(Nat) /\ Append(lines, n) # <<>> /\ 0 \in Nat
         /\ lines = <<>> => Append(lines, n)[1] = n
         /\ lines # <<>> => Append(lines, n)[1] = lines[1]
    BY AppendFirst
  <1>15. FirstLine(Append(lines, n), 0) = FirstLine(lines, n)
    BY <1>14, Zenon DEF FirstLine
  <1>16. CsvIs(t, Append(lines, n), 0, skip)
    BY <1>1, <1>4, <1>7, <1>12, <1>13, <1>14, <1>15, Zenon DEF CsvIs
  <1>17. HasColumns(t, skip)
    BY <1>14, <1>16, Zenon DEF HasColumns
  <1> QED
    BY <1>3, <1>17

LEMMA EndCsvGood ==
    ASSUME NEW s, Sane(s), s.fmt = "csv", NEW skip, GoodCsv(s, skip)
    PROVE  GoodCsv(EndCsv(s), skip)
  <1>1. CASE Lost(s)
    <2>1. Grows(s, EndRecord(s)) /\ EndRecord(s) = EndCsv(s)
      BY EndPlainGrows DEF Plain, EndRecord
    <2> QED
      BY <1>1, <2>1, LostGrows DEF GoodCsv
  <1> QED
    BY <1>1, ColumnsEnd DEF GoodCsv

\* An empty text.
LEMMA EmptyCsv ==
    ASSUME NEW s, Sane(s), s.used = 0, s.hused = 0, s.flags = {}, NEW skip
    PROVE  GoodCsv(s, skip)
  <1> DEFINE empty == <<>>
  <1>1. Len(s.data) \in Nat /\ Len(s.header) \in Nat
    BY DEF Sane, InBuffer, Serializers
  <1>2. CsvEnd(s) = OnLine(empty, 0) /\ CsvHead(s) = OnLine(empty, 0)
    BY <1>1, CsvStatesDef, Zenon DEF CsvEnd, CsvHead, OnLine
  <1>3. FirstLine(empty, 0) = 0 /\ empty \in Seq(Nat) /\ 0 \in Nat
    BY DEF FirstLine
  <1>4. "EOR" \notin s.flags /\ "HDR_DONE" \notin s.flags
    OBVIOUS
  <1>5. CsvIs(s, empty, 0, skip)
    BY <1>2, <1>3, <1>4, Zenon DEF CsvIs
  <1> QED
    BY <1>3, <1>5, Zenon DEF GoodCsv, HasColumns

\* A flag that is not about records or the header.
LEMMA CsvFlag ==
    ASSUME NEW s, Sane(s), s.fmt = "csv", NEW skip, GoodCsv(s, skip)
    PROVE  GoodCsv(Raise(s, "NOT_EMPTY"), skip) /\ GoodCsv(Clear(s, "NOT_EMPTY"), skip)
  <1> DEFINE r == Raise(s, "NOT_EMPTY")
             c == Clear(s, "NOT_EMPTY")
  <1>1. s \in Serializers /\ "NOT_EMPTY" \in Flags /\ "EOR" # "NOT_EMPTY" /\ "HDR_DONE" # "NOT_EMPTY"
    BY FlagNames DEF Sane, InBuffer
  <1>2. /\ r.flags = s.flags \cup {"NOT_EMPTY"} /\ c.flags = s.flags \ {"NOT_EMPTY"}
        /\ r.data = s.data /\ r.used = s.used /\ r.header = s.header /\ r.hused = s.hused
        /\ c.data = s.data /\ c.used = s.used /\ c.header = s.header /\ c.hused = s.hused
    BY <1>1, FlagFacts
  <1>3. Grows(s, r) /\ Grows(s, c)
    BY <1>1, GrowsFlag DEF Plain
  <1> HIDE DEF r, c
  <1>4. Sane(r) /\ Sane(c)
    BY <1>3 DEF Grows, Same
  <1>5. /\ "EOR" \in r.flags <=> "EOR" \in s.flags
        /\ "HDR_DONE" \in r.flags <=> "HDR_DONE" \in s.flags
        /\ "EOR" \in c.flags <=> "EOR" \in s.flags
        /\ "HDR_DONE" \in c.flags <=> "HDR_DONE" \in s.flags
    BY <1>1, <1>2
  <1>6. GoodCsv(r, skip) /\ GoodCsv(c, skip)
    BY <1>2, <1>4, <1>5, GoodCsvSame
  <1> QED
    BY <1>6 DEF r, c

\* A call keeps the columns, but for a raw record, which is a line of its own.
LEMMA CsvCall ==
    ASSUME NEW s, Sane(s), s.fmt = "csv", NEW mem, NEW c, c.key \in Texts, c.v \in Texts,
           c.op \in Items \cup Structure, c.op = "raw_record" => mem = "noBuffer",
           NEW skip, GoodCsv(s, skip)
    PROVE  GoodCsv(Perform(s, mem, c).s, skip)
  <1> DEFINE d == Perform(s, mem, c)
             key == c.key
  <1>1. s \in Serializers /\ s.fmt \in Formats /\ s.fmt # "json" /\ s.fmt # "tlv"
    BY DEF Sane, InBuffer, Serializers
  <1>2. \A t : Returns(0, t).s = t /\ Returns(-1, t).s = t
    BY DEF Returns
  <1>3. ASSUME c.op \in Items
        PROVE  GoodCsv(d.s, skip)
    <2>1. ItemOutcome(s, key, d)
      BY <1>1, <1>3, ItemOutcomes
    <2>2. key \in Texts
      OBVIOUS
    <2> HIDE DEF d, key
    <2>3. \/ d.s = s
          \/ \E text \in ValueCell :
               \/ d.s = Raise(CsvAdd(s, key, text), "NOT_EMPTY")
               \/ d.s = Clear(Raise(CsvAdd(s, key, text), "NOT_EMPTY"), "NOT_EMPTY")
      BY <1>1, <2>1, Zenon DEF ItemOutcome
    <2>4. ASSUME NEW text \in ValueCell
          PROVE  /\ GoodCsv(Raise(CsvAdd(s, key, text), "NOT_EMPTY"), skip)
                 /\ GoodCsv(Clear(Raise(CsvAdd(s, key, text), "NOT_EMPTY"), "NOT_EMPTY"), skip)
      <3> DEFINE t == CsvAdd(s, key, text)
                 r == Raise(t, "NOT_EMPTY")
      <3>1. Grows(s, t) /\ GoodCsv(t, skip)
        BY <2>2, CsvAddGrows, CsvAddGood
      <3>2. Sane(t) /\ t.fmt = "csv" /\ "csv" \in Plain
        BY <3>1 DEF Grows, Same, Plain
      <3> HIDE DEF t
      <3>3. GoodCsv(r, skip) /\ Grows(t, r)
        BY <3>1, <3>2, CsvFlag, FlagNames, GrowsFlag
      <3>4. Sane(r) /\ r.fmt = "csv"
        BY <3>2, <3>3 DEF Grows, Same
      <3> HIDE DEF r
      <3>5. GoodCsv(Clear(r, "NOT_EMPTY"), skip)
        BY <3>3, <3>4, CsvFlag
      <3> QED
        BY <3>3, <3>5, Zenon DEF r, t
    <2> QED
      BY <2>3, <2>4, Zenon
  <1>4. ASSUME c.op = "end_of_record"
        PROVE  GoodCsv(d.s, skip)
    <2>1. d = Returns(-1, s) \/ d = Returns(0, EndRecord(s))
      BY <1>1, <1>4, StructureCalls, EndOfRecord
    <2>2. EndRecord(s) = EndCsv(s)
      BY DEF EndRecord
    <2>3. GoodCsv(EndCsv(s), skip)
      BY EndCsvGood
    <2> HIDE DEF d
    <2> QED
      BY <1>2, <2>1, <2>2, <2>3, Zenon
  <1>5. ASSUME c.op \in Structure, c.op # "end_of_record"
        PROVE  d.s = s
    <2>1. CASE c.op = "raw_record"
      <3>1. d = ndpi_serialize_raw_record(s, mem, c.v) /\ mem = "noBuffer"
        BY <2>1, StructureCalls
      <3>2. ~IsEmptyJson(s)
        BY <1>1 DEF IsEmptyJson
      <3>3. ndpi_serialize_raw_record(s, mem, c.v) = Returns(-1, s)
        BY <3>1, <3>2, Zenon DEF ndpi_serialize_raw_record
      <3> QED
        BY <1>2, <3>1, <3>3
    <2>2. CASE c.op = "start_of_list"
      <3>1. d = ndpi_serialize_start_of_list_binary(s, mem, c.key)
        BY <2>2, StructureCalls
      <3>2. ndpi_serialize_start_of_list_binary(s, mem, c.key) = Returns(-1, s)
        BY <1>1, Zenon DEF ndpi_serialize_start_of_list_binary
      <3> QED
        BY <1>2, <3>1, <3>2
    <2>3. CASE c.op = "end_of_list"
      BY <1>2, <2>3, StructureCalls DEF ndpi_serialize_end_of_list
    <2>4. CASE c.op = "start_of_block"
      <3>1. d = ndpi_serialize_start_of_block_binary(s, mem, c.key)
        BY <2>4, StructureCalls
      <3>2. ndpi_serialize_start_of_block_binary(s, mem, c.key) = Returns(-1, s)
        BY <1>1, Zenon DEF ndpi_serialize_start_of_block_binary
      <3> QED
        BY <1>2, <3>1, <3>2
    <2>5. CASE c.op = "end_of_block"
      BY <1>2, <2>5, StructureCalls DEF ndpi_serialize_end_of_block
    <2> QED
      BY <1>5, <2>1, <2>2, <2>3, <2>4, <2>5 DEF Structure
  <1> QED
    BY <1>3, <1>4, <1>5 DEF Structure

\* A report keeps the columns.
LEMMA RunCsv ==
    ASSUME NEW s, Sane(s), s.fmt = "csv", NEW p, Balanced(p), Known(p), NEW lost,
           NEW skip, GoodCsv(s, skip)
    PROVE  GoodCsv(Run(s, p, lost), skip)
  <1>1. /\ Len(p) \in Nat /\ \A i \in 1 .. Len(p) : p[i].op \in Items \cup Structure
        /\ \A i \in 1 .. Len(p) : p[i].op \in Items \cup {"start_of_block", "end_of_block"}
    BY BalancedCalls
  <1>0. \A i \in 1 .. Len(p) : p[i].op # "raw_record"
    <2>1. "raw_record" \notin Items \cup {"start_of_block", "end_of_block"}
      BY DEF Items
    <2> QED
      BY <1>1, <2>1, Zenon
  <1>2. PICK after : IsRun(after, s, p, lost) /\ Run(s, p, lost) = after[Len(p)]
    BY <1>1, RunDef
  <1> DEFINE Held1(u) == Sane(u) /\ u.fmt = "csv" /\ GoodCsv(u, skip)
             S == {i \in Nat : i <= Len(p) => Held1(after[i])}
  <1>3. 0 \in S
    BY <1>2 DEF IsRun
  <1>4. ASSUME NEW i \in S
        PROVE  i + 1 \in S
    <2> SUFFICES ASSUME i + 1 <= Len(p)
                 PROVE  Held1(after[i + 1])
      OBVIOUS
    <2> DEFINE j == i + 1
               mem == IF j = lost THEN "noBuffer" ELSE "ok"
               u == after[i]
    <2>1. Held1(u) /\ j \in 1 .. Len(p) /\ j - 1 = i
      BY <1>1
    <2>2. after[j] = Perform(u, mem, p[j]).s
      <3> HIDE DEF mem
      <3>1. after[j] = Perform(after[j - 1], mem, p[j]).s
        BY <1>2, <2>1, Zenon DEF IsRun, mem
      <3> QED
        BY <2>1, <3>1
    <2>3. Sane(u) /\ u.fmt = "csv" /\ GoodCsv(u, skip) /\ u.fmt \in Plain
      BY <2>1 DEF Plain
    <2>4. p[j].key \in Texts /\ p[j].v \in Texts /\ p[j].op \in Items \cup Structure
          /\ p[j].op # "raw_record"
      BY <1>0, <1>1, <2>1 DEF Known
    <2> HIDE DEF j, mem, u
    <2> DEFINE t == Perform(u, mem, p[j]).s
    <2>5. Grows(u, t)
      BY <2>3, <2>4, PlainCall
    <2>6. GoodCsv(t, skip)
      BY <2>3, <2>4, CsvCall
    <2> HIDE DEF t
    <2>7. Sane(t) /\ t.fmt = "csv"
      BY <2>3, <2>5 DEF Grows, Same
    <2>8. Held1(after[j])
      BY <2>2, <2>6, <2>7 DEF t
    <2> QED
      BY <2>8 DEF j
  <1>5. S = Nat
    <2>1. S \in SUBSET Nat
      OBVIOUS
    <2> HIDE DEF S
    <2> QED
      BY <1>3, <1>4, <2>1, Induction
  <1> QED
    BY <1>1, <1>2, <1>5

\* What a rollback would bring back is kept.
LEMMA BackCsv ==
    ASSUME NEW s, Sane(s), s.fmt = "csv", CanReturn(s), NEW t, Grows(s, t),
           NEW skip, GoodCsv(Back(s), skip)
    PROVE  GoodCsv(Back(t), skip)
  <1> DEFINE a == Back(s)
             b == Back(t)
             z == s.snapshot
  <1>1. s.fmt \in Plain
    BY DEF Plain
  <1>2. CanReturn(t)
    BY <1>1, ReturnGrows
  <1>3. InBuffer(s) /\ InBuffer(t) /\ t.snapshot = z
    BY DEF Grows, Same, Sane
  <1>4. /\ Sane(a) /\ a.flags = z.flags /\ a.used = z.used /\ a.hused = z.hused
        /\ a.data = s.data /\ a.header = s.header
    BY <1>3, BackFacts
  <1>5. /\ Sane(b) /\ b.flags = z.flags /\ b.used = z.used /\ b.hused = z.hused
        /\ b.data = t.data /\ b.header = t.header
    BY <1>2, <1>3, BackFacts
  <1>6. /\ s.used \in Nat /\ s.hused \in Nat /\ z.used \in Nat /\ z.hused \in Nat
        /\ z.used <= s.used /\ z.hused <= s.hused
    BY <1>1, <1>3 DEF InBuffer, Serializers, Snapshots, CanReturn
  <1>7. /\ \A i \in 1 .. s.used : t.data[i] = s.data[i]
        /\ \A i \in 1 .. s.hused : t.header[i] = s.header[i]
    BY DEF Grows
  <1> HIDE DEF z, a, b
  <1>8. /\ \A i \in 1 .. z.used : t.data[i] = s.data[i]
        /\ \A i \in 1 .. z.hused : t.header[i] = s.header[i]
    BY <1>6, <1>7
  <1>9. GoodCsv(a, skip)
    BY DEF a
  <1>10. GoodCsv(b, skip)
    BY <1>4, <1>5, <1>8, <1>9, GoodCsvSame
  <1> QED
    BY <1>10 DEF b

-----------------------------------------------------------------------------
(* The columns, through every action. *)

\* The CSV text has its columns, and so has the one a rollback brings back.
CsvInv ==
    "raw" \notin marks =>
      /\ GoodCsv(ser["csv"], "skip" \in marks)
      /\ saved.sound # {} => GoodCsv(Back(ser["csv"]), "skip" \in marks)

\* A caller who skips the header is promised less.
LEMMA CsvLess ==
    ASSUME NEW s, NEW k, NEW l, k => l, GoodCsv(s, k)
    PROVE  GoodCsv(s, l)
  <1>1. ASSUME HasColumns(s, k)
        PROVE  HasColumns(s, l)
    <2>1. PICK lines \in Seq(Nat), n \in Nat : CsvIs(s, lines, n, k)
      BY <1>1 DEF HasColumns
    <2>2. CsvIs(s, lines, n, l)
      BY <2>1, Zenon DEF CsvIs
    <2> QED
      BY <2>2 DEF HasColumns
  <1> QED
    BY <1>1 DEF GoodCsv

LEMMA CsvStanding ==
    ASSUME SerializerInv
    PROVE  /\ Sane(ser["csv"]) /\ ser["csv"].fmt = "csv" /\ "csv" \in Formats /\ "csv" \in Plain
           /\ saved.sound # {} => CanReturn(ser["csv"])
  <1>1. Standing /\ SavedStanding
    BY DEF SerializerInv
  <1>2. "csv" \in Formats /\ "csv" \in Plain
    BY DEF Formats, Plain
  <1>3. \A f \in Formats : Sane(ser[f]) /\ ser[f].fmt = f
    BY <1>1, StandingFacts
  <1>4. saved.sound # {} => \A f \in Formats : CanReturn(ser[f])
    BY <1>1, Zenon DEF SavedStanding
  <1> QED
    BY <1>2, <1>3, <1>4

\* What is enough when the text only grows.
LEMMA CsvOn ==
    ASSUME SerializerInv, CsvInv, NEW t, ser'["csv"] = t, Grows(ser["csv"], t),
           saved'.sound # {} => saved.sound # {},
           "raw" \in marks => "raw" \in marks', "skip" \in marks => "skip" \in marks',
           "raw" \notin marks' /\ GoodCsv(ser["csv"], "skip" \in marks') => GoodCsv(t, "skip" \in marks')
    PROVE  CsvInv'
  <1> DEFINE s == ser["csv"]
             k == "skip" \in marks
             l == "skip" \in marks'
  <1>1. /\ Sane(s) /\ s.fmt = "csv"
        /\ saved.sound # {} => CanReturn(s)
    BY CsvStanding
  <1>2. ASSUME "raw" \notin marks'
        PROVE  GoodCsv(t, l) /\ (saved'.sound # {} => GoodCsv(Back(t), l))
    <2>1. GoodCsv(s, k) /\ (saved.sound # {} => GoodCsv(Back(s), k))
      BY <1>2, Zenon DEF CsvInv
    <2>2. k => l
      OBVIOUS
    <2> HIDE DEF k, l, s
    <2>3. GoodCsv(s, l) /\ (saved.sound # {} => GoodCsv(Back(s), l))
      BY <2>1, <2>2, CsvLess
    <2>4. GoodCsv(t, l)
      BY <1>2, <2>3, Zenon DEF s, l
    <2>5. ASSUME saved'.sound # {}
          PROVE  GoodCsv(Back(t), l)
      <3>1. CanReturn(s) /\ GoodCsv(Back(s), l)
        BY <1>1, <2>3, <2>5
      <3>2. Grows(s, t)
        BY DEF s
      <3> QED
        BY <1>1, <3>1, <3>2, BackCsv
    <2> QED
      BY <2>4, <2>5
  <1> QED
    BY <1>2, Zenon DEF CsvInv

LEMMA CsvSerialize ==
    ASSUME SerializerInv, CsvInv, NEW c \in caller.calls, NEW mem \in Memory, Serialize(c, mem)
    PROVE  CsvInv'
  <1> DEFINE s == ser["csv"]
             t == Perform(s, mem, c).s
  <1>1. c.key \in Texts /\ c.v \in Texts /\ c.op \in Items \cup Structure
    BY CallFacts DEF SerializerInv, Standing
  <1>2. Sane(s) /\ s.fmt = "csv" /\ "csv" \in Formats /\ s.fmt \in Plain
    BY CsvStanding
  <1>3. ser' = [f \in Formats |-> [g \in Formats |-> Perform(ser[g], mem, c)][f].s]
        /\ marks' = marks \cup MarksOf(c, mem) \cup Uneven(c, mem)
                      \cup (IF mem = "ok" THEN {} ELSE {"memory"})
        /\ saved' = SavedAfter(c)
    BY Zenon DEF Serialize
  <1>4. ser'["csv"] = t
    <2>1. [g \in Formats |-> Perform(ser[g], mem, c)]["csv"] = Perform(s, mem, c)
      BY <1>2
    <2>2. ser'["csv"] = [g \in Formats |-> Perform(ser[g], mem, c)]["csv"].s
      BY <1>2, <1>3, Zenon
    <2> QED
      BY <2>1, <2>2, Zenon
  <1>5. Grows(s, t)
    BY <1>1, <1>2, PlainCall
  <1>6. saved'.sound # {} => saved.sound # {}
    <2>1. saved = [text |-> saved.text, open |-> saved.open, sound |-> saved.sound]
      BY DEF SerializerInv, SavedStanding
    <2>2. saved' = saved \/ saved' = [saved EXCEPT !.sound = @ \ {"json"}]
      BY <1>3 DEF SavedAfter
    <2>3. saved'.sound = saved.sound \/ saved'.sound = saved.sound \ {"json"}
      BY <2>1, <2>2
    <2> QED
      BY <2>3
  <1>7. ("raw" \in marks => "raw" \in marks') /\ ("skip" \in marks => "skip" \in marks')
    BY <1>3
  <1>8. "raw" \notin marks' /\ c.op = "raw_record" => mem = "noBuffer"
    <2>1. c.op = "raw_record" /\ mem # "noBuffer" => MarksOf(c, mem) = {"raw"}
      BY DEF MarksOf
    <2> QED
      BY <1>3, <2>1
  <1>9. ASSUME "raw" \notin marks', NEW l, GoodCsv(s, l)
        PROVE  GoodCsv(t, l)
    <2> HIDE DEF s
    <2> QED
      BY <1>1, <1>2, <1>8, <1>9, CsvCall
  <1> HIDE DEF t
  <1> QED
    BY <1>4, <1>5, <1>6, <1>7, <1>9, CsvOn

LEMMA CsvSkip ==
    ASSUME SerializerInv, CsvInv, SkipHeader
    PROVE  CsvInv'
  <1> DEFINE s == ser["csv"]
             t == Raise(s, "HDR_DONE")
  <1>1. /\ ser' = [ser EXCEPT !["csv"] = t] /\ saved' = saved
        /\ marks' = marks \cup {"skip"}
    BY DEF SkipHeader, Direct, ndpi_serializer_skip_header
  <1>2. Sane(s) /\ s.fmt = "csv" /\ "csv" \in Formats /\ s.fmt \in Plain /\ s \in Serializers
    BY CsvStanding DEF Sane, InBuffer
  <1>3. ser'["csv"] = t
    <2>1. DOMAIN ser = Formats
      BY DEF SerializerInv, Standing
    <2> HIDE DEF t
    <2> QED
      BY <1>1, <1>2, <2>1
  <1>4. Grows(s, t)
    BY <1>2, FlagNames, GrowsFlag
  <1>5. /\ t.flags = s.flags \cup {"HDR_DONE"}
        /\ t.data = s.data /\ t.used = s.used /\ t.header = s.header /\ t.hused = s.hused
    BY <1>2, FlagNames, FlagFacts
  <1>6. "skip" \in marks' /\ ("raw" \in marks => "raw" \in marks')
    BY <1>1
  <1> HIDE DEF t
  <1>7. ASSUME NEW l, l, GoodCsv(s, l), HasColumns(s, l)
        PROVE  GoodCsv(t, l)
    <2>1. PICK lines \in Seq(Nat), n \in Nat : CsvIs(s, lines, n, l)
      BY <1>7 DEF HasColumns
    <2>2. CsvEnd(t) = CsvEnd(s) /\ ("EOR" \in t.flags <=> "EOR" \in s.flags)
      <3>1. CsvEnd(t) = CsvEnd(s)
        BY <1>5, Zenon DEF CsvEnd
      <3> QED
        BY <1>5, <3>1
    <2>3. CsvIs(t, lines, n, l)
      BY <1>5, <1>7, <2>1, <2>2, Zenon DEF CsvIs
    <2> QED
      BY <2>3 DEF GoodCsv, HasColumns
  <1>8. ASSUME NEW l, Lost(s)
        PROVE  GoodCsv(t, l)
    BY <1>2, <1>4, <1>8, LostGrows DEF GoodCsv
  <1>9. ASSUME NEW l, l, GoodCsv(s, l)
        PROVE  GoodCsv(t, l)
    BY <1>7, <1>8, <1>9 DEF GoodCsv
  <1> QED
    BY <1>1, <1>3, <1>4, <1>6, <1>9, CsvOn

LEMMA CsvReset ==
    ASSUME NEW s, Sane(s), s.fmt = "csv", NEW skip
    PROVE  LET t == ndpi_reset_serializer(s)
           IN  Sane(t) /\ t.fmt = "csv" /\ GoodCsv(t, skip)
  <1> DEFINE t == ndpi_reset_serializer(s)
  <1>1. InBuffer(s) /\ s.fmt # "tlv"
    BY DEF Sane
  <1>2. Same(s, t) /\ t.flags = {} /\ t.used = 0 /\ t.hused = 0
    BY <1>1, ResetFacts
  <1> HIDE DEF t
  <1>3. Sane(t) /\ t.fmt = "csv"
    BY <1>2 DEF Same
  <1>4. GoodCsv(t, skip)
    BY <1>2, <1>3, EmptyCsv
  <1> QED
    BY <1>3, <1>4 DEF t

LEMMA NothingSaid ==
    ASSUME SerializerInv, saved' = [saved EXCEPT !.sound = {}]
    PROVE  saved'.sound = {}
  <1>1. saved = [text |-> saved.text, open |-> saved.open, sound |-> saved.sound]
    BY DEF SerializerInv, SavedStanding
  <1>2. saved' = [text |-> saved.text, open |-> saved.open, sound |-> {}]
    BY <1>1
  <1> QED
    BY <1>2

LEMMA CsvResetStep ==
    ASSUME SerializerInv, Reset
    PROVE  CsvInv'
  <1>1. /\ ser' = [f \in Formats |-> ndpi_reset_serializer(ser[f])]
        /\ marks' = {} /\ saved' = [saved EXCEPT !.sound = {}]
    BY DEF Reset
  <1>2. Sane(ser["csv"]) /\ ser["csv"].fmt = "csv" /\ "csv" \in Formats
    BY CsvStanding
  <1>3. ser'["csv"] = ndpi_reset_serializer(ser["csv"])
    BY <1>1, <1>2
  <1>4. GoodCsv(ser'["csv"], "skip" \in marks')
    BY <1>2, <1>3, CsvReset
  <1>5. saved'.sound = {}
    BY <1>1, NothingSaid
  <1> QED
    BY <1>4, <1>5, Zenon DEF CsvInv

LEMMA CsvReport ==
    ASSUME SerializerInv, NEW r \in Reports, NEW lost \in 0 .. Len(ndpi_dpi2json(r)),
           _doDPI(r, lost)
    PROVE  CsvInv'
  <1> DEFINE p == ndpi_dpi2json(r)
             u == ndpi_reset_serializer(ser["csv"])
  <1>1. /\ ser' = [f \in Formats |-> Run(ndpi_reset_serializer(ser[f]), p, lost)]
        /\ saved' = [saved EXCEPT !.sound = {}]
    BY Zenon DEF _doDPI
  <1>2. Sane(ser["csv"]) /\ ser["csv"].fmt = "csv" /\ "csv" \in Formats
    BY CsvStanding
  <1>3. ser'["csv"] = Run(u, p, lost)
    <2> HIDE DEF p
    <2> QED
      BY <1>1, <1>2
  <1>4. Balanced(p) /\ Known(p)
    BY ReportBalanced, ReportKnown
  <1>5. Sane(u) /\ u.fmt = "csv" /\ GoodCsv(u, "skip" \in marks')
    BY <1>2, CsvReset
  <1> HIDE DEF p, u
  <1>6. GoodCsv(ser'["csv"], "skip" \in marks')
    BY <1>3, <1>4, <1>5, RunCsv
  <1>7. saved'.sound = {}
    BY <1>1, NothingSaid
  <1> QED
    BY <1>6, <1>7, Zenon DEF CsvInv

LEMMA CsvSnapshot ==
    ASSUME SerializerInv, CsvInv, Snapshot
    PROVE  CsvInv'
  <1> DEFINE s == ser["csv"]
             t == ndpi_serializer_create_snapshot(s)
             b == Back(t)
             k == "skip" \in marks
  <1>1. ser' = [f \in Formats |-> ndpi_serializer_create_snapshot(ser[f])] /\ marks' = marks
    BY DEF Snapshot
  <1>2. Sane(s) /\ s.fmt = "csv" /\ "csv" \in Formats
    BY CsvStanding
  <1>3. ser'["csv"] = t
    BY <1>1, <1>2
  <1>4. /\ Sane(t) /\ CanReturn(t) /\ t.snapshot = Status(s)
        /\ t.flags = s.flags /\ t.used = s.used /\ t.hused = s.hused
        /\ t.data = s.data /\ t.header = s.header
    BY <1>2, SnapshotFacts
  <1> HIDE DEF t
  <1>5. /\ Sane(b) /\ b.flags = t.snapshot.flags /\ b.used = t.snapshot.used
        /\ b.hused = t.snapshot.hused /\ b.data = t.data /\ b.header = t.header
    BY <1>4, BackFacts DEF Sane
  <1>6. b.flags = s.flags /\ b.used = s.used /\ b.hused = s.hused
        /\ b.data = s.data /\ b.header = s.header
    BY <1>4, <1>5 DEF Status
  <1> HIDE DEF b, s, k
  <1>7. ASSUME GoodCsv(s, k)
        PROVE  GoodCsv(t, k) /\ GoodCsv(b, k)
    <2>1. GoodCsv(t, k)
      BY <1>2, <1>4, <1>7, GoodCsvSame
    <2>2. GoodCsv(b, k)
      BY <1>2, <1>5, <1>6, <1>7, GoodCsvSame
    <2> QED
      BY <2>1, <2>2
  <1>8. "raw" \notin marks => GoodCsv(s, k)
    BY DEF CsvInv, s, k
  <1> QED
    BY <1>1, <1>3, <1>7, <1>8, Zenon DEF CsvInv, b, k

LEMMA CsvRollback ==
    ASSUME SerializerInv, CsvInv, Rollback
    PROVE  CsvInv'
  <1> DEFINE s == ser["csv"]
             k == "skip" \in marks
  <1>1. /\ ser' = [f \in Formats |-> ndpi_serializer_rollback_snapshot(ser[f])]
        /\ saved.sound # {} /\ saved' = NothingSaved
        /\ marks' = (IF "json" \in saved.sound THEN marks ELSE marks \cup {"cut"})
    BY DEF Rollback
  <1>2. InBuffer(s) /\ s.fmt = "csv" /\ "csv" \in Formats /\ CanReturn(s)
    BY <1>1, CsvStanding DEF Sane
  <1>3. ser'["csv"] = Back(s)
    <2>1. ser'["csv"] = ndpi_serializer_rollback_snapshot(s)
      BY <1>1, <1>2
    <2>2. s.fmt # "json"
      BY <1>2
    <2> HIDE DEF s
    <2>3. ndpi_serializer_rollback_snapshot(s) = Back(s)
      BY <1>2, <2>2, BackFacts
    <2> QED
      BY <2>1, <2>3
  <1>4. ("raw" \in marks' <=> "raw" \in marks) /\ ("skip" \in marks' <=> k)
    BY <1>1
  <1>5. saved'.sound = {}
    BY <1>1 DEF NothingSaved
  <1>6. "raw" \notin marks => GoodCsv(Back(s), k)
    BY <1>1, Zenon DEF CsvInv
  <1>7. "raw" \notin marks' => GoodCsv(ser'["csv"], "skip" \in marks')
    <2>1. CASE k
      <3>1. ("skip" \in marks') = TRUE /\ k = TRUE
        BY <1>4, <2>1
      <3> QED
        BY <1>3, <1>4, <1>6, <3>1, Zenon
    <2>2. CASE ~k
      <3>1. ("skip" \in marks') = FALSE /\ k = FALSE
        BY <1>4, <2>2
      <3> QED
        BY <1>3, <1>4, <1>6, <3>1, Zenon
    <2> QED
      BY <2>1, <2>2
  <1> QED
    BY <1>5, <1>7, Zenon DEF CsvInv

LEMMA CsvInit ==
    ASSUME Init
    PROVE  CsvInv
  <1>1. ser = [f \in Formats |-> ndpi_init_serializer_ll(f)] /\ saved = NothingSaved
    BY DEF Init
  <1>2. "csv" \in Formats
    BY DEF Formats
  <1> DEFINE t == ndpi_init_serializer_ll("csv")
  <1>3. ser["csv"] = t
    BY <1>1, <1>2
  <1>4. Sane(t) /\ t.flags = {} /\ t.used = 0 /\ t.hused = 0
    BY <1>2, NewFacts
  <1> HIDE DEF t
  <1>5. GoodCsv(t, "skip" \in marks)
    BY <1>4, EmptyCsv
  <1>6. saved.sound = {}
    BY <1>1 DEF NothingSaved
  <1> QED
    BY <1>3, <1>5, <1>6, Zenon DEF CsvInv

\* What the reader finds in a text that has its columns.
LEMMA CsvReads ==
    ASSUME NEW d \in Seq(Cell), NEW m \in Nat, m <= Len(d), NEW lines \in Seq(Nat), NEW n \in Nat,
           CsvStates(d)[m] = OnLine(lines, n)
    PROVE  CsvFields(SubSeq(d, 1, m)) = Append(lines, n)
  <1> DEFINE e == SubSeq(d, 1, m)
             end == CsvStates(e)[Len(e)]
  <1>1. e \in Seq(Cell) /\ Len(e) = m /\ \A i \in 1 .. m : e[i] = d[i]
    BY Prefix
  <1> HIDE DEF e
  <1>2. end = OnLine(lines, n)
    <2>1. CsvStates(e)[m] = CsvStates(d)[m]
      <3>1. m <= Len(e)
        BY <1>1
      <3> QED
        BY <1>1, <3>1, CsvKept
    <2> QED
      BY <1>1, <2>1, Zenon
  <1>3. end.lines = lines /\ end.fields = n /\ end.comma = FALSE
    BY <1>2 DEF OnLine
  <1>4. CsvFields(e) = Append(end.lines, IF end.comma THEN -1 ELSE end.fields)
    BY Zenon DEF CsvFields
  <1>5. (IF end.comma THEN -1 ELSE end.fields) = n
    BY <1>3, Zenon
  <1> HIDE DEF end
  <1>6. CsvFields(e) = Append(lines, n)
    BY <1>3, <1>4, <1>5, Zenon
  <1> QED
    BY <1>6 DEF e

LEMMA CsvShows ==
    ASSUME NEW s, Sane(s), s.fmt = "csv", NEW skip, HasColumns(s, skip)
    PROVE  LET fields == CsvFields(ndpi_serializer_get_buffer(s))
           IN  /\ \A i \in 1 .. Len(fields) : fields[i] >= 0
               /\ ~skip => CsvFields(ndpi_serializer_get_header(s)) = <<fields[1]>>
  <1> DEFINE fields == CsvFields(ndpi_serializer_get_buffer(s))
             empty == <<>>
  <1>1. PICK lines \in Seq(Nat), n \in Nat : CsvIs(s, lines, n, skip)
    BY DEF HasColumns
  <1>2. /\ s.data \in Seq(Cell) /\ s.header \in Seq(Cell) /\ s.used \in Nat /\ s.hused \in Nat
        /\ s.used <= Len(s.data) /\ s.hused <= Len(s.header)
    BY DEF Sane, InBuffer, Serializers
  <1>3. ndpi_serializer_get_buffer(s) = SubSeq(s.data, 1, s.used)
    <2>1. s.fmt # "json"
      OBVIOUS
    <2> QED
      BY <2>1, Zenon DEF ndpi_serializer_get_buffer, Used
  <1>4. CsvStates(s.data)[s.used] = OnLine(lines, n)
    BY <1>1, Zenon DEF CsvIs, CsvEnd
  <1>5. fields = Append(lines, n)
    <2>1. CsvFields(SubSeq(s.data, 1, s.used)) = Append(lines, n)
      BY <1>2, <1>4, CsvReads
    <2> QED
      BY <1>3, <2>1
  <1> HIDE DEF fields
  <1>6. \A i \in 1 .. Len(fields) : fields[i] >= 0
    <2>1. fields \in Seq(Nat)
      BY <1>5
    <2> QED
      BY <2>1
  <1>7. fields[1] = FirstLine(lines, n) /\ FirstLine(lines, n) \in Nat
    <2>1. /\ lines = <<>> => Append(lines, n)[1] = n
          /\ lines # <<>> => Append(lines, n)[1] = lines[1] /\ lines[1] \in Nat
      BY AppendFirst
    <2> QED
      BY <1>5, <2>1 DEF FirstLine
  <1>8. ASSUME ~skip
        PROVE  CsvFields(ndpi_serializer_get_header(s)) = <<fields[1]>>
    <2> DEFINE m == FirstLine(lines, n)
    <2>1. CsvStates(s.header)[s.hused] = OnLine(empty, m)
      BY <1>1, <1>8, Zenon DEF CsvIs, CsvHead
    <2>2. m \in Nat /\ empty \in Seq(Nat)
      BY <1>7
    <2> HIDE DEF m, empty
    <2>3. CsvFields(SubSeq(s.header, 1, s.hused)) = Append(empty, m)
      BY <1>2, <2>1, <2>2, CsvReads
    <2>4. Append(empty, m) = <<m>>
      BY <2>2 DEF empty
    <2> QED
      BY <1>7, <2>3, <2>4, Zenon DEF ndpi_serializer_get_header, m
  <1> QED
    BY <1>6, <1>8 DEF fields

\* The reader of the text sees a lost separator.
LEMMA LostShows ==
    ASSUME NEW s, Sane(s), s.fmt = "csv", Lost(s)
    PROVE  SeparatorLost(ndpi_serializer_get_buffer(s))
  <1> DEFINE e == SubSeq(s.data, 1, s.used)
  <1>1. /\ s.data \in Seq(Cell) /\ s.used \in Nat /\ s.used <= Len(s.data) /\ s.used > 1
    BY DEF Sane, InBuffer, Serializers, Lost
  <1>2. Len(e) = s.used /\ \A i \in 1 .. s.used : e[i] = s.data[i]
    BY <1>1, Prefix
  <1>3. ndpi_serializer_get_buffer(s) = e
    <2>1. s.fmt # "json"
      OBVIOUS
    <2> QED
      BY <2>1, Zenon DEF ndpi_serializer_get_buffer, Used
  <1> HIDE DEF e
  <1>4. e[1] = s.data[1] /\ e[2] = s.data[2] /\ Len(e) > 1
    BY <1>1, <1>2
  <1>5. SeparatorLost(e)
    BY <1>4, Zenon DEF SeparatorLost, Lost
  <1> QED
    BY <1>3, <1>5

\* The CSV text has as many names in its header as fields in its first line,
\* and on every line a separator between any two fields and nowhere else,
\* after every call and every report: what ndpi_serialize_csv_pre asks of
\* size_used and of the flags is enough to know where a line begins, also
\* after a call without memory and after a rollback over the end of a record,
\* as long as the first value of the first line has a byte or stands alone.
THEOREM CsvTextHasColumns == Spec => []CsvColumns
  <1>1. Init => CsvInv
    BY CsvInit
  <1>2. SerializerInv /\ CsvInv /\ [Next]_vars => CsvInv'
    <2> SUFFICES ASSUME SerializerInv, CsvInv, [Next]_vars
                 PROVE  CsvInv'
      OBVIOUS
    <2>1. CASE \E c \in caller.calls, mem \in Memory : Serialize(c, mem)
      BY <2>1, CsvSerialize
    <2>2. CASE Reset
      BY <2>2, CsvResetStep
    <2>3. CASE SkipHeader
      BY <2>3, CsvSkip
    <2>4. CASE Snapshot
      BY <2>4, CsvSnapshot
    <2>5. CASE Rollback
      BY <2>5, CsvRollback
    <2>6. CASE \E r \in Reports : \E lost \in 0 .. Len(ndpi_dpi2json(r)) : _doDPI(r, lost)
      BY <2>6, CsvReport
    <2>7. CASE UNCHANGED vars
      BY <2>7, Zenon DEF CsvInv, vars
    <2> QED
      BY <2>1, <2>2, <2>3, <2>4, <2>5, <2>6, <2>7, Zenon DEF Next
  <1>3. SerializerInv /\ CsvInv => CsvColumns
    <2> SUFFICES ASSUME SerializerInv, CsvInv, "raw" \notin marks, ~SeparatorLost(Text["csv"])
                 PROVE  LET fields == CsvFields(Text["csv"])
                        IN  /\ \A i \in 1 .. Len(fields) : fields[i] >= 0
                            /\ "skip" \notin marks =>
                                 CsvFields(ndpi_serializer_get_header(ser["csv"])) = <<fields[1]>>
      BY DEF CsvColumns
    <2> DEFINE s == ser["csv"]
               k == "skip" \in marks
    <2>1. Sane(s) /\ s.fmt = "csv" /\ "csv" \in Formats
      BY CsvStanding
    <2>2. Text["csv"] = ndpi_serializer_get_buffer(s)
      BY <2>1, TextFacts
    <2>3. GoodCsv(s, k)
      BY Zenon DEF CsvInv
    <2> HIDE DEF s, k
    <2>5. HasColumns(s, k)
      BY <2>1, <2>2, <2>3, LostShows, Zenon DEF GoodCsv, s
    <2>4. LET fields == CsvFields(ndpi_serializer_get_buffer(s))
          IN  /\ \A i \in 1 .. Len(fields) : fields[i] >= 0
              /\ ~k => CsvFields(ndpi_serializer_get_header(s)) = <<fields[1]>>
      BY <2>1, <2>5, CsvShows
    <2> QED
      BY <2>2, <2>4, Zenon DEF s, k
  <1> QED
    BY <1>1, <1>2, <1>3, SerializerInvariant, PTL DEF Spec
=============================================================================
