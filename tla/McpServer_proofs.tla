-------------------------- MODULE McpServer_proofs --------------------------
(***************************************************************************)
(* The stdio loop reads every stream of frames as its peer sent it, of any *)
(* length and cut anywhere.                                                *)
(***************************************************************************)
EXTENDS McpServer, WellFoundedInduction, SequenceTheorems, FiniteSetTheorems, TLAPS

-----------------------------------------------------------------------------
(* Induction over the naturals, from the well-foundedness of their order.  *)

Less == {pair \in Nat \X Nat : pair[1] < pair[2]}

\* The order of the naturals as a relation.
LEMMA LessWellFounded == IsWellFoundedOn(Less, Nat)
<1>1. Less = OpToRel(<, Nat)
  BY DEF Less, OpToRel
<1> QED BY <1>1, NatLessThanWellFounded

\* A set of naturals that is not empty has a least element.
LEMMA LeastNatural ==
    ASSUME NEW T, T \subseteq Nat, T # {}
    PROVE  \E x \in T : \A y \in T : x <= y
<1>1. PICK x \in T : \A y \in T : ~ (<<y, x>> \in Less)
  BY LessWellFounded, WFMin
<1>2. \A y \in T : y < x => <<y, x>> \in Less
  BY DEF Less
<1>3. \A y \in T : ~ (y < x)
  BY <1>1, <1>2
<1> QED BY <1>3

\* A set that holds zero and every successor of its naturals holds them all.
LEMMA Induction ==
    ASSUME NEW S, 0 \in S, \A n \in Nat : n \in S => n + 1 \in S
    PROVE  \A n \in Nat : n \in S
<1> DEFINE T == Nat \ S
<1> SUFFICES ASSUME T # {} PROVE FALSE
  OBVIOUS
<1>1. PICK x \in T : \A y \in T : x <= y
  BY LeastNatural
<1>2. x - 1 \in Nat /\ x - 1 < x /\ (x - 1) + 1 = x
  BY <1>1
<1> QED BY <1>1, <1>2

-----------------------------------------------------------------------------
(* What FlattenSeq computes.                                               *)

\* The prefixes of a sequence of sequences up to the n-th, flattened.
Partials(f, s, n) ==
    /\ DOMAIN f = 1 .. n
    /\ \A i \in 1 .. n : f[i] = IF i = 1 THEN s[i] ELSE f[i - 1] \o s[i]

\* They exist.
LEMMA PartialsExist == ASSUME NEW X, NEW s \in Seq(X) PROVE \E f : Partials(f, s, Len(s))
<1> DEFINE S == {n \in Nat : \E f : Partials(f, s, n)}
<1>1. 0 \in S
  <2>1. Partials([i \in 1 .. 0 |-> s], s, 0)
    BY DEF Partials
  <2> QED BY <2>1
<1>2. ASSUME NEW n \in Nat, n \in S PROVE n + 1 \in S
  <2>1. PICK f : Partials(f, s, n)
    BY <1>2
  <2> DEFINE g == [i \in 1 .. n + 1 |-> IF i = n + 1
                     THEN IF i = 1 THEN s[i] ELSE f[n] \o s[i]
                     ELSE f[i]]
  <2>2. DOMAIN g = 1 .. n + 1
    OBVIOUS
  <2>3. ASSUME NEW i \in 1 .. n + 1
        PROVE  g[i] = IF i = 1 THEN s[i] ELSE g[i - 1] \o s[i]
    <3>1. CASE i = n + 1
      <4>1. CASE n = 0
        BY <3>1, <4>1
      <4>2. CASE n # 0
        <5>1. g[i - 1] = f[n] /\ i # 1
          BY <3>1, <4>2
        <5> QED BY <3>1, <5>1
      <4> QED BY <4>1, <4>2
    <3>2. CASE i # n + 1
      <4>1. i \in 1 .. n /\ g[i] = f[i]
        BY <3>2
      <4>2. i # 1 => g[i - 1] = f[i - 1]
        BY <4>1
      <4> QED BY <2>1, <4>1, <4>2 DEF Partials
    <3> QED BY <3>1, <3>2
  <2>4. Partials(g, s, n + 1)
    BY <2>2, <2>3 DEF Partials
  <2> QED BY <2>4
<1> HIDE DEF S
<1>3. Len(s) \in S
  BY <1>1, <1>2, Induction
<1> QED BY <1>3 DEF S

\* There is one of each.
LEMMA PartialsUnique ==
    ASSUME NEW X, NEW s \in Seq(X), NEW f, NEW g, NEW n \in 0 .. Len(s),
           Partials(f, s, n), Partials(g, s, Len(s))
    PROVE  \A i \in 1 .. n : f[i] = g[i]
<1> DEFINE S == {i \in Nat : i \in 1 .. n => f[i] = g[i]}
<1>1. 0 \in S
  OBVIOUS
<1>2. ASSUME NEW i \in Nat, i \in S PROVE i + 1 \in S
  <2> SUFFICES ASSUME i + 1 \in 1 .. n PROVE f[i + 1] = g[i + 1]
    OBVIOUS
  <2>1. i + 1 \in 1 .. Len(s)
    OBVIOUS
  <2>2. CASE i = 0
    <3>1. 1 \in 1 .. n /\ 1 \in 1 .. Len(s)
      BY <2>1, <2>2
    <3>2. f[1] = s[1] /\ g[1] = s[1]
      BY <3>1 DEF Partials
    <3> QED BY <2>2, <3>2
  <2>3. CASE i # 0
    <3>1. i \in 1 .. n /\ (i + 1) - 1 = i /\ i + 1 # 1
      BY <2>3
    <3>2. f[i] = g[i]
      BY <1>2, <3>1
    <3>3. f[i + 1] = f[i] \o s[i + 1]
      BY <3>1 DEF Partials
    <3>4. g[i + 1] = g[i] \o s[i + 1]
      BY <2>1, <3>1 DEF Partials
    <3> QED BY <3>2, <3>3, <3>4
  <2> QED BY <2>2, <2>3
<1> HIDE DEF S
<1>3. \A i \in Nat : i \in S
  BY <1>1, <1>2, Induction
<1> QED BY <1>3 DEF S

\* FlattenSeq of a prefix is the prefix flattened.
LEMMA FlattenPrefix ==
    ASSUME NEW X, NEW s \in Seq(X), NEW g, Partials(g, s, Len(s)), NEW n \in 1 .. Len(s),
           NEW p, Len(p) = n, \A i \in 1 .. n : p[i] = s[i]
    PROVE  FlattenSeq(p) = g[n]
<1> DEFINE Is(f) == f = [i \in 1 .. Len(p) |-> IF i = 1 THEN p[i] ELSE f[i - 1] \o p[i]]
<1>1. \E f : Is(f)
  <2> DEFINE h == [i \in 1 .. n |-> g[i]]
  <2>1. h = [i \in 1 .. Len(p) |-> IF i = 1 THEN p[i] ELSE h[i - 1] \o p[i]]
    <3>1. \A i \in 1 .. n : h[i] = IF i = 1 THEN p[i] ELSE h[i - 1] \o p[i]
      <4> SUFFICES ASSUME NEW i \in 1 .. n
                   PROVE  g[i] = IF i = 1 THEN s[i] ELSE h[i - 1] \o s[i]
        OBVIOUS
      <4>1. i \in 1 .. Len(s) /\ (i # 1 => h[i - 1] = g[i - 1])
        OBVIOUS
      <4> QED BY <4>1 DEF Partials
    <3> QED BY <3>1
  <2> QED BY <2>1
<1> DEFINE c == CHOOSE f : Is(f)
<1>2. Is(c)
  BY <1>1
<1>3. FlattenSeq(p) = c[n]
  BY DEF FlattenSeq
<1>4. Partials(c, s, n)
  <2>1. c = [i \in 1 .. n |-> IF i = 1 THEN p[i] ELSE c[i - 1] \o p[i]]
    BY <1>2
  <2> HIDE DEF c
  <2>2. DOMAIN c = 1 .. n /\ \A i \in 1 .. n : c[i] = IF i = 1 THEN p[i] ELSE c[i - 1] \o p[i]
    BY <2>1
  <2> QED BY <2>2 DEF Partials
<1> HIDE DEF c
<1>5. c[n] = g[n]
  <2>1. n \in 0 .. Len(s) /\ n \in 1 .. n
    OBVIOUS
  <2>2. \A i \in 1 .. n : c[i] = g[i]
    BY <1>4, <2>1, PartialsUnique
  <2> QED BY <2>1, <2>2
<1> QED BY <1>3, <1>5

\* Two sequences joined.
LEMMA Concat ==
    ASSUME NEW X, NEW a \in Seq(X), NEW b \in Seq(X)
    PROVE  /\ a \o b \in Seq(X) /\ Len(a \o b) = Len(a) + Len(b)
           /\ \A i \in 1 .. Len(a) : (a \o b)[i] = a[i]
           /\ \A i \in 1 .. Len(b) : (a \o b)[Len(a) + i] = b[i]
  OBVIOUS

-----------------------------------------------------------------------------
(* The shape of the stream.                                                *)

AllBytes == [of : Numbers, part : {"name", "number", "cr", "lf", "body"}]

\* The i-th part of any frame.
PartAt(i) == CASE i = 1 -> "name" [] i = 2 -> "number" [] i = 3 -> "cr" [] i = 4 -> "lf"
               [] OTHER -> "body"

Size(f) == 4 + frames[f].size

\* The bytes of the stream up to the end of a frame.
End(f) == Len(FlattenSeq([g \in 1 .. f |-> Bytes(g)]))

\* The frames follow one another, each at its place.
StreamShape ==
    /\ Stream \in Seq(AllBytes) /\ Len(Stream) = End(Len(frames))
    /\ End(0) = 0
    /\ \A f \in Numbers : /\ End(f - 1) \in Nat /\ End(f) = End(f - 1) + Size(f)
                          /\ End(f) <= Len(Stream)
    /\ \A f \in Numbers : \A i \in 1 .. Size(f) :
         Stream[End(f - 1) + i] = [of |-> f, part |-> PartAt(i)]

\* What the assumption says of the frames of one peer.
LEMMA FramesType ==
    ASSUME frames \in Streams
    PROVE  /\ Len(frames) \in Nat /\ Numbers = 1 .. Len(frames)
           /\ \A f \in Numbers :
                /\ frames[f].kind \in FrameKinds /\ frames[f].length \in BOOLEAN
                /\ frames[f].size \in Nat /\ Size(f) \in Nat /\ Size(f) >= 4
                /\ frames[f].size = 0 => frames[f].kind = "invalid"
<1>1. frames \in Seq([kind : FrameKinds, length : BOOLEAN, size : Nat])
  BY FramesAssumption
<1>2. \A f \in Numbers : frames[f].size = 0 => frames[f].kind = "invalid"
  BY FramesAssumption DEF Numbers
<1>3. Len(frames) \in Nat /\ Numbers = 1 .. Len(frames)
  BY <1>1 DEF Numbers
<1>4. \A f \in Numbers : frames[f] \in [kind : FrameKinds, length : BOOLEAN, size : Nat]
  BY <1>1, <1>3, ElementOfSeq
<1> QED BY <1>2, <1>3, <1>4 DEF Size

\* The bytes of one frame.
LEMMA BytesShape ==
    ASSUME frames \in Streams, NEW f \in Numbers
    PROVE  /\ Bytes(f) \in Seq(AllBytes) /\ Len(Bytes(f)) = Size(f)
           /\ \A i \in 1 .. Size(f) : Bytes(f)[i] = [of |-> f, part |-> PartAt(i)]
<1> DEFINE head == <<[of |-> f, part |-> "name"], [of |-> f, part |-> "number"],
                     [of |-> f, part |-> "cr"], [of |-> f, part |-> "lf"]>>
           body == [i \in 1 .. frames[f].size |-> [of |-> f, part |-> "body"]]
<1>1. frames[f].size \in Nat
  BY FramesType
<1>2. head \in Seq(AllBytes) /\ Len(head) = 4
  BY DEF AllBytes
<1>3. body \in Seq(AllBytes) /\ Len(body) = frames[f].size
  <2>1. [of |-> f, part |-> "body"] \in AllBytes
    BY DEF AllBytes
  <2> QED BY <1>1, <2>1
<1>4. Bytes(f) = head \o body
  BY DEF Bytes
<1>5. \A i \in 1 .. 4 : head[i] = [of |-> f, part |-> PartAt(i)]
  BY DEF PartAt
<1>6. \A i \in 1 .. frames[f].size : body[i] = [of |-> f, part |-> PartAt(i + 4)]
  BY <1>1 DEF PartAt
<1> HIDE DEF head, body
<1>7. /\ Bytes(f) \in Seq(AllBytes) /\ Len(Bytes(f)) = 4 + frames[f].size
      /\ \A i \in 1 .. 4 : Bytes(f)[i] = head[i]
      /\ \A i \in 1 .. frames[f].size : Bytes(f)[4 + i] = body[i]
  <2>1. /\ head \o body \in Seq(AllBytes) /\ Len(head \o body) = Len(head) + Len(body)
        /\ \A i \in 1 .. Len(head) : (head \o body)[i] = head[i]
        /\ \A i \in 1 .. Len(body) : (head \o body)[Len(head) + i] = body[i]
    <3>1. head \in Seq(AllBytes) /\ body \in Seq(AllBytes)
      BY <1>2, <1>3
    <3> QED BY <3>1, Concat
  <2> QED BY <1>2, <1>3, <1>4, <2>1
<1>8. ASSUME NEW i \in 1 .. Size(f) PROVE Bytes(f)[i] = [of |-> f, part |-> PartAt(i)]
  <2>1. CASE i <= 4
    BY <2>1, <1>5, <1>7
  <2>2. CASE i > 4
    <3>1. i - 4 \in 1 .. frames[f].size /\ (i - 4) + 4 = i /\ 4 + (i - 4) = i
      BY <2>2, <1>1 DEF Size
    <3>2. Bytes(f)[i] = body[i - 4]
      BY <3>1, <1>7
    <3>3. body[i - 4] = [of |-> f, part |-> PartAt((i - 4) + 4)]
      BY <3>1, <1>6
    <3> QED BY <3>1, <3>2, <3>3
  <2> QED BY <2>1, <2>2, <1>1 DEF Size
<1> QED BY <1>7, <1>8 DEF Size

\* The stream has its shape.
LEMMA StreamHasShape == ASSUME frames \in Streams PROVE StreamShape
<1> DEFINE s == [f \in Numbers |-> Bytes(f)]
           N == Len(frames)
<1>1. N \in Nat /\ Numbers = 1 .. N
  BY FramesType
<1>2. s \in Seq(Seq(AllBytes)) /\ Len(s) = N /\ \A f \in Numbers : s[f] = Bytes(f)
  BY <1>1, BytesShape
<1>3. PICK g : Partials(g, s, Len(s))
  BY <1>2, PartialsExist
<1> HIDE DEF s
<1>4. ASSUME NEW n \in 1 .. N PROVE FlattenSeq([f \in 1 .. n |-> Bytes(f)]) = g[n]
  <2> DEFINE p == [f \in 1 .. n |-> Bytes(f)]
  <2>1. Len(p) = n /\ \A i \in 1 .. n : p[i] = s[i]
    BY <1>1, <1>2
  <2>2. n \in 1 .. Len(s)
    BY <1>2
  <2> HIDE DEF p
  <2>3. FlattenSeq(p) = g[n]
    BY <1>2, <1>3, <2>1, <2>2, FlattenPrefix
  <2> QED BY <2>3 DEF p
<1>5. \A n \in 1 .. N : End(n) = Len(g[n])
  BY <1>4 DEF End
<1>6. End(0) = 0
  BY DEF End, FlattenSeq
<1>7. N # 0 => Stream = g[N]
  <2> SUFFICES ASSUME N # 0 PROVE Stream = g[N]
    OBVIOUS
  <2>1. FlattenSeq([f \in 1 .. N |-> Bytes(f)]) = g[N]
    BY <1>1, <1>4
  <2> QED BY <1>1, <2>1 DEF Stream
<1>8. N = 0 => Stream = <<>>
  BY <1>1 DEF Stream, FlattenSeq
<1> DEFINE S == {n \in Nat : n \in 1 .. N =>
                  /\ g[n] \in Seq(AllBytes)
                  /\ \A f \in 1 .. n : /\ End(f - 1) \in Nat
                                        /\ End(f) = End(f - 1) + Size(f)
                                        /\ End(f) <= Len(g[n])
                                        /\ \A i \in 1 .. Size(f) :
                                             g[n][End(f - 1) + i] = [of |-> f, part |-> PartAt(i)]}
<1>9. 0 \in S
  OBVIOUS
<1>10. ASSUME NEW n \in Nat, n \in S PROVE n + 1 \in S
  <2> SUFFICES ASSUME n + 1 \in 1 .. N
               PROVE  /\ g[n + 1] \in Seq(AllBytes)
                      /\ \A f \in 1 .. n + 1 :
                           /\ End(f - 1) \in Nat
                           /\ End(f) = End(f - 1) + Size(f)
                           /\ End(f) <= Len(g[n + 1])
                           /\ \A i \in 1 .. Size(f) :
                                g[n + 1][End(f - 1) + i] = [of |-> f, part |-> PartAt(i)]
    OBVIOUS
  <2>1. /\ Bytes(n + 1) \in Seq(AllBytes) /\ Len(Bytes(n + 1)) = Size(n + 1)
        /\ \A i \in 1 .. Size(n + 1) :
             Bytes(n + 1)[i] = [of |-> n + 1, part |-> PartAt(i)]
        /\ Size(n + 1) \in Nat
    BY <1>1, BytesShape, FramesType
  <2>2. CASE n = 0
    <3>1. g[1] = Bytes(1)
      <4>1. 1 \in 1 .. Len(s) /\ 1 \in Numbers
        BY <1>1, <1>2, <2>2
      <4> QED BY <1>2, <1>3, <4>1 DEF Partials
    <3>2. End(1) = Size(1) /\ End(1 - 1) = 0
      BY <1>5, <1>6, <2>1, <2>2, <3>1
    <3> QED BY <2>1, <2>2, <3>1, <3>2
  <2>3. CASE n # 0
    <3>1. n \in 1 .. N /\ (n + 1) - 1 = n /\ n + 1 # 1
      BY <2>3
    <3>2. /\ g[n] \in Seq(AllBytes)
          /\ \A f \in 1 .. n : /\ End(f - 1) \in Nat
                                /\ End(f) = End(f - 1) + Size(f)
                                /\ End(f) <= Len(g[n])
                                /\ \A i \in 1 .. Size(f) :
                                     g[n][End(f - 1) + i] = [of |-> f, part |-> PartAt(i)]
      BY <1>10, <3>1
    <3>3. g[n + 1] = g[n] \o Bytes(n + 1)
      BY <1>1, <1>2, <1>3, <3>1 DEF Partials
    <3>4. /\ g[n + 1] \in Seq(AllBytes) /\ Len(g[n + 1]) = Len(g[n]) + Size(n + 1)
          /\ \A i \in 1 .. Len(g[n]) : g[n + 1][i] = g[n][i]
          /\ \A i \in 1 .. Size(n + 1) : g[n + 1][Len(g[n]) + i] = Bytes(n + 1)[i]
      <4> DEFINE a == g[n]
                 b == Bytes(n + 1)
      <4>1. a \in Seq(AllBytes) /\ b \in Seq(AllBytes) /\ Len(b) = Size(n + 1)
        BY <2>1, <3>2
      <4>2. g[n + 1] = a \o b
        BY <3>3
      <4> HIDE DEF a, b
      <4>3. /\ a \o b \in Seq(AllBytes) /\ Len(a \o b) = Len(a) + Len(b)
            /\ \A i \in 1 .. Len(a) : (a \o b)[i] = a[i]
            /\ \A i \in 1 .. Len(b) : (a \o b)[Len(a) + i] = b[i]
        BY <4>1, Concat
      <4>4. /\ g[n + 1] \in Seq(AllBytes) /\ Len(g[n + 1]) = Len(a) + Size(n + 1)
            /\ \A i \in 1 .. Len(a) : g[n + 1][i] = a[i]
            /\ \A i \in 1 .. Size(n + 1) : g[n + 1][Len(a) + i] = b[i]
        BY <4>1, <4>2, <4>3
      <4> QED BY <4>4 DEF a, b
    <3>5. End(n) = Len(g[n]) /\ End(n + 1) = End(n) + Size(n + 1) /\ End(n) \in Nat
      <4>1. n + 1 \in 1 .. N /\ Len(g[n]) \in Nat
        BY <3>2
      <4> QED BY <1>5, <3>1, <3>4, <4>1
    <3>6. ASSUME NEW f \in 1 .. n
          PROVE  /\ End(f - 1) \in Nat /\ End(f) = End(f - 1) + Size(f)
                 /\ End(f) <= Len(g[n + 1])
                 /\ \A i \in 1 .. Size(f) :
                      g[n + 1][End(f - 1) + i] = [of |-> f, part |-> PartAt(i)]
      <4>1. End(f - 1) \in Nat /\ Size(f) \in Nat /\ Size(f) >= 4
        <5>1. f \in Numbers
          BY <1>1, <3>1
        <5> QED BY <3>2, <5>1, FramesType
      <4>2. ASSUME NEW i \in 1 .. Size(f)
            PROVE  g[n + 1][End(f - 1) + i] = g[n][End(f - 1) + i]
        <5>1. End(f - 1) + i \in 1 .. Len(g[n])
          BY <3>2, <3>5, <4>1
        <5> QED BY <3>4, <5>1
      <4>3. Len(g[n]) <= Len(g[n + 1])
        BY <2>1, <3>4, <3>5
      <4>4. Len(g[n]) \in Nat /\ Len(g[n + 1]) \in Nat /\ End(f) \in Nat
        BY <3>2, <3>4, <4>1
      <4>5. /\ End(f) = End(f - 1) + Size(f) /\ End(f) <= Len(g[n])
            /\ \A i \in 1 .. Size(f) : g[n][End(f - 1) + i] = [of |-> f, part |-> PartAt(i)]
        BY <3>2
      <4>6. End(f) <= Len(g[n + 1])
        BY <4>3, <4>4, <4>5
      <4> QED BY <4>1, <4>2, <4>5, <4>6
    <3>7. \A i \in 1 .. Size(n + 1) :
            g[n + 1][End(n) + i] = [of |-> n + 1, part |-> PartAt(i)]
      <4> SUFFICES ASSUME NEW i \in 1 .. Size(n + 1)
                   PROVE  g[n + 1][End(n) + i] = [of |-> n + 1, part |-> PartAt(i)]
        OBVIOUS
      <4> QED BY <2>1, <3>4, <3>5
    <3>8. \A f \in 1 .. n + 1 : f \in 1 .. n \/ f = n + 1
      OBVIOUS
    <3>9. End(n + 1) <= Len(g[n + 1])
      BY <2>1, <3>4, <3>5
    <3> QED BY <3>1, <3>4, <3>5, <3>6, <3>7, <3>8, <3>9
  <2> QED BY <2>2, <2>3
<1> HIDE DEF S
<1>11. N \in S
  BY <1>1, <1>9, <1>10, Induction
<1>12. CASE N = 0
  BY <1>1, <1>6, <1>8, <1>12 DEF StreamShape
<1>13. CASE N # 0
  <2>1. N \in 1 .. N
    BY <1>1, <1>13
  <2>2. /\ Stream = g[N] /\ End(N) = Len(g[N])
        /\ g[N] \in Seq(AllBytes)
        /\ \A f \in 1 .. N : /\ End(f - 1) \in Nat
                              /\ End(f) = End(f - 1) + Size(f)
                              /\ End(f) <= Len(g[N])
                              /\ \A i \in 1 .. Size(f) :
                                   g[N][End(f - 1) + i] = [of |-> f, part |-> PartAt(i)]
    BY <1>5, <1>7, <1>11, <1>13, <2>1 DEF S
  <2> QED BY <1>1, <1>6, <2>2 DEF StreamShape
<1> QED BY <1>12, <1>13

\* A frame ends no later than those behind it.
LEMMA EndsGrow ==
    ASSUME frames \in Streams
    PROVE  \A g \in 0 .. Len(frames) :
             /\ End(g) \in Nat
             /\ \A f \in 0 .. g : End(f) <= End(g)
<1> DEFINE N == Len(frames)
           S == {g \in Nat : g \in 0 .. N =>
                   End(g) \in Nat /\ \A f \in 0 .. g : End(f) <= End(g)}
<1>1. N \in Nat /\ Numbers = 1 .. N
  BY FramesType
<1>2. 0 \in S
  BY StreamHasShape DEF StreamShape
<1>3. ASSUME NEW g \in Nat, g \in S PROVE g + 1 \in S
  <2> SUFFICES ASSUME g + 1 \in 0 .. N
               PROVE  End(g + 1) \in Nat /\ \A f \in 0 .. g + 1 : End(f) <= End(g + 1)
    OBVIOUS
  <2>1. End(g) \in Nat /\ \A f \in 0 .. g : End(f) <= End(g)
    BY <1>3
  <2>2. g + 1 \in Numbers /\ (g + 1) - 1 = g
    BY <1>1
  <2>3. End(g + 1) = End(g) + Size(g + 1) /\ Size(g + 1) \in Nat
    BY <2>2, StreamHasShape, FramesType DEF StreamShape
  <2>4. ASSUME NEW f \in 0 .. g + 1 PROVE End(f) <= End(g + 1)
    <3>1. CASE f = g + 1
      BY <2>1, <2>3, <3>1
    <3>2. CASE f # g + 1
      <4>1. f \in 0 .. g
        BY <3>2
      <4>2. End(f) <= End(g) /\ End(f) \in Nat
        <5>1. f = (f + 1) - 1 /\ f + 1 \in Numbers
          BY <1>1, <4>1
        <5> QED BY <2>1, <4>1, <5>1, StreamHasShape DEF StreamShape
      <4> QED BY <2>1, <2>3, <4>2
    <3> QED BY <3>1, <3>2
  <2> QED BY <2>1, <2>3, <2>4
<1> HIDE DEF S
<1>4. \A g \in Nat : g \in S
  BY <1>2, <1>3, Induction
<1> QED BY <1>1, <1>4 DEF S

\* Where one frame ends before another, it is an earlier one.
LEMMA EarlierFrame ==
    ASSUME frames \in Streams, NEW f \in 0 .. Len(frames), NEW g \in 0 .. Len(frames),
           End(f) < End(g)
    PROVE  f < g
<1>1. CASE g <= f
  BY <1>1, EndsGrow, FramesType
<1> QED BY <1>1, FramesType

\* Every byte of the stream is one of a frame.
LEMMA EveryByteHasAFrame ==
    ASSUME frames \in Streams, NEW k \in 1 .. Len(Stream)
    PROVE  \E f \in Numbers : \E i \in 1 .. Size(f) : k = End(f - 1) + i
<1> DEFINE N == Len(frames)
           T == {f \in 0 .. N : k <= End(f)}
<1>1. N \in Nat /\ Numbers = 1 .. N
  BY FramesType
<1>2. Len(Stream) = End(N) /\ End(0) = 0 /\ Len(Stream) \in Nat
  BY <1>1, StreamHasShape DEF StreamShape
<1>3. N \in T
  BY <1>1, <1>2
<1>4. PICK x \in T : \A y \in T : x <= y
  <2>1. T \subseteq Nat /\ T # {}
    BY <1>1, <1>3
  <2> QED BY <2>1, LeastNatural
<1>5. x # 0
  BY <1>2, <1>4
<1>6. x \in Numbers /\ x - 1 \in 0 .. N /\ x - 1 \notin T
  BY <1>1, <1>4, <1>5
<1>7. End(x - 1) \in Nat /\ End(x) = End(x - 1) + Size(x) /\ Size(x) \in Nat
  BY <1>6, StreamHasShape, FramesType DEF StreamShape
<1>8. k - End(x - 1) \in 1 .. Size(x) /\ k = End(x - 1) + (k - End(x - 1))
  BY <1>4, <1>6, <1>7
<1> QED BY <1>6, <1>8

-----------------------------------------------------------------------------
(* What the loop reads in a stretch of the stream.                         *)

\* b is the stretch of the stream behind its first `from' bytes.
Stretch(b, from) ==
    /\ b \in Seq(AllBytes) /\ from \in Nat /\ from + Len(b) <= Len(Stream)
    /\ \A i \in 1 .. Len(b) : b[i] = Stream[from + i]

\* The places where a separator stands.
Ends(b) == {i \in 1 .. Len(b) - 1 : b[i].part = "cr" /\ b[i + 1].part = "lf"}

\* The parts of a frame are told apart by their places.
LEMMA PartsToldApart ==
    ASSUME NEW i \in Nat
    PROVE  /\ PartAt(i) = "name" <=> i = 1
           /\ PartAt(i) = "number" <=> i = 2
           /\ PartAt(i) = "cr" <=> i = 3
           /\ PartAt(i) = "lf" <=> i = 4
  BY DEF PartAt

\* Each byte of a stretch is the byte of a frame at its place.
LEMMA ByteOfStretch ==
    ASSUME frames \in Streams, NEW b, NEW from, Stretch(b, from), NEW i \in 1 .. Len(b)
    PROVE  \E f \in Numbers : \E k \in 1 .. Size(f) :
             from + i = End(f - 1) + k /\ b[i] = [of |-> f, part |-> PartAt(k)]
<1>1. from + i \in 1 .. Len(Stream) /\ b[i] = Stream[from + i]
  <2>1. Len(b) \in Nat /\ Len(Stream) \in Nat
    BY StreamHasShape DEF StreamShape, Stretch
  <2> QED BY <2>1 DEF Stretch
<1>2. PICK f \in Numbers : \E k \in 1 .. Size(f) : from + i = End(f - 1) + k
  BY <1>1, EveryByteHasAFrame
<1>3. PICK k \in 1 .. Size(f) : from + i = End(f - 1) + k
  BY <1>2
<1>4. Stream[End(f - 1) + k] = [of |-> f, part |-> PartAt(k)]
  BY StreamHasShape DEF StreamShape
<1> QED BY <1>1, <1>3, <1>4

\* The separator a stretch holds first is that of a frame, and the least.
LEMMA FirstSeparator ==
    ASSUME frames \in Streams, NEW b, NEW from, Stretch(b, from)
    PROVE  /\ SeparatorIndex(b) = 0 <=> Ends(b) = {}
           /\ Ends(b) # {} => /\ SeparatorIndex(b) \in Ends(b)
                              /\ \A j \in Ends(b) : SeparatorIndex(b) <= j
<1>1. Len(b) \in Nat
  BY DEF Stretch
<1>2. CASE Ends(b) = {}
  BY <1>2 DEF SeparatorIndex, Ends
<1>3. CASE Ends(b) # {}
  <2>1. Ends(b) \subseteq Nat /\ 0 \notin Ends(b)
    BY <1>1 DEF Ends
  <2>2. \E i \in Ends(b) : \A j \in Ends(b) : i <= j
    BY <1>3, <2>1, LeastNatural
  <2>3. SeparatorIndex(b) = CHOOSE i \in Ends(b) : \A j \in Ends(b) : i <= j
    BY <1>3 DEF SeparatorIndex, Ends
  <2>4. SeparatorIndex(b) \in Ends(b) /\ \A j \in Ends(b) : SeparatorIndex(b) <= j
    BY <2>2, <2>3
  <2> QED BY <1>3, <2>1, <2>4
<1> QED BY <1>2, <1>3

\* Where the blank line of a frame lies in the stretch there is a separator.
LEMMA BlankLineSeparates ==
    ASSUME frames \in Streams, NEW b, NEW from, Stretch(b, from), NEW g \in Numbers,
           from < End(g - 1) + 3, End(g - 1) + 4 <= from + Len(b)
    PROVE  (End(g - 1) + 3) - from \in Ends(b)
<1> DEFINE i == (End(g - 1) + 3) - from
<1>1. End(g - 1) \in Nat /\ Size(g) \in Nat /\ Size(g) >= 4
  BY StreamHasShape, FramesType DEF StreamShape
<1>2. from \in Nat /\ Len(b) \in Nat
  BY DEF Stretch
<1>3. i \in 1 .. Len(b) - 1 /\ i \in 1 .. Len(b) /\ i + 1 \in 1 .. Len(b)
  BY <1>1, <1>2
<1>4. from + i = End(g - 1) + 3 /\ from + (i + 1) = End(g - 1) + 4
  BY <1>1, <1>2
<1>5. /\ Stream[End(g - 1) + 3] = [of |-> g, part |-> PartAt(3)]
      /\ Stream[End(g - 1) + 4] = [of |-> g, part |-> PartAt(4)]
  <2>1. 3 \in 1 .. Size(g) /\ 4 \in 1 .. Size(g)
    BY <1>1
  <2> QED BY <2>1, StreamHasShape DEF StreamShape
<1> HIDE DEF i
<1>6. b[i] = [of |-> g, part |-> PartAt(3)] /\ b[i + 1] = [of |-> g, part |-> PartAt(4)]
  BY <1>3, <1>4, <1>5 DEF Stretch
<1>7. i \in Ends(b)
  BY <1>3, <1>6, PartsToldApart DEF Ends
<1> QED BY <1>7 DEF i

\* A separator is found at the blank line of a frame, and those of the frames
\* before are not in the stretch.
LEMMA SeparatorOfAFrame ==
    ASSUME frames \in Streams, NEW b, NEW from, Stretch(b, from), SeparatorIndex(b) # 0
    PROVE  \E f \in Numbers :
             /\ SeparatorIndex(b) \in 1 .. Len(b) - 1
             /\ from + SeparatorIndex(b) = End(f - 1) + 3
             /\ \A g \in Numbers : g < f => End(g - 1) + 3 <= from
<1> DEFINE s == SeparatorIndex(b)
<1>1. s \in Ends(b) /\ \A j \in Ends(b) : s <= j
  BY FirstSeparator
<1>2. s \in 1 .. Len(b) - 1 /\ s \in 1 .. Len(b) /\ b[s].part = "cr"
  BY <1>1 DEF Ends, Stretch
<1>3. PICK f \in Numbers : \E k \in 1 .. Size(f) :
        from + s = End(f - 1) + k /\ b[s] = [of |-> f, part |-> PartAt(k)]
  BY <1>2, ByteOfStretch
<1>4. PICK k \in 1 .. Size(f) :
        from + s = End(f - 1) + k /\ b[s] = [of |-> f, part |-> PartAt(k)]
  BY <1>3
<1>5. k = 3
  BY <1>2, <1>4, PartsToldApart
<1>6. ASSUME NEW g \in Numbers, g < f PROVE End(g - 1) + 3 <= from
  <2>1. End(g - 1) \in Nat /\ End(g) = End(g - 1) + Size(g) /\ Size(g) \in Nat /\ Size(g) >= 4
    BY StreamHasShape, FramesType DEF StreamShape
  <2>2. g \in 0 .. f - 1 /\ f - 1 \in 0 .. Len(frames)
    BY <1>6, FramesType
  <2>3. End(g) <= End(f - 1) /\ End(f - 1) \in Nat
    BY <2>2, EndsGrow
  <2>4. from \in Nat /\ Len(b) \in Nat
    BY DEF Stretch
  <2>5. CASE from < End(g - 1) + 3
    <3>1. End(g - 1) + 4 <= from + Len(b)
      BY <1>2, <1>4, <1>5, <2>1, <2>3, <2>4
    <3>2. (End(g - 1) + 3) - from \in Ends(b)
      BY <2>5, <3>1, BlankLineSeparates
    <3>3. s <= (End(g - 1) + 3) - from
      BY <1>1, <3>2
    <3> QED BY <1>2, <1>4, <1>5, <2>1, <2>3, <2>4, <3>3
  <2> QED BY <2>1, <2>4, <2>5
<1> QED BY <1>2, <1>4, <1>5, <1>6

\* A piece of a sequence.
LEMMA Piece ==
    ASSUME NEW X, NEW s \in Seq(X), NEW m \in Nat \ {0}, NEW n \in Nat,
           m <= n + 1, n <= Len(s)
    PROVE  /\ SubSeq(s, m, n) \in Seq(X) /\ Len(SubSeq(s, m, n)) = (n + 1) - m
           /\ \A i \in 1 .. (n + 1) - m : SubSeq(s, m, n)[i] = s[(i + m) - 1]
  OBVIOUS

\* A sequence is the function of its places.
LEMMA AllAlike ==
    ASSUME NEW X, NEW s \in Seq(X), NEW e, \A i \in 1 .. Len(s) : s[i] = e
    PROVE  s = [i \in 1 .. Len(s) |-> e]
  OBVIOUS

\* The body of a frame.
LEMMA BodyOfFrame ==
    ASSUME frames \in Streams, NEW f \in Numbers
    PROVE  BodyOf(f) = [i \in 1 .. frames[f].size |-> [of |-> f, part |-> "body"]]
<1> DEFINE bytes == Bytes(f)
           size == frames[f].size
<1>1. size \in Nat /\ Size(f) = 4 + size
  BY FramesType DEF Size
<1>2. /\ bytes \in Seq(AllBytes) /\ Len(bytes) = 4 + size
      /\ \A i \in 1 .. 4 + size : bytes[i] = [of |-> f, part |-> PartAt(i)]
  BY <1>1, BytesShape
<1>3. BodyOf(f) = SubSeq(bytes, 5, 4 + size)
  BY DEF BodyOf
<1> HIDE DEF bytes, size
<1>4. /\ SubSeq(bytes, 5, 4 + size) \in Seq(AllBytes)
      /\ Len(SubSeq(bytes, 5, 4 + size)) = size
      /\ \A i \in 1 .. size : SubSeq(bytes, 5, 4 + size)[i] = bytes[i + 4]
  BY <1>1, <1>2, Piece
<1>5. ASSUME NEW i \in 1 .. size PROVE bytes[i + 4] = [of |-> f, part |-> "body"]
  <2>1. i + 4 \in 1 .. 4 + size
    BY <1>1
  <2>2. PartAt(i + 4) = "body"
    BY <1>1 DEF PartAt
  <2> QED BY <1>2, <2>1, <2>2
<1>6. BodyOf(f) = [i \in 1 .. size |-> [of |-> f, part |-> "body"]]
  <2> DEFINE text == SubSeq(bytes, 5, 4 + size)
  <2>1. text \in Seq(AllBytes) /\ Len(text) = size
    BY <1>4
  <2>2. \A i \in 1 .. Len(text) : text[i] = [of |-> f, part |-> "body"]
    BY <1>4, <1>5
  <2>3. BodyOf(f) = text
    BY <1>3
  <2> HIDE DEF text
  <2>4. text = [i \in 1 .. Len(text) |-> [of |-> f, part |-> "body"]]
    BY <2>1, <2>2, AllAlike
  <2> QED BY <2>1, <2>3, <2>4
<1> QED BY <1>6 DEF size

\* What the loop takes for a frame is one: the separator is that of a frame
\* with a length, the length is read from its own header, and it ends where
\* the frame does.
LEMMA FrameIsCut ==
    ASSUME frames \in Streams, NEW b, NEW from, Stretch(b, from),
           SeparatorIndex(b) # 0, LengthMatches(b) # {}
    PROVE  \E f \in Numbers :
             /\ from + SeparatorIndex(b) = End(f - 1) + 3
             /\ SeparatorIndex(b) \in 1 .. Len(b) - 1
             /\ FrameLength(b) \in Nat /\ FrameLength(b) > SeparatorIndex(b)
             /\ from + FrameLength(b) = End(f)
             /\ FrameLength(b) <= Len(b) => Body(b) = BodyOf(f)
<1> DEFINE s == SeparatorIndex(b)
<1>1. PICK f \in Numbers :
        /\ s \in 1 .. Len(b) - 1 /\ from + s = End(f - 1) + 3
        /\ \A g \in Numbers : g < f => End(g - 1) + 3 <= from
  BY SeparatorOfAFrame
<1>2. End(f - 1) \in Nat /\ End(f) = End(f - 1) + Size(f) /\ frames[f].size \in Nat
  BY StreamHasShape, FramesType DEF StreamShape
<1>3. from \in Nat /\ Len(b) \in Nat
  BY DEF Stretch
<1>4. ASSUME NEW i \in LengthMatches(b) PROVE b[i].of = f
  <2>1. i \in 1 .. s - 1 /\ i \in 1 .. Len(b) /\ b[i].part = "name"
    BY <1>1, <1>3 DEF LengthMatches
  <2>2. PICK g \in Numbers : \E k \in 1 .. Size(g) :
          from + i = End(g - 1) + k /\ b[i] = [of |-> g, part |-> PartAt(k)]
    BY <2>1, ByteOfStretch
  <2>3. PICK k \in 1 .. Size(g) :
          from + i = End(g - 1) + k /\ b[i] = [of |-> g, part |-> PartAt(k)]
    BY <2>2
  <2>4. k = 1
    BY <2>1, <2>3, PartsToldApart
  <2>5. ~ (g < f)
    <3>1. End(g - 1) \in Nat
      BY StreamHasShape DEF StreamShape
    <3>2. g < f => End(g - 1) + 3 <= from
      BY <1>1
    <3> QED BY <1>3, <2>1, <2>3, <2>4, <3>1, <3>2
  <2>6. ~ (f < g)
    <3>1. SUFFICES ASSUME f < g PROVE FALSE
      OBVIOUS
    <3>2. f \in 0 .. g - 1 /\ g - 1 \in 0 .. Len(frames)
      BY <3>1, FramesType
    <3>3. End(f) <= End(g - 1) /\ End(g - 1) \in Nat
      BY <3>2, EndsGrow
    <3>4. Size(f) \in Nat /\ Size(f) >= 4
      BY FramesType
    <3> QED BY <1>1, <1>2, <1>3, <2>1, <2>3, <2>4, <3>3, <3>4
  <2>7. f \in Nat /\ g \in Nat
    BY FramesType
  <2> QED BY <2>3, <2>5, <2>6, <2>7
<1>5. ContentLength(b) = frames[f].size
  <2>1. LengthMatches(b) \subseteq Nat
    BY <1>1 DEF LengthMatches
  <2>2. \E i \in LengthMatches(b) : \A j \in LengthMatches(b) : i <= j
    BY <2>1, LeastNatural
  <2>3. (CHOOSE i \in LengthMatches(b) : \A j \in LengthMatches(b) : i <= j)
          \in LengthMatches(b)
    BY <2>2
  <2> QED BY <1>4, <2>3 DEF ContentLength
<1>6. FrameLength(b) = s + 1 + frames[f].size /\ BodyStart(b) = s + 2
  BY <1>5 DEF FrameLength, BodyStart
<1>7. Size(f) = 4 + frames[f].size
  BY DEF Size
<1>8. /\ FrameLength(b) \in Nat /\ FrameLength(b) > s
      /\ from + FrameLength(b) = End(f)
  <2>1. /\ s \in Nat /\ from \in Nat /\ End(f - 1) \in Nat /\ frames[f].size \in Nat
        /\ from + s = End(f - 1) + 3
    BY <1>1, <1>2, <1>3
  <2>2. End(f) = End(f - 1) + (4 + frames[f].size)
    BY <1>2, <1>7
  <2> HIDE DEF s
  <2> QED BY <1>6, <2>1, <2>2
<1>9. ASSUME FrameLength(b) <= Len(b) PROVE Body(b) = BodyOf(f)
  <2> DEFINE n == FrameLength(b)
             m == BodyStart(b)
             size == frames[f].size
  <2>1. /\ b \in Seq(AllBytes) /\ m \in Nat \ {0} /\ n \in Nat
        /\ m <= n + 1 /\ n <= Len(b) /\ (n + 1) - m = size
    <3>1. s \in Nat /\ size \in Nat /\ n = s + 1 + size /\ m = s + 2
      BY <1>1, <1>2, <1>3, <1>6
    <3>2. b \in Seq(AllBytes) /\ n <= Len(b)
      BY <1>9 DEF Stretch
    <3> HIDE DEF s, size, m, n
    <3> QED BY <3>1, <3>2
  <2>2. Body(b) = SubSeq(b, m, n)
    BY DEF Body
  <2>3. m = s + 2 /\ size \in Nat
    BY <1>2, <1>6
  <2> HIDE DEF n, m, size
  <2>4. /\ SubSeq(b, m, n) \in Seq(AllBytes) /\ Len(SubSeq(b, m, n)) = size
        /\ \A i \in 1 .. size : SubSeq(b, m, n)[i] = b[(i + m) - 1]
    BY <2>1, Piece
  <2>5. ASSUME NEW i \in 1 .. size
        PROVE  b[(i + m) - 1] = [of |-> f, part |-> "body"]
    <3>1. /\ (i + m) - 1 \in 1 .. Len(b) /\ i + 4 \in 1 .. Size(f)
          /\ from + ((i + m) - 1) = End(f - 1) + (i + 4)
      <4>1. /\ s \in Nat /\ from \in Nat /\ End(f - 1) \in Nat /\ Size(f) = 4 + size
            /\ from + s = End(f - 1) + 3 /\ Len(b) \in Nat
        BY <1>1, <1>2, <1>3, <1>7 DEF size
      <4> HIDE DEF s
      <4> QED BY <2>1, <2>3, <4>1
    <3>2. Stream[End(f - 1) + (i + 4)] = [of |-> f, part |-> PartAt(i + 4)]
      BY <3>1, StreamHasShape DEF StreamShape
    <3>3. b[(i + m) - 1] = Stream[from + ((i + m) - 1)]
      BY <3>1 DEF Stretch
    <3>4. PartAt(i + 4) = "body"
      BY <2>3 DEF PartAt
    <3> QED BY <3>1, <3>2, <3>3, <3>4
  <2>6. SubSeq(b, m, n) = [i \in 1 .. size |-> [of |-> f, part |-> "body"]]
    <3> DEFINE text == SubSeq(b, m, n)
    <3>1. text \in Seq(AllBytes) /\ Len(text) = size
      BY <2>4
    <3>2. \A i \in 1 .. Len(text) : text[i] = [of |-> f, part |-> "body"]
      BY <2>4, <2>5
    <3> HIDE DEF text
    <3>3. text = [i \in 1 .. Len(text) |-> [of |-> f, part |-> "body"]]
      BY <3>1, <3>2, AllAlike
    <3> QED BY <3>1, <3>3 DEF text
  <2> QED BY <2>2, <2>6, BodyOfFrame DEF size
<1> QED BY <1>1, <1>8, <1>9

\* A stretch grows by the bytes behind it.
LEMMA StretchGrows ==
    ASSUME frames \in Streams, NEW b, NEW from, Stretch(b, from),
           NEW n \in 1 .. Len(Stream) - (from + Len(b))
    PROVE  LET chunk == SubSeq(Stream, (from + Len(b)) + 1, (from + Len(b)) + n)
           IN  Stretch(b \o chunk, from) /\ Len(b \o chunk) = Len(b) + n
<1> DEFINE at == from + Len(b)
           chunk == SubSeq(Stream, at + 1, at + n)
<1>1. /\ b \in Seq(AllBytes) /\ Len(b) \in Nat /\ from \in Nat /\ at = from + Len(b)
      /\ \A i \in 1 .. Len(b) : b[i] = Stream[from + i]
  BY DEF Stretch
<1>2. Stream \in Seq(AllBytes) /\ Len(Stream) \in Nat /\ n \in Nat /\ at + n <= Len(Stream)
  <2>1. Stream \in Seq(AllBytes)
    BY StreamHasShape DEF StreamShape
  <2>2. Len(Stream) \in Nat
    BY <2>1
  <2> QED BY <1>1, <2>1, <2>2
<1> HIDE DEF at
<1>3. /\ chunk \in Seq(AllBytes) /\ Len(chunk) = n
      /\ \A i \in 1 .. n : chunk[i] = Stream[at + i]
  <2>1. at \in Nat
    BY <1>1
  <2>2. /\ at + 1 \in Nat \ {0} /\ at + n \in Nat /\ at + 1 <= (at + n) + 1
        /\ ((at + n) + 1) - (at + 1) = n
    BY <1>2, <2>1
  <2>3. /\ chunk \in Seq(AllBytes) /\ Len(chunk) = n
        /\ \A i \in 1 .. n : chunk[i] = Stream[(i + (at + 1)) - 1]
    BY <1>2, <2>2, Piece
  <2>4. \A i \in 1 .. n : (i + (at + 1)) - 1 = at + i
    BY <1>2, <2>1
  <2> QED BY <2>3, <2>4
<1> HIDE DEF chunk
<1>4. /\ b \o chunk \in Seq(AllBytes) /\ Len(b \o chunk) = Len(b) + Len(chunk)
      /\ \A i \in 1 .. Len(b) : (b \o chunk)[i] = b[i]
      /\ \A i \in 1 .. Len(chunk) : (b \o chunk)[Len(b) + i] = chunk[i]
  <2>1. b \in Seq(AllBytes) /\ chunk \in Seq(AllBytes)
    BY <1>1, <1>3
  <2> QED BY <2>1, Concat
<1>5. ASSUME NEW i \in 1 .. Len(b) + n PROVE (b \o chunk)[i] = Stream[from + i]
  <2>1. CASE i <= Len(b)
    BY <1>1, <1>4, <2>1
  <2>2. CASE ~ (i <= Len(b))
    <3>1. i - Len(b) \in 1 .. n /\ Len(b) + (i - Len(b)) = i /\ at + (i - Len(b)) = from + i
      BY <1>1, <1>2, <2>2
    <3>2. (b \o chunk)[Len(b) + (i - Len(b))] = Stream[at + (i - Len(b))]
      BY <1>3, <1>4, <3>1
    <3> QED BY <3>1, <3>2
  <2> QED BY <2>1, <2>2
<1>6. from + (Len(b) + n) <= Len(Stream)
  BY <1>1, <1>2
<1>7. Stretch(b \o chunk, from) /\ Len(b \o chunk) = Len(b) + n
  BY <1>1, <1>3, <1>4, <1>5, <1>6 DEF Stretch
<1> QED BY <1>7 DEF chunk, at

\* What is left of a stretch when its first bytes are taken off is one.
LEMMA StretchShrinks ==
    ASSUME frames \in Streams, NEW b, NEW from, Stretch(b, from), NEW m \in 0 .. Len(b)
    PROVE  /\ Stretch(SubSeq(b, m + 1, Len(b)), from + m)
           /\ Len(SubSeq(b, m + 1, Len(b))) = Len(b) - m
<1> DEFINE rest == SubSeq(b, m + 1, Len(b))
<1>1. /\ b \in Seq(AllBytes) /\ Len(b) \in Nat /\ from \in Nat
      /\ from + Len(b) <= Len(Stream)
      /\ \A i \in 1 .. Len(b) : b[i] = Stream[from + i]
  BY DEF Stretch
<1>2. Len(Stream) \in Nat
  BY StreamHasShape DEF StreamShape
<1>3. /\ rest \in Seq(AllBytes) /\ Len(rest) = Len(b) - m
      /\ \A i \in 1 .. Len(b) - m : rest[i] = b[m + i]
  <2>1. /\ m + 1 \in Nat \ {0} /\ m + 1 <= Len(b) + 1
        /\ (Len(b) + 1) - (m + 1) = Len(b) - m
    BY <1>1
  <2>2. /\ rest \in Seq(AllBytes) /\ Len(rest) = Len(b) - m
        /\ \A i \in 1 .. Len(b) - m : rest[i] = b[(i + (m + 1)) - 1]
    <3>1. b \in Seq(AllBytes) /\ Len(b) \in Nat /\ Len(b) <= Len(b)
      BY <1>1
    <3>2. /\ rest \in Seq(AllBytes) /\ Len(rest) = (Len(b) + 1) - (m + 1)
          /\ \A i \in 1 .. (Len(b) + 1) - (m + 1) : rest[i] = b[(i + (m + 1)) - 1]
      BY <2>1, <3>1, Piece
    <3> HIDE DEF rest
    <3> QED BY <2>1, <3>2
  <2>3. \A i \in 1 .. Len(b) - m : (i + (m + 1)) - 1 = m + i
    BY <1>1
  <2> QED BY <2>2, <2>3
<1> HIDE DEF rest
<1>4. ASSUME NEW i \in 1 .. Len(rest) PROVE rest[i] = Stream[(from + m) + i]
  <2>1. m + i \in 1 .. Len(b) /\ from + (m + i) = (from + m) + i /\ i \in 1 .. Len(b) - m
    BY <1>1, <1>3
  <2> QED BY <1>1, <1>3, <2>1
<1>5. from + m \in Nat /\ (from + m) + Len(rest) <= Len(Stream)
  BY <1>1, <1>2, <1>3
<1>6. Stretch(rest, from + m)
  BY <1>3, <1>4, <1>5 DEF Stretch
<1> QED BY <1>3, <1>6 DEF rest

-----------------------------------------------------------------------------
(* The loop in its states.                                                 *)

\* The bytes taken off the stream, handled or dropped.
From == received - Len(buffer)

\* The buffer is the stretch of the stream between what was taken off and what
\* was received.
BufferIsAStretch == Stretch(buffer, From)

\* What was handled ends in what was taken off.
HandledIsTakenOff == \A i \in 1 .. Len(handled) : End(handled[i]) <= From

\* The listener runs in a live process.
OnlyTheLivingParse == parsing => alive

IInv == /\ TypeOK /\ BufferIsAStretch /\ HandledIsTakenOff /\ OnlyTheLivingParse
        /\ NeverMisreads /\ AnswersItsRequests

\* The frames stay what they are, and what is computed of them alone.
LEMMA FramesStay ==
    ASSUME frames' = frames
    PROVE  /\ Stream' = Stream /\ Numbers' = Numbers /\ AllBytes' = AllBytes
           /\ \A f : End(f)' = End(f) /\ Size(f)' = Size(f) /\ BodyOf(f)' = BodyOf(f)
  BY DEF Stream, Numbers, AllBytes, End, Size, BodyOf, Bytes

\* A stretch in the next state, told in this one.
LEMMA StretchInTheNext ==
    ASSUME frames' = frames, Stretch(buffer', received' - Len(buffer'))
    PROVE  BufferIsAStretch'
  BY FramesStay DEF Stretch, BufferIsAStretch, From

\* The type of the next state, told in this one.
LEMMA TypeInTheNext ==
    ASSUME TypeOK, frames' = frames, received' \in 0 .. Len(Stream),
           buffer' \in Seq(AllBytes), parsing' \in BOOLEAN, alive' \in BOOLEAN,
           handled' \in Seq(Numbers), pending' \subseteq Numbers, written' \in Seq(Numbers)
    PROVE  TypeOK'
  BY FramesStay DEF TypeOK, AllBytes

\* What a sequence grows by one holds.
LEMMA Grown ==
    ASSUME NEW X, NEW s \in Seq(X), NEW e \in X
    PROVE  /\ Append(s, e) \in Seq(X) /\ Len(Append(s, e)) = Len(s) + 1
           /\ \A i \in 1 .. Len(s) : Append(s, e)[i] = s[i]
           /\ Append(s, e)[Len(s) + 1] = e
           /\ ToSet(Append(s, e)) = ToSet(s) \cup {e}
<1>1. /\ Append(s, e) \in Seq(X) /\ Len(Append(s, e)) = Len(s) + 1
      /\ \A i \in 1 .. Len(s) : Append(s, e)[i] = s[i]
      /\ Append(s, e)[Len(s) + 1] = e
      /\ DOMAIN Append(s, e) = 1 .. Len(s) + 1 /\ DOMAIN s = 1 .. Len(s) /\ Len(s) \in Nat
  OBVIOUS
<1> DEFINE t == Append(s, e)
<1> HIDE DEF t
<1>2. ToSet(t) = ToSet(s) \cup {e}
  <2>1. \A i \in 1 .. Len(s) + 1 : i \in 1 .. Len(s) \/ i = Len(s) + 1
    BY <1>1
  <2>2. \A i \in 1 .. Len(s) : i \in 1 .. Len(s) + 1
    BY <1>1
  <2>3. Len(s) + 1 \in 1 .. Len(s) + 1
    BY <1>1
  <2> QED BY <1>1, <2>1, <2>2, <2>3 DEF ToSet, t
<1> QED BY <1>1, <1>2 DEF t

\* A text that is no piece is the body of one frame.
LEMMA BodyTellsItsFrame ==
    ASSUME frames \in Streams, NEW f \in Numbers, NEW g \in Numbers,
           BodyOf(f) = BodyOf(g), BodyOf(f) # <<>>
    PROVE  f = g
<1> DEFINE m == frames[f].size
           n == frames[g].size
<1>1. m \in Nat /\ n \in Nat
  BY FramesType
<1>2. [i \in 1 .. m |-> [of |-> f, part |-> "body"]]
        = [i \in 1 .. n |-> [of |-> g, part |-> "body"]]
  BY BodyOfFrame
<1>3. m # 0
  <2>1. SUFFICES ASSUME m = 0 PROVE FALSE
    OBVIOUS
  <2>2. BodyOf(f) = [i \in 1 .. 0 |-> [of |-> f, part |-> "body"]]
    BY <2>1, BodyOfFrame
  <2> QED BY <2>2
<1> HIDE DEF m, n
<1>4. 1 \in 1 .. m
  BY <1>1, <1>3
<1>5. 1 \in 1 .. n
  BY <1>2, <1>4
<1>6. [of |-> f, part |-> "body"] = [of |-> g, part |-> "body"]
  BY <1>2, <1>4, <1>5
<1> QED BY <1>6

\* A frame the loop takes off is the next that ends in the buffer, and none of
\* those handled before.
LEMMA WholeFrameIsOne ==
    ASSUME IInv, WholeFrame
    PROVE  \E f \in Numbers :
             /\ FrameLength(buffer) \in 0 .. Len(buffer)
             /\ From + FrameLength(buffer) = End(f) /\ From < End(f)
             /\ Body(buffer) = BodyOf(f)
             /\ \A i \in 1 .. Len(handled) : handled[i] < f
<1>1. frames \in Streams /\ Stretch(buffer, From)
  BY DEF IInv, TypeOK, BufferIsAStretch
<1>2. /\ SeparatorIndex(buffer) # 0 /\ LengthMatches(buffer) # {}
      /\ Len(buffer) >= FrameLength(buffer)
  BY DEF WholeFrame
<1>3. Len(buffer) \in Nat /\ From \in Nat
  BY <1>1 DEF Stretch
<1>4. PICK f \in Numbers :
        /\ From + SeparatorIndex(buffer) = End(f - 1) + 3
        /\ SeparatorIndex(buffer) \in 1 .. Len(buffer) - 1
        /\ FrameLength(buffer) \in Nat /\ FrameLength(buffer) > SeparatorIndex(buffer)
        /\ From + FrameLength(buffer) = End(f)
        /\ FrameLength(buffer) <= Len(buffer) => Body(buffer) = BodyOf(f)
  BY <1>1, <1>2, FrameIsCut
<1>5. FrameLength(buffer) \in 0 .. Len(buffer) /\ From < End(f) /\ Body(buffer) = BodyOf(f)
  BY <1>2, <1>3, <1>4
<1>6. ASSUME NEW i \in 1 .. Len(handled) PROVE handled[i] < f
  <2>1. End(handled[i]) <= From
    BY DEF IInv, HandledIsTakenOff
  <2>2. handled[i] \in Numbers
    BY DEF IInv, TypeOK
  <2>3. handled[i] \in 0 .. Len(frames) /\ f \in 0 .. Len(frames)
    BY <1>1, <2>2, FramesType
  <2>4. End(handled[i]) \in Nat /\ End(f) \in Nat
    BY <1>1, <2>3, EndsGrow
  <2>5. End(handled[i]) < End(f)
    BY <1>3, <1>5, <2>1, <2>4
  <2> QED BY <1>1, <2>3, <2>5, EarlierFrame
<1> QED BY <1>4, <1>5, <1>6

\* What the handled frames and their answers leave as they are.
LEMMA AnswersStay ==
    ASSUME IInv, frames' = frames, handled' = handled, pending' = pending, written' = written,
           From' \in Nat, From \in Nat, From <= From'
    PROVE  /\ HandledIsTakenOff' /\ AnswersItsRequests'
           /\ (\A i, j \in DOMAIN handled : i < j => handled[i] < handled[j])'
<1>1. ASSUME NEW i \in 1 .. Len(handled) PROVE End(handled[i]) <= From'
  <2>1. End(handled[i]) <= From
    BY DEF IInv, HandledIsTakenOff
  <2>2. handled[i] \in 0 .. Len(frames) /\ frames \in Streams
    BY FramesType DEF IInv, TypeOK
  <2>3. End(handled[i]) \in Nat
    BY <2>2, EndsGrow
  <2> QED BY <2>1, <2>3
<1>2. HandledIsTakenOff'
  BY <1>1, FramesStay DEF HandledIsTakenOff
<1>3. AnswersItsRequests'
  BY DEF IInv, AnswersItsRequests
<1> QED BY <1>2, <1>3 DEF IInv, NeverMisreads

\* The bytes in the buffer and those taken off, in every state.
LEMMA InTheBuffer ==
    ASSUME IInv
    PROVE  /\ frames \in Streams /\ Stretch(buffer, From) /\ From \in Nat
           /\ Len(buffer) \in Nat /\ received \in Nat /\ From + Len(buffer) = received
           /\ Len(Stream) \in Nat /\ received <= Len(Stream) /\ buffer \in Seq(AllBytes)
<1>1. frames \in Streams /\ Stretch(buffer, From) /\ received \in 0 .. Len(Stream)
  BY DEF IInv, TypeOK, BufferIsAStretch
<1>2. Len(Stream) \in Nat
  BY <1>1, StreamHasShape DEF StreamShape
<1>3. Len(buffer) \in Nat /\ From \in Nat /\ buffer \in Seq(AllBytes)
  BY <1>1 DEF Stretch
<1> QED BY <1>1, <1>2, <1>3 DEF From

\* A chunk is appended.
LEMMA DataKeeps == ASSUME IInv, Data PROVE IInv'
<1>1. PICK n \in 1 .. Len(Stream) - received :
        /\ buffer' = buffer \o SubSeq(Stream, received + 1, received + n)
        /\ received' = received + n
  BY DEF Data
<1>2. /\ parsing' = TRUE /\ alive /\ alive' = alive /\ frames' = frames
      /\ handled' = handled /\ pending' = pending /\ written' = written
  BY DEF Data
<1>3. /\ Stretch(buffer', From) /\ Len(buffer') = Len(buffer) + n
  BY <1>1, InTheBuffer, StretchGrows
<1>4. /\ received' - Len(buffer') = From /\ From' = From
      /\ received' \in 0 .. Len(Stream)
  <2>1. n \in Nat /\ received + n <= Len(Stream)
    BY InTheBuffer
  <2>2. /\ received \in Nat /\ Len(buffer) \in Nat /\ Len(Stream) \in Nat
        /\ received' = received + n /\ Len(buffer') = Len(buffer) + n
    BY <1>1, <1>3, InTheBuffer
  <2>3. (received + n) - (Len(buffer) + n) = received - Len(buffer)
    BY <2>1, <2>2
  <2>4. received + n \in 0 .. Len(Stream)
    BY <2>1, <2>2
  <2> QED BY <2>2, <2>3, <2>4 DEF From
<1>5. BufferIsAStretch'
  BY <1>2, <1>3, <1>4, StretchInTheNext
<1>6. buffer' \in Seq(AllBytes)
  BY <1>3 DEF Stretch
<1>7. TypeOK'
  BY <1>2, <1>4, <1>6, TypeInTheNext DEF IInv, TypeOK
<1>8. /\ HandledIsTakenOff' /\ AnswersItsRequests'
      /\ (\A i, j \in DOMAIN handled : i < j => handled[i] < handled[j])'
  BY <1>2, <1>4, InTheBuffer, AnswersStay
<1>9. NeverMisreads'
  BY <1>2, <1>8 DEF NeverMisreads
<1> QED BY <1>2, <1>5, <1>7, <1>8, <1>9 DEF IInv, OnlyTheLivingParse

\* The listener returns, or everything buffered is dropped.
LEMMA NothingHandledKeeps ==
    ASSUME IInv, \/ AwaitMore \/ DropBuffer
    PROVE  IInv'
<1>1. /\ parsing /\ parsing' = FALSE /\ alive' = alive /\ frames' = frames
      /\ received' = received
      /\ handled' = handled /\ pending' = pending /\ written' = written
      /\ buffer' = buffer \/ buffer' = <<>>
  BY DEF AwaitMore, DropBuffer
<1>2. /\ Stretch(buffer', received' - Len(buffer')) /\ buffer' \in Seq(AllBytes)
      /\ From' \in Nat /\ From <= From'
  <2>1. CASE buffer' = buffer
    BY <1>1, <2>1, InTheBuffer DEF From
  <2>2. CASE buffer' = <<>>
    <3>1. Len(buffer') = 0 /\ buffer' \in Seq(AllBytes)
      BY <2>2
    <3>2. /\ received' - Len(buffer') = received /\ From' = received
          /\ received \in Nat /\ From <= received
      BY <1>1, <3>1, InTheBuffer DEF From
    <3>3. Stretch(buffer', received)
      BY <3>1, InTheBuffer DEF Stretch
    <3> QED BY <3>1, <3>2, <3>3
  <2> QED BY <1>1, <2>1, <2>2
<1>3. BufferIsAStretch'
  BY <1>1, <1>2, StretchInTheNext
<1>4. TypeOK'
  BY <1>1, <1>2, TypeInTheNext DEF IInv, TypeOK
<1>5. /\ HandledIsTakenOff' /\ AnswersItsRequests'
      /\ (\A i, j \in DOMAIN handled : i < j => handled[i] < handled[j])'
  BY <1>1, <1>2, InTheBuffer, AnswersStay
<1>6. alive'
  BY <1>1 DEF IInv, OnlyTheLivingParse
<1>7. NeverMisreads'
  BY <1>5, <1>6 DEF NeverMisreads
<1> QED BY <1>1, <1>3, <1>4, <1>5, <1>7 DEF IInv, OnlyTheLivingParse

\* A frame is handled, and it is the one cut off.
LEMMA HandleFrameIsNext ==
    ASSUME IInv, NEW g \in Numbers, HandleFrame(g)
    PROVE  /\ FrameLength(buffer) \in 0 .. Len(buffer)
           /\ From + FrameLength(buffer) = End(g) /\ From < End(g)
           /\ \A i \in 1 .. Len(handled) : handled[i] < g
<1>1. WholeFrame /\ Decodes(Body(buffer), g)
  BY DEF HandleFrame
<1>2. PICK f \in Numbers :
        /\ FrameLength(buffer) \in 0 .. Len(buffer)
        /\ From + FrameLength(buffer) = End(f) /\ From < End(f)
        /\ Body(buffer) = BodyOf(f)
        /\ \A i \in 1 .. Len(handled) : handled[i] < f
  BY <1>1, WholeFrameIsOne
<1>3. f = g
  BY <1>1, <1>2, InTheBuffer, BodyTellsItsFrame DEF Decodes
<1> QED BY <1>2, <1>3

\* The bytes of the frame are taken off, and no others.
LEMMA HandleFrameTakesOff ==
    ASSUME IInv, NEW g \in Numbers, HandleFrame(g)
    PROVE  /\ Stretch(buffer', received' - Len(buffer')) /\ buffer' \in Seq(AllBytes)
           /\ From' = End(g) /\ From' \in Nat /\ From <= From'
<1> DEFINE m == FrameLength(buffer)
<1>1. m \in 0 .. Len(buffer) /\ From + m = End(g)
  BY HandleFrameIsNext
<1>2. buffer' = SubSeq(buffer, m + 1, Len(buffer)) /\ received' = received
  BY DEF HandleFrame
<1> HIDE DEF m
<1>3. Stretch(buffer', From + m) /\ Len(buffer') = Len(buffer) - m
  BY <1>1, <1>2, InTheBuffer, StretchShrinks
<1>4. received' - Len(buffer') = From + m /\ From' = From + m
  BY <1>1, <1>2, <1>3, InTheBuffer DEF From
<1>5. From + m \in Nat /\ From <= From + m /\ buffer' \in Seq(AllBytes)
  BY <1>1, <1>3, InTheBuffer DEF Stretch
<1> QED BY <1>1, <1>3, <1>4, <1>5

\* A frame is handled.
LEMMA HandleFrameKeeps == ASSUME IInv, NEW g \in Numbers, HandleFrame(g) PROVE IInv'
<1>1. /\ parsing /\ parsing' = parsing /\ alive' = alive /\ frames' = frames
      /\ received' = received /\ written' = written
      /\ handled' = Append(handled, g) /\ pending' = pending \cup {g}
  BY DEF HandleFrame, WholeFrame
<1>2. handled \in Seq(Numbers) /\ pending \subseteq Numbers /\ written \in Seq(Numbers)
  BY DEF IInv, TypeOK
<1>3. /\ handled' \in Seq(Numbers) /\ Len(handled') = Len(handled) + 1
      /\ \A i \in 1 .. Len(handled) : handled'[i] = handled[i]
      /\ handled'[Len(handled) + 1] = g
      /\ ToSet(handled') = ToSet(handled) \cup {g}
  BY <1>1, <1>2, Grown
<1>4. \A i \in 1 .. Len(handled) : handled[i] < g
  BY HandleFrameIsNext
<1>5. Len(handled) \in Nat /\ DOMAIN handled' = 1 .. Len(handled) + 1
  BY <1>2, <1>3
<1>6. TypeOK'
  <2>1. received' \in 0 .. Len(Stream) /\ parsing' \in BOOLEAN /\ alive' \in BOOLEAN
    BY <1>1 DEF IInv, TypeOK
  <2>2. pending' \subseteq Numbers /\ written' \in Seq(Numbers) /\ TypeOK
    BY <1>1, <1>2 DEF IInv
  <2> QED BY <1>1, <1>3, <2>1, <2>2, HandleFrameTakesOff, TypeInTheNext
<1>7. BufferIsAStretch'
  BY <1>1, HandleFrameTakesOff, StretchInTheNext
<1>8. HandledIsTakenOff'
  <2>1. ASSUME NEW i \in 1 .. Len(handled) + 1 PROVE End(handled'[i]) <= From'
    <3>1. CASE i \in 1 .. Len(handled)
      <4>1. End(handled[i]) <= From /\ handled'[i] = handled[i]
        BY <1>3, <3>1 DEF IInv, HandledIsTakenOff
      <4>2. handled[i] \in 0 .. Len(frames)
        BY <1>2, <3>1, InTheBuffer, FramesType
      <4>3. End(handled[i]) \in Nat
        BY <4>2, InTheBuffer, EndsGrow
      <4> QED BY <4>1, <4>3, InTheBuffer, HandleFrameTakesOff
    <3>2. CASE i = Len(handled) + 1
      <4>1. handled'[i] = g /\ End(g) \in Nat /\ From' = End(g)
        BY <1>3, <3>2, HandleFrameTakesOff
      <4> QED BY <4>1
    <3> QED BY <1>5, <3>1, <3>2
  <2> QED BY <1>1, <1>3, <2>1, FramesStay DEF HandledIsTakenOff
<1>9. NeverMisreads'
  <2>1. alive'
    BY <1>1 DEF IInv, OnlyTheLivingParse
  <2>2. ASSUME NEW i \in DOMAIN handled', NEW j \in DOMAIN handled', i < j
        PROVE  handled'[i] < handled'[j]
    <3>1. i \in 1 .. Len(handled) /\ handled'[i] = handled[i]
      BY <1>3, <1>5, <2>2
    <3>2. CASE j = Len(handled) + 1
      BY <1>3, <1>4, <3>1, <3>2
    <3>3. CASE j \in 1 .. Len(handled)
      <4>1. i \in DOMAIN handled /\ j \in DOMAIN handled
        BY <1>2, <3>1, <3>3
      <4>2. handled[i] < handled[j]
        BY <2>2, <4>1 DEF IInv, NeverMisreads
      <4> QED BY <1>3, <3>1, <3>3, <4>2
    <3> QED BY <1>5, <3>2, <3>3
  <2> QED BY <2>1, <2>2 DEF NeverMisreads
<1>10. AnswersItsRequests'
  <2>1. g \notin ToSet(handled)
    <3>1. \A i \in DOMAIN handled : handled[i] # g
      <4>1. g \in Nat /\ DOMAIN handled = 1 .. Len(handled)
        BY <1>2, InTheBuffer, FramesType
      <4> QED BY <1>4, <4>1
    <3> QED BY <3>1 DEF ToSet
  <2>2. /\ IsInjective(written) /\ ToSet(written) \cup pending = ToSet(handled)
        /\ ToSet(written) \cap pending = {}
    BY DEF IInv, AnswersItsRequests
  <2>3. IsInjective(written') /\ ToSet(written') = ToSet(written)
    BY <1>1, <2>2
  <2>4. ToSet(handled') = ToSet(handled) \cup {g}
    BY <1>3
  <2>5. /\ ToSet(written') \cup pending' = ToSet(handled')
        /\ ToSet(written') \cap pending' = {}
    BY <1>1, <2>1, <2>2, <2>3, <2>4
  <2> QED BY <2>3, <2>5 DEF AnswersItsRequests
<1> QED BY <1>1, <1>6, <1>7, <1>8, <1>9, <1>10 DEF IInv, OnlyTheLivingParse

\* A text that is no JSON ends the process, and it is the whole body of a frame.
LEMMA InvalidJsonKeeps == ASSUME IInv, InvalidJson PROVE IInv'
<1>1. /\ frames' = frames /\ received' = received /\ buffer' = buffer
      /\ handled' = handled /\ pending' = pending /\ written' = written
      /\ alive' = FALSE /\ parsing' = FALSE
  BY DEF InvalidJson
<1>2. BufferIsAStretch' /\ From' = From
  BY <1>1, InTheBuffer, StretchInTheNext DEF From
<1>3. TypeOK'
  BY <1>1, InTheBuffer, TypeInTheNext DEF IInv, TypeOK
<1>4. /\ HandledIsTakenOff' /\ AnswersItsRequests'
      /\ (\A i, j \in DOMAIN handled : i < j => handled[i] < handled[j])'
  BY <1>1, <1>2, InTheBuffer, AnswersStay
<1>5. PICK f \in Numbers : Body(buffer) = BodyOf(f)
  BY WholeFrameIsOne DEF InvalidJson
<1>6. frames[f].kind = "invalid"
  <2>1. ~ Decodes(Body(buffer), f)
    BY DEF InvalidJson
  <2>2. CASE BodyOf(f) = <<>>
    <3>1. [i \in 1 .. frames[f].size |-> [of |-> f, part |-> "body"]] = <<>>
      BY <2>2, InTheBuffer, BodyOfFrame
    <3>2. frames[f].size \in Nat
      BY InTheBuffer, FramesType
    <3>3. frames[f].size = 0
      <4> DEFINE size == frames[f].size
      <4> HIDE DEF size
      <4>1. Len([i \in 1 .. size |-> [of |-> f, part |-> "body"]]) = size
        BY <3>2 DEF size
      <4> QED BY <3>1, <4>1 DEF size
    <3> QED BY <3>3, InTheBuffer, FramesType
  <2> QED BY <1>5, <2>1, <2>2 DEF Decodes
<1>7. NeverMisreads'
  <2>1. Body(buffer)' = BodyOf(f)' /\ f \in Numbers' /\ frames'[f].kind = "invalid"
    <3>1. Body(buffer)' = Body(buffer)
      BY <1>1 DEF Body, BodyStart, FrameLength, ContentLength, LengthMatches, SeparatorIndex
    <3> QED BY <1>1, <1>5, <1>6, <3>1, FramesStay
  <2> QED BY <1>4, <2>1 DEF NeverMisreads
<1> QED BY <1>1, <1>2, <1>3, <1>4, <1>7 DEF IInv, OnlyTheLivingParse

\* A response is written.
LEMMA RespondKeeps == ASSUME IInv, NEW f \in Numbers, Respond(f) PROVE IInv'
<1>1. /\ frames' = frames /\ received' = received /\ buffer' = buffer /\ handled' = handled
      /\ parsing' = parsing /\ alive' = alive /\ alive
      /\ f \in pending /\ pending' = pending \ {f} /\ written' = Append(written, f)
  BY DEF Respond
<1>2. BufferIsAStretch' /\ From' = From
  BY <1>1, InTheBuffer, StretchInTheNext DEF From
<1>3. pending \subseteq Numbers /\ written \in Seq(Numbers)
  BY DEF IInv, TypeOK
<1>4. /\ written' \in Seq(Numbers) /\ Len(written') = Len(written) + 1
      /\ \A i \in 1 .. Len(written) : written'[i] = written[i]
      /\ written'[Len(written) + 1] = f
      /\ ToSet(written') = ToSet(written) \cup {f}
  BY <1>1, <1>3, Grown
<1>5. TypeOK'
  <2>1. pending' \subseteq Numbers /\ TypeOK
    BY <1>1, <1>3 DEF IInv
  <2> QED BY <1>1, <1>4, <2>1, InTheBuffer, TypeInTheNext DEF TypeOK
<1>6. HandledIsTakenOff'
  BY <1>1, <1>2, FramesStay DEF IInv, HandledIsTakenOff
<1>7. NeverMisreads'
  BY <1>1 DEF IInv, NeverMisreads
<1>8. AnswersItsRequests'
  <2>1. /\ IsInjective(written) /\ ToSet(written) \cup pending = ToSet(handled)
        /\ ToSet(written) \cap pending = {}
    BY DEF IInv, AnswersItsRequests
  <2>2. /\ ToSet(written') \cup pending' = ToSet(handled')
        /\ ToSet(written') \cap pending' = {}
    BY <1>1, <1>4, <2>1
  <2>3. /\ DOMAIN written = 1 .. Len(written) /\ DOMAIN written' = 1 .. Len(written) + 1
        /\ Len(written) \in Nat
    BY <1>3, <1>4
  <2>4. \A i \in DOMAIN written : written[i] # f
    BY <1>1, <2>1 DEF ToSet
  <2>5. ASSUME NEW i \in DOMAIN written', NEW j \in DOMAIN written',
               written'[i] = written'[j]
        PROVE  i = j
    <3>1. CASE i \in DOMAIN written /\ j \in DOMAIN written
      BY <1>4, <2>1, <2>3, <2>5, <3>1 DEF IsInjective
    <3>2. CASE i = Len(written) + 1 /\ j \in DOMAIN written
      BY <1>4, <2>3, <2>4, <2>5, <3>2
    <3>3. CASE i \in DOMAIN written /\ j = Len(written) + 1
      BY <1>4, <2>3, <2>4, <2>5, <3>3
    <3> QED BY <2>3, <3>1, <3>2, <3>3
  <2>6. IsInjective(written')
    BY <2>5 DEF IsInjective
  <2> QED BY <2>2, <2>6 DEF AnswersItsRequests
<1> QED BY <1>1, <1>2, <1>5, <1>6, <1>7, <1>8 DEF IInv, OnlyTheLivingParse

\* A rejection ends the process.
LEMMA RejectNullKeeps == ASSUME IInv, NEW f \in Numbers, RejectNull(f) PROVE IInv'
<1>1. /\ frames' = frames /\ received' = received /\ buffer' = buffer
      /\ handled' = handled /\ pending' = pending /\ written' = written
      /\ alive' = FALSE /\ ~ parsing /\ parsing' = parsing
      /\ f \in pending /\ frames[f].kind = "null"
  BY DEF RejectNull
<1>2. BufferIsAStretch' /\ From' = From
  BY <1>1, InTheBuffer, StretchInTheNext DEF From
<1>3. TypeOK'
  BY <1>1, InTheBuffer, TypeInTheNext DEF IInv, TypeOK
<1>4. /\ HandledIsTakenOff' /\ AnswersItsRequests'
      /\ (\A i, j \in DOMAIN handled : i < j => handled[i] < handled[j])'
  BY <1>1, <1>2, InTheBuffer, AnswersStay
<1>5. NeverMisreads'
  BY <1>1, <1>4 DEF NeverMisreads
<1> QED BY <1>1, <1>2, <1>3, <1>4, <1>5 DEF IInv, OnlyTheLivingParse

\* The loop begins with nothing.
LEMMA InitKeeps == Init => IInv
<1> SUFFICES ASSUME Init PROVE IInv
  OBVIOUS
<1>1. /\ frames \in Streams /\ received = 0 /\ buffer = <<>> /\ parsing = FALSE
      /\ alive = TRUE /\ handled = <<>> /\ pending = {} /\ written = <<>>
  BY DEF Init
<1>2. Len(Stream) \in Nat /\ buffer \in Seq(AllBytes) /\ Len(buffer) = 0
  BY <1>1, StreamHasShape DEF StreamShape
<1>3. TypeOK
  <2>1. handled \in Seq(Numbers) /\ written \in Seq(Numbers) /\ pending \subseteq Numbers
    BY <1>1
  <2>2. received \in 0 .. Len(Stream)
    BY <1>1, <1>2
  <2>3. parsing \in BOOLEAN /\ alive \in BOOLEAN
    BY <1>1
  <2> QED BY <1>1, <1>2, <2>1, <2>2, <2>3 DEF TypeOK, AllBytes
<1>4. BufferIsAStretch
  BY <1>1, <1>2 DEF BufferIsAStretch, Stretch, From
<1>5. AnswersItsRequests
  BY <1>1 DEF AnswersItsRequests, IsInjective, ToSet
<1> QED BY <1>1, <1>3, <1>4, <1>5
        DEF IInv, HandledIsTakenOff, OnlyTheLivingParse, NeverMisreads

\* The invariant is inductive.
LEMMA NextKeeps == IInv /\ [Next]_vars => IInv'
<1> SUFFICES ASSUME IInv, [Next]_vars PROVE IInv'
  OBVIOUS
<1>1. CASE Data
  BY <1>1, DataKeeps
<1>2. CASE AwaitMore \/ DropBuffer
  BY <1>2, NothingHandledKeeps
<1>3. CASE InvalidJson
  BY <1>3, InvalidJsonKeeps
<1>4. CASE \E f \in Numbers : HandleFrame(f)
  BY <1>4, HandleFrameKeeps
<1>5. CASE \E f \in Numbers : Respond(f)
  BY <1>5, RespondKeeps
<1>6. CASE \E f \in Numbers : RejectNull(f)
  BY <1>6, RejectNullKeeps
<1>7. CASE UNCHANGED vars
  <2>1. /\ frames' = frames /\ received' = received /\ buffer' = buffer
        /\ handled' = handled /\ pending' = pending /\ written' = written
        /\ alive' = alive /\ parsing' = parsing
    BY <1>7 DEF vars
  <2>2. BufferIsAStretch' /\ From' = From
    BY <2>1, InTheBuffer, StretchInTheNext DEF From
  <2>3. TypeOK'
    BY <2>1, InTheBuffer, TypeInTheNext DEF IInv, TypeOK
  <2>4. /\ HandledIsTakenOff' /\ AnswersItsRequests'
        /\ (\A i, j \in DOMAIN handled : i < j => handled[i] < handled[j])'
    BY <2>1, <2>2, InTheBuffer, AnswersStay
  <2>5. NeverMisreads'
    <3>1. Body(buffer)' = Body(buffer)
      BY <2>1 DEF Body, BodyStart, FrameLength, ContentLength, LengthMatches, SeparatorIndex
    <3>2. /\ ~ alive => \/ \E f \in pending : frames[f].kind = "null"
                        \/ \E f \in Numbers : /\ frames[f].kind = "invalid"
                                              /\ Body(buffer) = BodyOf(f)
      BY DEF IInv, NeverMisreads
    <3>3. Numbers' = Numbers /\ \A f : BodyOf(f)' = BodyOf(f)
      BY <2>1, FramesStay
    <3> QED BY <2>1, <2>4, <3>1, <3>2, <3>3 DEF NeverMisreads
  <2> QED BY <2>1, <2>2, <2>3, <2>4, <2>5 DEF IInv, OnlyTheLivingParse
<1> QED BY <1>1, <1>2, <1>3, <1>4, <1>5, <1>6, <1>7 DEF Next, Loop

\* The buffer is what was received and not yet taken off, in every state.
THEOREM AlwaysConsistent == Spec => []IInv
  BY InitKeeps, NextKeeps, PTL DEF Spec

\* What the loop keeps has its type: it never numbers a frame the peer has not
\* sent (src/mcp-server.ts).
THEOREM TypeCorrect == Spec => []TypeOK
<1>1. IInv => TypeOK
  BY DEF IInv
<1> QED BY <1>1, AlwaysConsistent, PTL

\* However the stream is cut, with or without lengths, the loop handles whole
\* frames of the peer, each once, in order, and dies of nothing but one that
\* is no JSON or null.
THEOREM NeverMisreadsHolds == Spec => []NeverMisreads
<1>1. IInv => NeverMisreads
  BY DEF IInv
<1> QED BY <1>1, AlwaysConsistent, PTL

\* Each request handled is under way or answered, once, and no other is.
THEOREM AnswersItsRequestsHolds == Spec => []AnswersItsRequests
<1>1. IInv => AnswersItsRequests
  BY DEF IInv
<1> QED BY <1>1, AlwaysConsistent, PTL

-----------------------------------------------------------------------------
(* A peer that keeps to the protocol.                                      *)

\* The frames handled are the first of the stream, all that is taken off, and
\* between two data events the next of them is not yet whole.
InStep ==
    LET k == Len(handled)
    IN  /\ k <= Len(frames) /\ From = End(k)
        /\ \A i \in 1 .. k : handled[i] = i
        /\ ~ parsing => k = Len(frames) \/ received < End(k + 1)

ProtocolInv == WellFormed => alive /\ InStep

\* Two frames end at two places.
LEMMA EndsApart ==
    ASSUME frames \in Streams, NEW f \in 0 .. Len(frames), NEW g \in 0 .. Len(frames), f < g
    PROVE  End(f) < End(g)
<1>1. f \in 0 .. g - 1 /\ g - 1 \in 0 .. Len(frames) /\ g \in Numbers
  BY FramesType
<1>2. End(f) <= End(g - 1) /\ End(g - 1) \in Nat /\ End(f) \in Nat
  BY <1>1, EndsGrow, FramesType
<1>3. End(g) = End(g - 1) + Size(g) /\ Size(g) \in Nat /\ Size(g) >= 4
  BY <1>1, StreamHasShape, FramesType DEF StreamShape
<1> QED BY <1>2, <1>3

\* The first separator is that of the next frame, its length is read there, and
\* the frame ends where it should.
LEMMA NextFrameIsCut ==
    ASSUME IInv, WellFormed, InStep, SeparatorIndex(buffer) # 0
    PROVE  /\ Len(handled) + 1 \in Numbers /\ LengthMatches(buffer) # {}
           /\ From + FrameLength(buffer) = End(Len(handled) + 1)
<1> DEFINE k == Len(handled)
           s == SeparatorIndex(buffer)
           N == Len(frames)
<1>1. /\ frames \in Streams /\ Stretch(buffer, From) /\ From \in Nat
      /\ Len(buffer) \in Nat /\ N \in Nat /\ Numbers = 1 .. N
  BY InTheBuffer, FramesType
<1>2. k \in 0 .. N /\ From = End(k)
  <2>1. handled \in Seq(Numbers)
    BY DEF IInv, TypeOK
  <2> QED BY <1>1, <2>1 DEF InStep
<1> HIDE DEF k, N
<1>3. ASSUME NEW f \in Numbers, From + s = End(f - 1) + 3, s \in 1 .. Len(buffer) - 1,
             \A g \in Numbers : g < f => End(g - 1) + 3 <= From
      PROVE  f = k + 1
  <2>1. End(f) = End(f - 1) + Size(f) /\ End(f - 1) \in Nat /\ Size(f) \in Nat /\ Size(f) >= 4
    BY <1>1, StreamHasShape, FramesType DEF StreamShape
  <2>2. From < End(f)
    BY <1>1, <1>3, <2>1
  <2>3. f \in 0 .. Len(frames) /\ k \in 0 .. Len(frames)
    BY <1>1, <1>2 DEF N
  <2>4. k < f
    BY <1>1, <1>2, <2>2, <2>3, EarlierFrame
  <2>5. k + 1 \in Numbers /\ (k + 1) - 1 = k
    BY <1>1, <1>2, <2>4
  <2>6. k + 1 < f => End(k) + 3 <= From
    BY <1>3, <2>5
  <2>7. ~ (k + 1 < f)
    BY <1>1, <1>2, <2>6
  <2> QED BY <1>1, <1>2, <2>4, <2>7
<1>4. PICK f \in Numbers :
        /\ s \in 1 .. Len(buffer) - 1 /\ From + s = End(f - 1) + 3
        /\ \A g \in Numbers : g < f => End(g - 1) + 3 <= From
  BY <1>1, SeparatorOfAFrame
<1>5. k + 1 \in Numbers /\ f = k + 1 /\ f - 1 = k /\ s = 3 /\ Len(buffer) >= 4
  <2>1. f = k + 1
    BY <1>3, <1>4
  <2>2. f - 1 = k
    BY <1>2, <2>1
  <2>3. From + s = From + 3
    BY <1>2, <1>4, <2>2
  <2>4. s = 3
    BY <1>1, <1>4, <2>3
  <2> QED BY <1>1, <1>4, <2>1, <2>2, <2>4
<1>6. /\ buffer[1] = [of |-> k + 1, part |-> "name"]
      /\ buffer[2] = [of |-> k + 1, part |-> "number"]
  <2>1. 1 \in 1 .. Len(buffer) /\ 2 \in 1 .. Len(buffer)
    BY <1>1, <1>5
  <2>2. 1 \in 1 .. Size(k + 1) /\ 2 \in 1 .. Size(k + 1)
    BY <1>1, <1>5, FramesType
  <2>3. /\ Stream[End((k + 1) - 1) + 1] = [of |-> k + 1, part |-> PartAt(1)]
        /\ Stream[End((k + 1) - 1) + 2] = [of |-> k + 1, part |-> PartAt(2)]
    BY <1>1, <1>5, <2>2, StreamHasShape DEF StreamShape
  <2>4. (k + 1) - 1 = k
    BY <1>2
  <2>5. buffer[1] = Stream[From + 1] /\ buffer[2] = Stream[From + 2]
    BY <1>1, <2>1 DEF Stretch
  <2> QED BY <1>2, <2>3, <2>4, <2>5, PartsToldApart
<1>7. 1 \in LengthMatches(buffer)
  <2>1. frames[k + 1].length
    BY <1>5 DEF WellFormed
  <2>2. /\ 1 \in 1 .. s - 1
        /\ buffer[1].part = "name" /\ buffer[1 + 1].part = "number"
        /\ buffer[1].of = buffer[1 + 1].of /\ frames[buffer[1].of].length
    BY <1>5, <1>6, <2>1
  <2> QED BY <2>2 DEF LengthMatches
<1>8. PICK g \in Numbers :
        From + s = End(g - 1) + 3 /\ From + FrameLength(buffer) = End(g)
  BY <1>1, <1>7, FrameIsCut
<1>9. End(g - 1) = End(f - 1)
  <2>1. End(g - 1) \in Nat /\ End(f - 1) \in Nat
    BY <1>1, StreamHasShape DEF StreamShape
  <2> QED BY <1>4, <1>8, <2>1
<1>10. g = f
  <2>1. f - 1 \in 0 .. Len(frames) /\ g - 1 \in 0 .. Len(frames)
    BY <1>1 DEF N
  <2>2. End(g - 1) \in Nat /\ End(f - 1) \in Nat
    BY <1>1, StreamHasShape DEF StreamShape
  <2>3. ~ (f - 1 < g - 1) /\ ~ (g - 1 < f - 1)
    BY <1>1, <1>9, <2>1, <2>2, EndsApart
  <2> QED BY <1>1, <2>1, <2>3
<1> QED BY <1>5, <1>7, <1>8, <1>10 DEF k

\* A frame received whole has its separator in the buffer.
LEMMA NextFrameIsFound ==
    ASSUME IInv, InStep, Len(handled) + 1 \in Numbers, received >= End(Len(handled) + 1)
    PROVE  SeparatorIndex(buffer) # 0
<1> DEFINE k == Len(handled)
<1>1. k \in Nat /\ (k + 1) - 1 = k
  <2>1. handled \in Seq(Numbers)
    BY DEF IInv, TypeOK
  <2> QED BY <2>1
<1>2. From = End(k)
  BY DEF InStep
<1> HIDE DEF k
<1>3. End(k + 1) = End(k) + Size(k + 1) /\ Size(k + 1) \in Nat /\ Size(k + 1) >= 4
  BY <1>1, InTheBuffer, StreamHasShape, FramesType DEF StreamShape, k
<1>4. From < End((k + 1) - 1) + 3 /\ End((k + 1) - 1) + 4 <= From + Len(buffer)
  BY <1>1, <1>2, <1>3, InTheBuffer DEF k
<1>5. Ends(buffer) # {}
  BY <1>4, InTheBuffer, BlankLineSeparates DEF k
<1> QED BY <1>5, InTheBuffer, FirstSeparator

\* The listener returns only where the next frame is not whole.
LEMMA AwaitMoreInStep == ASSUME IInv, WellFormed, InStep, AwaitMore PROVE InStep'
<1> DEFINE k == Len(handled)
<1>1. /\ frames' = frames /\ received' = received /\ buffer' = buffer /\ handled' = handled
  BY DEF AwaitMore
<1>2. k \in Nat /\ k <= Len(frames) /\ Len(frames) \in Nat /\ Numbers = 1 .. Len(frames)
  <2>1. handled \in Seq(Numbers)
    BY DEF IInv, TypeOK
  <2> QED BY <2>1, InTheBuffer, FramesType DEF InStep
<1>3. k = Len(frames) \/ received < End(k + 1)
  <2>1. SUFFICES ASSUME k # Len(frames), ~ (received < End(k + 1)) PROVE FALSE
    OBVIOUS
  <2>2. k + 1 \in Numbers /\ k + 1 \in 0 .. Len(frames)
    BY <1>2, <2>1
  <2>3. End(k + 1) \in Nat
    BY <2>2, InTheBuffer, EndsGrow
  <2>4. received >= End(k + 1)
    BY <2>1, <2>3, InTheBuffer
  <2>5. SeparatorIndex(buffer) # 0
    BY <2>2, <2>4, NextFrameIsFound
  <2>6. From + FrameLength(buffer) = End(k + 1)
    BY <2>5, NextFrameIsCut
  <2>7. Len(buffer) < FrameLength(buffer)
    BY <2>5 DEF AwaitMore
  <2>8. FrameLength(buffer) \in Nat
    BY <2>5, InTheBuffer, NextFrameIsCut, FrameIsCut
  <2> QED BY <2>4, <2>6, <2>7, <2>8, <2>3, InTheBuffer
<1>4. End(k)' = End(k) /\ From' = From /\ End(k + 1)' = End(k + 1)
  BY <1>1, FramesStay DEF From
<1> QED BY <1>1, <1>3, <1>4, FramesStay DEF InStep

\* The loop hands out the next frame.
LEMMA HandleFrameInStep ==
    ASSUME IInv, WellFormed, InStep, NEW g \in Numbers, HandleFrame(g)
    PROVE  InStep'
<1> DEFINE k == Len(handled)
<1>1. /\ frames' = frames /\ received' = received /\ handled' = Append(handled, g)
      /\ parsing /\ parsing' = parsing /\ SeparatorIndex(buffer) # 0
  BY DEF HandleFrame, WholeFrame
<1>2. handled \in Seq(Numbers) /\ k \in Nat
  BY DEF IInv, TypeOK
<1>3. k + 1 \in Numbers /\ From + FrameLength(buffer) = End(k + 1)
  BY <1>1, NextFrameIsCut
<1>4. From + FrameLength(buffer) = End(g) /\ From' = End(g)
  BY HandleFrameIsNext, HandleFrameTakesOff
<1>5. g = k + 1
  <2>1. g \in 0 .. Len(frames) /\ k + 1 \in 0 .. Len(frames) /\ End(g) \in Nat
    BY <1>3, InTheBuffer, FramesType, EndsGrow
  <2>2. ~ (g < k + 1) /\ ~ (k + 1 < g)
    BY <1>3, <1>4, <2>1, InTheBuffer, EndsApart
  <2> QED BY <2>1, <2>2, InTheBuffer, FramesType
<1>6. /\ Len(handled') = k + 1 /\ handled'[k + 1] = g
      /\ \A i \in 1 .. k : handled'[i] = handled[i]
  BY <1>1, <1>2, Grown
<1>7. \A i \in 1 .. k + 1 : handled'[i] = i
  BY <1>2, <1>5, <1>6 DEF InStep
<1>8. k + 1 <= Len(frames)
  BY <1>3, InTheBuffer, FramesType
<1>9. From' = End(Len(handled'))
  BY <1>4, <1>5, <1>6
<1> QED BY <1>1, <1>6, <1>7, <1>8, <1>9, FramesStay DEF InStep

\* No step takes the loop out of step with a peer of the protocol.
LEMMA ProtocolKeeps == IInv /\ ProtocolInv /\ [Next]_vars => ProtocolInv'
<1> SUFFICES ASSUME IInv, ProtocolInv, [Next]_vars, WellFormed' PROVE alive' /\ InStep'
  BY DEF ProtocolInv
<1>1. frames' = frames
  BY DEF Next, Loop, Data, AwaitMore, DropBuffer, InvalidJson, HandleFrame, Respond,
         RejectNull, vars
<1>2. WellFormed
  BY <1>1 DEF WellFormed, Numbers
<1>3. alive /\ InStep
  BY <1>2 DEF ProtocolInv
<1>4. CASE Data
  <2>1. parsing' /\ alive' = alive /\ handled' = handled
    BY <1>4 DEF Data
  <2>2. PICK n \in 1 .. Len(Stream) - received :
          /\ buffer' = buffer \o SubSeq(Stream, received + 1, received + n)
          /\ received' = received + n
    BY <1>4 DEF Data
  <2>3. Len(buffer') = Len(buffer) + n /\ n \in Nat
    BY <2>2, InTheBuffer, StretchGrows
  <2>4. From' = From
    <3>1. received \in Nat /\ Len(buffer) \in Nat
      BY InTheBuffer
    <3>2. (received + n) - (Len(buffer) + n) = received - Len(buffer)
      BY <2>3, <3>1
    <3> QED BY <2>2, <2>3, <3>2 DEF From
  <2> QED BY <1>1, <1>3, <2>1, <2>4, FramesStay DEF InStep
<1>5. CASE AwaitMore
  BY <1>2, <1>3, <1>5, AwaitMoreInStep DEF AwaitMore
<1>6. CASE DropBuffer
  BY <1>2, <1>3, <1>6, NextFrameIsCut DEF DropBuffer
<1>7. CASE InvalidJson
  <2>1. PICK f \in Numbers : Body(buffer) = BodyOf(f)
    BY <1>7, WholeFrameIsOne DEF InvalidJson
  <2>2. frames[f].size > 0 /\ frames[f].kind # "invalid" /\ frames[f].size \in Nat
    BY <1>2, InTheBuffer, FramesType DEF WellFormed
  <2>3. BodyOf(f) # <<>>
    <3> DEFINE size == frames[f].size
    <3>1. BodyOf(f) = [i \in 1 .. size |-> [of |-> f, part |-> "body"]]
      BY InTheBuffer, BodyOfFrame
    <3>2. size > 0 /\ size \in Nat
      BY <2>2
    <3> HIDE DEF size
    <3>3. Len([i \in 1 .. size |-> [of |-> f, part |-> "body"]]) = size
      BY <3>2
    <3>4. Len(BodyOf(f)) # 0
      BY <3>1, <3>2, <3>3
    <3> QED BY <3>4
  <2>4. Decodes(Body(buffer), f)
    BY <2>1, <2>2, <2>3 DEF Decodes
  <2> QED BY <1>7, <2>4 DEF InvalidJson
<1>8. CASE \E g \in Numbers : HandleFrame(g)
  <2>1. PICK g \in Numbers : HandleFrame(g)
    BY <1>8
  <2> QED BY <1>2, <1>3, <2>1, HandleFrameInStep DEF HandleFrame
<1>9. CASE \E f \in Numbers : Respond(f)
  <2>1. /\ received' = received /\ buffer' = buffer /\ handled' = handled
        /\ parsing' = parsing /\ alive' = alive
    BY <1>9 DEF Respond
  <2> QED BY <1>1, <1>3, <2>1, FramesStay DEF InStep, From
<1>10. CASE \E f \in Numbers : RejectNull(f)
  <2>1. PICK f \in Numbers : RejectNull(f)
    BY <1>10
  <2>2. frames[f].kind = "null"
    BY <2>1 DEF RejectNull
  <2> QED BY <1>2, <2>2 DEF WellFormed
<1>11. CASE UNCHANGED vars
  BY <1>1, <1>3, <1>11, FramesStay DEF InStep, From, vars
<1> QED BY <1>4, <1>5, <1>6, <1>7, <1>8, <1>9, <1>10, <1>11 DEF Next, Loop

\* The loop starts in step.
LEMMA ProtocolStarts == Init => ProtocolInv
<1> SUFFICES ASSUME Init PROVE alive /\ InStep
  BY DEF ProtocolInv
<1>1. /\ frames \in Streams /\ received = 0 /\ buffer = <<>> /\ handled = <<>> /\ alive
      /\ Len(handled) = 0 /\ Len(buffer) = 0 /\ ~ parsing
  BY DEF Init
<1>2. End(0) = 0 /\ Len(frames) \in Nat /\ Numbers = 1 .. Len(frames)
  BY <1>1, StreamHasShape, FramesType DEF StreamShape
<1>3. Len(frames) # 0 => 0 < End(0 + 1)
  <2>1. SUFFICES ASSUME Len(frames) # 0 PROVE 0 < End(0 + 1)
    OBVIOUS
  <2>2. 0 \in 0 .. Len(frames) /\ 0 + 1 \in 0 .. Len(frames) /\ 0 < 0 + 1
    BY <1>2, <2>1
  <2> QED BY <1>1, <1>2, <2>2, EndsApart
<1> QED BY <1>1, <1>2, <1>3 DEF InStep, From

\* In step, what is handled is every frame received whole.
LEMMA InStepHandles ==
    ASSUME IInv, InStep, ~ parsing
    PROVE  handled = [f \in 1 .. WholeFrames |-> f]
<1> DEFINE k == Len(handled)
           N == Len(frames)
<1>1. /\ handled \in Seq(Numbers) /\ k \in Nat /\ N \in Nat /\ Numbers = 1 .. N
      /\ frames \in Streams
  BY InTheBuffer, FramesType DEF IInv, TypeOK
<1>2. /\ k <= N /\ From = End(k) /\ \A i \in 1 .. k : handled[i] = i
      /\ k = N \/ received < End(k + 1)
  BY DEF InStep
<1> HIDE DEF k, N
<1>3. \A g \in 0 .. N : End(g) \in Nat /\ \A f \in 0 .. g : End(f) <= End(g)
  BY <1>1, EndsGrow DEF N
<1>4. End(k) <= received
  BY <1>1, <1>2, <1>3, InTheBuffer
<1>5. ASSUME NEW f \in 1 .. N PROVE End(f) <= received <=> f <= k
  <2>1. CASE f <= k
    <3>1. f \in 0 .. k /\ k \in 0 .. N
      BY <1>1, <1>2, <2>1
    <3>2. End(f) <= End(k) /\ End(f) \in Nat /\ End(k) \in Nat
      BY <1>1, <1>3, <3>1
    <3> QED BY <1>4, <2>1, <3>2, InTheBuffer
  <2>2. CASE ~ (f <= k)
    <3>1. k + 1 \in 0 .. f /\ f \in 0 .. N /\ k + 1 \in 0 .. N /\ k # N
      BY <1>1, <1>2, <2>2
    <3>2. End(k + 1) <= End(f) /\ End(f) \in Nat /\ End(k + 1) \in Nat /\ received < End(k + 1)
      BY <1>2, <1>3, <3>1
    <3> QED BY <2>2, <3>2, InTheBuffer
  <2> QED BY <2>1, <2>2
<1>6. {f \in Numbers : End(f) <= received} = 1 .. k
  BY <1>1, <1>2, <1>5
<1>7. WholeFrames = Cardinality(1 .. k)
  BY <1>6 DEF WholeFrames, End
<1>8. Cardinality(1 .. k) = k
  BY <1>1, FS_Interval
<1>9. handled = [f \in 1 .. k |-> f]
  BY <1>1, <1>2 DEF k
<1> QED BY <1>7, <1>8, <1>9

\* Whatever the peer of the protocol sends, however long, and wherever the
\* chunks end: between two data events exactly the frames received whole have
\* been handled, in the order they were sent.
THEOREM ChunkingIsInvisibleHolds == Spec => []ChunkingIsInvisible
<1>1. IInv /\ ProtocolInv => ChunkingIsInvisible
  BY InStepHandles DEF ChunkingIsInvisible, ProtocolInv
<1>2. Spec => []ProtocolInv
  BY AlwaysConsistent, ProtocolStarts, ProtocolKeeps, PTL DEF Spec
<1> QED BY <1>1, <1>2, AlwaysConsistent, PTL

=============================================================================
