--------------------------- MODULE ObjectKeyProofs ---------------------------
(***************************************************************************)
(* What keeps the backups of two databases apart, for every name that a    *)
(* host, a database or a prefix may have: keys and scopes are made without *)
(* collisions, retention passes stay inside them, and the policies that    *)
(* onboarding writes cover them.                                           *)
(*                                                                         *)
(* Every fact about a string is one about a loop over it.  Induction over  *)
(* the rounds of a loop is an argument by the least round at which         *)
(* something would be wrong.                                               *)
(***************************************************************************)
EXTENDS Onboard, SequenceTheorems, WellFoundedInduction, TLAPS

\* A set of naturals has a least one.
LEMMA LeastNatural ==
  ASSUME NEW S \in SUBSET Nat, S # {}
  PROVE  \E m \in S : \A k \in S : m <= k
<1>1. IsWellFoundedOn({p \in Nat \X Nat : p[1] < p[2]}, Nat)
  BY NatLessThanWellFounded, Zenon DEF OpToRel
<1>2. PICK x \in S : \A y \in S : <<y, x>> \notin {p \in Nat \X Nat : p[1] < p[2]}
  BY <1>1, WFMin, Zenon
<1>3. \A y \in S : y \in Nat /\ x \in Nat /\ ~(y < x)
  BY <1>2
<1> QED BY <1>3

\* What two sequences make together.
LEMMA Concat ==
  ASSUME NEW S, NEW a \in Seq(S), NEW b \in Seq(S), NEW c, c = a \o b
  PROVE  /\ c \in Seq(S) /\ Len(c) = Len(a) + Len(b) /\ Len(a) \in Nat /\ Len(b) \in Nat
         /\ \A k \in 1..Len(a) : c[k] = a[k]
         /\ \A k \in 1..Len(b) : c[Len(a) + k] = b[k]
OBVIOUS

LEMMA Prepend ==
  ASSUME NEW S, NEW p \in S, NEW b \in Seq(S), Len(b) = 2, NEW c, c = <<p>> \o b
  PROVE  c \in Seq(S) /\ Len(c) = 3 /\ c[1] = p /\ c[2] = b[1] /\ c[3] = b[2]
<1>1. ASSUME NEW a, a = <<p>>
      PROVE  c \in Seq(S) /\ Len(c) = 3 /\ c[1] = p /\ c[2] = b[1] /\ c[3] = b[2]
  <2>1. a \in Seq(S) /\ Len(a) = 1 /\ a[1] = p
    BY <1>1
  <2>2. c = a \o b
    BY <1>1
  <2> QED BY <2>1, <2>2, Concat
<1> QED BY <1>1

-----------------------------------------------------------------------------
(* The three loops can be run for any number of rounds.                    *)

IsFlatten(f, seqs, n) == f = [i \in 1..n |-> IF i = 1 THEN seqs[i] ELSE f[i - 1] \o seqs[i]]

LEMMA FlattenIsDefined ==
  ASSUME NEW seqs, NEW n \in Nat
  PROVE  \E f : IsFlatten(f, seqs, n)
<1> DEFINE Loop(f, m) == IsFlatten(f, seqs, m)
           B == {m \in Nat : ~\E f : Loop(f, m)}
<1> SUFFICES ASSUME B # {} PROVE FALSE
  OBVIOUS
<1>1. PICK m \in B : \A k \in B : m <= k
  BY LeastNatural
<1>2. CASE m = 0
  <2>1. Loop([i \in 1..0 |-> 0], 0)
    BY DEF IsFlatten
  <2> QED BY <1>1, <1>2, <2>1
<1>3. CASE m # 0
  <2>1. m - 1 \in Nat /\ m - 1 \notin B
    BY <1>1, <1>3
  <2>2. PICK f : Loop(f, m - 1)
    BY <2>1
  <2> DEFINE g == [i \in 1..m |-> IF i = m THEN (IF m = 1 THEN seqs[1] ELSE f[m - 1] \o seqs[m]) ELSE f[i]]
  <2>3. Loop(g, m)
    <3>1. \A i \in 1..m : i # m => i \in 1..(m - 1) /\ (i # 1 => i - 1 \in 1..(m - 1))
      BY <1>1, <1>3
    <3>2. \A i \in 1..m : i # 1 => g[i - 1] = f[i - 1]
      BY <1>1
    <3>3. \A i \in 1..m : g[i] = IF i = 1 THEN seqs[i] ELSE g[i - 1] \o seqs[i]
      BY <1>1, <1>3, <2>2, <3>1, <3>2 DEF IsFlatten
    <3> HIDE DEF g
    <3> QED BY <3>3 DEF g, IsFlatten
  <2> QED BY <1>1, <2>3
<1> QED BY <1>2, <1>3

IsSplit(f, s, n) == f = [i \in 0..n |-> IF i = 0 THEN << <<>> >> ELSE SplitAt(f[i - 1], s[i])]

LEMMA SplitIsDefined ==
  ASSUME NEW s, NEW n \in Nat
  PROVE  \E f : IsSplit(f, s, n)
<1> DEFINE Loop(f, m) == IsSplit(f, s, m)
           B == {m \in Nat : ~\E f : Loop(f, m)}
<1> SUFFICES ASSUME B # {} PROVE FALSE
  OBVIOUS
<1>1. PICK m \in B : \A k \in B : m <= k
  BY LeastNatural
<1>2. CASE m = 0
  <2>1. Loop([i \in 0..0 |-> << <<>> >>], 0)
    BY DEF IsSplit
  <2> QED BY <1>1, <1>2, <2>1
<1>3. CASE m # 0
  <2>1. m - 1 \in Nat /\ m - 1 \notin B
    BY <1>1, <1>3
  <2>2. PICK f : Loop(f, m - 1)
    BY <2>1
  <2> DEFINE g == [i \in 0..m |-> IF i = m THEN SplitAt(f[m - 1], s[m]) ELSE f[i]]
  <2>3. Loop(g, m)
    <3>1. \A i \in 0..m : i # m => i \in 0..(m - 1) /\ (i # 0 => i - 1 \in 0..(m - 1))
      BY <1>1, <1>3
    <3>2. \A i \in 0..m : i # 0 => g[i - 1] = f[i - 1]
      BY <1>1
    <3>3. \A i \in 0..m : g[i] = IF i = 0 THEN << <<>> >> ELSE SplitAt(g[i - 1], s[i])
      BY <1>1, <1>3, <2>2, <3>1, <3>2 DEF IsSplit
    <3> HIDE DEF g
    <3> QED BY <3>3 DEF g, IsSplit
  <2> QED BY <1>1, <2>3
<1> QED BY <1>2, <1>3

IsClean(f, segs, n) == f = [i \in 0..n |-> IF i = 0 THEN <<>> ELSE Enter(f[i - 1], segs[i])]

LEMMA CleanIsDefined ==
  ASSUME NEW segs, NEW n \in Nat
  PROVE  \E f : IsClean(f, segs, n)
<1> DEFINE Loop(f, m) == IsClean(f, segs, m)
           B == {m \in Nat : ~\E f : Loop(f, m)}
<1> SUFFICES ASSUME B # {} PROVE FALSE
  OBVIOUS
<1>1. PICK m \in B : \A k \in B : m <= k
  BY LeastNatural
<1>2. CASE m = 0
  <2>1. Loop([i \in 0..0 |-> <<>>], 0)
    BY DEF IsClean
  <2> QED BY <1>1, <1>2, <2>1
<1>3. CASE m # 0
  <2>1. m - 1 \in Nat /\ m - 1 \notin B
    BY <1>1, <1>3
  <2>2. PICK f : Loop(f, m - 1)
    BY <2>1
  <2> DEFINE g == [i \in 0..m |-> IF i = m THEN Enter(f[m - 1], segs[m]) ELSE f[i]]
  <2>3. Loop(g, m)
    <3>1. \A i \in 0..m : i # m => i \in 0..(m - 1) /\ (i # 0 => i - 1 \in 0..(m - 1))
      BY <1>1, <1>3
    <3>2. \A i \in 0..m : i # 0 => g[i - 1] = f[i - 1]
      BY <1>1
    <3>3. \A i \in 0..m : g[i] = IF i = 0 THEN <<>> ELSE Enter(g[i - 1], segs[i])
      BY <1>1, <1>3, <2>2, <3>1, <3>2 DEF IsClean
    <3> HIDE DEF g
    <3> QED BY <3>3 DEF g, IsClean
  <2> QED BY <1>1, <2>3
<1> QED BY <1>2, <1>3

\* Their rounds.
LEMMA FlattenRounds ==
  ASSUME NEW seqs, NEW n \in Nat \ {0}, Len(seqs) = n
  PROVE  \E f : /\ FlattenSeq(seqs) = f[n]
                /\ f[1] = seqs[1]
                /\ \A i \in 2..n : f[i] = f[i - 1] \o seqs[i]
<1> DEFINE f == CHOOSE f : IsFlatten(f, seqs, n)
<1>1. IsFlatten(f, seqs, n)
  BY FlattenIsDefined
<1>2. FlattenSeq(seqs) = f[n]
  BY DEF FlattenSeq, IsFlatten
<1> HIDE DEF f
<1>3. \A i \in 1..n : f[i] = IF i = 1 THEN seqs[i] ELSE f[i - 1] \o seqs[i]
  BY <1>1, Zenon DEF IsFlatten
<1>4. f[1] = seqs[1]
  BY <1>3
<1>5. ASSUME NEW i \in 2..n PROVE f[i] = f[i - 1] \o seqs[i]
  <2>1. i \in 1..n /\ i # 1
    OBVIOUS
  <2> QED BY <1>3, <2>1, Zenon
<1> QED BY <1>2, <1>4, <1>5

LEMMA SplitRounds ==
  ASSUME NEW s, NEW n \in Nat, Len(s) = n
  PROVE  \E f : /\ Split(s) = f[n]
                /\ f[0] = << <<>> >>
                /\ \A i \in 1..n : f[i] = SplitAt(f[i - 1], s[i])
<1> DEFINE f == CHOOSE f : IsSplit(f, s, n)
<1>1. IsSplit(f, s, n)
  BY SplitIsDefined
<1>2. Split(s) = f[n]
  BY DEF Split, IsSplit
<1> HIDE DEF f
<1>3. \A i \in 0..n : f[i] = IF i = 0 THEN << <<>> >> ELSE SplitAt(f[i - 1], s[i])
  BY <1>1, Zenon DEF IsSplit
<1>4. f[0] = << <<>> >> /\ \A i \in 1..n : f[i] = SplitAt(f[i - 1], s[i])
  BY <1>3
<1> QED BY <1>2, <1>4

LEMMA CleanRounds ==
  ASSUME NEW segs, NEW n \in Nat, Len(segs) = n
  PROVE  \E f : /\ Clean(segs) = f[n]
                /\ f[0] = <<>>
                /\ \A i \in 1..n : f[i] = Enter(f[i - 1], segs[i])
<1> DEFINE f == CHOOSE f : IsClean(f, segs, n)
<1>1. IsClean(f, segs, n)
  BY CleanIsDefined
<1>2. Clean(segs) = f[n]
  BY DEF Clean, IsClean
<1> HIDE DEF f
<1>3. \A i \in 0..n : f[i] = IF i = 0 THEN <<>> ELSE Enter(f[i - 1], segs[i])
  BY <1>1, Zenon DEF IsClean
<1>4. f[0] = <<>> /\ \A i \in 1..n : f[i] = Enter(f[i - 1], segs[i])
  BY <1>3
<1> QED BY <1>2, <1>4

-----------------------------------------------------------------------------
(* sanitizeKeySegment.                                                     *)

\* The table of the encoded characters.
LEMMA Table ==
  /\ DOMAIN Encoded = {"/", "%", "space", "\\"}
  /\ Encoded["/"] = <<"2", "F">> /\ Encoded["%"] = <<"2", "5">>
  /\ Encoded["space"] = <<"2", "0">> /\ Encoded["\\"] = <<"5", "C">>
<1>1. DOMAIN Encoded = {"/", "%", "space", "\\"}
  BY DEF Encoded
<1>2. Encoded["/"] = <<"2", "F">>
  BY DEF Encoded
<1>3. Encoded["%"] = <<"2", "5">>
  BY DEF Encoded
<1>4. Encoded["space"] = <<"2", "0">>
  BY DEF Encoded
<1>5. Encoded["\\"] = <<"5", "C">>
  BY DEF Encoded
<1> QED BY <1>1, <1>2, <1>3, <1>4, <1>5

LEMMA Letters == {"/", "%", "space", "\\", ".", "underscore", "0", "2", "5", "C", "E", "F"} \subseteq Chars
BY ObjectKeyAssumption DEF ObjectKeyAssumption

\* What a character becomes: itself, or a percent sign and two digits that tell which
\* one it was.
LEMMA EscapeShape ==
  ASSUME NEW c \in Chars
  PROVE  /\ Escape(c) \in Seq(Chars)
         /\ \/ /\ c \notin DOMAIN Encoded
               /\ Len(Escape(c)) = 1 /\ Escape(c)[1] = c /\ c # "%" /\ c # "/"
            \/ /\ c \in DOMAIN Encoded
               /\ Len(Escape(c)) = 3 /\ Escape(c)[1] = "%"
               /\ Escape(c)[2] = Encoded[c][1] /\ Escape(c)[3] = Encoded[c][2]
<1>1. CASE c \notin DOMAIN Encoded
  <2>1. Escape(c) = <<c>>
    BY <1>1 DEF Escape
  <2> QED BY <1>1, <2>1, Table
<1>2. CASE c \in DOMAIN Encoded
  <2>1. Escape(c) = <<"%">> \o Encoded[c]
    BY <1>2 DEF Escape
  <2>2. Encoded[c] \in Seq(Chars) /\ Len(Encoded[c]) = 2
    <3>1. <<"2", "F">> \in Seq(Chars) /\ <<"2", "5">> \in Seq(Chars) /\ <<"2", "0">> \in Seq(Chars) /\ <<"5", "C">> \in Seq(Chars)
      BY Letters
    <3>2. Len(<<"2", "F">>) = 2 /\ Len(<<"2", "5">>) = 2 /\ Len(<<"2", "0">>) = 2 /\ Len(<<"5", "C">>) = 2
      OBVIOUS
    <3>3. c = "/" \/ c = "%" \/ c = "space" \/ c = "\\"
      BY <1>2, Table
    <3> QED BY <3>1, <3>2, <3>3, Table, Zenon
  <2>3. "%" \in Chars
    BY Letters
  <2>4. /\ Escape(c) \in Seq(Chars) /\ Len(Escape(c)) = 3 /\ Escape(c)[1] = "%"
        /\ Escape(c)[2] = Encoded[c][1] /\ Escape(c)[3] = Encoded[c][2]
    BY <2>1, <2>2, <2>3, Prepend
  <2> QED BY <1>2, <2>4
<1> QED BY <1>1, <1>2

\* The digits tell the characters apart.
LEMMA DigitsDiffer ==
  ASSUME NEW c \in DOMAIN Encoded, NEW d \in DOMAIN Encoded, Encoded[c][1] = Encoded[d][1], Encoded[c][2] = Encoded[d][2]
  PROVE  c = d
BY DEF Encoded

LEMMA DigitsAreNoDot ==
  ASSUME NEW c \in DOMAIN Encoded
  PROVE  ~(Encoded[c][1] = "2" /\ Encoded[c][2] = "E")
BY DEF Encoded

\* The loop of sanitizeKeySegment over a name that is none of the special ones.
Encode(s) == FlattenSeq([i \in DOMAIN s |-> Escape(s[i])])

IsEncoding(e, s) ==
  /\ Encode(s) = e[Len(s)] /\ e[0] = <<>>
  /\ \A i \in 1..Len(s) : e[i] = e[i - 1] \o Escape(s[i])
  /\ e \in [0..Len(s) -> Seq(Chars)]

LEMMA EncodeRounds ==
  ASSUME NEW s \in Seq(Chars), s # <<>>
  PROVE  \E e : IsEncoding(e, s)
<1> DEFINE n == Len(s)
           seqs == [i \in DOMAIN s |-> Escape(s[i])]
<1>1. n \in Nat \ {0} /\ DOMAIN s = 1..n
  OBVIOUS
<1>2. Len(seqs) = n /\ \A i \in 1..n : seqs[i] = Escape(s[i])
  BY <1>1
<1> HIDE DEF seqs, n
<1>3. PICK f : /\ FlattenSeq(seqs) = f[n]
               /\ f[1] = seqs[1]
               /\ \A i \in 2..n : f[i] = f[i - 1] \o seqs[i]
  <2>1. n \in Nat \ {0}
    BY <1>1
  <2>2. Len(seqs) = n
    BY <1>2
  <2> QED BY <2>1, <2>2, FlattenRounds, Zenon
<1> DEFINE e == [i \in 0..n |-> IF i = 0 THEN <<>> ELSE f[i]]
<1>4. ASSUME NEW i \in 1..n PROVE Escape(s[i]) \in Seq(Chars)
  BY <1>1, EscapeShape DEF n
<1>5. e[0] = <<>> /\ e[n] = Encode(s)
  BY <1>1, <1>3 DEF Encode, seqs
<1>6. ASSUME NEW i \in 1..n PROVE e[i] = e[i - 1] \o Escape(s[i])
  <2>1. CASE i = 1
    BY <1>1, <1>2, <1>3, <1>4, <2>1
  <2>2. CASE i # 1
    <3>1. e[i] = f[i] /\ e[i - 1] = f[i - 1] /\ i \in 2..n /\ seqs[i] = Escape(s[i])
      BY <1>1, <1>2, <2>2
    <3>2. f[i] = f[i - 1] \o seqs[i]
      BY <1>3, <3>1
    <3> QED BY <3>1, <3>2, Zenon
  <2> QED BY <2>1, <2>2
<1> HIDE DEF e
<1>7. \A i \in 0..n : e[i] \in Seq(Chars)
  <2> DEFINE B == {i \in 0..n : e[i] \notin Seq(Chars)}
  <2> SUFFICES ASSUME B # {} PROVE FALSE
    OBVIOUS
  <2>1. PICK i \in B : \A k \in B : i <= k
    <3>1. B \in SUBSET Nat
      BY <1>1
    <3> QED BY <3>1, LeastNatural
  <2>2. i # 0
    <3>1. <<>> \in Seq(Chars)
      OBVIOUS
    <3> QED BY <1>5, <2>1, <3>1
  <2>3. i - 1 \in 0..n /\ i \in 1..n /\ e[i - 1] \in Seq(Chars)
    BY <1>1, <2>1, <2>2
  <2>4. e[i] = e[i - 1] \o Escape(s[i]) /\ Escape(s[i]) \in Seq(Chars)
    BY <1>4, <1>6, <2>3
  <2>5. e[i - 1] \o Escape(s[i]) \in Seq(Chars)
    BY <2>3, <2>4, Concat
  <2>6. e[i] \in Seq(Chars)
    BY <2>4, <2>5, Zenon
  <2> QED BY <2>1, <2>6
<1>8. e \in [0..n -> Seq(Chars)]
  BY <1>7 DEF e
<1> QED BY <1>1, <1>5, <1>6, <1>8 DEF IsEncoding, n

\* One sequence begins another one.
Begins(u, v) ==
  Len(u) \in Nat /\ Len(v) \in Nat /\ Len(u) <= Len(v) /\ \A k \in 1..Len(u) : v[k] = u[k]

LEMMA BeginsSelf ==
  ASSUME NEW S, NEW u \in Seq(S)
  PROVE  Begins(u, u)
BY DEF Begins

LEMMA BeginsOn ==
  ASSUME NEW u, NEW v, NEW w, Begins(u, v), Begins(v, w)
  PROVE  Begins(u, w)
BY DEF Begins

LEMMA ConcatBegins ==
  ASSUME NEW S, NEW u \in Seq(S), NEW w \in Seq(S), NEW v, v = u \o w
  PROVE  Begins(u, v)
<1>1. /\ Len(u) \in Nat /\ Len(w) \in Nat /\ Len(v) = Len(u) + Len(w)
      /\ \A k \in 1..Len(u) : v[k] = u[k]
  BY Concat
<1>2. Len(v) \in Nat /\ Len(u) <= Len(v)
  BY <1>1
<1> QED BY <1>1, <1>2 DEF Begins

\* A round appends to what is written.
LEMMA EncodeRound ==
  ASSUME NEW s \in Seq(Chars), NEW e, IsEncoding(e, s), NEW i \in 1..Len(s)
  PROVE  /\ s[i] \in Chars /\ e[i - 1] \in Seq(Chars) /\ e[i] \in Seq(Chars)
         /\ Escape(s[i]) \in Seq(Chars) /\ e[i] = e[i - 1] \o Escape(s[i])
<1>1. s[i] \in Chars /\ i \in 0..Len(s) /\ i - 1 \in 0..Len(s)
  OBVIOUS
<1>2. e[i] = e[i - 1] \o Escape(s[i])
  BY DEF IsEncoding
<1>3. e[i - 1] \in Seq(Chars) /\ e[i] \in Seq(Chars)
  BY <1>1 DEF IsEncoding
<1>4. Escape(s[i]) \in Seq(Chars)
  BY <1>1, EscapeShape
<1> QED BY <1>1, <1>2, <1>3, <1>4

LEMMA RoundBegins ==
  ASSUME NEW s \in Seq(Chars), NEW e, IsEncoding(e, s), NEW i \in 1..Len(s)
  PROVE  Begins(e[i - 1], e[i])
BY EncodeRound, ConcatBegins

\* What is written is not taken back.
LEMMA EncodingGrows ==
  ASSUME NEW s \in Seq(Chars), NEW e, IsEncoding(e, s), NEW i \in 0..Len(s), NEW m \in i..Len(s)
  PROVE  Begins(e[i], e[m])
<1>0. ASSUME NEW x \in 1..Len(s) PROVE Begins(e[x - 1], e[x])
  BY RoundBegins
<1> DEFINE B == {x \in i..Len(s) : ~Begins(e[i], e[x])}
<1>1. i \in Nat /\ Len(s) \in Nat
  OBVIOUS
<1> SUFFICES ASSUME B # {} PROVE FALSE
  OBVIOUS
<1>2. PICK x \in B : \A k \in B : x <= k
  <2>1. B \in SUBSET Nat
    BY <1>1
  <2> HIDE DEF B
  <2> QED BY <2>1, LeastNatural
<1>3. e[i] \in Seq(Chars)
  BY DEF IsEncoding
<1>4. x # i
  BY <1>2, <1>3, BeginsSelf
<1>5. x - 1 \in i..Len(s) /\ x \in 1..Len(s) /\ Begins(e[i], e[x - 1])
  BY <1>1, <1>2, <1>4
<1>6. Begins(e[i], e[x])
  BY <1>0, <1>5, BeginsOn
<1> QED BY <1>6

\* What a round wrote can be read from what all of them wrote.
LEMMA ReadBack ==
  ASSUME NEW u \in Seq(Chars), NEW w \in Seq(Chars), NEW z, Begins(u \o w, z), NEW k \in 1..Len(w)
  PROVE  z[Len(u) + k] = w[k]
<1> DEFINE v == u \o w
<1>1. v = u \o w /\ Begins(v, z)
  OBVIOUS
<1> HIDE DEF v
<1>2. /\ Len(u) \in Nat /\ Len(w) \in Nat /\ Len(v) = Len(u) + Len(w)
      /\ v[Len(u) + k] = w[k]
  BY <1>1, Concat
<1>3. Len(u) + k \in 1..Len(v)
  BY <1>2
<1>4. z[Len(u) + k] = v[Len(u) + k]
  BY <1>1, <1>3 DEF Begins
<1> QED BY <1>2, <1>4

LEMMA SameCharacter ==
  ASSUME NEW c \in Chars, NEW d \in Chars, NEW u \in Seq(Chars), NEW v, NEW w, NEW z,
         v = u \o Escape(c), w = u \o Escape(d), Begins(v, z), Begins(w, z)
  PROVE  c = d
<1>1. ASSUME NEW k \in 1..Len(Escape(c)) PROVE z[Len(u) + k] = Escape(c)[k]
  <2> DEFINE x == Escape(c)
  <2>1. x \in Seq(Chars)
    BY EscapeShape
  <2>2. Begins(u \o x, z) /\ k \in 1..Len(x)
    BY Zenon
  <2>3. z[Len(u) + k] = x[k]
    <3> HIDE DEF x
    <3> QED BY <2>1, <2>2, ReadBack
  <2> QED BY <2>3
<1>2. ASSUME NEW k \in 1..Len(Escape(d)) PROVE z[Len(u) + k] = Escape(d)[k]
  <2> DEFINE x == Escape(d)
  <2>1. x \in Seq(Chars)
    BY EscapeShape
  <2>2. Begins(u \o x, z) /\ k \in 1..Len(x)
    BY Zenon
  <2>3. z[Len(u) + k] = x[k]
    <3> HIDE DEF x
    <3> QED BY <2>1, <2>2, ReadBack
  <2> QED BY <2>3
<1>3. Len(Escape(c)) \in {1, 3} /\ Len(Escape(d)) \in {1, 3}
  BY EscapeShape
<1>4. Escape(c)[1] = Escape(d)[1]
  BY <1>1, <1>2, <1>3
<1>5. CASE c \notin DOMAIN Encoded \/ d \notin DOMAIN Encoded
  BY <1>4, <1>5, EscapeShape
<1>6. CASE c \in DOMAIN Encoded /\ d \in DOMAIN Encoded
  <2>1. Len(Escape(c)) = 3 /\ Len(Escape(d)) = 3
    BY <1>6, EscapeShape
  <2>2. Escape(c)[2] = Escape(d)[2] /\ Escape(c)[3] = Escape(d)[3]
    BY <1>1, <1>2, <2>1
  <2>3. Encoded[c][1] = Encoded[d][1] /\ Encoded[c][2] = Encoded[d][2]
    BY <1>6, <2>2, EscapeShape
  <2> QED BY <1>6, <2>3, DigitsDiffer
<1> QED BY <1>5, <1>6

LEMMA NotLonger ==
  ASSUME NEW a \in Nat, NEW b, NEW c, c \in {1, 3}, b = a + c, b <= a
  PROVE  FALSE
OBVIOUS

\* No two names are encoded alike.
LEMMA EncodeSameShorter ==
  ASSUME NEW s \in Seq(Chars), NEW t \in Seq(Chars), s # <<>>, t # <<>>, Encode(s) = Encode(t), Len(s) <= Len(t)
  PROVE  s = t
<1>1. PICK e : IsEncoding(e, s)
  BY EncodeRounds
<1>2. PICK f : IsEncoding(f, t)
  BY EncodeRounds
<1> DEFINE z == Encode(s)
           n == Len(s)
<1>3. n \in Nat /\ n # 0 /\ Len(t) \in Nat /\ n <= Len(t)
  OBVIOUS
<1>4. e[n] = z /\ f[Len(t)] = z /\ e[0] = <<>> /\ f[0] = <<>>
  BY <1>1, <1>2 DEF IsEncoding
<1>5. ASSUME NEW i \in 1..n PROVE Begins(e[i], z) /\ Begins(f[i], z)
  <2>1. i \in 0..Len(s) /\ n \in i..Len(s) /\ i \in 0..Len(t) /\ Len(t) \in i..Len(t)
    BY <1>3
  <2>2. Begins(e[i], e[n])
    BY <1>1, <2>1, EncodingGrows
  <2>3. Begins(f[i], f[Len(t)])
    BY <1>2, <2>1, EncodingGrows
  <2> QED BY <1>4, <2>2, <2>3
<1> DEFINE B == {i \in 1..n : s[i] # t[i] \/ e[i] # f[i]}
<1>6. B = {}
  <2> SUFFICES ASSUME B # {} PROVE FALSE
    OBVIOUS
  <2>1. PICK x \in B : \A k \in B : x <= k
    <3>1. B \in SUBSET Nat
      BY <1>3
    <3> HIDE DEF B
    <3> QED BY <3>1, LeastNatural
  <2>2. x \in 1..n /\ x \in 1..Len(s) /\ x \in 1..Len(t)
    BY <1>3
  <2>3. e[x - 1] = f[x - 1]
    <3>1. CASE x = 1
      BY <1>4, <3>1
    <3>2. CASE x # 1
      BY <1>3, <2>1, <2>2, <3>2
    <3> QED BY <3>1, <3>2
  <2>4. s[x] \in Chars /\ e[x - 1] \in Seq(Chars) /\ e[x] = e[x - 1] \o Escape(s[x])
    BY <1>1, <2>2, EncodeRound
  <2>5. t[x] \in Chars /\ f[x] = f[x - 1] \o Escape(t[x])
    BY <1>2, <2>2, EncodeRound
  <2>6. f[x] = e[x - 1] \o Escape(t[x])
    BY <2>3, <2>5, Zenon
  <2>7. Begins(e[x], z) /\ Begins(f[x], z)
    BY <1>5, <2>2
  <2> HIDE DEF z
  <2>8. s[x] = t[x]
    BY <2>4, <2>5, <2>6, <2>7, SameCharacter
  <2>9. e[x] = f[x]
    BY <2>4, <2>6, <2>8, Zenon
  <2> QED BY <2>8, <2>9
<1>7. Len(t) = n
  <2> SUFFICES ASSUME n < Len(t) PROVE FALSE
    BY <1>3
  <2>1. f[n] = z
    BY <1>3, <1>4, <1>6
  <2>2. n + 1 \in 1..Len(t) /\ n + 1 \in 0..Len(t) /\ Len(t) \in (n + 1)..Len(t) /\ n + 1 - 1 = n
    BY <1>3
  <2>3. /\ t[n + 1] \in Chars /\ f[n] \in Seq(Chars) /\ f[n + 1] = f[n] \o Escape(t[n + 1])
    <3>1. ASSUME NEW x \in 1..Len(t), NEW y, y = x - 1
          PROVE  t[x] \in Chars /\ f[y] \in Seq(Chars) /\ f[x] = f[y] \o Escape(t[x])
      BY <1>2, <3>1, EncodeRound, Zenon
    <3>2. n + 1 \in 1..Len(t) /\ n = (n + 1) - 1
      BY <2>2
    <3> HIDE DEF n
    <3> QED BY <3>1, <3>2
  <2>4. Begins(f[n + 1], z)
    BY <1>2, <1>4, <2>2, EncodingGrows
  <2>5. Escape(t[n + 1]) \in Seq(Chars) /\ Len(Escape(t[n + 1])) \in {1, 3}
    BY <2>3, EscapeShape
  <2> HIDE DEF z, n
  <2>6. Len(f[n + 1]) = Len(f[n]) + Len(Escape(t[n + 1])) /\ Len(f[n]) \in Nat
    BY <2>3, <2>5, Concat
  <2>7. Len(f[n + 1]) <= Len(z)
    BY <2>4 DEF Begins
  <2>8. Len(z) = Len(f[n])
    BY <2>1
  <2> QED BY <2>5, <2>6, <2>7, <2>8, NotLonger
<1> QED BY <1>3, <1>6, <1>7

LEMMA EncodeSame ==
  ASSUME NEW s \in Seq(Chars), NEW t \in Seq(Chars), s # <<>>, t # <<>>, Encode(s) = Encode(t)
  PROVE  s = t
<1>1. Len(s) <= Len(t) \/ Len(t) <= Len(s)
  OBVIOUS
<1> QED BY <1>1, EncodeSameShorter

\* No slash is left.
NoSlash(u) == \A k \in 1..Len(u) : u[k] # "/"

LEMMA ConcatNoSlash ==
  ASSUME NEW u \in Seq(Chars), NEW w \in Seq(Chars), NoSlash(u), NoSlash(w)
  PROVE  NoSlash(u \o w)
<1> DEFINE v == u \o w
<1>1. v = u \o w
  OBVIOUS
<1> HIDE DEF v
<1>2. /\ Len(u) \in Nat /\ Len(w) \in Nat /\ Len(v) = Len(u) + Len(w)
      /\ \A k \in 1..Len(u) : v[k] = u[k]
      /\ \A k \in 1..Len(w) : v[Len(u) + k] = w[k]
  BY <1>1, Concat
<1>3. ASSUME NEW k \in 1..Len(v) PROVE v[k] # "/"
  <2>1. CASE k \in 1..Len(u)
    BY <1>2, <2>1 DEF NoSlash
  <2>2. CASE k \notin 1..Len(u)
    <3>1. k - Len(u) \in 1..Len(w) /\ Len(u) + (k - Len(u)) = k
      BY <1>2, <2>2
    <3>2. v[k] = w[k - Len(u)]
      BY <1>2, <3>1
    <3> QED BY <3>1, <3>2 DEF NoSlash
  <2> QED BY <2>1, <2>2
<1> QED BY <1>1, <1>3 DEF NoSlash

LEMMA EscapeNoSlash ==
  ASSUME NEW c \in Chars
  PROVE  NoSlash(Escape(c))
<1>1. CASE c \notin DOMAIN Encoded
  BY <1>1, EscapeShape DEF NoSlash
<1>2. CASE c \in DOMAIN Encoded
  <2>1. Encoded[c][1] # "/" /\ Encoded[c][2] # "/"
    BY <1>2 DEF Encoded
  <2>2. Len(Escape(c)) = 3 /\ Escape(c)[1] # "/" /\ Escape(c)[2] # "/" /\ Escape(c)[3] # "/"
    BY <1>2, <2>1, EscapeShape
  <2>3. \A k \in 1..3 : k = 1 \/ k = 2 \/ k = 3
    OBVIOUS
  <2> QED BY <2>2, <2>3 DEF NoSlash
<1> QED BY <1>1, <1>2

LEMMA EncodeNoSlash ==
  ASSUME NEW s \in Seq(Chars), s # <<>>
  PROVE  Encode(s) \in Seq(Chars) /\ NoSlash(Encode(s))
<1>1. PICK e : IsEncoding(e, s)
  BY EncodeRounds
<1>2. e[Len(s)] = Encode(s) /\ e[0] = <<>> /\ Len(s) \in 0..Len(s) /\ e \in [0..Len(s) -> Seq(Chars)]
  BY <1>1 DEF IsEncoding
<1> DEFINE B == {i \in 0..Len(s) : ~NoSlash(e[i])}
<1>3. B = {}
  <2> SUFFICES ASSUME B # {} PROVE FALSE
    OBVIOUS
  <2>1. PICK x \in B : \A k \in B : x <= k
    <3>1. B \in SUBSET Nat
      OBVIOUS
    <3> HIDE DEF B
    <3> QED BY <3>1, LeastNatural
  <2>2. x # 0
    <3>1. NoSlash(<<>>)
      BY DEF NoSlash
    <3> QED BY <1>2, <3>1
  <2>3. x - 1 \in 0..Len(s) /\ x \in 1..Len(s) /\ NoSlash(e[x - 1])
    BY <2>1, <2>2
  <2>4. s[x] \in Chars /\ e[x - 1] \in Seq(Chars) /\ Escape(s[x]) \in Seq(Chars) /\ e[x] = e[x - 1] \o Escape(s[x])
    BY <1>1, <2>3, EncodeRound
  <2>5. NoSlash(e[x - 1] \o Escape(s[x]))
    BY <2>3, <2>4, EscapeNoSlash, ConcatNoSlash
  <2>6. NoSlash(e[x])
    BY <2>4, <2>5, Zenon
  <2> QED BY <2>6
<1> QED BY <1>2, <1>3

\* How an encoded name begins.
LEMMA EncodeFirst ==
  ASSUME NEW s \in Seq(Chars), s # <<>>, NEW k \in 1..Len(Escape(s[1]))
  PROVE  Encode(s)[k] = Escape(s[1])[k] /\ Len(Escape(s[1])) <= Len(Encode(s))
<1>1. PICK e : IsEncoding(e, s)
  BY EncodeRounds
<1>2. Len(s) \in Nat /\ Len(s) # 0
  OBVIOUS
<1>3. 1 \in 0..Len(s) /\ Len(s) \in 1..Len(s) /\ 1 \in 1..Len(s) /\ 1 - 1 = 0
  BY <1>2
<1>4. e[Len(s)] = Encode(s) /\ e[0] = <<>>
  BY <1>1 DEF IsEncoding
<1>5. Begins(e[1], Encode(s))
  BY <1>1, <1>3, <1>4, EncodingGrows
<1>6. s[1] \in Chars /\ e[1] = e[0] \o Escape(s[1])
  BY <1>1, <1>3 DEF IsEncoding
<1>7. Escape(s[1]) \in Seq(Chars) /\ Len(Escape(s[1])) \in Nat
  BY <1>6, EscapeShape
<1> DEFINE w == Escape(s[1])
           z == Encode(s)
           u == e[0]
           v == e[1]
<1>8. u \in Seq(Chars) /\ Len(u) = 0
  BY <1>4
<1>9. Begins(u \o w, z)
  BY <1>5, <1>6, Zenon
<1> HIDE DEF w, z, u
<1>10. w \in Seq(Chars) /\ k \in 1..Len(w)
  BY <1>7 DEF w
<1>11. z[Len(u) + k] = w[k]
  BY <1>8, <1>9, <1>10, ReadBack
<1>12. z[k] = w[k]
  BY <1>8, <1>10, <1>11
<1>13. Len(w) <= Len(z)
  <2>1. v = u \o w
    BY <1>6 DEF u, w
  <2>2. Begins(v, z)
    BY <1>5 DEF z
  <2> HIDE DEF v
  <2>3. Len(v) = Len(u) + Len(w) /\ Len(w) \in Nat
    BY <1>8, <1>10, <2>1, Concat
  <2>4. Len(v) <= Len(z)
    BY <2>2 DEF Begins
  <2> QED BY <1>8, <2>3, <2>4
<1> QED BY <1>12, <1>13 DEF w, z

\* What the loop over one or two sequences makes.
LEMMA FlattenOne ==
  ASSUME NEW q, Len(q) = 1
  PROVE  FlattenSeq(q) = q[1]
<1>1. 1 \in Nat \ {0}
  OBVIOUS
<1>2. PICK f : FlattenSeq(q) = f[1] /\ f[1] = q[1]
  BY <1>1, FlattenRounds, Zenon
<1> QED BY <1>2, Zenon

LEMMA FlattenTwo ==
  ASSUME NEW q, Len(q) = 2
  PROVE  FlattenSeq(q) = q[1] \o q[2]
<1>1. 2 \in Nat \ {0}
  OBVIOUS
<1> DEFINE n == 2
<1>2. n \in Nat \ {0}
  OBVIOUS
<1>3. Len(q) = n
  OBVIOUS
<1>4. n \in 2..n /\ n - 1 = 1
  OBVIOUS
<1> HIDE DEF n
<1>5. PICK f : /\ FlattenSeq(q) = f[n]
               /\ f[1] = q[1]
               /\ \A i \in 2..n : f[i] = f[i - 1] \o q[i]
  BY <1>2, <1>3, FlattenRounds, Zenon
<1>6. f[n] = f[n - 1] \o q[n]
  BY <1>4, <1>5, Zenon
<1> QED BY <1>4, <1>5, <1>6, Zenon DEF n

LEMMA Pair ==
  ASSUME NEW x, NEW y
  PROVE  <<x>> \o <<y>> = <<x, y>>
<1>1. PICK S : x \in S /\ y \in S
  <2>1. x \in {x, y} /\ y \in {x, y}
    OBVIOUS
  <2> QED BY <2>1
<1> DEFINE a == <<x>>
           b == <<y>>
           c == a \o b
<1>2. a \in Seq(S) /\ b \in Seq(S) /\ Len(a) = 1 /\ Len(b) = 1 /\ a[1] = x /\ b[1] = y /\ c = a \o b
  BY <1>1
<1> HIDE DEF a, b, c
<1>3. c \in Seq(S) /\ Len(c) = 2 /\ c[1] = x /\ c[2] = y
  <2>1. a \in Seq(S) /\ b \in Seq(S) /\ c = a \o b
    BY <1>2
  <2>2. /\ c \in Seq(S) /\ Len(c) = Len(a) + Len(b)
        /\ \A k \in 1..Len(a) : c[k] = a[k]
        /\ \A k \in 1..Len(b) : c[Len(a) + k] = b[k]
    BY <2>1, Concat
  <2> QED BY <1>2, <2>2
<1>4. c = <<x, y>>
  BY <1>3
<1> QED BY <1>4 DEF a, b, c

LEMMA Twice ==
  ASSUME NEW d \in Seq(Chars), NEW z, z = d \o d
  PROVE  z \in Seq(Chars) /\ Len(z) = Len(d) + Len(d) /\ Len(d) \in Nat /\ \A k \in 1..Len(d) : z[k] = d[k]
<1>1. ASSUME NEW e, e = d
      PROVE  z \in Seq(Chars) /\ Len(z) = Len(d) + Len(e) /\ Len(d) \in Nat /\ \A k \in 1..Len(d) : z[k] = d[k]
  <2>1. e \in Seq(Chars) /\ z = d \o e
    BY <1>1
  <2> QED BY <2>1, Concat
<1> QED BY <1>1

\* The special names.
Dot == <<".">>
DotDot == <<".", ".">>
EncodedDot == <<"%", "2", "E">>

LEMMA DotsAreNames ==
  /\ Dot \in Seq(Chars) /\ DotDot \in Seq(Chars) /\ EncodedDot \in Seq(Chars)
  /\ Dot # <<>> /\ DotDot # <<>> /\ Dot # DotDot
BY Letters DEF Dot, DotDot, EncodedDot

LEMMA EncodeDots == Encode(Dot) = Dot /\ Encode(DotDot) = DotDot
<1>1. Escape(".") = <<".">>
  <2>1. "." \notin DOMAIN Encoded
    BY Table
  <2> QED BY <2>1 DEF Escape
<1>2. Encode(Dot) = Dot
  <2> DEFINE q == [i \in DOMAIN Dot |-> Escape(Dot[i])]
  <2>1. Len(q) = 1 /\ q[1] = Escape(".")
    BY DEF Dot
  <2>2. FlattenSeq(q) = q[1]
    BY <2>1, FlattenOne
  <2>3. Encode(Dot) = FlattenSeq(q)
    BY DEF Encode
  <2> HIDE DEF q
  <2> QED BY <1>1, <2>1, <2>2, <2>3, Zenon DEF Dot
<1>3. Encode(DotDot) = DotDot
  <2> DEFINE q == [i \in DOMAIN DotDot |-> Escape(DotDot[i])]
  <2>1. Len(q) = 2 /\ q[1] = Escape(".") /\ q[2] = Escape(".")
    BY DEF DotDot
  <2>2. Encode(DotDot) = FlattenSeq(q)
    BY DEF Encode
  <2> HIDE DEF q
  <2>3. FlattenSeq(q) = q[1] \o q[2]
    BY <2>1, FlattenTwo
  <2>4. FlattenSeq(q) = <<".">> \o <<".">>
    BY <1>1, <2>1, <2>3, Zenon
  <2>5. <<".">> \o <<".">> = <<".", ".">>
    BY Pair
  <2> QED BY <2>2, <2>4, <2>5, Zenon DEF DotDot
<1> QED BY <1>2, <1>3

LEMMA SanitizeDots ==
  /\ SanitizeKeySegment(Dot) = EncodedDot
  /\ SanitizeKeySegment(DotDot) = EncodedDot \o EncodedDot
<1>1. SanitizeKeySegment(Dot) = EncodedDot
  <2> DEFINE q == [i \in DOMAIN Dot |-> <<"%", "2", "E">>]
  <2>1. Len(q) = 1 /\ q[1] = EncodedDot
    BY DEF Dot, EncodedDot
  <2>2. SanitizeKeySegment(Dot) = FlattenSeq(q)
    BY DEF SanitizeKeySegment, Dot
  <2> HIDE DEF q
  <2>3. FlattenSeq(q) = q[1]
    BY <2>1, FlattenOne
  <2> QED BY <2>1, <2>2, <2>3, Zenon
<1>2. SanitizeKeySegment(DotDot) = EncodedDot \o EncodedDot
  <2> DEFINE q == [i \in DOMAIN DotDot |-> <<"%", "2", "E">>]
  <2>1. Len(q) = 2 /\ q[1] = EncodedDot /\ q[2] = EncodedDot
    BY DEF DotDot, EncodedDot
  <2>2. SanitizeKeySegment(DotDot) = FlattenSeq(q)
    BY DEF SanitizeKeySegment, DotDot
  <2> HIDE DEF q
  <2>3. FlattenSeq(q) = q[1] \o q[2]
    BY <2>1, FlattenTwo
  <2> QED BY <2>1, <2>2, <2>3, Zenon
<1> QED BY <1>1, <1>2

LEMMA SanitizeEmpty == SanitizeKeySegment(<<>>) = <<"%">>
<1>1. <<>> \notin {<<".">>, <<".", ".">>}
  OBVIOUS
<1> QED BY <1>1 DEF SanitizeKeySegment

LEMMA SanitizeOther ==
  ASSUME NEW s \in Seq(Chars), s # <<>>, s # Dot, s # DotDot
  PROVE  SanitizeKeySegment(s) = Encode(s)
BY DEF SanitizeKeySegment, Encode, Dot, DotDot

LEMMA TwoEncodedDots ==
  ASSUME NEW z, z = EncodedDot \o EncodedDot
  PROVE  z \in Seq(Chars) /\ Len(z) = 6 /\ z[1] = "%" /\ z[2] = "2" /\ z[3] = "E" /\ NoSlash(z)
<1>1. EncodedDot \in Seq(Chars) /\ Len(EncodedDot) = 3
  BY DotsAreNames DEF EncodedDot
<1>2. EncodedDot[1] = "%" /\ EncodedDot[2] = "2" /\ EncodedDot[3] = "E"
  BY DEF EncodedDot
<1>3. NoSlash(EncodedDot)
  <2>1. \A k \in 1..3 : k = 1 \/ k = 2 \/ k = 3
    OBVIOUS
  <2> QED BY <1>1, <1>2, <2>1 DEF NoSlash
<1>4. z \in Seq(Chars) /\ Len(z) = 6 /\ \A k \in 1..3 : z[k] = EncodedDot[k]
  <2>1. z \in Seq(Chars) /\ Len(z) = Len(EncodedDot) + Len(EncodedDot) /\ \A k \in 1..Len(EncodedDot) : z[k] = EncodedDot[k]
    BY <1>1, Twice
  <2> QED BY <1>1, <2>1
<1>5. NoSlash(z)
  BY <1>1, <1>3, ConcatNoSlash
<1> QED BY <1>2, <1>4, <1>5

SanitizeCase(s, z) ==
  \/ s = <<>> /\ z[1] = "%" /\ Len(z) = 1
  \/ s = Dot /\ z[1] = "%" /\ z[2] = "2" /\ z[3] = "E" /\ Len(z) = 3
  \/ s = DotDot /\ z[1] = "%" /\ z[2] = "2" /\ z[3] = "E" /\ Len(z) = 6
  \/ /\ s # <<>> /\ s # Dot /\ s # DotDot /\ z = Encode(s)
     /\ z[1] = "%" => Len(z) >= 3 /\ ~(z[2] = "2" /\ z[3] = "E")

\* What a name becomes tells which of the four cases of sanitizeKeySegment it went through.
LEMMA SanitizeCases ==
  ASSUME NEW s \in Seq(Chars), NEW z, z = SanitizeKeySegment(s)
  PROVE  /\ z \in Seq(Chars) /\ NoSlash(z) /\ Len(z) # 0
         /\ SanitizeCase(s, z)
<1>1. CASE s = <<>>
  <2>1. z = <<"%">>
    BY <1>1, SanitizeEmpty, Zenon
  <2>2. z[1] = "%" /\ Len(z) = 1
    BY <2>1
  <2>3. z \in Seq(Chars)
    BY <2>1, Letters
  <2>4. NoSlash(z) /\ Len(z) # 0
    BY <2>2 DEF NoSlash
  <2> QED BY <1>1, <2>2, <2>3, <2>4, Zenon DEF SanitizeCase
<1>2. CASE s = Dot
  <2>1. z = EncodedDot
    BY <1>2, SanitizeDots, Zenon
  <2>2. z \in Seq(Chars) /\ Len(z) = 3 /\ z[1] = "%" /\ z[2] = "2" /\ z[3] = "E"
    BY <2>1, DotsAreNames DEF EncodedDot
  <2>3. \A k \in 1..3 : k = 1 \/ k = 2 \/ k = 3
    OBVIOUS
  <2>4. NoSlash(z)
    BY <2>2, <2>3 DEF NoSlash
  <2>5. Len(z) # 0
    BY <2>2
  <2> QED BY <1>2, <2>2, <2>4, <2>5, Zenon DEF SanitizeCase
<1>3. CASE s = DotDot
  <2>1. z = EncodedDot \o EncodedDot
    BY <1>3, SanitizeDots, Zenon
  <2>2. z \in Seq(Chars) /\ Len(z) = 6 /\ z[1] = "%" /\ z[2] = "2" /\ z[3] = "E" /\ NoSlash(z)
    BY <2>1, TwoEncodedDots
  <2>3. Len(z) # 0
    BY <2>2
  <2> QED BY <1>3, <2>2, <2>3, Zenon DEF SanitizeCase
<1>4. CASE s # <<>> /\ s # Dot /\ s # DotDot
  <2>1. z = Encode(s)
    BY <1>4, SanitizeOther
  <2>2. z \in Seq(Chars) /\ NoSlash(z)
    BY <1>4, <2>1, EncodeNoSlash
  <2> DEFINE w == Escape(s[1])
  <2>3. s[1] \in Chars
    BY <1>4
  <2>4. \A k \in 1..Len(w) : z[k] = w[k] /\ Len(w) <= Len(z)
    BY <1>4, <2>1, EncodeFirst
  <2>5. /\ w \in Seq(Chars)
        /\ \/ /\ Len(w) = 1 /\ w[1] # "%"
           \/ /\ s[1] \in DOMAIN Encoded /\ Len(w) = 3 /\ w[1] = "%"
              /\ w[2] = Encoded[s[1]][1] /\ w[3] = Encoded[s[1]][2]
    BY <2>3, EscapeShape
  <2> HIDE DEF w
  <2>6. Len(z) \in Nat
    BY <2>2
  <2>7. CASE Len(w) = 1 /\ w[1] # "%"
    <3>1. z[1] # "%" /\ Len(z) # 0
      BY <2>4, <2>6, <2>7
    <3> QED BY <1>4, <2>1, <2>2, <3>1 DEF SanitizeCase
  <2>8. CASE /\ s[1] \in DOMAIN Encoded /\ Len(w) = 3 /\ w[1] = "%"
             /\ w[2] = Encoded[s[1]][1] /\ w[3] = Encoded[s[1]][2]
    <3>1. Len(z) >= 3 /\ z[2] = Encoded[s[1]][1] /\ z[3] = Encoded[s[1]][2]
      BY <2>4, <2>6, <2>8
    <3>2. ~(z[2] = "2" /\ z[3] = "E")
      BY <2>8, <3>1, DigitsAreNoDot
    <3>3. Len(z) # 0
      BY <2>6, <3>1
    <3> QED BY <1>4, <2>1, <2>2, <3>1, <3>2, <3>3 DEF SanitizeCase
  <2> QED BY <2>5, <2>7, <2>8
<1> QED BY <1>1, <1>2, <1>3, <1>4

\* sanitizeKeySegment tells all names apart: no two of them share a segment of a key,
\* whatever they are made of.
THEOREM SanitizeIsCollisionFree ==
  ASSUME NEW s \in Seq(Chars), NEW t \in Seq(Chars), SanitizeKeySegment(s) = SanitizeKeySegment(t)
  PROVE  s = t
<1> DEFINE z == SanitizeKeySegment(s)
<1>1. z = SanitizeKeySegment(s) /\ z = SanitizeKeySegment(t)
  OBVIOUS
<1> HIDE DEF z
<1>2. SanitizeCase(s, z)
  BY <1>1, SanitizeCases
<1>3. SanitizeCase(t, z)
  BY <1>1, SanitizeCases
<1>4. s = t \/ (s # <<>> /\ t # <<>> /\ Encode(s) = Encode(t))
  <2>1. CASE s = <<>>
    BY <1>2, <1>3, <2>1, DotsAreNames DEF SanitizeCase
  <2>2. CASE s = Dot
    <3>1. z[1] = "%" /\ z[2] = "2" /\ z[3] = "E" /\ Len(z) = 3
      BY <1>2, <2>2, DotsAreNames DEF SanitizeCase
    <3>2. t = Dot
      BY <1>3, <3>1 DEF SanitizeCase
    <3> QED BY <2>2, <3>2
  <2>3. CASE s = DotDot
    <3>1. z[1] = "%" /\ z[2] = "2" /\ z[3] = "E" /\ Len(z) = 6
      BY <1>2, <2>3, DotsAreNames DEF SanitizeCase
    <3>2. t = DotDot
      BY <1>3, <3>1 DEF SanitizeCase
    <3> QED BY <2>3, <3>2
  <2>4. CASE s # <<>> /\ s # Dot /\ s # DotDot
    BY <1>2, <1>3, <2>4, DotsAreNames DEF SanitizeCase
  <2> QED BY <2>1, <2>2, <2>3, <2>4
<1> QED BY <1>4, EncodeSame

\* And what it makes is one ordinary segment: not empty, without a slash, and not one of
\* the two that path.Join takes away.
Ordinary(x) == x \in Seq(Chars) /\ NoSlash(x) /\ x # <<>> /\ x # Dot /\ x # DotDot

THEOREM SanitizeIsOrdinary ==
  ASSUME NEW s \in Seq(Chars)
  PROVE  Ordinary(SanitizeKeySegment(s))
<1> DEFINE z == SanitizeKeySegment(s)
<1>1. z = SanitizeKeySegment(s)
  OBVIOUS
<1> HIDE DEF z
<1>2. z \in Seq(Chars) /\ NoSlash(z) /\ Len(z) # 0
  BY <1>1, SanitizeCases
<1>3. z[1] = "%" \/ (s # <<>> /\ s # Dot /\ s # DotDot /\ z = Encode(s))
  <2>1. SanitizeCase(s, z)
    BY <1>1, SanitizeCases
  <2> QED BY <2>1 DEF SanitizeCase
<1>4. z # <<>>
  BY <1>2
<1>5. z # Dot
  <2> SUFFICES ASSUME z = Dot PROVE FALSE
    OBVIOUS
  <2>1. z[1] # "%"
    BY DEF Dot
  <2>2. Encode(s) = Encode(Dot) /\ s # <<>> /\ s # Dot
    BY <1>3, <2>1, EncodeDots, Zenon
  <2> QED BY <2>2, DotsAreNames, EncodeSame
<1>6. z # DotDot
  <2> SUFFICES ASSUME z = DotDot PROVE FALSE
    OBVIOUS
  <2>1. z[1] # "%"
    BY DEF DotDot
  <2>2. Encode(s) = Encode(DotDot) /\ s # <<>> /\ s # DotDot
    BY <1>3, <2>1, EncodeDots, Zenon
  <2> QED BY <2>2, DotsAreNames, EncodeSame
<1> QED BY <1>1, <1>2, <1>4, <1>5, <1>6, Zenon DEF Ordinary

-----------------------------------------------------------------------------
(* path.Join.                                                              *)

\* A segment of a key: of a name, or one that is written as it is.
Alphabet == Chars \cup {"postgres", "mysql", "2026", "01", ".dbferry-probe", "probe"}
Segments == Seq(Alphabet)

LEMMA NamesAreSegments ==
  ASSUME NEW s \in Seq(Chars)
  PROVE  s \in Segments
BY DEF Segments, Alphabet

\* A string without a slash is one segment.
LEMMA SplitOne ==
  ASSUME NEW s \in Segments, NoSlash(s)
  PROVE  Split(s) = <<s>>
<1> DEFINE n == Len(s)
<1>1. n \in Nat /\ DOMAIN s = 1..n
  BY DEF Segments
<1>2. PICK f : /\ Split(s) = f[n]
               /\ f[0] = << <<>> >>
               /\ \A i \in 1..n : f[i] = SplitAt(f[i - 1], s[i])
  <2>1. n \in Nat
    BY <1>1
  <2>2. Len(s) = n
    OBVIOUS
  <2> HIDE DEF n
  <2> QED BY <2>1, <2>2, SplitRounds, Zenon
<1> DEFINE u(i) == [k \in 1..i |-> s[k]]
           B == {i \in 0..n : f[i] # <<u(i)>>}
<1>3. ASSUME NEW i \in 0..n PROVE u(i) \in Segments /\ Len(u(i)) = i
  BY <1>1 DEF Segments
<1>4. B = {}
  <2> SUFFICES ASSUME B # {} PROVE FALSE
    OBVIOUS
  <2>1. PICK x \in B : \A k \in B : x <= k
    <3>1. B \in SUBSET Nat
      BY <1>1
    <3> HIDE DEF B
    <3> QED BY <3>1, LeastNatural
  <2>2. x # 0
    <3>1. u(0) = <<>>
      OBVIOUS
    <3> QED BY <1>2, <3>1
  <2>3. x \in 1..n /\ x - 1 \in 0..n /\ f[x - 1] = <<u(x - 1)>>
    BY <1>1, <2>1, <2>2
  <2>4. f[x] = SplitAt(<<u(x - 1)>>, s[x])
    BY <1>2, <2>3
  <2>5. s[x] # "/"
    BY <2>3 DEF NoSlash
  <2>6. Append(u(x - 1), s[x]) = u(x)
    BY <1>1, <1>3, <2>3
  <2>7. SplitAt(<<u(x - 1)>>, s[x]) = <<Append(u(x - 1), s[x])>>
    <3> HIDE DEF u
    <3> QED BY <2>5 DEF SplitAt
  <2> QED BY <2>4, <2>6, <2>7
<1>5. u(n) = s
  BY <1>1 DEF Segments
<1>6. n \in 0..n
  BY <1>1
<1> QED BY <1>2, <1>4, <1>5, <1>6

\* A string has segments.
LEMMA SplitTyped ==
  ASSUME NEW s \in Seq(Chars)
  PROVE  Split(s) \in Seq(Seq(Chars)) /\ Len(Split(s)) # 0
<1> DEFINE n == Len(s)
<1>1. n \in Nat /\ DOMAIN s = 1..n
  OBVIOUS
<1>2. PICK f : /\ Split(s) = f[n]
               /\ f[0] = << <<>> >>
               /\ \A i \in 1..n : f[i] = SplitAt(f[i - 1], s[i])
  <2>1. n \in Nat
    BY <1>1
  <2>2. Len(s) = n
    OBVIOUS
  <2> HIDE DEF n
  <2> QED BY <2>1, <2>2, SplitRounds, Zenon
<1> DEFINE B == {i \in 0..n : ~(f[i] \in Seq(Seq(Chars)) /\ Len(f[i]) # 0)}
<1>3. ASSUME NEW segs \in Seq(Seq(Chars)), Len(segs) # 0, NEW c \in Chars
      PROVE  SplitAt(segs, c) \in Seq(Seq(Chars)) /\ Len(SplitAt(segs, c)) # 0
  <2>1. CASE c = "/"
    <3>1. <<>> \in Seq(Chars)
      OBVIOUS
    <3>2. SplitAt(segs, c) = Append(segs, <<>>)
      BY <2>1 DEF SplitAt
    <3> QED BY <3>1, <3>2
  <2>2. CASE c # "/"
    <3> DEFINE k == Len(segs)
               w == Append(segs[k], c)
    <3>1. k \in 1..Len(segs) /\ segs[k] \in Seq(Chars)
      BY <1>3
    <3>2. w \in Seq(Chars)
      BY <3>1
    <3>3. SplitAt(segs, c) = [segs EXCEPT ![k] = w]
      BY <2>2 DEF SplitAt
    <3> HIDE DEF w
    <3> QED BY <1>3, <3>1, <3>2, <3>3
  <2> QED BY <2>1, <2>2
<1>4. B = {}
  <2> SUFFICES ASSUME B # {} PROVE FALSE
    OBVIOUS
  <2>1. PICK x \in B : \A k \in B : x <= k
    <3>1. B \in SUBSET Nat
      BY <1>1
    <3> HIDE DEF B
    <3> QED BY <3>1, LeastNatural
  <2>2. x # 0
    <3>1. << <<>> >> \in Seq(Seq(Chars)) /\ Len(<< <<>> >>) # 0
      OBVIOUS
    <3>2. f[0] \in Seq(Seq(Chars)) /\ Len(f[0]) # 0
      BY <1>2, <3>1, Zenon
    <3>3. 0 \notin B
      BY <3>2
    <3> QED BY <2>1, <3>3, Zenon
  <2>3. x \in 1..n /\ x - 1 \in 0..n /\ f[x - 1] \in Seq(Seq(Chars)) /\ Len(f[x - 1]) # 0
    BY <1>1, <2>1, <2>2
  <2>4. f[x] = SplitAt(f[x - 1], s[x]) /\ s[x] \in Chars
    BY <1>2, <2>3
  <2> QED BY <1>3, <2>3, <2>4
<1>5. n \in 0..n
  BY <1>1
<1> QED BY <1>2, <1>4, <1>5

\* path.Clean with one more segment.
LEMMA CleanLonger ==
  ASSUME NEW n \in Nat, NEW m \in Nat, m = n + 1, NEW ss, Len(ss) = n, NEW tt, Len(tt) = m,
         \A i \in 1..n : tt[i] = ss[i]
  PROVE  Clean(tt) = Enter(Clean(ss), tt[m])
<1>1. n \in 0..n /\ m \in 1..m /\ m - 1 = n
  OBVIOUS
<1>3. PICK f : /\ Clean(ss) = f[n]
               /\ f[0] = <<>>
               /\ \A i \in 1..n : f[i] = Enter(f[i - 1], ss[i])
  BY CleanRounds, Zenon
<1>4. PICK g : /\ Clean(tt) = g[m]
               /\ g[0] = <<>>
               /\ \A i \in 1..m : g[i] = Enter(g[i - 1], tt[i])
  BY CleanRounds, Zenon
<1> DEFINE B == {i \in 0..n : f[i] # g[i]}
<1>5. B = {}
  <2> SUFFICES ASSUME B # {} PROVE FALSE
    OBVIOUS
  <2>1. PICK z \in B : \A k \in B : z <= k
    <3>1. B \in SUBSET Nat
      BY <1>1
    <3> HIDE DEF B
    <3> QED BY <3>1, LeastNatural
  <2>2. z # 0
    BY <1>3, <1>4
  <2>3. z \in 1..n /\ z \in 1..m /\ z - 1 \in 0..n
    BY <1>1, <2>2
  <2>4. f[z - 1] = g[z - 1]
    BY <1>1, <2>1, <2>3
  <2>5. tt[z] = ss[z]
    BY <2>3
  <2>6. f[z] = Enter(f[z - 1], ss[z])
    BY <1>3, <2>3
  <2>7. g[z] = Enter(g[z - 1], tt[z])
    BY <1>4, <2>3
  <2>8. f[z] = g[z]
    BY <2>4, <2>5, <2>6, <2>7, Zenon
  <2> QED BY <2>8
<1>6. f[n] = g[n]
  BY <1>1, <1>5
<1>7. g[m] = Enter(g[m - 1], tt[m])
  BY <1>1, <1>4
<1> QED BY <1>1, <1>3, <1>4, <1>6, <1>7, Zenon

LEMMA CleanOneLonger ==
  ASSUME NEW ss, NEW tt, Len(ss) \in Nat, Len(tt) = Len(ss) + 1, \A i \in 1..Len(ss) : tt[i] = ss[i]
  PROVE  Clean(tt) = Enter(Clean(ss), tt[Len(tt)])
<1>1. Len(tt) \in Nat
  OBVIOUS
<1> QED BY <1>1, CleanLonger

LEMMA CleanMore ==
  ASSUME NEW T, NEW ss \in Seq(T), NEW x \in T, NEW tt, tt = ss \o <<x>>
  PROVE  Clean(tt) = Enter(Clean(ss), x)
<1> DEFINE n == Len(ss)
           m == n + 1
<1>1. n \in Nat /\ m \in Nat /\ m = n + 1 /\ Len(ss) = n
  OBVIOUS
<1>2. Len(tt) = m /\ tt[m] = x /\ \A i \in 1..n : tt[i] = ss[i]
  <2> DEFINE y == <<x>>
  <2>1. y \in Seq(T) /\ Len(y) = 1 /\ y[1] = x /\ tt = ss \o y
    OBVIOUS
  <2> HIDE DEF y
  <2>2. /\ Len(tt) = Len(ss) + Len(y)
        /\ \A k \in 1..Len(ss) : tt[k] = ss[k]
        /\ \A k \in 1..Len(y) : tt[Len(ss) + k] = y[k]
    BY <2>1, Concat
  <2> QED BY <2>1, <2>2
<1>3. Clean(tt) = Enter(Clean(ss), tt[Len(tt)])
  BY <1>1, <1>2, CleanOneLonger
<1> QED BY <1>2, <1>3, Zenon

\* A segment that path.Clean leaves alone.
Plain(x) == x \in Segments /\ x # <<>> /\ x # Dot /\ x # DotDot

LEMMA EnterPlain ==
  ASSUME NEW path, NEW x, Plain(x)
  PROVE  Enter(path, x) = Append(path, x)
BY DEF Enter, Plain, Dot, DotDot

LEMMA CleanTyped ==
  ASSUME NEW ss \in Seq(Seq(Chars))
  PROVE  Clean(ss) \in Seq(Seq(Chars))
<1> DEFINE n == Len(ss)
<1>1. n \in Nat /\ n \in 0..n /\ DOMAIN ss = 1..n
  OBVIOUS
<1>2. PICK f : /\ Clean(ss) = f[n]
               /\ f[0] = <<>>
               /\ \A i \in 1..n : f[i] = Enter(f[i - 1], ss[i])
  <2>1. n \in Nat
    BY <1>1
  <2>2. Len(ss) = n
    OBVIOUS
  <2> HIDE DEF n
  <2> QED BY <2>1, <2>2, CleanRounds, Zenon
<1>3. ASSUME NEW path \in Seq(Seq(Chars)), NEW x \in Seq(Chars)
      PROVE  Enter(path, x) \in Seq(Seq(Chars))
  <2>1. path # <<>> => Front(path) \in Seq(Seq(Chars))
    BY DEF Front
  <2>2. Append(path, x) \in Seq(Seq(Chars))
    OBVIOUS
  <2>3. Enter(path, x) = path \/ (path # <<>> /\ Enter(path, x) = Front(path)) \/ Enter(path, x) = Append(path, x)
    BY DEF Enter
  <2> QED BY <2>1, <2>2, <2>3, Zenon
<1> DEFINE B == {i \in 0..n : f[i] \notin Seq(Seq(Chars))}
<1>4. B = {}
  <2> SUFFICES ASSUME B # {} PROVE FALSE
    OBVIOUS
  <2>1. PICK z \in B : \A k \in B : z <= k
    <3>1. B \in SUBSET Nat
      BY <1>1
    <3> HIDE DEF B
    <3> QED BY <3>1, LeastNatural
  <2>2. z # 0
    <3>1. <<>> \in Seq(Seq(Chars))
      OBVIOUS
    <3> QED BY <1>2, <2>1, <3>1, Zenon
  <2>3. z \in 1..n /\ z - 1 \in 0..n /\ f[z - 1] \in Seq(Seq(Chars))
    BY <1>1, <2>1, <2>2
  <2>4. f[z] = Enter(f[z - 1], ss[z]) /\ ss[z] \in Seq(Chars)
    BY <1>1, <1>2, <2>3
  <2>5. f[z] \in Seq(Seq(Chars))
    BY <1>3, <2>3, <2>4
  <2> QED BY <2>5
<1> QED BY <1>1, <1>2, <1>4

LEMMA SeqOfMore ==
  ASSUME NEW A, NEW B, \A x \in A : x \in B, NEW s \in Seq(A)
  PROVE  s \in Seq(B)
OBVIOUS

LEMMA PathsAreSegments ==
  ASSUME NEW ss \in Seq(Seq(Chars))
  PROVE  ss \in Seq(Segments)
<1>1. \A x \in Seq(Chars) : x \in Segments
  BY NamesAreSegments
<1> DEFINE A == Seq(Chars)
           B == Segments
<1>2. ss \in Seq(A) /\ \A x \in A : x \in B
  BY <1>1
<1> HIDE DEF A, B
<1>3. ss \in Seq(B)
  BY <1>2, SeqOfMore
<1> QED BY <1>3 DEF B

\* A path is what the first string gives, followed by the others up to the i-th.
JoinedTo(r, base, q, i) ==
  /\ r \in Seq(Segments) /\ Len(r) = Len(base) + (i - 1)
  /\ \A k \in 1..Len(base) : r[k] = base[k]
  /\ \A k \in 2..i : r[Len(base) + (k - 1)] = q[k]

LEMMA JoinedFirst ==
  ASSUME NEW base \in Seq(Segments), NEW q
  PROVE  JoinedTo(base, base, q, 1)
BY DEF JoinedTo

LEMMA JoinedNext ==
  ASSUME NEW r, NEW base \in Seq(Segments), NEW q, NEW i \in Nat, i >= 2, JoinedTo(r, base, q, i - 1), q[i] \in Segments
  PROVE  JoinedTo(Append(r, q[i]), base, q, i)
<1> DEFINE v == Append(r, q[i])
           b == Len(base)
<1>1. r \in Seq(Segments) /\ Len(r) = b + ((i - 1) - 1) /\ b \in Nat
  BY DEF JoinedTo
<1>2. v \in Seq(Segments) /\ Len(v) = Len(r) + 1 /\ v[Len(r) + 1] = q[i] /\ \A k \in 1..Len(r) : v[k] = r[k]
  BY <1>1
<1> HIDE DEF v, b
<1>3. Len(v) = b + (i - 1)
  BY <1>1, <1>2
<1>4. ASSUME NEW k \in 1..b PROVE v[k] = base[k]
  <2>1. k \in 1..Len(r)
    BY <1>1
  <2>2. r[k] = base[k]
    BY DEF JoinedTo, b
  <2> QED BY <1>2, <2>1, <2>2
<1>5. ASSUME NEW k \in 2..i PROVE v[b + (k - 1)] = q[k]
  <2>1. CASE k = i
    <3>1. b + (k - 1) = Len(r) + 1
      BY <1>1, <2>1
    <3> QED BY <1>2, <2>1, <3>1
  <2>2. CASE k # i
    <3>1. k \in 2..(i - 1) /\ b + (k - 1) \in 1..Len(r)
      BY <1>1, <2>2
    <3>2. r[b + (k - 1)] = q[k]
      BY <3>1 DEF JoinedTo, b
    <3> QED BY <1>2, <3>1, <3>2
  <2> QED BY <2>1, <2>2
<1> QED BY <1>2, <1>3, <1>4, <1>5 DEF JoinedTo, v, b

\* path.Join puts segments that path.Clean leaves alone behind what it makes of the first
\* string.
LEMMA PathJoinShape ==
  ASSUME NEW q \in Seq(Segments), NEW n \in Nat \ {0}, Len(q) = n, q[1] \in Seq(Chars),
         \A k \in 2..n : Plain(q[k]) /\ NoSlash(q[k])
  PROVE  JoinedTo(PathJoin(q), Clean(Split(q[1])), q, n)
<1> DEFINE seqs == [i \in DOMAIN q |-> Split(q[i])]
           base == Clean(Split(q[1]))
<1>1. Len(seqs) = n /\ \A i \in 1..n : seqs[i] = Split(q[i])
  OBVIOUS
<1>2. PathJoin(q) = Clean(FlattenSeq(seqs))
  BY DEF PathJoin
<1> HIDE DEF seqs
<1>3. PICK f : /\ FlattenSeq(seqs) = f[n]
               /\ f[1] = seqs[1]
               /\ \A i \in 2..n : f[i] = f[i - 1] \o seqs[i]
  <2>1. Len(seqs) = n
    BY <1>1
  <2> QED BY <2>1, FlattenRounds, Zenon
<1>4. Split(q[1]) \in Seq(Segments) /\ base \in Seq(Segments)
  BY SplitTyped, CleanTyped, PathsAreSegments
<1>5. ASSUME NEW i \in 2..n PROVE f[i] = f[i - 1] \o <<q[i]>>
  <2>1. i \in 1..n /\ q[i] \in Segments /\ NoSlash(q[i])
    BY DEF Plain
  <2>2. seqs[i] = <<q[i]>>
    BY <1>1, <2>1, SplitOne, Zenon
  <2> QED BY <1>3, <2>2, Zenon
<1> DEFINE B == {i \in 1..n : ~(f[i] \in Seq(Segments) /\ JoinedTo(Clean(f[i]), base, q, i))}
<1>6. B = {}
  <2> SUFFICES ASSUME B # {} PROVE FALSE
    OBVIOUS
  <2>1. PICK z \in B : \A k \in B : z <= k
    <3>1. B \in SUBSET Nat
      OBVIOUS
    <3> HIDE DEF B
    <3> QED BY <3>1, LeastNatural
  <2>2. z # 1
    <3>1. f[1] = Split(q[1])
      BY <1>1, <1>3
    <3>2. JoinedTo(base, base, q, 1)
      BY <1>4, JoinedFirst
    <3>3. f[1] \in Seq(Segments) /\ JoinedTo(Clean(f[1]), base, q, 1)
      BY <1>4, <3>1, <3>2, Zenon
    <3> HIDE DEF base
    <3> QED BY <2>1, <3>3, Zenon
  <2>3. z \in 2..n /\ z \in Nat /\ z >= 2 /\ z - 1 \in 1..n
    BY <2>1, <2>2
  <2>4. f[z - 1] \in Seq(Segments) /\ JoinedTo(Clean(f[z - 1]), base, q, z - 1)
    <3> HIDE DEF base
    <3>1. z - 1 \notin B
      BY <2>1, <2>3
    <3> QED BY <2>3, <3>1
  <2>5. f[z] = f[z - 1] \o <<q[z]>> /\ q[z] \in Segments /\ Plain(q[z])
    BY <1>5, <2>3 DEF Plain
  <2>6. f[z] \in Seq(Segments)
    <3>1. <<q[z]>> \in Seq(Segments)
      BY <2>5
    <3>2. f[z - 1] \o <<q[z]>> \in Seq(Segments)
      BY <2>4, <3>1, ConcatProperties
    <3> QED BY <2>5, <3>2, Zenon
  <2>7. Clean(f[z]) = Enter(Clean(f[z - 1]), q[z])
    BY <2>4, <2>5, CleanMore
  <2>8. Enter(Clean(f[z - 1]), q[z]) = Append(Clean(f[z - 1]), q[z])
    BY <2>5, EnterPlain
  <2> HIDE DEF base
  <2>9. JoinedTo(Append(Clean(f[z - 1]), q[z]), base, q, z)
    BY <1>4, <2>3, <2>4, <2>5, JoinedNext
  <2>10. JoinedTo(Clean(f[z]), base, q, z)
    BY <2>7, <2>8, <2>9, Zenon
  <2> QED BY <2>1, <2>6, <2>10, Zenon
<1>7. n \in 1..n
  OBVIOUS
<1>8. JoinedTo(Clean(f[n]), base, q, n)
  <2> HIDE DEF base
  <2> QED BY <1>6, <1>7
<1> QED BY <1>2, <1>3, <1>8, Zenon

-----------------------------------------------------------------------------
(* parseDest.                                                              *)

LEMMA MinIs ==
  ASSUME NEW S \in SUBSET Nat, S # {}
  PROVE  Min(S) \in S /\ \A y \in S : Min(S) <= y
<1>1. \E x \in S : \A y \in S : x <= y
  BY LeastNatural
<1> QED BY <1>1 DEF Min

LEMMA MaxIs ==
  ASSUME NEW n \in Nat, NEW S \in SUBSET (0..n), S # {}
  PROVE  Max(S) \in S /\ \A y \in S : y <= Max(S)
<1> DEFINE R == {k \in 0..n : n - k \in S}
<1>1. R \in SUBSET Nat
  OBVIOUS
<1>2. R # {}
  <2>1. PICK y \in S : TRUE
    OBVIOUS
  <2>2. n - y \in 0..n /\ n - (n - y) = y
    OBVIOUS
  <2>3. n - y \in R
    BY <2>1, <2>2
  <2> QED BY <2>3
<1>3. PICK m \in R : \A k \in R : m <= k
  <2> HIDE DEF R
  <2> QED BY <1>1, <1>2, LeastNatural
<1>4. n - m \in S
  OBVIOUS
<1>5. ASSUME NEW y \in S PROVE n - m >= y
  <2>1. n - y \in 0..n /\ n - (n - y) = y
    OBVIOUS
  <2>2. n - y \in R
    BY <2>1
  <2>3. m <= n - y
    BY <1>3, <2>2
  <2>4. m \in 0..n /\ y \in 0..n
    OBVIOUS
  <2> QED BY <2>3, <2>4
<1>6. \E x \in S : \A y \in S : x >= y
  BY <1>4, <1>5
<1>7. Max(S) \in S /\ \A y \in S : Max(S) >= y
  <2> HIDE DEF R
  <2> QED BY <1>6, Zenon DEF Max
<1>8. ASSUME NEW y \in S PROVE y <= Max(S)
  <2>1. y \in 0..n /\ Max(S) \in 0..n /\ Max(S) >= y
    BY <1>7
  <2> QED BY <2>1
<1> QED BY <1>7, <1>8

\* strings.Trim takes nothing but slashes away.
LEMMA TrimTyped ==
  ASSUME NEW s \in Seq(Chars)
  PROVE  /\ Trim(s) \in Seq(Chars)
         /\ \A i \in DOMAIN s : s[i] # "/" => s[i] \in Range(Trim(s))
<1> DEFINE others == {i \in DOMAIN s : s[i] # "/"}
           n == Len(s)
<1>1. n \in Nat /\ DOMAIN s = 1..n
  OBVIOUS
<1>2. CASE others = {}
  <2>1. Trim(s) = <<>>
    BY <1>2 DEF Trim
  <2>2. <<>> \in Seq(Chars)
    OBVIOUS
  <2> QED BY <1>2, <2>1, <2>2
<1>3. CASE others # {}
  <2> DEFINE a == Min(others)
             b == Max(others)
  <2>1. others \in SUBSET Nat /\ others \in SUBSET (0..n)
    BY <1>1
  <2>2. /\ a \in others /\ b \in others
        /\ \A i \in others : a <= i /\ i <= b
    <3> HIDE DEF others
    <3>1. a \in others /\ \A i \in others : a <= i
      BY <1>3, <2>1, MinIs
    <3>2. b \in others /\ \A i \in others : i <= b
      BY <1>1, <1>3, <2>1, MaxIs
    <3> QED BY <3>1, <3>2
  <2>3. Trim(s) = SubSeq(s, a, b)
    BY <1>3 DEF Trim
  <2>4. a \in 1..n /\ b \in 1..n
    BY <1>1, <2>2
  <2> HIDE DEF a, b
  <2>5. /\ SubSeq(s, a, b) \in Seq(Chars) /\ Len(SubSeq(s, a, b)) = b - a + 1
        /\ \A k \in 1..(b - a + 1) : SubSeq(s, a, b)[k] = s[a + k - 1]
    <3>1. a <= b
      BY <2>2
    <3> QED BY <1>1, <2>4, <3>1
  <2>6. ASSUME NEW i \in DOMAIN s, s[i] # "/" PROVE s[i] \in Range(Trim(s))
    <3>1. i \in others /\ a <= i /\ i <= b
      BY <2>2, <2>6
    <3>2. i - a + 1 \in 1..(b - a + 1) /\ a + (i - a + 1) - 1 = i
      BY <1>1, <2>4, <3>1
    <3>3. SubSeq(s, a, b)[i - a + 1] = s[i]
      BY <2>5, <3>2
    <3>4. i - a + 1 \in DOMAIN SubSeq(s, a, b)
      BY <2>4, <2>5, <3>2
    <3> QED BY <2>3, <3>3, <3>4, Zenon DEF Range
  <2> QED BY <2>3, <2>5, <2>6
<1> QED BY <1>2, <1>3

LEMMA FlattenTyped ==
  ASSUME NEW S, NEW q \in Seq(Seq(S))
  PROVE  FlattenSeq(q) \in Seq(S)
<1> DEFINE n == Len(q)
<1>1. n \in Nat /\ DOMAIN q = 1..n /\ \A i \in 1..n : q[i] \in Seq(S)
  OBVIOUS
<1>2. CASE n = 0
  <2>1. q = <<>>
    BY <1>2
  <2>2. FlattenSeq(q) = q
    BY <1>2 DEF FlattenSeq
  <2>3. <<>> \in Seq(S)
    OBVIOUS
  <2> QED BY <2>1, <2>2, <2>3
<1>3. CASE n # 0
  <2>1. PICK f : /\ FlattenSeq(q) = f[n]
                 /\ f[1] = q[1]
                 /\ \A i \in 2..n : f[i] = f[i - 1] \o q[i]
    <3>1. n \in Nat \ {0}
      BY <1>1, <1>3
    <3>2. Len(q) = n
      OBVIOUS
    <3> HIDE DEF n
    <3> QED BY <3>1, <3>2, FlattenRounds, Zenon
  <2> DEFINE B == {i \in 1..n : f[i] \notin Seq(S)}
  <2>2. B = {}
    <3> SUFFICES ASSUME B # {} PROVE FALSE
      OBVIOUS
    <3>1. PICK z \in B : \A k \in B : z <= k
      <4>1. B \in SUBSET Nat
        BY <1>1
      <4> HIDE DEF B
      <4> QED BY <4>1, LeastNatural
    <3>2. z # 1
      BY <1>1, <1>3, <2>1
    <3>3. z \in 2..n /\ z \in 1..n /\ f[z - 1] \in Seq(S)
      BY <1>1, <3>1, <3>2
    <3>4. f[z] = f[z - 1] \o q[z] /\ q[z] \in Seq(S)
      BY <1>1, <2>1, <3>3
    <3>5. f[z - 1] \o q[z] \in Seq(S)
      BY <3>3, <3>4, ConcatProperties
    <3>6. f[z] \in Seq(S)
      BY <3>4, <3>5, Zenon
    <3> QED BY <3>6
  <2>3. n \in 1..n
    BY <1>1, <1>3
  <2> QED BY <2>1, <2>2, <2>3
<1> QED BY <1>2, <1>3

LEMMA BeforeQueryTyped ==
  ASSUME NEW s \in Seq(Chars)
  PROVE  /\ BeforeQuery(s) \in Seq(Chars)
         /\ (\A i \in DOMAIN s : s[i] \notin {"?", "#"}) => BeforeQuery(s) = s
<1> DEFINE ends == {i \in DOMAIN s : s[i] \in {"?", "#"}}
<1>1. CASE ends = {}
  <2>1. BeforeQuery(s) = s
    BY <1>1 DEF BeforeQuery
  <2> QED BY <2>1
<1>2. CASE ends # {}
  <2> DEFINE a == Min(ends)
  <2>1. ends \in SUBSET Nat
    OBVIOUS
  <2>2. a \in ends
    <3> HIDE DEF ends
    <3> QED BY <1>2, <2>1, MinIs
  <2>3. BeforeQuery(s) = SubSeq(s, 1, a - 1)
    BY <1>2 DEF BeforeQuery
  <2>4. a \in 1..Len(s)
    BY <2>2
  <2>5. ~(\A i \in DOMAIN s : s[i] \notin {"?", "#"})
    BY <2>2
  <2> HIDE DEF a
  <2>6. SubSeq(s, 1, a - 1) \in Seq(Chars)
    BY <2>4
  <2> QED BY <2>3, <2>5, <2>6
<1> QED BY <1>1, <1>2

LEMMA URLPathTyped ==
  ASSUME NEW s \in Seq(Chars), WellFormed(BeforeQuery(s))
  PROVE  URLPath(s) \in Seq(Chars)
<1> DEFINE p == BeforeQuery(s)
           piece(i) == CASE p[i] = "%" -> <<CHOOSE c \in DOMAIN Encoded : Encoded[c] = <<p[i + 1], p[i + 2]>> >>
                         [] p[i] # "%" /\ \E k \in {i - 1, i - 2} \cap DOMAIN p : p[k] = "%" -> <<>>
                         [] OTHER -> <<p[i]>>
           q == [i \in DOMAIN p |-> piece(i)]
<1>1. p \in Seq(Chars) /\ WellFormed(p)
  BY BeforeQueryTyped
<1>2. URLPath(s) = FlattenSeq(q)
  BY DEF URLPath
<1> HIDE DEF p
<1>3. ASSUME NEW i \in DOMAIN p PROVE piece(i) \in Seq(Chars)
  <2>1. CASE p[i] = "%"
    <3> DEFINE d == CHOOSE c \in DOMAIN Encoded : Encoded[c] = <<p[i + 1], p[i + 2]>>
    <3>1. \E c \in DOMAIN Encoded : Encoded[c] = <<p[i + 1], p[i + 2]>>
      BY <1>1, <2>1 DEF WellFormed
    <3>2. d \in DOMAIN Encoded
      BY <3>1
    <3>3. piece(i) = <<d>>
      BY <2>1
    <3>4. d \in Chars
      BY <3>2, Table, Letters
    <3> HIDE DEF d, piece
    <3> QED BY <3>3, <3>4
  <2>2. CASE p[i] # "%" /\ \E k \in {i - 1, i - 2} \cap DOMAIN p : p[k] = "%"
    <3>1. piece(i) = <<>>
      BY <2>2
    <3>2. <<>> \in Seq(Chars)
      OBVIOUS
    <3> HIDE DEF piece
    <3> QED BY <3>1, <3>2
  <2>3. CASE p[i] # "%" /\ ~(\E k \in {i - 1, i - 2} \cap DOMAIN p : p[k] = "%")
    <3>1. piece(i) = <<p[i]>>
      BY <2>3
    <3>2. p[i] \in Chars
      BY <1>1
    <3> HIDE DEF piece
    <3> QED BY <3>1, <3>2
  <2> QED BY <2>1, <2>2, <2>3
<1> HIDE DEF piece
<1>4. q \in Seq(Seq(Chars))
  <2> DEFINE A == Seq(Chars)
  <2>1. \A i \in DOMAIN p : piece(i) \in A
    BY <1>3
  <2>2. DOMAIN p = 1..Len(p) /\ Len(p) \in Nat
    BY <1>1
  <2> HIDE DEF A
  <2>3. q \in Seq(A)
    BY <2>1, <2>2
  <2> QED BY <2>3 DEF A
<1> HIDE DEF q
<1> QED BY <1>2, <1>4, FlattenTyped

LEMMA ConfigTyped ==
  ASSUME NEW c \in Configs
  PROVE  /\ c.engine \in {"postgres", "mysql"}
         /\ c.host \in Seq(Chars) /\ c.port \in Seq(Chars) /\ c.database \in Seq(Chars) /\ c.prefix \in Seq(Chars)
         /\ ParseDest(c.prefix) \in Seq(Chars)
<1>1. /\ c.engine \in {"postgres", "mysql"}
      /\ c.host \in Seq(Chars) /\ c.port \in Seq(Chars) /\ c.database \in Seq(Chars) /\ c.prefix \in Seq(Chars)
  BY ObjectKeyAssumption DEF ObjectKeyAssumption, ConfigRecords, Strings
<1>2. WellFormed(BeforeQuery(c.prefix))
  BY ObjectKeyAssumption DEF ObjectKeyAssumption
<1>3. ParseDest(c.prefix) \in Seq(Chars)
  BY <1>1, <1>2, URLPathTyped, TrimTyped DEF ParseDest
<1> QED BY <1>1, <1>3

-----------------------------------------------------------------------------
(* Scopes and keys.                                                        *)

\* A segment of one letter, and what a name becomes, stay what they are in a path.
LEMMA LetterIsPlain ==
  ASSUME NEW x \in Alphabet, x # "/", x # "."
  PROVE  <<x>> \in Segments /\ Plain(<<x>>) /\ NoSlash(<<x>>)
<1> DEFINE s == <<x>>
<1>1. s \in Segments /\ Len(s) = 1 /\ s[1] = x
  BY DEF Segments
<1>2. s # <<>> /\ s # Dot /\ s # DotDot
  BY DEF Dot, DotDot
<1>3. NoSlash(s)
  BY <1>1 DEF NoSlash
<1> QED BY <1>1, <1>2, <1>3 DEF Plain

LEMMA NameIsPlain ==
  ASSUME NEW s \in Seq(Chars), NEW x, x = SanitizeKeySegment(s)
  PROVE  x \in Segments /\ Plain(x) /\ NoSlash(x)
<1>1. Ordinary(x)
  BY SanitizeIsOrdinary
<1> QED BY <1>1, NamesAreSegments DEF Ordinary, Plain

Base(c) == Clean(Split(ParseDest(c.prefix)))

LEMMA LabelTyped ==
  ASSUME NEW c \in Configs
  PROVE  Label(c) \in Seq(Chars)
<1> DEFINE u == <<"underscore">>
           p == c.host \o u
<1>1. c.host \in Seq(Chars) /\ c.port \in Seq(Chars)
  BY ConfigTyped
<1>2. u \in Seq(Chars)
  BY Letters
<1>3. p \in Seq(Chars)
  BY <1>1, <1>2, ConcatProperties
<1>4. p \o c.port \in Seq(Chars)
  <2> HIDE DEF p
  <2> QED BY <1>1, <1>3, ConcatProperties
<1>5. Label(c) = c.host \/ Label(c) = p \o c.port
  BY Zenon DEF Label
<1> QED BY <1>1, <1>4, <1>5, Zenon

LEMMA PartsArePlain ==
  ASSUME NEW c \in Configs
  PROVE  /\ <<c.engine>> \in Segments /\ Plain(<<c.engine>>) /\ NoSlash(<<c.engine>>)
         /\ Cluster(c) \in Segments /\ Plain(Cluster(c)) /\ NoSlash(Cluster(c))
         /\ SanitizeKeySegment(c.database) \in Segments
         /\ Plain(SanitizeKeySegment(c.database)) /\ NoSlash(SanitizeKeySegment(c.database))
<1>1. c.engine \in Alphabet /\ c.engine # "/" /\ c.engine # "."
  BY ConfigTyped DEF Alphabet
<1>2. <<c.engine>> \in Segments /\ Plain(<<c.engine>>) /\ NoSlash(<<c.engine>>)
  BY <1>1, LetterIsPlain
<1>3. Cluster(c) \in Segments /\ Plain(Cluster(c)) /\ NoSlash(Cluster(c))
  BY LabelTyped, NameIsPlain DEF Cluster
<1>4. c.database \in Seq(Chars)
  BY ConfigTyped
<1>5. /\ SanitizeKeySegment(c.database) \in Segments
      /\ Plain(SanitizeKeySegment(c.database)) /\ NoSlash(SanitizeKeySegment(c.database))
  BY <1>4, NameIsPlain
<1> QED BY <1>2, <1>3, <1>5

\* A path in a scope: the base, then engine, cluster and database, then n more segments.
LiesIn(r, c, n) ==
  /\ r \in Seq(Segments) /\ Len(r) = Len(Base(c)) + (n + 3)
  /\ \A k \in 1..Len(Base(c)) : r[k] = Base(c)[k]
  /\ r[Len(Base(c)) + 1] = <<c.engine>>
  /\ r[Len(Base(c)) + 2] = Cluster(c)
  /\ r[Len(Base(c)) + 3] = SanitizeKeySegment(c.database)

LEMMA BaseTyped ==
  ASSUME NEW c \in Configs
  PROVE  Base(c) \in Seq(Segments) /\ Len(Base(c)) \in Nat
<1>1. Base(c) \in Seq(Segments)
  BY ConfigTyped, SplitTyped, CleanTyped, PathsAreSegments DEF Base
<1> QED BY <1>1

LEMMA ScopeShape ==
  ASSUME NEW c \in Configs
  PROVE  LiesIn(Scope(c), c, 0)
<1> DEFINE P == ParseDest(c.prefix)
           E == <<c.engine>>
           C == Cluster(c)
           D == SanitizeKeySegment(c.database)
           q == <<P, E, C, D>>
           r == PathJoin(q)
           base == Base(c)
<1>1. P \in Seq(Chars) /\ P \in Segments
  BY ConfigTyped, NamesAreSegments
<1>2. /\ E \in Segments /\ Plain(E) /\ NoSlash(E)
      /\ C \in Segments /\ Plain(C) /\ NoSlash(C)
      /\ D \in Segments /\ Plain(D) /\ NoSlash(D)
  BY PartsArePlain
<1>3. Scope(c) = r /\ base = Clean(Split(P)) /\ Len(base) \in Nat
  BY BaseTyped DEF Scope, Base
<1> HIDE DEF P, E, C, D, base
<1>4. q \in Seq(Segments) /\ Len(q) = 4 /\ q[1] = P /\ q[2] = E /\ q[3] = C /\ q[4] = D
  BY <1>1, <1>2
<1> HIDE DEF q
<1>5. \A k \in 2..4 : Plain(q[k]) /\ NoSlash(q[k])
  <2>1. \A k \in 2..4 : k = 2 \/ k = 3 \/ k = 4
    OBVIOUS
  <2> QED BY <1>2, <1>4, <2>1, Zenon
<1>6. JoinedTo(r, base, q, 4)
  <2>1. 4 \in Nat \ {0}
    OBVIOUS
  <2>2. q[1] \in Seq(Chars)
    BY <1>1, <1>4
  <2>3. JoinedTo(PathJoin(q), Clean(Split(q[1])), q, 4)
    BY <1>4, <1>5, <2>1, <2>2, PathJoinShape
  <2> QED BY <1>3, <1>4, <2>3, Zenon
<1> HIDE DEF r
<1>7. /\ r \in Seq(Segments) /\ Len(r) = Len(base) + 3
      /\ \A k \in 1..Len(base) : r[k] = base[k]
      /\ r[Len(base) + 1] = q[2] /\ r[Len(base) + 2] = q[3] /\ r[Len(base) + 3] = q[4]
  BY <1>3, <1>6 DEF JoinedTo
<1>8. /\ r \in Seq(Segments) /\ Len(r) = Len(base) + (0 + 3)
      /\ \A k \in 1..Len(base) : r[k] = base[k]
      /\ r[Len(base) + 1] = E /\ r[Len(base) + 2] = C /\ r[Len(base) + 3] = D
  BY <1>3, <1>4, <1>7
<1> QED BY <1>3, <1>8, Zenon DEF LiesIn, E, C, D, base

LEMMA KeyShape ==
  ASSUME NEW c \in Configs, NEW n \in DOMAIN BackupIDs
  PROVE  LiesIn(ObjectKey(c, n), c, 3)
<1> DEFINE P == ParseDest(c.prefix)
           E == <<c.engine>>
           C == Cluster(c)
           D == SanitizeKeySegment(c.database)
           Y == <<"2026">>
           M == <<"01">>
           I == <<BackupIDs[n]>>
           q == <<P, E, C, D, Y, M, I>>
           r == PathJoin(q)
           base == Base(c)
<1>1. P \in Seq(Chars) /\ P \in Segments
  BY ConfigTyped, NamesAreSegments
<1>2. /\ E \in Segments /\ Plain(E) /\ NoSlash(E)
      /\ C \in Segments /\ Plain(C) /\ NoSlash(C)
      /\ D \in Segments /\ Plain(D) /\ NoSlash(D)
  BY PartsArePlain
<1>3. /\ Y \in Segments /\ Plain(Y) /\ NoSlash(Y)
      /\ M \in Segments /\ Plain(M) /\ NoSlash(M)
  <2>1. "2026" \in Alphabet /\ "01" \in Alphabet
    BY DEF Alphabet
  <2> QED BY <2>1, LetterIsPlain
<1>4. I \in Segments /\ Plain(I) /\ NoSlash(I)
  <2>1. BackupIDs[n] \in Chars \ {"/", "."}
    BY ObjectKeyAssumption DEF ObjectKeyAssumption
  <2>2. BackupIDs[n] \in Alphabet /\ BackupIDs[n] # "/" /\ BackupIDs[n] # "."
    BY <2>1 DEF Alphabet
  <2> QED BY <2>2, LetterIsPlain
<1>5. ObjectKey(c, n) = r /\ base = Clean(Split(P)) /\ Len(base) \in Nat
  BY BaseTyped DEF ObjectKey, Base
<1> HIDE DEF P, E, C, D, Y, M, I, base
<1>6. /\ q \in Seq(Segments) /\ Len(q) = 7
      /\ q[1] = P /\ q[2] = E /\ q[3] = C /\ q[4] = D /\ q[5] = Y /\ q[6] = M /\ q[7] = I
  BY <1>1, <1>2, <1>3, <1>4
<1> HIDE DEF q
<1>7. \A k \in 2..7 : Plain(q[k]) /\ NoSlash(q[k])
  <2>1. \A k \in 2..7 : k = 2 \/ k = 3 \/ k = 4 \/ k = 5 \/ k = 6 \/ k = 7
    OBVIOUS
  <2> QED BY <1>2, <1>3, <1>4, <1>6, <2>1, Zenon
<1>8. JoinedTo(r, base, q, 7)
  <2>1. 7 \in Nat \ {0}
    OBVIOUS
  <2>2. q[1] \in Seq(Chars)
    BY <1>1, <1>6
  <2>3. JoinedTo(PathJoin(q), Clean(Split(q[1])), q, 7)
    BY <1>6, <1>7, <2>1, <2>2, PathJoinShape
  <2> QED BY <1>5, <1>6, <2>3, Zenon
<1> HIDE DEF r
<1>9. /\ r \in Seq(Segments) /\ Len(r) = Len(base) + 6
      /\ \A k \in 1..Len(base) : r[k] = base[k]
      /\ r[Len(base) + 1] = q[2] /\ r[Len(base) + 2] = q[3] /\ r[Len(base) + 3] = q[4]
  BY <1>5, <1>8 DEF JoinedTo
<1>10. /\ r \in Seq(Segments) /\ Len(r) = Len(base) + (3 + 3)
       /\ \A k \in 1..Len(base) : r[k] = base[k]
       /\ r[Len(base) + 1] = E /\ r[Len(base) + 2] = C /\ r[Len(base) + 3] = D
  BY <1>5, <1>6, <1>9
<1> QED BY <1>5, <1>10, Zenon DEF LiesIn, E, C, D, base

\* The scope that a key gives away is the one of its configuration.
LEMMA FrontIs ==
  ASSUME NEW S, NEW s \in Seq(S), Len(s) # 0
  PROVE  /\ Front(s) \in Seq(S) /\ Len(Front(s)) = Len(s) - 1
         /\ \A k \in 1..(Len(s) - 1) : Front(s)[k] = s[k]
<1> DEFINE m == Len(s) - 1
<1>1. m \in 0..Len(s) /\ m + 1 - 1 = m
  OBVIOUS
<1>2. Front(s) = SubSeq(s, 1, m)
  BY DEF Front
<1>3. SubSeq(s, 1, m) \in Seq(S) /\ Len(SubSeq(s, 1, m)) = m
  BY <1>1
<1>4. ASSUME NEW k \in 1..m PROVE SubSeq(s, 1, m)[k] = s[k]
  BY <1>1
<1> QED BY <1>2, <1>3, <1>4

LEMMA FrontOfKey ==
  ASSUME NEW S, NEW s \in Seq(S), NEW m \in Nat, Len(s) = m + 3, NEW t, t = Front(Front(Front(s)))
  PROVE  t \in Seq(S) /\ Len(t) = m /\ \A k \in 1..m : t[k] = s[k]
<1> DEFINE u == Front(s)
           v == Front(u)
           w == Front(v)
<1>1. u \in Seq(S) /\ Len(u) = m + 2 /\ \A k \in 1..(m + 2) : u[k] = s[k]
  <2>1. Len(s) # 0 /\ Len(s) - 1 = m + 2
    OBVIOUS
  <2> QED BY <2>1, FrontIs
<1> HIDE DEF u
<1>2. v \in Seq(S) /\ Len(v) = m + 1 /\ \A k \in 1..(m + 1) : v[k] = u[k]
  <2>1. Len(u) # 0 /\ Len(u) - 1 = m + 1
    BY <1>1
  <2> QED BY <1>1, <2>1, FrontIs
<1> HIDE DEF v
<1>3. w \in Seq(S) /\ Len(w) = m /\ \A k \in 1..m : w[k] = v[k]
  <2>1. Len(v) # 0 /\ Len(v) - 1 = m
    BY <1>2
  <2> QED BY <1>2, <2>1, FrontIs
<1> HIDE DEF w
<1>4. \A k \in 1..m : w[k] = s[k]
  BY <1>1, <1>2, <1>3
<1>5. t = w
  BY DEF u, v, w
<1> QED BY <1>3, <1>4, <1>5, Zenon

LEMMA LiesInAgree ==
  ASSUME NEW c \in Configs, NEW r, NEW s, LiesIn(r, c, 0), LiesIn(s, c, 3)
  PROVE  /\ Len(r) \in Nat /\ Len(s) = Len(r) + 3
         /\ \A k \in 1..Len(r) : s[k] = r[k]
<1> DEFINE b == Len(Base(c))
<1>1. b \in Nat
  BY BaseTyped
<1>2. Len(r) = b + 3 /\ Len(s) = b + 6
  BY <1>1 DEF LiesIn
<1>3. ASSUME NEW k \in 1..b PROVE s[k] = r[k]
  BY DEF LiesIn
<1>4. s[b + 1] = r[b + 1] /\ s[b + 2] = r[b + 2] /\ s[b + 3] = r[b + 3]
  BY DEF LiesIn
<1> HIDE DEF b
<1>5. ASSUME NEW k \in 1..Len(r) PROVE s[k] = r[k]
  <2>1. k \in 1..b \/ k = b + 1 \/ k = b + 2 \/ k = b + 3
    BY <1>1, <1>2
  <2> QED BY <1>3, <1>4, <2>1
<1> QED BY <1>1, <1>2, <1>5

LEMMA ScopeOfKey ==
  ASSUME NEW c \in Configs, NEW n \in DOMAIN BackupIDs
  PROVE  BackupScope(ObjectKey(c, n)) = Scope(c)
<1> DEFINE r == Scope(c)
           s == ObjectKey(c, n)
           t == BackupScope(s)
<1>1. LiesIn(r, c, 0) /\ LiesIn(s, c, 3)
  BY ScopeShape, KeyShape
<1>2. t = Front(Front(Front(s)))
  BY DEF BackupScope, PathDir
<1> HIDE DEF r, s, t
<1>3. r \in Seq(Segments) /\ s \in Seq(Segments)
  BY <1>1 DEF LiesIn
<1>4. Len(r) \in Nat /\ Len(s) = Len(r) + 3 /\ \A k \in 1..Len(r) : s[k] = r[k]
  BY <1>1, LiesInAgree
<1>5. t \in Seq(Segments) /\ Len(t) = Len(r) /\ \A k \in 1..Len(r) : t[k] = s[k]
  BY <1>2, <1>3, <1>4, FrontOfKey
<1>6. t = r
  BY <1>3, <1>4, <1>5
<1> QED BY <1>6 DEF r, s, t

LEMMA KeyInScope ==
  ASSUME NEW c \in Configs, NEW n \in DOMAIN BackupIDs
  PROVE  Inside(Scope(c), ObjectKey(c, n))
<1> DEFINE r == Scope(c)
           s == ObjectKey(c, n)
<1>1. LiesIn(r, c, 0) /\ LiesIn(s, c, 3)
  BY ScopeShape, KeyShape
<1> HIDE DEF r, s
<1>2. r \in Seq(Segments) /\ s \in Seq(Segments)
  BY <1>1 DEF LiesIn
<1>3. Len(r) \in Nat /\ Len(s) = Len(r) + 3 /\ \A k \in 1..Len(r) : s[k] = r[k]
  BY <1>1, LiesInAgree
<1>4. SubSeq(r, 1, Len(r)) = SubSeq(s, 1, Len(r))
  BY <1>2, <1>3
<1>5. IsPrefix(r, s) /\ r # s
  BY <1>2, <1>3, <1>4 DEF IsPrefix
<1> QED BY <1>5 DEF Inside, IsStrictPrefix, r, s

\* Below one prefix a key in a scope has the engine, the cluster and the database of it.
LEMMA ScopeTellsOwner ==
  ASSUME NEW c \in Configs, NEW d \in Configs, c.prefix = d.prefix, NEW n \in DOMAIN BackupIDs,
         Inside(Scope(c), ObjectKey(d, n))
  PROVE  c.engine = d.engine /\ Cluster(c) = Cluster(d) /\ c.database = d.database
<1> DEFINE r == Scope(c)
           s == ObjectKey(d, n)
           b == Len(Base(c))
<1>1. LiesIn(r, c, 0) /\ LiesIn(s, d, 3)
  BY ScopeShape, KeyShape
<1>2. b \in Nat /\ Base(c) = Base(d)
  BY BaseTyped DEF Base
<1>3. Len(r) <= Len(s) /\ SubSeq(r, 1, Len(r)) = SubSeq(s, 1, Len(r))
  BY DEF Inside, IsStrictPrefix, IsPrefix
<1> HIDE DEF r, s
<1>4. r \in Seq(Segments) /\ s \in Seq(Segments) /\ Len(r) = b + 3
  BY <1>1, <1>2 DEF LiesIn
<1>5. \A k \in 1..Len(r) : r[k] = s[k]
  <2>1. ASSUME NEW k \in 1..Len(r) PROVE SubSeq(r, 1, Len(r))[k] = r[k] /\ SubSeq(s, 1, Len(r))[k] = s[k]
    BY <1>3, <1>4
  <2> QED BY <1>3, <2>1
<1>6. r[b + 1] = s[b + 1] /\ r[b + 2] = s[b + 2] /\ r[b + 3] = s[b + 3]
  BY <1>2, <1>4, <1>5
<1>7. r[b + 1] = <<c.engine>> /\ r[b + 2] = Cluster(c) /\ r[b + 3] = SanitizeKeySegment(c.database)
  BY <1>1 DEF LiesIn
<1>8. s[b + 1] = <<d.engine>> /\ s[b + 2] = Cluster(d) /\ s[b + 3] = SanitizeKeySegment(d.database)
  BY <1>1, <1>2, Zenon DEF LiesIn
<1>9. <<c.engine>> = <<d.engine>> /\ Cluster(c) = Cluster(d) /\ SanitizeKeySegment(c.database) = SanitizeKeySegment(d.database)
  BY <1>6, <1>7, <1>8, Zenon
<1>10. c.engine = d.engine
  BY <1>9
<1>11. c.database = d.database
  BY <1>9, ConfigTyped, SanitizeIsCollisionFree
<1> QED BY <1>9, <1>10, <1>11

\* Servers with labels of their own have clusters of their own.
LEMMA ClusterTellsServer ==
  ASSUME LabelsApart, NEW c \in Configs, NEW d \in Configs, c.engine = d.engine, Cluster(c) = Cluster(d)
  PROVE  c.host = d.host /\ c.port = d.port
<1>1. Label(c) = Label(d)
  BY LabelTyped, SanitizeIsCollisionFree DEF Cluster
<1> QED BY <1>1 DEF LabelsApart

-----------------------------------------------------------------------------
(* The jobs.                                                               *)

Backups == [key : Seq(Segments), conf : Configs, job : Jobs]

\* Every backup lies under the key of the configuration it was written with, every
\* delete was one of a backup with the identity of the pass, and a pinned pass was
\* refused exactly if it would have worked elsewhere.
WrittenInv ==
  /\ written \in Seq(Backups) /\ Len(written) <= Len(BackupIDs)
  /\ \A i \in DOMAIN written : written[i].key = ObjectKey(written[i].conf, i)

DeletesInv ==
  /\ present \subseteq DOMAIN written
  /\ \A d \in deletes : d[1] \in Configs /\ d[2] \in DOMAIN written /\ OwnerOf[d[1]] = OwnerOf[written[d[2]].conf]

PassInv ==
  /\ pass.conf \in Configs /\ pass.pin \in {0} \cup DOMAIN written
  /\ pass.pin # 0 => (pass.refused <=> BackupScope(written[pass.pin].key) # ScopeOf[pass.conf])

KeyInv == conf \in [Jobs -> Configs] /\ WrittenInv /\ DeletesInv /\ PassInv

LEMMA KeyTyped ==
  ASSUME NEW c \in Configs, NEW n \in DOMAIN BackupIDs
  PROVE  ObjectKey(c, n) \in Seq(Segments)
BY KeyShape DEF LiesIn

LEMMA KeyInit == Init => KeyInv
<1> SUFFICES ASSUME Init PROVE KeyInv
  OBVIOUS
<1>1. BackupIDs \in Seq(Chars \ {"/", "."}) /\ Configs # {}
  BY ObjectKeyAssumption DEF ObjectKeyAssumption
<1>2. WrittenInv
  BY <1>1 DEF Init, WrittenInv
<1>3. DeletesInv
  BY DEF Init, DeletesInv
<1>4. pass.conf \in Configs /\ pass.pin = 0
  BY <1>1 DEF Init, NoPass
<1>5. PassInv
  BY <1>4 DEF PassInv
<1> QED BY <1>2, <1>3, <1>5 DEF Init, KeyInv

\* A step that adds nothing but a backup at the end leaves what is said of the others.
LEMMA RunKeeps ==
  ASSUME KeyInv, NEW j \in Jobs, Run(j)
  PROVE  KeyInv'
<1> DEFINE n == Len(written)
           new == [key |-> ObjectKey(conf[j], n + 1), conf |-> conf[j], job |-> j]
<1>1. /\ conf \in [Jobs -> Configs] /\ written \in Seq(Backups) /\ n \in Nat /\ DOMAIN written = 1..n
      /\ n < Len(BackupIDs) /\ written' = Append(written, new)
      /\ UNCHANGED <<conf, deletes, pass, edits>> /\ present' = present \cup {n + 1}
  BY DEF KeyInv, WrittenInv, Run
<1>2. BackupIDs \in Seq(Chars \ {"/", "."})
  BY ObjectKeyAssumption DEF ObjectKeyAssumption
<1>3. n + 1 \in DOMAIN BackupIDs /\ conf[j] \in Configs
  BY <1>1, <1>2
<1>4. new \in Backups /\ new.conf = conf[j] /\ new.key = ObjectKey(conf[j], n + 1)
  BY <1>3, KeyTyped DEF Backups
<1> HIDE DEF new
<1>5. /\ written' \in Seq(Backups) /\ Len(written') = n + 1 /\ DOMAIN written' = 1..(n + 1)
      /\ written'[n + 1] = new /\ \A i \in 1..n : written'[i] = written[i]
  BY <1>1, <1>4
<1>6. WrittenInv'
  <2>1. ASSUME NEW i \in 1..(n + 1) PROVE written'[i].key = ObjectKey(written'[i].conf, i)
    <3>1. CASE i = n + 1
      BY <1>4, <1>5, <3>1
    <3>2. CASE i # n + 1
      <4>1. i \in 1..n
        BY <1>1, <3>2
      <4>2. written[i].key = ObjectKey(written[i].conf, i)
        BY <1>1, <4>1 DEF KeyInv, WrittenInv
      <4> QED BY <1>5, <4>1, <4>2
    <3> QED BY <3>1, <3>2
  <2>2. Len(written') <= Len(BackupIDs)
    BY <1>1, <1>2, <1>5
  <2>3. \A i \in DOMAIN written' : written'[i].key = (ObjectKey(written[i].conf, i))'
    BY <1>5, <2>1 DEF ObjectKey, ParseDest
  <2> QED BY <1>5, <2>2, <2>3 DEF WrittenInv
<1>7. DeletesInv'
  <2>1. present' \subseteq DOMAIN written'
    BY <1>1, <1>5 DEF KeyInv, DeletesInv
  <2>2. ASSUME NEW d \in deletes
        PROVE  d[1] \in Configs /\ d[2] \in DOMAIN written' /\ OwnerOf[d[1]] = OwnerOf[written'[d[2]].conf]
    <3>1. d[1] \in Configs /\ d[2] \in 1..n /\ OwnerOf[d[1]] = OwnerOf[written[d[2]].conf]
      BY <1>1 DEF KeyInv, DeletesInv
    <3>2. d[2] \in 1..(n + 1) /\ written'[d[2]] = written[d[2]]
      BY <1>1, <1>5, <3>1
    <3> QED BY <1>5, <3>1, <3>2
  <2>3. \A d \in deletes' : d[1] \in Configs /\ d[2] \in DOMAIN written' /\ OwnerOf[d[1]] = OwnerOf[written'[d[2]].conf]
    BY <1>1, <2>2
  <2> QED BY <2>1, <2>3 DEF DeletesInv
<1>8. PassInv'
  <2>1. pass.conf \in Configs /\ (pass.pin = 0 \/ pass.pin \in 1..n)
    BY <1>1 DEF KeyInv, PassInv
  <2>2. pass' = pass
    BY <1>1
  <2>3. CASE pass.pin = 0
    BY <2>1, <2>2, <2>3 DEF PassInv
  <2>4. CASE pass.pin # 0
    <3>1. pass.pin \in 1..(n + 1) /\ written'[pass.pin] = written[pass.pin]
      BY <1>1, <1>5, <2>1, <2>4
    <3>2. pass.refused <=> BackupScope(written[pass.pin].key) # ScopeOf[pass.conf]
      BY <2>4 DEF KeyInv, PassInv
    <3> QED BY <1>5, <2>1, <2>2, <3>1, <3>2 DEF PassInv
  <2> QED BY <2>3, <2>4
<1> QED BY <1>1, <1>6, <1>7, <1>8 DEF KeyInv

LEMMA PruneKeeps ==
  ASSUME KeyInv, NEW j \in Jobs, Prune(j)
  PROVE  KeyInv'
<1> DEFINE c == conf[j]
<1>1. c \in Configs /\ UNCHANGED <<conf, written, edits>>
  BY DEF KeyInv, Prune
<1> DEFINE Refused(pin) == \/ pin # 0 /\ BackupScope(written[pin].key) # ScopeOf[c]
                           \/ \E i \in Dropped(c) : ~Inside(ScopeOf[c], written[i].key)
<1>2. PICK pin \in {0} \cup {i \in DOMAIN written : written[i].job = j} :
        /\ pass' = [conf |-> c, pin |-> pin, refused |-> Refused(pin)]
        /\ present' = IF Refused(pin) THEN present ELSE present \ Dropped(c)
        /\ deletes' = IF Refused(pin) THEN deletes ELSE deletes \cup ({c} \X Dropped(c))
  BY DEF Prune
<1>3. ASSUME NEW i \in Dropped(c)
      PROVE  i \in present /\ Inside(ScopeOf[c], written[i].key) /\ OwnerOf[c] = OwnerOf[written[i].conf]
  BY <1>3 DEF Dropped, Matches
<1>4. Refused(pin) <=> (pin # 0 /\ BackupScope(written[pin].key) # ScopeOf[c])
  BY <1>3
<1> HIDE DEF c, Refused
<1>5. conf' \in [Jobs -> Configs] /\ WrittenInv'
  <2>1. conf' = conf /\ written' = written
    BY <1>1
  <2> QED BY <2>1 DEF KeyInv, WrittenInv, ObjectKey, ParseDest
<1>6. DeletesInv'
  <2>1. present' \subseteq present /\ present \subseteq DOMAIN written
    BY <1>2 DEF KeyInv, DeletesInv
  <2>2. ASSUME NEW d \in deletes'
        PROVE  d[1] \in Configs /\ d[2] \in DOMAIN written /\ OwnerOf[d[1]] = OwnerOf[written[d[2]].conf]
    <3>1. CASE d \in deletes
      BY <3>1 DEF KeyInv, DeletesInv
    <3>2. CASE d \notin deletes
      <4>1. d[1] = c /\ d[2] \in Dropped(c)
        BY <1>2, <2>2, <3>2
      <4> QED BY <1>1, <1>3, <2>1, <4>1
    <3> QED BY <3>1, <3>2
  <2>3. written' = written
    BY <1>1
  <2> QED BY <2>1, <2>2, <2>3 DEF DeletesInv
<1>7. PassInv'
  <2>1. pass'.conf = c /\ pass'.pin = pin /\ (pass'.refused <=> Refused(pin)) /\ pin \in {0} \cup DOMAIN written
    BY <1>2
  <2>2. written' = written
    BY <1>1
  <2> QED BY <1>1, <1>4, <2>1, <2>2 DEF PassInv
<1> QED BY <1>5, <1>6, <1>7 DEF KeyInv

LEMMA EditKeeps ==
  ASSUME KeyInv, (\E j \in Jobs : Edit(j)) \/ UNCHANGED vars
  PROVE  KeyInv'
<1>1. conf' \in [Jobs -> Configs]
  BY DEF KeyInv, Edit, vars
<1>2. written' = written /\ present' = present /\ deletes' = deletes /\ pass' = pass
  BY DEF Edit, vars
<1>3. WrittenInv'
  BY <1>2 DEF KeyInv, WrittenInv, ObjectKey, ParseDest
<1>4. DeletesInv'
  BY <1>2 DEF KeyInv, DeletesInv
<1>5. PassInv'
  BY <1>2 DEF KeyInv, PassInv
<1> QED BY <1>1, <1>3, <1>4, <1>5 DEF KeyInv

LEMMA KeyNext == KeyInv /\ [Next]_vars => KeyInv'
<1> SUFFICES ASSUME KeyInv, [Next]_vars PROVE KeyInv'
  OBVIOUS
<1>1. CASE \E j \in Jobs : Run(j)
  BY <1>1, RunKeeps
<1>2. CASE \E j \in Jobs : Prune(j)
  BY <1>2, PruneKeeps
<1>3. CASE (\E j \in Jobs : Edit(j)) \/ UNCHANGED vars
  BY <1>3, EditKeeps
<1> QED BY <1>1, <1>2, <1>3 DEF Next

\* The inductive invariant of the jobs (Run, Prune, and edits of the stored job).
THEOREM KeyInvariance == Spec => []KeyInv
BY KeyInit, KeyNext, PTL DEF Spec

\* Retention never deletes a backup of another database, whatever the names are made of
\* and however the prefixes of two destinations lie inside each other, if no host is named
\* as another one with its port (backupScope, scopeOwner.matches, sanitizeKeySegment).
THEOREM OwnBackupsAlways ==
  ASSUME LabelsApart
  PROVE  Spec => []OwnBackupsOnly
<1>1. KeyInv => OwnBackupsOnly
  <2> SUFFICES ASSUME KeyInv, NEW e \in deletes PROVE Database(written[e[2]].conf) = Database(e[1])
    BY DEF OwnBackupsOnly
  <2> DEFINE c == e[1]
             d == written[e[2]].conf
  <2>1. c \in Configs /\ d \in Configs /\ OwnerOf[c] = OwnerOf[d]
    <3>1. c \in Configs /\ e[2] \in DOMAIN written /\ OwnerOf[c] = OwnerOf[d]
      BY DEF KeyInv, DeletesInv
    <3>2. written[e[2]] \in Backups
      BY <3>1 DEF KeyInv, WrittenInv
    <3> QED BY <3>1, <3>2 DEF Backups
  <2> HIDE DEF c, d
  <2>2. <<c.engine, Cluster(c), c.database>> = <<d.engine, Cluster(d), d.database>>
    BY <2>1 DEF OwnerOf, ScopeOwner
  <2>3. c.engine = d.engine /\ Cluster(c) = Cluster(d) /\ c.database = d.database
    BY <2>2
  <2>4. c.host = d.host /\ c.port = d.port
    BY <2>1, <2>3, ClusterTellsServer
  <2> QED BY <2>3, <2>4 DEF Database, c, d
<1> QED BY <1>1, KeyInvariance, PTL

\* No pass even lists a backup of another database under its own destination
\* (sanitizeKeySegment, the cluster label).
THEOREM ScopesAlwaysApart ==
  ASSUME LabelsApart
  PROVE  Spec => []ScopesApart
<1>1. KeyInv => ScopesApart
  <2> SUFFICES ASSUME KeyInv, NEW j \in Jobs, NEW i \in DOMAIN written,
                      written[i].conf.prefix = conf[j].prefix,
                      Inside(ScopeOf[conf[j]], written[i].key)
               PROVE  Database(written[i].conf) = Database(conf[j])
    BY DEF ScopesApart
  <2> DEFINE c == conf[j]
             d == written[i].conf
  <2>1. c \in Configs /\ d \in Configs /\ written[i].key = ObjectKey(d, i) /\ i \in DOMAIN BackupIDs
    <3>1. c \in Configs /\ written[i].key = ObjectKey(d, i) /\ written \in Seq(Backups) /\ Len(written) <= Len(BackupIDs)
      BY DEF KeyInv, WrittenInv
    <3>2. BackupIDs \in Seq(Chars \ {"/", "."})
      BY ObjectKeyAssumption DEF ObjectKeyAssumption
    <3>3. written[i] \in Backups
      BY <3>1
    <3>4. i \in DOMAIN BackupIDs
      BY <3>1, <3>2
    <3> QED BY <3>1, <3>3, <3>4 DEF Backups
  <2>2. c.prefix = d.prefix /\ Inside(Scope(c), ObjectKey(d, i))
    BY <2>1 DEF ScopeOf
  <2> HIDE DEF c, d
  <2>3. c.engine = d.engine /\ Cluster(c) = Cluster(d) /\ c.database = d.database
    BY <2>1, <2>2, ScopeTellsOwner
  <2>4. c.host = d.host /\ c.port = d.port
    BY <2>1, <2>3, ClusterTellsServer
  <2> QED BY <2>3, <2>4 DEF Database, c, d
<1> QED BY <1>1, KeyInvariance, PTL

\* A pass pinned to a backup works where that backup landed or is refused, and is not
\* refused while the configuration is the one of the backup (BackupScope, RequireScope).
THEOREM PinIsAlwaysRight == Spec => []PinIsRight
<1>1. KeyInv => PinIsRight
  <2> SUFFICES ASSUME KeyInv, pass.pin # 0
               PROVE  /\ pass.conf = written[pass.pin].conf => ~pass.refused
                      /\ ~pass.refused => Inside(ScopeOf[pass.conf], written[pass.pin].key)
    BY DEF PinIsRight
  <2> DEFINE i == pass.pin
             c == pass.conf
             d == written[i].conf
  <2>1. i \in DOMAIN written /\ c \in Configs /\ (pass.refused <=> BackupScope(written[i].key) # ScopeOf[c])
    BY DEF KeyInv, PassInv
  <2>2. d \in Configs /\ written[i].key = ObjectKey(d, i) /\ i \in DOMAIN BackupIDs
    <3>1. written[i].key = ObjectKey(d, i) /\ written \in Seq(Backups) /\ Len(written) <= Len(BackupIDs)
      BY <2>1 DEF KeyInv, WrittenInv
    <3>2. BackupIDs \in Seq(Chars \ {"/", "."})
      BY ObjectKeyAssumption DEF ObjectKeyAssumption
    <3>3. written[i] \in Backups
      BY <2>1, <3>1
    <3>4. i \in DOMAIN BackupIDs
      BY <2>1, <3>1, <3>2
    <3> QED BY <3>1, <3>3, <3>4 DEF Backups
  <2>3. BackupScope(written[i].key) = Scope(d) /\ Inside(Scope(d), written[i].key)
    <3> HIDE DEF i, d
    <3> QED BY <2>2, ScopeOfKey, KeyInScope
  <2>4. ScopeOf[c] = Scope(c)
    BY <2>1 DEF ScopeOf
  <2>5. ASSUME c = d PROVE ~pass.refused
    <3>1. Scope(c) = Scope(d)
      BY <2>5
    <3> QED BY <2>1, <2>3, <2>4, <3>1
  <2>6. ASSUME ~pass.refused PROVE Inside(ScopeOf[c], written[i].key)
    <3>1. ScopeOf[c] = Scope(d)
      BY <2>1, <2>3, <2>6
    <3> QED BY <2>3, <3>1, Zenon
  <2> QED BY <2>5, <2>6
<1> QED BY <1>1, KeyInvariance, PTL

-----------------------------------------------------------------------------
(* The bucket policy.                                                      *)

\* path.Clean leaves a path of plain segments alone.
LEMMA CleanPlain ==
  ASSUME NEW ss \in Seq(Seq(Chars)), \A k \in 1..Len(ss) : Plain(ss[k])
  PROVE  Clean(ss) = ss
<1> DEFINE n == Len(ss)
           A == Seq(Chars)
<1>1. n \in Nat /\ n \in 0..n /\ DOMAIN ss = 1..n
  OBVIOUS
<1>2. PICK f : /\ Clean(ss) = f[n]
               /\ f[0] = <<>>
               /\ \A i \in 1..n : f[i] = Enter(f[i - 1], ss[i])
  <2>1. n \in Nat
    BY <1>1
  <2>2. Len(ss) = n
    OBVIOUS
  <2> HIDE DEF n
  <2> QED BY <2>1, <2>2, CleanRounds, Zenon
<1> DEFINE u(i) == [k \in 1..i |-> ss[k]]
           B == {i \in 0..n : f[i] # u(i)}
<1>3. ss \in Seq(A)
  OBVIOUS
<1> HIDE DEF A
<1>4. ASSUME NEW i \in 0..n PROVE u(i) \in Seq(A) /\ Len(u(i)) = i
  BY <1>1, <1>3
<1>5. B = {}
  <2> SUFFICES ASSUME B # {} PROVE FALSE
    OBVIOUS
  <2>1. PICK x \in B : \A k \in B : x <= k
    <3>1. B \in SUBSET Nat
      BY <1>1
    <3> HIDE DEF B
    <3> QED BY <3>1, LeastNatural
  <2>2. x # 0
    <3>1. u(0) = <<>>
      OBVIOUS
    <3> QED BY <1>2, <3>1
  <2>3. x \in 1..n /\ x - 1 \in 0..n /\ f[x - 1] = u(x - 1)
    BY <1>1, <2>1, <2>2
  <2>4. f[x] = Append(f[x - 1], ss[x])
    BY <1>2, <2>3, EnterPlain
  <2>5. Append(u(x - 1), ss[x]) = u(x)
    BY <1>1, <1>3, <1>4, <2>3
  <2> QED BY <2>3, <2>4, <2>5
<1>6. u(n) = ss
  BY <1>1, <1>3
<1> QED BY <1>1, <1>2, <1>5, <1>6

\* Letter by letter a string is itself.
LEMMA FlattenLetters ==
  ASSUME NEW p \in Seq(Chars), NEW q, Len(q) = Len(p), \A i \in 1..Len(p) : q[i] = <<p[i]>>, p # <<>>
  PROVE  FlattenSeq(q) = p
<1> DEFINE n == Len(p)
<1>1. n \in Nat \ {0} /\ DOMAIN p = 1..n
  OBVIOUS
<1>2. PICK f : /\ FlattenSeq(q) = f[n]
               /\ f[1] = q[1]
               /\ \A i \in 2..n : f[i] = f[i - 1] \o q[i]
  <2>1. n \in Nat \ {0}
    BY <1>1
  <2>2. Len(q) = n
    OBVIOUS
  <2> HIDE DEF n
  <2> QED BY <2>1, <2>2, FlattenRounds, Zenon
<1> DEFINE u(i) == [k \in 1..i |-> p[k]]
           B == {i \in 1..n : f[i] # u(i)}
<1>3. ASSUME NEW i \in 1..n PROVE u(i) \in Seq(Chars) /\ Len(u(i)) = i
  BY <1>1
<1>4. B = {}
  <2> SUFFICES ASSUME B # {} PROVE FALSE
    OBVIOUS
  <2>1. PICK x \in B : \A k \in B : x <= k
    <3>1. B \in SUBSET Nat
      BY <1>1
    <3> HIDE DEF B
    <3> QED BY <3>1, LeastNatural
  <2>2. x # 1
    <3>1. u(1) = <<p[1]>>
      BY <1>1
    <3>2. f[1] = <<p[1]>>
      BY <1>1, <1>2
    <3> QED BY <3>1, <3>2
  <2>3. x \in 2..n /\ x \in 1..n /\ x - 1 \in 1..n /\ f[x - 1] = u(x - 1)
    BY <1>1, <2>1, <2>2
  <2>4. f[x] = u(x - 1) \o <<p[x]>>
    <3>1. f[x] = f[x - 1] \o q[x] /\ q[x] = <<p[x]>>
      BY <1>2, <2>3
    <3> QED BY <2>3, <3>1, Zenon
  <2>5. Append(u(x - 1), p[x]) = u(x)
    BY <1>1, <1>3, <2>3
  <2>6. u(x - 1) \o <<p[x]>> = Append(u(x - 1), p[x])
    <3>1. u(x - 1) \in Seq(Chars) /\ p[x] \in Chars
      BY <1>1, <1>3, <2>3
    <3> HIDE DEF u
    <3> QED BY <3>1, AppendIsConcat
  <2>7. f[x] = u(x)
    BY <2>4, <2>5, <2>6, Zenon
  <2> QED BY <2>7
<1>5. u(n) = p
  BY <1>1
<1>6. f[n] = u(n)
  <2>1. n \in 1..n
    BY <1>1
  <2> HIDE DEF u
  <2> QED BY <1>4, <2>1
<1> QED BY <1>2, <1>5, <1>6, Zenon

\* Where the validator takes a prefix, the runs and the policy read it alike.
LEMMA PrefixReadAlike ==
  ASSUME NEW s \in Seq(Chars), ValidPrefix(s), "#" \notin Range(s), s # <<>>
  PROVE  ParseDest(s) = Trim(s)
<1>1. ASSUME NEW i \in DOMAIN s PROVE s[i] # "?" /\ s[i] # "#" /\ s[i] # "%"
  <2>1. s[i] # "#"
    BY DEF Range
  <2>2. CASE s[i] = "/"
    BY <2>2
  <2>3. CASE s[i] # "/"
    <3>1. s[i] \in Range(Trim(s))
      BY <2>3, TrimTyped
    <3>2. Range(Trim(s)) \cap {"*", "?", "%", "$"} = {}
      BY DEF ValidPrefix
    <3> QED BY <2>1, <3>1, <3>2
  <2> QED BY <2>2, <2>3
<1>2. BeforeQuery(s) = s
  <2>1. \A i \in DOMAIN s : s[i] \notin {"?", "#"}
    BY <1>1
  <2> QED BY <2>1, BeforeQueryTyped
<1> DEFINE piece(i) == CASE s[i] = "%" -> <<CHOOSE c \in DOMAIN Encoded : Encoded[c] = <<s[i + 1], s[i + 2]>> >>
                         [] s[i] # "%" /\ \E k \in {i - 1, i - 2} \cap DOMAIN s : s[k] = "%" -> <<>>
                         [] OTHER -> <<s[i]>>
           q == [i \in DOMAIN s |-> piece(i)]
<1>3. ASSUME NEW i \in DOMAIN s PROVE piece(i) = <<s[i]>>
  <2>1. s[i] # "%" /\ ~(\E k \in {i - 1, i - 2} \cap DOMAIN s : s[k] = "%")
    BY <1>1
  <2> QED BY <2>1
<1>4. URLPath(s) = FlattenSeq(q)
  BY <1>2 DEF URLPath
<1> HIDE DEF piece
<1>5. Len(q) = Len(s) /\ \A i \in 1..Len(s) : q[i] = <<s[i]>>
  BY <1>3
<1> HIDE DEF q
<1>6. FlattenSeq(q) = s
  BY <1>5, FlattenLetters
<1> QED BY <1>4, <1>6, Zenon DEF ParseDest

LEMMA PolicyBase ==
  ASSUME NEW c \in Configs, ValidPrefix(c.prefix), "#" \notin Range(c.prefix), Trim(c.prefix) # <<>>
  PROVE  Base(c) = Split(Trim(c.prefix))
<1> DEFINE s == c.prefix
           ss == Split(Trim(s))
<1>1. s \in Seq(Chars)
  BY ConfigTyped
<1>2. s # <<>>
  <2> SUFFICES ASSUME s = <<>> PROVE FALSE
    OBVIOUS
  <2>1. {i \in DOMAIN s : s[i] # "/"} = {}
    OBVIOUS
  <2> QED BY <2>1 DEF Trim
<1>3. ParseDest(s) = Trim(s)
  BY <1>1, <1>2, PrefixReadAlike
<1>4. ss \in Seq(Seq(Chars))
  BY <1>1, TrimTyped, SplitTyped
<1>5. Range(ss) \cap {<<>>, <<".">>, <<".", ".">>} = {}
  BY DEF ValidPrefix
<1> HIDE DEF ss
<1>6. ASSUME NEW k \in 1..Len(ss) PROVE Plain(ss[k])
  <2>1. k \in DOMAIN ss /\ ss[k] \in Seq(Chars)
    BY <1>4
  <2>2. ss[k] \in Range(ss)
    BY <2>1 DEF Range
  <2>3. ss[k] # <<>> /\ ss[k] # Dot /\ ss[k] # DotDot
    BY <1>5, <2>2 DEF Dot, DotDot
  <2> QED BY <2>1, <2>3, NamesAreSegments DEF Plain
<1>7. Clean(ss) = ss
  BY <1>4, <1>6, CleanPlain
<1> QED BY <1>3, <1>7, Zenon DEF Base, ss

LEMMA StrictPrefixIs ==
  ASSUME NEW S, NEW r \in Seq(S), NEW s \in Seq(S), Len(r) < Len(s), \A k \in 1..Len(r) : s[k] = r[k]
  PROVE  IsStrictPrefix(r, s)
<1>1. SubSeq(r, 1, Len(r)) = SubSeq(s, 1, Len(r))
  OBVIOUS
<1>2. r # s /\ Len(r) <= Len(s)
  OBVIOUS
<1> QED BY <1>1, <1>2 DEF IsStrictPrefix, IsPrefix

LEMMA AllowedPaths ==
  ASSUME NEW c \in Configs, ValidPrefix(c.prefix), "#" \notin Range(c.prefix), NEW r \in Seq(Segments),
         Len(Base(c)) < Len(r), \A k \in 1..Len(Base(c)) : r[k] = Base(c)[k]
  PROVE  Allows(c.prefix, r)
<1>1. CASE Trim(c.prefix) = <<>>
  BY <1>1 DEF Allows
<1>2. CASE Trim(c.prefix) # <<>>
  <2>1. Base(c) = Split(Trim(c.prefix))
    BY <1>2, PolicyBase
  <2>2. IsStrictPrefix(Base(c), r)
    BY BaseTyped, StrictPrefixIs
  <2> QED BY <2>1, <2>2, Zenon DEF Allows
<1> QED BY <1>1, <1>2

LEMMA LiesInAllowed ==
  ASSUME NEW c \in Configs, ValidPrefix(c.prefix), "#" \notin Range(c.prefix), NEW n \in {0, 3}, NEW r, LiesIn(r, c, n)
  PROVE  Allows(c.prefix, r)
<1>1. r \in Seq(Segments) /\ Len(r) = Len(Base(c)) + (n + 3) /\ \A k \in 1..Len(Base(c)) : r[k] = Base(c)[k]
  BY DEF LiesIn
<1>2. Len(Base(c)) \in Nat
  BY BaseTyped
<1>3. Len(Base(c)) < Len(r)
  BY <1>1, <1>2
<1> QED BY <1>1, <1>3, AllowedPaths

LEMMA ProbeAllowed ==
  ASSUME NEW c \in Configs, ValidPrefix(c.prefix), "#" \notin Range(c.prefix)
  PROVE  Allows(c.prefix, ProbeKey(c.prefix))
<1> DEFINE P == ParseDest(c.prefix)
           X == <<".dbferry-probe">>
           Y == <<"probe">>
           q == <<P, X, Y>>
           r == PathJoin(q)
           base == Base(c)
<1>1. P \in Seq(Chars) /\ P \in Segments
  BY ConfigTyped, NamesAreSegments
<1>2. X \in Segments /\ Plain(X) /\ NoSlash(X) /\ Y \in Segments /\ Plain(Y) /\ NoSlash(Y)
  <2>1. ".dbferry-probe" \in Alphabet /\ "probe" \in Alphabet
    BY DEF Alphabet
  <2> QED BY <2>1, LetterIsPlain
<1>3. ProbeKey(c.prefix) = r /\ base = Clean(Split(P)) /\ Len(base) \in Nat
  BY BaseTyped DEF ProbeKey, Base
<1> HIDE DEF P, X, Y, base
<1>4. q \in Seq(Segments) /\ Len(q) = 3 /\ q[1] = P /\ q[2] = X /\ q[3] = Y
  BY <1>1, <1>2
<1> HIDE DEF q
<1>5. \A k \in 2..3 : Plain(q[k]) /\ NoSlash(q[k])
  <2>1. \A k \in 2..3 : k = 2 \/ k = 3
    OBVIOUS
  <2> QED BY <1>2, <1>4, <2>1, Zenon
<1>6. JoinedTo(r, base, q, 3)
  <2>1. 3 \in Nat \ {0}
    OBVIOUS
  <2>2. q[1] \in Seq(Chars)
    BY <1>1, <1>4
  <2>3. JoinedTo(PathJoin(q), Clean(Split(q[1])), q, 3)
    BY <1>4, <1>5, <2>1, <2>2, PathJoinShape
  <2> QED BY <1>3, <1>4, <2>3, Zenon
<1> HIDE DEF r
<1>7. r \in Seq(Segments) /\ Len(base) < Len(r) /\ \A k \in 1..Len(base) : r[k] = base[k]
  BY <1>3, <1>6 DEF JoinedTo
<1>8. Allows(c.prefix, r)
  BY <1>7, AllowedPaths DEF base
<1> QED BY <1>3, <1>8

\* Whoever was given a policy can work with it: every key, scope and probe of a prefix that
\* the validator takes lies where the policy of that prefix allows it (ValidatePrefix and
\* S3Policy against parseDest, objectKey and backupScope).
THEOREM PolicyAlwaysCoversKeys == Spec => []PolicyCoversKeys
<1>1. KeyInv => PolicyCoversKeys
  <2> SUFFICES ASSUME KeyInv PROVE PolicyCoversKeys
    OBVIOUS
  <2>1. ASSUME NEW i \in DOMAIN written, ValidPrefix(written[i].conf.prefix), "#" \notin Range(written[i].conf.prefix)
        PROVE  Allows(written[i].conf.prefix, written[i].key)
    <3> DEFINE c == written[i].conf
    <3>1. written[i].key = ObjectKey(c, i) /\ written \in Seq(Backups) /\ Len(written) <= Len(BackupIDs)
      BY DEF KeyInv, WrittenInv
    <3>2. BackupIDs \in Seq(Chars \ {"/", "."})
      BY ObjectKeyAssumption DEF ObjectKeyAssumption
    <3>3. written[i] \in Backups
      BY <3>1
    <3>4. c \in Configs /\ i \in DOMAIN BackupIDs
      BY <3>1, <3>2, <3>3 DEF Backups
    <3>5. ValidPrefix(c.prefix) /\ "#" \notin Range(c.prefix)
      BY <2>1
    <3> HIDE DEF c
    <3>6. Allows(c.prefix, ObjectKey(c, i))
      BY <3>4, <3>5, KeyShape, LiesInAllowed
    <3> QED BY <3>1, <3>6 DEF c
  <2>2. ASSUME NEW j \in Jobs, ValidPrefix(conf[j].prefix), "#" \notin Range(conf[j].prefix)
        PROVE  Allows(conf[j].prefix, ScopeOf[conf[j]]) /\ Allows(conf[j].prefix, ProbeKey(conf[j].prefix))
    <3> DEFINE c == conf[j]
    <3>1. c \in Configs /\ ScopeOf[c] = Scope(c)
      BY DEF KeyInv, ScopeOf
    <3>2. ValidPrefix(c.prefix) /\ "#" \notin Range(c.prefix)
      BY <2>2
    <3> HIDE DEF c
    <3>3. Allows(c.prefix, Scope(c))
      BY <3>1, <3>2, ScopeShape, LiesInAllowed
    <3>4. Allows(c.prefix, ProbeKey(c.prefix))
      BY <3>1, <3>2, ProbeAllowed
    <3> QED BY <3>1, <3>3, <3>4 DEF c
  <2> QED BY <2>1, <2>2 DEF PolicyCoversKeys
<1> QED BY <1>1, KeyInvariance, PTL
=============================================================================
