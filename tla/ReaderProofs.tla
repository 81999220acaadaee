---------------------------- MODULE ReaderProofs ----------------------------
(***************************************************************************)
(* Proofs about Readers: what every reader promises, for files of any      *)
(* length.  Each loop has an invariant that says what its variables hold   *)
(* of the lines read so far; the promise follows from it.                  *)
(***************************************************************************)
EXTENDS Readers, FiniteSetTheorems, TLAPS

-----------------------------------------------------------------------------
(* Readers: requirements.txt and Pipfile *)

\* What a line added to a file leaves as it was.
LEMMA Appended ==
  ASSUME NEW S, NEW s \in Seq(S), NEW l \in S
  PROVE  /\ Append(s, l) \in Seq(S) /\ Len(s) \in Nat
         /\ Len(Append(s, l)) = Len(s) + 1
         /\ DOMAIN s = 1..Len(s) /\ DOMAIN Append(s, l) = 1..(Len(s) + 1)
         /\ \A i \in 1..Len(s) : Append(s, l)[i] = s[i]
         /\ Append(s, l)[Len(s) + 1] = l
OBVIOUS

\* A set of lines that is the same but for the last line.
LEMMA GrowsByOne ==
  ASSUME NEW n \in Nat, NEW A \in SUBSET (1..n), NEW B \in SUBSET (1..(n + 1)),
         \A i \in 1..n : i \in B <=> i \in A
  PROVE  B = IF n + 1 \in B THEN A \cup {n + 1} ELSE A
<1>1. 1..(n + 1) = (1..n) \cup {n + 1} /\ n + 1 \notin 1..n
  OBVIOUS
<1>2. \A x \in B : x \in 1..n \/ x = n + 1
  BY <1>1
<1>3. \A x \in A : x \in 1..n /\ x \in B
  BY <1>1
<1>4. CASE n + 1 \in B
  BY <1>2, <1>3, <1>4
<1>5. CASE n + 1 \notin B
  <2>1. B \subseteq A /\ A \subseteq B
    BY <1>2, <1>3, <1>5
  <2>2. B = A
    BY <2>1
  <2> QED  BY <1>5, <2>2
<1> QED  BY <1>4, <1>5

\* Another line changes nothing of what the lines I declare, and declared with
\* them it decides what its name stands for.
LEMMA ReadsLastAppend ==
  ASSUME NEW S, NEW s \in Seq(S), NEW l \in S, NEW I \in SUBSET (1..Len(s)), NEW d,
         Lang!ReadsLast(s, I, d)
  PROVE  /\ Lang!ReadsLast(Append(s, l), I, d)
         /\ Lang!ReadsLast(Append(s, l), I \cup {Len(s) + 1}, Lang!Put(d, l.name, l.range))
<1> DEFINE t == Append(s, l)
           n == Len(s)
           e == Lang!Put(d, l.name, l.range)
<1>1. /\ n \in Nat /\ \A i \in 1..n : t[i] = s[i]
      /\ t[n + 1] = l
  BY Appended
<1>2. /\ DOMAIN d = {s[i].name : i \in I}
      /\ \A i \in I : (\A k \in I : k > i => s[k].name # s[i].name) => d[s[i].name] = s[i].range
  BY DEF Lang!ReadsLast
<1>3. /\ DOMAIN e = DOMAIN d \cup {l.name} /\ e[l.name] = l.range
      /\ \A m \in DOMAIN d : m # l.name => e[m] = d[m]
  BY DEF Lang!Put
<1> HIDE DEF t, n, e
<1>4. I \subseteq 1..n
  BY DEF n
<1>5. /\ DOMAIN d = {t[i].name : i \in I}
      /\ \A i \in I : (\A k \in I : k > i => t[k].name # t[i].name) => d[t[i].name] = t[i].range
  BY <1>1, <1>2, <1>4
<1>6. DOMAIN e = {t[i].name : i \in I \cup {n + 1}}
  BY <1>1, <1>3, <1>5
<1>7. ASSUME NEW i \in I \cup {n + 1}, \A k \in I \cup {n + 1} : k > i => t[k].name # t[i].name
      PROVE  e[t[i].name] = t[i].range
  <2>1. CASE i = n + 1
    BY <2>1, <1>1, <1>3
  <2>2. CASE i \in I
    <3>1. n + 1 > i
      BY <2>2, <1>1, <1>4
    <3>2. t[i].name # l.name
      BY <3>1, <1>1, <1>7
    <3>3. t[i].name \in DOMAIN d
      BY <2>2, <1>5
    <3> QED  BY <2>2, <3>2, <3>3, <1>3, <1>5, <1>7
  <2> QED  BY <2>1, <2>2
<1>8. Lang!ReadsLast(t, I, d) /\ Lang!ReadsLast(t, I \cup {n + 1}, e)
  BY <1>5, <1>6, <1>7 DEF Lang!ReadsLast
<1> QED  BY <1>8 DEF t, n, e

\* A requirements.txt, line by line.
LEMMA RequirementStep ==
  ASSUME NEW s \in Seq(NamedLine), NEW l \in NamedLine, NEW d,
         Lang!RequirementsAreRead(s, d)
  PROVE  Lang!RequirementsAreRead(Append(s, l), Lang!RequirementLine(d, l))
<1> DEFINE t == Append(s, l)
           I == {i \in DOMAIN s : s[i].kind = "req"}
           J == {i \in DOMAIN t : t[i].kind = "req"}
<1>1. I \in SUBSET (1..Len(s)) /\ Lang!ReadsLast(s, I, d)
  BY DEF Lang!RequirementsAreRead
<1>2. /\ Lang!ReadsLast(t, I, d)
      /\ Lang!ReadsLast(t, I \cup {Len(s) + 1}, Lang!Put(d, l.name, l.range))
  BY <1>1, ReadsLastAppend
<1>3. J = IF l.kind = "req" THEN I \cup {Len(s) + 1} ELSE I
  BY Appended
<1>4. Lang!ReadsLast(t, J, Lang!RequirementLine(d, l))
  BY <1>2, <1>3 DEF Lang!RequirementLine
<1> QED  BY <1>4 DEF Lang!RequirementsAreRead

\* The section a line stands below is that of the lines above it.
LEMMA BelowAppend ==
  ASSUME NEW S, NEW s \in Seq(S), NEW l \in S, NEW h
  PROVE  /\ \A i \in 1..(Len(s) + 1) :
              Lang!Below(Append(s, l), i, h) <=> Lang!Below(s, i, h)
         /\ Lang!Below(Append(s, l), Len(s) + 2, h) <=>
              IF l.kind = "section" THEN l.name = h ELSE Lang!Below(s, Len(s) + 1, h)
<1> DEFINE t == Append(s, l)
           n == Len(s)
<1>1. /\ n \in Nat /\ \A i \in 1..n : t[i] = s[i]
      /\ t[n + 1] = l
  BY Appended
<1> HIDE DEF t, n
<1>2. ASSUME NEW i \in 1..(n + 1) PROVE Lang!Below(t, i, h) <=> Lang!Below(s, i, h)
  <2>1. i - 1 <= n /\ i \in Nat
    BY <1>1
  <2>2. \A j \in 1..(i - 1) : t[j] = s[j] /\ \A k \in (j + 1)..(i - 1) : t[k] = s[k]
    BY <1>1, <2>1
  <2> QED  BY <2>2 DEF Lang!Below
<1>3. Lang!Below(t, n + 2, h) <=>
        IF l.kind = "section" THEN l.name = h ELSE Lang!Below(t, n + 1, h)
  <2>1. n + 2 - 1 = n + 1 /\ n + 1 - 1 = n /\ n + 1 \in 1..(n + 1)
    BY <1>1
  <2>2. CASE l.kind = "section"
    <3>1. ASSUME l.name = h PROVE Lang!Below(t, n + 2, h)
      <4>1. \A k \in (n + 2)..(n + 1) : t[k].kind # "section"
        BY <1>1
      <4> QED  BY <1>1, <2>1, <2>2, <3>1, <4>1 DEF Lang!Below
    <3>2. ASSUME Lang!Below(t, n + 2, h) PROVE l.name = h
      <4>1. PICK j \in 1..(n + 1) : /\ t[j].kind = "section" /\ t[j].name = h
                                    /\ \A k \in (j + 1)..(n + 1) : t[k].kind # "section"
        BY <1>1, <2>1, <3>2 DEF Lang!Below
      <4>2. j = n + 1
        BY <4>1, <1>1, <2>2
      <4> QED  BY <4>1, <4>2, <1>1
    <3> QED  BY <2>2, <3>1, <3>2
  <2>3. CASE l.kind # "section"
    <3>1. ASSUME Lang!Below(t, n + 2, h) PROVE Lang!Below(t, n + 1, h)
      <4>1. PICK j \in 1..(n + 1) : /\ t[j].kind = "section" /\ t[j].name = h
                                    /\ \A k \in (j + 1)..(n + 1) : t[k].kind # "section"
        BY <1>1, <2>1, <3>1 DEF Lang!Below
      <4>2. j \in 1..n /\ \A k \in (j + 1)..n : t[k].kind # "section"
        BY <4>1, <1>1, <2>3
      <4> QED  BY <1>1, <4>1, <4>2, <2>1 DEF Lang!Below
    <3>2. ASSUME Lang!Below(t, n + 1, h) PROVE Lang!Below(t, n + 2, h)
      <4>1. PICK j \in 1..n : /\ t[j].kind = "section" /\ t[j].name = h
                              /\ \A k \in (j + 1)..n : t[k].kind # "section"
        BY <1>1, <2>1, <3>2 DEF Lang!Below
      <4>2. j \in 1..(n + 1) /\ \A k \in (j + 1)..(n + 1) : t[k].kind # "section"
        BY <4>1, <1>1, <2>3
      <4> QED  BY <1>1, <4>1, <4>2, <2>1 DEF Lang!Below
    <3> QED  BY <2>3, <3>1, <3>2
  <2> QED  BY <2>2, <2>3
<1>4. n + 1 \in 1..(n + 1)
  BY <1>1
<1> QED  BY <1>2, <1>3, <1>4 DEF t, n

\* A Pipfile: the flag is the section of the next line.
PipfileInv(lines, st) ==
    /\ st = [in |-> st.in, deps |-> st.deps] /\ st.in \in BOOLEAN
    /\ st.in <=> Lang!Below(lines, Len(lines) + 1, "packages")
    /\ Lang!PipfileIsRead(lines, st)

\* A line of a Pipfile: a header opens or closes [packages], an entry below it is put.
LEMMA PipfileStep ==
  ASSUME NEW s \in Seq(NamedLine), NEW l \in NamedLine, NEW st, PipfileInv(s, st)
  PROVE  PipfileInv(Append(s, l), Lang!PipfileLine(st, l))
<1> DEFINE t == Append(s, l)
           n == Len(s)
           new == Lang!PipfileLine(st, l)
           I == {i \in DOMAIN s : s[i].kind = "entry" /\ Lang!Below(s, i, "packages")}
           J == {i \in DOMAIN t : t[i].kind = "entry" /\ Lang!Below(t, i, "packages")}
<1>1. /\ n \in Nat /\ DOMAIN s = 1..n /\ DOMAIN t = 1..(n + 1) /\ Len(t) = n + 1
      /\ \A i \in 1..n : t[i] = s[i]
      /\ t[n + 1] = l
  BY Appended
<1>2. /\ \A i \in 1..(n + 1) : Lang!Below(t, i, "packages") <=> Lang!Below(s, i, "packages")
      /\ Lang!Below(t, n + 2, "packages") <=>
           IF l.kind = "section" THEN l.name = "packages" ELSE Lang!Below(s, n + 1, "packages")
  BY BelowAppend
<1>3. /\ st = [in |-> st.in, deps |-> st.deps] /\ st.in \in BOOLEAN
      /\ st.in <=> Lang!Below(s, n + 1, "packages")
      /\ Lang!ReadsLast(s, I, st.deps)
  BY DEF PipfileInv, Lang!PipfileIsRead
<1>4. /\ Lang!ReadsLast(t, I, st.deps)
      /\ Lang!ReadsLast(t, I \cup {n + 1}, Lang!Put(st.deps, l.name, l.range))
  <2>1. I \in SUBSET (1..Len(s))
    BY <1>1
  <2> HIDE DEF I
  <2> QED  BY <1>3, <2>1, ReadsLastAppend
<1>5. J = IF l.kind = "entry" /\ st.in THEN I \cup {n + 1} ELSE I
  <2> HIDE DEF n, t
  <2> QED  BY <1>1, <1>2, <1>3
<1>6. /\ new = [in |-> new.in, deps |-> new.deps] /\ new.in \in BOOLEAN
      /\ new.in = IF l.kind = "section" THEN l.name = "packages" ELSE st.in
      /\ new.deps = IF l.kind = "entry" /\ st.in THEN Lang!Put(st.deps, l.name, l.range) ELSE st.deps
  <2>1. CASE l.kind = "section"
    <3>1. new = [st EXCEPT !.in = (l.name = "packages")]
      BY <2>1, Zenon DEF Lang!PipfileLine
    <3> HIDE DEF new
    <3> QED  BY <2>1, <3>1, <1>3
  <2>2. CASE l.kind = "entry" /\ st.in
    <3>1. new = [st EXCEPT !.deps = Lang!Put(st.deps, l.name, l.range)]
      BY <2>2, <1>3 DEF Lang!PipfileLine
    <3> HIDE DEF new
    <3> QED  BY <2>2, <3>1, <1>3
  <2>3. CASE l.kind # "section" /\ ~(l.kind = "entry" /\ st.in)
    <3>1. new = st
      BY <2>3 DEF Lang!PipfileLine
    <3> HIDE DEF new
    <3> QED  BY <2>3, <3>1, <1>3
  <2> QED  BY <2>1, <2>2, <2>3
<1>7. Lang!ReadsLast(t, J, new.deps)
  <2> HIDE DEF n, t, new, I, J
  <2> QED  BY <1>4, <1>5, <1>6
<1>8. new.in <=> Lang!Below(t, n + 2, "packages")
  <2> HIDE DEF n, t, new
  <2> QED  BY <1>2, <1>3, <1>6
<1>9. Len(t) + 1 = n + 2
  BY <1>1
<1> QED  BY <1>6, <1>7, <1>8, <1>9 DEF PipfileInv, Lang!PipfileIsRead

-----------------------------------------------------------------------------
(* Readers: go.mod *)

\* The block a line stands in is that of the last line above it that opens or
\* closes one.
LEMMA InBlockAppend ==
  ASSUME NEW S, NEW s \in Seq(S), NEW l \in S, NEW b \in Lang!GoEdges
  PROVE  /\ \A i \in 1..(Len(s) + 1) :
              Lang!InBlock(Append(s, l), i, b) <=> Lang!InBlock(s, i, b)
         /\ Lang!InBlock(Append(s, l), Len(s) + 2, b) <=>
              IF l.kind \in Lang!GoEdges THEN l.kind = b ELSE Lang!InBlock(s, Len(s) + 1, b)
<1> DEFINE t == Append(s, l)
           n == Len(s)
           E == Lang!GoEdges
<1>1. /\ n \in Nat /\ \A i \in 1..n : t[i] = s[i]
      /\ t[n + 1] = l
  BY Appended
<1> HIDE DEF t, n, E
<1>2. ASSUME NEW i \in 1..(n + 1) PROVE Lang!InBlock(t, i, b) <=> Lang!InBlock(s, i, b)
  <2>1. i - 1 <= n /\ i \in Nat
    BY <1>1
  <2>2. \A j \in 1..(i - 1) : t[j] = s[j] /\ \A k \in (j + 1)..(i - 1) : t[k] = s[k]
    BY <1>1, <2>1
  <2> QED  BY <2>2 DEF Lang!InBlock
<1>3. Lang!InBlock(t, n + 2, b) <=>
        \E j \in 1..(n + 1) : t[j].kind = b /\ \A k \in (j + 1)..(n + 1) : t[k].kind \notin E
  <2>1. n + 2 - 1 = n + 1
    BY <1>1
  <2> QED  BY <1>1, <2>1 DEF Lang!InBlock, E
<1>4. Lang!InBlock(t, n + 1, b) <=>
        \E j \in 1..n : t[j].kind = b /\ \A k \in (j + 1)..n : t[k].kind \notin E
  <2>1. n + 1 - 1 = n
    BY <1>1
  <2> QED  BY <1>1, <2>1 DEF Lang!InBlock, E
<1>5. ASSUME l.kind \in E PROVE Lang!InBlock(t, n + 2, b) <=> l.kind = b
  <2>1. ASSUME l.kind = b PROVE Lang!InBlock(t, n + 2, b)
    <3>1. n + 1 \in 1..(n + 1) /\ \A k \in (n + 2)..(n + 1) : t[k].kind \notin E
      BY <1>1
    <3> QED  BY <1>1, <1>3, <2>1, <3>1
  <2>2. ASSUME Lang!InBlock(t, n + 2, b) PROVE l.kind = b
    <3>1. PICK j \in 1..(n + 1) : t[j].kind = b /\ \A k \in (j + 1)..(n + 1) : t[k].kind \notin E
      BY <1>3, <2>2
    <3>2. j = n + 1
      BY <3>1, <1>1, <1>5
    <3> QED  BY <3>1, <3>2, <1>1
  <2> QED  BY <1>5, <2>1, <2>2
<1>6. ASSUME l.kind \notin E
      PROVE  Lang!InBlock(t, n + 2, b) <=> Lang!InBlock(t, n + 1, b)
  <2>1. ASSUME Lang!InBlock(t, n + 2, b) PROVE Lang!InBlock(t, n + 1, b)
    <3>1. PICK j \in 1..(n + 1) : t[j].kind = b /\ \A k \in (j + 1)..(n + 1) : t[k].kind \notin E
      BY <1>3, <2>1
    <3>2. j \in 1..n /\ \A k \in (j + 1)..n : t[k].kind \notin E
      BY <3>1, <1>1, <1>6 DEF E
    <3> QED  BY <3>1, <3>2, <1>4
  <2>2. ASSUME Lang!InBlock(t, n + 1, b) PROVE Lang!InBlock(t, n + 2, b)
    <3>1. PICK j \in 1..n : t[j].kind = b /\ \A k \in (j + 1)..n : t[k].kind \notin E
      BY <1>4, <2>2
    <3>2. j \in 1..(n + 1) /\ \A k \in (j + 1)..(n + 1) : t[k].kind \notin E
      BY <3>1, <1>1, <1>6
    <3> QED  BY <3>1, <3>2, <1>3
  <2> QED  BY <2>1, <2>2
<1>7. n + 1 \in 1..(n + 1)
  BY <1>1
<1> QED  BY <1>2, <1>5, <1>6, <1>7 DEF t, n, E

\* No line stands in two blocks.
LEMMA InOneBlock ==
  ASSUME NEW s, NEW i \in Nat
  PROVE  ~(Lang!InBlock(s, i, "require (") /\ Lang!InBlock(s, i, "replace ("))
<1>1. SUFFICES ASSUME Lang!InBlock(s, i, "require ("), Lang!InBlock(s, i, "replace (")
               PROVE  FALSE
  OBVIOUS
<1>2. PICK j \in 1..(i - 1) : /\ s[j].kind = "require ("
                              /\ \A m \in (j + 1)..(i - 1) : s[m].kind \notin Lang!GoEdges
  BY <1>1 DEF Lang!InBlock
<1>3. PICK k \in 1..(i - 1) : /\ s[k].kind = "replace ("
                              /\ \A m \in (k + 1)..(i - 1) : s[m].kind \notin Lang!GoEdges
  BY <1>1 DEF Lang!InBlock
<1>4. s[j].kind \in Lang!GoEdges /\ s[k].kind \in Lang!GoEdges /\ j # k
  BY <1>2, <1>3 DEF Lang!GoEdges
<1>5. ~(j < k)
  <2>1. j < k => k \in (j + 1)..(i - 1)
    OBVIOUS
  <2> QED  BY <2>1, <1>2, <1>4
<1>6. ~(k < j)
  <2>1. k < j => j \in (k + 1)..(i - 1)
    OBVIOUS
  <2> QED  BY <2>1, <1>3, <1>4
<1> QED  BY <1>4, <1>5, <1>6

\* A go.mod: the flags are the blocks of the next line.
GoInv(lines, st) ==
    /\ st = [inRequire |-> st.inRequire, inOther |-> st.inOther, requires |-> st.requires,
             indirect |-> st.indirect, unparsed |-> st.unparsed]
    /\ st.inRequire \in BOOLEAN /\ st.inOther \in BOOLEAN
    /\ Lang!WellFormedGo(lines) =>
         /\ st.inRequire <=> Lang!InBlock(lines, Len(lines) + 1, "require (")
         /\ st.inOther <=> Lang!InBlock(lines, Len(lines) + 1, "replace (")
    /\ Lang!GoModIsRead(lines, st)

\* The beginning of a well-formed go.mod is one.
LEMMA GoWellFormed ==
  ASSUME NEW S, NEW s \in Seq(S), NEW l \in S, Lang!WellFormedGo(Append(s, l))
  PROVE  /\ Lang!WellFormedGo(s)
         /\ l.kind \in {"item", ")"} <=> \/ Lang!InBlock(s, Len(s) + 1, "require (")
                                         \/ Lang!InBlock(s, Len(s) + 1, "replace (")
<1> DEFINE t == Append(s, l)
           n == Len(s)
           In(r, i) == Lang!InBlock(r, i, "require (") \/ Lang!InBlock(r, i, "replace (")
<1>1. /\ n \in Nat /\ DOMAIN s = 1..n /\ DOMAIN t = 1..(n + 1)
      /\ \A i \in 1..n : t[i] = s[i]
      /\ t[n + 1] = l
  BY Appended
<1>2. \A i \in 1..(n + 1) : In(t, i) <=> In(s, i)
  <2>1. "require (" \in Lang!GoEdges /\ "replace (" \in Lang!GoEdges
    BY DEF Lang!GoEdges
  <2> QED  BY <2>1, InBlockAppend
<1>3. \A i \in DOMAIN t : t[i].kind \in {"item", ")"} <=> In(t, i)
  BY DEF Lang!WellFormedGo
<1>4. (\A i \in DOMAIN s : s[i].kind \in {"item", ")"} <=> In(s, i)) => Lang!WellFormedGo(s)
  BY DEF Lang!WellFormedGo
<1> HIDE DEF t, n, In
<1>5. \A i \in 1..(n + 1) : t[i].kind \in {"item", ")"} <=> In(s, i)
  BY <1>1, <1>2, <1>3
<1>6. \A i \in 1..n : s[i].kind \in {"item", ")"} <=> In(s, i)
  BY <1>1, <1>5
<1>7. l.kind \in {"item", ")"} <=> In(s, n + 1)
  BY <1>1, <1>5
<1>8. Lang!WellFormedGo(s)
  BY <1>1, <1>4, <1>6
<1> QED  BY <1>7, <1>8 DEF In, n

GoShape(st) ==
    /\ st = [inRequire |-> st.inRequire, inOther |-> st.inOther, requires |-> st.requires,
             indirect |-> st.indirect, unparsed |-> st.unparsed]
    /\ st.inRequire \in BOOLEAN /\ st.inOther \in BOOLEAN

\* What a line does to the flags and to the maps.
GoEffect(st, l, new) ==
    /\ GoShape(new)
    /\ (st.inRequire => ~st.inOther) /\ (l.kind \in {"item", ")"} <=> st.inRequire \/ st.inOther) =>
         /\ new.inRequire <=> IF l.kind \in Lang!GoEdges THEN l.kind = "require (" ELSE st.inRequire
         /\ new.inOther <=> IF l.kind \in Lang!GoEdges THEN l.kind = "replace (" ELSE st.inOther
         /\ new.requires = IF l.kind \in {"require", "item"} /\ ~st.inOther /\ ~l.indirect
                           THEN Lang!Put(st.requires, l.name, l.range) ELSE st.requires
         /\ new.indirect = IF l.kind \in {"require", "item"} /\ ~st.inOther /\ l.indirect
                           THEN st.indirect \cup {l.name} ELSE st.indirect

\* A requirement goes to one of the two maps.
LEMMA GoRequireEffect ==
  ASSUME NEW l \in GoLine, NEW st, GoShape(st), l.kind \in {"require", "item"}, ~st.inOther
  PROVE  GoEffect(st, l, Lang!GoRequire(st, l))
<1> DEFINE new == Lang!GoRequire(st, l)
<1>1. l.indirect \in BOOLEAN /\ l.kind \notin Lang!GoEdges
  BY DEF GoLine, Lang!GoEdges
<1>2. CASE l.indirect
  <2>1. new = [st EXCEPT !.indirect = st.indirect \cup {l.name}]
    BY <1>2 DEF Lang!GoRequire
  <2> HIDE DEF new
  <2>2. /\ GoShape(new) /\ (new.inRequire <=> st.inRequire) /\ (new.inOther <=> st.inOther)
        /\ new.requires = st.requires /\ new.indirect = st.indirect \cup {l.name}
    BY <2>1 DEF GoShape
  <2>8. GoEffect(st, l, new)
    BY <2>2, <1>1, <1>2 DEF GoEffect
  <2> QED  BY <2>8 DEF new
<1>3. CASE ~l.indirect
  <2>1. new = [st EXCEPT !.requires = Lang!Put(st.requires, l.name, l.range)]
    BY <1>3 DEF Lang!GoRequire
  <2> HIDE DEF new
  <2>2. /\ GoShape(new) /\ (new.inRequire <=> st.inRequire) /\ (new.inOther <=> st.inOther)
        /\ new.requires = Lang!Put(st.requires, l.name, l.range) /\ new.indirect = st.indirect
    BY <2>1 DEF GoShape
  <2>8. GoEffect(st, l, new)
    BY <2>2, <1>1, <1>3 DEF GoEffect
  <2> QED  BY <2>8 DEF new
<1> QED  BY <1>1, <1>2, <1>3

\* What a line of a go.mod does to the blocks and to the maps.
LEMMA GoLineEffect ==
  ASSUME NEW l \in GoLine, NEW st, GoShape(st)
  PROVE  GoEffect(st, l, Lang!GoLine(st, l))
<1> DEFINE new == Lang!GoLine(st, l)
<1>1. st.inRequire \in BOOLEAN /\ st.inOther \in BOOLEAN
  BY DEF GoShape
<1>2. CASE l.kind = ")"
  <2>1. new = IF st.inRequire THEN [st EXCEPT !.inRequire = FALSE] ELSE [st EXCEPT !.inOther = FALSE]
    BY <1>2, <1>1 DEF Lang!GoLine
  <2> HIDE DEF new
  <2>2. /\ GoShape(new) /\ new.requires = st.requires /\ new.indirect = st.indirect
        /\ st.inRequire => ~new.inRequire /\ (new.inOther <=> st.inOther)
        /\ ~st.inRequire => ~new.inRequire /\ ~new.inOther
    BY <2>1 DEF GoShape
  <2>8. GoEffect(st, l, new)
    BY <2>2, <1>1, <1>2 DEF GoEffect, Lang!GoEdges
  <2> QED  BY <2>8 DEF new
<1>3. CASE l.kind = "require ("
  <2>1. new = [st EXCEPT !.inRequire = TRUE]
    BY <1>3, <1>1 DEF Lang!GoLine
  <2> HIDE DEF new
  <2>2. /\ GoShape(new) /\ new.requires = st.requires /\ new.indirect = st.indirect
        /\ new.inRequire /\ (new.inOther <=> st.inOther)
    BY <2>1 DEF GoShape
  <2>8. GoEffect(st, l, new)
    BY <2>2, <1>1, <1>3 DEF GoEffect, Lang!GoEdges
  <2> QED  BY <2>8 DEF new
<1>4. CASE l.kind = "replace ("
  <2>1. new = [st EXCEPT !.inOther = TRUE, !.unparsed = st.unparsed \cup {"replace"}]
    BY <1>4, <1>1 DEF Lang!GoLine
  <2> HIDE DEF new
  <2>2. /\ GoShape(new) /\ new.requires = st.requires /\ new.indirect = st.indirect
        /\ (new.inRequire <=> st.inRequire) /\ new.inOther
    BY <2>1 DEF GoShape
  <2>8. GoEffect(st, l, new)
    BY <2>2, <1>1, <1>4 DEF GoEffect, Lang!GoEdges
  <2> QED  BY <2>8 DEF new
<1>5. CASE l.kind \in {"require", "item"} /\ ~st.inOther /\ (l.kind = "item" <=> st.inRequire)
  <2>1. new = Lang!GoRequire(st, l)
    BY <1>5, <1>1 DEF Lang!GoLine
  <2> QED  BY <2>1, <1>5, GoRequireEffect
<1>6. CASE /\ l.kind \notin Lang!GoEdges
           /\ ~(l.kind \in {"require", "item"} /\ ~st.inOther /\ (l.kind = "item" <=> st.inRequire))
  <2>1. \E u : new = [st EXCEPT !.unparsed = u]
    <3>1. st = [st EXCEPT !.unparsed = st.unparsed]
      BY DEF GoShape
    <3>2. CASE l.kind = "replace"
      <4>1. new = [st EXCEPT !.unparsed = st.unparsed \cup {"replace"}]
        BY <3>2, <1>1 DEF Lang!GoLine
      <4> QED  BY <4>1, Zenon
    <3>3. CASE l.kind = "item" /\ ~st.inOther /\ ~st.inRequire
      <4>1. new = [st EXCEPT !.unparsed = st.unparsed \cup {l.name}]
        BY <3>3, <1>1 DEF Lang!GoLine
      <4> QED  BY <4>1, Zenon
    <3>4. CASE l.kind # "replace" /\ ~(l.kind = "item" /\ ~st.inOther /\ ~st.inRequire)
      <4>1. new = st
        BY <1>1, <1>6, <3>4 DEF Lang!GoLine, Lang!GoEdges
      <4> QED  BY <3>1, <4>1, Zenon
    <3> QED  BY <3>2, <3>3, <3>4
  <2> HIDE DEF new
  <2>2. /\ GoShape(new) /\ new.requires = st.requires /\ new.indirect = st.indirect
        /\ (new.inRequire <=> st.inRequire) /\ (new.inOther <=> st.inOther)
    BY <2>1 DEF GoShape
  <2>3. ASSUME l.kind \in {"item", ")"} <=> st.inRequire \/ st.inOther
        PROVE  ~(l.kind \in {"require", "item"} /\ ~st.inOther)
    BY <1>1, <1>6, <2>3
  <2>8. GoEffect(st, l, new)
    BY <1>6, <2>2, <2>3 DEF GoEffect
  <2> QED  BY <2>8 DEF new
<1> QED  BY <1>2, <1>3, <1>4, <1>5, <1>6 DEF Lang!GoEdges

\* A line of a go.mod.
LEMMA GoStep ==
  ASSUME NEW s \in Seq(GoLine), NEW l \in GoLine, NEW st, GoInv(s, st)
  PROVE  GoInv(Append(s, l), Lang!GoLine(st, l))
<1> DEFINE t == Append(s, l)
           n == Len(s)
           new == Lang!GoLine(st, l)
           In(i, b) == Lang!InBlock(s, i, b)
           Q(r, d) == Lang!GoRequired(r, d)
<1>1. /\ n \in Nat /\ DOMAIN s = 1..n /\ DOMAIN t = 1..(n + 1) /\ Len(t) = n + 1
      /\ \A i \in 1..n : t[i] = s[i]
      /\ t[n + 1] = l
  BY Appended
<1>11. Len(t) + 1 = n + 2 /\ 1..(n + 1) = (1..n) \cup {n + 1} /\ n + 1 \notin 1..n
  BY <1>1
<1>2. GoShape(st) /\ GoEffect(st, l, new)
  BY GoLineEffect DEF GoInv, GoShape
<1>3. SUFFICES ASSUME Lang!WellFormedGo(t)
               PROVE  /\ new.inRequire <=> Lang!InBlock(t, n + 2, "require (")
                      /\ new.inOther <=> Lang!InBlock(t, n + 2, "replace (")
                      /\ Lang!ReadsLast(t, Q(t, FALSE), new.requires)
                      /\ new.indirect = {t[i].name : i \in Q(t, TRUE)}
  <2>1. GoInv(t, new) <=> /\ GoShape(new)
                          /\ Lang!WellFormedGo(t) =>
                               /\ new.inRequire <=> Lang!InBlock(t, Len(t) + 1, "require (")
                               /\ new.inOther <=> Lang!InBlock(t, Len(t) + 1, "replace (")
                          /\ Lang!WellFormedGo(t) =>
                               /\ Lang!ReadsLast(t, Q(t, FALSE), new.requires)
                               /\ new.indirect = {t[i].name : i \in Q(t, TRUE)}
    BY Zenon DEF GoInv, GoShape, Lang!GoModIsRead
  <2>3. GoShape(new)
    BY <1>2, Zenon DEF GoEffect
  <2> HIDE DEF t, n, new, Q
  <2> QED  BY <1>3, <2>1, <1>11, <2>3 DEF t, new
<1>4. Lang!WellFormedGo(s) /\ (l.kind \in {"item", ")"} <=> In(n + 1, "require (") \/ In(n + 1, "replace ("))
  BY <1>3, GoWellFormed
<1>5. /\ st.inRequire <=> In(n + 1, "require (")
      /\ st.inOther <=> In(n + 1, "replace (")
      /\ Lang!ReadsLast(s, Q(s, FALSE), st.requires)
      /\ st.indirect = {s[i].name : i \in Q(s, TRUE)}
  BY <1>4 DEF GoInv, Lang!GoModIsRead
<1>6. ~(In(n + 1, "require (") /\ In(n + 1, "replace ("))
  <2>1. n + 1 \in Nat
    BY <1>1
  <2> QED  BY <2>1, InOneBlock, Zenon
<1>7. /\ \A i \in 1..(n + 1) : Lang!InBlock(t, i, "replace (") <=> In(i, "replace (")
      /\ Lang!InBlock(t, n + 2, "require (") <=>
           IF l.kind \in Lang!GoEdges THEN l.kind = "require (" ELSE In(n + 1, "require (")
      /\ Lang!InBlock(t, n + 2, "replace (") <=>
           IF l.kind \in Lang!GoEdges THEN l.kind = "replace (" ELSE In(n + 1, "replace (")
  <2>1. "require (" \in Lang!GoEdges /\ "replace (" \in Lang!GoEdges
    BY DEF Lang!GoEdges
  <2> QED  BY <2>1, InBlockAppend
<1>8. ASSUME NEW d \in BOOLEAN
      PROVE  /\ Q(s, d) \in SUBSET (1..n)
             /\ Q(t, d) = IF l.kind \in {"require", "item"} /\ l.indirect = d /\ ~In(n + 1, "replace (")
                          THEN Q(s, d) \cup {n + 1} ELSE Q(s, d)
  <2>1. /\ Q(s, d) = {i \in 1..n : s[i].kind \in {"require", "item"} /\ s[i].indirect = d /\ ~In(i, "replace (")}
        /\ Q(t, d) = {i \in 1..(n + 1) : /\ t[i].kind \in {"require", "item"} /\ t[i].indirect = d
                                         /\ ~Lang!InBlock(t, i, "replace (")}
    BY <1>1 DEF Lang!GoRequired
  <2> HIDE DEF t, n, Q, In
  <2>2. Q(s, d) \in SUBSET (1..n)
    BY <2>1
  <2>3. \A i \in 1..n : i \in Q(t, d) <=> i \in Q(s, d)
    <3>1. \A i \in 1..n : i \in 1..(n + 1) /\ t[i] = s[i]
      BY <1>1
    <3> QED  BY <2>1, <3>1, <1>7
  <2>4. n + 1 \in Q(t, d) <=> l.kind \in {"require", "item"} /\ l.indirect = d /\ ~In(n + 1, "replace (")
    <3>1. n + 1 \in 1..(n + 1)
      BY <1>1
    <3> QED  BY <2>1, <3>1, <1>1, <1>7
  <2>5. Q(t, d) \subseteq 1..(n + 1)
    BY <2>1
  <2> DEFINE added == l.kind \in {"require", "item"} /\ l.indirect = d /\ ~In(n + 1, "replace (")
  <2>6. n + 1 \in Q(t, d) <=> added
    BY <2>4
  <2> HIDE DEF added
  <2>7. Q(t, d) = IF n + 1 \in Q(t, d) THEN Q(s, d) \cup {n + 1} ELSE Q(s, d)
    <3>1. n \in Nat /\ Q(s, d) \in SUBSET (1..n) /\ Q(t, d) \in SUBSET (1..(n + 1))
      BY <1>1, <2>2, <2>5
    <3> HIDE DEF n
    <3> QED  BY <3>1, <2>3, GrowsByOne, Zenon
  <2> QED  BY <2>2, <2>6, <2>7, Zenon DEF added
<1>9. /\ Lang!ReadsLast(t, Q(s, FALSE), st.requires)
      /\ Lang!ReadsLast(t, Q(s, FALSE) \cup {n + 1}, Lang!Put(st.requires, l.name, l.range))
  <2>1. Q(s, FALSE) \in SUBSET (1..Len(s))
    BY <1>8
  <2> HIDE DEF Q
  <2> QED  BY <1>5, <2>1, ReadsLastAppend
<1>10. l.indirect \in BOOLEAN
  BY DEF GoLine
<1>14. {s[i].name : i \in Q(s, TRUE)} = {t[i].name : i \in Q(s, TRUE)}
  <2>1. Q(s, TRUE) \subseteq 1..n
    BY <1>8
  <2> HIDE DEF Q, t, n
  <2> QED  BY <2>1, <1>1
<1> HIDE DEF t, n, new, Q, In
<1>12. /\ new.inRequire <=> IF l.kind \in Lang!GoEdges THEN l.kind = "require (" ELSE st.inRequire
       /\ new.inOther <=> IF l.kind \in Lang!GoEdges THEN l.kind = "replace (" ELSE st.inOther
       /\ new.requires = IF l.kind \in {"require", "item"} /\ ~st.inOther /\ ~l.indirect
                         THEN Lang!Put(st.requires, l.name, l.range) ELSE st.requires
       /\ new.indirect = IF l.kind \in {"require", "item"} /\ ~st.inOther /\ l.indirect
                         THEN st.indirect \cup {l.name} ELSE st.indirect
  BY <1>2, <1>4, <1>5, <1>6 DEF GoEffect
<1>13. Lang!ReadsLast(t, Q(t, FALSE), new.requires)
  BY <1>5, <1>8, <1>9, <1>10, <1>12
<1>15. new.indirect = {t[i].name : i \in Q(t, TRUE)}
  BY <1>1, <1>5, <1>8, <1>10, <1>14, <1>12
<1> QED  BY <1>5, <1>7, <1>12, <1>13, <1>15

-----------------------------------------------------------------------------
(* Readers: Cargo.toml *)

CargoShape(st) ==
    st = [section |-> st.section, deps |-> st.deps, workspace |-> st.workspace,
          unparsed |-> st.unparsed, skipped |-> st.skipped]

Deps == <<"dependencies">>
Elsewhere == {<<"other">>, <<"dev-dependencies">>, <<"build-dependencies">>,
              <<"workspace", "dependencies">>}
CargoTableNames(lines) == Lang!CargoTables(lines, <<"dependencies", "dependencies">>)

\* The section of the parser is [dependencies] below it and only there; a
\* table of a single dependency is one of the file.
SectionInv(lines, section) ==
    \/ section = Deps /\ Lang!Below(lines, Len(lines) + 1, Deps)
    \/ /\ section \in Elsewhere \cup {<<"table", x>> : x \in CargoTableNames(lines)}
       /\ ~Lang!Below(lines, Len(lines) + 1, Deps)

CargoInv(lines, st) ==
    /\ CargoShape(st)
    /\ SectionInv(lines, st.section)
    /\ DOMAIN st.deps \subseteq Lang!CargoDeclared(lines) \cup CargoTableNames(lines)
    /\ Lang!CargoDeclared(lines) \subseteq DOMAIN st.deps \cup st.unparsed

\* The maps have grown by the name x at most.
CargoGrows(st, new, x) ==
    /\ CargoShape(new) /\ new.section = st.section
    /\ DOMAIN st.deps \subseteq DOMAIN new.deps /\ DOMAIN new.deps \subseteq DOMAIN st.deps \cup {x}
    /\ st.unparsed \subseteq new.unparsed

\* The section the parser takes a header for.
LEMMA CargoSectionIs ==
  ASSUME NEW h \in Seq(STRING)
  PROVE  \/ h = Deps /\ Lang!CargoSection(h) = Deps
         \/ h # Deps /\ Lang!CargoSection(h) \in Elsewhere
         \/ /\ h # Deps /\ Len(h) = 3 /\ SubSeq(h, 1, 2) = <<"dependencies", "dependencies">>
            /\ Lang!CargoSection(h) = <<"table", h[3]>>
<1> DEFINE plain == {<<"dependencies">>, <<"dev-dependencies">>, <<"build-dependencies">>,
                     <<"workspace", "dependencies">>}
           table == Len(h) = 3 /\ SubSeq(h, 1, 2) = <<"dependencies", "dependencies">>
<1>1. CASE h \in plain
  <2>1. Lang!CargoSection(h) = h
    BY <1>1 DEF Lang!CargoSection
  <2> QED  BY <1>1, <2>1, Zenon DEF Deps, Elsewhere
<1>2. CASE h \notin plain
  <2>1. Lang!CargoSection(h) = IF table THEN <<"table", h[3]>> ELSE <<"other">>
    BY <1>2, Zenon DEF Lang!CargoSection
  <2>2. h # Deps
    BY <1>2, Zenon DEF Deps
  <2>3. <<"other">> \in Elsewhere
    BY DEF Elsewhere
  <2> QED  BY <2>1, <2>2, <2>3, Zenon
<1> QED  BY <1>1, <1>2

\* A dependency is known or reported, under its own name.
LEMMA CargoDepGrows ==
  ASSUME NEW l \in CargoLine, l.kind # "section", NEW st, CargoShape(st)
  PROVE  /\ CargoGrows(st, Lang!CargoDep(st, l), l.name)
         /\ st.section = Deps => l.name \in DOMAIN Lang!CargoDep(st, l).deps
                                            \cup Lang!CargoDep(st, l).unparsed
         /\ st.section \in Elsewhere \ {<<"other">>} => Lang!CargoDep(st, l).deps = st.deps
<1> DEFINE new == Lang!CargoDep(st, l)
           dev == st.section \in {<<"dev-dependencies">>, <<"build-dependencies">>}
           bad == l.kind = "odd" \/ Lang!CategorizeInlineDep(l.fields) = "unparsed"
           ws == st.section = <<"workspace", "dependencies">>
<1>1. CASE dev
  <2>1. new = [st EXCEPT !.skipped = st.skipped + (IF l.kind = "odd" THEN 0 ELSE 1)]
    BY <1>1 DEF Lang!CargoDep
  <2>2. st.section # Deps
    BY <1>1 DEF Deps
  <2> HIDE DEF new
  <2>3. CargoGrows(st, new, l.name) /\ new.deps = st.deps
    BY <2>1 DEF CargoGrows, CargoShape
  <2> QED  BY <2>2, <2>3, Zenon DEF new
<1>2. CASE ~dev /\ bad
  <2>1. new = [st EXCEPT !.unparsed = st.unparsed \cup {l.name}]
    BY <1>2 DEF Lang!CargoDep
  <2> HIDE DEF new
  <2>2. CargoGrows(st, new, l.name) /\ new.deps = st.deps /\ l.name \in new.unparsed
    BY <2>1 DEF CargoGrows, CargoShape
  <2> QED  BY <2>2, Zenon DEF new
<1>3. CASE ~dev /\ ~bad /\ ws
  <2>1. new = [st EXCEPT !.workspace = Lang!Put(st.workspace, l.name, l.range)]
    BY <1>3 DEF Lang!CargoDep
  <2>2. st.section # Deps
    BY <1>3 DEF Deps
  <2> HIDE DEF new
  <2>3. CargoGrows(st, new, l.name) /\ new.deps = st.deps
    BY <2>1 DEF CargoGrows, CargoShape
  <2> QED  BY <2>2, <2>3, Zenon DEF new
<1>4. CASE ~dev /\ ~bad /\ ~ws
  <2>1. new = [st EXCEPT !.deps = Lang!Put(st.deps, l.name, l.range)]
    BY <1>4 DEF Lang!CargoDep
  <2>2. st.section \notin Elsewhere \ {<<"other">>}
    BY <1>4, Zenon DEF Elsewhere
  <2> HIDE DEF new
  <2>3. CargoShape(new) /\ new.section = st.section /\ new.unparsed = st.unparsed
        /\ new.deps = Lang!Put(st.deps, l.name, l.range)
    BY <2>1 DEF CargoShape
  <2>4. DOMAIN Lang!Put(st.deps, l.name, l.range) = DOMAIN st.deps \cup {l.name}
    BY DEF Lang!Put
  <2>5. CargoGrows(st, new, l.name) /\ l.name \in DOMAIN new.deps
    BY <2>3, <2>4 DEF CargoGrows
  <2> QED  BY <2>2, <2>5, Zenon DEF new
<1> QED  BY <1>1, <1>2, <1>3, <1>4

\* A line of the table of a dependency adds no other name.
LEMMA CargoTableGrows ==
  ASSUME NEW l \in CargoLine, l.kind # "section", NEW st, CargoShape(st)
  PROVE  CargoGrows(st, Lang!CargoTableLine(st, l), st.section[2])
<1> DEFINE new == Lang!CargoTableLine(st, l)
           x == st.section[2]
<1>1. CASE l.kind = "string" /\ l.name = "version"
  <2>1. new = [st EXCEPT !.deps = Lang!Put(st.deps, x, l.range)]
    BY <1>1, Zenon DEF Lang!CargoTableLine
  <2> HIDE DEF new, x
  <2>2. CargoShape(new) /\ new.section = st.section /\ new.unparsed = st.unparsed
        /\ new.deps = Lang!Put(st.deps, x, l.range)
    BY <2>1 DEF CargoShape
  <2>3. DOMAIN Lang!Put(st.deps, x, l.range) = DOMAIN st.deps \cup {x}
    BY DEF Lang!Put
  <2>4. CargoGrows(st, new, x)
    BY <2>2, <2>3 DEF CargoGrows
  <2> QED  BY <2>4 DEF new, x
<1>2. CASE ~(l.kind = "string" /\ l.name = "version")
  <2>1. new = st \/ new = [st EXCEPT !.unparsed = st.unparsed \cup {x}]
    BY <1>2, Zenon DEF Lang!CargoTableLine
  <2> HIDE DEF new, x
  <2>2. CargoGrows(st, new, x)
    BY <2>1 DEF CargoGrows, CargoShape
  <2> QED  BY <2>2 DEF new, x
<1> QED  BY <1>1, <1>2

\* What a file declares with one more line.
LEMMA CargoNamesAppend ==
  ASSUME NEW s \in Seq(CargoLine), NEW l \in CargoLine
  PROVE  /\ Lang!CargoDeclared(Append(s, l)) = Lang!CargoDeclared(s)
              \cup (IF l.kind # "section" /\ Lang!Below(s, Len(s) + 1, Deps) THEN {l.name} ELSE {})
         /\ CargoTableNames(s) \subseteq CargoTableNames(Append(s, l))
         /\ l.kind = "section" /\ Len(l.name) = 3
              /\ SubSeq(l.name, 1, 2) = <<"dependencies", "dependencies">>
            => l.name[3] \in CargoTableNames(Append(s, l))
<1> DEFINE t == Append(s, l)
           n == Len(s)
           I == {i \in DOMAIN s : s[i].kind # "section" /\ Lang!Below(s, i, Deps)}
           J == {i \in DOMAIN t : t[i].kind # "section" /\ Lang!Below(t, i, Deps)}
           P == <<"dependencies", "dependencies">>
           Is(k) == k.kind = "section" /\ Len(k.name) = 3 /\ SubSeq(k.name, 1, 2) = P
<1>1. /\ n \in Nat /\ DOMAIN s = 1..n /\ DOMAIN t = 1..(n + 1)
      /\ \A i \in 1..n : t[i] = s[i]
      /\ t[n + 1] = l
  BY Appended
<1>2. \A i \in 1..(n + 1) : Lang!Below(t, i, Deps) <=> Lang!Below(s, i, Deps)
  BY BelowAppend
<1>3. n + 1 \in 1..(n + 1) /\ 1..n \subseteq 1..(n + 1)
  BY <1>1
<1>4. Lang!CargoDeclared(s) = {s[i].name : i \in I} /\ Lang!CargoDeclared(t) = {t[i].name : i \in J}
  BY Zenon DEF Lang!CargoDeclared, Deps
<1>5. CargoTableNames(s) = {s[i].name[3] : i \in {i \in 1..n : Is(s[i])}}
      /\ CargoTableNames(t) = {t[i].name[3] : i \in {i \in 1..(n + 1) : Is(t[i])}}
  <2>1. Len(P) = 2 /\ Len(P) + 1 = 3
    OBVIOUS
  <2> HIDE DEF P, t, n
  <2> QED  BY <1>1, <2>1 DEF CargoTableNames, Lang!CargoTables, P
<1> HIDE DEF t, n, P
<1>6. J = IF n + 1 \in J THEN I \cup {n + 1} ELSE I
  <2>1. I \in SUBSET (1..n) /\ J \in SUBSET (1..(n + 1))
    BY <1>1
  <2>2. \A i \in 1..n : i \in J <=> i \in I
    BY <1>1, <1>2, <1>3
  <2> HIDE DEF I, J
  <2> QED  BY <1>1, <2>1, <2>2, GrowsByOne
<1>7. n + 1 \in J <=> l.kind # "section" /\ Lang!Below(s, n + 1, Deps)
  BY <1>1, <1>2, <1>3
<1>8. {t[i].name : i \in I} = {s[i].name : i \in I} /\ t[n + 1].name = l.name
  BY <1>1
<1>9. Lang!CargoDeclared(t) = Lang!CargoDeclared(s)
        \cup (IF l.kind # "section" /\ Lang!Below(s, n + 1, Deps) THEN {l.name} ELSE {})
  <2> HIDE DEF I, J
  <2>1. CASE n + 1 \in J
    <3>1. {t[i].name : i \in I \cup {n + 1}} = {t[i].name : i \in I} \cup {t[n + 1].name}
      OBVIOUS
    <3> QED  BY <1>4, <1>6, <1>7, <1>8, <2>1, <3>1
  <2>2. CASE n + 1 \notin J
    BY <1>4, <1>6, <1>7, <1>8, <2>2
  <2> QED  BY <2>1, <2>2
<1>10. CargoTableNames(s) \subseteq CargoTableNames(t)
  <2>1. \A i \in 1..n : i \in 1..(n + 1) /\ t[i] = s[i]
    BY <1>1, <1>3
  <2> QED  BY <1>5, <2>1
<1>11. Is(l) => l.name[3] \in CargoTableNames(t)
  BY <1>1, <1>3, <1>5
<1> QED  BY <1>9, <1>10, <1>11 DEF t, n, P

\* What a line below a header does.
LEMMA CargoLineGrows ==
  ASSUME NEW s \in Seq(CargoLine), NEW l \in CargoLine, l.kind # "section",
         NEW st, CargoShape(st), SectionInv(s, st.section)
  PROVE  LET new == Lang!CargoLine(st, l) IN
         /\ CargoShape(new) /\ new.section = st.section
         /\ DOMAIN st.deps \subseteq DOMAIN new.deps /\ st.unparsed \subseteq new.unparsed
         /\ \A x \in DOMAIN new.deps : x \in DOMAIN st.deps \/ x \in CargoTableNames(s)
                                       \/ (st.section = Deps /\ x = l.name)
         /\ st.section = Deps => l.name \in DOMAIN new.deps \cup new.unparsed
<1> DEFINE new == Lang!CargoLine(st, l)
<1>1. CASE st.section = <<"other">>
  <2>1. new = st
    BY <1>1 DEF Lang!CargoLine
  <2>2. st.section # Deps
    BY <1>1 DEF Deps
  <2> QED  BY <2>1, <2>2
<1>2. CASE st.section \in {<<"table", x>> : x \in CargoTableNames(s)}
  <2>1. PICK x \in CargoTableNames(s) : st.section = <<"table", x>>
    BY <1>2
  <2>2. st.section # <<"other">> /\ st.section[1] = "table" /\ st.section[2] = x /\ st.section # Deps
    BY <2>1 DEF Deps
  <2>3. new = Lang!CargoTableLine(st, l)
    BY <2>2, Zenon DEF Lang!CargoLine
  <2>4. CargoGrows(st, new, x)
    BY <2>2, <2>3, CargoTableGrows
  <2> HIDE DEF new
  <2>5. /\ CargoShape(new) /\ new.section = st.section
        /\ DOMAIN st.deps \subseteq DOMAIN new.deps /\ st.unparsed \subseteq new.unparsed
        /\ \A y \in DOMAIN new.deps : y \in DOMAIN st.deps \/ y = x
    BY <2>4 DEF CargoGrows
  <2> QED  BY <2>2, <2>5 DEF new
<1>3. CASE st.section \in {Deps} \cup (Elsewhere \ {<<"other">>})
  <2>1. st.section # <<"other">> /\ st.section[1] # "table"
    BY <1>3 DEF Deps, Elsewhere
  <2>2. new = Lang!CargoDep(st, l)
    BY <2>1, Zenon DEF Lang!CargoLine
  <2>3. /\ CargoGrows(st, new, l.name)
        /\ st.section = Deps => l.name \in DOMAIN new.deps \cup new.unparsed
        /\ st.section # Deps => new.deps = st.deps
    BY <1>3, <2>2, CargoDepGrows
  <2> HIDE DEF new
  <2>4. /\ CargoShape(new) /\ new.section = st.section
        /\ DOMAIN st.deps \subseteq DOMAIN new.deps /\ st.unparsed \subseteq new.unparsed
        /\ \A x \in DOMAIN new.deps : x \in DOMAIN st.deps \/ (st.section = Deps /\ x = l.name)
    BY <2>3 DEF CargoGrows
  <2> QED  BY <2>3, <2>4 DEF new
<1>4. st.section \in {Deps} \cup Elsewhere \cup {<<"table", x>> : x \in CargoTableNames(s)}
  BY DEF SectionInv
<1> QED  BY <1>1, <1>2, <1>3, <1>4

\* A line of a Cargo.toml.
LEMMA CargoStep ==
  ASSUME NEW s \in Seq(CargoLine), NEW l \in CargoLine, NEW st, CargoInv(s, st)
  PROVE  CargoInv(Append(s, l), Lang!CargoLine(st, l))
<1> DEFINE t == Append(s, l)
           n == Len(s)
           new == Lang!CargoLine(st, l)
           D(r) == Lang!CargoDeclared(r)
           T(r) == CargoTableNames(r)
<1>1. n \in Nat /\ Len(t) + 1 = n + 2
  BY Appended
<1>2. /\ CargoShape(st) /\ SectionInv(s, st.section)
      /\ DOMAIN st.deps \subseteq D(s) \cup T(s) /\ D(s) \subseteq DOMAIN st.deps \cup st.unparsed
  BY DEF CargoInv
<1>3. /\ D(t) = D(s) \cup (IF l.kind # "section" /\ Lang!Below(s, n + 1, Deps) THEN {l.name} ELSE {})
      /\ T(s) \subseteq T(t)
      /\ l.kind = "section" /\ Len(l.name) = 3 /\ SubSeq(l.name, 1, 2) = <<"dependencies", "dependencies">>
         => l.name[3] \in T(t)
  BY CargoNamesAppend
<1>4. Lang!Below(t, n + 2, Deps) <=>
        IF l.kind = "section" THEN l.name = Deps ELSE Lang!Below(s, n + 1, Deps)
  BY BelowAppend
<1>5. st.section = Deps <=> Lang!Below(s, n + 1, Deps)
  <2>1. Deps \notin Elsewhere /\ \A x \in T(s) : Deps # <<"table", x>>
    BY DEF Deps, Elsewhere
  <2> QED  BY <1>2, <2>1 DEF SectionInv
<1>6. CASE l.kind = "section"
  <2>1. new = [st EXCEPT !.section = Lang!CargoSection(l.name)]
    BY <1>6 DEF Lang!CargoLine
  <2>2. l.name \in Seq(STRING)
    BY <1>6 DEF CargoLine
  <2> HIDE DEF new
  <2>3. /\ CargoShape(new) /\ new.deps = st.deps /\ new.unparsed = st.unparsed
        /\ new.section = Lang!CargoSection(l.name)
    BY <1>2, <2>1 DEF CargoShape
  <2>4. SectionInv(t, new.section)
    <3>1. \/ l.name = Deps /\ new.section = Deps
          \/ l.name # Deps /\ new.section \in Elsewhere
          \/ /\ l.name # Deps /\ Len(l.name) = 3 /\ SubSeq(l.name, 1, 2) = <<"dependencies", "dependencies">>
             /\ new.section = <<"table", l.name[3]>>
      BY <2>2, <2>3, CargoSectionIs
    <3> HIDE DEF t, n, D, T
    <3> QED  BY <3>1, <1>1, <1>3, <1>4, <1>6 DEF SectionInv, T
  <2>5. DOMAIN new.deps \subseteq D(t) \cup T(t) /\ D(t) \subseteq DOMAIN new.deps \cup new.unparsed
    <3> HIDE DEF t, n, D, T
    <3> QED  BY <1>2, <1>3, <1>6, <2>3
  <2> QED  BY <2>3, <2>4, <2>5 DEF CargoInv, new
<1>7. CASE l.kind # "section"
  <2>1. /\ CargoShape(new) /\ new.section = st.section
        /\ DOMAIN st.deps \subseteq DOMAIN new.deps /\ st.unparsed \subseteq new.unparsed
        /\ \A x \in DOMAIN new.deps : x \in DOMAIN st.deps \/ x \in T(s)
                                      \/ (st.section = Deps /\ x = l.name)
        /\ st.section = Deps => l.name \in DOMAIN new.deps \cup new.unparsed
    BY <1>2, <1>7, CargoLineGrows
  <2> HIDE DEF new
  <2>2. SectionInv(t, new.section)
    <3>1. st.section = Deps \/ st.section \in Elsewhere \cup {<<"table", x>> : x \in T(t)}
      BY <1>2, <1>3 DEF SectionInv
    <3> HIDE DEF t, n, D, T
    <3> QED  BY <3>1, <1>1, <1>4, <1>5, <1>7, <2>1 DEF SectionInv, T
  <2>3. DOMAIN new.deps \subseteq D(t) \cup T(t) /\ D(t) \subseteq DOMAIN new.deps \cup new.unparsed
    <3> HIDE DEF t, n, D, T
    <3> QED  BY <1>2, <1>3, <1>5, <1>7, <2>1
  <2> QED  BY <2>1, <2>2, <2>3 DEF CargoInv, new
<1> QED  BY <1>6, <1>7

-----------------------------------------------------------------------------
(* Readers: hosts *)

\* Before the cap every entry is in one of the lists, an accepted host is in
\* one place only, comes from a valid entry and is no default.
Reasons == {"invalid hostname", "already in tier-1 default allowlist", "duplicate in tier-2 list",
            "exceeds 32-host sanity cap"}
HostsHold(entries, accepted, rejected) ==
    /\ accepted \in Seq(STRING) /\ rejected \in Seq(STRING \X Reasons)
    /\ Len(accepted) + Len(rejected) = Len(entries)
    /\ \A i, j \in 1..Len(accepted) : accepted[i] = accepted[j] => i = j
    /\ \A i \in 1..Len(accepted) : \E k \in 1..Len(entries) :
         entries[k].host = accepted[i] /\ entries[k].valid
    /\ \A k \in 1..Len(entries) : entries[k].valid =>
         \/ entries[k].host \in Tier1Hosts
         \/ \E i \in 1..Len(accepted) : accepted[i] = entries[k].host

HostsInv(entries, res) ==
    /\ res = [accepted |-> res.accepted, rejected |-> res.rejected]
    /\ HostsHold(entries, res.accepted, res.rejected)

\* A host is accepted once or rejected with a reason.
LEMMA HostStep ==
  ASSUME NEW s \in Seq(Host), NEW e \in Host, NEW res, HostsInv(s, res)
  PROVE  HostsInv(Append(s, e), Tool!AddHost(res, e))
<1> DEFINE t == Append(s, e)
           n == Len(s)
           new == Tool!AddHost(res, e)
           a == res.accepted
           r == res.rejected
           taken == \E i \in 1..Len(a) : a[i] = e.host
<1>1. /\ n \in Nat /\ Len(t) = n + 1 /\ \A i \in 1..n : t[i] = s[i] /\ i \in 1..(n + 1)
      /\ t[n + 1] = e /\ n + 1 \in 1..(n + 1) /\ 1..(n + 1) = (1..n) \cup {n + 1}
  BY Appended
<1>2. /\ res = [accepted |-> a, rejected |-> r] /\ a \in Seq(STRING) /\ r \in Seq(STRING \X Reasons)
      /\ Len(a) + Len(r) = n
      /\ \A i, j \in 1..Len(a) : a[i] = a[j] => i = j
      /\ \A i \in 1..Len(a) : \E k \in 1..n : s[k].host = a[i] /\ s[k].valid
      /\ \A k \in 1..n : s[k].valid =>
           s[k].host \in Tier1Hosts \/ \E i \in 1..Len(a) : a[i] = s[k].host
  BY DEF HostsInv, HostsHold
<1> HIDE DEF a, r
<1>3. e.host \in STRING /\ e.valid \in BOOLEAN /\ \A k \in 1..n : s[k].valid \in BOOLEAN
  <2>1. \A h \in Host : h.host \in STRING /\ h.valid \in BOOLEAN
    BY DEF Host
  <2>2. \A k \in 1..n : s[k] \in Host
    OBVIOUS
  <2> QED  BY <2>1, <2>2
<1>4. /\ e.host \in Tool!ToSet(a) <=> taken
      /\ Tool!Tier2Reason(a, e) \in Reasons \cup {Tool!None}
      /\ Tool!Tier2Reason(a, e) = Tool!None <=> e.valid /\ e.host \notin Tier1Hosts /\ ~taken
  <2>1. e.host \in Tool!ToSet(a) <=> taken
    <3>1. DOMAIN a = 1..Len(a)
      BY <1>2
    <3> QED  BY <3>1, Zenon DEF Tool!ToSet
  <2> HIDE DEF taken
  <2>2. Tool!Tier2Reason(a, e) =
          IF ~e.valid THEN "invalid hostname"
          ELSE IF e.host \in Tier1Hosts THEN "already in tier-1 default allowlist"
          ELSE IF taken THEN "duplicate in tier-2 list" ELSE Tool!None
    BY <2>1, Zenon DEF Tool!Tier2Reason
  <2>3. Tool!Tier2Reason(a, e) \in Reasons \cup {Tool!None}
    BY <2>2, Zenon DEF Reasons
  <2>4. /\ "invalid hostname" # Tool!None /\ "already in tier-1 default allowlist" # Tool!None
        /\ "duplicate in tier-2 list" # Tool!None
    BY DEF Tool!None
  <2> QED  BY <2>1, <2>2, <2>3, <2>4, Zenon
<1>5. CASE e.valid /\ e.host \notin Tier1Hosts /\ ~taken
  <2>1. new = [res EXCEPT !.accepted = Append(a, e.host)]
    <3>1. Tool!Tier2Reason(a, e) = Tool!None
      BY <1>4, <1>5
    <3> QED  BY <3>1, Zenon DEF Tool!AddHost, a
  <2> DEFINE b == Append(a, e.host)
             m == Len(a)
  <2>2. /\ b \in Seq(STRING) /\ m \in Nat /\ Len(b) = m + 1 /\ b[m + 1] = e.host
        /\ \A i \in 1..m : b[i] = a[i] /\ i \in 1..(m + 1)
        /\ 1..(m + 1) = (1..m) \cup {m + 1} /\ m + 1 \notin 1..m
    BY <1>2, <1>3
  <2>3. \A i \in 1..m : a[i] # e.host
    BY <1>5
  <2> HIDE DEF new, b, t, n
  <2>4. new = [accepted |-> b, rejected |-> r] /\ new.accepted = b /\ new.rejected = r
    BY <1>2, <2>1 DEF b
  <2> HIDE DEF m
  <2>5. Len(b) + Len(r) = n + 1
    <3>1. Len(a) + Len(r) = n /\ Len(r) \in Nat /\ Len(a) \in Nat /\ Len(b) = Len(a) + 1
      BY <1>2, <2>2 DEF m
    <3> QED  BY <3>1
  <2>6. \A i, j \in 1..(m + 1) : b[i] = b[j] => i = j
    <3>1. \A i, j \in 1..m : b[i] = b[j] => i = j
      BY <1>2, <2>2 DEF m
    <3>2. \A i \in 1..m : b[i] # b[m + 1]
      BY <2>2, <2>3
    <3> QED  BY <2>2, <3>1, <3>2
  <2>7. \A i \in 1..(m + 1) : \E k \in 1..(n + 1) : t[k].host = b[i] /\ t[k].valid
    <3>1. \A i \in 1..m : \E k \in 1..n : t[k].host = b[i] /\ t[k].valid
      <4>1. \A i \in 1..m : \E k \in 1..n : s[k].host = a[i] /\ s[k].valid
        BY <1>2 DEF m
      <4>2. \A k \in 1..n : t[k] = s[k]
        BY <1>1
      <4>3. \A i \in 1..m : b[i] = a[i]
        BY <2>2
      <4> TAKE i \in 1..m
      <4>4. PICK k \in 1..n : s[k].host = a[i] /\ s[k].valid
        BY <4>1
      <4>5. t[k].host = b[i] /\ t[k].valid
        BY <4>2, <4>3, <4>4
      <4> QED  BY <4>5
    <3>2. t[n + 1].host = b[m + 1] /\ t[n + 1].valid
      BY <1>1, <1>5, <2>2
    <3> QED  BY <1>1, <2>2, <3>1, <3>2
  <2>8. \A k \in 1..(n + 1) : t[k].valid =>
          t[k].host \in Tier1Hosts \/ \E i \in 1..(m + 1) : b[i] = t[k].host
    <3>1. \A k \in 1..n : t[k].valid =>
            t[k].host \in Tier1Hosts \/ \E i \in 1..(m + 1) : b[i] = t[k].host
      BY <1>1, <1>2, <2>2 DEF m
    <3>2. b[m + 1] = t[n + 1].host /\ m + 1 \in 1..(m + 1)
      BY <1>1, <2>2
    <3> QED  BY <1>1, <3>1, <3>2
  <2>9. HostsHold(t, b, r)
    BY <1>1, <1>2, <2>2, <2>5, <2>6, <2>7, <2>8 DEF HostsHold
  <2>10. HostsInv(t, new)
    BY <2>4, <2>9, Zenon DEF HostsInv
  <2> QED  BY <2>10 DEF t, new
<1>6. CASE ~(e.valid /\ e.host \notin Tier1Hosts /\ ~taken)
  <2> DEFINE b == Append(r, <<e.host, Tool!Tier2Reason(a, e)>>)
  <2>1. new = [res EXCEPT !.rejected = b]
    <3>1. Tool!Tier2Reason(a, e) # Tool!None
      BY <1>4, <1>6
    <3> QED  BY <3>1, Zenon DEF Tool!AddHost, a, r
  <2>2. b \in Seq(STRING \X Reasons) /\ Len(b) = Len(r) + 1
    <3>1. <<e.host, Tool!Tier2Reason(a, e)>> \in STRING \X Reasons
      BY <1>3, <1>4, <1>6
    <3> QED  BY <1>2, <3>1
  <2> HIDE DEF new, b, t, n
  <2>3. new = [accepted |-> a, rejected |-> b] /\ new.accepted = a /\ new.rejected = b
    BY <1>2, <2>1
  <2>4. Len(a) + Len(b) = n + 1
    BY <1>1, <1>2, <2>2
  <2>5. \A i \in 1..Len(a) : \E k \in 1..(n + 1) : t[k].host = a[i] /\ t[k].valid
    BY <1>1, <1>2
  <2>6. \A k \in 1..(n + 1) : t[k].valid =>
          t[k].host \in Tier1Hosts \/ \E i \in 1..Len(a) : a[i] = t[k].host
    BY <1>1, <1>2, <1>3, <1>6
  <2>7. HostsHold(t, a, b)
    BY <1>1, <1>2, <2>2, <2>4, <2>5, <2>6 DEF HostsHold
  <2>8. HostsInv(t, new)
    BY <2>3, <2>7, Zenon DEF HostsInv
  <2> QED  BY <2>8 DEF t, new
<1> QED  BY <1>5, <1>6

\* Two sequences end to end.
LEMMA Joined ==
  ASSUME NEW S, NEW u \in Seq(S), NEW v \in Seq(S)
  PROVE  /\ u \o v \in Seq(S) /\ Len(u \o v) = Len(u) + Len(v)
         /\ \A i \in 1..Len(u) : (u \o v)[i] = u[i]
         /\ \A i \in 1..Len(v) : (u \o v)[Len(u) + i] = v[i]
OBVIOUS

\* The cap moves hosts from one list to the other.
LEMMA HostsAnswered ==
  ASSUME NEW s \in Seq(Host), NEW res, HostsInv(s, res), MaxHosts \in Nat
  PROVE  Tool!EveryHostIsAnswered(s, res)
<1> DEFINE a == res.accepted
           r == res.rejected
           cap == Tool!CapHosts(res)
           over(h) == <<h, "exceeds 32-host sanity cap">>
           hosts == Tool!AllowedHosts(res)
<1>1. /\ a \in Seq(STRING) /\ r \in Seq(STRING \X Reasons)
      /\ Len(a) + Len(r) = Len(s)
      /\ \A i, j \in 1..Len(a) : a[i] = a[j] => i = j
      /\ \A i \in 1..Len(a) : \E k \in 1..Len(s) : s[k].host = a[i] /\ s[k].valid
      /\ \A k \in 1..Len(s) : s[k].valid =>
           s[k].host \in Tier1Hosts \/ \E i \in 1..Len(a) : a[i] = s[k].host
  BY DEF HostsInv, HostsHold
<1> HIDE DEF a, r
<1>2. Len(a) \in Nat /\ Len(r) \in Nat /\ DOMAIN a = 1..Len(a) /\ DOMAIN s = 1..Len(s)
  BY <1>1
<1>3. /\ cap.accepted \in Seq(STRING) /\ cap.rejected \in Seq(STRING \X Reasons)
      /\ Len(cap.accepted) <= Len(a) /\ Len(cap.accepted) <= MaxHosts
      /\ \A i \in 1..Len(cap.accepted) : cap.accepted[i] = a[i]
      /\ Len(cap.accepted) + Len(cap.rejected) = Len(s)
      /\ \A i \in 1..Len(a) : i > Len(cap.accepted) =>
           \E j \in 1..Len(cap.rejected) : cap.rejected[j] = over(a[i])
  <2>1. CASE Len(a) <= MaxHosts
    <3>1. cap.accepted = a /\ cap.rejected = r
      BY <2>1 DEF Tool!CapHosts, a, r
    <3> HIDE DEF cap, over
    <3> QED  BY <1>1, <1>2, <2>1, <3>1
  <2>2. CASE ~(Len(a) <= MaxHosts)
    <3> DEFINE k == Len(a) - MaxHosts
               more == [i \in 1..k |-> over(a[MaxHosts + i])]
               b == SubSeq(a, 1, MaxHosts)
               q == r \o more
    <3>1. k \in Nat /\ MaxHosts \in 1..Len(a) \cup {0} /\ \A i \in 1..k : MaxHosts + i \in 1..Len(a)
      BY <1>2, <2>2
    <3>2. cap = [accepted |-> b, rejected |-> q]
      BY <2>2 DEF Tool!CapHosts, a, r
    <3>3. cap.accepted = b /\ cap.rejected = q
      <4> HIDE DEF cap, b, q
      <4> QED  BY <3>2
    <3>4. b \in Seq(STRING) /\ Len(b) = MaxHosts /\ \A i \in 1..MaxHosts : b[i] = a[i]
      BY <1>1, <1>2, <2>2
    <3>5. more \in Seq(STRING \X Reasons) /\ Len(more) = k
      <4>1. \A i \in 1..k : over(a[MaxHosts + i]) \in STRING \X Reasons
        <5>1. \A i \in 1..k : a[MaxHosts + i] \in STRING
          <6> HIDE DEF k
          <6>1. \A i \in 1..Len(a) : a[i] \in STRING
            BY <1>1
          <6> QED  BY <3>1, <6>1
        <5>2. "exceeds 32-host sanity cap" \in Reasons
          BY Zenon DEF Reasons
        <5> HIDE DEF k
        <5> QED  BY <5>1, <5>2 DEF over
      <4> HIDE DEF k, over
      <4> QED  BY <3>1, <4>1
    <3>6. /\ q \in Seq(STRING \X Reasons) /\ Len(q) = Len(r) + k
          /\ \A i \in 1..k : q[Len(r) + i] = over(a[MaxHosts + i])
      <4>1. \A i \in 1..k : more[i] = over(a[MaxHosts + i])
        OBVIOUS
      <4>2. Len(more) = k
        BY <3>5
      <4> HIDE DEF more, k, over
      <4>3. r \in Seq(STRING \X Reasons) /\ more \in Seq(STRING \X Reasons)
        BY <1>1, <3>5
      <4>4. /\ r \o more \in Seq(STRING \X Reasons) /\ Len(r \o more) = Len(r) + Len(more)
            /\ \A i \in 1..Len(more) : (r \o more)[Len(r) + i] = more[i]
        BY <4>3, SMTT(30)
      <4>5. /\ q \in Seq(STRING \X Reasons) /\ Len(q) = Len(r) + Len(more)
            /\ \A i \in 1..Len(more) : q[Len(r) + i] = more[i]
        BY <4>4
      <4> HIDE DEF q
      <4> QED  BY <4>1, <4>2, <4>5
    <3>7. MaxHosts + (Len(r) + k) = Len(s)
      BY <1>1, <1>2
    <3>8. ASSUME NEW i \in 1..Len(a), i > MaxHosts
          PROVE  \E j \in 1..(Len(r) + k) : q[j] = over(a[i])
      <4>1. i - MaxHosts \in 1..k /\ MaxHosts + (i - MaxHosts) = i /\ Len(r) + (i - MaxHosts) \in 1..(Len(r) + k)
        BY <1>2, <3>8
      <4> HIDE DEF k, q, over
      <4>2. q[Len(r) + (i - MaxHosts)] = over(a[i])
        BY <3>6, <4>1
      <4> QED  BY <4>1, <4>2
    <3>9. MaxHosts <= Len(a)
      BY <1>2, <2>2
    <3> HIDE DEF k, q, b, over, cap
    <3>10. Len(cap.accepted) = MaxHosts /\ Len(cap.rejected) = Len(r) + k
      BY <3>3, <3>4, <3>6
    <3>11. \A i \in 1..Len(a) : i > Len(cap.accepted) =>
             \E j \in 1..Len(cap.rejected) : cap.rejected[j] = over(a[i])
      BY <3>3, <3>8, <3>10
    <3> QED  BY <3>3, <3>4, <3>6, <3>7, <3>9, <3>10, <3>11
  <2> QED  BY <2>1, <2>2
<1> HIDE DEF cap, over
<1>4. hosts = Tier1Hosts \cup {cap.accepted[i] : i \in 1..Len(cap.accepted)}
  BY <1>3 DEF Tool!AllowedHosts, Tool!ToSet, cap
<1> HIDE DEF hosts
<1>5. Len(cap.accepted) \in Nat /\ \A i \in 1..Len(cap.accepted) : i \in 1..Len(a)
  BY <1>2, <1>3
<1>6. Tool!IsInjective(cap.accepted)
  <2>1. DOMAIN cap.accepted = 1..Len(cap.accepted)
    BY <1>3
  <2>2. \A i, j \in 1..Len(cap.accepted) : cap.accepted[i] = cap.accepted[j] => i = j
    BY <1>1, <1>3, <1>5
  <2> QED  BY <2>1, <2>2, Zenon DEF Tool!IsInjective
<1>7. ASSUME NEW h \in hosts \ Tier1Hosts PROVE \E i \in DOMAIN s : s[i].host = h /\ s[i].valid
  <2>1. PICK i \in 1..Len(cap.accepted) : cap.accepted[i] = h
    BY <1>4
  <2>2. i \in 1..Len(a) /\ a[i] = h
    BY <1>3, <1>5, <2>1
  <2> QED  BY <1>1, <1>2, <2>2
<1>8. ASSUME NEW k \in DOMAIN s, s[k].valid, s[k].host \notin hosts
      PROVE  \E j \in DOMAIN cap.rejected : cap.rejected[j] = over(s[k].host)
  <2>1. PICK i \in 1..Len(a) : a[i] = s[k].host
    BY <1>1, <1>2, <1>4, <1>8
  <2>2. ~(i \in 1..Len(cap.accepted))
    BY <1>3, <1>4, <1>8, <2>1
  <2>3. i > Len(cap.accepted)
    BY <1>5, <2>2
  <2>4. DOMAIN cap.rejected = 1..Len(cap.rejected)
    BY <1>3
  <2> HIDE DEF over
  <2> QED  BY <1>3, <2>1, <2>3, <2>4
<1>9. Tier1Hosts \subseteq hosts
  BY <1>4
<1>10. /\ Len(cap.accepted) + Len(cap.rejected) = Len(s)
       /\ Tool!IsInjective(cap.accepted) /\ Len(cap.accepted) <= MaxHosts
  BY <1>3, <1>6
<1>11. \A h \in hosts \ Tier1Hosts : \E i \in DOMAIN s : s[i].host = h /\ s[i].valid
  BY <1>7
<1>12. \A k \in DOMAIN s : s[k].valid /\ s[k].host \notin hosts =>
         \E j \in DOMAIN cap.rejected : cap.rejected[j] = <<s[k].host, "exceeds 32-host sanity cap">>
  BY <1>8 DEF over
<1> QED  BY <1>9, <1>10, <1>11, <1>12, Zenon DEF Tool!EveryHostIsAnswered, cap, hosts

-----------------------------------------------------------------------------
(* Readers: stale dependencies *)

\* The lines of a kind are counted one by one.
LEMMA CountAppend ==
  ASSUME NEW n \in Nat, NEW A \in SUBSET (1..n), NEW B \in SUBSET (1..(n + 1)),
         \A i \in 1..n : i \in B <=> i \in A
  PROVE  /\ Cardinality(A) \in Nat
         /\ Cardinality(B) = Cardinality(A) + (IF n + 1 \in B THEN 1 ELSE 0)
<1>1. B = IF n + 1 \in B THEN A \cup {n + 1} ELSE A
  BY GrowsByOne
<1>2. IsFiniteSet(A) /\ n + 1 \notin A
  <2>1. IsFiniteSet(1..n) /\ n + 1 \notin 1..n
    BY FS_Interval
  <2> QED  BY <2>1, FS_Subset
<1> QED  BY <1>1, <1>2, FS_AddElement, FS_CardinalityType

\* The version that is compared, and the dependencies that become stale.
Current(lang, dep) ==
    IF lang \in {"typescript", "python"} THEN Lang!ParseVersion(dep.range) ELSE dep.range
IsStale(lang, dep) ==
    /\ ~Lang!Skipped(lang, dep) /\ Lang!Answered(lang, dep) /\ dep.range.parts # <<>>
    /\ Lang!IsSignificantlyBehind(Current(lang, dep), dep.latest)

\* The numbers of a version are numbers or NaN.
LEMMA VersionNumbers ==
  ASSUME NEW v, v.parts \in Seq(Nat \cup {-1})
  PROVE  Lang!Major(v) \in Nat \cup {-1} /\ Lang!Minor(v) \in Nat \cup {-1}
<1>2. Lang!Major(v) \in Nat \cup {-1}
  <2>1. v.parts # <<>> => v.parts[1] \in Nat \cup {-1}
    OBVIOUS
  <2> QED  BY <2>1 DEF Lang!Major, Lang!NaN
<1>3. Lang!Minor(v) \in Nat \cup {-1}
  BY DEF Lang!Minor
<1> QED  BY <1>2, <1>3

\* A later major, or three minors more: between numbers it is an order of pairs.
LEMMA BehindIsClearly ==
  ASSUME NEW u, NEW v, u.parts \in Seq(Nat \cup {-1}), v.parts \in Seq(Nat \cup {-1}),
         Lang!Minor(u) # Lang!NaN, Lang!Minor(v) # Lang!NaN
  PROVE  Lang!IsSignificantlyBehind(u, v) <=> Lang!Clearly(u, v)
<1> DEFINE a == Lang!Major(u)
           b == Lang!Major(v)
           c == Lang!Minor(u)
           d == Lang!Minor(v)
<1>1. a \in Nat \cup {-1} /\ b \in Nat \cup {-1} /\ c \in Nat /\ d \in Nat
  BY VersionNumbers DEF Lang!NaN
<1>2. Lang!NotAfter(<<a, c + 3>>, <<b, d>>) <=> (a < b \/ (a = b /\ c + 3 <= d))
  <2> HIDE DEF a, b, c, d
  <2> QED  BY DEF Lang!NotAfter
<1>3. Lang!Clearly(u, v) <=> a # -1 /\ b # -1 /\ Lang!NotAfter(<<a, c + 3>>, <<b, d>>)
  BY <1>1 DEF Lang!Clearly, Lang!NaN
<1>4. Lang!IsSignificantlyBehind(u, v)
        <=> a # -1 /\ b # -1 /\ (b > a \/ (b = a /\ d > c + 2))
  <2> HIDE DEF a, b, c, d
  <2> QED  BY <1>1 DEF Lang!IsSignificantlyBehind, Lang!NaN, a, b, c, d
<1> HIDE DEF a, b, c, d
<1>5. (b > a \/ (b = a /\ d > c + 2)) <=> (a < b \/ (a = b /\ c + 3 <= d))
  BY <1>1
<1> QED  BY <1>2, <1>3, <1>4, <1>5

\* What is counted as stale is clearly stale, and the other way round where
\* numbers are compared.
LEMMA StaleIsClear ==
  ASSUME NEW lang \in StaleKinds, NEW dep \in Dep,
         Lang!NaN \notin {Lang!Minor(dep.range), Lang!Minor(dep.latest)}
  PROVE  /\ IsStale(lang, dep) => Lang!ClearlyStale(lang, dep)
         /\ Lang!ClearlyStale(lang, dep) /\ Lang!ComparesNumbers(lang, dep) => IsStale(lang, dep)
<1> DEFINE u == dep.range
           p == Lang!ParseVersion(u)
           v == dep.latest
           q == Lang!ParseVersion(v)
           c == Current(lang, dep)
<1>1. u \in Version /\ v \in Version
  BY DEF Dep
<1>2. /\ p.mark = "" /\ p.parts = u.parts /\ (u.mark = "" => p = u) /\ (v.mark = "" => q = v)
      /\ u.parts \in Seq(Nat \cup {-1}) /\ v.parts \in Seq(Nat \cup {-1})
  BY <1>1 DEF Lang!ParseVersion, Version, Lang!NaN
<1> HIDE DEF p, q, u, v
<1>3. Lang!Minor(p) = Lang!Minor(u)
  BY <1>2 DEF Lang!Minor
<1>4. Lang!Minor(u) # Lang!NaN /\ Lang!Minor(v) # Lang!NaN
  BY DEF u, v
<1>5. Lang!IsSignificantlyBehind(p, v) <=> Lang!Clearly(p, v)
  BY <1>1, <1>2, <1>3, <1>4, BehindIsClearly
<1>6. \A x, y : x.mark # "" \/ y.mark # "" => ~Lang!IsSignificantlyBehind(x, y)
  BY DEF Lang!IsSignificantlyBehind, Lang!Major
<1>7. c = p \/ c = u
  BY DEF Current, p, u, c
<1>8. lang \in {"typescript", "python"} => c = p
  BY DEF Current, p, u, c
<1> HIDE DEF c
<1>9. Lang!IsSignificantlyBehind(c, v) => Lang!Clearly(p, q)
  BY <1>2, <1>5, <1>6, <1>7
<1>10. Lang!Clearly(p, q) /\ v.mark = "" /\ (lang \in {"typescript", "python"} \/ u.mark = "")
         => Lang!IsSignificantlyBehind(c, v)
  BY <1>2, <1>5, <1>7, <1>8
<1>11. IsStale(lang, dep) <=> /\ ~Lang!Skipped(lang, dep) /\ Lang!Answered(lang, dep) /\ u.parts # <<>>
                             /\ Lang!IsSignificantlyBehind(c, v)
  BY Zenon DEF IsStale, u, v, c
<1>12. Lang!ClearlyStale(lang, dep) <=> /\ ~Lang!Skipped(lang, dep) /\ u.parts # <<>>
                                       /\ Lang!Answered(lang, dep) /\ Lang!Clearly(p, q)
  BY Zenon DEF Lang!ClearlyStale, u, v, p, q
<1>13. Lang!ComparesNumbers(lang, dep)
         <=> v.mark = "" /\ (lang \in {"typescript", "python"} \/ u.mark = "")
  BY Zenon DEF Lang!ComparesNumbers, u, v
<1> QED  BY <1>9, <1>10, <1>11, <1>12, <1>13, Zenon

StaleHold(lang, deps, stale, checked, failed) ==
    /\ stale \in Seq(Dep) /\ checked \in Nat /\ failed \in Nat
    /\ checked + failed + Cardinality({i \in 1..Len(deps) : Lang!Skipped(lang, deps[i])}) = Len(deps)
    /\ \A d \in Dep : (\E i \in 1..Len(stale) : stale[i] = d)
                             <=> (\E i \in 1..Len(deps) : deps[i] = d) /\ IsStale(lang, d)
StaleInv(lang, deps, res) ==
    /\ res = [stale |-> res.stale, checked |-> res.checked, failed |-> res.failed]
    /\ StaleHold(lang, deps, res.stale, res.checked, res.failed)

\* A dependency that is not skipped is counted once.
LEMMA CountedOnce ==
  ASSUME NEW res, res = [stale |-> res.stale, checked |-> res.checked, failed |-> res.failed],
         res.checked \in Nat, res.failed \in Nat, NEW found, NEW dep, NEW current
  PROVE  LET new == Lang!Counted(res, found, dep, current) IN
         /\ new = [stale |-> new.stale, checked |-> new.checked, failed |-> new.failed]
         /\ new.checked \in Nat /\ new.failed \in Nat
         /\ new.checked + new.failed = res.checked + res.failed + 1
         /\ new.stale = IF /\ found = "found" /\ dep.range.parts # <<>>
                           /\ Lang!IsSignificantlyBehind(current, dep.latest)
                        THEN Append(res.stale, dep) ELSE res.stale
<1> DEFINE new == Lang!Counted(res, found, dep, current)
           behind == /\ found = "found" /\ dep.range.parts # <<>>
                     /\ Lang!IsSignificantlyBehind(current, dep.latest)
<1>1. new = IF found = "failed" THEN [res EXCEPT !.failed = res.failed + 1]
            ELSE IF behind THEN [res EXCEPT !.checked = res.checked + 1, !.stale = Append(res.stale, dep)]
                 ELSE [res EXCEPT !.checked = res.checked + 1]
  BY DEF Lang!Counted
<1>2. found = "failed" => ~behind
  OBVIOUS
<1> HIDE DEF new, behind
<1>3. CASE found = "failed"
  <2>1. new = [stale |-> res.stale, checked |-> res.checked, failed |-> res.failed + 1]
    BY <1>1, <1>3
  <2>2. new.stale = res.stale /\ new.checked = res.checked /\ new.failed = res.failed + 1
    BY <2>1
  <2> QED  BY <1>2, <1>3, <2>1, <2>2 DEF new, behind
<1>4. CASE found # "failed" /\ behind
  <2>1. new = [stale |-> Append(res.stale, dep), checked |-> res.checked + 1, failed |-> res.failed]
    BY <1>1, <1>4
  <2>2. new.stale = Append(res.stale, dep) /\ new.checked = res.checked + 1 /\ new.failed = res.failed
    BY <2>1
  <2> QED  BY <1>4, <2>1, <2>2 DEF new, behind
<1>5. CASE found # "failed" /\ ~behind
  <2>1. new = [stale |-> res.stale, checked |-> res.checked + 1, failed |-> res.failed]
    BY <1>1, <1>5
  <2>2. new.stale = res.stale /\ new.checked = res.checked + 1 /\ new.failed = res.failed
    BY <2>1
  <2> QED  BY <1>5, <2>1, <2>2 DEF new, behind
<1> QED  BY <1>3, <1>4, <1>5

\* The next dependency is skipped or counted.
Counts(lang, dep, res, new) ==
    /\ new = [stale |-> new.stale, checked |-> new.checked, failed |-> new.failed]
    /\ new.checked \in Nat /\ new.failed \in Nat
    /\ new.checked + new.failed
         = res.checked + res.failed + (IF Lang!Skipped(lang, dep) THEN 0 ELSE 1)
    /\ new.stale = IF IsStale(lang, dep) THEN Append(res.stale, dep) ELSE res.stale

\* Counting keeps the record of the counts.
LEMMA CountDepShape ==
  ASSUME NEW lang \in StaleKinds, NEW dep, NEW res,
         res = [stale |-> res.stale, checked |-> res.checked, failed |-> res.failed],
         res.checked \in Nat, res.failed \in Nat
  PROVE  Counts(lang, dep, res, Lang!CountDep(lang, res, dep))
<1> DEFINE new == Lang!CountDep(lang, res, dep)
           cur == Current(lang, dep)
           asked(found) == Lang!Counted(res, found, dep, cur)
<1>1. ASSUME NEW found, new = asked(found), ~Lang!Skipped(lang, dep),
             Lang!Answered(lang, dep) <=> found = "found"
      PROVE  Counts(lang, dep, res, new)
  <2> HIDE DEF cur
  <2>1. /\ asked(found) = [stale |-> asked(found).stale, checked |-> asked(found).checked, failed |-> asked(found).failed]
        /\ asked(found).checked \in Nat /\ asked(found).failed \in Nat
        /\ asked(found).checked + asked(found).failed = res.checked + res.failed + 1
        /\ asked(found).stale = IF /\ found = "found" /\ dep.range.parts # <<>>
                                   /\ Lang!IsSignificantlyBehind(cur, dep.latest)
                                THEN Append(res.stale, dep) ELSE res.stale
    BY CountedOnce
  <2> HIDE DEF new, asked
  <2>2. IsStale(lang, dep) <=> /\ found = "found" /\ dep.range.parts # <<>>
                               /\ Lang!IsSignificantlyBehind(cur, dep.latest)
    BY <1>1 DEF IsStale, cur
  <2> QED  BY <1>1, <2>1, <2>2 DEF Counts
<1>2. CASE lang = "typescript" /\ Lang!NpmSkips(dep)
  <2>1. new = res
    BY <1>2, Zenon DEF Lang!CountDep, Lang!NpmDep
  <2>2. Lang!Skipped(lang, dep) /\ ~IsStale(lang, dep)
    BY <1>2 DEF Lang!Skipped, IsStale
  <2> HIDE DEF new
  <2>3. Counts(lang, dep, res, new)
    BY <2>1, <2>2 DEF Counts
  <2> QED  BY <2>3 DEF new
<1>3. CASE lang = "typescript" /\ ~Lang!NpmSkips(dep)
  <2>1. cur = Lang!ParseVersion(dep.range)
    BY <1>3 DEF Current
  <2>2. new = asked(Lang!GetLatestVersion(dep.responses))
    BY <1>3, <2>1, Zenon DEF Lang!CountDep, Lang!NpmDep
  <2>3. ~Lang!Skipped(lang, dep)
    BY <1>3 DEF Lang!Skipped
  <2>4. Lang!Answered(lang, dep) <=> Lang!GetLatestVersion(dep.responses) = "found"
    BY <1>3, Zenon DEF Lang!Answered
  <2> HIDE DEF new, asked, cur
  <2> QED  BY <1>1, <2>2, <2>3, <2>4 DEF new
<1>4. CASE lang = "python"
  <2>1. cur = Lang!ParseVersion(dep.range)
    BY <1>4 DEF Current
  <2>2. new = asked(Lang!GetLatestPyPiVersion(dep.responses))
    BY <1>4, <2>1 DEF Lang!CountDep, Lang!PyDep
  <2>3. ~Lang!Skipped(lang, dep)
    BY <1>4 DEF Lang!Skipped
  <2>4. Lang!Answered(lang, dep) <=> Lang!GetLatestPyPiVersion(dep.responses) = "found"
    BY <1>4 DEF Lang!Answered
  <2> HIDE DEF new, asked, cur
  <2> QED  BY <1>1, <2>2, <2>3, <2>4 DEF new
<1>5. CASE lang = "go"
  <2>1. cur = dep.range
    BY <1>5 DEF Current
  <2>2. new = asked(Lang!LookupLatestGoVersion(dep.responses))
    BY <1>5, <2>1 DEF Lang!CountDep, Lang!GoDep
  <2>3. ~Lang!Skipped(lang, dep)
    BY <1>5 DEF Lang!Skipped
  <2>4. Lang!Answered(lang, dep) <=> Lang!LookupLatestGoVersion(dep.responses) = "found"
    BY <1>5 DEF Lang!Answered
  <2> HIDE DEF new, asked, cur
  <2> QED  BY <1>1, <2>2, <2>3, <2>4 DEF new
<1>6. CASE lang = "rust"
  <2>1. cur = dep.range
    BY <1>6 DEF Current
  <2>2. new = asked(Lang!LookupLatestCrateVersion(dep.responses))
    BY <1>6, <2>1 DEF Lang!CountDep, Lang!RustDep
  <2>3. ~Lang!Skipped(lang, dep)
    BY <1>6 DEF Lang!Skipped
  <2>4. Lang!Answered(lang, dep) <=> Lang!LookupLatestCrateVersion(dep.responses) = "found"
    BY <1>6 DEF Lang!Answered
  <2> HIDE DEF new, asked, cur
  <2> QED  BY <1>1, <2>2, <2>3, <2>4 DEF new
<1> QED  BY <1>2, <1>3, <1>4, <1>5, <1>6 DEF StaleKinds

\* A dependency is skipped, or counted once; a stale one is told.
LEMMA StaleStep ==
  ASSUME NEW lang \in StaleKinds, NEW s \in Seq(Dep), NEW dep \in Dep, NEW res,
         StaleInv(lang, s, res)
  PROVE  StaleInv(lang, Append(s, dep), Lang!CountDep(lang, res, dep))
<1> DEFINE t == Append(s, dep)
           n == Len(s)
           new == Lang!CountDep(lang, res, dep)
           A == {i \in 1..n : Lang!Skipped(lang, s[i])}
           B == {i \in 1..(n + 1) : Lang!Skipped(lang, t[i])}
           u == res.stale
           v == new.stale
<1>1. /\ n \in Nat /\ Len(t) = n + 1 /\ \A i \in 1..n : t[i] = s[i]
      /\ t[n + 1] = dep /\ 1..(n + 1) = (1..n) \cup {n + 1}
  BY Appended
<1>2. /\ res = [stale |-> u, checked |-> res.checked, failed |-> res.failed]
      /\ u \in Seq(Dep) /\ res.checked \in Nat /\ res.failed \in Nat
      /\ res.checked + res.failed + Cardinality(A) = n
      /\ \A d \in Dep : (\E i \in 1..Len(u) : u[i] = d)
                               <=> (\E i \in 1..n : s[i] = d) /\ IsStale(lang, d)
  BY DEF StaleInv, StaleHold
<1>3. /\ new = [stale |-> v, checked |-> new.checked, failed |-> new.failed]
      /\ new.checked \in Nat /\ new.failed \in Nat
      /\ new.checked + new.failed = res.checked + res.failed
           + (IF Lang!Skipped(lang, dep) THEN 0 ELSE 1)
      /\ v = IF IsStale(lang, dep) THEN Append(u, dep) ELSE u
  <2>1. Counts(lang, dep, res, new)
    BY <1>2, CountDepShape
  <2> HIDE DEF new
  <2> QED  BY <2>1 DEF Counts
<1> HIDE DEF new, t, n, u, v
<1>4. new.checked + new.failed + Cardinality(B) = n + 1
  <2>1. /\ A \in SUBSET (1..n) /\ B \in SUBSET (1..(n + 1))
        /\ \A i \in 1..n : i \in B <=> i \in A
        /\ n + 1 \in B <=> Lang!Skipped(lang, dep)
    BY <1>1
  <2> HIDE DEF A, B
  <2>2. Cardinality(A) \in Nat /\ Cardinality(B) = Cardinality(A) + (IF n + 1 \in B THEN 1 ELSE 0)
    BY <1>1, <2>1, CountAppend
  <2> QED  BY <1>1, <1>2, <1>3, <2>1, <2>2
<1>5. v \in Seq(Dep)
  BY <1>2, <1>3
<1>6. \A d \in Dep : (\E i \in 1..Len(v) : v[i] = d)
        <=> (\E i \in 1..Len(u) : u[i] = d) \/ (IsStale(lang, dep) /\ d = dep)
  <2>1. CASE IsStale(lang, dep)
    <3>1. /\ Len(u) \in Nat /\ Len(v) = Len(u) + 1 /\ \A i \in 1..Len(u) : v[i] = u[i]
          /\ v[Len(u) + 1] = dep /\ 1..(Len(u) + 1) = (1..Len(u)) \cup {Len(u) + 1}
      BY <1>2, <1>3, <2>1
    <3> QED  BY <2>1, <3>1
  <2>2. CASE ~IsStale(lang, dep)
    BY <1>3, <2>2
  <2> QED  BY <2>1, <2>2
<1>7. \A d \in Dep : (\E i \in 1..(n + 1) : t[i] = d) <=> (\E i \in 1..n : s[i] = d) \/ d = dep
  BY <1>1
<1>8. \A d \in Dep : (\E i \in 1..Len(v) : v[i] = d)
        <=> (\E i \in 1..(n + 1) : t[i] = d) /\ IsStale(lang, d)
  BY <1>2, <1>6, <1>7
<1>9. StaleHold(lang, t, v, new.checked, new.failed)
  BY <1>1, <1>3, <1>4, <1>5, <1>8, Zenon DEF StaleHold
<1>10. StaleInv(lang, t, new)
  BY <1>3, <1>9, Zenon DEF StaleInv, v
<1> QED  BY <1>10 DEF t, new

\* The counts and the list tell what is stale.
LEMMA StaleTold ==
  ASSUME NEW lang \in StaleKinds, NEW s \in Seq(Dep), NEW res, StaleInv(lang, s, res)
  PROVE  Lang!StaleAreTold(lang, s, res)
<1> DEFINE u == res.stale
           stale == Lang!ToSet(u)
           deps == Lang!ToSet(s)
<1>6. /\ u \in Seq(Dep)
      /\ res.checked + res.failed + Cardinality({i \in 1..Len(s) : Lang!Skipped(lang, s[i])}) = Len(s)
      /\ \A d \in Dep : (\E i \in 1..Len(u) : u[i] = d)
                               <=> (\E i \in 1..Len(s) : s[i] = d) /\ IsStale(lang, d)
  BY Zenon DEF StaleInv, StaleHold
<1> HIDE DEF u
<1>1. /\ u \in Seq(Dep) /\ DOMAIN s = 1..Len(s) /\ DOMAIN u = 1..Len(u)
      /\ \A i \in 1..Len(s) : s[i] \in Dep
  <2>1. u \in Seq(Dep)
    BY <1>6
  <2> HIDE DEF stale, deps
  <2> QED  BY <2>1
<1>7. res.checked + res.failed + Lang!Cardinality({i \in DOMAIN s : Lang!Skipped(lang, s[i])}) = Len(s)
  <2>1. {i \in DOMAIN s : Lang!Skipped(lang, s[i])} = {i \in 1..Len(s) : Lang!Skipped(lang, s[i])}
    BY <1>1
  <2>2. \A S : Lang!Cardinality(S) = Cardinality(S)
    BY DEF Cardinality, Lang!Cardinality
  <2> QED  BY <1>6, <2>1, <2>2, Zenon
<1>2. stale = {u[i] : i \in 1..Len(u)} /\ deps = {s[i] : i \in 1..Len(s)}
  BY <1>1, Zenon DEF Lang!ToSet
<1> HIDE DEF stale, deps
<1>3. \A d \in Dep : d \in stale <=> d \in deps /\ IsStale(lang, d)
  BY <1>2, <1>6
<1>4. stale \subseteq deps
  <2>1. \A d \in stale : d \in Dep
    BY <1>1, <1>2
  <2> QED  BY <1>3, <2>1
<1>5. ASSUME NEW i \in DOMAIN s,
             Lang!NaN \notin {Lang!Minor(s[i].range), Lang!Minor(s[i].latest)}
      PROVE  /\ s[i] \in stale => Lang!ClearlyStale(lang, s[i])
             /\ Lang!ClearlyStale(lang, s[i]) /\ Lang!ComparesNumbers(lang, s[i]) => s[i] \in stale
  <2>1. s[i] \in Dep /\ s[i] \in deps
    BY <1>1, <1>2
  <2>2. /\ IsStale(lang, s[i]) => Lang!ClearlyStale(lang, s[i])
        /\ Lang!ClearlyStale(lang, s[i]) /\ Lang!ComparesNumbers(lang, s[i]) => IsStale(lang, s[i])
    BY <1>5, <2>1, StaleIsClear
  <2> QED  BY <1>3, <2>1, <2>2
<1> QED  BY <1>4, <1>5, <1>7, Zenon DEF Lang!StaleAreTold, stale, deps, u

-----------------------------------------------------------------------------
(* Readers: pyproject.toml *)

Names(items) == {items[k].name : k \in DOMAIN items}

\* The array a line stands in is that of the lines above it.
LEMMA ArrayAppend ==
  ASSUME NEW s \in Seq(PyLine), NEW l \in PyLine
  PROVE  /\ \A i \in 1..(Len(s) + 1) :
              /\ Lang!InArray(Append(s, l), i) <=> Lang!InArray(s, i)
              /\ Lang!ReadAsArray(Append(s, l), i) <=> Lang!ReadAsArray(s, i)
         /\ Lang!ReadAsArray(Append(s, l), Len(s) + 2) <=>
              ~Lang!EndsArray(l) /\ (l.kind = "array" \/ Lang!ReadAsArray(s, Len(s) + 1))
<1> DEFINE t == Append(s, l)
           n == Len(s)
<1>1. /\ n \in Nat /\ \A i \in 1..n : t[i] = s[i]
      /\ t[n + 1] = l
  BY Appended
<1> HIDE DEF t, n
<1>2. ASSUME NEW i \in 1..(n + 1)
      PROVE  /\ Lang!InArray(t, i) <=> Lang!InArray(s, i)
             /\ Lang!ReadAsArray(t, i) <=> Lang!ReadAsArray(s, i)
  <2>1. i - 1 <= n /\ i \in Nat
    BY <1>1
  <2>2. \A j \in 1..(i - 1) : t[j] = s[j] /\ \A k \in j..(i - 1) : t[k] = s[k]
    BY <1>1, <2>1
  <2>3. Lang!InArray(t, i) <=> Lang!InArray(s, i)
    BY <2>2 DEF Lang!InArray
  <2>4. Lang!ReadAsArray(t, i) <=> Lang!ReadAsArray(s, i)
    BY <2>2 DEF Lang!ReadAsArray
  <2> QED  BY <2>3, <2>4
<1>3. Lang!ReadAsArray(t, n + 2) <=>
        ~Lang!EndsArray(l) /\ (l.kind = "array" \/ Lang!ReadAsArray(t, n + 1))
  <2>1. n + 2 - 1 = n + 1 /\ n + 1 - 1 = n /\ n + 1 \in 1..(n + 1)
    BY <1>1
  <2>4. Lang!ReadAsArray(t, n + 2) <=>
          \E j \in 1..(n + 1) : t[j].kind = "array" /\ \A k \in j..(n + 1) : ~Lang!EndsArray(t[k])
    BY <1>1, <2>1 DEF Lang!ReadAsArray
  <2>5. Lang!ReadAsArray(t, n + 1) <=>
          \E j \in 1..n : t[j].kind = "array" /\ \A k \in j..n : ~Lang!EndsArray(t[k])
    BY <1>1, <2>1 DEF Lang!ReadAsArray
  <2>2. ASSUME Lang!ReadAsArray(t, n + 2)
        PROVE  ~Lang!EndsArray(l) /\ (l.kind = "array" \/ Lang!ReadAsArray(t, n + 1))
    <3>1. PICK j \in 1..(n + 1) : t[j].kind = "array" /\ \A k \in j..(n + 1) : ~Lang!EndsArray(t[k])
      BY <2>2, <2>4
    <3>2. n + 1 \in j..(n + 1) /\ \A k \in j..n : k \in j..(n + 1)
      BY <1>1, <3>1
    <3>3. ~Lang!EndsArray(l)
      BY <1>1, <3>1, <3>2
    <3>4. j = n + 1 \/ j \in 1..n
      BY <1>1, <3>1
    <3>5. j \in 1..n => Lang!ReadAsArray(t, n + 1)
      BY <2>5, <3>1, <3>2
    <3> QED  BY <1>1, <3>1, <3>3, <3>4, <3>5
  <2>3. ASSUME ~Lang!EndsArray(l), l.kind = "array" \/ Lang!ReadAsArray(t, n + 1)
        PROVE  Lang!ReadAsArray(t, n + 2)
    <3>1. CASE l.kind = "array"
      <4>1. \A k \in (n + 1)..(n + 1) : ~Lang!EndsArray(t[k])
        <5>1. \A k \in (n + 1)..(n + 1) : k = n + 1
          BY <1>1
        <5> QED  BY <1>1, <2>3, <5>1
      <4> QED  BY <1>1, <2>1, <2>4, <3>1, <4>1
    <3>2. CASE Lang!ReadAsArray(t, n + 1)
      <4>1. PICK j \in 1..n : t[j].kind = "array" /\ \A k \in j..n : ~Lang!EndsArray(t[k])
        BY <2>5, <3>2
      <4>2. j \in 1..(n + 1) /\ \A k \in j..(n + 1) : k \in j..n \/ k = n + 1
        BY <1>1, <4>1
      <4>3. \A k \in j..(n + 1) : ~Lang!EndsArray(t[k])
        BY <1>1, <2>3, <4>1, <4>2
      <4> QED  BY <2>4, <4>1, <4>2, <4>3
    <3> QED  BY <2>3, <3>1, <3>2
  <2> QED  BY <2>2, <2>3
<1>4. n + 1 \in 1..(n + 1)
  BY <1>1
<1> QED  BY <1>2, <1>3, <1>4 DEF t, n

\* An extra may end an array for the parser, nothing makes it longer.
LEMMA ReadInArray ==
  ASSUME NEW s, NEW i \in Nat, Lang!ReadAsArray(s, i)
  PROVE  Lang!InArray(s, i)
<1>1. \A l : l.closes => Lang!EndsArray(l)
  BY DEF Lang!EndsArray
<1> QED  BY <1>1 DEF Lang!ReadAsArray, Lang!InArray

\* The beginning of a well-formed pyproject.toml is one.
LEMMA PyWellFormed ==
  ASSUME NEW s \in Seq(PyLine), NEW l \in PyLine, Lang!WellFormedPy(Append(s, l))
  PROVE  /\ Lang!WellFormedPy(s)
         /\ l.kind = "items" <=> Lang!InArray(s, Len(s) + 1)
         /\ l.kind = "array" => ~Lang!Below(s, Len(s) + 1, "poetry")
<1> DEFINE t == Append(s, l)
           n == Len(s)
<1>1. /\ n \in Nat /\ DOMAIN s = 1..n /\ DOMAIN t = 1..(n + 1)
      /\ \A i \in 1..n : t[i] = s[i] /\ i \in 1..(n + 1)
      /\ t[n + 1] = l /\ n + 1 \in 1..(n + 1)
  BY Appended
<1>2. \A i \in 1..(n + 1) : /\ Lang!InArray(t, i) <=> Lang!InArray(s, i)
                            /\ Lang!Below(t, i, "poetry") <=> Lang!Below(s, i, "poetry")
  BY ArrayAppend, BelowAppend
<1> HIDE DEF t, n
<1>3. \A i \in 1..(n + 1) : /\ t[i].kind = "items" <=> Lang!InArray(t, i)
                            /\ t[i].kind = "array" => ~Lang!Below(t, i, "poetry")
  BY <1>1 DEF Lang!WellFormedPy, t
<1>4. Lang!WellFormedPy(s)
  BY <1>1, <1>2, <1>3 DEF Lang!WellFormedPy
<1>5. /\ l.kind = "items" <=> Lang!InArray(s, n + 1)
      /\ l.kind = "array" => ~Lang!Below(s, n + 1, "poetry")
  BY <1>1, <1>2, <1>3
<1> QED  BY <1>4, <1>5 DEF n

\* What one more line declares.
PyListed(s, l) == l.kind = "array" \/ (l.kind = "items" /\ Lang!ReadAsArray(s, Len(s) + 1))
PyEntered(s, l) == /\ l.kind = "entry" /\ Lang!Below(s, Len(s) + 1, "poetry")
                   /\ l.name # "python" /\ l.form # "no version"

\* What one more line declares.
LEMMA PyAboveAppend ==
  ASSUME NEW s \in Seq(PyLine), NEW l \in PyLine
  PROVE  Lang!PyAboveExtras(Append(s, l)) = Lang!PyAboveExtras(s)
           \cup (IF PyListed(s, l) THEN Names(l.items) ELSE {})
           \cup (IF PyEntered(s, l) THEN {l.name} ELSE {})
<1> DEFINE t == Append(s, l)
           n == Len(s)
           A == Lang!PyArrayLines(s)
           B == Lang!PyArrayLines(t)
           C == Lang!PyEntries(s)
           D == Lang!PyEntries(t)
<1>1. /\ n \in Nat /\ DOMAIN s = 1..n /\ DOMAIN t = 1..(n + 1)
      /\ \A i \in 1..n : t[i] = s[i] /\ i \in 1..(n + 1)
      /\ t[n + 1] = l /\ n + 1 \in 1..(n + 1)
  BY Appended
<1>2. \A i \in 1..(n + 1) : /\ Lang!ReadAsArray(t, i) <=> Lang!ReadAsArray(s, i)
                            /\ Lang!Below(t, i, "poetry") <=> Lang!Below(s, i, "poetry")
  BY ArrayAppend, BelowAppend
<1> HIDE DEF t, n
<1>3. /\ A \in SUBSET (1..n) /\ B \in SUBSET (1..(n + 1)) /\ C \in SUBSET (1..n) /\ D \in SUBSET (1..(n + 1))
      /\ \A i \in 1..n : (i \in B <=> i \in A) /\ (i \in D <=> i \in C)
      /\ n + 1 \in B <=> PyListed(s, l)
      /\ n + 1 \in D <=> PyEntered(s, l)
  BY <1>1, <1>2 DEF Lang!PyArrayLines, Lang!PyEntries, PyListed, PyEntered, n
<1>4. ASSUME NEW r PROVE \A x : x \in Lang!PyAboveExtras(r) <=>
        \/ \E i \in Lang!PyArrayLines(r) : x \in Names(r[i].items)
        \/ \E i \in Lang!PyEntries(r) : x = r[i].name
  <2> DEFINE listed == UNION {{r[i].items[k].name : k \in DOMAIN r[i].items} : i \in Lang!PyArrayLines(r)}
             entered == {r[i].name : i \in Lang!PyEntries(r)}
  <2>1. \A x : x \in listed <=> \E i \in Lang!PyArrayLines(r) : x \in Names(r[i].items)
    BY DEF Names
  <2>2. \A x : x \in entered <=> \E i \in Lang!PyEntries(r) : x = r[i].name
    OBVIOUS
  <2>3. Lang!PyAboveExtras(r) = listed \cup entered
    BY Zenon DEF Lang!PyAboveExtras
  <2> HIDE DEF listed, entered
  <2> QED  BY <2>1, <2>2, <2>3
<1> HIDE DEF A, B, C, D
<1>5. B = (IF PyListed(s, l) THEN A \cup {n + 1} ELSE A) /\ D = IF PyEntered(s, l) THEN C \cup {n + 1} ELSE C
  BY <1>1, <1>3, GrowsByOne
<1>6. \A x : x \in Lang!PyAboveExtras(s) <=> (\E i \in A : x \in Names(s[i].items)) \/ \E i \in C : x = s[i].name
  BY <1>4 DEF A, C
<1>7. \A x : x \in Lang!PyAboveExtras(t) <=> (\E i \in B : x \in Names(t[i].items)) \/ \E i \in D : x = t[i].name
  BY <1>4 DEF B, D
<1>8. \A x : (\E i \in B : x \in Names(t[i].items))
             <=> (\E i \in A : x \in Names(s[i].items)) \/ (PyListed(s, l) /\ x \in Names(l.items))
  <2>1. \A i \in A : t[i] = s[i]
    BY <1>1, <1>3
  <2> QED  BY <1>1, <1>5, <2>1
<1>9. \A x : (\E i \in D : x = t[i].name)
             <=> (\E i \in C : x = s[i].name) \/ (PyEntered(s, l) /\ x = l.name)
  <2>1. \A i \in C : t[i] = s[i]
    BY <1>1, <1>3
  <2> QED  BY <1>1, <1>5, <2>1
<1>10. \A x : x \in Lang!PyAboveExtras(t) <=>
         \/ x \in Lang!PyAboveExtras(s)
         \/ PyListed(s, l) /\ x \in Names(l.items)
         \/ PyEntered(s, l) /\ x = l.name
  BY <1>6, <1>7, <1>8, <1>9, Zenon
<1> QED  BY <1>10 DEF t

\* A pyproject.toml: the mode is that of the next line, and what is declared so
\* far is in the map or in the buffer.
PyShape(st) ==
    /\ st = [mode |-> st.mode, buffer |-> st.buffer, deps |-> st.deps, unparsed |-> st.unparsed]
    /\ st.mode \in {"none", "array", "poetry"} /\ st.buffer \in Seq(PyItem)
    /\ st.mode # "array" => st.buffer = <<>>
PyKnown(st) == DOMAIN st.deps \cup Names(st.buffer)
DevSection(l) == l.kind = "section" /\ l.name = "poetry-dev"
PyHold(lines, st) == Lang!WellFormedPy(lines) =>
    /\ st.mode = "array" <=> Lang!ReadAsArray(lines, Len(lines) + 1)
    /\ st.mode = "poetry" <=> Lang!Below(lines, Len(lines) + 1, "poetry")
    /\ PyKnown(st) = Lang!PyAboveExtras(lines)
    /\ (\E i \in 1..Len(lines) : DevSection(lines[i])) <=> st.unparsed # {}
PyInv(lines, st) == PyShape(st) /\ PyHold(lines, st)

\* The names of two lists of items.
LEMMA NamesJoined ==
  ASSUME NEW u \in Seq(PyItem), NEW v \in Seq(PyItem)
  PROVE  Names(u \o v) = Names(u) \cup Names(v)
<1> DEFINE w == u \o v
<1>1. /\ Len(u) \in Nat /\ Len(v) \in Nat /\ Len(w) = Len(u) + Len(v)
      /\ DOMAIN u = 1..Len(u) /\ DOMAIN v = 1..Len(v) /\ DOMAIN w = 1..Len(w)
      /\ \A i \in 1..Len(u) : w[i] = u[i]
      /\ \A i \in 1..Len(v) : w[Len(u) + i] = v[i]
  <2>1. w \in Seq(PyItem)
    OBVIOUS
  <2> QED  BY <2>1
<1> HIDE DEF w
<1>2. \A k \in 1..Len(w) : k \in 1..Len(u) \/ (k - Len(u) \in 1..Len(v) /\ k = Len(u) + (k - Len(u)))
  BY <1>1
<1>3. \A k \in 1..Len(u) : k \in 1..Len(w)
  BY <1>1
<1>4. \A k \in 1..Len(v) : Len(u) + k \in 1..Len(w)
  BY <1>1
<1>5. Names(w) \subseteq Names(u) \cup Names(v)
  <2>1. ASSUME NEW k \in 1..Len(w) PROVE w[k].name \in Names(u) \cup Names(v)
    <3>1. CASE k \in 1..Len(u)
      BY <1>1, <3>1 DEF Names
    <3>2. CASE k - Len(u) \in 1..Len(v) /\ k = Len(u) + (k - Len(u))
      <4>1. w[k] = v[k - Len(u)]
        BY <1>1, <3>2
      <4> QED  BY <1>1, <3>2, <4>1 DEF Names
    <3> QED  BY <1>2, <3>1, <3>2
  <2> QED  BY <1>1, <2>1 DEF Names
<1>6. Names(u) \subseteq Names(w)
  <2>1. \A k \in 1..Len(u) : w[k].name = u[k].name /\ k \in DOMAIN w
    BY <1>1, <1>3
  <2> QED  BY <1>1, <2>1 DEF Names
<1>7. Names(v) \subseteq Names(w)
  <2>1. \A k \in 1..Len(v) : w[Len(u) + k].name = v[k].name /\ Len(u) + k \in DOMAIN w
    BY <1>1, <1>4
  <2> QED  BY <1>1, <2>1 DEF Names
<1>8. Names(w) = Names(u) \cup Names(v)
  BY <1>5, <1>6, <1>7
<1> QED  BY <1>8 DEF w

\* A line of an array loses none of its items.
LEMMA PyArrayGrows ==
  ASSUME NEW st, PyShape(st), NEW l \in PyLine
  PROVE  LET new == Lang!PyArrayLine(st, l) IN
         /\ PyShape(new) /\ new.mode = (IF Lang!EndsArray(l) THEN "none" ELSE "array")
         /\ PyKnown(new) = PyKnown(st) \cup Names(l.items) /\ new.unparsed = st.unparsed
<1> DEFINE new == Lang!PyArrayLine(st, l)
           b == st.buffer \o l.items
           d == Lang!FlushPep621(st.deps, b)
<1>1. l.items \in Seq(PyItem) /\ st.buffer \in Seq(PyItem)
  BY DEF PyLine, PyShape
<1>2. b \in Seq(PyItem) /\ Names(b) = Names(st.buffer) \cup Names(l.items)
  BY <1>1, NamesJoined
<1>3. DOMAIN d = DOMAIN st.deps \cup Names(b)
  BY DEF Lang!FlushPep621, Names
<1>4. new = IF Lang!EndsArray(l)
            THEN [st EXCEPT !.mode = "none", !.buffer = <<>>, !.deps = d]
            ELSE [st EXCEPT !.mode = "array", !.buffer = b]
  BY DEF Lang!PyArrayLine
<1>5. Names(<<>>) = {}
  BY DEF Names
<1> HIDE DEF new, b, d
<1>6. CASE Lang!EndsArray(l)
  <2>1. new = [mode |-> "none", buffer |-> <<>>, deps |-> d, unparsed |-> st.unparsed]
    BY <1>4, <1>6 DEF PyShape
  <2>2. new.mode = "none" /\ new.buffer = <<>> /\ new.deps = d /\ new.unparsed = st.unparsed
    BY <2>1
  <2>3. PyShape(new)
    <3>1. <<>> \in Seq(PyItem)
      OBVIOUS
    <3> QED  BY <2>1, <2>2, <3>1 DEF PyShape
  <2>4. PyKnown(new) = PyKnown(st) \cup Names(l.items)
    BY <1>2, <1>3, <1>5, <2>2 DEF PyKnown
  <2> QED  BY <1>6, <2>2, <2>3, <2>4 DEF new
<1>7. CASE ~Lang!EndsArray(l)
  <2>1. new = [mode |-> "array", buffer |-> b, deps |-> st.deps, unparsed |-> st.unparsed]
    BY <1>4, <1>7 DEF PyShape
  <2>2. new.mode = "array" /\ new.buffer = b /\ new.deps = st.deps /\ new.unparsed = st.unparsed
    BY <2>1
  <2>3. PyShape(new)
    BY <1>2, <2>1, <2>2 DEF PyShape
  <2>4. PyKnown(new) = PyKnown(st) \cup Names(l.items)
    BY <1>2, <2>2 DEF PyKnown
  <2> QED  BY <1>7, <2>2, <2>3, <2>4 DEF new
<1> QED  BY <1>6, <1>7

\* What a line adds to the map and the buffer, by the mode it is read in.
PyEffect(st, l, new) ==
    /\ PyShape(new)
    /\ new.mode = IF st.mode = "array" \/ (st.mode = "none" /\ l.kind = "array")
                  THEN IF Lang!EndsArray(l) THEN "none" ELSE "array"
                  ELSE IF l.kind = "section" THEN IF l.name = "poetry" THEN "poetry" ELSE "none"
                  ELSE st.mode
    /\ PyKnown(new) = PyKnown(st)
         \cup (IF st.mode = "array" \/ (st.mode = "none" /\ l.kind = "array") THEN Names(l.items) ELSE {})
         \cup (IF /\ st.mode = "poetry" /\ l.kind \in {"entry", "array"}
                  /\ l.name # "python" /\ l.form # "no version" THEN {l.name} ELSE {})
    /\ new.unparsed # {} <=> st.unparsed # {} \/ (st.mode # "array" /\ DevSection(l))

\* What a line does to the mode, to the names known and to what is unparsed.
LEMMA PyLineEffect ==
  ASSUME NEW st, PyShape(st), NEW l \in PyLine
  PROVE  PyEffect(st, l, Lang!PyLine(st, l))
<1> DEFINE new == Lang!PyLine(st, l)
<1>1. st.mode \in {"none", "array", "poetry"} /\ (st.mode # "array" => st.buffer = <<>>)
  BY DEF PyShape
<1>2. CASE st.mode = "array" \/ (st.mode = "none" /\ l.kind = "array")
  <2>1. new = Lang!PyArrayLine(st, l)
    BY <1>2, Zenon DEF Lang!PyLine
  <2>2. /\ PyShape(new) /\ new.mode = (IF Lang!EndsArray(l) THEN "none" ELSE "array")
        /\ PyKnown(new) = PyKnown(st) \cup Names(l.items) /\ new.unparsed = st.unparsed
    BY <2>1, PyArrayGrows
  <2>3. ~(st.mode = "poetry") /\ ~(st.mode # "array" /\ DevSection(l))
    BY <1>2 DEF DevSection
  <2> HIDE DEF new
  <2>4. PyEffect(st, l, new)
    BY <1>2, <2>2, <2>3 DEF PyEffect
  <2> QED  BY <2>4 DEF new
<1>3. CASE st.mode # "array" /\ l.kind = "section"
  <2> DEFINE m == IF l.name = "poetry" THEN "poetry" ELSE "none"
             p == IF l.name = "poetry-dev" THEN st.unparsed \cup {l.name} ELSE st.unparsed
  <2>1. new = [st EXCEPT !.mode = m, !.unparsed = p]
    <3>1. new = Lang!PySection(st, l)
      BY <1>3, Zenon DEF Lang!PyLine
    <3> QED  BY <3>1 DEF Lang!PySection
  <2>2. p # {} <=> st.unparsed # {} \/ DevSection(l)
    BY <1>3 DEF DevSection
  <2>3. m \in {"none", "poetry"}
    OBVIOUS
  <2> HIDE DEF new, m, p
  <2>4. new = [mode |-> m, buffer |-> st.buffer, deps |-> st.deps, unparsed |-> p]
    BY <2>1 DEF PyShape
  <2>5. new.mode = m /\ new.buffer = st.buffer /\ new.deps = st.deps /\ new.unparsed = p
    BY <2>4
  <2>6. PyShape(new) /\ PyKnown(new) = PyKnown(st)
    BY <1>1, <1>3, <2>3, <2>4, <2>5 DEF PyShape, PyKnown
  <2>7. PyEffect(st, l, new)
    BY <1>3, <2>2, <2>5, <2>6 DEF PyEffect, m
  <2> QED  BY <2>7 DEF new
<1>4. CASE st.mode = "poetry" /\ l.kind \in {"entry", "array"}
  <2>1. new = Lang!PyEntry(st, l)
    BY <1>4, Zenon DEF Lang!PyLine
  <2>2. CASE l.name = "python" \/ l.form = "no version"
    <3>1. new = st
      BY <2>1, <2>2 DEF Lang!PyEntry
    <3> HIDE DEF new
    <3>2. PyEffect(st, l, new)
      BY <1>4, <2>2, <3>1 DEF PyEffect, DevSection
    <3> QED  BY <3>2 DEF new
  <2>3. CASE ~(l.name = "python" \/ l.form = "no version")
    <3> DEFINE d == Lang!Put(st.deps, l.name, l.range)
    <3>1. new = [st EXCEPT !.deps = d]
      BY <2>1, <2>3 DEF Lang!PyEntry
    <3>2. DOMAIN d = DOMAIN st.deps \cup {l.name}
      BY DEF Lang!Put
    <3> HIDE DEF new, d
    <3>3. new = [mode |-> st.mode, buffer |-> st.buffer, deps |-> d, unparsed |-> st.unparsed]
      BY <3>1 DEF PyShape
    <3>4. new.mode = st.mode /\ new.buffer = st.buffer /\ new.deps = d /\ new.unparsed = st.unparsed
      BY <3>3
    <3>5. PyShape(new)
      BY <3>3, <3>4 DEF PyShape
    <3>6. PyKnown(new) = PyKnown(st) \cup {l.name}
      BY <3>2, <3>4 DEF PyKnown
    <3>7. PyEffect(st, l, new)
      BY <1>4, <2>3, <3>4, <3>5, <3>6 DEF PyEffect, DevSection
    <3> QED  BY <3>7 DEF new
  <2> QED  BY <2>2, <2>3
<1>5. CASE /\ st.mode # "array" /\ l.kind # "section" /\ ~(st.mode = "none" /\ l.kind = "array")
           /\ ~(st.mode = "poetry" /\ l.kind \in {"entry", "array"})
  <2>1. new = st
    BY <1>5, Zenon DEF Lang!PyLine
  <2> HIDE DEF new
  <2>2. PyEffect(st, l, new)
    BY <1>5, <2>1 DEF PyEffect, DevSection
  <2> QED  BY <2>2 DEF new
<1> QED  BY <1>1, <1>2, <1>3, <1>4, <1>5

\* A line of a pyproject.toml.
LEMMA PyStep ==
  ASSUME NEW s \in Seq(PyLine), NEW l \in PyLine, NEW st, PyInv(s, st)
  PROVE  PyInv(Append(s, l), Lang!PyLine(st, l))
<1> DEFINE t == Append(s, l)
           n == Len(s)
           new == Lang!PyLine(st, l)
<1>1. PyShape(st) /\ PyEffect(st, l, new)
  BY PyLineEffect DEF PyInv
<1> HIDE DEF new
<1>2. ASSUME Lang!WellFormedPy(t)
      PROVE  /\ new.mode = "array" <=> Lang!ReadAsArray(t, n + 2)
             /\ new.mode = "poetry" <=> Lang!Below(t, n + 2, "poetry")
             /\ PyKnown(new) = Lang!PyAboveExtras(t)
             /\ (\E i \in 1..(n + 1) : DevSection(t[i])) <=> new.unparsed # {}
  <2>1. /\ Lang!WellFormedPy(s)
        /\ l.kind = "items" <=> Lang!InArray(s, n + 1)
        /\ l.kind = "array" => ~Lang!Below(s, n + 1, "poetry")
    BY <1>2, PyWellFormed
  <2>2. /\ st.mode = "array" <=> Lang!ReadAsArray(s, n + 1)
        /\ st.mode = "poetry" <=> Lang!Below(s, n + 1, "poetry")
        /\ PyKnown(st) = Lang!PyAboveExtras(s)
        /\ (\E i \in 1..n : DevSection(s[i])) <=> st.unparsed # {}
    BY <2>1 DEF PyInv, PyHold
  <2>3. n \in Nat /\ n + 1 \in Nat
    BY Appended
  <2>4. st.mode = "array" => l.kind = "items"
    BY <2>1, <2>2, <2>3, ReadInArray
  <2>5. l.kind = "section" => Lang!EndsArray(l)
    BY DEF PyLine, Lang!EndsArray
  <2>6. /\ Lang!ReadAsArray(t, n + 2) <=>
             ~Lang!EndsArray(l) /\ (l.kind = "array" \/ Lang!ReadAsArray(s, n + 1))
        /\ Lang!Below(t, n + 2, "poetry") <=>
             IF l.kind = "section" THEN l.name = "poetry" ELSE Lang!Below(s, n + 1, "poetry")
    BY ArrayAppend, BelowAppend
  <2>7. Lang!PyAboveExtras(t) = Lang!PyAboveExtras(s)
          \cup (IF PyListed(s, l) THEN Names(l.items) ELSE {})
          \cup (IF PyEntered(s, l) THEN {l.name} ELSE {})
    BY PyAboveAppend
  <2>8. (\E i \in 1..(n + 1) : DevSection(t[i])) <=> (\E i \in 1..n : DevSection(s[i])) \/ DevSection(l)
    <3>1. /\ \A i \in 1..n : t[i] = s[i]
          /\ t[n + 1] = l /\ 1..(n + 1) = (1..n) \cup {n + 1}
      BY Appended
    <3> HIDE DEF t, n
    <3> QED  BY <3>1
  <2>9. st.mode \in {"none", "array", "poetry"} /\ l.kind \in {"section", "array", "items", "entry"} \cup (STRING \ {"section", "array", "items", "entry"})
    BY <1>1 DEF PyShape, PyLine
  <2> HIDE DEF t, n
  <2>10. /\ PyListed(s, l) <=> st.mode = "array" \/ (st.mode = "none" /\ l.kind = "array")
         /\ PyEntered(s, l) <=> /\ st.mode = "poetry" /\ l.kind \in {"entry", "array"}
                                /\ l.name # "python" /\ l.form # "no version"
    BY <2>1, <2>2, <2>4, <2>9 DEF PyListed, PyEntered, n
  <2>11. PyKnown(new) = Lang!PyAboveExtras(t)
    BY <1>1, <2>2, <2>7, <2>10, Zenon DEF PyEffect
  <2>12. (\E i \in 1..(n + 1) : DevSection(t[i])) <=> new.unparsed # {}
    BY <1>1, <2>2, <2>4, <2>8 DEF PyEffect, DevSection
  <2>13. new.mode = "array" <=> Lang!ReadAsArray(t, n + 2)
    BY <1>1, <2>1, <2>2, <2>4, <2>5, <2>6, <2>9 DEF PyEffect
  <2>14. new.mode = "poetry" <=> Lang!Below(t, n + 2, "poetry")
    BY <1>1, <2>1, <2>2, <2>4, <2>6, <2>9 DEF PyEffect
  <2> QED  BY <2>11, <2>12, <2>13, <2>14
<1>3. Len(t) = n + 1 /\ Len(t) + 1 = n + 2
  BY Appended
<1> HIDE DEF t, n
<1>4. PyHold(t, new)
  BY <1>2, <1>3 DEF PyHold
<1> QED  BY <1>1, <1>4 DEF PyInv, PyEffect, t, new

\* Once no array is open, the dependencies are the names known.
LEMMA PyRead ==
  ASSUME NEW s \in Seq(PyLine), NEW st, PyInv(s, st)
  PROVE  Lang!PyprojectIsRead(s, st)
<1>1. SUFFICES ASSUME Lang!WellFormedPy(s)
               PROVE  /\ ~Lang!InArray(s, Len(s) + 1) =>
                           /\ Lang!PyAboveExtras(s) \subseteq DOMAIN st.deps
                           /\ DOMAIN st.deps \subseteq Lang!PyDeclared(s)
                      /\ (\E i \in DOMAIN s : DevSection(s[i])) <=> st.unparsed # {}
  BY DEF Lang!PyprojectIsRead, DevSection
<1>2. /\ st.mode = "array" <=> Lang!ReadAsArray(s, Len(s) + 1)
      /\ PyKnown(st) = Lang!PyAboveExtras(s)
      /\ (\E i \in 1..Len(s) : DevSection(s[i])) <=> st.unparsed # {}
      /\ st.mode # "array" => st.buffer = <<>>
  BY <1>1 DEF PyInv, PyHold, PyShape
<1>3. Len(s) + 1 \in Nat /\ DOMAIN s = 1..Len(s)
  OBVIOUS
<1>4. ASSUME ~Lang!InArray(s, Len(s) + 1) PROVE DOMAIN st.deps = Lang!PyAboveExtras(s)
  <2>1. st.mode # "array"
    BY <1>2, <1>3, <1>4, ReadInArray
  <2>2. Names(st.buffer) = {}
    BY <1>2, <2>1 DEF Names
  <2> QED  BY <1>2, <2>2 DEF PyKnown
<1>5. Lang!PyAboveExtras(s) \subseteq Lang!PyDeclared(s)
  <2>1. Lang!PyArrayLines(s) \subseteq {i \in DOMAIN s : s[i].kind \in {"array", "items"}}
    BY DEF Lang!PyArrayLines
  <2> DEFINE named(i) == {s[i].items[k].name : k \in DOMAIN s[i].items}
             A == Lang!PyArrayLines(s)
             B == {i \in DOMAIN s : s[i].kind \in {"array", "items"}}
             entered == {s[i].name : i \in Lang!PyEntries(s)}
  <2>2. /\ Lang!PyAboveExtras(s) = (UNION {named(i) : i \in A}) \cup entered
        /\ Lang!PyDeclared(s) = (UNION {named(i) : i \in B}) \cup entered
    BY Zenon DEF Lang!PyAboveExtras, Lang!PyDeclared
  <2> HIDE DEF named, A, B, entered
  <2>3. A \subseteq B
    BY <2>1 DEF A, B
  <2>4. {named(i) : i \in A} \subseteq {named(i) : i \in B}
    BY <2>3
  <2>5. \A S, T, E : S \subseteq T => (UNION S) \cup E \subseteq (UNION T) \cup E
    BY Zenon
  <2> QED  BY <2>2, <2>4, <2>5, Zenon
<1> QED  BY <1>2, <1>3, <1>4, <1>5

-----------------------------------------------------------------------------
(* Readers: the answers of the model *)

AnswerLine == STRING \ {Edit!NoPath}

\* The path above a line, and the last marker above it, depend on the lines
\* above it.
LEMMA PathAppend ==
  ASSUME NEW s \in Seq(AnswerLine), NEW l \in AnswerLine, NEW p
  PROVE  /\ \A i \in 1..(Len(s) + 1) :
              Edit!PathAbove(Append(s, l), i, p) <=> Edit!PathAbove(s, i, p)
         /\ Edit!PathAbove(Append(s, l), Len(s) + 2, p) <=>
              IF l \in {"blank", "fence"} THEN Edit!PathAbove(s, Len(s) + 1, p)
              ELSE p = l /\ l \notin Edit!Markers
<1> DEFINE t == Append(s, l)
           n == Len(s)
           E == {"blank", "fence"}
           M == Edit!Markers
<1>1. /\ n \in Nat /\ \A i \in 1..n : t[i] = s[i]
      /\ t[n + 1] = l
  BY Appended
<1>2. \A r, i : Edit!PathAbove(r, i, p) <=>
        /\ p \notin M \cup E
        /\ \E j \in 1..(i - 1) : r[j] = p /\ \A k \in (j + 1)..(i - 1) : r[k] \in E
  BY DEF Edit!PathAbove
<1> HIDE DEF t, n, E, M
<1>3. ASSUME NEW i \in 1..(n + 1) PROVE Edit!PathAbove(t, i, p) <=> Edit!PathAbove(s, i, p)
  <2>1. i - 1 <= n /\ i \in Nat
    BY <1>1
  <2>2. \A j \in 1..(i - 1) : t[j] = s[j] /\ \A k \in (j + 1)..(i - 1) : t[k] = s[k]
    BY <1>1, <2>1
  <2> QED  BY <1>2, <2>2
<1>4. n + 2 - 1 = n + 1 /\ n + 1 - 1 = n /\ n + 1 \in 1..(n + 1)
  BY <1>1
<1>5. Edit!PathAbove(t, n + 2, p) <=>
        /\ p \notin M \cup E
        /\ \E j \in 1..(n + 1) : t[j] = p /\ \A k \in (j + 1)..(n + 1) : t[k] \in E
  BY <1>1, <1>4 DEF Edit!PathAbove, E, M
<1>6. Edit!PathAbove(t, n + 1, p) <=>
        /\ p \notin M \cup E
        /\ \E j \in 1..n : t[j] = p /\ \A k \in (j + 1)..n : t[k] \in E
  BY <1>1, <1>4 DEF Edit!PathAbove, E, M
<1>7. CASE l \in E
  <2>1. ASSUME Edit!PathAbove(t, n + 2, p) PROVE Edit!PathAbove(t, n + 1, p)
    <3>1. PICK j \in 1..(n + 1) : t[j] = p /\ \A k \in (j + 1)..(n + 1) : t[k] \in E
      BY <1>5, <2>1
    <3>2. p \notin M \cup E
      BY <1>5, <2>1
    <3>3. j # n + 1
      BY <1>1, <1>7, <3>1, <3>2
    <3>4. j \in 1..n /\ \A k \in (j + 1)..n : k \in (j + 1)..(n + 1)
      BY <1>1, <3>1, <3>3
    <3> QED  BY <1>6, <3>1, <3>2, <3>4
  <2>2. ASSUME Edit!PathAbove(t, n + 1, p) PROVE Edit!PathAbove(t, n + 2, p)
    <3>1. PICK j \in 1..n : t[j] = p /\ \A k \in (j + 1)..n : t[k] \in E
      BY <1>6, <2>2
    <3>2. j \in 1..(n + 1) /\ \A k \in (j + 1)..(n + 1) : k \in (j + 1)..n \/ k = n + 1
      BY <1>1, <3>1
    <3>3. \A k \in (j + 1)..(n + 1) : t[k] \in E
      BY <1>1, <1>7, <3>1, <3>2
    <3> QED  BY <1>5, <1>6, <2>2, <3>1, <3>2, <3>3
  <2> QED  BY <1>3, <1>4, <1>7, <2>1, <2>2 DEF t, n, E, M
<1>8. CASE l \notin E
  <2>1. ASSUME Edit!PathAbove(t, n + 2, p) PROVE p = l /\ l \notin M
    <3>1. PICK j \in 1..(n + 1) : t[j] = p /\ \A k \in (j + 1)..(n + 1) : t[k] \in E
      BY <1>5, <2>1
    <3>2. j = n + 1
      BY <1>1, <1>8, <3>1
    <3> QED  BY <1>1, <1>5, <2>1, <3>1, <3>2
  <2>2. ASSUME p = l, l \notin M PROVE Edit!PathAbove(t, n + 2, p)
    <3>1. \A k \in (n + 1 + 1)..(n + 1) : t[k] \in E
      BY <1>1
    <3> QED  BY <1>1, <1>4, <1>5, <1>8, <2>2, <3>1
  <2> QED  BY <1>3, <1>8, <2>1, <2>2 DEF t, n, E, M
<1> QED  BY <1>3, <1>4, <1>7, <1>8 DEF t, n, E, M

\* The last marker above the end, with one more line.
LEMMA MarkerAppend ==
  ASSUME NEW s \in Seq(AnswerLine), NEW l \in AnswerLine, NEW m \in Edit!Markers
  PROVE  /\ \A i \in 1..(Len(s) + 1) :
              Edit!MarkerAbove(Append(s, l), i, m) <=> Edit!MarkerAbove(s, i, m)
         /\ Edit!MarkerAbove(Append(s, l), Len(s) + 2, m) <=>
              IF l \in Edit!Markers THEN m = l ELSE Edit!MarkerAbove(s, Len(s) + 1, m)
<1> DEFINE t == Append(s, l)
           n == Len(s)
           M == Edit!Markers
<1>1. /\ n \in Nat /\ \A i \in 1..n : t[i] = s[i]
      /\ t[n + 1] = l
  BY Appended
<1>2. \A r, i : Edit!MarkerAbove(r, i, m) <=>
        \E j \in 1..(i - 1) : r[j] = m /\ \A k \in (j + 1)..(i - 1) : r[k] \notin M
  BY DEF Edit!MarkerAbove
<1> HIDE DEF t, n, M
<1>3. ASSUME NEW i \in 1..(n + 1) PROVE Edit!MarkerAbove(t, i, m) <=> Edit!MarkerAbove(s, i, m)
  <2>1. i - 1 <= n /\ i \in Nat
    BY <1>1
  <2>2. \A j \in 1..(i - 1) : t[j] = s[j] /\ \A k \in (j + 1)..(i - 1) : t[k] = s[k]
    BY <1>1, <2>1
  <2> QED  BY <1>2, <2>2
<1>4. n + 2 - 1 = n + 1 /\ n + 1 - 1 = n /\ n + 1 \in 1..(n + 1)
  BY <1>1
<1>5. Edit!MarkerAbove(t, n + 2, m) <=>
        \E j \in 1..(n + 1) : t[j] = m /\ \A k \in (j + 1)..(n + 1) : t[k] \notin M
  BY <1>1, <1>4 DEF Edit!MarkerAbove, M
<1>6. Edit!MarkerAbove(t, n + 1, m) <=>
        \E j \in 1..n : t[j] = m /\ \A k \in (j + 1)..n : t[k] \notin M
  BY <1>1, <1>4 DEF Edit!MarkerAbove, M
<1>7. CASE l \notin M
  <2>1. ASSUME Edit!MarkerAbove(t, n + 2, m) PROVE Edit!MarkerAbove(t, n + 1, m)
    <3>1. PICK j \in 1..(n + 1) : t[j] = m /\ \A k \in (j + 1)..(n + 1) : t[k] \notin M
      BY <1>5, <2>1
    <3>2. j # n + 1
      BY <1>1, <1>7, <3>1 DEF M
    <3>3. j \in 1..n /\ \A k \in (j + 1)..n : k \in (j + 1)..(n + 1)
      BY <1>1, <3>1, <3>2
    <3> QED  BY <1>6, <3>1, <3>3
  <2>2. ASSUME Edit!MarkerAbove(t, n + 1, m) PROVE Edit!MarkerAbove(t, n + 2, m)
    <3>1. PICK j \in 1..n : t[j] = m /\ \A k \in (j + 1)..n : t[k] \notin M
      BY <1>6, <2>2
    <3>2. j \in 1..(n + 1) /\ \A k \in (j + 1)..(n + 1) : k \in (j + 1)..n \/ k = n + 1
      BY <1>1, <3>1
    <3>3. \A k \in (j + 1)..(n + 1) : t[k] \notin M
      BY <1>1, <1>7, <3>1, <3>2
    <3> QED  BY <1>5, <3>1, <3>2, <3>3
  <2> QED  BY <1>3, <1>4, <1>7, <2>1, <2>2 DEF t, n, M
<1>8. CASE l \in M
  <2>1. ASSUME Edit!MarkerAbove(t, n + 2, m) PROVE m = l
    <3>1. PICK j \in 1..(n + 1) : t[j] = m /\ \A k \in (j + 1)..(n + 1) : t[k] \notin M
      BY <1>5, <2>1
    <3>2. j = n + 1
      BY <1>1, <1>8, <3>1
    <3> QED  BY <1>1, <3>1, <3>2
  <2>2. ASSUME m = l PROVE Edit!MarkerAbove(t, n + 2, m)
    <3>1. \A k \in (n + 1 + 1)..(n + 1) : t[k] \notin M
      BY <1>1
    <3> QED  BY <1>1, <1>4, <1>5, <2>2, <3>1
  <2> QED  BY <1>3, <1>8, <2>1, <2>2 DEF t, n, M
<1> QED  BY <1>3, <1>4, <1>7, <1>8 DEF t, n, M

\* The beginning of a well-formed answer is one.
LEMMA AnswerWellFormed ==
  ASSUME NEW s \in Seq(AnswerLine), NEW l \in AnswerLine, Edit!WellFormedAnswer(Append(s, l))
  PROVE  /\ Edit!WellFormedAnswer(s)
         /\ l = "SEARCH" => \/ Edit!MarkerAbove(s, Len(s) + 1, "REPLACE")
                            \/ \A k \in 1..Len(s) : s[k] \notin Edit!Markers
         /\ l = "DIVIDER" => Edit!MarkerAbove(s, Len(s) + 1, "SEARCH")
         /\ l = "REPLACE" => Edit!MarkerAbove(s, Len(s) + 1, "DIVIDER")
<1> DEFINE t == Append(s, l)
           n == Len(s)
           Fits(r, i) ==
             /\ r[i] = "SEARCH" => \/ Edit!MarkerAbove(r, i, "REPLACE")
                                   \/ \A k \in 1..(i - 1) : r[k] \notin Edit!Markers
             /\ r[i] = "DIVIDER" => Edit!MarkerAbove(r, i, "SEARCH")
             /\ r[i] = "REPLACE" => Edit!MarkerAbove(r, i, "DIVIDER")
<1>1. /\ n \in Nat /\ DOMAIN s = 1..n /\ DOMAIN t = 1..(n + 1)
      /\ \A i \in 1..n : t[i] = s[i] /\ i \in 1..(n + 1)
      /\ t[n + 1] = l /\ n + 1 \in 1..(n + 1) /\ n + 1 - 1 = n
  BY Appended
<1>2. \A m \in Edit!Markers : \A i \in 1..(n + 1) :
        Edit!MarkerAbove(t, i, m) <=> Edit!MarkerAbove(s, i, m)
  BY MarkerAppend
<1>3. \A i \in 1..(n + 1) : Fits(t, i)
  <2> HIDE DEF n
  <2>1. DOMAIN t = 1..(n + 1)
    BY <1>1
  <2> HIDE DEF t
  <2> QED  BY <2>1, Zenon DEF Edit!WellFormedAnswer, t
<1> HIDE DEF t, n
<1>4. {"SEARCH", "DIVIDER", "REPLACE"} \subseteq Edit!Markers
  BY DEF Edit!Markers
<1>5. \A i \in 1..n : i \in 1..(n + 1) /\ \A k \in 1..(i - 1) : k \in 1..n
  BY <1>1
<1>6. \A i \in 1..n : Fits(s, i)
  BY <1>1, <1>2, <1>3, <1>4, <1>5
<1>7. Edit!WellFormedAnswer(s)
  BY <1>1, <1>6, Zenon DEF Edit!WellFormedAnswer
<1>8. Fits(t, n + 1)
  BY <1>1, <1>3
<1> QED  BY <1>1, <1>2, <1>4, <1>7, <1>8 DEF n

Block == [path : AnswerLine, search : Seq(AnswerLine), replace : Seq(AnswerLine)]
AnswerShape(st) ==
    /\ st = [mode |-> st.mode, path |-> st.path, search |-> st.search, replace |-> st.replace,
             blocks |-> st.blocks]
    /\ st.mode \in {"outside", "search", "replace"} /\ st.path \in AnswerLine \cup {Edit!NoPath}
    /\ st.search \in Seq(AnswerLine) /\ st.replace \in Seq(AnswerLine) /\ st.blocks \in Seq(Block)

\* The blocks stand at their lines, in order, and above line i.
Stand(lines, blocks, at, i) ==
    /\ at \in [1..Len(blocks) -> 1..Len(lines)]
    /\ \A n \in 1..Len(blocks) : /\ Edit!StandsAt(lines, blocks[n], at[n])
                                 /\ Edit!EndOf(blocks[n], at[n]) < i
    /\ \A m, n \in 1..Len(blocks) : m < n => Edit!EndOf(blocks[m], at[m]) < at[n]

\* The path for a block at line i, and the block that has been opened there.
PathIs(lines, i, path) ==
    \A p : Edit!PathAbove(lines, i, p) <=> p = path /\ path # Edit!NoPath
Opened(lines, search, i) ==
    /\ i \in 1..Len(lines) /\ lines[i] = "SEARCH" /\ i + Len(search) <= Len(lines)
    /\ \A k \in 1..Len(search) : search[k] = lines[i + k] /\ search[k] # "DIVIDER"
Divided(lines, replace, j) ==
    /\ j \in 1..Len(lines) /\ lines[j] = "DIVIDER" /\ Len(lines) = j + Len(replace)
    /\ \A k \in 1..Len(replace) : replace[k] = lines[j + k] /\ replace[k] # "REPLACE"
OpenAt(lines, st, i) ==
    /\ PathIs(lines, i, st.path)
    /\ st.mode = "outside" => i = Len(lines) + 1
    /\ st.mode = "search" =>
         Opened(lines, st.search, i) /\ Len(lines) = i + Len(st.search) /\ st.replace = <<>>
    /\ st.mode = "replace" => Opened(lines, st.search, i) /\ Divided(lines, st.replace, i + Len(st.search) + 1)

\* The markers of a well-formed answer, of which every SEARCH above line i is
\* followed by a REPLACE.
Marks(lines, mode, i) ==
    /\ Edit!MarkerAbove(lines, Len(lines) + 1, "SEARCH") <=> mode = "search"
    /\ Edit!MarkerAbove(lines, Len(lines) + 1, "DIVIDER") <=> mode = "replace"
    /\ Edit!MarkerAbove(lines, Len(lines) + 1, "REPLACE") => mode = "outside"
    /\ \A k \in 1..Len(lines) :
         lines[k] = "SEARCH" /\ k # i => \E r \in k..Len(lines) : lines[r] = "REPLACE"
ReadAll(lines, blocks, at) ==
    \A k \in 1..Len(lines) : Edit!Complete(lines, k) => \E n \in 1..Len(blocks) : at[n] = k

AnswerHold(lines, st, at, i) ==
    /\ Stand(lines, st.blocks, at, i) /\ OpenAt(lines, st, i)
    /\ Edit!WellFormedAnswer(lines) => Marks(lines, st.mode, i) /\ ReadAll(lines, st.blocks, at)
AnswerInv(lines, st) == AnswerShape(st) /\ \E at, i : AnswerHold(lines, st, at, i)

\* Where the parts of a block end.
LEMMA BlockEnds ==
  ASSUME NEW b \in Block, NEW i \in Nat
  PROVE  /\ Len(b.search) \in Nat /\ Len(b.replace) \in Nat
         /\ Edit!DividerOf(b, i) = i + Len(b.search) + 1
         /\ Edit!EndOf(b, i) = i + Len(b.search) + 1 + Len(b.replace) + 1
         /\ Edit!EndOf(b, i) \in Nat
<1>1. b.search \in Seq(AnswerLine) /\ b.replace \in Seq(AnswerLine)
  BY DEF Block
<1>2. Len(b.search) \in Nat /\ Len(b.replace) \in Nat
  BY <1>1
<1>3. Edit!DividerOf(b, i) = i + Len(b.search) + 1
  BY DEF Edit!DividerOf
<1>4. Edit!EndOf(b, i) = i + Len(b.search) + 1 + Len(b.replace) + 1
  BY <1>3 DEF Edit!EndOf
<1>5. i + Len(b.search) + 1 + Len(b.replace) + 1 \in Nat
  <2> DEFINE u == Len(b.search)
             v == Len(b.replace)
  <2> HIDE DEF u, v
  <2>1. u \in Nat /\ v \in Nat
    BY <1>2 DEF u, v
  <2>2. i + u + 1 + v + 1 \in Nat
    BY <2>1
  <2> QED  BY <2>2 DEF u, v
<1> QED  BY <1>2, <1>3, <1>4, <1>5

\* A block stands where it stood.
LEMMA StandsAppend ==
  ASSUME NEW s \in Seq(AnswerLine), NEW l \in AnswerLine, NEW b \in Block, NEW i \in 1..Len(s),
         Edit!StandsAt(s, b, i)
  PROVE  Edit!StandsAt(Append(s, l), b, i)
<1> DEFINE t == Append(s, l)
           n == Len(s)
           j == Edit!DividerOf(b, i)
           e == Edit!EndOf(b, i)
<1>1. /\ n \in Nat /\ Len(t) = n + 1 /\ \A k \in 1..n : t[k] = s[k] /\ k \in 1..(n + 1)
  BY Appended
<1>2. /\ Len(b.search) \in Nat /\ Len(b.replace) \in Nat
      /\ DOMAIN b.search = 1..Len(b.search) /\ DOMAIN b.replace = 1..Len(b.replace)
  BY DEF Block
<1>3. /\ e <= n /\ s[i] = "SEARCH" /\ s[j] = "DIVIDER" /\ s[e] = "REPLACE"
      /\ \A k \in DOMAIN b.search : b.search[k] = s[i + k] /\ b.search[k] # "DIVIDER"
      /\ \A k \in DOMAIN b.replace : b.replace[k] = s[j + k] /\ b.replace[k] # "REPLACE"
      /\ Edit!PathAbove(s, i, b.path)
  BY DEF Edit!StandsAt
<1>4. j = i + Len(b.search) + 1 /\ e = j + Len(b.replace) + 1
  BY DEF Edit!DividerOf, Edit!EndOf
<1>5. i \in 1..n
  OBVIOUS
<1>6. i \in 1..(n + 1) => (Edit!PathAbove(t, i, b.path) <=> Edit!PathAbove(s, i, b.path))
  BY PathAppend
<1> HIDE DEF t, n, j, e
<1>7. /\ j \in 1..n /\ e \in 1..n
      /\ \A k \in DOMAIN b.search : i + k \in 1..n
      /\ \A k \in DOMAIN b.replace : j + k \in 1..n
  <2> DEFINE u == Len(b.search)
             v == Len(b.replace)
  <2>1. /\ u \in Nat /\ v \in Nat /\ DOMAIN b.search = 1..u /\ DOMAIN b.replace = 1..v
        /\ j = i + u + 1 /\ e = j + v + 1 /\ e <= n /\ n \in Nat /\ i \in 1..n
    BY <1>1, <1>2, <1>3, <1>4, <1>5
  <2> HIDE DEF u, v
  <2>2. j \in 1..n /\ e \in 1..n
    BY <2>1
  <2>3. \A k \in 1..u : i + k \in 1..n
    BY <2>1
  <2>4. \A k \in 1..v : j + k \in 1..n
    BY <2>1
  <2> QED  BY <2>1, <2>2, <2>3, <2>4
<1>8. /\ e <= Len(t) /\ t[i] = "SEARCH" /\ t[j] = "DIVIDER" /\ t[e] = "REPLACE"
      /\ \A k \in DOMAIN b.search : b.search[k] = t[i + k] /\ b.search[k] # "DIVIDER"
      /\ \A k \in DOMAIN b.replace : b.replace[k] = t[j + k] /\ b.replace[k] # "REPLACE"
      /\ Edit!PathAbove(t, i, b.path)
  BY <1>1, <1>3, <1>5, <1>6, <1>7
<1> QED  BY <1>8 DEF Edit!StandsAt, t, j, e

\* Blocks stand where they stood.
LEMMA StandAppend ==
  ASSUME NEW s \in Seq(AnswerLine), NEW l \in AnswerLine, NEW blocks \in Seq(Block), NEW at,
         NEW i \in Nat, Stand(s, blocks, at, i), NEW h \in Nat, i <= h
  PROVE  Stand(Append(s, l), blocks, at, h)
<1> DEFINE t == Append(s, l)
           m == Len(blocks)
<1>1. Len(s) \in Nat /\ Len(t) = Len(s) + 1
  BY Appended
<1>2. /\ at \in [1..m -> 1..Len(s)]
      /\ \A n \in 1..m : blocks[n] \in Block /\ at[n] \in 1..Len(s)
      /\ \A n \in 1..m : Edit!StandsAt(s, blocks[n], at[n]) /\ Edit!EndOf(blocks[n], at[n]) < i
      /\ \A k, n \in 1..m : k < n => Edit!EndOf(blocks[k], at[k]) < at[n]
  BY DEF Stand
<1> HIDE DEF m
<1>3. \A n \in 1..m : Edit!StandsAt(t, blocks[n], at[n])
  BY <1>2, StandsAppend
<1> HIDE DEF t
<1>4. at \in [1..m -> 1..Len(t)]
  <2>1. 1..Len(s) \subseteq 1..Len(t)
    BY <1>1
  <2> QED  BY <1>2, <2>1
<1>5. \A n \in 1..m : Edit!EndOf(blocks[n], at[n]) < h
  <2>1. \A n \in 1..m : Edit!EndOf(blocks[n], at[n]) \in Nat
    <3>1. \A n \in 1..m : blocks[n] \in Block /\ at[n] \in Nat
      BY <1>1, <1>2
    <3> QED  BY <3>1, BlockEnds
  <2> QED  BY <1>2, <2>1
<1> QED  BY <1>2, <1>3, <1>4, <1>5 DEF Stand, t, m

\* In a well-formed answer the markers come in turn.
LEMMA MarksStep ==
  ASSUME NEW s \in Seq(AnswerLine), NEW l \in AnswerLine, NEW mode \in {"outside", "search", "replace"},
         NEW i \in Nat, Marks(s, mode, i), Edit!WellFormedAnswer(Append(s, l)), NEW h
  PROVE  /\ l = "SEARCH" => mode = "outside" /\ (i = Len(s) + 1 /\ h = i => Marks(Append(s, l), "search", h))
         /\ l = "DIVIDER" => mode = "search" /\ (h = i => Marks(Append(s, l), "replace", h))
         /\ l = "REPLACE" => mode = "replace" /\ (h = Len(s) + 2 => Marks(Append(s, l), "outside", h))
         /\ l \notin Edit!Markers /\ (h = i \/ (i = Len(s) + 1 /\ h = Len(s) + 2))
              => Marks(Append(s, l), mode, h)
<1> DEFINE t == Append(s, l)
           n == Len(s)
           Above(m) == Edit!MarkerAbove(s, n + 1, m)
           Next(m) == Edit!MarkerAbove(t, n + 2, m)
           M == {"SEARCH", "DIVIDER", "REPLACE"}
<1>1. /\ n \in Nat /\ Len(t) = n + 1 /\ Len(t) + 1 = n + 2 /\ \A k \in 1..n : t[k] = s[k]
      /\ t[n + 1] = l /\ 1..(n + 1) = (1..n) \cup {n + 1}
      /\ \A k \in 1..n : \A r \in k..n : r \in k..(n + 1) /\ r \in 1..n
      /\ \A k \in 1..(n + 1) : n + 1 \in k..(n + 1)
      /\ n + 1 \notin 1..n /\ n + 2 \notin 1..(n + 1)
  BY Appended
<1>2. \A m \in M : Next(m) <=> IF l \in M THEN m = l ELSE Above(m)
  BY MarkerAppend DEF Edit!Markers
<1>3. /\ l = "SEARCH" => Above("REPLACE") \/ \A k \in 1..n : s[k] \notin M
      /\ l = "DIVIDER" => Above("SEARCH")
      /\ l = "REPLACE" => Above("DIVIDER")
  BY AnswerWellFormed DEF Edit!Markers
<1>4. ASSUME NEW m \in M, Above(m) PROVE \E k \in 1..n : s[k] \in M
  BY <1>1, <1>4 DEF Edit!MarkerAbove
<1>5. /\ Above("SEARCH") <=> mode = "search"
      /\ Above("DIVIDER") <=> mode = "replace"
      /\ Above("REPLACE") => mode = "outside"
      /\ \A k \in 1..n : s[k] = "SEARCH" /\ k # i => \E r \in k..n : s[r] = "REPLACE"
  BY DEF Marks
<1>6. \A v, j : Marks(t, v, j) <=>
        /\ Next("SEARCH") <=> v = "search"
        /\ Next("DIVIDER") <=> v = "replace"
        /\ Next("REPLACE") => v = "outside"
        /\ \A k \in 1..(n + 1) : t[k] = "SEARCH" /\ k # j => \E r \in k..(n + 1) : t[r] = "REPLACE"
  BY <1>1 DEF Marks
<1> HIDE DEF t, n, Above, Next
<1>7. \A k \in 1..n : t[k] = "SEARCH" /\ k # i => \E r \in k..(n + 1) : t[r] = "REPLACE"
  BY <1>1, <1>5
<1>8. CASE l = "SEARCH"
  <2>1. mode = "outside"
    BY <1>3, <1>4, <1>5, <1>8
  <2>2. ASSUME i = n + 1, h = i PROVE Marks(t, "search", h)
    <3>1. \A k \in 1..(n + 1) : t[k] = "SEARCH" /\ k # h => \E r \in k..(n + 1) : t[r] = "REPLACE"
      BY <1>1, <1>7, <2>2
    <3>2. Next("SEARCH") /\ ~Next("DIVIDER") /\ ~Next("REPLACE")
      BY <1>2, <1>8
    <3> QED  BY <1>6, <3>1, <3>2
  <2> QED  BY <1>8, <2>1, <2>2 DEF t, n, Edit!Markers
<1>9. CASE l = "DIVIDER"
  <2>1. mode = "search"
    BY <1>3, <1>5, <1>9
  <2>2. ASSUME h = i PROVE Marks(t, "replace", h)
    <3>1. \A k \in 1..(n + 1) : t[k] = "SEARCH" /\ k # h => \E r \in k..(n + 1) : t[r] = "REPLACE"
      BY <1>1, <1>7, <1>9, <2>2
    <3>2. ~Next("SEARCH") /\ Next("DIVIDER") /\ ~Next("REPLACE")
      BY <1>2, <1>9
    <3> QED  BY <1>6, <3>1, <3>2
  <2> QED  BY <1>9, <2>1, <2>2 DEF t, n, Edit!Markers
<1>10. CASE l = "REPLACE"
  <2>1. mode = "replace"
    BY <1>3, <1>5, <1>10
  <2>2. ASSUME h = n + 2 PROVE Marks(t, "outside", h)
    <3>1. \A k \in 1..(n + 1) : \E r \in k..(n + 1) : t[r] = "REPLACE"
      BY <1>1, <1>10
    <3>2. ~Next("SEARCH") /\ ~Next("DIVIDER") /\ Next("REPLACE")
      BY <1>2, <1>10
    <3> QED  BY <1>6, <3>1, <3>2
  <2> QED  BY <1>10, <2>1, <2>2 DEF t, n, Edit!Markers
<1>11. CASE l \notin M
  <2>1. ASSUME h = i \/ (i = n + 1 /\ h = n + 2) PROVE Marks(t, mode, h)
    <3>1. \A k \in 1..(n + 1) : t[k] = "SEARCH" => k \in 1..n
      BY <1>1, <1>11
    <3>2. \A k \in 1..n : k # h => k # i
      BY <1>1, <2>1
    <3>3. \A k \in 1..(n + 1) : t[k] = "SEARCH" /\ k # h => \E r \in k..(n + 1) : t[r] = "REPLACE"
      BY <1>7, <3>1, <3>2
    <3> QED  BY <1>2, <1>5, <1>6, <1>11, <3>3
  <2> QED  BY <1>11, <2>1 DEF t, n, Edit!Markers
<1> QED  BY <1>8, <1>9, <1>10, <1>11

\* Which blocks of the answer are complete with one more line.
LEMMA CompleteAppend ==
  ASSUME NEW s \in Seq(AnswerLine), NEW l \in AnswerLine, NEW k \in 1..(Len(s) + 1),
         Edit!Complete(Append(s, l), k)
  PROVE  /\ k \in 1..Len(s) /\ s[k] = "SEARCH" /\ \E p \in AnswerLine : Edit!PathAbove(s, k, p)
         /\ Edit!Complete(s, k) \/ (l = "REPLACE" /\ \A r \in k..Len(s) : s[r] # "REPLACE")
<1> DEFINE t == Append(s, l)
           n == Len(s)
<1>1. /\ n \in Nat /\ Len(t) = n + 1 /\ \A r \in 1..n : t[r] = s[r] /\ s[r] \in AnswerLine
      /\ t[n + 1] = l
  BY Appended
<1>2. \A p : Edit!PathAbove(t, k, p) <=> Edit!PathAbove(s, k, p)
  BY PathAppend
<1> HIDE DEF t, n
<1>3. /\ t[k] = "SEARCH" /\ \E p \in {t[r] : r \in 1..(k - 1)} : Edit!PathAbove(t, k, p)
      /\ \E r \in k..(n + 1) : t[r] = "REPLACE"
  BY <1>1 DEF Edit!Complete, t
<1>4. k \in 1..n
  <2>1. k # n + 1
    <3>1. \A r \in (n + 1)..(n + 1) : r = n + 1
      BY <1>1
    <3> QED  BY <1>3, <3>1
  <2> QED  BY <1>1, <2>1 DEF n
<1>5. \A r \in 1..(k - 1) : r \in 1..n
  BY <1>1, <1>4
<1>6. \E p \in {s[r] : r \in 1..(k - 1)} : Edit!PathAbove(s, k, p)
  <2>1. {t[r] : r \in 1..(k - 1)} = {s[r] : r \in 1..(k - 1)}
    BY <1>1, <1>5
  <2> QED  BY <1>2, <1>3, <2>1
<1>7. s[k] = "SEARCH"
  BY <1>1, <1>3, <1>4
<1>8. \E p \in AnswerLine : Edit!PathAbove(s, k, p)
  BY <1>1, <1>5, <1>6
<1>9. ASSUME ~(l = "REPLACE" /\ \A r \in k..n : s[r] # "REPLACE") PROVE Edit!Complete(s, k)
  <2>1. \E r \in k..n : s[r] = "REPLACE"
    <3>1. PICK r \in k..(n + 1) : t[r] = "REPLACE"
      BY <1>3
    <3>2. r \in k..n \/ r = n + 1
      BY <1>1, <1>4
    <3>3. r \in k..n => s[r] = "REPLACE"
      BY <1>1, <1>4, <3>1
    <3> QED  BY <1>1, <1>9, <3>1, <3>2, <3>3
  <2> QED  BY <1>6, <1>7, <2>1 DEF Edit!Complete, n
<1> QED  BY <1>4, <1>7, <1>8, <1>9 DEF n

\* Only a REPLACE completes a block.
LEMMA ReadAllAppend ==
  ASSUME NEW s \in Seq(AnswerLine), NEW l \in AnswerLine, l # "REPLACE", NEW blocks, NEW at,
         ReadAll(s, blocks, at)
  PROVE  ReadAll(Append(s, l), blocks, at)
<1> DEFINE t == Append(s, l)
<1>1. Len(t) = Len(s) + 1
  BY Appended
<1>2. ASSUME NEW k \in 1..Len(t), Edit!Complete(t, k) PROVE \E n \in 1..Len(blocks) : at[n] = k
  <2>1. k \in 1..Len(s) /\ Edit!Complete(s, k)
    BY <1>1, <1>2, CompleteAppend
  <2> QED  BY <2>1 DEF ReadAll
<1> QED  BY <1>2 DEF ReadAll

\* The path above a line does not change with the lines below it.
LEMMA PathKept ==
  ASSUME NEW s \in Seq(AnswerLine), NEW l \in AnswerLine, NEW i \in 1..(Len(s) + 1), NEW path,
         PathIs(s, i, path)
  PROVE  PathIs(Append(s, l), i, path)
BY PathAppend DEF PathIs

\* The path above the end is the last line that counts.
LEMMA PathMoves ==
  ASSUME NEW s \in Seq(AnswerLine), NEW l \in AnswerLine, NEW path, NEW new,
         \/ l \in {"blank", "fence"} /\ new = path /\ PathIs(s, Len(s) + 1, path)
         \/ l \in Edit!Markers /\ new = Edit!NoPath
         \/ l \notin {"blank", "fence"} \cup Edit!Markers /\ new = l
  PROVE  PathIs(Append(s, l), Len(s) + 2, new)
<1>1. \A p : Edit!PathAbove(Append(s, l), Len(s) + 2, p) <=>
        IF l \in {"blank", "fence"} THEN Edit!PathAbove(s, Len(s) + 1, p)
        ELSE p = l /\ l \notin Edit!Markers
  BY PathAppend
<1>2. l \in Edit!Markers => l \notin {"blank", "fence"}
  BY DEF Edit!Markers
<1>3. l # Edit!NoPath
  BY DEF AnswerLine
<1> DEFINE t == Append(s, l)
           n == Len(s)
<1> HIDE DEF t, n
<1>4. CASE l \in {"blank", "fence"} /\ new = path /\ PathIs(s, Len(s) + 1, path)
  BY <1>1, <1>4 DEF PathIs
<1>5. CASE l \in Edit!Markers /\ new = Edit!NoPath
  BY <1>1, <1>2, <1>5 DEF PathIs
<1>6. CASE l \notin {"blank", "fence"} \cup Edit!Markers /\ new = l
  BY <1>1, <1>3, <1>6 DEF PathIs
<1> QED  BY <1>4, <1>5, <1>6

\* A line more in the search of the open block.
LEMMA OpenedAppend ==
  ASSUME NEW s \in Seq(AnswerLine), NEW l \in AnswerLine, NEW search \in Seq(AnswerLine), NEW i,
         Opened(s, search, i)
  PROVE  /\ Opened(Append(s, l), search, i)
         /\ Len(s) = i + Len(search) /\ l # "DIVIDER" =>
              /\ Opened(Append(s, l), Append(search, l), i)
              /\ Len(s) + 1 = i + Len(Append(search, l))
<1> DEFINE t == Append(s, l)
           n == Len(s)
           u == Len(search)
           x == Append(search, l)
<1>1. /\ n \in Nat /\ Len(t) = n + 1 /\ \A k \in 1..n : t[k] = s[k]
      /\ t[n + 1] = l
  BY Appended
<1>2. /\ u \in Nat /\ Len(x) = u + 1 /\ \A k \in 1..u : x[k] = search[k]
      /\ x[u + 1] = l
  BY Appended
<1>3. /\ i \in 1..n /\ s[i] = "SEARCH" /\ i + u <= n
      /\ \A k \in 1..u : search[k] = s[i + k] /\ search[k] # "DIVIDER"
  BY DEF Opened
<1> HIDE DEF t, n, u, x
<1>4. i \in 1..(n + 1) /\ i + u <= n + 1 /\ \A k \in 1..u : i + k \in 1..n
  BY <1>1, <1>2, <1>3
<1>5. t[i] = "SEARCH" /\ \A k \in 1..u : search[k] = t[i + k]
  BY <1>1, <1>3, <1>4
<1>6. Opened(t, search, i)
  BY <1>1, <1>3, <1>4, <1>5 DEF Opened, u
<1>7. ASSUME n = i + u, l # "DIVIDER" PROVE Opened(t, x, i) /\ n + 1 = i + Len(x)
  <2>1. n + 1 = i + Len(x) /\ i + (u + 1) = n + 1 /\ 1..(u + 1) = (1..u) \cup {u + 1}
    <3>1. 1..(u + 1) = (1..u) \cup {u + 1}
      BY <1>2
    <3>2. i \in Nat /\ u \in Nat /\ n = i + u
      BY <1>2, <1>3, <1>7
    <3>3. i + (u + 1) = n + 1
      BY <3>2
    <3> QED  BY <1>2, <3>1, <3>3
  <2>2. \A k \in 1..u : x[k] = t[i + k] /\ x[k] # "DIVIDER"
    BY <1>2, <1>3, <1>5
  <2>3. x[u + 1] = t[i + (u + 1)] /\ x[u + 1] # "DIVIDER"
    BY <1>1, <1>2, <1>7, <2>1
  <2>4. \A k \in 1..(u + 1) : x[k] = t[i + k] /\ x[k] # "DIVIDER"
    BY <2>1, <2>2, <2>3
  <2>5. i + Len(x) <= n + 1
    BY <1>1, <2>1
  <2> QED  BY <1>1, <1>2, <1>4, <1>5, <2>1, <2>4, <2>5 DEF Opened
<1> QED  BY <1>6, <1>7 DEF t, n, u, x

\* A line more in its replacement.
LEMMA DividedAppend ==
  ASSUME NEW s \in Seq(AnswerLine), NEW l \in AnswerLine, NEW replace \in Seq(AnswerLine), NEW j,
         Divided(s, replace, j), l # "REPLACE"
  PROVE  Divided(Append(s, l), Append(replace, l), j)
<1> DEFINE t == Append(s, l)
           n == Len(s)
           u == Len(replace)
           x == Append(replace, l)
<1>1. /\ n \in Nat /\ Len(t) = n + 1 /\ \A k \in 1..n : t[k] = s[k]
      /\ t[n + 1] = l
  BY Appended
<1>2. /\ u \in Nat /\ Len(x) = u + 1 /\ \A k \in 1..u : x[k] = replace[k]
      /\ x[u + 1] = l
  BY Appended
<1>3. /\ j \in 1..n /\ s[j] = "DIVIDER" /\ n = j + u
      /\ \A k \in 1..u : replace[k] = s[j + k] /\ replace[k] # "REPLACE"
  BY DEF Divided
<1> HIDE DEF t, n, u, x
<1>4. /\ j \in 1..(n + 1) /\ \A k \in 1..u : j + k \in 1..n
      /\ n + 1 = j + (u + 1) /\ 1..(u + 1) = (1..u) \cup {u + 1}
  BY <1>1, <1>2, <1>3
<1>5. t[j] = "DIVIDER" /\ \A k \in 1..u : x[k] = t[j + k] /\ x[k] # "REPLACE"
  BY <1>1, <1>2, <1>3, <1>4
<1>6. x[u + 1] = t[j + (u + 1)] /\ x[u + 1] # "REPLACE"
  BY <1>1, <1>2, <1>4
<1>7. \A k \in 1..(u + 1) : x[k] = t[j + k] /\ x[k] # "REPLACE"
  BY <1>4, <1>5, <1>6
<1> QED  BY <1>1, <1>2, <1>4, <1>5, <1>7 DEF Divided, t, x

\* A line outside a block, the line that opens one, and the lines of its parts
\* leave the blocks as they are.
LEMMA LineOutside ==
  ASSUME NEW s \in Seq(AnswerLine), NEW l \in AnswerLine, NEW st, AnswerShape(st), st.mode = "outside",
         NEW at, NEW i, AnswerHold(s, st, at, i)
  PROVE  LET new == Edit!ParseLine(st, l) IN
         AnswerShape(new) /\ \E h : AnswerHold(Append(s, l), new, at, h)
<1> DEFINE t == Append(s, l)
           n == Len(s)
           new == Edit!ParseLine(st, l)
<1>1. /\ Stand(s, st.blocks, at, i) /\ PathIs(s, i, st.path) /\ i = n + 1
      /\ Edit!WellFormedAnswer(s) => Marks(s, st.mode, i) /\ ReadAll(s, st.blocks, at)
  BY DEF AnswerHold, OpenAt
<1>2. n \in Nat /\ Len(t) = n + 1 /\ t[n + 1] = l
  BY Appended
<1>3. new = Edit!ParseOutside(st, l)
  BY DEF Edit!ParseLine
<1>4. Edit!WellFormedAnswer(t) => Edit!WellFormedAnswer(s)
  BY AnswerWellFormed
<1>5. st.mode \in {"outside", "search", "replace"} /\ i \in Nat /\ i \in 1..(n + 1) /\ st.blocks \in Seq(Block)
  BY <1>1, <1>2 DEF AnswerShape
<1>6. CASE l = "SEARCH"
  <2>1. new = [st EXCEPT !.mode = "search", !.search = <<>>, !.replace = <<>>]
    BY <1>3, <1>6, Zenon DEF Edit!ParseOutside
  <2> HIDE DEF new
  <2>2. new = [mode |-> "search", path |-> st.path, search |-> <<>>, replace |-> <<>>, blocks |-> st.blocks]
    BY <2>1 DEF AnswerShape
  <2>3. /\ new.mode = "search" /\ new.path = st.path /\ new.search = <<>> /\ new.replace = <<>>
        /\ new.blocks = st.blocks
    BY <2>2
  <2>4. AnswerShape(new)
    BY <2>2, <2>3 DEF AnswerShape
  <2>5. Stand(t, st.blocks, at, i)
    BY <1>1, <1>5, StandAppend
  <2>6. PathIs(t, i, st.path)
    BY <1>1, <1>5, PathKept
  <2>7. Opened(t, <<>>, i) /\ Len(t) = i + Len(<<>>)
    <3> HIDE DEF t, n
    <3>1. Len(<<>>) = 0
      OBVIOUS
    <3>2. i \in 1..Len(t) /\ t[i] = "SEARCH" /\ i + 0 <= Len(t) /\ Len(t) = i + 0 /\ 1..0 = {}
      BY <1>1, <1>2, <1>6
    <3> QED  BY <3>1, <3>2 DEF Opened
  <2>8. ASSUME Edit!WellFormedAnswer(t) PROVE Marks(t, "search", i) /\ ReadAll(t, st.blocks, at)
    <3>1. ReadAll(t, st.blocks, at)
      BY <1>1, <1>4, <1>6, <2>8, ReadAllAppend
    <3>2. Marks(t, "search", i)
      BY <1>1, <1>4, <1>5, <1>6, <2>8, MarksStep
    <3> QED  BY <3>1, <3>2
  <2> HIDE DEF t, n
  <2>9. AnswerHold(t, new, at, i)
    BY <2>3, <2>5, <2>6, <2>7, <2>8 DEF AnswerHold, OpenAt
  <2> QED  BY <2>4, <2>9 DEF t, new
<1>7. CASE l # "SEARCH"
  <2> DEFINE p == IF l \in {"blank", "fence"} THEN st.path
                  ELSE IF l \in Edit!Markers THEN Edit!NoPath ELSE l
             h == n + 2
  <2>1. new = [st EXCEPT !.path = p]
    <3>1. CASE l \in {"blank", "fence"}
      <4>1. l \notin Edit!Markers
        BY <3>1 DEF Edit!Markers
      <4>2. new = st
        BY <1>3, <1>7, <3>1, <4>1, Zenon DEF Edit!ParseOutside
      <4> HIDE DEF new
      <4> QED  BY <3>1, <4>2 DEF AnswerShape
    <3>2. CASE l \notin {"blank", "fence"} /\ l \in Edit!Markers
      <4>1. l \in Edit!Markers \ {"SEARCH"}
        BY <1>7, <3>2
      <4> QED  BY <1>3, <1>7, <3>2, <4>1, Zenon DEF Edit!ParseOutside
    <3>3. CASE l \notin {"blank", "fence"} /\ l \notin Edit!Markers
      <4>1. l \notin Edit!Markers \ {"SEARCH"}
        BY <3>3
      <4> QED  BY <1>3, <1>7, <3>3, <4>1, Zenon DEF Edit!ParseOutside
    <3> QED  BY <3>1, <3>2, <3>3
  <2>2. p \in AnswerLine \cup {Edit!NoPath}
    BY DEF AnswerShape
  <2>3. PathIs(t, h, p)
    BY <1>1, PathMoves
  <2> HIDE DEF new, p
  <2>4. new = [mode |-> "outside", path |-> p, search |-> st.search, replace |-> st.replace, blocks |-> st.blocks]
    BY <2>1 DEF AnswerShape
  <2>5. /\ new.mode = "outside" /\ new.path = p /\ new.search = st.search /\ new.replace = st.replace
        /\ new.blocks = st.blocks
    BY <2>4
  <2>6. AnswerShape(new)
    BY <2>2, <2>4, <2>5 DEF AnswerShape
  <2>7. Stand(t, st.blocks, at, h)
    <3>1. h \in Nat /\ i <= h
      BY <1>1, <1>2
    <3> HIDE DEF h
    <3> QED  BY <1>1, <1>5, <3>1, StandAppend
  <2>8. ASSUME Edit!WellFormedAnswer(t) PROVE Marks(t, "outside", h) /\ ReadAll(t, st.blocks, at)
    <3>1. /\ l = "DIVIDER" => st.mode = "search"
          /\ l = "REPLACE" => st.mode = "replace"
          /\ l \notin Edit!Markers /\ (h = i \/ (i = Len(s) + 1 /\ h = Len(s) + 2))
               => Marks(t, st.mode, h)
      BY <1>1, <1>4, <1>5, <2>8, MarksStep
    <3>2. l \notin Edit!Markers /\ l # "REPLACE"
      BY <1>7, <3>1 DEF Edit!Markers
    <3>3. ReadAll(t, st.blocks, at)
      BY <1>1, <1>4, <2>8, <3>2, ReadAllAppend
    <3> QED  BY <1>1, <3>1, <3>2, <3>3
  <2>9. h = Len(t) + 1
    BY <1>2
  <2> HIDE DEF t, n, h
  <2>10. AnswerHold(t, new, at, h)
    BY <2>3, <2>5, <2>7, <2>8, <2>9 DEF AnswerHold, OpenAt
  <2> QED  BY <2>6, <2>10 DEF t, new
<1> QED  BY <1>6, <1>7

\* A line of the search; a DIVIDER ends it.
LEMMA LineOfSearch ==
  ASSUME NEW s \in Seq(AnswerLine), NEW l \in AnswerLine, NEW st, AnswerShape(st), st.mode = "search",
         NEW at, NEW i, AnswerHold(s, st, at, i)
  PROVE  LET new == Edit!ParseLine(st, l) IN
         AnswerShape(new) /\ AnswerHold(Append(s, l), new, at, i)
<1> DEFINE t == Append(s, l)
           n == Len(s)
           new == Edit!ParseLine(st, l)
           x == st.search
<1>1. /\ Stand(s, st.blocks, at, i) /\ PathIs(s, i, st.path)
      /\ Opened(s, x, i) /\ n = i + Len(x) /\ st.replace = <<>>
      /\ Edit!WellFormedAnswer(s) => Marks(s, st.mode, i) /\ ReadAll(s, st.blocks, at)
  BY DEF AnswerHold, OpenAt
<1>2. n \in Nat /\ Len(t) = n + 1 /\ t[n + 1] = l
  BY Appended
<1>3. new = Edit!ParseSearch(st, l)
  BY DEF Edit!ParseLine
<1>4. Edit!WellFormedAnswer(t) => Edit!WellFormedAnswer(s)
  BY AnswerWellFormed
<1>5. st.mode \in {"outside", "search", "replace"} /\ st.blocks \in Seq(Block) /\ x \in Seq(AnswerLine)
  BY DEF AnswerShape
<1>6. i \in Nat /\ i \in 1..n /\ i \in 1..(n + 1) /\ Len(x) \in Nat
  <2>1. Len(x) \in Nat
    BY <1>5
  <2> HIDE DEF n, x
  <2>2. i \in 1..n
    BY <1>1 DEF Opened, n
  <2> QED  BY <1>2, <2>1, <2>2
<1>7. Stand(t, st.blocks, at, i)
  BY <1>1, <1>5, <1>6, StandAppend
<1>8. PathIs(t, i, st.path)
  BY <1>1, <1>6, PathKept
<1>9. Edit!WellFormedAnswer(t) => l # "REPLACE" /\ ReadAll(t, st.blocks, at)
  <2>1. Edit!WellFormedAnswer(t) => l # "REPLACE"
    BY <1>1, <1>4, <1>5, <1>6, MarksStep
  <2> QED  BY <1>1, <1>4, <2>1, ReadAllAppend
<1>10. CASE l = "DIVIDER"
  <2>1. new = [st EXCEPT !.mode = "replace"]
    BY <1>3, <1>10 DEF Edit!ParseSearch
  <2> HIDE DEF new
  <2>2. new = [mode |-> "replace", path |-> st.path, search |-> x, replace |-> <<>>, blocks |-> st.blocks]
    BY <1>1, <2>1 DEF AnswerShape
  <2>3. /\ new.mode = "replace" /\ new.path = st.path /\ new.search = x /\ new.replace = <<>>
        /\ new.blocks = st.blocks
    BY <2>2
  <2>4. AnswerShape(new)
    BY <2>2, <2>3 DEF AnswerShape
  <2>5. Opened(t, x, i)
    BY <1>1, <1>5, OpenedAppend
  <2>6. Divided(t, <<>>, i + Len(x) + 1)
    <3>1. Len(<<>>) = 0 /\ <<>> \in Seq(AnswerLine)
      OBVIOUS
    <3>2. i + Len(x) + 1 = n + 1 /\ n + 1 \in 1..Len(t) /\ Len(t) = n + 1 + 0 /\ 1..0 = {}
      BY <1>1, <1>2, <1>6
    <3> HIDE DEF t, n, x
    <3>3. Divided(t, <<>>, n + 1)
      BY <1>2, <1>10, <3>1, <3>2 DEF Divided
    <3> QED  BY <3>2, <3>3
  <2>7. Edit!WellFormedAnswer(t) => Marks(t, "replace", i)
    BY <1>1, <1>4, <1>5, <1>6, <1>10, MarksStep
  <2> HIDE DEF t, n, x
  <2>8. AnswerHold(t, new, at, i)
    BY <1>7, <1>8, <1>9, <2>3, <2>5, <2>6, <2>7 DEF AnswerHold, OpenAt
  <2> QED  BY <2>4, <2>8 DEF t, new
<1>11. CASE l # "DIVIDER"
  <2> DEFINE y == Append(x, l)
  <2>1. new = [st EXCEPT !.search = y]
    BY <1>3, <1>11 DEF Edit!ParseSearch
  <2>2. y \in Seq(AnswerLine)
    BY <1>5
  <2>3. Opened(t, y, i) /\ Len(t) = i + Len(y)
    BY <1>1, <1>2, <1>5, <1>11, OpenedAppend
  <2> HIDE DEF new, x, y
  <2>4. new = [mode |-> "search", path |-> st.path, search |-> y, replace |-> <<>>, blocks |-> st.blocks]
    BY <1>1, <2>1 DEF AnswerShape
  <2>5. /\ new.mode = "search" /\ new.path = st.path /\ new.search = y /\ new.replace = <<>>
        /\ new.blocks = st.blocks
    BY <2>4
  <2>6. AnswerShape(new)
    BY <2>2, <2>4, <2>5 DEF AnswerShape
  <2>7. ASSUME Edit!WellFormedAnswer(t) PROVE Marks(t, "search", i)
    <3>1. /\ l = "SEARCH" => st.mode = "outside"
          /\ l = "REPLACE" => st.mode = "replace"
          /\ l \notin Edit!Markers /\ (i = i \/ (i = Len(s) + 1 /\ i = Len(s) + 2))
               => Marks(t, st.mode, i)
      BY <1>1, <1>4, <1>5, <1>6, <2>7, MarksStep
    <3>2. l \notin Edit!Markers
      BY <1>11, <3>1 DEF Edit!Markers
    <3> QED  BY <3>1, <3>2
  <2> HIDE DEF t, n
  <2>8. AnswerHold(t, new, at, i)
    BY <1>7, <1>8, <1>9, <2>3, <2>5, <2>7 DEF AnswerHold, OpenAt
  <2> QED  BY <2>6, <2>8 DEF t, new
<1> QED  BY <1>10, <1>11

\* A line of the replacement.
LEMMA LineOfReplace ==
  ASSUME NEW s \in Seq(AnswerLine), NEW l \in AnswerLine, l # "REPLACE", NEW st, AnswerShape(st),
         st.mode = "replace", NEW at, NEW i, AnswerHold(s, st, at, i)
  PROVE  LET new == Edit!ParseLine(st, l) IN
         AnswerShape(new) /\ AnswerHold(Append(s, l), new, at, i)
<1> DEFINE t == Append(s, l)
           n == Len(s)
           new == Edit!ParseLine(st, l)
           x == st.search
           y == Append(st.replace, l)
           j == i + Len(x) + 1
<1>1. /\ Stand(s, st.blocks, at, i) /\ PathIs(s, i, st.path)
      /\ Opened(s, x, i) /\ Divided(s, st.replace, j)
      /\ Edit!WellFormedAnswer(s) => Marks(s, st.mode, i) /\ ReadAll(s, st.blocks, at)
  BY DEF AnswerHold, OpenAt
<1>2. n \in Nat
  BY Appended
<1>3. new = [st EXCEPT !.replace = y]
  BY DEF Edit!ParseLine, Edit!ParseReplace
<1>4. Edit!WellFormedAnswer(t) => Edit!WellFormedAnswer(s)
  BY AnswerWellFormed
<1>5. /\ st.mode \in {"outside", "search", "replace"} /\ st.blocks \in Seq(Block) /\ x \in Seq(AnswerLine)
      /\ st.replace \in Seq(AnswerLine)
  BY DEF AnswerShape
<1>6. i \in Nat /\ i \in 1..n /\ i \in 1..(n + 1)
  BY <1>1, <1>2 DEF Opened
<1>7. Stand(t, st.blocks, at, i)
  BY <1>1, <1>5, <1>6, StandAppend
<1>8. PathIs(t, i, st.path)
  BY <1>1, <1>6, PathKept
<1>9. Opened(t, x, i)
  BY <1>1, <1>5, OpenedAppend
<1>10. Divided(t, y, j)
  <2> HIDE DEF j
  <2> QED  BY <1>1, <1>5, DividedAppend
<1>11. y \in Seq(AnswerLine)
  BY <1>5
<1>12. ASSUME Edit!WellFormedAnswer(t) PROVE Marks(t, "replace", i) /\ ReadAll(t, st.blocks, at)
  <2>1. /\ l = "SEARCH" => st.mode = "outside"
        /\ l = "DIVIDER" => st.mode = "search"
        /\ l \notin Edit!Markers /\ (i = i \/ (i = Len(s) + 1 /\ i = Len(s) + 2))
             => Marks(t, st.mode, i)
    BY <1>1, <1>4, <1>5, <1>6, <1>12, MarksStep
  <2>2. l \notin Edit!Markers
    BY <2>1 DEF Edit!Markers
  <2>3. ReadAll(t, st.blocks, at)
    BY <1>1, <1>4, <1>12, ReadAllAppend
  <2> QED  BY <2>1, <2>2, <2>3
<1> HIDE DEF new, y
<1>13. new = [mode |-> "replace", path |-> st.path, search |-> x, replace |-> y, blocks |-> st.blocks]
  BY <1>3 DEF AnswerShape
<1>14. /\ new.mode = "replace" /\ new.path = st.path /\ new.search = x /\ new.replace = y
       /\ new.blocks = st.blocks
  BY <1>13
<1>15. AnswerShape(new)
  BY <1>5, <1>11, <1>13, <1>14 DEF AnswerShape
<1> HIDE DEF t, n, x
<1>16. AnswerHold(t, new, at, i)
  BY <1>7, <1>8, <1>9, <1>10, <1>12, <1>14 DEF AnswerHold, OpenAt
<1> QED  BY <1>15, <1>16 DEF t, new

\* The complete blocks are those that were, and the one that ends here.
LEMMA CompleteAtEnd ==
  ASSUME NEW s \in Seq(AnswerLine), NEW blocks, NEW at, NEW mode, NEW i, NEW path,
         Marks(s, mode, i), ReadAll(s, blocks, at), PathIs(s, i, path),
         NEW k \in 1..(Len(s) + 1), Edit!Complete(Append(s, "REPLACE"), k), "REPLACE" \in AnswerLine
  PROVE  (\E n \in 1..Len(blocks) : at[n] = k) \/ (k = i /\ path # Edit!NoPath)
<1>1. /\ k \in 1..Len(s) /\ s[k] = "SEARCH" /\ \E p \in AnswerLine : Edit!PathAbove(s, k, p)
      /\ Edit!Complete(s, k) \/ \A r \in k..Len(s) : s[r] # "REPLACE"
  BY CompleteAppend
<1>2. CASE Edit!Complete(s, k)
  BY <1>1, <1>2 DEF ReadAll
<1>3. CASE \A r \in k..Len(s) : s[r] # "REPLACE"
  <2>1. k = i
    BY <1>1, <1>3 DEF Marks
  <2> QED  BY <1>1, <2>1 DEF PathIs
<1> QED  BY <1>1, <1>2, <1>3

\* One block more.
LEMMA StandMore ==
  ASSUME NEW s \in Seq(AnswerLine), NEW blocks \in Seq(Block), NEW at, NEW i \in 1..Len(s),
         Stand(s, blocks, at, i), NEW b \in Block, Edit!StandsAt(s, b, i),
         NEW h \in Nat, Edit!EndOf(b, i) < h
  PROVE  LET new == [n \in 1..(Len(blocks) + 1) |-> IF n = Len(blocks) + 1 THEN i ELSE at[n]]
         IN  Stand(s, Append(blocks, b), new, h)
<1> DEFINE m == Len(blocks)
           x == Append(blocks, b)
           new == [n \in 1..(m + 1) |-> IF n = m + 1 THEN i ELSE at[n]]
           e(n) == Edit!EndOf(blocks[n], at[n])
<1>1. /\ m \in Nat /\ Len(x) = m + 1 /\ \A n \in 1..m : x[n] = blocks[n] /\ n # m + 1 /\ n \in 1..(m + 1)
      /\ x[m + 1] = b /\ 1..(m + 1) = (1..m) \cup {m + 1} /\ m + 1 \in 1..(m + 1)
  BY Appended
<1>2. /\ at \in [1..m -> 1..Len(s)] /\ \A n \in 1..m : blocks[n] \in Block /\ at[n] \in 1..Len(s)
      /\ \A n \in 1..m : Edit!StandsAt(s, blocks[n], at[n]) /\ e(n) < i
      /\ \A k, n \in 1..m : k < n => e(k) < at[n]
  BY DEF Stand
<1>3. \A n \in 1..m : new[n] = at[n]
  <2> HIDE DEF m
  <2> QED  BY <1>1
<1>4. new[m + 1] = i
  BY <1>1
<1>5. \A n \in 1..m : new[n] \in 1..Len(s)
  BY <1>2, <1>3
<1>6. new \in [1..(m + 1) -> 1..Len(s)]
  <2>1. new = [n \in 1..(m + 1) |-> new[n]]
    OBVIOUS
  <2> HIDE DEF m, new
  <2>2. \A n \in 1..(m + 1) : new[n] \in 1..Len(s)
    BY <1>1, <1>4, <1>5
  <2> QED  BY <2>1, <2>2
<1>7. \A n \in 1..m : e(n) \in Nat
  <2>1. Len(s) \in Nat
    OBVIOUS
  <2>2. \A n \in 1..m : blocks[n] \in Block /\ at[n] \in Nat
    BY <1>2, <2>1
  <2> QED  BY <2>2, BlockEnds
<1>8. Edit!EndOf(b, i) \in Nat /\ i <= Edit!EndOf(b, i)
  <2> DEFINE u == Len(b.search)
             v == Len(b.replace)
             w == Edit!EndOf(b, i)
  <2>1. i \in Nat
    OBVIOUS
  <2>2. u \in Nat /\ v \in Nat /\ w = i + u + 1 + v + 1
    BY <2>1, BlockEnds
  <2> HIDE DEF u, v, w
  <2>3. w \in Nat /\ i <= w
    BY <2>1, <2>2
  <2> QED  BY <2>3 DEF w
<1> DEFINE f(n) == Edit!EndOf(x[n], new[n])
<1>9. /\ \A n \in 1..m : f(n) = e(n)
      /\ f(m + 1) = Edit!EndOf(b, i)
  BY <1>1, <1>3, <1>4
<1>10. \A n \in 1..m : Edit!StandsAt(s, x[n], new[n])
  <2> HIDE DEF new, x, m
  <2> QED  BY <1>1, <1>2, <1>3
<1>11. Edit!StandsAt(s, x[m + 1], new[m + 1])
  BY <1>1, <1>4
<1> HIDE DEF new, x, m, e, f
<1>12. \A n \in 1..(m + 1) : f(n) < h
  <2>1. \A n \in 1..m : f(n) < h
    <3>1. h \in Nat /\ i \in Nat /\ Edit!EndOf(b, i) < h
      OBVIOUS
    <3> QED  BY <1>2, <1>7, <1>8, <1>9, <3>1
  <2> QED  BY <1>1, <1>9, <2>1
<1>13. \A k, n \in 1..(m + 1) : k < n => f(k) < new[n]
  <2>1. \A k, n \in 1..m : k < n => f(k) < new[n]
    BY <1>2, <1>3, <1>9
  <2>2. \A k \in 1..m : f(k) < new[m + 1]
    BY <1>2, <1>4, <1>9
  <2>3. \A n \in 1..(m + 1) : ~(m + 1 < n)
    BY <1>1
  <2> QED  BY <1>1, <2>1, <2>2, <2>3
<1>14. Stand(s, x, new, h)
  <2>1. \A n \in 1..(m + 1) : Edit!StandsAt(s, x[n], new[n])
    BY <1>1, <1>10, <1>11
  <2> QED  BY <1>1, <1>6, <1>12, <1>13, <2>1 DEF Stand, f
<1> QED  BY <1>14 DEF x, new, m

\* A REPLACE ends the block, which is kept if it has a path.
LEMMA EndOfBlock ==
  ASSUME NEW s \in Seq(AnswerLine), "REPLACE" \in AnswerLine, NEW st, AnswerShape(st), st.mode = "replace",
         NEW at, NEW i, AnswerHold(s, st, at, i)
  PROVE  LET new == Edit!ParseLine(st, "REPLACE") IN
         AnswerShape(new) /\ \E f, h : AnswerHold(Append(s, "REPLACE"), new, f, h)
<1> DEFINE l == "REPLACE"
           t == Append(s, "REPLACE")
           n == Len(s)
           new == Edit!ParseLine(st, "REPLACE")
           x == st.search
           y == st.replace
           j == i + Len(x) + 1
           h == n + 2
           b == [path |-> st.path, search |-> x, replace |-> y]
           blocks == IF st.path = Edit!NoPath THEN st.blocks ELSE Append(st.blocks, b)
<1>1. /\ Stand(s, st.blocks, at, i) /\ PathIs(s, i, st.path)
      /\ Opened(s, x, i) /\ Divided(s, y, j)
      /\ Edit!WellFormedAnswer(s) => Marks(s, st.mode, i) /\ ReadAll(s, st.blocks, at)
  BY DEF AnswerHold, OpenAt
<1>2. n \in Nat /\ Len(t) = n + 1 /\ t[n + 1] = "REPLACE" /\ \A k \in 1..n : t[k] = s[k]
      /\ t \in Seq(AnswerLine) /\ h = Len(t) + 1 /\ h \in Nat
  BY Appended
<1>3. new = [st EXCEPT !.mode = "outside", !.path = Edit!NoPath, !.blocks = blocks]
  BY DEF Edit!ParseLine, Edit!ParseReplace
<1>4. Edit!WellFormedAnswer(t) => Edit!WellFormedAnswer(s)
  BY AnswerWellFormed
<1>5. /\ st.mode \in {"outside", "search", "replace"} /\ st.blocks \in Seq(Block) /\ x \in Seq(AnswerLine)
      /\ y \in Seq(AnswerLine) /\ st.path \in AnswerLine \cup {Edit!NoPath}
  BY DEF AnswerShape
<1>6. i \in Nat /\ i \in 1..n /\ i \in 1..(n + 1) /\ i <= h /\ Len(x) \in Nat /\ Len(y) \in Nat
  <2>1. Len(x) \in Nat /\ Len(y) \in Nat
    BY <1>5
  <2> HIDE DEF n, x, y
  <2>2. i \in 1..n
    BY <1>1 DEF Opened, n
  <2> QED  BY <1>2, <2>1, <2>2
<1>7. Stand(t, st.blocks, at, h) /\ Stand(t, st.blocks, at, i)
  <2> HIDE DEF h
  <2> QED  BY <1>1, <1>2, <1>5, <1>6, StandAppend
<1>8. PathIs(t, h, Edit!NoPath) /\ PathIs(t, i, st.path)
  <2>1. "REPLACE" \in Edit!Markers
    BY DEF Edit!Markers
  <2> QED  BY <1>1, <1>6, <2>1, PathMoves, PathKept
<1>9. Edit!WellFormedAnswer(t) => Marks(t, "outside", h)
  BY <1>1, <1>4, <1>5, <1>6, MarksStep
<1>10. st.path # Edit!NoPath => b \in Block
  BY <1>5 DEF Block
<1>11. blocks \in Seq(Block)
  BY <1>5, <1>10
<1>12. st.path # Edit!NoPath => Edit!StandsAt(t, b, i) /\ Edit!EndOf(b, i) < h
  <2>1. Opened(t, x, i)
    BY <1>1, <1>5, OpenedAppend
  <2>2. /\ t[i] = "SEARCH" /\ \A k \in 1..Len(x) : x[k] = t[i + k] /\ x[k] # "DIVIDER"
    BY <2>1 DEF Opened
  <2>3. /\ j \in 1..n /\ s[j] = "DIVIDER" /\ n = j + Len(y)
        /\ \A k \in 1..Len(y) : y[k] = s[j + k] /\ y[k] # "REPLACE"
    BY <1>1 DEF Divided
  <2>4. b.path = st.path /\ b.search = x /\ b.replace = y
    OBVIOUS
  <2>5. DOMAIN x = 1..Len(x) /\ DOMAIN y = 1..Len(y)
    BY <1>5
  <2> HIDE DEF b, x, y
  <2>6. Edit!DividerOf(b, i) = j
    BY <2>4 DEF Edit!DividerOf
  <2> HIDE DEF j
  <2>7. Edit!EndOf(b, i) = j + Len(y) + 1
    BY <2>4, <2>6 DEF Edit!EndOf
  <2>8. j + Len(y) + 1 = n + 1 /\ \A k \in 1..Len(y) : j + k \in 1..n
    BY <1>2, <1>6, <2>3
  <2> HIDE DEF t, n, h
  <2>9. t[j] = "DIVIDER" /\ \A k \in 1..Len(y) : y[k] = t[j + k]
    BY <1>2, <2>3, <2>8
  <2>10. n + 1 <= Len(t) /\ n + 1 < h
    BY <1>2 DEF h
  <2>11. st.path # Edit!NoPath => Edit!PathAbove(t, i, b.path)
    BY <1>8, <2>4 DEF PathIs
  <2>12. st.path # Edit!NoPath => Edit!StandsAt(t, b, i)
    BY <1>2, <2>2, <2>3, <2>4, <2>5, <2>6, <2>7, <2>8, <2>9, <2>10, <2>11 DEF Edit!StandsAt
  <2> QED  BY <2>7, <2>8, <2>10, <2>12
<1>13. ASSUME Edit!WellFormedAnswer(t), NEW k \in 1..(n + 1), Edit!Complete(t, k)
       PROVE  (\E m \in 1..Len(st.blocks) : at[m] = k) \/ (k = i /\ st.path # Edit!NoPath)
  BY <1>1, <1>4, <1>13, CompleteAtEnd
<1> HIDE DEF new, blocks, b
<1>14. new = [mode |-> "outside", path |-> Edit!NoPath, search |-> x, replace |-> y, blocks |-> blocks]
  BY <1>3 DEF AnswerShape
<1>15. /\ new.mode = "outside" /\ new.path = Edit!NoPath /\ new.search = x /\ new.replace = y
       /\ new.blocks = blocks
  BY <1>14
<1>16. AnswerShape(new)
  BY <1>5, <1>11, <1>14, <1>15 DEF AnswerShape
<1>19. t \in Seq(AnswerLine)
  BY <1>2
<1>20. h \in Nat /\ h = Len(t) + 1
  BY <1>2
<1> HIDE DEF t, n, h, x, y, j
<1>17. CASE st.path = Edit!NoPath
  <2>1. blocks = st.blocks
    BY <1>17 DEF blocks
  <2>2. Edit!WellFormedAnswer(t) => ReadAll(t, blocks, at)
    BY <1>2, <1>13, <1>17, <2>1 DEF ReadAll
  <2>3. OpenAt(t, new, h)
    <3>1. PathIs(t, h, new.path) /\ new.mode = "outside" /\ h = Len(t) + 1
      BY <1>8, <1>15, <1>20
    <3>2. new.mode # "search" /\ new.mode # "replace"
      BY <1>15
    <3> QED  BY <3>1, <3>2, Zenon DEF OpenAt
  <2>4. AnswerHold(t, new, at, h)
    <3>1. Stand(t, new.blocks, at, h)
      BY <1>7, <1>15, <2>1
    <3>2. Edit!WellFormedAnswer(t) => Marks(t, new.mode, h) /\ ReadAll(t, new.blocks, at)
      BY <1>9, <1>15, <2>2
    <3> QED  BY <2>3, <3>1, <3>2 DEF AnswerHold
  <2> QED  BY <1>16, <2>4 DEF new, t
<1>18. CASE st.path # Edit!NoPath
  <2> DEFINE m == Len(st.blocks)
             f == [k \in 1..(m + 1) |-> IF k = m + 1 THEN i ELSE at[k]]
  <2>1. blocks = Append(st.blocks, b)
    BY <1>18 DEF blocks
  <2>2. Stand(t, blocks, f, h)
    <3>1. i \in 1..Len(t)
      BY <1>2, <1>6
    <3>2. /\ t \in Seq(AnswerLine) /\ b \in Block /\ h \in Nat /\ st.blocks \in Seq(Block)
          /\ Stand(t, st.blocks, at, i) /\ Edit!StandsAt(t, b, i) /\ Edit!EndOf(b, i) < h
      <4>1. t \in Seq(AnswerLine) /\ h \in Nat
        BY <1>19, <1>20
      <4>2. b \in Block /\ st.blocks \in Seq(Block)
        BY <1>5, <1>10, <1>18
      <4>3. Stand(t, st.blocks, at, i)
        BY <1>7
      <4>4. Edit!StandsAt(t, b, i) /\ Edit!EndOf(b, i) < h
        BY <1>12, <1>18
      <4> QED  BY <4>1, <4>2, <4>3, <4>4
    <3>3. Stand(t, Append(st.blocks, b), [k \in 1..(Len(st.blocks) + 1) |->
                   IF k = Len(st.blocks) + 1 THEN i ELSE at[k]], h)
      BY <3>1, <3>2, StandMore
    <3> QED  BY <2>1, <3>3 DEF f, m
  <2>3. m \in Nat /\ Len(blocks) = m + 1 /\ \A k \in 1..m : k \in 1..(m + 1) /\ k # m + 1
    BY <1>5, <1>10, <1>18, <2>1
  <2>4. f[m + 1] = i /\ \A k \in 1..m : f[k] = at[k]
    BY <2>3
  <2> HIDE DEF f
  <2>5. Edit!WellFormedAnswer(t) => ReadAll(t, blocks, f)
    <3>1. m + 1 \in 1..(m + 1)
      BY <2>3
    <3> HIDE DEF m
    <3>2. ASSUME Edit!WellFormedAnswer(t), NEW k \in 1..Len(t), Edit!Complete(t, k)
          PROVE  \E r \in 1..Len(blocks) : f[r] = k
      <4>1. (\E r \in 1..m : at[r] = k) \/ k = i
        BY <1>2, <1>13, <3>2 DEF m
      <4> QED  BY <2>3, <2>4, <3>1, <4>1
    <3> QED  BY <3>2 DEF ReadAll
  <2>6. OpenAt(t, new, h)
    <3>1. PathIs(t, h, new.path) /\ new.mode = "outside" /\ h = Len(t) + 1
      BY <1>8, <1>15, <1>20
    <3>2. new.mode # "search" /\ new.mode # "replace"
      BY <1>15
    <3> QED  BY <3>1, <3>2, Zenon DEF OpenAt
  <2>7. AnswerHold(t, new, f, h)
    <3>1. Stand(t, new.blocks, f, h)
      BY <1>15, <2>2
    <3>2. Edit!WellFormedAnswer(t) => Marks(t, new.mode, h) /\ ReadAll(t, new.blocks, f)
      BY <1>9, <1>15, <2>5
    <3> QED  BY <2>6, <3>1, <3>2 DEF AnswerHold
  <2> QED  BY <1>16, <2>7 DEF new, t
<1> QED  BY <1>17, <1>18

\* A line of an answer.
LEMMA AnswerStep ==
  ASSUME NEW s \in Seq(AnswerLine), NEW l \in AnswerLine, NEW st, AnswerInv(s, st)
  PROVE  AnswerInv(Append(s, l), Edit!ParseLine(st, l))
<1>1. AnswerShape(st)
  BY DEF AnswerInv
<1>2. PICK at, i : AnswerHold(s, st, at, i)
  BY DEF AnswerInv
<1> DEFINE t == Append(s, l)
           new == Edit!ParseLine(st, l)
<1>3. CASE st.mode = "outside"
  <2>1. AnswerShape(new) /\ \E h : AnswerHold(t, new, at, h)
    BY <1>1, <1>2, <1>3, LineOutside
  <2> HIDE DEF t, new
  <2>2. AnswerInv(t, new)
    BY <2>1 DEF AnswerInv
  <2> QED  BY <2>2 DEF t, new
<1>4. CASE st.mode = "search"
  <2>1. AnswerShape(new) /\ AnswerHold(t, new, at, i)
    BY <1>1, <1>2, <1>4, LineOfSearch
  <2> HIDE DEF t, new
  <2>2. AnswerInv(t, new)
    BY <2>1 DEF AnswerInv
  <2> QED  BY <2>2 DEF t, new
<1>5. CASE st.mode = "replace" /\ l # "REPLACE"
  <2>1. AnswerShape(new) /\ AnswerHold(t, new, at, i)
    BY <1>1, <1>2, <1>5, LineOfReplace
  <2> HIDE DEF t, new
  <2>2. AnswerInv(t, new)
    BY <2>1 DEF AnswerInv
  <2> QED  BY <2>2 DEF t, new
<1>6. CASE st.mode = "replace" /\ l = "REPLACE"
  <2>1. "REPLACE" \in AnswerLine
    BY <1>6
  <2>2. /\ AnswerShape(Edit!ParseLine(st, "REPLACE"))
        /\ \E f, h : AnswerHold(Append(s, "REPLACE"), Edit!ParseLine(st, "REPLACE"), f, h)
    BY <1>1, <1>2, <1>6, <2>1, EndOfBlock
  <2>3. AnswerShape(new) /\ \E f, h : AnswerHold(t, new, f, h)
    BY <1>6, <2>2
  <2> HIDE DEF t, new
  <2>4. AnswerInv(t, new)
    BY <2>3 DEF AnswerInv
  <2> QED  BY <2>4 DEF t, new
<1> QED  BY <1>1, <1>3, <1>4, <1>5, <1>6 DEF AnswerShape

\* Before the first line of an answer.
LEMMA AnswerStart == AnswerInv(<<>>, Edit!NoAnswer)
<1> DEFINE st == Edit!NoAnswer
<1>1. /\ st.mode = "outside" /\ st.path = Edit!NoPath /\ st.search = <<>> /\ st.replace = <<>>
      /\ st.blocks = <<>>
  BY DEF Edit!NoAnswer
<1>2. AnswerShape(st)
  BY <1>1 DEF AnswerShape, Edit!NoAnswer
<1> HIDE DEF st
<1>3. Stand(<<>>, st.blocks, <<>>, 1)
  BY <1>1 DEF Stand
<1>4. PathIs(<<>>, 1, st.path)
  <2>1. \A p : ~Edit!PathAbove(<<>>, 1, p)
    BY DEF Edit!PathAbove
  <2> QED  BY <1>1, <2>1 DEF PathIs
<1>5. OpenAt(<<>>, st, 1)
  BY <1>1, <1>4 DEF OpenAt
<1>6. Marks(<<>>, st.mode, 1)
  <2>1. \A m : ~Edit!MarkerAbove(<<>>, 1, m)
    BY DEF Edit!MarkerAbove
  <2> QED  BY <1>1, <2>1 DEF Marks
<1>7. ReadAll(<<>>, st.blocks, <<>>)
  BY DEF ReadAll
<1>8. AnswerHold(<<>>, st, <<>>, 1)
  BY <1>3, <1>5, <1>6, <1>7 DEF AnswerHold
<1>9. AnswerInv(<<>>, st)
  BY <1>2, <1>8 DEF AnswerInv
<1> QED  BY <1>9 DEF st

\* The blocks parsed stand in the answer, and all that are complete.
LEMMA AnswerRead ==
  ASSUME NEW s \in Seq(AnswerLine), NEW st, AnswerInv(s, st)
  PROVE  Edit!AnswerIsRead(s, st.blocks)
<1>1. st.blocks \in Seq(Block)
  BY DEF AnswerInv, AnswerShape
<1>2. PICK at, i : AnswerHold(s, st, at, i)
  BY DEF AnswerInv
<1> DEFINE blocks == st.blocks
<1>3. Stand(s, blocks, at, i) /\ (Edit!WellFormedAnswer(s) => ReadAll(s, blocks, at))
  BY <1>2 DEF AnswerHold
<1>4. DOMAIN blocks = 1..Len(blocks) /\ DOMAIN s = 1..Len(s)
  BY <1>1
<1> HIDE DEF blocks
<1>5. /\ at \in [DOMAIN blocks -> DOMAIN s]
      /\ \A n \in DOMAIN blocks : Edit!StandsAt(s, blocks[n], at[n])
      /\ \A m, n \in DOMAIN blocks : m < n => Edit!EndOf(blocks[m], at[m]) < at[n]
  BY <1>3, <1>4 DEF Stand
<1>6. Edit!WellFormedAnswer(s) =>
        \A k \in DOMAIN s : Edit!Complete(s, k) => \E n \in DOMAIN blocks : at[n] = k
  BY <1>3, <1>4 DEF ReadAll
<1>7. Edit!AnswerIsRead(s, blocks)
  BY <1>5, <1>6 DEF Edit!AnswerIsRead
<1> QED  BY <1>7 DEF blocks

-----------------------------------------------------------------------------
(* Readers: workspaces *)

\* An item at line i stands in the list of packages; the patterns read so far.
InList(lines, i) ==
    \E o \in 1..(i - 1) : /\ lines[o].kind = "packages:"
                          /\ \A k \in (o + 1)..(i - 1) : lines[k].kind # "key"
Indented(lines) == \A i \in DOMAIN lines : lines[i].indented
ListedIs(lines, out) == \A g : g \in Work!Declared(lines) <=> \E i \in 1..Len(out) : out[i] = g

Directory == Path \X BOOLEAN
WorkShape(st) ==
    /\ st = [open |-> st.open, out |-> st.out, expanded |-> st.expanded, seen |-> st.seen]
    /\ st.open \in BOOLEAN /\ st.out \in Seq(Pattern) /\ st.expanded \in Nat
    /\ st.seen \in Seq(Directory)
\* The directories seen are those of the patterns expanded, each once.
SeenIs(repo, globs, expanded, seen) ==
    /\ \A d : (\E i \in 1..Len(seen) : seen[i] = d) <=>
              \E k \in 1..expanded : d \in Work!Matched(repo, globs[k])
    /\ \A i, j \in 1..Len(seen) : seen[i] = seen[j] => i = j
WorkInv(repo, lines, st) ==
    /\ WorkShape(st)
    /\ st.open <=> InList(lines, Len(lines) + 1)
    /\ Indented(lines) => ListedIs(lines, st.out)
    /\ st.expanded <= Len(Work!Globs(repo, st.out))
    /\ SeenIs(repo, Work!Globs(repo, st.out), st.expanded, st.seen)

\* The list of packages, with one more line.
LEMMA InListAppend ==
  ASSUME NEW S, NEW s \in Seq(S), NEW l \in S
  PROVE  /\ \A i \in 1..(Len(s) + 1) : InList(Append(s, l), i) <=> InList(s, i)
         /\ InList(Append(s, l), Len(s) + 2) <=>
              l.kind = "packages:" \/ (l.kind # "key" /\ InList(s, Len(s) + 1))
<1> DEFINE t == Append(s, l)
           n == Len(s)
<1>1. n \in Nat /\ t[n + 1] = l /\ \A i \in 1..n : t[i] = s[i]
  BY Appended
<1> HIDE DEF t, n
<1>2. ASSUME NEW i \in 1..(n + 1) PROVE InList(t, i) <=> InList(s, i)
  <2>1. i - 1 <= n /\ i \in Nat
    BY <1>1
  <2>2. \A j \in 1..(i - 1) : t[j] = s[j] /\ \A k \in (j + 1)..(i - 1) : t[k] = s[k]
    BY <1>1, <2>1
  <2> QED  BY <2>2 DEF InList
<1>3. InList(t, n + 2) <=>
        \E o \in 1..(n + 1) : t[o].kind = "packages:" /\ \A k \in (o + 1)..(n + 1) : t[k].kind # "key"
  <2>1. n + 2 - 1 = n + 1
    BY <1>1
  <2> QED  BY <1>1, <2>1 DEF InList
<1>4. InList(t, n + 1) <=>
        \E o \in 1..n : t[o].kind = "packages:" /\ \A k \in (o + 1)..n : t[k].kind # "key"
  <2>1. n + 1 - 1 = n
    BY <1>1
  <2> QED  BY <1>1, <2>1 DEF InList
<1>5. ASSUME l.kind = "packages:" PROVE InList(t, n + 2)
  <2>1. n + 1 \in 1..(n + 1) /\ \A k \in (n + 1 + 1)..(n + 1) : t[k].kind # "key"
    BY <1>1
  <2> QED  BY <1>1, <1>3, <1>5, <2>1
<1>6. ASSUME l.kind # "key", InList(t, n + 1) PROVE InList(t, n + 2)
  <2>1. PICK o \in 1..n : t[o].kind = "packages:" /\ \A k \in (o + 1)..n : t[k].kind # "key"
    BY <1>4, <1>6
  <2>2. o \in 1..(n + 1) /\ \A k \in (o + 1)..(n + 1) : t[k].kind # "key"
    BY <1>1, <1>6, <2>1
  <2> QED  BY <1>3, <2>1, <2>2
<1>7. ASSUME InList(t, n + 2), l.kind # "packages:" PROVE l.kind # "key" /\ InList(t, n + 1)
  <2>1. PICK o \in 1..(n + 1) : t[o].kind = "packages:" /\ \A k \in (o + 1)..(n + 1) : t[k].kind # "key"
    BY <1>3, <1>7
  <2>2. o \in 1..n
    BY <1>1, <1>7, <2>1
  <2>3. n + 1 \in (o + 1)..(n + 1) /\ \A k \in (o + 1)..n : k \in (o + 1)..(n + 1)
    BY <1>1, <2>2
  <2> QED  BY <1>1, <1>4, <2>1, <2>2, <2>3
<1>8. n + 1 \in 1..(n + 1)
  BY <1>1
<1> QED  BY <1>2, <1>5, <1>6, <1>7, <1>8 DEF t, n

\* What one more line declares.
LEMMA DeclaredAppend ==
  ASSUME NEW S, NEW s \in Seq(S), NEW l \in S, NEW g
  PROVE  g \in Work!Declared(Append(s, l)) <=>
           \/ g \in Work!Declared(s)
           \/ l.kind = "item" /\ InList(s, Len(s) + 1) /\ g = l.pattern
<1> DEFINE t == Append(s, l)
           n == Len(s)
<1>1. /\ n \in Nat /\ t[n + 1] = l /\ \A i \in 1..n : t[i] = s[i] /\ i \in 1..(n + 1)
      /\ DOMAIN s = 1..n /\ DOMAIN t = 1..(n + 1) /\ 1..(n + 1) = (1..n) \cup {n + 1}
  BY Appended
<1>2. \A i \in 1..(n + 1) : InList(t, i) <=> InList(s, i)
  BY InListAppend
<1>3. g \in Work!Declared(t) <=>
        \E i \in 1..(n + 1) : t[i].kind = "item" /\ InList(t, i) /\ g = t[i].pattern
  BY <1>1 DEF Work!Declared, InList
<1>4. g \in Work!Declared(s) <=>
        \E i \in 1..n : s[i].kind = "item" /\ InList(s, i) /\ g = s[i].pattern
  BY <1>1 DEF Work!Declared, InList
<1> HIDE DEF t, n
<1>5. (\E i \in 1..(n + 1) : t[i].kind = "item" /\ InList(t, i) /\ g = t[i].pattern) <=>
        \/ \E i \in 1..n : s[i].kind = "item" /\ InList(s, i) /\ g = s[i].pattern
        \/ l.kind = "item" /\ InList(s, n + 1) /\ g = l.pattern
  BY <1>1, <1>2
<1>6. g \in Work!Declared(t) <=>
        g \in Work!Declared(s) \/ (l.kind = "item" /\ InList(s, n + 1) /\ g = l.pattern)
  BY <1>3, <1>4, <1>5
<1> QED  BY <1>6 DEF t, n

\* What a line does to the parser.
LineEffect(st, l, new) ==
    /\ WorkShape(new) /\ new.expanded = st.expanded /\ new.seen = st.seen
    /\ new.open <=> l.kind = "packages:" \/ (l.kind # "key" /\ st.open)
    /\ new.out = IF l.kind = "item" /\ st.open /\ l.indented THEN Append(st.out, l.pattern) ELSE st.out

\* What a line of pnpm-workspace.yaml does to the parser.
LEMMA PnpmLineEffect ==
  ASSUME NEW l \in PnpmLine, NEW st, WorkShape(st)
  PROVE  LineEffect(st, l, Work!PnpmLine(st, l))
<1> DEFINE new == Work!PnpmLine(st, l)
<1>1. /\ st = [open |-> st.open, out |-> st.out, expanded |-> st.expanded, seen |-> st.seen]
      /\ st.open \in BOOLEAN /\ st.out \in Seq(Pattern) /\ st.expanded \in Nat
      /\ st.seen \in Seq(Directory)
  BY DEF WorkShape
<1>2. l.pattern \in Pattern
  BY DEF PnpmLine
<1>3. CASE l.kind = "packages:"
  <2>1. new = [st EXCEPT !.open = TRUE]
    BY <1>3 DEF Work!PnpmLine
  <2> HIDE DEF new
  <2>2. new = [open |-> TRUE, out |-> st.out, expanded |-> st.expanded, seen |-> st.seen]
    BY <1>1, <2>1
  <2>3. new.open = TRUE /\ new.out = st.out /\ new.expanded = st.expanded /\ new.seen = st.seen
    BY <2>2
  <2>4. WorkShape(new)
    BY <1>1, <2>2, <2>3 DEF WorkShape
  <2>5. l.kind # "item"
    BY <1>3
  <2>6. LineEffect(st, l, new)
    BY <1>3, <2>3, <2>4, <2>5 DEF LineEffect
  <2> QED  BY <2>6 DEF new
<1>4. CASE l.kind = "key"
  <2>1. new = [st EXCEPT !.open = FALSE]
    BY <1>4 DEF Work!PnpmLine
  <2> HIDE DEF new
  <2>2. new = [open |-> FALSE, out |-> st.out, expanded |-> st.expanded, seen |-> st.seen]
    BY <1>1, <2>1
  <2>3. new.open = FALSE /\ new.out = st.out /\ new.expanded = st.expanded /\ new.seen = st.seen
    BY <2>2
  <2>4. WorkShape(new)
    BY <1>1, <2>2, <2>3 DEF WorkShape
  <2>5. l.kind # "item" /\ l.kind # "packages:"
    BY <1>4
  <2>6. LineEffect(st, l, new)
    BY <1>4, <2>3, <2>4, <2>5 DEF LineEffect
  <2> QED  BY <2>6 DEF new
<1>5. CASE l.kind = "item" /\ st.open /\ l.indented
  <2>0. l.kind # "packages:" /\ l.kind # "key"
    BY <1>5
  <2>1. new = [st EXCEPT !.out = Append(st.out, l.pattern)]
    BY <1>5, <2>0 DEF Work!PnpmLine
  <2> DEFINE out == Append(st.out, l.pattern)
  <2>2. out \in Seq(Pattern)
    BY <1>1, <1>2
  <2> HIDE DEF new, out
  <2>3. new = [open |-> st.open, out |-> out, expanded |-> st.expanded, seen |-> st.seen]
    BY <1>1, <2>1 DEF out
  <2>4. new.open = st.open /\ new.out = out /\ new.expanded = st.expanded /\ new.seen = st.seen
    BY <2>3
  <2>5. WorkShape(new)
    BY <1>1, <2>2, <2>3, <2>4 DEF WorkShape
  <2>6. LineEffect(st, l, new)
    BY <1>5, <2>0, <2>4, <2>5 DEF LineEffect, out
  <2> QED  BY <2>6 DEF new
<1>6. CASE l.kind \notin {"packages:", "key"} /\ ~(l.kind = "item" /\ st.open /\ l.indented)
  <2>1. new = st
    BY <1>6 DEF Work!PnpmLine
  <2>2. LineEffect(st, l, st)
    BY <1>6 DEF LineEffect
  <2> QED  BY <2>1, <2>2
<1> QED  BY <1>3, <1>4, <1>5, <1>6

\* The patterns expanded are patterns.
LEMMA GlobsTyped ==
  ASSUME NEW repo, Repo(repo), NEW out \in Seq(Pattern)
  PROVE  /\ Work!Globs(repo, out) \in Seq(Pattern)
         /\ Len(Work!Globs(repo, out)) \in Nat
<1>1. repo.workspaces \in Seq(Pattern) /\ repo.lernaGlobs \in Seq(Pattern)
  BY DEF Repo
<1>2. Work!PkgJsonGlobs(repo) \in Seq(Pattern)
  BY <1>1 DEF Work!PkgJsonGlobs
<1>3. Work!Globs(repo, out) \in Seq(Pattern)
  BY <1>1, <1>2 DEF Work!Globs
<1> QED  BY <1>3

\* A line of pnpm-workspace.yaml, before the patterns are expanded.
LEMMA PnpmStep ==
  ASSUME NEW repo, Repo(repo), NEW s \in Seq(PnpmLine), NEW l \in PnpmLine,
         NEW st, WorkInv(repo, s, st), st.expanded = 0
  PROVE  WorkInv(repo, Append(s, l), Work!PnpmLine(st, l))
<1> DEFINE t == Append(s, l)
           n == Len(s)
           new == Work!PnpmLine(st, l)
<1>1. /\ n \in Nat /\ Len(t) = n + 1 /\ DOMAIN s = 1..n /\ DOMAIN t = 1..(n + 1)
      /\ t[n + 1] = l /\ \A i \in 1..n : t[i] = s[i] /\ i \in 1..(n + 1)
  BY Appended
<1>2. LineEffect(st, l, new) /\ WorkShape(st)
  BY PnpmLineEffect DEF WorkInv
<1>3. InList(t, n + 2) <=> l.kind = "packages:" \/ (l.kind # "key" /\ InList(s, n + 1))
  BY InListAppend
<1>4. \A g : g \in Work!Declared(t) <=>
         \/ g \in Work!Declared(s)
         \/ l.kind = "item" /\ InList(s, n + 1) /\ g = l.pattern
  BY DeclaredAppend
<1>5. /\ st.open <=> InList(s, n + 1)
      /\ Indented(s) => ListedIs(s, st.out)
      /\ SeenIs(repo, Work!Globs(repo, st.out), st.expanded, st.seen)
  BY DEF WorkInv
<1> HIDE DEF t, n, new
<1>6. new.open <=> InList(t, Len(t) + 1)
  <2>1. Len(t) + 1 = n + 2
    BY <1>1
  <2> QED  BY <1>2, <1>3, <1>5, <2>1 DEF LineEffect
<1>7. ASSUME Indented(t) PROVE ListedIs(t, new.out)
  <2>1. Indented(s) /\ l.indented
    <3>1. n + 1 \in 1..(n + 1)
      BY <1>1
    <3> QED  BY <1>1, <1>7, <3>1 DEF Indented
  <2>2. \A g : g \in Work!Declared(s) <=> \E i \in 1..Len(st.out) : st.out[i] = g
    BY <1>5, <2>1 DEF ListedIs
  <2>3. new.out = IF l.kind = "item" /\ InList(s, n + 1) THEN Append(st.out, l.pattern) ELSE st.out
    BY <1>2, <1>5, <2>1 DEF LineEffect
  <2>4. CASE l.kind = "item" /\ InList(s, n + 1)
    <3> DEFINE u == st.out
               v == Append(st.out, l.pattern)
               m == Len(st.out)
    <3>1. /\ m \in Nat /\ Len(v) = m + 1 /\ v[m + 1] = l.pattern /\ \A i \in 1..m : v[i] = u[i]
          /\ m + 1 \in 1..(m + 1) /\ 1..(m + 1) = (1..m) \cup {m + 1}
      <4>1. u \in Seq(Pattern) /\ l.pattern \in Pattern
        BY <1>2 DEF WorkShape, PnpmLine
      <4> QED  BY <4>1, Appended
    <3>2. new.out = v /\ \A g : g \in Work!Declared(s) <=> \E i \in 1..m : u[i] = g
      BY <2>2, <2>3, <2>4
    <3> HIDE DEF u, v, m
    <3>3. \A g : (\E i \in 1..(m + 1) : v[i] = g) <=> (\E i \in 1..m : u[i] = g) \/ g = l.pattern
      BY <3>1
    <3>4. \A g : g \in Work!Declared(t) <=> \E i \in 1..(m + 1) : v[i] = g
      BY <1>4, <2>4, <3>2, <3>3
    <3> QED  BY <3>1, <3>2, <3>4 DEF ListedIs
  <2>5. CASE ~(l.kind = "item" /\ InList(s, n + 1))
    BY <1>4, <2>2, <2>3, <2>5 DEF ListedIs
  <2> QED  BY <2>4, <2>5
<1>8. WorkShape(new) /\ new.expanded = 0 /\ new.seen = st.seen
  BY <1>2 DEF LineEffect
<1>9. new.expanded <= Len(Work!Globs(repo, new.out))
  <2>1. Len(Work!Globs(repo, new.out)) \in Nat
    BY <1>8, GlobsTyped DEF WorkShape
  <2> QED  BY <1>8, <2>1
<1>10. SeenIs(repo, Work!Globs(repo, new.out), new.expanded, new.seen)
  <2>1. \A k : k \notin 1..0
    OBVIOUS
  <2> QED  BY <1>5, <1>8, <2>1 DEF SeenIs
<1>11. WorkInv(repo, t, new)
  BY <1>6, <1>7, <1>8, <1>9, <1>10 DEF WorkInv
<1> QED  BY <1>11 DEF t, new

\* Before the first line of pnpm-workspace.yaml.
LEMMA WorkStart ==
  ASSUME NEW repo, Repo(repo)
  PROVE  WorkInv(repo, <<>>, Work!NothingSeen)
<1> DEFINE st == Work!NothingSeen
<1>1. /\ st = [open |-> FALSE, out |-> <<>>, expanded |-> 0, seen |-> <<>>]
      /\ st.open = FALSE /\ st.out = <<>> /\ st.expanded = 0 /\ st.seen = <<>>
  BY DEF Work!NothingSeen
<1> HIDE DEF st
<1>2. WorkShape(st)
  BY <1>1 DEF WorkShape
<1>3. \A i : i \notin 1..0
  OBVIOUS
<1>4. ~InList(<<>>, 1)
  BY <1>3 DEF InList
<1>5. ListedIs(<<>>, st.out)
  BY <1>1 DEF ListedIs, Work!Declared
<1>6. Len(Work!Globs(repo, st.out)) \in Nat
  BY <1>2, GlobsTyped DEF WorkShape
<1>7. SeenIs(repo, Work!Globs(repo, st.out), st.expanded, st.seen)
  BY <1>1, <1>3 DEF SeenIs
<1>8. st.expanded <= Len(Work!Globs(repo, st.out))
  BY <1>1, <1>6
<1>9. WorkInv(repo, <<>>, st)
  BY <1>1, <1>2, <1>4, <1>5, <1>7, <1>8 DEF WorkInv
<1> QED  BY <1>9 DEF st

\* A finite set is laid out as a sequence that has each of its elements once.
LEMMA SetToSeqLists ==
  ASSUME NEW S, IsFiniteSet(S)
  PROVE  /\ Work!SetToSeq(S) \in Seq(S)
         /\ \A d : d \in S <=> \E i \in 1..Len(Work!SetToSeq(S)) : Work!SetToSeq(S)[i] = d
         /\ \A i, j \in 1..Len(Work!SetToSeq(S)) :
              Work!SetToSeq(S)[i] = Work!SetToSeq(S)[j] => i = j
<1> DEFINE n == Cardinality(S)
           q == Work!SetToSeq(S)
<1>1. Work!Cardinality(S) = n
  BY DEF Work!Cardinality, Cardinality
<1>2. n \in Nat /\ ExistsBijection(1..n, S)
  BY FS_CardinalityType
<1>3. IsFiniteSet(1..n) /\ Cardinality(1..n) = n
  <2>1. Cardinality(1..n) = IF 1 > n THEN 0 ELSE n - 1 + 1
    BY <1>2, FS_Interval
  <2>2. IsFiniteSet(1..n)
    BY <1>2, FS_Interval
  <2> QED  BY <1>2, <2>1, <2>2
<1>4. \A f : Work!IsInjective(f) <=> \A a, b \in DOMAIN f : f[a] = f[b] => a = b
  BY DEF Work!IsInjective
<1>5. q \in [1..n -> S] /\ Work!IsInjective(q)
  <2>1. q = CHOOSE f \in [1..n -> S] : Work!IsInjective(f)
    BY <1>1 DEF Work!SetToSeq
  <2>2. \E f \in [1..n -> S] : Work!IsInjective(f)
    BY <1>2, <1>4 DEF ExistsBijection, Bijection, Injection, IsInjective
  <2> QED  BY <2>1, <2>2
<1>6. q \in Injection(1..n, S)
  BY <1>4, <1>5 DEF Injection, IsInjective
<1>7. q \in Surjection(1..n, S)
  <2> HIDE DEF q
  <2> QED  BY <1>3, <1>6, FS_Injection
<1>8. \A d \in S : \E i \in 1..n : q[i] = d
  BY <1>7 DEF Surjection
<1>9. q \in Seq(S) /\ Len(q) = n
  <2>1. q \in [1..n -> S]
    BY <1>5
  <2> HIDE DEF q, n
  <2> QED  BY <1>2, <2>1
<1>10. \A i \in 1..n : q[i] \in S
  BY <1>5
<1>11. \A i, j \in 1..n : q[i] = q[j] => i = j
  BY <1>4, <1>5
<1> HIDE DEF q, n
<1>12. \A d : d \in S <=> \E i \in 1..Len(q) : q[i] = d
  BY <1>8, <1>9, <1>10
<1> QED  BY <1>9, <1>11, <1>12 DEF q

\* A pattern matches directories of the repository, finitely many.
LEMMA MatchedFinite ==
  ASSUME NEW repo, Repo(repo), NEW g \in Pattern
  PROVE  IsFiniteSet(Work!Matched(repo, g)) /\ Work!Matched(repo, g) \subseteq Directory
<1> DEFINE D == DOMAIN repo.dirs
           M == Work!Matched(repo, g)
<1>1. IsFiniteSet(D) /\ D \subseteq Path
  <2>1. IsFiniteSet(D) <=> IsFiniteSet(D)
    BY DEF IsFiniteSet, IsFiniteSet
  <2> QED  BY <2>1 DEF Repo
<1>2. \A d \in M : \E p \in D, b \in BOOLEAN : d = <<p, b>>
  <2>1. g.slash \in BOOLEAN
    BY DEF Pattern
  <2>2. CASE g.shape = "star"
    <3>1. M = {<<p, FALSE>> : p \in {q \in Work!Children(repo, g.path) : Work!HasManifest(repo, q)}}
          \/ M = {}
      BY <2>2 DEF Work!Matched
    <3>2. Work!Children(repo, g.path) \subseteq D
      BY DEF Work!Children
    <3> HIDE DEF M, D
    <3> QED  BY <3>1, <3>2
  <2>3. CASE g.shape # "star"
    <3>1. M = {} \/ (Work!HasManifest(repo, g.path) /\ M = {<<g.path, g.slash>>})
      BY <2>3 DEF Work!Matched
    <3>2. Work!HasManifest(repo, g.path) => g.path \in D
      BY DEF Work!HasManifest, Work!Exists
    <3> HIDE DEF M, D
    <3> QED  BY <2>1, <3>1, <3>2
  <2> QED  BY <2>2, <2>3
<1>3. M \subseteq D \X BOOLEAN
  <2> HIDE DEF M, D
  <2> QED  BY <1>2
<1>4. IsFiniteSet(BOOLEAN)
  <2>1. BOOLEAN = {FALSE} \cup {TRUE}
    OBVIOUS
  <2>2. IsFiniteSet({FALSE})
    BY FS_Singleton
  <2>3. IsFiniteSet({FALSE} \cup {TRUE})
    BY <2>2, FS_AddElement
  <2> QED  BY <2>1, <2>3
<1>5. IsFiniteSet(D \X BOOLEAN)
  BY <1>1, <1>4, FS_Product
<1> HIDE DEF M, D
<1>6. IsFiniteSet(M)
  BY <1>3, <1>5, FS_Subset
<1>7. M \subseteq Directory
  BY <1>1, <1>3 DEF Directory
<1> QED  BY <1>6, <1>7 DEF M

\* The next pattern adds the directories it matches that were not seen.
LEMMA GlobStep ==
  ASSUME NEW repo, Repo(repo), NEW s \in Seq(PnpmLine), NEW st, WorkInv(repo, s, st),
         st.expanded < Len(Work!Globs(repo, st.out))
  PROVE  WorkInv(repo, s, Work!ExpandNext(repo, st))
<1> DEFINE new == Work!ExpandNext(repo, st)
           globs == Work!Globs(repo, st.out)
           e == st.expanded
           g == globs[e + 1]
           u == st.seen
           N == Work!NewDirs(u, Work!Matched(repo, g))
           v == Work!SetToSeq(N)
<1>1. /\ WorkShape(st) /\ (st.open <=> InList(s, Len(s) + 1))
      /\ Indented(s) => ListedIs(s, st.out)
      /\ SeenIs(repo, globs, e, u)
  BY DEF WorkInv
<1>2. /\ st = [open |-> st.open, out |-> st.out, expanded |-> st.expanded, seen |-> st.seen]
      /\ st.open \in BOOLEAN /\ st.out \in Seq(Pattern) /\ e \in Nat /\ u \in Seq(Directory)
  BY <1>1 DEF WorkShape
<1>3. globs \in Seq(Pattern) /\ Len(globs) \in Nat
  BY <1>2, GlobsTyped
<1>4. g \in Pattern
  <2> HIDE DEF globs
  <2>1. e < Len(globs)
    BY DEF globs
  <2>2. e + 1 \in 1..Len(globs)
    BY <1>2, <1>3, <2>1
  <2> QED  BY <1>3, <2>2
<1>5. new = [st EXCEPT !.expanded = e + 1, !.seen = u \o v]
  BY DEF Work!ExpandNext
<1>6. IsFiniteSet(Work!Matched(repo, g)) /\ Work!Matched(repo, g) \subseteq Directory
  BY <1>4, MatchedFinite
<1>7. \A d : d \in N <=> d \in Work!Matched(repo, g) /\ ~\E i \in 1..Len(u) : u[i] = d
  <2>1. DOMAIN u = 1..Len(u)
    BY <1>2
  <2> HIDE DEF u, g
  <2> QED  BY <2>1 DEF Work!NewDirs, Work!ToSet
<1>8. IsFiniteSet(N) /\ N \subseteq Directory
  <2> HIDE DEF N, g, u
  <2>1. N \subseteq Work!Matched(repo, g)
    BY <1>7
  <2> QED  BY <1>6, <2>1, FS_Subset
<1> HIDE DEF N
<1>9. /\ v \in Seq(N) /\ \A d : d \in N <=> \E i \in 1..Len(v) : v[i] = d
      /\ \A i, j \in 1..Len(v) : v[i] = v[j] => i = j
  BY <1>8, SetToSeqLists
<1> HIDE DEF v, new
<1> DEFINE w == u \o v
<1>10. v \in Seq(Directory)
  BY <1>8, <1>9
<1>11. /\ w \in Seq(Directory) /\ Len(w) = Len(u) + Len(v) /\ Len(u) \in Nat /\ Len(v) \in Nat
       /\ \A i \in 1..Len(u) : w[i] = u[i]
       /\ \A i \in 1..Len(v) : w[Len(u) + i] = v[i]
  <2> HIDE DEF u, v
  <2>1. Len(u) \in Nat /\ Len(v) \in Nat
    BY <1>2, <1>10
  <2> QED  BY <1>2, <1>10, <2>1, Joined
<1>12. new = [open |-> st.open, out |-> st.out, expanded |-> e + 1, seen |-> w]
  <2> HIDE DEF w
  <2>1. new = [st EXCEPT !.expanded = e + 1, !.seen = w]
    BY <1>5 DEF w
  <2> QED  BY <1>2, <2>1
<1> HIDE DEF w, u
<1>13. new.open = st.open /\ new.out = st.out /\ new.expanded = e + 1 /\ new.seen = w
  BY <1>12
<1>14. WorkShape(new)
  BY <1>2, <1>11, <1>12, <1>13 DEF WorkShape
<1> HIDE DEF globs, g
<1>15. /\ \A d : (\E i \in 1..Len(u) : u[i] = d) <=> \E k \in 1..e : d \in Work!Matched(repo, globs[k])
       /\ \A i, j \in 1..Len(u) : u[i] = u[j] => i = j
  BY <1>1 DEF SeenIs
<1>16. \A i \in 1..Len(w) : i \in 1..Len(u) \/ \E j \in 1..Len(v) : i = Len(u) + j
  <2>1. ASSUME NEW i \in 1..Len(w), i \notin 1..Len(u) PROVE i - Len(u) \in 1..Len(v) /\ i = Len(u) + (i - Len(u))
    BY <1>11, <2>1
  <2> QED  BY <2>1
<1>17. (\A i \in 1..Len(u) : i \in 1..Len(w)) /\ \A j \in 1..Len(v) : Len(u) + j \in 1..Len(w)
  BY <1>11
<1>18. \A d : (\E i \in 1..Len(w) : w[i] = d) <=>
              (\E i \in 1..Len(u) : u[i] = d) \/ (\E j \in 1..Len(v) : v[j] = d)
  BY <1>11, <1>16, <1>17
<1>19. \A d : (\E k \in 1..(e + 1) : d \in Work!Matched(repo, globs[k])) <=>
              (\E k \in 1..e : d \in Work!Matched(repo, globs[k])) \/ d \in Work!Matched(repo, g)
  <2>1. 1..(e + 1) = (1..e) \cup {e + 1}
    BY <1>2
  <2> QED  BY <2>1 DEF g
<1>20. \A d : (\E i \in 1..Len(w) : w[i] = d) <=>
              \E k \in 1..(e + 1) : d \in Work!Matched(repo, globs[k])
  BY <1>7, <1>9, <1>15, <1>18, <1>19
<1>21. \A i, j \in 1..Len(w) : w[i] = w[j] => i = j
  <2>1. ASSUME NEW i \in 1..Len(u), NEW j \in 1..Len(v) PROVE w[i] # w[Len(u) + j]
    <3>1. v[j] \in N
      BY <1>9
    <3> QED  BY <1>7, <1>11, <3>1
  <2>2. ASSUME NEW i \in 1..Len(v), NEW j \in 1..Len(v), w[Len(u) + i] = w[Len(u) + j] PROVE i = j
    BY <1>9, <1>11, <2>2
  <2>3. ASSUME NEW i \in 1..Len(u), NEW j \in 1..Len(u), w[i] = w[j] PROVE i = j
    BY <1>11, <1>15, <2>3
  <2> QED  BY <1>16, <2>1, <2>2, <2>3
<1>22. SeenIs(repo, globs, e + 1, w)
  BY <1>20, <1>21 DEF SeenIs
<1>23. e + 1 <= Len(globs)
  BY <1>2, <1>3 DEF globs
<1>24. WorkInv(repo, s, new)
  BY <1>1, <1>13, <1>14, <1>22, <1>23 DEF WorkInv, globs
<1> QED  BY <1>24 DEF new

\* The declaration of highest rank is the one whose patterns are expanded.
LEMMA SourceIsGlobs ==
  ASSUME NEW repo, Repo(repo), NEW s, NEW out \in Seq(Pattern), ListedIs(s, out), NEW g
  PROVE  g \in Work!Source(repo, s) <=>
           \E i \in 1..Len(Work!Globs(repo, out)) : Work!Globs(repo, out)[i] = g
<1>1. \A d : d \in Work!Declared(s) <=> \E i \in 1..Len(out) : out[i] = d
  BY DEF ListedIs
<1>2. repo.workspaces \in Seq(Pattern) /\ repo.lernaGlobs \in Seq(Pattern)
  BY DEF Repo
<1>3. \A q \in Seq(Pattern) : g \in Work!ToSet(q) <=> \E i \in 1..Len(q) : q[i] = g
  BY DEF Work!ToSet
<1>4. out = <<>> <=> Work!Declared(s) = {}
  <2>1. out # <<>> => 1 \in 1..Len(out)
    OBVIOUS
  <2>2. out = <<>> => \A i : i \notin 1..Len(out)
    OBVIOUS
  <2> QED  BY <1>1, <2>1, <2>2
<1>5. CASE out # <<>>
  <2>1. Work!Source(repo, s) = Work!Declared(s)
    BY <1>4, <1>5 DEF Work!Source
  <2>2. Work!Globs(repo, out) = out
    BY <1>5 DEF Work!Globs
  <2> QED  BY <1>1, <2>1, <2>2
<1>6. CASE out = <<>> /\ Work!PkgJsonGlobs(repo) # <<>>
  <2>1. Work!PkgJsonGlobs(repo) = repo.workspaces
    BY <1>6 DEF Work!PkgJsonGlobs
  <2>2. Work!Source(repo, s) = Work!ToSet(repo.workspaces)
    BY <1>4, <1>6 DEF Work!Source
  <2>3. Work!Globs(repo, out) = repo.workspaces
    BY <1>6, <2>1 DEF Work!Globs
  <2> QED  BY <1>2, <1>3, <2>2, <2>3
<1>7. CASE out = <<>> /\ Work!PkgJsonGlobs(repo) = <<>>
  <2>1. Work!Source(repo, s) = Work!ToSet(repo.lernaGlobs)
    BY <1>4, <1>7 DEF Work!Source
  <2>2. Work!Globs(repo, out) = repo.lernaGlobs
    BY <1>7 DEF Work!Globs
  <2> QED  BY <1>2, <1>3, <2>1, <2>2
<1> QED  BY <1>5, <1>6, <1>7

\* Who names a package matches it: the tree has the directory above it.
LEMMA NamedIsMatched ==
  ASSUME NEW repo, Repo(repo), NEW g \in Pattern, NEW p \in DOMAIN repo.dirs,
         Work!Names(repo, g, p)
  PROVE  <<p, FALSE>> \in Work!Matched(repo, g)
<1>1. ~g.slash /\ g.slash = FALSE /\ g.path \in Path
  BY DEF Pattern, Work!Names
<1>2. Work!HasManifest(repo, p)
  BY DEF Work!Names
<1>3. CASE g.shape = "dir" /\ p = g.path
  BY <1>1, <1>2, <1>3 DEF Work!Matched
<1>4. CASE g.shape = "star" /\ p \in Work!Children(repo, g.path)
  <2>1. p \in Seq(STRING) /\ g.path \in Seq(STRING)
    BY <1>1 DEF Repo, Path
  <2>2. /\ Len(p) = Len(g.path) + 1
        /\ SubSeq(g.path, 1, Len(g.path)) = SubSeq(p, 1, Len(g.path))
    BY <1>4 DEF Work!Children, Work!IsPrefix
  <2> DEFINE a == g.path
             n == Len(a)
  <2>3. n \in Nat /\ n \in 0..Len(p) /\ SubSeq(a, 1, n) = a
    BY <2>1, <2>2
  <2>4. SubSeq(p, 1, n) \in DOMAIN repo.dirs
    <3> HIDE DEF n
    <3> QED  BY <2>3 DEF Repo
  <2>5. Work!Exists(repo, g.path)
    BY <2>2, <2>3, <2>4 DEF Work!Exists
  <2>6. Work!Matched(repo, g) =
          {<<q, FALSE>> : q \in {q \in Work!Children(repo, g.path) : Work!HasManifest(repo, q)}}
    BY <1>1, <1>4, <2>5 DEF Work!Matched
  <2> QED  BY <1>2, <1>4, <2>6
<1> QED  BY <1>3, <1>4 DEF Work!Names

\* What is matched has a manifest, and a slash only if the pattern has one.
LEMMA MatchedHasManifest ==
  ASSUME NEW repo, NEW g \in Pattern, NEW d \in Work!Matched(repo, g)
  PROVE  Work!HasManifest(repo, d[1]) /\ (~g.slash => d[2] = FALSE)
<1>1. g.slash \in BOOLEAN
  BY DEF Pattern
<1>2. CASE g.shape = "star"
  <2>1. \E p : Work!HasManifest(repo, p) /\ d = <<p, FALSE>>
    BY <1>2 DEF Work!Matched
  <2> QED  BY <2>1
<1>3. CASE g.shape # "star"
  <2>1. Work!HasManifest(repo, g.path) /\ d = <<g.path, g.slash>>
    BY <1>3 DEF Work!Matched
  <2> QED  BY <1>1, <2>1
<1> QED  BY <1>2, <1>3

\* A pattern that names no package is reported, or is one of the exceptions.
LEMMA UnresolvedIsTold ==
  ASSUME NEW repo, NEW g \in Pattern, ~Work!Unresolved(repo, g),
         \A p \in DOMAIN repo.dirs : ~Work!Names(repo, g, p)
  PROVE  \/ g.shape = "star" /\ Work!Exists(repo, g.path)
         \/ g.shape = "dir" /\ g.slash /\ Work!HasManifest(repo, g.path)
<1>1. g.slash \in BOOLEAN
  BY DEF Pattern
<1>2. /\ g.shape \in {"star", "dir"}
      /\ g.shape = "star" => Work!Exists(repo, g.path)
      /\ g.shape = "dir" => Work!HasManifest(repo, g.path)
  BY DEF Work!Unresolved
<1>3. ASSUME g.shape = "dir", ~g.slash PROVE FALSE
  <2>1. g.path \in DOMAIN repo.dirs
    BY <1>2, <1>3 DEF Work!HasManifest, Work!Exists
  <2>2. Work!Names(repo, g, g.path)
    BY <1>2, <1>3 DEF Work!Names
  <2> QED  BY <2>1, <2>2
<1> QED  BY <1>2, <1>3

\* A workspace of a single kind has no mark of another.
LEMMA SingleHasNothing ==
  ASSUME NEW repo, Repo(repo), NEW out,
         Work!Kind(Work!Indicators(repo, out)) = "single"
  PROVE  repo.markers = {} /\ Work!Globs(repo, out) = <<>>
<1> DEFINE marks == Work!Indicators(repo, out)
           All == {"lerna.json", "nx.json", "turbo.json", "pnpm-workspace.yaml", "package.json#workspaces"}
<1>1. repo.markers \subseteq {"lerna.json", "nx.json", "turbo.json"}
      /\ (repo.lernaGlobs # <<>> => "lerna.json" \in repo.markers)
  BY DEF Repo
<1>2. /\ out # <<>> => "pnpm-workspace.yaml" \in marks
      /\ Work!PkgJsonGlobs(repo) # <<>> => "package.json#workspaces" \in marks
      /\ repo.markers \cap {"lerna.json", "nx.json", "turbo.json"} \subseteq marks
      /\ marks \subseteq All
  BY DEF Work!Indicators
<1>3. Work!Kind(marks) = "single"
  OBVIOUS
<1> HIDE DEF marks
<1>4. /\ "nx.json" \notin marks /\ "turbo.json" \notin marks /\ "pnpm-workspace.yaml" \notin marks
      /\ "lerna.json" \notin marks /\ marks # {"package.json#workspaces"}
  BY <1>3, Zenon DEF Work!Kind
<1>5. marks = {}
  <2>1. marks \subseteq {"package.json#workspaces"}
    BY <1>2, <1>4
  <2> QED  BY <1>4, <2>1
<1>6. out = <<>> /\ Work!PkgJsonGlobs(repo) = <<>> /\ repo.markers = {}
  BY <1>1, <1>2, <1>5
<1>7. repo.lernaGlobs = <<>>
  BY <1>1, <1>6
<1> QED  BY <1>6, <1>7 DEF Work!Globs

\* The packages are the directories seen, or the root.
LEMMA PackagesAre ==
  ASSUME NEW repo, NEW seen \in Seq(Directory)
  PROVE  /\ seen # <<>> => /\ DOMAIN Work!Packages(repo, seen) = 1..Len(seen)
                           /\ \A i \in 1..Len(seen) : Work!Packages(repo, seen)[i] = seen[i][1]
         /\ seen = <<>> /\ Work!RootParses(repo) =>
              /\ DOMAIN Work!Packages(repo, seen) = {1} /\ Work!Packages(repo, seen)[1] = <<>>
         /\ seen = <<>> /\ ~Work!RootParses(repo) => DOMAIN Work!Packages(repo, seen) = {}
<1>1. ASSUME seen # <<>>
      PROVE  /\ DOMAIN Work!Packages(repo, seen) = 1..Len(seen)
             /\ \A i \in 1..Len(seen) : Work!Packages(repo, seen)[i] = seen[i][1]
  <2>1. Work!Packages(repo, seen) = [i \in DOMAIN seen |-> seen[i][1]]
    BY <1>1 DEF Work!Packages
  <2> QED  BY <2>1
<1>2. ASSUME seen = <<>>, Work!RootParses(repo)
      PROVE  /\ DOMAIN Work!Packages(repo, seen) = {1} /\ Work!Packages(repo, seen)[1] = <<>>
  <2>1. Work!Packages(repo, seen) = << <<>> >>
    BY <1>2 DEF Work!Packages
  <2>2. DOMAIN << <<>> >> = {1}
    OBVIOUS
  <2> QED  BY <2>1, <2>2
<1>3. ASSUME seen = <<>>, ~Work!RootParses(repo) PROVE DOMAIN Work!Packages(repo, seen) = {}
  <2>1. Work!Packages(repo, seen) = <<>>
    BY <1>3 DEF Work!Packages
  <2> QED  BY <2>1
<1> QED  BY <1>1, <1>2, <1>3

\* Once all patterns are expanded, the workspace is whole.
LEMMA WorkRead ==
  ASSUME NEW repo, Repo(repo), NEW s, NEW st, WorkInv(repo, s, st)
  PROVE  Work!WorkspaceIsWhole(repo, s, st)
<1> DEFINE globs == Work!Globs(repo, st.out)
           packages == Work!Packages(repo, st.seen)
           dropped == {i \in DOMAIN globs : Work!Unresolved(repo, globs[i])}
           kind == Work!Kind(Work!Indicators(repo, st.out))
           source == Work!Source(repo, s)
           seen == st.seen
           w == Work!DetectWorkspace(repo, st)
<1>1. w.kind = kind /\ w.packages = packages /\ w.globs = globs /\ w.dropped = dropped
  BY DEF Work!DetectWorkspace
<1>2. st.out \in Seq(Pattern) /\ seen \in Seq(Directory)
  BY DEF WorkInv, WorkShape
<1>3. globs \in Seq(Pattern) /\ Len(globs) \in Nat /\ DOMAIN globs = 1..Len(globs)
  BY <1>2, GlobsTyped
<1> HIDE DEF w
<1>4. SUFFICES ASSUME \A i \in DOMAIN s : s[i].indented, st.expanded = Len(globs)
               PROVE  /\ (\A g \in source : ~g.slash) => Work!IsInjective(packages)
                      /\ \A i \in DOMAIN packages : Work!HasManifest(repo, packages[i])
                      /\ \A p \in DOMAIN repo.dirs :
                           (\E g \in source : Work!Names(repo, g, p)) => p \in Work!ToSet(packages)
                      /\ \A g \in source : (\A p \in DOMAIN repo.dirs : ~Work!Names(repo, g, p)) =>
                           \/ \E i \in dropped : globs[i] = g
                           \/ g.shape = "star" /\ Work!Exists(repo, g.path)
                           \/ g.shape = "dir" /\ g.slash /\ Work!HasManifest(repo, g.path)
                      /\ kind = "single" => source = {} /\ repo.markers = {}
  <2> HIDE DEF globs, packages, dropped, kind, source
  <2> QED  BY <1>1, Zenon DEF Work!WorkspaceIsWhole, source, w
<1>5. ListedIs(s, st.out)
  BY <1>4 DEF WorkInv, Indented
<1>6. \A g : g \in source <=> \E i \in 1..Len(globs) : globs[i] = g
  BY <1>2, <1>5, SourceIsGlobs
<1>7. /\ \A d : (\E i \in 1..Len(seen) : seen[i] = d) <=>
                \E k \in 1..Len(globs) : d \in Work!Matched(repo, globs[k])
      /\ \A i, j \in 1..Len(seen) : seen[i] = seen[j] => i = j
  BY <1>4 DEF WorkInv, SeenIs
<1>8. /\ seen # <<>> => /\ DOMAIN packages = 1..Len(seen)
                        /\ \A i \in 1..Len(seen) : packages[i] = seen[i][1]
      /\ seen = <<>> /\ Work!RootParses(repo) => DOMAIN packages = {1} /\ packages[1] = <<>>
      /\ seen = <<>> /\ ~Work!RootParses(repo) => DOMAIN packages = {}
  BY <1>2, PackagesAre
<1>9. \A k \in 1..Len(globs) : globs[k] \in Pattern /\ globs[k] \in source
  <2> HIDE DEF globs, source
  <2> QED  BY <1>3, <1>6
<1>10. \A i \in 1..Len(seen) : seen[i] = <<seen[i][1], seen[i][2]>>
  <2>1. \A i \in 1..Len(seen) : seen[i] \in Directory
    BY <1>2
  <2> HIDE DEF seen
  <2> QED  BY <2>1 DEF Directory
<1> HIDE DEF globs, packages, dropped, kind, source, seen
<1>11. ASSUME \A g \in source : ~g.slash PROVE Work!IsInjective(packages)
  <2>1. \A i \in 1..Len(seen) : seen[i][2] = FALSE
    <3>1. TAKE i \in 1..Len(seen)
    <3>2. PICK k \in 1..Len(globs) : seen[i] \in Work!Matched(repo, globs[k])
      BY <1>7
    <3> QED  BY <1>9, <1>11, <3>2, MatchedHasManifest
  <2>2. \A i, j \in 1..Len(seen) : seen[i][1] = seen[j][1] => i = j
    <3>1. TAKE i, j \in 1..Len(seen)
    <3>2. HAVE seen[i][1] = seen[j][1]
    <3>3. seen[i] = seen[j]
      BY <1>10, <2>1, <3>2
    <3> QED  BY <1>7, <3>3
  <2>3. \A i, j \in DOMAIN packages : packages[i] = packages[j] => i = j
    BY <1>8, <2>2
  <2> QED  BY <2>3 DEF Work!IsInjective
<1>12. ASSUME NEW i \in DOMAIN packages PROVE Work!HasManifest(repo, packages[i])
  <2>1. CASE seen # <<>>
    <3>1. i \in 1..Len(seen) /\ packages[i] = seen[i][1]
      BY <1>8, <2>1
    <3>2. PICK k \in 1..Len(globs) : seen[i] \in Work!Matched(repo, globs[k])
      BY <1>7, <3>1
    <3> QED  BY <1>9, <3>1, <3>2, MatchedHasManifest
  <2>2. CASE seen = <<>>
    <3>1. Work!RootParses(repo) /\ packages[i] = <<>>
      BY <1>8, <2>2
    <3>2. <<>> \in DOMAIN repo.dirs /\ repo.dirs[<<>>] = "named"
      BY <3>1 DEF Repo, Work!RootParses
    <3> QED  BY <3>1, <3>2 DEF Work!HasManifest, Work!Exists
  <2> QED  BY <2>1, <2>2
<1>13. ASSUME NEW p \in DOMAIN repo.dirs, NEW g \in source, Work!Names(repo, g, p)
       PROVE  p \in Work!ToSet(packages)
  <2>1. PICK k \in 1..Len(globs) : globs[k] = g
    BY <1>6
  <2>2. <<p, FALSE>> \in Work!Matched(repo, globs[k])
    BY <1>9, <1>13, <2>1, NamedIsMatched
  <2>3. PICK i \in 1..Len(seen) : seen[i] = <<p, FALSE>>
    BY <1>7, <2>2
  <2>4. seen # <<>>
    <3>1. seen = <<>> => 1..Len(seen) = {}
      OBVIOUS
    <3> QED  BY <2>3, <3>1
  <2>5. i \in DOMAIN packages /\ packages[i] = p
    <3>1. seen[i][1] = p
      BY <2>3
    <3> QED  BY <1>8, <2>3, <2>4, <3>1
  <2> QED  BY <2>5 DEF Work!ToSet
<1>14. ASSUME NEW g \in source, \A p \in DOMAIN repo.dirs : ~Work!Names(repo, g, p)
       PROVE  \/ \E i \in dropped : globs[i] = g
              \/ g.shape = "star" /\ Work!Exists(repo, g.path)
              \/ g.shape = "dir" /\ g.slash /\ Work!HasManifest(repo, g.path)
  <2>1. PICK k \in 1..Len(globs) : globs[k] = g
    BY <1>6
  <2>2. CASE Work!Unresolved(repo, g)
    <3>1. k \in dropped
      BY <1>3, <2>1, <2>2 DEF dropped
    <3> QED  BY <2>1, <3>1
  <2>3. CASE ~Work!Unresolved(repo, g)
    <3>1. g \in Pattern
      BY <1>9, <2>1
    <3> QED  BY <1>14, <2>3, <3>1, UnresolvedIsTold
  <2> QED  BY <2>2, <2>3
<1>15. ASSUME kind = "single" PROVE source = {} /\ repo.markers = {}
  <2>1. repo.markers = {} /\ globs = <<>>
    BY <1>15, SingleHasNothing DEF kind, globs
  <2>2. 1..Len(globs) = {}
    BY <2>1
  <2> QED  BY <1>6, <2>1, <2>2
<1> QED  BY <1>11, <1>12, <1>13, <1>14, <1>15

-----------------------------------------------------------------------------
(* Readers: the loops together *)

\* What each loop keeps of the lines it has read.
LoopInv(r, lines, st) ==
    /\ r.kind \in StaleKinds => StaleInv(r.kind, lines, st)
    /\ r.kind = "requirements.txt" => Lang!RequirementsAreRead(lines, st)
    /\ r.kind = "Pipfile" => PipfileInv(lines, st)
    /\ r.kind = "pyproject.toml" => PyInv(lines, st)
    /\ r.kind = "go.mod" => GoInv(lines, st)
    /\ r.kind = "Cargo.toml" => CargoInv(lines, st)
    /\ r.kind = "answer" => AnswerInv(lines, st)
    /\ r.kind = "hosts" => HostsInv(lines, st)
    /\ r.kind = "workspace" => Repo(r.repo) /\ WorkInv(r.repo, lines, st)
ReaderInv ==
    /\ reader.kind \in Kinds /\ input \in Seq(FormOf(reader.kind))
    /\ LoopInv(reader, input, parsed)

\* The lines of each kind of reader.
LEMMA Forms ==
  /\ \A kind \in StaleKinds : FormOf(kind) = Dep
  /\ FormOf("requirements.txt") = NamedLine /\ FormOf("Pipfile") = NamedLine
  /\ FormOf("pyproject.toml") = PyLine /\ FormOf("go.mod") = GoLine
  /\ FormOf("Cargo.toml") = CargoLine /\ FormOf("answer") = AnswerLine
  /\ FormOf("hosts") = Host /\ FormOf("workspace") = PnpmLine
<1>1. \A kind \in StaleKinds : FormOf(kind) = Dep
  BY DEF FormOf, StaleKinds
<1>2. FormOf("requirements.txt") = NamedLine
  BY DEF FormOf, StaleKinds
<1>3. FormOf("Pipfile") = NamedLine
  BY DEF FormOf, StaleKinds
<1>4. FormOf("pyproject.toml") = PyLine
  BY DEF FormOf, StaleKinds
<1>5. FormOf("go.mod") = GoLine
  BY DEF FormOf, StaleKinds
<1>6. FormOf("Cargo.toml") = CargoLine
  BY DEF FormOf, StaleKinds
<1>7. FormOf("answer") = AnswerLine
  BY DEF FormOf, StaleKinds, AnswerLine
<1>8. FormOf("hosts") = Host
  BY DEF FormOf, StaleKinds
<1>9. FormOf("workspace") = PnpmLine
  BY DEF FormOf, StaleKinds
<1> QED  BY <1>1, <1>2, <1>3, <1>4, <1>5, <1>6, <1>7, <1>8, <1>9

\* Before the first line.
LEMMA StaleStart ==
  ASSUME NEW lang PROVE StaleInv(lang, <<>>, Lang!Nothing)
<1> DEFINE st == Lang!Nothing
           N == {i \in 1..0 : Lang!Skipped(lang, <<>>[i])}
<1>1. st = [stale |-> <<>>, checked |-> 0, failed |-> 0]
  BY DEF Lang!Nothing
<1>2. Cardinality(N) = 0
  <2>1. N = {}
    OBVIOUS
  <2> QED  BY <2>1, FS_EmptySet
<1>3. Len(<<>>) = 0 /\ \A i : i \notin 1..0
  OBVIOUS
<1>4. StaleHold(lang, <<>>, <<>>, 0, 0)
  <2>1. 0 + 0 + Cardinality({i \in 1..Len(<<>>) : Lang!Skipped(lang, <<>>[i])}) = Len(<<>>)
    BY <1>2, <1>3
  <2> QED  BY <1>3, <2>1 DEF StaleHold
<1> QED  BY <1>1, <1>4 DEF StaleInv

\* Before the first line of a manifest.
LEMMA ManifestStarts ==
  /\ Lang!RequirementsAreRead(<<>>, <<>>) /\ PipfileInv(<<>>, Lang!NoPipfile)
  /\ PyInv(<<>>, Lang!NoPyproject) /\ GoInv(<<>>, Lang!NoGoMod)
  /\ CargoInv(<<>>, Lang!NoCargoToml)
<1>1. Len(<<>>) = 0 /\ DOMAIN <<>> = {} /\ (\A i : i \notin 1..0) /\ (\A i : i \notin 1..(0 + 1 - 1))
      /\ 0 + 1 = 1 /\ \A i : i \notin 1..(1 - 1)
  OBVIOUS
<1>2. \A I, d : I = {} /\ DOMAIN d = {} => Lang!ReadsLast(<<>>, I, d)
  BY DEF Lang!ReadsLast
<1>3. Lang!RequirementsAreRead(<<>>, <<>>)
  BY <1>1, <1>2 DEF Lang!RequirementsAreRead
<1>4. \A h : ~Lang!Below(<<>>, 1, h)
  BY <1>1 DEF Lang!Below
<1>5. PipfileInv(<<>>, Lang!NoPipfile)
  <2> DEFINE st == Lang!NoPipfile
  <2>1. st = [in |-> FALSE, deps |-> <<>>] /\ st.in = FALSE /\ st.deps = <<>>
    BY DEF Lang!NoPipfile
  <2> HIDE DEF st
  <2>2. Lang!PipfileIsRead(<<>>, st)
    BY <1>1, <1>2, <2>1 DEF Lang!PipfileIsRead
  <2>3. PipfileInv(<<>>, st)
    BY <1>1, <1>4, <2>1, <2>2 DEF PipfileInv
  <2> QED  BY <2>3 DEF st
<1>6. PyInv(<<>>, Lang!NoPyproject)
  <2> DEFINE st == Lang!NoPyproject
  <2>1. /\ st = [mode |-> "none", buffer |-> <<>>, deps |-> <<>>, unparsed |-> {}]
        /\ st.mode = "none" /\ st.buffer = <<>> /\ st.deps = <<>> /\ st.unparsed = {}
    BY DEF Lang!NoPyproject
  <2> HIDE DEF st
  <2>2. PyShape(st)
    BY <2>1 DEF PyShape
  <2>3. ~Lang!ReadAsArray(<<>>, 1)
    BY <1>1 DEF Lang!ReadAsArray
  <2>4. PyKnown(st) = {}
    BY <1>1, <2>1 DEF PyKnown, Names
  <2>5. Lang!PyAboveExtras(<<>>) = {}
    BY <1>1 DEF Lang!PyAboveExtras, Lang!PyEntries, Lang!PyArrayLines
  <2>6. PyHold(<<>>, st)
    BY <1>1, <1>4, <2>1, <2>3, <2>4, <2>5 DEF PyHold
  <2>7. PyInv(<<>>, st)
    BY <2>2, <2>6 DEF PyInv
  <2> QED  BY <2>7 DEF st
<1>7. GoInv(<<>>, Lang!NoGoMod)
  <2> DEFINE st == Lang!NoGoMod
  <2>1. /\ st = [inRequire |-> FALSE, inOther |-> FALSE, requires |-> <<>>, indirect |-> {}, unparsed |-> {}]
        /\ st.inRequire = FALSE /\ st.inOther = FALSE /\ st.requires = <<>> /\ st.indirect = {}
        /\ st.unparsed = {}
    BY DEF Lang!NoGoMod
  <2> HIDE DEF st
  <2>2. \A b : ~Lang!InBlock(<<>>, 1, b)
    BY <1>1 DEF Lang!InBlock
  <2>3. \A b : Lang!GoRequired(<<>>, b) = {}
    BY <1>1 DEF Lang!GoRequired
  <2>4. Lang!GoModIsRead(<<>>, st)
    BY <1>1, <1>2, <2>1, <2>3 DEF Lang!GoModIsRead
  <2>5. GoInv(<<>>, st)
    BY <1>1, <2>1, <2>2, <2>4 DEF GoInv
  <2> QED  BY <2>5 DEF st
<1>8. CargoInv(<<>>, Lang!NoCargoToml)
  <2> DEFINE st == Lang!NoCargoToml
  <2>1. /\ st = [section |-> <<"other">>, deps |-> <<>>, workspace |-> <<>>, unparsed |-> {}, skipped |-> 0]
        /\ st.section = <<"other">> /\ st.deps = <<>> /\ st.workspace = <<>> /\ st.unparsed = {}
        /\ st.skipped = 0
    BY DEF Lang!NoCargoToml
  <2> HIDE DEF st
  <2>2. CargoShape(st)
    BY <2>1 DEF CargoShape
  <2>3. SectionInv(<<>>, st.section)
    BY <1>1, <1>4, <2>1 DEF SectionInv, Elsewhere, Deps
  <2>4. Lang!CargoDeclared(<<>>) = {} /\ DOMAIN st.deps = {}
    BY <1>1, <2>1 DEF Lang!CargoDeclared
  <2>5. CargoInv(<<>>, st)
    BY <2>2, <2>3, <2>4 DEF CargoInv
  <2> QED  BY <2>5 DEF st
<1> QED  BY <1>3, <1>5, <1>6, <1>7, <1>8

\* Before the first host.
LEMMA HostsStart == HostsInv(<<>>, Tool!NoHosts)
<1> DEFINE st == Tool!NoHosts
<1>1. st = [accepted |-> <<>>, rejected |-> <<>>] /\ st.accepted = <<>> /\ st.rejected = <<>>
  BY DEF Tool!NoHosts
<1> HIDE DEF st
<1>2. HostsInv(<<>>, st)
  BY <1>1 DEF HostsInv, HostsHold
<1> QED  BY <1>2 DEF st

\* Every loop starts within its invariant.
LEMMA LoopsStart == ReaderInit => ReaderInv
<1>1. SUFFICES ASSUME ReaderInit PROVE ReaderInv
  OBVIOUS
<1>2. /\ \/ \E kind \in Kinds \ {"workspace"} : reader = [kind |-> kind]
         \/ \E repo \in Repos : reader = [kind |-> "workspace", repo |-> repo]
      /\ input = <<>> /\ parsed = Start(reader.kind)
  BY <1>1 DEF ReaderInit
<1>3. /\ reader.kind \in Kinds
      /\ reader.kind = "workspace" => Repo(reader.repo)
  <2>1. "workspace" \in Kinds
    BY DEF Kinds
  <2>2. \A repo \in Repos : Repo(repo)
    BY ReaderAssumption
  <2>3. CASE \E kind \in Kinds \ {"workspace"} : reader = [kind |-> kind]
    BY <2>3
  <2>4. CASE \E repo \in Repos : reader = [kind |-> "workspace", repo |-> repo]
    BY <2>1, <2>2, <2>4
  <2> QED  BY <1>2, <2>3, <2>4
<1> DEFINE k == reader.kind
<1>4. /\ k \in StaleKinds => parsed = Lang!Nothing
      /\ k = "requirements.txt" => parsed = <<>>
      /\ k = "Pipfile" => parsed = Lang!NoPipfile
      /\ k = "pyproject.toml" => parsed = Lang!NoPyproject
      /\ k = "go.mod" => parsed = Lang!NoGoMod
  BY <1>2 DEF Start, StaleKinds
<1>5. /\ k = "Cargo.toml" => parsed = Lang!NoCargoToml
      /\ k = "answer" => parsed = Edit!NoAnswer
      /\ k = "hosts" => parsed = Tool!NoHosts
      /\ k = "workspace" => parsed = Work!NothingSeen
  BY <1>2 DEF Start, StaleKinds
<1>6. LoopInv(reader, <<>>, parsed)
  <2>1. k \in StaleKinds => StaleInv(k, <<>>, parsed)
    BY <1>4, StaleStart
  <2>2. k = "workspace" => WorkInv(reader.repo, <<>>, parsed)
    BY <1>3, <1>5, WorkStart
  <2>3. k = "answer" => AnswerInv(<<>>, parsed)
    BY <1>5, AnswerStart
  <2>4. k = "hosts" => HostsInv(<<>>, parsed)
    BY <1>5, HostsStart
  <2>5. /\ k = "requirements.txt" => Lang!RequirementsAreRead(<<>>, parsed)
        /\ k = "Pipfile" => PipfileInv(<<>>, parsed)
        /\ k = "pyproject.toml" => PyInv(<<>>, parsed)
        /\ k = "go.mod" => GoInv(<<>>, parsed)
        /\ k = "Cargo.toml" => CargoInv(<<>>, parsed)
    BY <1>4, <1>5, ManifestStarts
  <2> QED  BY <1>3, <2>1, <2>2, <2>3, <2>4, <2>5 DEF LoopInv
<1>7. input \in Seq(FormOf(reader.kind))
  BY <1>2
<1> QED  BY <1>2, <1>3, <1>6, <1>7 DEF ReaderInv

\* A round of a loop, and what the step has to keep.
LEMMA TakesLine ==
  ASSUME ReaderInv, NEW kind \in Kinds, More(kind), NEW l \in Lines[kind], NEW st, Takes(l, st)
  PROVE  /\ reader' = reader /\ reader.kind = kind /\ input' = Append(input, l) /\ parsed' = st
         /\ l \in FormOf(kind) /\ input \in Seq(FormOf(kind))
         /\ LoopInv(reader, Append(input, l), st) => ReaderInv'
<1>1. reader' = reader /\ reader.kind = kind /\ input' = Append(input, l) /\ parsed' = st
  BY DEF More, Takes
<1>2. Lines[kind] \subseteq FormOf(kind)
  BY ReaderAssumption
<1>3. l \in FormOf(kind) /\ input \in Seq(FormOf(kind))
  BY <1>1, <1>2 DEF ReaderInv
<1>4. Append(input, l) \in Seq(FormOf(kind))
  BY <1>3
<1>5. ASSUME LoopInv(reader, Append(input, l), st) PROVE ReaderInv'
  <2>1. LoopInv(reader', input', parsed')
    BY <1>1, <1>5
  <2>2. reader'.kind \in Kinds /\ input' \in Seq(FormOf(reader'.kind))
    BY <1>1, <1>4
  <2> QED  BY <2>1, <2>2 DEF ReaderInv
<1> QED  BY <1>1, <1>3, <1>5

\* Every round of a loop keeps its invariant.
LEMMA ReaderStep == ReaderInv /\ [ReaderNext]_readerState => ReaderInv'
<1>1. SUFFICES ASSUME ReaderInv, [ReaderNext]_readerState PROVE ReaderInv'
  OBVIOUS
<1>2. LoopInv(reader, input, parsed) /\ input \in Seq(FormOf(reader.kind))
  BY <1>1 DEF ReaderInv
<1>3. CASE CountDep
  <2>1. PICK lang \in StaleKinds : /\ More(lang)
          /\ \E dep \in Lines[lang] : Takes(dep, Lang!CountDep(lang, parsed, dep))
    BY <1>3 DEF CountDep
  <2>2. PICK dep \in Lines[lang] : Takes(dep, Lang!CountDep(lang, parsed, dep))
    BY <2>1
  <2> DEFINE st == Lang!CountDep(lang, parsed, dep)
  <2>3. lang \in Kinds
    BY DEF Kinds
  <2> HIDE DEF st
  <2>4. /\ reader.kind = lang /\ dep \in FormOf(lang) /\ input \in Seq(FormOf(lang))
        /\ LoopInv(reader, Append(input, dep), st) => ReaderInv'
    BY <1>1, <2>1, <2>2, <2>3, TakesLine DEF st
  <2>5. dep \in Dep /\ input \in Seq(Dep)
    BY <2>4, Forms
  <2>6. StaleInv(lang, input, parsed)
    BY <1>2, <2>4 DEF LoopInv
  <2>7. StaleInv(lang, Append(input, dep), st)
    BY <2>5, <2>6, StaleStep DEF st
  <2>8. LoopInv(reader, Append(input, dep), st)
    BY <2>4, <2>7 DEF LoopInv, StaleKinds
  <2> QED  BY <2>4, <2>8
<1>4. CASE ReadRequirement
  <2>1. PICK l \in Lines["requirements.txt"] : Takes(l, Lang!RequirementLine(parsed, l))
    BY <1>4 DEF ReadRequirement
  <2> DEFINE st == Lang!RequirementLine(parsed, l)
  <2>2. "requirements.txt" \in Kinds /\ More("requirements.txt")
    BY <1>4 DEF ReadRequirement, Kinds, FileKinds
  <2> HIDE DEF st
  <2>3. /\ reader.kind = "requirements.txt" /\ l \in NamedLine /\ input \in Seq(NamedLine)
        /\ LoopInv(reader, Append(input, l), st) => ReaderInv'
    BY <1>1, <2>1, <2>2, TakesLine, Forms DEF st
  <2>4. Lang!RequirementsAreRead(Append(input, l), st)
    BY <1>2, <2>3, RequirementStep DEF LoopInv, st
  <2>5. LoopInv(reader, Append(input, l), st)
    BY <2>3, <2>4 DEF LoopInv, StaleKinds
  <2> QED  BY <2>3, <2>5
<1>5. CASE ReadPipfile
  <2>1. PICK l \in Lines["Pipfile"] : Takes(l, Lang!PipfileLine(parsed, l))
    BY <1>5 DEF ReadPipfile
  <2> DEFINE st == Lang!PipfileLine(parsed, l)
  <2>2. "Pipfile" \in Kinds /\ More("Pipfile")
    BY <1>5 DEF ReadPipfile, Kinds, FileKinds
  <2> HIDE DEF st
  <2>3. /\ reader.kind = "Pipfile" /\ l \in NamedLine /\ input \in Seq(NamedLine)
        /\ LoopInv(reader, Append(input, l), st) => ReaderInv'
    BY <1>1, <2>1, <2>2, TakesLine, Forms DEF st
  <2>4. PipfileInv(Append(input, l), st)
    BY <1>2, <2>3, PipfileStep DEF LoopInv, st
  <2>5. LoopInv(reader, Append(input, l), st)
    BY <2>3, <2>4 DEF LoopInv, StaleKinds
  <2> QED  BY <2>3, <2>5
<1>6. CASE ReadPyproject
  <2>1. PICK l \in Lines["pyproject.toml"] : Takes(l, Lang!PyLine(parsed, l))
    BY <1>6 DEF ReadPyproject
  <2> DEFINE st == Lang!PyLine(parsed, l)
  <2>2. "pyproject.toml" \in Kinds /\ More("pyproject.toml")
    BY <1>6 DEF ReadPyproject, Kinds, FileKinds
  <2> HIDE DEF st
  <2>3. /\ reader.kind = "pyproject.toml" /\ l \in PyLine /\ input \in Seq(PyLine)
        /\ LoopInv(reader, Append(input, l), st) => ReaderInv'
    BY <1>1, <2>1, <2>2, TakesLine, Forms DEF st
  <2>4. PyInv(Append(input, l), st)
    BY <1>2, <2>3, PyStep DEF LoopInv, st
  <2>5. LoopInv(reader, Append(input, l), st)
    BY <2>3, <2>4 DEF LoopInv, StaleKinds
  <2> QED  BY <2>3, <2>5
<1>7. CASE ReadGoMod
  <2>1. PICK l \in Lines["go.mod"] : Takes(l, Lang!GoLine(parsed, l))
    BY <1>7 DEF ReadGoMod
  <2> DEFINE st == Lang!GoLine(parsed, l)
  <2>2. "go.mod" \in Kinds /\ More("go.mod")
    BY <1>7 DEF ReadGoMod, Kinds, FileKinds
  <2> HIDE DEF st
  <2>3. /\ reader.kind = "go.mod" /\ l \in GoLine /\ input \in Seq(GoLine)
        /\ LoopInv(reader, Append(input, l), st) => ReaderInv'
    BY <1>1, <2>1, <2>2, TakesLine, Forms DEF st
  <2>4. GoInv(Append(input, l), st)
    BY <1>2, <2>3, GoStep DEF LoopInv, st
  <2>5. LoopInv(reader, Append(input, l), st)
    BY <2>3, <2>4 DEF LoopInv, StaleKinds
  <2> QED  BY <2>3, <2>5
<1>8. CASE ReadCargoToml
  <2>1. PICK l \in Lines["Cargo.toml"] : Takes(l, Lang!CargoLine(parsed, l))
    BY <1>8 DEF ReadCargoToml
  <2> DEFINE st == Lang!CargoLine(parsed, l)
  <2>2. "Cargo.toml" \in Kinds /\ More("Cargo.toml")
    BY <1>8 DEF ReadCargoToml, Kinds, FileKinds
  <2> HIDE DEF st
  <2>3. /\ reader.kind = "Cargo.toml" /\ l \in CargoLine /\ input \in Seq(CargoLine)
        /\ LoopInv(reader, Append(input, l), st) => ReaderInv'
    BY <1>1, <2>1, <2>2, TakesLine, Forms DEF st
  <2>4. CargoInv(Append(input, l), st)
    BY <1>2, <2>3, CargoStep DEF LoopInv, st
  <2>5. LoopInv(reader, Append(input, l), st)
    BY <2>3, <2>4 DEF LoopInv, StaleKinds
  <2> QED  BY <2>3, <2>5
<1>9. CASE ReadAnswer
  <2>1. PICK l \in Lines["answer"] : Takes(l, Edit!ParseLine(parsed, l))
    BY <1>9 DEF ReadAnswer
  <2> DEFINE st == Edit!ParseLine(parsed, l)
  <2>2. "answer" \in Kinds /\ More("answer")
    BY <1>9 DEF ReadAnswer, Kinds
  <2> HIDE DEF st
  <2>3. /\ reader.kind = "answer" /\ l \in AnswerLine /\ input \in Seq(AnswerLine)
        /\ LoopInv(reader, Append(input, l), st) => ReaderInv'
    BY <1>1, <2>1, <2>2, TakesLine, Forms DEF st
  <2>4. AnswerInv(Append(input, l), st)
    BY <1>2, <2>3, AnswerStep DEF LoopInv, st
  <2>5. LoopInv(reader, Append(input, l), st)
    BY <2>3, <2>4 DEF LoopInv, StaleKinds
  <2> QED  BY <2>3, <2>5
<1>10. CASE AddHost
  <2>1. PICK e \in Lines["hosts"] : Takes(e, Tool!AddHost(parsed, e))
    BY <1>10 DEF AddHost
  <2> DEFINE st == Tool!AddHost(parsed, e)
  <2>2. "hosts" \in Kinds /\ More("hosts")
    BY <1>10 DEF AddHost, Kinds
  <2> HIDE DEF st
  <2>3. /\ reader.kind = "hosts" /\ e \in Host /\ input \in Seq(Host)
        /\ LoopInv(reader, Append(input, e), st) => ReaderInv'
    BY <1>1, <2>1, <2>2, TakesLine, Forms DEF st
  <2>4. HostsInv(Append(input, e), st)
    BY <1>2, <2>3, HostStep DEF LoopInv, st
  <2>5. LoopInv(reader, Append(input, e), st)
    BY <2>3, <2>4 DEF LoopInv, StaleKinds
  <2> QED  BY <2>3, <2>5
<1>11. CASE ReadPnpm
  <2>1. PICK l \in Lines["workspace"] : Takes(l, Work!PnpmLine(parsed, l))
    BY <1>11 DEF ReadPnpm
  <2> DEFINE st == Work!PnpmLine(parsed, l)
  <2>2. "workspace" \in Kinds /\ More("workspace") /\ parsed.expanded = 0
    BY <1>11 DEF ReadPnpm, Kinds
  <2> HIDE DEF st
  <2>3. /\ reader.kind = "workspace" /\ l \in PnpmLine /\ input \in Seq(PnpmLine)
        /\ LoopInv(reader, Append(input, l), st) => ReaderInv'
    BY <1>1, <2>1, <2>2, TakesLine, Forms DEF st
  <2>4. Repo(reader.repo) /\ WorkInv(reader.repo, input, parsed)
    BY <1>2, <2>3 DEF LoopInv
  <2>5. WorkInv(reader.repo, Append(input, l), st)
    BY <2>2, <2>3, <2>4, PnpmStep DEF st
  <2>6. LoopInv(reader, Append(input, l), st)
    BY <2>3, <2>4, <2>5 DEF LoopInv, StaleKinds
  <2> QED  BY <2>3, <2>6
<1>12. CASE ExpandGlob
  <2> DEFINE st == Work!ExpandNext(reader.repo, parsed)
  <2>1. /\ reader.kind = "workspace" /\ parsed.expanded < Len(Work!Globs(reader.repo, parsed.out))
        /\ parsed' = st /\ reader' = reader /\ input' = input
    BY <1>12 DEF ExpandGlob
  <2> HIDE DEF st
  <2>2. Repo(reader.repo) /\ WorkInv(reader.repo, input, parsed) /\ input \in Seq(PnpmLine)
    BY <1>2, <2>1, Forms DEF LoopInv
  <2>3. WorkInv(reader.repo, input, st)
    BY <2>1, <2>2, GlobStep DEF st
  <2>4. LoopInv(reader, input, st)
    BY <2>1, <2>2, <2>3 DEF LoopInv, StaleKinds
  <2>5. LoopInv(reader', input', parsed')
    BY <2>1, <2>4
  <2>6. reader'.kind \in Kinds /\ input' \in Seq(FormOf(reader'.kind))
    BY <1>1, <2>1 DEF ReaderInv
  <2> QED  BY <2>5, <2>6 DEF ReaderInv
<1>13. CASE readerState' = readerState
  <2>1. reader' = reader /\ input' = input /\ parsed' = parsed
    BY <1>13 DEF readerState
  <2>2. LoopInv(reader', input', parsed')
    BY <1>2, <2>1
  <2>3. reader'.kind \in Kinds /\ input' \in Seq(FormOf(reader'.kind))
    BY <1>1, <2>1 DEF ReaderInv
  <2> QED  BY <2>2, <2>3 DEF ReaderInv
<1> QED  BY <1>1, <1>3, <1>4, <1>5, <1>6, <1>7, <1>8, <1>9, <1>10, <1>11, <1>12, <1>13 DEF ReaderNext

\* The invariant of a loop says what its reader promises.
LEMMA ReadersRead == ReaderInv => ListsAreRead
<1>1. SUFFICES ASSUME ReaderInv PROVE ListsAreRead
  OBVIOUS
<1>2. LoopInv(reader, input, parsed) /\ reader.kind \in Kinds /\ input \in Seq(FormOf(reader.kind))
  BY <1>1 DEF ReaderInv
<1> DEFINE k == reader.kind
<1>3. k \in StaleKinds => Lang!StaleAreTold(k, input, parsed)
  BY <1>2, Forms, StaleTold DEF LoopInv
<1>4. k = "requirements.txt" => Lang!RequirementsAreRead(input, parsed)
  BY <1>2 DEF LoopInv
<1>5. k = "Pipfile" => Lang!PipfileIsRead(input, parsed)
  BY <1>2 DEF LoopInv, PipfileInv
<1>6. k = "pyproject.toml" => Lang!PyprojectIsRead(input, parsed)
  BY <1>2, Forms, PyRead DEF LoopInv
<1>7. k = "go.mod" => Lang!GoModIsRead(input, parsed)
  BY <1>2 DEF LoopInv, GoInv
<1>8. k = "Cargo.toml" => Lang!CargoTomlIsRead(input, parsed)
  BY <1>2 DEF LoopInv, CargoInv, CargoTableNames, Lang!CargoTomlIsRead
<1>9. k = "answer" => Edit!AnswerIsRead(input, parsed.blocks)
  BY <1>2, Forms, AnswerRead DEF LoopInv
<1>10. k = "hosts" => Tool!EveryHostIsAnswered(input, parsed)
  <2>1. MaxHosts \in Nat
    BY ReaderAssumption
  <2> QED  BY <1>2, <2>1, Forms, HostsAnswered DEF LoopInv
<1>11. k = "workspace" => Work!WorkspaceIsWhole(reader.repo, input, parsed)
  BY <1>2, WorkRead DEF LoopInv
<1>12. \/ k \in StaleKinds \/ k = "requirements.txt" \/ k = "Pipfile" \/ k = "pyproject.toml"
       \/ k = "go.mod" \/ k = "Cargo.toml" \/ k = "answer" \/ k = "hosts" \/ k = "workspace"
  BY <1>2 DEF Kinds, FileKinds
<1>13. /\ "requirements.txt" \notin StaleKinds /\ "Pipfile" \notin StaleKinds
       /\ "pyproject.toml" \notin StaleKinds /\ "go.mod" \notin StaleKinds
       /\ "Cargo.toml" \notin StaleKinds /\ "answer" \notin StaleKinds
       /\ "hosts" \notin StaleKinds /\ "workspace" \notin StaleKinds
  BY DEF StaleKinds
<1>14. CASE k \in StaleKinds
  BY <1>3, <1>13, <1>14, Zenon DEF ListsAreRead
<1>15. CASE k = "requirements.txt"
  BY <1>4, <1>13, <1>15 DEF ListsAreRead
<1>16. CASE k = "Pipfile"
  BY <1>5, <1>13, <1>16 DEF ListsAreRead
<1>17. CASE k = "pyproject.toml"
  BY <1>6, <1>13, <1>17 DEF ListsAreRead
<1>18. CASE k = "go.mod"
  BY <1>7, <1>13, <1>18 DEF ListsAreRead
<1>19. CASE k = "Cargo.toml"
  BY <1>8, <1>13, <1>19 DEF ListsAreRead
<1>20. CASE k = "answer"
  BY <1>9, <1>13, <1>20 DEF ListsAreRead
<1>21. CASE k = "hosts"
  BY <1>10, <1>13, <1>21 DEF ListsAreRead
<1>22. CASE k = "workspace"
  BY <1>11, <1>13, <1>22 DEF ListsAreRead
<1> QED  BY <1>12, <1>14, <1>15, <1>16, <1>17, <1>18, <1>19, <1>20, <1>21, <1>22

\* Whatever it is given, of any length, a loop of Mendel reads what is declared
\* and loses none of it (lib/agent/lang, lib/agent/phases/detect.ts,
\* search-replace.ts, workspace, iptables-allowlist.ts).
THEOREM Lists == ReaderSpec => []ListsAreRead
<1>1. ReaderSpec => []ReaderInv
  BY LoopsStart, ReaderStep, PTL DEF ReaderSpec
<1> QED  BY <1>1, ReadersRead, PTL
=============================================================================
