------------------------- MODULE ConfigFile_proofs -------------------------
(***************************************************************************)
(* For files of any length: what ParseConfig yields, what is left of it    *)
(* when the file is cut short, and what its fingerprint tells apart.       *)
(***************************************************************************)
EXTENDS ConfigFile, SequenceTheorems, FiniteSetTheorems, TLAPS

USE MaxPresetsAssumption, TextsAssumption

-----------------------------------------------------------------------------
(* Induction and recursion, for sets and functions instead of formulas.    *)

Less == {p \in Nat \X Nat : p[1] < p[2]}

LEMMA LessWellFounded == IsWellFoundedOn(Less, Nat)
  BY NatLessThanWellFounded, Zenon DEF OpToRel, Less

\* A set with 0 and the successors of its naturals has all naturals.
LEMMA SetInduction ==
  ASSUME NEW T, 0 \in T, \A n \in Nat : n \in T => n + 1 \in T
  PROVE  \A n \in Nat : n \in T
  <1> DEFINE Missing == Nat \ T
  <1>1. SUFFICES ASSUME Missing # {}
                 PROVE  FALSE
    OBVIOUS
  <1>2. PICK m \in Missing : \A k \in Missing : <<k, m>> \notin Less
    <2>1. Missing \subseteq Nat
      OBVIOUS
    <2> HIDE DEF Missing
    <2> QED
      BY <1>1, <2>1, LessWellFounded, WFMin
  <1>3. m - 1 \in Missing
    OBVIOUS
  <1>4. <<m - 1, m>> \in Less
    BY <1>3 DEF Less
  <1> QED
    BY <1>2, <1>3, <1>4

\* h starts at base and goes on with step[1], ..., step[m].
Iterates(h, m, base, step) ==
  /\ h[0] = base
  /\ \A n \in 1..m : h[n] = step[n][h[n - 1]]

\* A function on 0..m may be given by its value at 0 and its steps.
LEMMA Recursion ==
  ASSUME NEW S, NEW base \in S, NEW m \in Nat,
         NEW step \in [1..m -> [S -> S]]
  PROVE  \E h \in [0..m -> S] : Iterates(h, m, base, step)
  <1> DEFINE Steps(h, k) == Iterates(h, k, base, step)
             T == {k \in Nat : k <= m => \E h \in [0..k -> S] : Steps(h, k)}
  <1> USE DEF Iterates
  <1>1. 0 \in T
    <2>1. [i \in 0..0 |-> base] \in [0..0 -> S]
      OBVIOUS
    <2>2. Steps([i \in 0..0 |-> base], 0)
      OBVIOUS
    <2> QED
      BY <2>1, <2>2
  <1>2. ASSUME NEW k \in Nat, k \in T
        PROVE  k + 1 \in T
    <2> SUFFICES ASSUME k + 1 <= m
                 PROVE  \E g \in [0..(k + 1) -> S] : Steps(g, k + 1)
      OBVIOUS
    <2>1. PICK h \in [0..k -> S] : Steps(h, k)
      BY <1>2
    <2> DEFINE g == [i \in 0..(k + 1) |->
                       IF i = k + 1 THEN step[k + 1][h[k]] ELSE h[i]]
    <2>2. g \in [0..(k + 1) -> S]
      <3>1. step[k + 1] \in [S -> S] /\ h[k] \in S
        OBVIOUS
      <3>2. step[k + 1][h[k]] \in S
        BY <3>1
      <3> QED
        BY <3>2
    <2>3. g[0] = base
      BY <2>1
    <2>4. ASSUME NEW n \in 1..(k + 1)
          PROVE  g[n] = step[n][g[n - 1]]
      <3>1. g[n - 1] = h[n - 1]
        OBVIOUS
      <3>2. CASE n = k + 1
        <4>1. g[n] = step[k + 1][h[k]]
          BY <3>2
        <4>2. n - 1 = k
          BY <3>2
        <4>3. g[n - 1] = h[k]
          BY <3>1, <4>2
        <4> HIDE DEF g
        <4> QED
          BY <3>2, <4>1, <4>3
      <3>3. CASE n # k + 1
        <4>1. n \in 1..k
          BY <3>3
        <4>2. g[n] = h[n]
          BY <4>1
        <4> QED
          BY <2>1, <3>1, <4>1, <4>2
      <3> QED
        BY <3>2, <3>3
    <2> QED
      BY <2>2, <2>3, <2>4
  <1> HIDE DEF T
  <1>3. \A k \in Nat : k \in T
    BY <1>1, <1>2, SetInduction
  <1> QED
    BY <1>3 DEF T

-----------------------------------------------------------------------------
(* The parser.                                                             *)

\* What the parser can hold between two lines.
Partial == {s \in Seq(Station) : Len(s) <= MaxPresets} \cup {Nil}

\* Nil is no list of stations.
LEMMA NilIsNoPartial ==
  \A s \in Seq(Station) : Len(s) <= MaxPresets => s # Nil
  <1> SUFFICES ASSUME NEW s \in Seq(Station), Len(s) <= MaxPresets
               PROVE  s # Nil
    OBVIOUS
  <1>1. s \in [1..Len(s) -> Station] /\ Len(s) \in 0..MaxPresets
    BY LenProperties
  <1> QED
    BY <1>1, ConfigNilAssumption

\* The station of a well-formed line has a name and a usable stream.
LEMMA StationOfType ==
  ASSUME NEW l, Line(l), WellFormed(l)
  PROVE  StationOf(l) \in Station
  <1>1. l.kind = "fields"
    BY DEF WellFormed
  <1>2. l.fields \in Seq(Texts)
    <2>1. Blank.kind # "fields" /\ Comment.kind # "fields" /\ TooLong.kind # "fields"
      BY DEF Blank, Comment, TooLong
    <2> QED
      BY <1>1, <2>1, Zenon DEF Line
  <1>3. Len(l.fields) \in Nat /\ \A i \in 1..Len(l.fields) : l.fields[i] \in Texts
    BY <1>2, LenProperties
  <1>4. /\ l.fields[1] \in Texts \ {Empty}
        /\ l.fields[2] \in ValidURLs
        /\ Len(l.fields) >= 3 => l.fields[3] \in Texts
    BY <1>3 DEF WellFormed, ValidateStreamURL
  <1> QED
    BY <1>4 DEF StationOf, Station

\* One turn of the loop.
LEMMA ParseLineType ==
  ASSUME NEW s \in Partial, NEW l, Line(l)
  PROVE  ParseLine(s, l) \in Partial
  <1>1. CASE s = Nil \/ Ignored(l)
    BY <1>1 DEF ParseLine
  <1>2. CASE ~(s = Nil \/ Ignored(l)) /\ WellFormed(l) /\ Len(s) < MaxPresets
    <2>1. s \in Seq(Station) /\ StationOf(l) \in Station
      BY <1>2, StationOfType DEF Partial
    <2>2. Append(s, StationOf(l)) \in Seq(Station)
      BY <2>1, AppendProperties
    <2>3. Len(Append(s, StationOf(l))) = Len(s) + 1 /\ Len(s) \in Nat
      BY <2>1, AppendProperties, LenProperties
    <2> QED
      BY <1>2, <2>2, <2>3 DEF ParseLine, Partial
  <1>3. CASE ~(s = Nil \/ Ignored(l)) /\ ~(WellFormed(l) /\ Len(s) < MaxPresets)
    BY <1>3 DEF ParseLine, Partial
  <1> QED
    BY <1>1, <1>2, <1>3

\* Scan is the loop, turn by turn.
LEMMA ScanSteps ==
  ASSUME NEW L, \A l \in L : Line(l), NEW file \in Seq(L)
  PROVE  /\ Scan(file) \in [0..Len(file) -> Partial]
         /\ Scan(file)[0] = << >>
         /\ \A n \in 1..Len(file) :
              Scan(file)[n] = ParseLine(Scan(file)[n - 1], file[n])
  <1> DEFINE m == Len(file)
             step == [n \in 1..m |-> [p \in Partial |-> ParseLine(p, file[n])]]
             Def(g) == [n \in 0..m |->
                          IF n = 0 THEN << >> ELSE ParseLine(g[n - 1], file[n])]
  <1>1. m \in Nat /\ \A i \in 1..m : Line(file[i])
    BY LenProperties
  <1>2. << >> \in Partial
    BY EmptySeq DEF Partial
  <1>3. step \in [1..m -> [Partial -> Partial]]
    BY <1>1, ParseLineType
  <1> HIDE DEF m
  <1>4. \A p \in Partial, n \in 1..m : step[n][p] = ParseLine(p, file[n])
    OBVIOUS
  <1> HIDE DEF step
  <1>5. PICK h \in [0..m -> Partial] : Iterates(h, m, << >>, step)
    BY <1>1, <1>2, <1>3, Recursion
  <1>6. \A n \in 1..m : h[n] = ParseLine(h[n - 1], file[n])
    <2> SUFFICES ASSUME NEW n \in 1..m
                 PROVE  h[n] = ParseLine(h[n - 1], file[n])
      OBVIOUS
    <2>1. n - 1 \in 0..m
      BY <1>1
    <2>2. h[n - 1] \in Partial
      BY <2>1
    <2> QED
      BY <1>4, <1>5, <2>2 DEF Iterates
  <1>7. h = Def(h)
    <2>1. \A n \in 0..m : h[n] = IF n = 0 THEN << >> ELSE ParseLine(h[n - 1], file[n])
      BY <1>1, <1>5, <1>6 DEF Iterates
    <2> QED
      BY <2>1
  <1>8. Scan(file) = CHOOSE g : g = Def(g)
    BY DEF Scan, m
  <1>9. Scan(file) = Def(Scan(file))
    BY <1>7, <1>8
  <1>10. /\ Scan(file) = [n \in 0..m |-> Scan(file)[n]]
         /\ Scan(file)[0] = << >>
         /\ \A n \in 1..m : Scan(file)[n] = ParseLine(Scan(file)[n - 1], file[n])
    <2>1. PICK g : g = Scan(file)
      OBVIOUS
    <2>2. g = [n \in 0..m |-> IF n = 0 THEN << >> ELSE ParseLine(g[n - 1], file[n])]
      BY <1>9, <2>1
    <2>3. g = [n \in 0..m |-> g[n]]
      BY <2>2
    <2>4. g[0] = << >>
      BY <1>1, <2>2
    <2>5. \A n \in 1..m : g[n] = ParseLine(g[n - 1], file[n])
      BY <1>1, <2>2
    <2> QED
      BY <2>1, <2>3, <2>4, <2>5
  <1> DEFINE T == {n \in Nat : n <= m => Scan(file)[n] \in Partial}
  <1>11. 0 \in T
    BY <1>2, <1>10
  <1>12. ASSUME NEW n \in Nat, n \in T
         PROVE  n + 1 \in T
    <2> SUFFICES ASSUME n + 1 <= m
                 PROVE  Scan(file)[n + 1] \in Partial
      OBVIOUS
    <2>1. n + 1 \in 1..m /\ (n + 1) - 1 = n
      BY <1>1
    <2>2. Scan(file)[n + 1] = ParseLine(Scan(file)[n], file[n + 1])
      BY <1>10, <2>1
    <2>3. Scan(file)[n] \in Partial
      BY <1>1, <1>12
    <2> QED
      BY <1>1, <2>1, <2>2, <2>3, ParseLineType
  <1> HIDE DEF T
  <1>13. \A n \in Nat : n \in T
    BY <1>11, <1>12, SetInduction
  <1>14. \A n \in 0..m : Scan(file)[n] \in Partial
    BY <1>1, <1>13 DEF T
  <1>15. Scan(file) \in [0..m -> Partial]
    BY <1>10, <1>14
  <1> QED
    BY <1>10, <1>15 DEF m

\* What ParseConfig accepts is a list of stations of a length that fits the
\* buttons.
THEOREM ParsedStations ==
  ASSUME NEW L, \A l \in L : Line(l), NEW file \in Seq(L)
  PROVE  YieldsStations(file)
  <1>1. Scan(file)[Len(file)] \in Partial
    BY ScanSteps, LenProperties
  <1>2. SUFFICES ASSUME ParseConfig(file) # Nil
                 PROVE  /\ ParseConfig(file) \in Seq(Station)
                        /\ Len(ParseConfig(file)) \in 1..MaxPresets
    BY DEF YieldsStations
  <1>3. /\ ParseConfig(file) # << >>
        /\ ParseConfig(file) \in Seq(Station)
        /\ Len(ParseConfig(file)) <= MaxPresets
    BY <1>1, <1>2 DEF ParseConfig, Partial
  <1>4. Len(ParseConfig(file)) \in Nat \ {0}
    BY <1>3, EmptySeq
  <1> QED
    BY <1>3, <1>4

-----------------------------------------------------------------------------
(* Files that are cut short.                                               *)

\* t is s with stations added, or an error.
Extends(s, t) ==
  t # Nil =>
    /\ s # Nil
    /\ s \in Seq(Station) /\ t \in Seq(Station)
    /\ Len(s) <= Len(t)
    /\ \A i \in 1..Len(s) : t[i] = s[i]

\* A line adds a station at the end, or none.
LEMMA ParseLineExtends ==
  ASSUME NEW s \in Partial, NEW l, Line(l)
  PROVE  Extends(s, ParseLine(s, l))
  <1> SUFFICES ASSUME ParseLine(s, l) # Nil
               PROVE  Extends(s, ParseLine(s, l))
    BY DEF Extends
  <1>1. s # Nil /\ s \in Seq(Station) /\ Len(s) \in Nat
    BY LenProperties DEF ParseLine, Partial
  <1>2. CASE Ignored(l)
    BY <1>1, <1>2 DEF ParseLine, Extends
  <1>3. CASE ~Ignored(l)
    <2>1. WellFormed(l) /\ ParseLine(s, l) = Append(s, StationOf(l))
      BY <1>1, <1>3 DEF ParseLine
    <2>2. StationOf(l) \in Station
      BY <2>1, StationOfType
    <2> QED
      BY <1>1, <2>1, <2>2, AppendProperties DEF Extends
  <1> QED
    BY <1>2, <1>3

\* Stations that were parsed stay where they are.
LEMMA ScanExtends ==
  ASSUME NEW L, \A l \in L : Line(l), NEW file \in Seq(L),
         NEW m \in 0..Len(file), NEW n \in m..Len(file)
  PROVE  Extends(Scan(file)[m], Scan(file)[n])
  <1> DEFINE sc == Scan(file)
             T == {k \in Nat : m + k <= Len(file) => Extends(sc[m], sc[m + k])}
  <1>1. Len(file) \in Nat /\ \A i \in 1..Len(file) : Line(file[i])
    BY LenProperties
  <1>2. /\ \A i \in 0..Len(file) : sc[i] \in Partial
        /\ \A i \in 1..Len(file) : sc[i] = ParseLine(sc[i - 1], file[i])
    BY ScanSteps
  <1> HIDE DEF sc
  <1>3. 0 \in T
    <2>1. m + 0 = m /\ sc[m] \in Partial
      BY <1>1, <1>2
    <2> QED
      BY <2>1, LenProperties DEF Extends, Partial
  <1>4. ASSUME NEW k \in Nat, k \in T
        PROVE  k + 1 \in T
    <2> SUFFICES ASSUME m + (k + 1) <= Len(file)
                 PROVE  Extends(sc[m], sc[m + (k + 1)])
      OBVIOUS
    <2> DEFINE j == m + k
    <2>1. /\ j \in 0..Len(file) /\ j + 1 \in 1..Len(file)
          /\ m + (k + 1) = j + 1 /\ (j + 1) - 1 = j
      BY <1>1
    <2>2. Extends(sc[m], sc[j])
      BY <1>1, <1>4
    <2> HIDE DEF j
    <2>3. Extends(sc[j], sc[j + 1])
      BY <1>1, <1>2, <2>1, ParseLineExtends
    <2>4. sc[m] \in Partial /\ sc[j] \in Partial
      BY <1>1, <1>2, <2>1
    <2>5. Extends(sc[m], sc[j + 1])
      BY <2>2, <2>3, <2>4, LenProperties DEF Extends
    <2> QED
      BY <2>1, <2>5
  <1> HIDE DEF T
  <1>5. n - m \in T
    BY <1>1, <1>3, <1>4, SetInduction
  <1>6. m + (n - m) = n
    BY <1>1
  <1> QED
    BY <1>1, <1>5, <1>6 DEF T, sc

\* The lines after the n-th have no say in what is parsed of the first n.
LEMMA ScanLocal ==
  ASSUME NEW L, \A l \in L : Line(l), NEW file \in Seq(L), NEW cut \in Seq(L),
         NEW n \in 0..Len(file), n <= Len(cut),
         \A i \in 1..n : cut[i] = file[i]
  PROVE  Scan(cut)[n] = Scan(file)[n]
  <1> DEFINE T == {k \in Nat : k <= n => Scan(cut)[k] = Scan(file)[k]}
  <1>1. Len(file) \in Nat /\ Len(cut) \in Nat
    BY LenProperties
  <1>2. 0 \in T
    BY ScanSteps
  <1>3. ASSUME NEW k \in Nat, k \in T
        PROVE  k + 1 \in T
    <2> SUFFICES ASSUME k + 1 <= n
                 PROVE  Scan(cut)[k + 1] = Scan(file)[k + 1]
      OBVIOUS
    <2>1. /\ k + 1 \in 1..Len(file) /\ k + 1 \in 1..Len(cut) /\ k + 1 \in 1..n
          /\ (k + 1) - 1 = k
      BY <1>1
    <2>2. Scan(cut)[k] = Scan(file)[k]
      BY <1>1, <1>3
    <2>3. Scan(cut)[k + 1] = ParseLine(Scan(cut)[k], cut[k + 1])
      BY <2>1, ScanSteps
    <2>4. Scan(file)[k + 1] = ParseLine(Scan(file)[k], file[k + 1])
      BY <2>1, ScanSteps
    <2> QED
      BY <2>1, <2>2, <2>3, <2>4
  <1> HIDE DEF T
  <1>4. \A k \in Nat : k \in T
    BY <1>2, <1>3, SetInduction
  <1> QED
    BY <1>1, <1>4 DEF T

\* A line that is cut short is a line of the file format.
LEMMA CutLineIsLine ==
  ASSUME NEW l, Line(l), NEW half \in CutLines(l)
  PROVE  Line(half)
  <1>1. l.kind = "fields"
    BY DEF CutLines
  <1>2. l.fields \in Seq(Texts)
    <2>1. Blank.kind # "fields" /\ Comment.kind # "fields" /\ TooLong.kind # "fields"
      BY DEF Blank, Comment, TooLong
    <2> QED
      BY <1>1, <2>1, Zenon DEF Line
  <1>3. PICK n \in 1..Len(l.fields), cut \in Shorter :
          half = Fields(Append(SubSeq(l.fields, 1, n - 1), cut[2]))
    BY <1>1 DEF CutLines
  <1>4. cut[2] \in Texts
    OBVIOUS
  <1>5. SubSeq(l.fields, 1, n - 1) \in Seq(Texts)
    <2>1. Len(l.fields) \in Nat /\ \A i \in 1..Len(l.fields) : l.fields[i] \in Texts
      BY <1>2, LenProperties
    <2>2. \A i \in 1..(n - 1) : l.fields[i] \in Texts
      BY <2>1
    <2> QED
      BY <2>1, <2>2, SubSeqProperties
  <1>6. Append(SubSeq(l.fields, 1, n - 1), cut[2]) \in Seq(Texts)
    BY <1>4, <1>5, AppendProperties
  <1>7. half.fields = Append(SubSeq(l.fields, 1, n - 1), cut[2])
    BY <1>3 DEF Fields
  <1> QED
    BY <1>3, <1>6, <1>7 DEF Line

LEMMA SubSeqFromOne ==
  ASSUME NEW S, NEW s \in Seq(S), NEW k \in 0..Len(s)
  PROVE  /\ SubSeq(s, 1, k) \in Seq(S)
         /\ Len(SubSeq(s, 1, k)) = k
         /\ \A i \in 1..k : SubSeq(s, 1, k)[i] = s[i]
  <1>1. k \in Nat /\ \A i \in 1..k : s[i] \in S
    BY LenProperties
  <1>2. k - 1 + 1 = k /\ \A i \in 1..k : 1 + i - 1 = i
    BY <1>1
  <1>3. /\ SubSeq(s, 1, k) \in Seq(S)
        /\ Len(SubSeq(s, 1, k)) = IF 1 <= k THEN k - 1 + 1 ELSE 0
        /\ \A i \in 1..(k - 1 + 1) : SubSeq(s, 1, k)[i] = s[1 + i - 1]
    BY <1>1, SubSeqProperties
  <1>4. Len(SubSeq(s, 1, k)) = k
    BY <1>1, <1>3
  <1>5. ASSUME NEW i \in 1..k
        PROVE  SubSeq(s, 1, k)[i] = s[i]
    BY <1>2, <1>3
  <1> QED
    BY <1>3, <1>4, <1>5

\* All stations of a list but its last one, if that is new, stay.
LEMMA FrontStays ==
  ASSUME NEW s \in Partial, NEW l, Line(l), NEW t \in Seq(Station),
         Extends(s, t), t # Nil,
         ParseLine(s, l) # Nil, ParseLine(s, l) # << >>
  PROVE  IsPrefix(Front(ParseLine(s, l)), t)
  <1> DEFINE r == ParseLine(s, l)
  <1>1. s \in Seq(Station) /\ Len(s) \in Nat /\ Len(t) \in Nat
    BY LenProperties DEF Extends
  <1>2. /\ r \in Seq(Station) /\ Len(r) \in Nat \ {0}
        /\ Len(r) - 1 <= Len(s)
        /\ \A i \in 1..(Len(r) - 1) : r[i] = s[i]
    <2>1. CASE Ignored(l)
      BY <1>1, <2>1, EmptySeq DEF ParseLine
    <2>2. CASE ~Ignored(l)
      <3>1. WellFormed(l) /\ r = Append(s, StationOf(l))
        BY <1>1, <2>2 DEF ParseLine
      <3>2. StationOf(l) \in Station
        BY <3>1, StationOfType
      <3> QED
        BY <1>1, <3>1, <3>2, AppendProperties
    <2> QED
      BY <2>1, <2>2
  <1> HIDE DEF r
  <1> DEFINE k == Len(r) - 1
  <1>3. /\ Front(r) \in Seq(Station) /\ Len(Front(r)) = k
        /\ \A i \in 1..k : Front(r)[i] = r[i]
    <2>1. k \in 0..Len(r)
      BY <1>2
    <2>2. Front(r) = SubSeq(r, 1, k)
      BY DEF Front
    <2> HIDE DEF k
    <2> QED
      BY <1>2, <2>1, <2>2, SubSeqFromOne
  <1>4. k \in Nat /\ k <= Len(t) /\ \A i \in 1..k : t[i] = r[i] /\ t[i] \in Station
    <2>1. Len(s) <= Len(t) /\ \A i \in 1..Len(s) : t[i] = s[i]
      BY DEF Extends
    <2>2. \A i \in 1..Len(t) : t[i] \in Station
      BY ElementOfSeq
    <2> QED
      BY <1>1, <1>2, <2>1, <2>2
  <1>5. SubSeq(Front(r), 1, k) = Front(r)
    BY <1>3, SubSeqFull
  <1>6. /\ SubSeq(t, 1, k) \in Seq(Station) /\ Len(SubSeq(t, 1, k)) = k
        /\ \A i \in 1..k : SubSeq(t, 1, k)[i] = t[i]
    <2>1. k \in 0..Len(t)
      BY <1>1, <1>4
    <2> HIDE DEF k
    <2> QED
      BY <2>1, SubSeqFromOne
  <1>7. Front(r) = SubSeq(t, 1, k)
    BY <1>3, <1>4, <1>6, SeqEqual
  <1> QED
    BY <1>3, <1>4, <1>5, <1>7 DEF IsPrefix, r

\* Wherever a file is cut short, all buttons of what is left of it but the
\* last keep their stations (config.go:49-50, 78-81).
THEOREM CutsKeepButtons ==
  ASSUME NEW L, \A l \in L : Line(l), NEW file \in Seq(L)
  PROVE  CutKeepsButtons(file)
  <1> SUFFICES ASSUME NEW cut \in CutFiles(file),
                      ParseConfig(file) # Nil, ParseConfig(cut) # Nil
               PROVE  IsPrefix(Front(ParseConfig(cut)), ParseConfig(file))
    BY DEF CutKeepsButtons
  <1>1. Len(file) \in Nat /\ \A i \in 1..Len(file) : file[i] \in L
    BY LenProperties
  <1>2. PICK n \in 0..(Len(file) - 1) :
          \/ cut = SubSeq(file, 1, n)
          \/ \E half \in CutLines(file[n + 1]) :
               cut = Append(SubSeq(file, 1, n), half)
    BY DEF CutFiles
  <1>3. n \in 0..Len(file) /\ n + 1 \in 1..Len(file) /\ Len(file) \in n..Len(file)
    BY <1>1
  <1> DEFINE head == SubSeq(file, 1, n)
             M == L \cup CutLines(file[n + 1])
  <1>4. \A l \in M : Line(l)
    BY <1>1, <1>3, CutLineIsLine, Zenon DEF Line
  <1>5. file \in Seq(M) /\ L \subseteq M
    <2>1. L \subseteq M
      OBVIOUS
    <2> QED
      BY <2>1, SeqMonotonic
  <1>6. head \in Seq(M) /\ Len(head) = n /\ \A i \in 1..n : head[i] = file[i]
    BY <1>3, <1>5, SubSeqFromOne
  <1> HIDE DEF head, M
  <1> DEFINE s == Scan(file)[n]
             t == ParseConfig(file)
  <1>7. s \in Partial
    BY <1>3, ScanSteps
  <1>8. Extends(s, t) /\ t \in Seq(Station)
    <2>1. t = Scan(file)[Len(file)]
      BY DEF ParseConfig
    <2>2. Extends(Scan(file)[n], Scan(file)[Len(file)])
      BY <1>3, ScanExtends
    <2> QED
      BY <2>1, <2>2 DEF Extends
  <1>9. PICK l : Line(l) /\ ParseConfig(cut) = ParseLine(s, l)
    <2>1. CASE cut = head
      <3>1. Scan(cut)[n] = s
        BY <1>3, <1>4, <1>5, <1>6, <2>1, ScanLocal
      <3>2. ParseConfig(cut) = s
        BY <1>6, <2>1, <3>1 DEF ParseConfig
      <3>3. ParseLine(s, Blank) = s
        BY DEF ParseLine, Ignored
      <3> QED
        BY <3>2, <3>3 DEF Line
    <2>2. CASE \E half \in CutLines(file[n + 1]) : cut = Append(head, half)
      <3>1. PICK half \in CutLines(file[n + 1]) : cut = Append(head, half)
        BY <2>2
      <3>2. half \in M
        BY DEF M
      <3>3. /\ cut \in Seq(M) /\ Len(cut) = n + 1 /\ cut[n + 1] = half
            /\ \A i \in 1..n : cut[i] = file[i]
        BY <1>6, <3>1, <3>2, AppendProperties
      <3>4. Scan(cut)[n] = s
        BY <1>3, <1>4, <1>5, <3>3, ScanLocal
      <3>5. Scan(cut)[n + 1] = ParseLine(Scan(cut)[(n + 1) - 1], cut[n + 1])
        BY <1>1, <1>3, <1>4, <3>3, ScanSteps
      <3>6. (n + 1) - 1 = n
        BY <1>1
      <3>7. ParseConfig(cut) = ParseLine(s, half)
        BY <3>3, <3>4, <3>5, <3>6 DEF ParseConfig
      <3> QED
        BY <1>4, <3>2, <3>7
    <2> QED
      BY <1>2, <2>1, <2>2 DEF head
  <1>10. ParseConfig(cut) # << >>
    BY DEF ParseConfig
  <1> HIDE DEF s, t
  <1>11. IsPrefix(Front(ParseLine(s, l)), t)
    BY <1>7, <1>8, <1>9, <1>10, FrontStays DEF t
  <1> QED
    BY <1>9, <1>11 DEF t

-----------------------------------------------------------------------------
(* Buttons are numbered by the lines that are not ignored.                 *)

\* One more line is one more button, unless it is ignored.
LEMMA ButtonSteps ==
  ASSUME NEW L, NEW file \in Seq(L)
  PROVE  /\ Button(file, 0) = 0
         /\ \A n \in Nat : Button(file, n) \in Nat
         /\ \A n \in Nat \ {0} :
              Button(file, n) = Button(file, n - 1)
                                  + IF Ignored(file[n]) THEN 0 ELSE 1
  <1> DEFINE Set(n) == {i \in 1..n : ~Ignored(file[i])}
  <1>1. Set(0) = {}
    OBVIOUS
  <1>2. ASSUME NEW n \in Nat
        PROVE  IsFiniteSet(Set(n)) /\ Cardinality(Set(n)) \in Nat
    <2>1. IsFiniteSet(1..n)
      BY FS_Interval
    <2>2. Set(n) \in SUBSET (1..n)
      OBVIOUS
    <2>3. IsFiniteSet(Set(n))
      BY <2>1, <2>2, FS_Subset
    <2> QED
      BY <2>3, FS_CardinalityType
  <1>3. ASSUME NEW n \in Nat \ {0}
        PROVE  Cardinality(Set(n)) = Cardinality(Set(n - 1))
                                       + IF Ignored(file[n]) THEN 0 ELSE 1
    <2>1. n - 1 \in Nat /\ n \notin Set(n - 1)
      OBVIOUS
    <2>2. IsFiniteSet(Set(n - 1)) /\ Cardinality(Set(n - 1)) \in Nat
      BY <1>2, <2>1
    <2>3. CASE Ignored(file[n])
      <3>1. Set(n) = Set(n - 1)
        BY <2>3
      <3> HIDE DEF Set
      <3> QED
        BY <2>2, <2>3, <3>1
    <2>4. CASE ~Ignored(file[n])
      <3>1. Set(n) = Set(n - 1) \cup {n}
        BY <2>4
      <3> HIDE DEF Set
      <3>2. Cardinality(Set(n)) = Cardinality(Set(n - 1)) + 1
        BY <2>1, <2>2, <3>1, FS_AddElement
      <3> QED
        BY <2>4, <3>2
    <2> QED
      BY <2>3, <2>4
  <1> QED
    BY <1>1, <1>2, <1>3, FS_EmptySet DEF Button

\* What has been parsed of the first n lines.
LinesAreFine(file, n) ==
  /\ Button(file, n) <= MaxPresets
  /\ \A i \in 1..n : Ignored(file[i]) \/ WellFormed(file[i])

ScanIs(file, n) ==
  IF LinesAreFine(file, n)
    THEN /\ Scan(file)[n] \in Seq(Station)
         /\ Len(Scan(file)[n]) = Button(file, n)
         /\ \A i \in 1..n :
              Ignored(file[i])
                \/ /\ Button(file, i) \in 1..Button(file, n)
                   /\ Scan(file)[n][Button(file, i)] = StationOf(file[i])
    ELSE Scan(file)[n] = Nil

\* A line that is ignored changes nothing.
LEMMA IgnoredLine ==
  ASSUME NEW L, \A l \in L : Line(l), NEW file \in Seq(L),
         NEW n \in 1..Len(file), Ignored(file[n]), ScanIs(file, n - 1)
  PROVE  ScanIs(file, n)
  <1>1. n \in Nat \ {0} /\ n - 1 \in Nat
    BY LenProperties
  <1>2. Button(file, n) = Button(file, n - 1) /\ Button(file, n) \in Nat
    BY <1>1, ButtonSteps
  <1>3. Scan(file)[n] = Scan(file)[n - 1]
    BY ScanSteps DEF ParseLine
  <1>4. LinesAreFine(file, n) <=> LinesAreFine(file, n - 1)
    BY <1>1, <1>2 DEF LinesAreFine
  <1>5. \A i \in 1..n : i \in 1..(n - 1) \/ Ignored(file[i])
    BY <1>1
  <1> QED
    BY <1>2, <1>3, <1>4, <1>5 DEF ScanIs

\* A line that is not adds its station, or ends the parse.
LEMMA StationLine ==
  ASSUME NEW L, \A l \in L : Line(l), NEW file \in Seq(L),
         NEW n \in 1..Len(file), ~Ignored(file[n]), ScanIs(file, n - 1)
  PROVE  ScanIs(file, n)
  <1> DEFINE s == Scan(file)[n - 1]
             l == file[n]
             b == Button(file, n - 1)
  <1>1. n \in Nat \ {0} /\ n - 1 \in Nat /\ Line(l)
    BY LenProperties
  <1>2. b \in Nat /\ Button(file, n) = b + 1
    BY <1>1, ButtonSteps
  <1>3. Scan(file)[n] = ParseLine(s, l)
    BY ScanSteps
  <1>4. LinesAreFine(file, n)
          <=> LinesAreFine(file, n - 1) /\ WellFormed(l) /\ b < MaxPresets
    BY <1>1, <1>2 DEF LinesAreFine
  <1>5. CASE LinesAreFine(file, n)
    <2>1. /\ s \in Seq(Station) /\ Len(s) = b
          /\ \A i \in 1..(n - 1) :
               Ignored(file[i])
                 \/ (Button(file, i) \in 1..b /\ s[Button(file, i)] = StationOf(file[i]))
      BY <1>4, <1>5 DEF ScanIs
    <2>2. s # Nil
      BY <1>2, <1>4, <1>5, <2>1, NilIsNoPartial
    <2>3. Scan(file)[n] = Append(s, StationOf(l)) /\ StationOf(l) \in Station
      BY <1>1, <1>3, <1>4, <1>5, <2>1, <2>2, StationOfType DEF ParseLine
    <2> HIDE DEF s, l
    <2>4. /\ Scan(file)[n] \in Seq(Station) /\ Len(Scan(file)[n]) = b + 1
          /\ \A i \in 1..b : Scan(file)[n][i] = s[i]
          /\ Scan(file)[n][b + 1] = StationOf(l)
      BY <2>1, <2>3, AppendProperties
    <2>5. ASSUME NEW i \in 1..n, ~Ignored(file[i])
          PROVE  /\ Button(file, i) \in 1..(b + 1)
                 /\ Scan(file)[n][Button(file, i)] = StationOf(file[i])
      <3>1. CASE i = n
        BY <1>2, <2>4, <3>1 DEF l
      <3>2. CASE i # n
        <4>1. Button(file, i) \in 1..b /\ s[Button(file, i)] = StationOf(file[i])
          BY <1>1, <2>1, <2>5, <3>2
        <4> QED
          BY <1>2, <2>4, <4>1
      <3> QED
        BY <3>1, <3>2
    <2> QED
      BY <1>2, <1>5, <2>4, <2>5 DEF ScanIs
  <1>6. CASE ~LinesAreFine(file, n)
    <2>1. Scan(file)[n] = Nil
      BY <1>1, <1>3, <1>4, <1>6 DEF ParseLine, ScanIs
    <2> QED
      BY <1>6, <2>1 DEF ScanIs
  <1> QED
    BY <1>5, <1>6

\* Button order is line order, and a file with a wrong line, with no station
\* or with too many is rejected (config.go:45-50, 86-91).
THEOREM ParsesAsCommented ==
  ASSUME NEW L, \A l \in L : Line(l), NEW file \in Seq(L)
  PROVE  ParsesAsDocumented(file)
  <1> DEFINE T == {n \in Nat : n <= Len(file) => ScanIs(file, n)}
  <1>1. Len(file) \in Nat
    BY LenProperties
  <1>2. 0 \in T
    <2>1. << >> \in Seq(Station) /\ Len(<< >>) = 0
      BY EmptySeq
    <2>2. Scan(file)[0] = << >>
      BY ScanSteps
    <2>3. Button(file, 0) = 0
      BY ButtonSteps
    <2>4. LinesAreFine(file, 0)
      BY <2>3 DEF LinesAreFine
    <2>5. ScanIs(file, 0)
      BY <2>1, <2>2, <2>3, <2>4 DEF ScanIs
    <2> QED
      BY <2>5
  <1>3. ASSUME NEW n \in Nat, n \in T
        PROVE  n + 1 \in T
    <2> SUFFICES ASSUME n + 1 <= Len(file)
                 PROVE  ScanIs(file, n + 1)
      OBVIOUS
    <2>1. n + 1 \in 1..Len(file) /\ (n + 1) - 1 = n /\ ScanIs(file, n)
      BY <1>1, <1>3
    <2> QED
      BY <2>1, IgnoredLine, StationLine
  <1> HIDE DEF T
  <1>4. \A n \in Nat : n \in T
    BY <1>2, <1>3, SetInduction
  <1>5. ScanIs(file, Len(file))
    BY <1>1, <1>4 DEF T
  <1> DEFINE s == Scan(file)[Len(file)]
             b == Button(file, Len(file))
  <1>6. b \in Nat
    BY <1>1, ButtonSteps
  <1>7. CASE LinesAreFine(file, Len(file)) /\ b > 0
    <2>1. Acceptable(file)
      BY <1>6, <1>7 DEF Acceptable, LinesAreFine
    <2>2. s \in Seq(Station) /\ Len(s) = b
      BY <1>5, <1>7 DEF ScanIs
    <2>3. s # << >> /\ s # Nil
      BY <1>6, <1>7, <2>2, EmptySeq, NilIsNoPartial DEF LinesAreFine
    <2>4. ParseConfig(file) = s
      BY <2>3 DEF ParseConfig
    <2> QED
      BY <1>5, <1>7, <2>1, <2>2, <2>3, <2>4 DEF ParsesAsDocumented, ScanIs
  <1>8. CASE LinesAreFine(file, Len(file)) /\ b = 0
    <2>1. s \in Seq(Station) /\ Len(s) = 0
      BY <1>5, <1>8 DEF ScanIs
    <2>2. ParseConfig(file) = Nil
      BY <2>1, EmptySeq DEF ParseConfig
    <2> QED
      BY <1>8, <2>2 DEF ParsesAsDocumented, Acceptable
  <1>9. CASE ~LinesAreFine(file, Len(file))
    <2>1. ParseConfig(file) = Nil
      BY <1>5, <1>9 DEF ScanIs, ParseConfig
    <2>2. ~Acceptable(file)
      BY <1>6, <1>9 DEF Acceptable, LinesAreFine
    <2> QED
      BY <2>1, <2>2 DEF ParsesAsDocumented
  <1> QED
    BY <1>6, <1>7, <1>8, <1>9

-----------------------------------------------------------------------------
(* The fingerprint.                                                        *)

Tokens == Texts \cup {"|", "\n"}

Joins(w, u, v) ==
  /\ Len(w) = Len(u) + Len(v)
  /\ \A i \in 1..Len(u) : w[i] = u[i]
  /\ \A i \in 1..Len(v) : w[Len(u) + i] = v[i]

LEMMA Concatenation ==
  ASSUME NEW S, NEW u \in Seq(S), NEW v \in Seq(S)
  PROVE  u \o v \in Seq(S) /\ Joins(u \o v, u, v)
  <1>1. Len(u) \in Nat /\ Len(v) \in Nat
    BY LenProperties
  <1>2. ASSUME NEW i \in 1..Len(u)
        PROVE  (u \o v)[i] = u[i]
    <2>1. i \in 1..(Len(u) + Len(v)) /\ i <= Len(u)
      BY <1>1
    <2> QED
      BY <2>1, ConcatProperties
  <1>3. ASSUME NEW i \in 1..Len(v)
        PROVE  (u \o v)[Len(u) + i] = v[i]
    <2>1. /\ Len(u) + i \in 1..(Len(u) + Len(v)) /\ ~(Len(u) + i <= Len(u))
          /\ Len(u) + i - Len(u) = i
      BY <1>1
    <2> QED
      BY <2>1, ConcatProperties
  <1> QED
    BY <1>2, <1>3, ConcatProperties DEF Joins

\* The text of a station ends with a line feed; before that stands its image,
\* or a separator if it has none.
LEMMA StationTextShape ==
  ASSUME NEW s \in Station
  PROVE  LET st == StationText(s)
         IN  /\ st \in Seq(Tokens)
             /\ Len(st) = IF s.image = Empty THEN 5 ELSE 6
             /\ st[1] = s.name /\ st[3] = s.stream /\ st[Len(st)] = "\n"
             /\ st[Len(st) - 1] = IF s.image = Empty THEN "|" ELSE s.image
  <1> DEFINE head == <<s.name, "|", s.stream, "|">>
             image == IF s.image = Empty THEN << >> ELSE <<s.image>>
  <1>1. s.name \in Texts /\ s.stream \in Texts /\ s.image \in Texts
    BY DEF Station
  <1>2. head \in Seq(Tokens) /\ Len(head) = 4
    BY <1>1 DEF Tokens
  <1>3. /\ image \in Seq(Tokens)
        /\ Len(image) = IF s.image = Empty THEN 0 ELSE 1
        /\ s.image # Empty => image[1] = s.image
    <2>1. CASE s.image = Empty
      BY <2>1, EmptySeq
    <2>2. CASE s.image # Empty
      BY <1>1, <2>2 DEF Tokens
    <2> QED
      BY <2>1, <2>2
  <1>4. /\ <<"\n">> \in Seq(Tokens) /\ Len(<<"\n">>) = 1
        /\ <<"\n">>[1] = "\n"
    BY DEF Tokens
  <1>5. head[1] = s.name /\ head[3] = s.stream /\ head[4] = "|"
    OBVIOUS
  <1> HIDE DEF head, image
  <1> DEFINE front == head \o image
  <1>6. /\ front \in Seq(Tokens)
        /\ Len(front) = 4 + Len(image)
        /\ \A i \in 1..4 : front[i] = head[i]
        /\ \A i \in 1..Len(image) : front[4 + i] = image[i]
    <2>1. front \in Seq(Tokens) /\ Joins(front, head, image)
      BY <1>2, <1>3, Concatenation, Zenon
    <2> HIDE DEF front
    <2> QED
      BY <1>2, <2>1 DEF Joins
  <1> HIDE DEF front
  <1> DEFINE st == front \o <<"\n">>
  <1>7. /\ st \in Seq(Tokens)
        /\ Len(st) = Len(front) + 1
        /\ \A i \in 1..Len(front) : st[i] = front[i]
        /\ st[Len(front) + 1] = "\n"
    <2>1. PICK end : end = <<"\n">>
      OBVIOUS
    <2>2. st = front \o end
      BY <2>1
    <2>3. st \in Seq(Tokens) /\ Joins(st, front, end)
      BY <1>4, <1>6, <2>1, <2>2, Concatenation, Zenon
    <2> HIDE DEF st
    <2> QED
      BY <1>4, <2>1, <2>3 DEF Joins
  <1>8. StationText(s) = st
    BY DEF StationText, head, image, front
  <1> HIDE DEF st
  <1>9. CASE s.image = Empty
    <2>1. Len(front) = 4 /\ Len(st) = 5
      BY <1>3, <1>6, <1>7, <1>9
    <2> QED
      BY <1>5, <1>6, <1>7, <1>8, <1>9, <2>1
  <1>10. CASE s.image # Empty
    <2>1. Len(image) = 1 /\ Len(front) = 5 /\ Len(st) = 6
      BY <1>3, <1>6, <1>7, <1>10
    <2>2. front[5] = s.image
      BY <1>3, <1>6, <1>10, <2>1
    <2>3. /\ st[1] = s.name /\ st[3] = s.stream
          /\ st[6] = "\n" /\ st[5] = s.image
      BY <1>5, <1>6, <1>7, <2>1, <2>2
    <2>4. Len(st) - 1 = 5
      BY <2>1
    <2> QED
      BY <1>7, <1>8, <1>10, <2>1, <2>3, <2>4, Zenon
  <1> QED
    BY <1>9, <1>10

\* One station more is written.
Write(u, s) == u \o StationText(s)

LEMMA WriteType ==
  ASSUME NEW u \in Seq(Tokens), NEW s \in Station
  PROVE  Write(u, s) \in Seq(Tokens) /\ Write(u, s) # << >>
  <1> DEFINE w == u \o StationText(s)
  <1>1. StationText(s) \in Seq(Tokens) /\ Len(StationText(s)) \in {5, 6}
    BY StationTextShape
  <1>2. w \in Seq(Tokens) /\ Joins(w, u, StationText(s))
    BY <1>1, Concatenation, Zenon
  <1> HIDE DEF w
  <1>3. Len(w) # 0
    <2>1. Len(w) = Len(u) + Len(StationText(s))
      BY <1>2 DEF Joins
    <2>2. Len(u) \in Nat
      BY LenProperties
    <2> QED
      BY <1>1, <2>1, <2>2
  <1> QED
    BY <1>2, <1>3, EmptySeq DEF Write, w

\* What was written last can be told from the end.
LEMMA LastStation ==
  ASSUME NEW u \in Seq(Tokens), NEW v \in Seq(Tokens),
         NEW s \in Station, NEW t \in Station,
         Write(u, s) = Write(v, t)
  PROVE  u = v /\ s = t
  <1> DEFINE a == StationText(s)
             b == StationText(t)
             w == u \o a
  <1>1. /\ a \in Seq(Tokens) /\ Len(a) = IF s.image = Empty THEN 5 ELSE 6
        /\ a[1] = s.name /\ a[3] = s.stream
        /\ a[Len(a) - 1] = IF s.image = Empty THEN "|" ELSE s.image
    BY StationTextShape
  <1>2. /\ b \in Seq(Tokens) /\ Len(b) = IF t.image = Empty THEN 5 ELSE 6
        /\ b[1] = t.name /\ b[3] = t.stream
        /\ b[Len(b) - 1] = IF t.image = Empty THEN "|" ELSE t.image
    BY StationTextShape
  <1> HIDE DEF a, b
  <1>3. Len(u) \in Nat /\ Len(v) \in Nat
    BY LenProperties
  <1>4. Joins(w, u, a)
    BY <1>1, Concatenation, Zenon
  <1>5. Joins(w, v, b)
    <2>1. w = v \o b
      BY DEF a, b, Write
    <2> QED
      BY <1>2, <2>1, Concatenation, Zenon
  <1> HIDE DEF w
  <1>6. a[Len(a) - 1] = w[Len(w) - 1] /\ b[Len(b) - 1] = w[Len(w) - 1]
    <2>1. Len(a) - 1 \in 1..Len(a) /\ Len(u) + (Len(a) - 1) = Len(w) - 1
      BY <1>1, <1>3, <1>4 DEF Joins
    <2>2. Len(b) - 1 \in 1..Len(b) /\ Len(v) + (Len(b) - 1) = Len(w) - 1
      BY <1>2, <1>3, <1>5 DEF Joins
    <2> QED
      BY <1>4, <1>5, <2>1, <2>2 DEF Joins
  <1>7. s.image = t.image
    <2>1. s.image \in Texts /\ t.image \in Texts
      BY DEF Station
    <2> QED
      BY <1>1, <1>2, <1>6, <2>1, SeparatorsAssumption
  <1>8. Len(a) = Len(b) /\ Len(u) = Len(v)
    BY <1>1, <1>2, <1>3, <1>4, <1>5, <1>7 DEF Joins
  <1>9. u = v
    <2>1. \A i \in 1..Len(u) : u[i] = v[i]
      BY <1>4, <1>5, <1>8 DEF Joins
    <2> QED
      BY <1>8, <2>1, SeqEqual
  <1>10. a[1] = b[1] /\ a[3] = b[3]
    <2>1. 1 \in 1..Len(a) /\ 3 \in 1..Len(a) /\ 1 \in 1..Len(b) /\ 3 \in 1..Len(b)
      BY <1>1, <1>2
    <2> QED
      BY <1>4, <1>5, <1>8, <2>1 DEF Joins
  <1>11. s.name = t.name /\ s.stream = t.stream
    BY <1>1, <1>2, <1>10
  <1>12. s = t
    BY <1>7, <1>11 DEF Station
  <1> QED
    BY <1>9, <1>12

\* Written is what was written, station by station.
LEMMA WrittenSteps ==
  ASSUME NEW c \in Seq(Station)
  PROVE  /\ Written(c) \in [0..Len(c) -> Seq(Tokens)]
         /\ Written(c)[0] = << >>
         /\ \A n \in 1..Len(c) :
              Written(c)[n] = Write(Written(c)[n - 1], c[n])
  <1> DEFINE m == Len(c)
             S == Seq(Tokens)
             step == [n \in 1..m |-> [p \in S |-> Write(p, c[n])]]
             Def(g) == [n \in 0..m |->
                          IF n = 0 THEN << >> ELSE Write(g[n - 1], c[n])]
  <1>1. m \in Nat /\ \A n \in 1..m : c[n] \in Station
    BY LenProperties
  <1>2. << >> \in S
    BY EmptySeq
  <1>3. \A p \in S, n \in 1..m : Write(p, c[n]) \in S
    BY <1>1, WriteType
  <1> HIDE DEF m, S
  <1>4. step \in [1..m -> [S -> S]]
    BY <1>3
  <1>5. \A p \in S, n \in 1..m : step[n][p] = Write(p, c[n])
    OBVIOUS
  <1> HIDE DEF step
  <1>6. PICK h \in [0..m -> S] : Iterates(h, m, << >>, step)
    BY <1>1, <1>2, <1>4, Recursion
  <1>7. \A n \in 1..m : h[n] = Write(h[n - 1], c[n])
    <2> SUFFICES ASSUME NEW n \in 1..m
                 PROVE  h[n] = Write(h[n - 1], c[n])
      OBVIOUS
    <2>1. n - 1 \in 0..m
      BY <1>1
    <2>2. h[n - 1] \in S
      BY <2>1
    <2> QED
      BY <1>5, <1>6, <2>2 DEF Iterates
  <1>8. h = Def(h)
    <2>1. \A n \in 0..m : h[n] = IF n = 0 THEN << >> ELSE Write(h[n - 1], c[n])
      BY <1>1, <1>6, <1>7 DEF Iterates
    <2> QED
      BY <2>1
  <1>9. Written(c) = CHOOSE g : g = Def(g)
    BY DEF Written, Write, m
  <1>10. Written(c) = Def(Written(c))
    BY <1>8, <1>9
  <1>11. PICK g : g = Written(c)
    OBVIOUS
  <1>12. g = [n \in 0..m |-> IF n = 0 THEN << >> ELSE Write(g[n - 1], c[n])]
    BY <1>10, <1>11
  <1>13. /\ g = [n \in 0..m |-> g[n]]
         /\ g[0] = << >>
         /\ \A n \in 1..m : g[n] = Write(g[n - 1], c[n])
    <2>1. g = [n \in 0..m |-> g[n]]
      BY <1>12
    <2>2. g[0] = << >>
      BY <1>1, <1>12
    <2>3. \A n \in 1..m : g[n] = Write(g[n - 1], c[n])
      BY <1>1, <1>12
    <2> QED
      BY <2>1, <2>2, <2>3
  <1> DEFINE T == {n \in Nat : n <= m => g[n] \in S}
  <1>14. 0 \in T
    BY <1>2, <1>13
  <1>15. ASSUME NEW n \in Nat, n \in T
         PROVE  n + 1 \in T
    <2> SUFFICES ASSUME n + 1 <= m
                 PROVE  g[n + 1] \in S
      OBVIOUS
    <2>1. n + 1 \in 1..m /\ (n + 1) - 1 = n
      BY <1>1
    <2>2. g[n + 1] = Write(g[n], c[n + 1])
      BY <1>13, <2>1
    <2>3. g[n] \in S
      BY <1>1, <1>15
    <2> QED
      BY <1>3, <2>1, <2>2, <2>3
  <1> HIDE DEF T
  <1>16. \A n \in Nat : n \in T
    BY <1>14, <1>15, SetInduction
  <1>17. \A n \in 0..m : g[n] \in S
    BY <1>1, <1>16 DEF T
  <1>18. g \in [0..m -> S]
    BY <1>13, <1>17
  <1> QED
    BY <1>11, <1>13, <1>18 DEF m, S

\* Two lists of stations with the same fingerprint are the same list, so no
\* change of the file goes unnoticed (config.go:201-214).
THEOREM FingerprintInjective ==
  ASSUME NEW c \in Seq(Station), NEW d \in Seq(Station),
         Fingerprint(c) = Fingerprint(d)
  PROVE  c = d
  <1> DEFINE wc == Written(c)
             wd == Written(d)
             Same(n, m) == m = n /\ \A i \in 1..n : c[i] = d[i]
             T == {n \in Nat : n <= Len(c) =>
                     \A m \in 0..Len(d) : wc[n] = wd[m] => Same(n, m)}
  <1>1. Len(c) \in Nat /\ Len(d) \in Nat
    BY LenProperties
  <1>2. /\ \A n \in 1..Len(c) : c[n] \in Station
        /\ \A n \in 1..Len(d) : d[n] \in Station
    BY LenProperties
  <1>3. /\ \A n \in 0..Len(c) : wc[n] \in Seq(Tokens)
        /\ wc[0] = << >>
        /\ \A n \in 1..Len(c) : wc[n] = Write(wc[n - 1], c[n])
    BY WrittenSteps
  <1>4. /\ \A n \in 0..Len(d) : wd[n] \in Seq(Tokens)
        /\ wd[0] = << >>
        /\ \A n \in 1..Len(d) : wd[n] = Write(wd[n - 1], d[n])
    BY WrittenSteps
  <1> HIDE DEF wc, wd
  <1>5. 0 \in T
    <2> SUFFICES ASSUME NEW m \in 0..Len(d), wc[0] = wd[m]
                 PROVE  m = 0
      OBVIOUS
    <2>1. ASSUME m # 0
          PROVE  FALSE
      <3>1. m \in 1..Len(d) /\ m - 1 \in 0..Len(d)
        BY <1>1, <2>1
      <3> QED
        BY <1>2, <1>3, <1>4, WriteType, <3>1
    <2> QED
      BY <2>1
  <1>6. ASSUME NEW n \in Nat, n \in T
        PROVE  n + 1 \in T
    <2> SUFFICES ASSUME n + 1 <= Len(c),
                        NEW m \in 0..Len(d), wc[n + 1] = wd[m]
                 PROVE  Same(n + 1, m)
      OBVIOUS
    <2>1. n + 1 \in 1..Len(c) /\ n \in 0..Len(c) /\ (n + 1) - 1 = n
      BY <1>1
    <2>2. wc[n + 1] = Write(wc[n], c[n + 1])
      BY <1>3, <2>1
    <2>3. m # 0
      BY <1>2, <1>3, <1>4, WriteType, <2>1, <2>2
    <2>4. m \in 1..Len(d) /\ m - 1 \in 0..Len(d)
      BY <1>1, <2>3
    <2>5. wd[m] = Write(wd[m - 1], d[m])
      BY <1>4, <2>4
    <2>6. wc[n] = wd[m - 1] /\ c[n + 1] = d[m]
      <3>1. wc[n] \in Seq(Tokens) /\ wd[m - 1] \in Seq(Tokens)
        BY <1>3, <1>4, <2>1, <2>4
      <3>2. c[n + 1] \in Station /\ d[m] \in Station
        BY <1>2, <2>1, <2>4
      <3>3. Write(wc[n], c[n + 1]) = Write(wd[m - 1], d[m])
        BY <2>2, <2>5
      <3> QED
        BY <3>1, <3>2, <3>3, LastStation
    <2>7. Same(n, m - 1)
      BY <1>6, <1>1, <2>4, <2>6
    <2> QED
      BY <2>4, <2>6, <2>7
  <1> HIDE DEF T
  <1>7. \A n \in Nat : n \in T
    BY <1>5, <1>6, SetInduction
  <1>8. wc[Len(c)] = wd[Len(d)]
    BY DEF Fingerprint, wc, wd
  <1>9. Same(Len(c), Len(d))
    BY <1>1, <1>7, <1>8 DEF T
  <1> QED
    BY <1>9, SeqEqual

-----------------------------------------------------------------------------
(* What the other modules assume of files, parser and fingerprint.         *)

AllLines == {Blank, Comment, TooLong} \cup {Fields(fs) : fs \in Seq(Texts)}
Files == Seq(AllLines)
Parsed == {s \in Seq(Station) : Len(s) \in 1..MaxPresets}

LEMMA AllLinesAreLines == \A l \in AllLines : Line(l)
  <1> SUFFICES ASSUME NEW l \in AllLines
               PROVE  Line(l)
    OBVIOUS
  <1>1. CASE l \in {Blank, Comment, TooLong}
    BY <1>1 DEF Line
  <1>2. CASE \E fs \in Seq(Texts) : l = Fields(fs)
    <2>1. PICK fs \in Seq(Texts) : l = Fields(fs)
      BY <1>2
    <2>2. l.fields = fs
      BY <2>1 DEF Fields
    <2> QED
      BY <2>1, <2>2 DEF Line
  <1> QED
    BY <1>1, <1>2 DEF AllLines

\* A file that is cut short is a file.
LEMMA CutsAreFiles ==
  ASSUME NEW file \in Files, NEW cut \in CutFiles(file)
  PROVE  cut \in Files
  <1>1. Len(file) \in Nat /\ \A i \in 1..Len(file) : file[i] \in AllLines
    BY LenProperties DEF Files
  <1>2. PICK n \in 0..(Len(file) - 1) :
          \/ cut = SubSeq(file, 1, n)
          \/ \E half \in CutLines(file[n + 1]) :
               cut = Append(SubSeq(file, 1, n), half)
    BY DEF CutFiles
  <1>3. n \in 0..Len(file) /\ n + 1 \in 1..Len(file)
    BY <1>1
  <1> DEFINE head == SubSeq(file, 1, n)
  <1>4. head \in Seq(AllLines)
    BY <1>3, SubSeqFromOne DEF Files
  <1>5. ASSUME NEW half \in CutLines(file[n + 1])
        PROVE  half \in AllLines
    <2>1. Line(file[n + 1])
      BY <1>1, <1>3, AllLinesAreLines
    <2>2. Line(half)
      BY <2>1, CutLineIsLine
    <2> QED
      BY <2>2, Zenon DEF Line, AllLines
  <1> HIDE DEF head
  <1>6. CASE cut = head
    BY <1>4, <1>6 DEF Files
  <1>7. CASE \E half \in CutLines(file[n + 1]) : cut = Append(head, half)
    BY <1>4, <1>5, <1>7, AppendProperties DEF Files
  <1> QED
    BY <1>2, <1>6, <1>7 DEF head

\* ConfigStore, PresetServer and PresetSystem are about any files, parser and
\* fingerprint that meet their assumptions: presets.conf, ParseConfig and
\* Fingerprint do.  Truncated, a file parses to nothing; cut short, it is a
\* file; parsed, it is a list of stations that fits the buttons, or nothing;
\* and fingerprints tell such lists apart.
THEOREM FilesMeetAssumptions ==
  /\ << >> \in Files
  /\ ParseConfig(<< >>) = Nil
  /\ \A f \in Files : CutFiles(f) \subseteq Files
  /\ \A f \in Files : ParseConfig(f) \in Parsed \cup {Nil}
  /\ Nil \notin Parsed
  /\ \A c, d \in Parsed : Fingerprint(c) = Fingerprint(d) => c = d
  /\ \A c \in Parsed : c # << >> /\ DOMAIN c \subseteq 1..MaxPresets
  <1>1. << >> \in Files
    BY EmptySeq DEF Files
  <1>2. ParseConfig(<< >>) = Nil
    <2>1. Len(<< >>) = 0
      BY EmptySeq
    <2>2. Scan(<< >>)[0] = << >>
      BY <1>1, AllLinesAreLines, ScanSteps DEF Files
    <2> QED
      BY <2>1, <2>2 DEF ParseConfig
  <1>3. \A f \in Files : CutFiles(f) \subseteq Files
    BY CutsAreFiles
  <1>4. \A f \in Files : ParseConfig(f) \in Parsed \cup {Nil}
    BY AllLinesAreLines, ParsedStations DEF Files, YieldsStations, Parsed
  <1>5. Nil \notin Parsed
    BY NilIsNoPartial DEF Parsed
  <1>6. \A c, d \in Parsed : Fingerprint(c) = Fingerprint(d) => c = d
    BY FingerprintInjective DEF Parsed
  <1>7. ASSUME NEW c \in Parsed
        PROVE  c # << >> /\ DOMAIN c \subseteq 1..MaxPresets
    <2>1. c \in Seq(Station) /\ Len(c) \in 1..MaxPresets
      BY DEF Parsed
    <2>2. c # << >>
      BY <2>1, EmptySeq
    <2>3. DOMAIN c = 1..Len(c)
      BY <2>1, LenProperties
    <2> QED
      BY <2>1, <2>2, <2>3
  <1> QED
    BY <1>1, <1>2, <1>3, <1>4, <1>5, <1>6, <1>7

=============================================================================
