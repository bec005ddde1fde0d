--------------------------- MODULE ScoringProofs ----------------------------
(***************************************************************************)
(* Proofs about Scoring, for file names of any length, made of any         *)
(* components, and for any thresholds the theorems name.  The tables are   *)
(* those of the source: a sum over one of them is written out in full, and *)
(* so is what it takes for a rule to match.                                *)
(***************************************************************************)
EXTENDS Scoring, SumProofs, SequenceTheorems, FiniteSetTheorems

PREFIXES == SUSPICIOUS_PATH_PREFIXES
SUFFIXES == SUSPICIOUS_PATH_SUFFIXES

\* What a rule adds if it is among the hits.
Term(weight, n, hits) == IF n \in hits THEN weight ELSE 0

\* The components of a path.
IsPath2(path, a, b) ==
    /\ Len(path) = 2 /\ path = [i \in 1 .. 2 |-> path[i]]
    /\ path[1] = a /\ path[2] = b
IsPath3(path, a, b, c) ==
    /\ Len(path) = 3 /\ path = [i \in 1 .. 3 |-> path[i]]
    /\ path[1] = a /\ path[2] = b /\ path[3] = c
IsPath4(path, a, b, c, d) ==
    /\ Len(path) = 4 /\ path = [i \in 1 .. 4 |-> path[i]]
    /\ path[1] = a /\ path[2] = b /\ path[3] = c /\ path[4] = d
IsPath5(path, a, b, c, d, e) ==
    /\ Len(path) = 5 /\ path = [i \in 1 .. 5 |-> path[i]]
    /\ path[1] = a /\ path[2] = b /\ path[3] = c /\ path[4] = d /\ path[5] = e

LEMMA Tuples ==
    \A a, b, c, d, e : /\ IsPath2(<<a, b>>, a, b)
                       /\ IsPath3(<<a, b, c>>, a, b, c)
                       /\ IsPath4(<<a, b, c, d>>, a, b, c, d)
                       /\ IsPath5(<<a, b, c, d, e>>, a, b, c, d, e)
  BY DEF IsPath2, IsPath3, IsPath4, IsPath5

\* The tables of the source: the prefixes,
LEMMA PrefixPaths ==
    /\ IsPath3(PREFIXES[1].path, "", "etc", "shadow")
    /\ IsPath3(PREFIXES[2].path, "", "etc", "kubernetes")
    /\ IsPath5(PREFIXES[3].path, "", "var", "lib", "kubelet", "pods")
    /\ IsPath4(PREFIXES[4].path, "", "proc", "1", "root")
    /\ IsPath4(PREFIXES[5].path, "", "proc", "1", "ns")
    /\ IsPath2(PREFIXES[6].path, "", "host")
<1>1. /\ PREFIXES[1].path = <<"", "etc", "shadow">>
      /\ PREFIXES[2].path = <<"", "etc", "kubernetes">>
      /\ PREFIXES[3].path = <<"", "var", "lib", "kubelet", "pods">>
      /\ PREFIXES[4].path = <<"", "proc", "1", "root">>
      /\ PREFIXES[5].path = <<"", "proc", "1", "ns">>
      /\ PREFIXES[6].path = <<"", "host">>
  BY DEF PREFIXES, SUSPICIOUS_PATH_PREFIXES, Rule
<1>2. IsPath3(PREFIXES[1].path, "", "etc", "shadow")
  BY <1>1, Tuples, Zenon
<1>3. IsPath3(PREFIXES[2].path, "", "etc", "kubernetes")
  BY <1>1, Tuples, Zenon
<1>4. IsPath5(PREFIXES[3].path, "", "var", "lib", "kubelet", "pods")
  BY <1>1, Tuples, Zenon
<1>5. IsPath4(PREFIXES[4].path, "", "proc", "1", "root")
  BY <1>1, Tuples, Zenon
<1>6. IsPath4(PREFIXES[5].path, "", "proc", "1", "ns")
  BY <1>1, Tuples, Zenon
<1>7. IsPath2(PREFIXES[6].path, "", "host")
  BY <1>1, Tuples, Zenon
<1> QED
  BY <1>2, <1>3, <1>4, <1>5, <1>6, <1>7

LEMMA PrefixWeights ==
    /\ PREFIXES[1].weight = 60
    /\ PREFIXES[2].weight = 40
    /\ PREFIXES[3].weight = 50
    /\ PREFIXES[4].weight = 100
    /\ PREFIXES[5].weight = 100
    /\ PREFIXES[6].weight = 30
  BY DEF PREFIXES, SUSPICIOUS_PATH_PREFIXES, Rule

LEMMA PrefixTable == Len(PREFIXES) = 6 /\ DOMAIN PREFIXES = 1 .. 6
  BY DEF PREFIXES, SUSPICIOUS_PATH_PREFIXES

\* and the suffixes.
LEMMA SuffixPaths ==
    /\ IsPath3(SUFFIXES[1].path, "", "etc", "shadow")
    /\ IsPath5(SUFFIXES[2].path, "", "etc", "kubernetes", "pki", "ca.key")
    /\ IsPath4(SUFFIXES[3].path, "", "etc", "kubernetes", "admin.conf")
    /\ IsPath3(SUFFIXES[4].path, "", ".ssh", "id_rsa")
    /\ IsPath3(SUFFIXES[5].path, "", ".ssh", "authorized_keys")
<1>1. /\ SUFFIXES[1].path = <<"", "etc", "shadow">>
      /\ SUFFIXES[2].path = <<"", "etc", "kubernetes", "pki", "ca.key">>
      /\ SUFFIXES[3].path = <<"", "etc", "kubernetes", "admin.conf">>
      /\ SUFFIXES[4].path = <<"", ".ssh", "id_rsa">>
      /\ SUFFIXES[5].path = <<"", ".ssh", "authorized_keys">>
  BY DEF SUFFIXES, SUSPICIOUS_PATH_SUFFIXES, Rule
<1>2. IsPath3(SUFFIXES[1].path, "", "etc", "shadow")
  BY <1>1, Tuples, Zenon
<1>3. IsPath5(SUFFIXES[2].path, "", "etc", "kubernetes", "pki", "ca.key")
  BY <1>1, Tuples, Zenon
<1>4. IsPath4(SUFFIXES[3].path, "", "etc", "kubernetes", "admin.conf")
  BY <1>1, Tuples, Zenon
<1>5. IsPath3(SUFFIXES[4].path, "", ".ssh", "id_rsa")
  BY <1>1, Tuples, Zenon
<1>6. IsPath3(SUFFIXES[5].path, "", ".ssh", "authorized_keys")
  BY <1>1, Tuples, Zenon
<1> QED
  BY <1>2, <1>3, <1>4, <1>5, <1>6

LEMMA SuffixWeights ==
    /\ SUFFIXES[1].weight = 60
    /\ SUFFIXES[2].weight = 100
    /\ SUFFIXES[3].weight = 100
    /\ SUFFIXES[4].weight = 60
    /\ SUFFIXES[5].weight = 60
  BY DEF SUFFIXES, SUSPICIOUS_PATH_SUFFIXES, Rule

LEMMA SuffixTable == Len(SUFFIXES) = 5 /\ DOMAIN SUFFIXES = 1 .. 5
  BY DEF SUFFIXES, SUSPICIOUS_PATH_SUFFIXES

\* /etc/shadow is in both.
LEMMA ShadowTwice == SUFFIXES[1].path = PREFIXES[1].path
  BY DEF PREFIXES, SUFFIXES, SUSPICIOUS_PATH_PREFIXES,
         SUSPICIOUS_PATH_SUFFIXES, Rule

\* The rule book is the prefixes, and the suffixes without the first.
LEMMA BookRules ==
    /\ Len(RuleBook) = 10
    /\ DOMAIN RuleBook = 1 .. 10
    /\ \A n \in 1 .. 6 : RuleBook[n] = PREFIXES[n]
    /\ \A n \in 7 .. 10 : RuleBook[n] = SUFFIXES[n - 5]
<1> DEFINE S == {PREFIXES[n] : n \in 1 .. 6} \cup {SUFFIXES[n] : n \in 1 .. 5}
<1>1. /\ \A n \in 1 .. 6 : PREFIXES[n] \in S
      /\ \A n \in 1 .. 5 : SUFFIXES[n] \in S
  OBVIOUS
<1> HIDE DEF S
<1>2. PREFIXES \in Seq(S)
  <2>1. PREFIXES = [n \in 1 .. 6 |-> PREFIXES[n]]
    BY DEF PREFIXES, SUSPICIOUS_PATH_PREFIXES
  <2>2. PREFIXES \in [1 .. 6 -> S]
    BY <1>1, <2>1
  <2> QED
    BY <2>2, SeqDef
<1>3. SUFFIXES \in Seq(S)
  <2>1. SUFFIXES = [n \in 1 .. 5 |-> SUFFIXES[n]]
    BY DEF SUFFIXES, SUSPICIOUS_PATH_SUFFIXES
  <2>2. SUFFIXES \in [1 .. 5 -> S]
    BY <1>1, <2>1
  <2> QED
    BY <2>2, SeqDef
<1> DEFINE rest == Tail(SUFFIXES)
<1>4. Len(PREFIXES) = 6 /\ Len(SUFFIXES) = 5
  BY PrefixTable, SuffixTable
<1>5. /\ rest \in Seq(S)
      /\ Len(rest) = Len(SUFFIXES) - 1
      /\ \A n \in 1 .. Len(rest) : rest[n] = SUFFIXES[n + 1]
  <2>1. SUFFIXES # <<>>
    BY <1>4
  <2> QED
    BY <1>3, <2>1, HeadTailProperties
<1>6. RuleBook = PREFIXES \o rest
  BY DEF RuleBook, PREFIXES, SUFFIXES
<1> HIDE DEF rest
<1>7. /\ RuleBook \in Seq(S)
      /\ Len(RuleBook) = Len(PREFIXES) + Len(rest)
      /\ \A n \in 1 .. Len(PREFIXES) + Len(rest) :
            RuleBook[n] = IF n <= Len(PREFIXES) THEN PREFIXES[n]
                          ELSE rest[n - Len(PREFIXES)]
  BY <1>2, <1>5, <1>6, ConcatProperties
<1>8. Len(rest) = 4 /\ Len(RuleBook) = 10 /\ DOMAIN RuleBook = 1 .. 10
  BY <1>4, <1>5, <1>7, LenProperties
<1>9. ASSUME NEW n \in 1 .. 6 PROVE RuleBook[n] = PREFIXES[n]
  <2>1. n \in 1 .. 6 + 4 /\ n <= 6
    OBVIOUS
  <2> QED
    BY <1>4, <1>7, <1>8, <2>1
<1>10. ASSUME NEW n \in 7 .. 10 PROVE RuleBook[n] = SUFFIXES[n - 5]
  <2>1. n \in 1 .. 6 + 4 /\ ~(n <= 6)
    OBVIOUS
  <2>2. RuleBook[n] = rest[n - 6]
    BY <1>4, <1>7, <1>8, <2>1
  <2>3. n - 6 \in 1 .. 4 /\ n - 6 + 1 = n - 5
    OBVIOUS
  <2> QED
    BY <1>5, <1>8, <2>2, <2>3
<1> QED
  BY <1>8, <1>9, <1>10

\* The weights in it.
LEMMA BookWeights ==
    /\ RuleBook[1].weight = 60 /\ RuleBook[2].weight = 40
    /\ RuleBook[3].weight = 50 /\ RuleBook[4].weight = 100
    /\ RuleBook[5].weight = 100 /\ RuleBook[6].weight = 30
    /\ RuleBook[7].weight = 100 /\ RuleBook[8].weight = 100
    /\ RuleBook[9].weight = 60 /\ RuleBook[10].weight = 60
<1>1. /\ RuleBook[1] = PREFIXES[1] /\ RuleBook[2] = PREFIXES[2]
      /\ RuleBook[3] = PREFIXES[3] /\ RuleBook[4] = PREFIXES[4]
      /\ RuleBook[5] = PREFIXES[5] /\ RuleBook[6] = PREFIXES[6]
      /\ RuleBook[7] = SUFFIXES[2] /\ RuleBook[8] = SUFFIXES[3]
      /\ RuleBook[9] = SUFFIXES[4] /\ RuleBook[10] = SUFFIXES[5]
  BY BookRules
<1> QED
  BY <1>1, PrefixWeights, SuffixWeights

\* A table is a sequence of rules with integer weights.
IsTable(table) ==
    /\ Len(table) \in Nat
    /\ \A n \in 1 .. Len(table) : table[n].weight \in Int

\* Weigh is the last of the sums of what the rules add.
LEMMA WeighMeaning ==
    ASSUME NEW table, IsTable(table), NEW hits
    PROVE  \E f : /\ SumsOf(f, [n \in 1 .. Len(table) |->
                                   Term(table[n].weight, n, hits)], Len(table))
                  /\ Weigh(table, hits) = f[Len(table)]
<1> DEFINE N == Len(table)
           d == [n \in 1 .. N |-> Term(table[n].weight, n, hits)]
           sum == CHOOSE t : t = [n \in 0 .. N |->
                     IF n = 0 THEN 0
                     ELSE t[n-1] + (IF n \in hits THEN table[n].weight ELSE 0)]
<1>1. N \in Nat /\ d \in [1 .. N -> Int]
  BY DEF IsTable, Term
<1>2. Weigh(table, hits) = sum[N]
  BY DEF Weigh
<1>3. ASSUME NEW t
      PROVE  [n \in 0 .. N |-> IF n = 0 THEN 0 ELSE
                  t[n-1] + (IF n \in hits THEN table[n].weight ELSE 0)]
               = [n \in 0 .. N |-> IF n = 0 THEN 0 ELSE t[n-1] + d[n]]
  BY <1>1 DEF Term
<1>4. PICK t \in [0 .. N -> Int] : SumsOf(t, d, N)
  BY <1>1, SumsExist
<1>5. t = [n \in 0 .. N |-> IF n = 0 THEN 0 ELSE
               t[n-1] + (IF n \in hits THEN table[n].weight ELSE 0)]
  <2> HIDE DEF d, sum
  <2>1. t = [n \in 0 .. N |-> IF n = 0 THEN 0 ELSE t[n-1] + d[n]]
    BY <1>1, <1>4, SumsRecurse
  <2> QED
    BY <1>3, <2>1
<1>6. sum = [n \in 0 .. N |-> IF n = 0 THEN 0 ELSE
                 sum[n-1] + (IF n \in hits THEN table[n].weight ELSE 0)]
  BY <1>5
<1> HIDE DEF sum, d
<1>7. SumsOf(sum, d, N)
  BY <1>1, <1>3, <1>6, RecursionSums
<1> QED
  BY <1>2, <1>7 DEF d

\* The sums written out.
LEMMA SumOfTen ==
    ASSUME NEW f, NEW d, NEW N \in {5, 6, 10}, d \in [1 .. N -> Int],
           SumsOf(f, d, N)
    PROVE  /\ N = 5 => f[5] = d[1] + d[2] + d[3] + d[4] + d[5]
           /\ N = 6 => f[6] = d[1] + d[2] + d[3] + d[4] + d[5] + d[6]
           /\ N = 10 => f[10] = d[1] + d[2] + d[3] + d[4] + d[5] + d[6]
                                 + d[7] + d[8] + d[9] + d[10]
<1>1. /\ f[0] = 0
      /\ \A n \in 1 .. N : f[n] \in Int /\ d[n] \in Int /\ f[n] = f[n-1] + d[n]
  BY DEF SumsOf
<1>2. \A n \in 1 .. 5 : f[n] \in Int /\ d[n] \in Int /\ f[n] = f[n-1] + d[n]
  BY <1>1
<1>3. f[5] = d[1] + d[2] + d[3] + d[4] + d[5]
  <2>1. f[1] = f[0] + d[1] /\ d[1] \in Int /\ f[1] \in Int
    BY <1>2
  <2>2. f[2] = f[1] + d[2] /\ d[2] \in Int /\ f[2] \in Int
    BY <1>2
  <2>3. f[3] = f[2] + d[3] /\ d[3] \in Int /\ f[3] \in Int
    BY <1>2
  <2>4. f[4] = f[3] + d[4] /\ d[4] \in Int /\ f[4] \in Int
    BY <1>2
  <2>5. f[5] = f[4] + d[5] /\ d[5] \in Int /\ f[5] \in Int
    BY <1>2
  <2>6. f[2] = d[1] + d[2]
    BY <1>1, <2>1, <2>2
  <2> QED
    BY <2>1, <2>2, <2>3, <2>4, <2>5, <2>6
<1>4. CASE N \in {6, 10}
  <2>1. f[6] = f[5] + d[6]
    BY <1>1, <1>4
  <2>2. CASE N = 10
    <3>1. /\ f[7] = f[6] + d[7]
          /\ f[8] = f[7] + d[8]
          /\ f[9] = f[8] + d[9]
          /\ f[10] = f[9] + d[10]
      BY <1>1, <2>2
    <3> QED
      BY <1>3, <2>1, <2>2, <3>1
  <2> QED
    BY <1>3, <1>4, <2>1, <2>2
<1> QED
  BY <1>3, <1>4

\* What is weighed with the tables of the source: the prefixes,
LEMMA WeighPrefixes ==
    ASSUME NEW hits
    PROVE  Weigh(PREFIXES, hits) =
               Term(60, 1, hits) + Term(40, 2, hits) + Term(50, 3, hits)
                 + Term(100, 4, hits) + Term(100, 5, hits) + Term(30, 6, hits)
<1> DEFINE d == [n \in 1 .. 6 |-> Term(PREFIXES[n].weight, n, hits)]
<1>1. /\ PREFIXES[1].weight = 60 /\ PREFIXES[2].weight = 40
      /\ PREFIXES[3].weight = 50 /\ PREFIXES[4].weight = 100
      /\ PREFIXES[5].weight = 100 /\ PREFIXES[6].weight = 30
  BY PrefixWeights
<1>2. IsTable(PREFIXES)
  BY <1>1, PrefixTable DEF IsTable
<1>3. d \in [1 .. 6 -> Int]
  BY <1>1 DEF Term
<1>4. PICK f : SumsOf(f, d, 6) /\ Weigh(PREFIXES, hits) = f[6]
  <2>1. Len(PREFIXES) = 6
    BY PrefixTable
  <2> QED
    BY <1>2, <2>1, WeighMeaning
<1>5. /\ d[1] = Term(60, 1, hits) /\ d[2] = Term(40, 2, hits)
      /\ d[3] = Term(50, 3, hits) /\ d[4] = Term(100, 4, hits)
      /\ d[5] = Term(100, 5, hits) /\ d[6] = Term(30, 6, hits)
  BY <1>1
<1> HIDE DEF d
<1>6. f[6] = d[1] + d[2] + d[3] + d[4] + d[5] + d[6]
  BY <1>3, <1>4, SumOfTen
<1> QED
  BY <1>4, <1>5, <1>6

\* the suffixes,
LEMMA WeighSuffixes ==
    ASSUME NEW hits
    PROVE  Weigh(SUFFIXES, hits) =
               Term(60, 1, hits) + Term(100, 2, hits) + Term(100, 3, hits)
                 + Term(60, 4, hits) + Term(60, 5, hits)
<1> DEFINE d == [n \in 1 .. 5 |-> Term(SUFFIXES[n].weight, n, hits)]
<1>1. /\ SUFFIXES[1].weight = 60 /\ SUFFIXES[2].weight = 100
      /\ SUFFIXES[3].weight = 100 /\ SUFFIXES[4].weight = 60
      /\ SUFFIXES[5].weight = 60
  BY SuffixWeights
<1>2. IsTable(SUFFIXES)
  BY <1>1, SuffixTable DEF IsTable
<1>3. d \in [1 .. 5 -> Int]
  BY <1>1 DEF Term
<1>4. PICK f : SumsOf(f, d, 5) /\ Weigh(SUFFIXES, hits) = f[5]
  <2>1. Len(SUFFIXES) = 5
    BY SuffixTable
  <2> QED
    BY <1>2, <2>1, WeighMeaning
<1>5. /\ d[1] = Term(60, 1, hits) /\ d[2] = Term(100, 2, hits)
      /\ d[3] = Term(100, 3, hits) /\ d[4] = Term(60, 4, hits)
      /\ d[5] = Term(60, 5, hits)
  BY <1>1
<1> HIDE DEF d
<1>6. f[5] = d[1] + d[2] + d[3] + d[4] + d[5]
  BY <1>3, <1>4, SumOfTen
<1> QED
  BY <1>4, <1>5, <1>6

\* and the whole book.
LEMMA WeighBook ==
    ASSUME NEW hits
    PROVE  Weigh(RuleBook, hits) =
               Term(60, 1, hits) + Term(40, 2, hits) + Term(50, 3, hits)
                 + Term(100, 4, hits) + Term(100, 5, hits) + Term(30, 6, hits)
                 + Term(100, 7, hits) + Term(100, 8, hits)
                 + Term(60, 9, hits) + Term(60, 10, hits)
<1> DEFINE d == [n \in 1 .. 10 |-> Term(RuleBook[n].weight, n, hits)]
<1>1. /\ RuleBook[1].weight = 60 /\ RuleBook[2].weight = 40
      /\ RuleBook[3].weight = 50 /\ RuleBook[4].weight = 100
      /\ RuleBook[5].weight = 100 /\ RuleBook[6].weight = 30
      /\ RuleBook[7].weight = 100 /\ RuleBook[8].weight = 100
      /\ RuleBook[9].weight = 60 /\ RuleBook[10].weight = 60
  BY BookWeights
<1>2. IsTable(RuleBook)
  BY <1>1, BookRules DEF IsTable
<1>3. d \in [1 .. 10 -> Int]
  BY <1>1 DEF Term
<1>4. PICK f : SumsOf(f, d, 10) /\ Weigh(RuleBook, hits) = f[10]
  <2>1. Len(RuleBook) = 10
    BY BookRules
  <2> QED
    BY <1>2, <2>1, WeighMeaning
<1>5. /\ d[1] = Term(60, 1, hits) /\ d[2] = Term(40, 2, hits)
      /\ d[3] = Term(50, 3, hits) /\ d[4] = Term(100, 4, hits)
      /\ d[5] = Term(100, 5, hits) /\ d[6] = Term(30, 6, hits)
      /\ d[7] = Term(100, 7, hits) /\ d[8] = Term(100, 8, hits)
      /\ d[9] = Term(60, 9, hits) /\ d[10] = Term(60, 10, hits)
  BY <1>1
<1> HIDE DEF d
<1>6. f[10] = d[1] + d[2] + d[3] + d[4] + d[5] + d[6] + d[7] + d[8] + d[9] + d[10]
  BY <1>3, <1>4, SumOfTen
<1> QED
  BY <1>4, <1>5, <1>6

-----------------------------------------------------------------------------

\* The paths of the rules are sequences of more than one component.
IsPath(path) ==
    /\ Len(path) \in Nat
    /\ Len(path) >= 2
    /\ path = [i \in 1 .. Len(path) |-> path[i]]

LEMMA RulePaths ==
    /\ \A n \in 1 .. 6 : IsPath(PREFIXES[n].path)
    /\ \A n \in 1 .. 5 : IsPath(SUFFIXES[n].path)
<1>1. ASSUME NEW path, NEW a, NEW b, NEW c, NEW d, NEW e,
             \/ IsPath2(path, a, b)
             \/ IsPath3(path, a, b, c)
             \/ IsPath4(path, a, b, c, d)
             \/ IsPath5(path, a, b, c, d, e)
      PROVE  IsPath(path)
  BY <1>1 DEF IsPath, IsPath2, IsPath3, IsPath4, IsPath5
<1>2. /\ IsPath(PREFIXES[1].path) /\ IsPath(PREFIXES[2].path)
      /\ IsPath(PREFIXES[3].path) /\ IsPath(PREFIXES[4].path)
      /\ IsPath(PREFIXES[5].path) /\ IsPath(PREFIXES[6].path)
  BY <1>1, PrefixPaths
<1>3. /\ IsPath(SUFFIXES[1].path) /\ IsPath(SUFFIXES[2].path)
      /\ IsPath(SUFFIXES[3].path) /\ IsPath(SUFFIXES[4].path)
      /\ IsPath(SUFFIXES[5].path)
  BY <1>1, SuffixPaths
<1> QED
  BY <1>2, <1>3

LEMMA PathIsSeq ==
    ASSUME NEW path, IsPath(path), NEW S, \A i \in 1 .. Len(path) : path[i] \in S
    PROVE  path \in Seq(S)
<1>1. path \in [1 .. Len(path) -> S]
  BY DEF IsPath
<1> QED
  BY <1>1, SeqDef DEF IsPath

\* A path matches where its components are the first ones of the name, which
\* is what it is to lie under it.
LEMMA MatchMeaning ==
    ASSUME NEW name \in Name, NEW path, IsPath(path)
    PROVE  /\ PathMatches(name, path) <=>
                  /\ Len(name) >= Len(path)
                  /\ \A i \in 1 .. Len(path) : name[i] = path[i]
           /\ LiesUnder(name, path) <=> PathMatches(name, path)
<1> DEFINE S == Components \cup {path[i] : i \in 1 .. Len(path)}
<1>1. /\ name \in Seq(S)
      /\ Len(name) \in Nat
      /\ DOMAIN name = 1 .. Len(name)
      /\ Len(path) \in Nat
      /\ Len(path) >= 2
      /\ path \in Seq(S)
  <2>1. path \in Seq(S)
    BY PathIsSeq
  <2>2. name \in Seq(Components) /\ Components \subseteq S
    BY DEF Name
  <2>3. name \in Seq(S)
    BY <2>2, SeqMonotonic
  <2> QED
    BY <2>1, <2>2, <2>3, LenProperties DEF IsPath
<1> HIDE DEF S
<1>2. ASSUME NEW n \in 1 .. Len(name)
      PROVE  /\ SubSeq(name, 1, n) \in Seq(S)
             /\ Len(SubSeq(name, 1, n)) = n
             /\ \A i \in 1 .. n : SubSeq(name, 1, n)[i] = name[i]
  BY <1>1
<1>3. SubSeq(path, 1, Len(path)) = path
  BY <1>1
<1>4. ASSUME NEW n \in 1 .. Len(name)
      PROVE  SubSeq(name, 1, n) = path <=>
                /\ n = Len(path)
                /\ \A i \in 1 .. Len(path) : name[i] = path[i]
  BY <1>1, <1>2, SeqEqual
<1>5. PathMatches(name, path) <=>
         Len(path) <= Len(name) /\ SubSeq(name, 1, Len(path)) = path
  BY <1>3 DEF PathMatches, IsPrefix
<1>6. Len(path) <= Len(name) => Len(path) \in 1 .. Len(name)
  BY <1>1
<1>7. PathMatches(name, path) <=>
         /\ Len(name) >= Len(path)
         /\ \A i \in 1 .. Len(path) : name[i] = path[i]
  BY <1>1, <1>4, <1>5, <1>6
<1>8. LiesUnder(name, path) <=>
         \E n \in 1 .. Len(name) : SubSeq(name, 1, n) = path
  BY <1>1 DEF LiesUnder
<1>9. LiesUnder(name, path) <=> PathMatches(name, path)
  BY <1>1, <1>4, <1>5, <1>6, <1>8
<1> QED
  BY <1>7, <1>9

\* A path ends a name where its components after the first are the last ones
\* of the name, which is what it is to be a copy.
LEMMA EndMeaning ==
    ASSUME NEW name \in Name, NEW path, IsPath(path)
    PROVE  /\ EndsWith(name, path) <=>
                  /\ Len(name) >= Len(path)
                  /\ \A i \in 2 .. Len(path) :
                        name[Len(name) - Len(path) + i] = path[i]
           /\ IsCopyOf(name, path) <=> EndsWith(name, path)
<1> DEFINE tail == Tail(path)
           k == Len(name) - Len(path)
           S == Components \cup {path[i] : i \in 1 .. Len(path)}
<1>1. /\ name \in Seq(S)
      /\ Len(name) \in Nat
      /\ DOMAIN name = 1 .. Len(name)
      /\ Len(path) \in Nat
      /\ Len(path) >= 2
      /\ path \in Seq(S)
      /\ k \in Int
  <2>1. path \in Seq(S)
    BY PathIsSeq
  <2>2. name \in Seq(Components) /\ Components \subseteq S
    BY DEF Name
  <2>3. name \in Seq(S)
    BY <2>2, SeqMonotonic
  <2> QED
    BY <2>1, <2>2, <2>3, LenProperties DEF IsPath
<1>2. /\ tail \in Seq(S)
      /\ Len(tail) = Len(path) - 1
      /\ \A i \in 1 .. Len(tail) : tail[i] = path[i + 1]
  <2>1. path # <<>>
    BY <1>1
  <2> QED
    BY <1>1, <2>1, HeadTailProperties
<1> HIDE DEF tail, k, S
<1>3. ASSUME NEW n \in 1 .. Len(name)
      PROVE  SubSeq(name, n + 1, Len(name)) = tail <=>
                /\ n = k + 1
                /\ \A i \in 2 .. Len(path) : name[k + i] = path[i]
  <2>1. /\ SubSeq(name, n + 1, Len(name)) \in Seq(S)
        /\ Len(SubSeq(name, n + 1, Len(name))) = Len(name) - n
        /\ \A i \in 1 .. Len(name) - n :
              SubSeq(name, n + 1, Len(name))[i] = name[n + i]
    <3>1. \A i \in n + 1 .. Len(name) : name[i] \in S
      BY <1>1
    <3>2. /\ SubSeq(name, n + 1, Len(name)) \in Seq(S)
          /\ Len(SubSeq(name, n + 1, Len(name))) =
                IF n + 1 <= Len(name) THEN Len(name) - (n + 1) + 1 ELSE 0
          /\ \A i \in 1 .. Len(name) - (n + 1) + 1 :
                SubSeq(name, n + 1, Len(name))[i] = name[n + 1 + i - 1]
      BY <1>1, <3>1, SubSeqProperties
    <3>3. n \in Nat /\ Len(name) \in Nat /\ n <= Len(name)
      BY <1>1
    <3>4. /\ IF n + 1 <= Len(name) THEN Len(name) - (n + 1) + 1 = Len(name) - n
                                  ELSE 0 = Len(name) - n
          /\ Len(name) - (n + 1) + 1 = Len(name) - n
      BY <3>3
    <3>5. \A i \in 1 .. Len(name) - n : n + 1 + i - 1 = n + i
      BY <3>3
    <3> QED
      BY <3>2, <3>4, <3>5
  <2>2. n = k + 1 <=> Len(name) - n = Len(tail)
    BY <1>1, <1>2 DEF k
  <2>3. ASSUME n = k + 1
        PROVE  SubSeq(name, n + 1, Len(name)) = tail <=>
                  \A i \in 2 .. Len(path) : name[k + i] = path[i]
    <3>1. Len(name) - n = Len(path) - 1
      BY <1>2, <2>2, <2>3
    <3>2. SubSeq(name, n + 1, Len(name)) = tail <=>
             \A i \in 1 .. Len(path) - 1 : name[n + i] = path[i + 1]
      BY <1>2, <2>1, <3>1, SeqEqual
    <3>3. \A i \in 1 .. Len(path) - 1 :
             i + 1 \in 2 .. Len(path) /\ n + i = k + (i + 1)
      BY <1>1, <2>3
    <3>4. \A i \in 2 .. Len(path) :
             /\ i - 1 \in 1 .. Len(path) - 1
             /\ (i - 1) + 1 = i
             /\ n + (i - 1) = k + i
      BY <1>1, <2>3
    <3> QED
      BY <3>2, <3>3, <3>4
  <2> QED
    BY <2>1, <2>2, <2>3
<1>4. EndsWith(name, path) <=>
         /\ Len(name) >= Len(path)
         /\ \A i \in 2 .. Len(path) : name[k + i] = path[i]
  <2> DEFINE m == Len(path) - 1
  <2>1. /\ m \in Nat
        /\ m >= 1
        /\ Len(Reverse(tail)) = m
        /\ \A i \in 1 .. m : Reverse(tail)[i] = path[Len(path) + 1 - i]
    <3>1. m \in Nat /\ m >= 1 /\ m = Len(tail)
      BY <1>1, <1>2
    <3>2. /\ Len(Reverse(tail)) = m
          /\ \A i \in 1 .. m : Reverse(tail)[i] = tail[m - i + 1]
      BY <3>1 DEF Reverse
    <3>3. \A i \in 1 .. m : /\ m - i + 1 \in 1 .. m
                            /\ m - i + 1 + 1 = Len(path) + 1 - i
      BY <1>1
    <3>4. \A i \in 1 .. m : tail[m - i + 1] = path[m - i + 1 + 1]
      BY <1>2, <3>1, <3>3
    <3> QED
      BY <3>1, <3>2, <3>3, <3>4
  <2>2. /\ Len(Reverse(name)) = Len(name)
        /\ \A i \in 1 .. Len(name) : Reverse(name)[i] = name[Len(name) + 1 - i]
    BY <1>1 DEF Reverse
  <2>3. EndsWith(name, path) <=>
           /\ Len(name) >= Len(path)
           /\ SubSeq(Reverse(tail), 1, m) = SubSeq(Reverse(name), 1, m)
    BY <1>1, <2>1, <2>2 DEF EndsWith, IsSuffix, IsPrefix, tail
  <2> SUFFICES ASSUME Len(name) >= Len(path)
               PROVE  SubSeq(Reverse(tail), 1, m) = SubSeq(Reverse(name), 1, m)
                        <=> \A i \in 2 .. Len(path) : name[k + i] = path[i]
    BY <2>3
  <2>4. /\ SubSeq(Reverse(tail), 1, m) \in Seq(S)
        /\ Len(SubSeq(Reverse(tail), 1, m)) = m
        /\ \A i \in 1 .. m : SubSeq(Reverse(tail), 1, m)[i] = path[Len(path) + 1 - i]
    <3>1. \A i \in 1 .. m : Reverse(tail)[i] \in S
      <4>1. \A i \in 1 .. m : Len(path) + 1 - i \in 1 .. Len(path)
        BY <1>1, <2>1
      <4>2. \A i \in 1 .. m : Reverse(tail)[i] = path[Len(path) + 1 - i]
        BY <1>1, <2>1
      <4> QED
        BY <1>1, <4>1, <4>2, ElementOfSeq
    <3>2. /\ SubSeq(Reverse(tail), 1, m) \in Seq(S)
          /\ Len(SubSeq(Reverse(tail), 1, m)) = IF 1 <= m THEN m - 1 + 1 ELSE 0
          /\ \A i \in 1 .. m - 1 + 1 :
                SubSeq(Reverse(tail), 1, m)[i] = Reverse(tail)[1 + i - 1]
      BY <2>1, <3>1, SubSeqProperties
    <3>3. m - 1 + 1 = m /\ 1 <= m /\ \A i \in 1 .. m : 1 + i - 1 = i
      BY <2>1
    <3> QED
      BY <3>2, <3>3, <2>1
  <2>5. /\ SubSeq(Reverse(name), 1, m) \in Seq(S)
        /\ Len(SubSeq(Reverse(name), 1, m)) = m
        /\ \A i \in 1 .. m : SubSeq(Reverse(name), 1, m)[i] = name[Len(name) + 1 - i]
    <3>1. \A i \in 1 .. m : Reverse(name)[i] \in S
      <4>1. \A i \in 1 .. m : Len(name) + 1 - i \in 1 .. Len(name)
        BY <1>1, <2>1
      <4>2. \A i \in 1 .. m : Reverse(name)[i] = name[Len(name) + 1 - i]
        BY <1>1, <2>1, <2>2
      <4> QED
        BY <1>1, <4>1, <4>2, ElementOfSeq
    <3>2. /\ SubSeq(Reverse(name), 1, m) \in Seq(S)
          /\ Len(SubSeq(Reverse(name), 1, m)) = IF 1 <= m THEN m - 1 + 1 ELSE 0
          /\ \A i \in 1 .. m - 1 + 1 :
                SubSeq(Reverse(name), 1, m)[i] = Reverse(name)[1 + i - 1]
      BY <2>1, <3>1, SubSeqProperties
    <3>3. m - 1 + 1 = m /\ 1 <= m /\ \A i \in 1 .. m : 1 + i - 1 = i
      BY <2>1
    <3> QED
      BY <3>2, <3>3, <1>1, <2>1, <2>2
  <2>6. SubSeq(Reverse(tail), 1, m) = SubSeq(Reverse(name), 1, m) <=>
           \A i \in 1 .. m : path[Len(path) + 1 - i] = name[Len(name) + 1 - i]
    BY <2>4, <2>5, SeqEqual
  <2>7. \A i \in 1 .. m : /\ Len(path) + 1 - i \in 2 .. Len(path)
                          /\ Len(name) + 1 - i = k + (Len(path) + 1 - i)
    BY <1>1 DEF k
  <2>8. \A i \in 2 .. Len(path) :
           /\ Len(path) + 1 - i \in 1 .. m
           /\ Len(path) + 1 - (Len(path) + 1 - i) = i
           /\ Len(name) + 1 - (Len(path) + 1 - i) = k + i
    BY <1>1 DEF k
  <2> HIDE DEF m
  <2> QED
    BY <2>6, <2>7, <2>8
<1>5. k + 1 \in 1 .. Len(name) <=> Len(name) >= Len(path)
  BY <1>1 DEF k
<1>6. IsCopyOf(name, path) <=>
         \E n \in 1 .. Len(name) : SubSeq(name, n + 1, Len(name)) = tail
  BY <1>1 DEF IsCopyOf, tail
<1>7. IsCopyOf(name, path) <=> EndsWith(name, path)
  BY <1>3, <1>4, <1>5, <1>6
<1> QED
  BY <1>4, <1>7 DEF k

-----------------------------------------------------------------------------

\* What tells the paths apart.
LEMMA Lengths ==
    /\ Len(PREFIXES[1].path) = 3 /\ Len(PREFIXES[2].path) = 3
    /\ Len(PREFIXES[3].path) = 5 /\ Len(PREFIXES[4].path) = 4
    /\ Len(PREFIXES[5].path) = 4 /\ Len(PREFIXES[6].path) = 2
    /\ Len(SUFFIXES[1].path) = 3 /\ Len(SUFFIXES[2].path) = 5
    /\ Len(SUFFIXES[3].path) = 4 /\ Len(SUFFIXES[4].path) = 3
    /\ Len(SUFFIXES[5].path) = 3
<1>1. \A path : /\ \A a, b : IsPath2(path, a, b) => Len(path) = 2
                /\ \A a, b, c : IsPath3(path, a, b, c) => Len(path) = 3
                /\ \A a, b, c, d : IsPath4(path, a, b, c, d) => Len(path) = 4
                /\ \A a, b, c, d, e :
                      IsPath5(path, a, b, c, d, e) => Len(path) = 5
  BY DEF IsPath2, IsPath3, IsPath4, IsPath5
<1> QED
  BY <1>1, PrefixPaths, SuffixPaths, Zenon

LEMMA TheirComponents ==
    /\ PREFIXES[1].path[2] = "etc" /\ PREFIXES[2].path[2] = "etc"
    /\ PREFIXES[3].path[2] = "var" /\ PREFIXES[4].path[2] = "proc"
    /\ PREFIXES[5].path[2] = "proc" /\ PREFIXES[6].path[2] = "host"
    /\ PREFIXES[1].path[3] = "shadow" /\ PREFIXES[2].path[3] = "kubernetes"
    /\ SUFFIXES[1].path[2] = "etc" /\ SUFFIXES[1].path[3] = "shadow"
    /\ SUFFIXES[2].path[2] = "etc" /\ SUFFIXES[3].path[2] = "etc"
    /\ SUFFIXES[4].path[2] = ".ssh" /\ SUFFIXES[5].path[2] = ".ssh"
  BY PrefixPaths, SuffixPaths DEF IsPath2, IsPath3, IsPath4, IsPath5

\* Of the suffixes, only the first is also a prefix, the first.
LEMMA OneTwice ==
    \A n \in 1 .. 5, k \in 1 .. 6 :
        SUFFIXES[n].path = PREFIXES[k].path <=> n = 1 /\ k = 1
<1>4. SUFFIXES[1].path = PREFIXES[1].path
  BY ShadowTwice
<1>5. ASSUME NEW k \in 2 .. 6 PROVE SUFFIXES[1].path # PREFIXES[k].path
  BY Lengths, TheirComponents
<1>6. ASSUME NEW k \in 1 .. 6, NEW n \in 2 .. 5
      PROVE SUFFIXES[n].path # PREFIXES[k].path
  <2>1. CASE k \in {1, 2}
    BY Lengths, TheirComponents, <2>1
  <2>2. CASE k \in 3 .. 6
    BY Lengths, TheirComponents, <2>2
  <2> QED
    BY <2>1, <2>2
<1> QED
  BY <1>4, <1>5, <1>6

\* What matches /etc/shadow matches no other prefix.
LEMMA ShadowAlone ==
    ASSUME NEW name \in Name, PathMatches(name, PREFIXES[1].path),
           NEW k \in 2 .. 6
    PROVE  ~PathMatches(name, PREFIXES[k].path)
<1>1. name[2] = "etc" /\ name[3] = "shadow"
  <2>1. \A i \in 1 .. 3 : name[i] = PREFIXES[1].path[i]
    BY MatchMeaning, RulePaths, Lengths
  <2> QED
    BY <2>1, TheirComponents
<1>2. ASSUME PathMatches(name, PREFIXES[k].path)
      PROVE  /\ name[2] = PREFIXES[k].path[2]
             /\ Len(PREFIXES[k].path) >= 3 => name[3] = PREFIXES[k].path[3]
  <2>1. IsPath(PREFIXES[k].path)
    BY RulePaths
  <2>2. \A i \in 1 .. Len(PREFIXES[k].path) : name[i] = PREFIXES[k].path[i]
    BY <1>2, <2>1, MatchMeaning
  <2> QED
    BY <2>1, <2>2 DEF IsPath
<1>3. CASE k = 2
  BY <1>1, <1>2, <1>3, Lengths, TheirComponents
<1>4. CASE k \in 3 .. 6
  BY <1>1, <1>2, <1>4, TheirComponents
<1> QED
  BY <1>3, <1>4

\* The prefix that is remembered is /etc/shadow if that matches, and else none
\* that is also a suffix.
LEMMA MatchedShadow ==
    ASSUME NEW name \in Name, NEW n \in 1 .. 5
    PROVE  SUFFIXES[n].path = MatchedPrefix(name) <=>
              n = 1 /\ PathMatches(name, PREFIXES[1].path)
<1>1. PrefixHits(name) = {k \in 1 .. 6 : PathMatches(name, PREFIXES[k].path)}
  BY PrefixTable DEF PrefixHits, PREFIXES
<1>2. CASE PrefixHits(name) = {}
  <2>1. MatchedPrefix(name) = <<>>
    BY <1>2 DEF MatchedPrefix
  <2>2. SUFFIXES[n].path # <<>>
    <3>1. Len(SUFFIXES[n].path) >= 2
      BY RulePaths DEF IsPath
    <3>2. Len(<<>>) = 0
      OBVIOUS
    <3> QED
      BY <3>1, <3>2
  <2>3. ~PathMatches(name, PREFIXES[1].path)
    BY <1>1, <1>2
  <2> QED
    BY <2>1, <2>2, <2>3
<1>3. CASE PrefixHits(name) # {}
  <2> DEFINE k == Max(PrefixHits(name))
  <2>1. k \in PrefixHits(name)
    <3> DEFINE T == {6 - x : x \in PrefixHits(name)}
    <3>1. T \subseteq Nat /\ T # {}
      BY <1>1, <1>3
    <3>2. PICK t \in T : \A u \in T : t <= u
      BY <3>1, LeastNatural
    <3>3. PICK x \in PrefixHits(name) : t = 6 - x
      BY <3>2
    <3>4. ASSUME NEW y \in PrefixHits(name) PROVE x >= y
      <4>1. 6 - x <= 6 - y
        BY <3>2, <3>3
      <4>2. x \in Int /\ y \in Int
        BY <1>1
      <4> QED
        BY <4>1, <4>2
    <3> QED
      BY <3>4 DEF Max
  <2>4. MatchedPrefix(name) = PREFIXES[k].path
    BY <1>3 DEF MatchedPrefix, PREFIXES
  <2>2. k \in 1 .. 6 /\ PathMatches(name, PREFIXES[k].path)
    BY <1>1, <2>1
  <2> HIDE DEF k
  <2>3. PathMatches(name, PREFIXES[1].path) <=> k = 1
    BY <2>2, ShadowAlone
  <2> QED
    BY <2>2, <2>3, <2>4, OneTwice
<1> QED
  BY <1>2, <1>3

\* Which rules score, and which signs there are.
LEMMA HitsMeaning ==
    ASSUME NEW name \in Name
    PROVE  /\ \A n \in 1 .. 6 : n \in PrefixHits(name) <=>
                  PathMatches(name, PREFIXES[n].path)
           /\ \A n \in 1 .. 5 : n \in SuffixHits(name, MatchedPrefix(name)) <=>
                  /\ ~(n = 1 /\ PathMatches(name, PREFIXES[1].path))
                  /\ EndsWith(name, SUFFIXES[n].path)
           /\ 1 \in Signs(name) <=> \/ PathMatches(name, PREFIXES[1].path)
                                   \/ EndsWith(name, SUFFIXES[1].path)
           /\ \A n \in 2 .. 6 : n \in Signs(name) <=>
                  PathMatches(name, PREFIXES[n].path)
           /\ \A n \in 7 .. 10 : n \in Signs(name) <=>
                  EndsWith(name, SUFFIXES[n - 5].path)
           /\ Signs(name) \subseteq 1 .. 10
<1>1. \A n \in 1 .. 6 : n \in PrefixHits(name) <=>
                            PathMatches(name, PREFIXES[n].path)
  BY PrefixTable DEF PrefixHits, PREFIXES
<1>2. ASSUME NEW n \in 1 .. 5
      PROVE  n \in SuffixHits(name, MatchedPrefix(name)) <=>
                  /\ ~(n = 1 /\ PathMatches(name, PREFIXES[1].path))
                  /\ EndsWith(name, SUFFIXES[n].path)
  BY SuffixTable, MatchedShadow DEF SuffixHits, SUFFIXES
<1>3. Signs(name) =
         {n \in 1 .. 10 : \/ n \in 1 .. 6 /\ LiesUnder(name, RuleBook[n].path)
                          \/ n \notin 2 .. 6 /\ IsCopyOf(name, RuleBook[n].path)}
  BY PrefixTable, BookRules DEF Signs, PREFIXES
<1>4. \A n \in 1 .. 6 :
         LiesUnder(name, RuleBook[n].path) <=> PathMatches(name, PREFIXES[n].path)
  BY BookRules, MatchMeaning, RulePaths
<1>5. ASSUME NEW n \in 7 .. 10
      PROVE  IsCopyOf(name, RuleBook[n].path) <=>
                EndsWith(name, SUFFIXES[n - 5].path)
  <2>1. n - 5 \in 1 .. 5
    OBVIOUS
  <2> QED
    BY <2>1, BookRules, EndMeaning, RulePaths
<1>6. IsCopyOf(name, RuleBook[1].path) <=> EndsWith(name, SUFFIXES[1].path)
  BY BookRules, EndMeaning, RulePaths, ShadowTwice
<1> QED
  BY <1>1, <1>2, <1>3, <1>4, <1>5, <1>6

\* The score of an event is that of its signs, its socket and its syscall.
LEMMA ScoreBySigns ==
    ASSUME NEW name \in Name
    PROVE  Weigh(PREFIXES, PrefixHits(name))
              + Weigh(SUFFIXES, SuffixHits(name, MatchedPrefix(name)))
              = Weigh(RuleBook, Signs(name))
<1> DEFINE p == PrefixHits(name)
           s == SuffixHits(name, MatchedPrefix(name))
           g == Signs(name)
<1>1. Term(60, 1, p) + Term(60, 1, s) = Term(60, 1, g)
  BY HitsMeaning DEF Term
<1>2. /\ Term(40, 2, p) = Term(40, 2, g)
      /\ Term(50, 3, p) = Term(50, 3, g)
      /\ Term(100, 4, p) = Term(100, 4, g)
      /\ Term(100, 5, p) = Term(100, 5, g)
      /\ Term(30, 6, p) = Term(30, 6, g)
  BY HitsMeaning DEF Term
<1>3. /\ Term(100, 2, s) = Term(100, 7, g)
      /\ Term(100, 3, s) = Term(100, 8, g)
      /\ Term(60, 4, s) = Term(60, 9, g)
      /\ Term(60, 5, s) = Term(60, 10, g)
  BY HitsMeaning DEF Term
<1>4. \A w \in Int : \A n, hits : Term(w, n, hits) \in Int
  BY DEF Term
<1> HIDE DEF p, s, g
<1> QED
  BY <1>1, <1>2, <1>3, <1>4, WeighPrefixes, WeighSuffixes, WeighBook DEF p, s, g

-----------------------------------------------------------------------------

\* An event has a name of at least one component, and a call that is probed.
EventTypeOK == filename \in Name /\ syscall \in Syscalls

\* _score_event of an event in the reach of the model: types are kept.
THEOREM EventTypeCorrect == Spec => []EventTypeOK
<1>1. Init => EventTypeOK
  <2>1. <<"">> \in Name
    BY DEF Name, Components
  <2> QED
    BY <2>1, StepsAssumption DEF Init, EventTypeOK
<1>2. EventTypeOK /\ [Next]_eventVars => EventTypeOK'
  <2> SUFFICES ASSUME EventTypeOK, [Next]_eventVars PROVE EventTypeOK'
    OBVIOUS
  <2>1. /\ filename \in Seq(Components)
        /\ filename # <<>>
        /\ \A step \in Steps : step \in Seq(Components)
    BY StepsAssumption DEF EventTypeOK, Name
  <2>2. ASSUME NEW step \in Steps, Descend(step) PROVE EventTypeOK'
    <3>1. /\ filename \o step \in Seq(Components)
          /\ Len(filename \o step) = Len(filename) + Len(step)
      BY <2>1, ConcatProperties
    <3>2. Len(filename) \in Nat \ {0} /\ Len(step) \in Nat
      BY <2>1, EmptySeq, LenProperties
    <3>3. filename \o step # <<>>
      BY <3>1, <3>2
    <3> QED
      BY <2>2, <3>1, <3>3 DEF Descend, EventTypeOK, Name
  <2>3. ASSUME NEW step \in Steps, SeeThrough(step) PROVE EventTypeOK'
    <3> DEFINE front == <<"">> \o step
               rest == Tail(filename)
    <3>1. <<"">> \in Seq(Components) /\ Len(<<"">>) = 1
      BY DEF Components
    <3>2. front \in Seq(Components) /\ Len(front) = 1 + Len(step)
      BY <2>1, <3>1, ConcatProperties
    <3>3. rest \in Seq(Components)
      BY <2>1, HeadTailProperties
    <3>4. filename' = front \o rest /\ syscall' = syscall
      BY <2>3 DEF SeeThrough
    <3> HIDE DEF front, rest
    <3>5. /\ front \o rest \in Seq(Components)
          /\ Len(front \o rest) = Len(front) + Len(rest)
      BY <3>2, <3>3, ConcatProperties
    <3>6. Len(step) \in Nat /\ Len(rest) \in Nat
      BY <2>1, <3>3, LenProperties
    <3>7. front \o rest # <<>>
      BY <3>2, <3>5, <3>6
    <3> QED
      BY <3>4, <3>5, <3>7 DEF EventTypeOK, Name
  <2>4. CASE UNCHANGED eventVars
    BY <2>4 DEF eventVars, EventTypeOK
  <2> QED
    BY <2>2, <2>3, <2>4 DEF Next
<1> QED
  BY <1>1, <1>2, PTL DEF Spec

\* What a name and a call add to the score is no negative number.
LEMMA PartsAreScores ==
    ASSUME NEW hits
    PROVE  /\ Weigh(RuleBook, hits) \in Nat
           /\ \A base : SUSPICIOUS_FILENAMES(base) \in {0, 100}
           /\ \A call : SUSPICIOUS_SYSCALLS(call) \in {0, 20, 40, 50, 70, 100}
<1>1. \A n : /\ Term(60, n, hits) \in Nat /\ Term(40, n, hits) \in Nat
             /\ Term(50, n, hits) \in Nat /\ Term(100, n, hits) \in Nat
             /\ Term(30, n, hits) \in Nat
  BY DEF Term
<1>2. Weigh(RuleBook, hits) \in Nat
  BY <1>1, WeighBook
<1> QED
  BY <1>2 DEF SUSPICIOUS_FILENAMES, SUSPICIOUS_SYSCALLS

\* _score_event adds every sign up, and none twice (correlator.py:226-233),
\* for every name of an event, however long.
LEMMA ScoreOfEvent ==
    ASSUME NEW name \in Name, NEW call
    PROVE  ScoreEvent(name, call) =
              Weigh(RuleBook, Signs(name))
                + SUSPICIOUS_FILENAMES(Last(name)) + SUSPICIOUS_SYSCALLS(call)
  BY ScoreBySigns DEF ScoreEvent, PREFIXES, SUFFIXES

THEOREM SignsCountOnce == Spec => []EverySignOnce
<1>1. EventTypeOK => EverySignOnce
  BY ScoreOfEvent DEF EventTypeOK, EverySignOnce
<1> QED
  BY <1>1, EventTypeCorrect, PTL

\* With the thresholds that the weights are made for, user space kills or
\* warns for what the probes of syscall_tracer.py kill for.
THEOREM KernelLinesKept ==
    ASSUME WarnThreshold <= 40, KillThreshold <= 100
    PROVE  Spec => []KernelLinesAgree
<1>1. EventTypeOK => KernelLinesAgree
  <2> SUFFICES ASSUME EventTypeOK PROVE KernelLinesAgree
    OBVIOUS
  <2> DEFINE score == ScoreEvent(filename, syscall)
             weight == SUSPICIOUS_SYSCALLS(syscall)
  <2>1. /\ score \in Int
        /\ weight \in Int
        /\ score >= weight
    BY ScoreOfEvent, PartsAreScores DEF EventTypeOK
  <2>2. /\ syscall \in RedLineCalls => weight >= 100
        /\ syscall \in ArmableCalls => weight >= 40
    BY DEF RedLineCalls, ArmableCalls, SUSPICIOUS_SYSCALLS
  <2>3. Verdict = IF score >= KillThreshold THEN "KILL"
                  ELSE IF score >= WarnThreshold THEN "WARN" ELSE "ALLOW"
    BY DEF Verdict
  <2> HIDE DEF score, weight
  <2>4. syscall \in RedLineCalls => score >= KillThreshold
    BY <2>1, <2>2, ThresholdsAssumption
  <2>5. syscall \in ArmableCalls => score >= WarnThreshold
    BY <2>1, <2>2, ThresholdsAssumption
  <2> QED
    BY <2>3, <2>4, <2>5 DEF KernelLinesAgree
<1> QED
  BY <1>1, EventTypeCorrect, PTL

\* What weighs nothing, and what one sign weighs.
LEMMA WeighFew ==
    /\ Weigh(RuleBook, {}) = 0
    /\ \A n \in 1 .. 10 : Weigh(RuleBook, {n}) = RuleBook[n].weight
<1>1. \A w, n : Term(w, n, {}) = 0
  BY DEF Term
<1>2. Weigh(RuleBook, {}) = 0
  BY <1>1, WeighBook
<1>3. ASSUME NEW n \in 1 .. 10 PROVE Weigh(RuleBook, {n}) = RuleBook[n].weight
  <2> DEFINE If(w, k) == IF n = k THEN w ELSE 0
  <2>1. \A w, k : Term(w, k, {n}) = If(w, k)
    BY DEF Term
  <2>2. Weigh(RuleBook, {n}) =
           If(60, 1) + If(40, 2) + If(50, 3) + If(100, 4) + If(100, 5) + If(30, 6)
             + If(100, 7) + If(100, 8) + If(60, 9) + If(60, 10)
    <3> HIDE DEF If
    <3> QED
      BY <2>1, WeighBook
  <2>3. RuleBook[n].weight =
           IF n = 2 THEN 40 ELSE IF n = 3 THEN 50 ELSE IF n = 6 THEN 30
           ELSE IF n \in {4, 5, 7, 8} THEN 100 ELSE 60
    BY BookWeights
  <2> QED
    BY <2>2, <2>3
<1> QED
  BY <1>2, <1>3

\* A sign weighs what it weighs, with others or without.
LEMMA WeighAtLeast ==
    ASSUME NEW signs, NEW n \in 1 .. 10, n \in signs
    PROVE  Weigh(RuleBook, signs) >= RuleBook[n].weight
<1> DEFINE Least(w, k) == IF k = n THEN w ELSE 0
<1>1. \A k : /\ Term(60, k, signs) \in Nat /\ Term(60, k, signs) >= Least(60, k)
             /\ Term(40, k, signs) \in Nat /\ Term(40, k, signs) >= Least(40, k)
             /\ Term(50, k, signs) \in Nat /\ Term(50, k, signs) >= Least(50, k)
             /\ Term(100, k, signs) \in Nat /\ Term(100, k, signs) >= Least(100, k)
             /\ Term(30, k, signs) \in Nat /\ Term(30, k, signs) >= Least(30, k)
  BY DEF Term
<1>2. \A k : /\ Least(60, k) \in Nat /\ Least(40, k) \in Nat
             /\ Least(50, k) \in Nat /\ Least(100, k) \in Nat
             /\ Least(30, k) \in Nat
  OBVIOUS
<1>3. Weigh(RuleBook, signs) >=
         Least(60, 1) + Least(40, 2) + Least(50, 3) + Least(100, 4)
           + Least(100, 5) + Least(30, 6) + Least(100, 7) + Least(100, 8)
           + Least(60, 9) + Least(60, 10)
  <2> HIDE DEF Least
  <2> QED
    BY <1>1, <1>2, WeighBook
<1>4. RuleBook[n].weight =
         IF n = 2 THEN 40 ELSE IF n = 3 THEN 50 ELSE IF n = 6 THEN 30
         ELSE IF n \in {4, 5, 7, 8} THEN 100 ELSE 60
  BY BookWeights
<1> QED
  BY <1>3, <1>4

\* A set of signs is empty, or has one member, or more.
LEMMA CountSigns ==
    ASSUME NEW signs, signs \subseteq 1 .. 10
    PROVE  /\ Cardinality(signs) \in Nat
           /\ \/ signs = {}
              \/ \E n \in 1 .. 10 : signs = {n} /\ Cardinality(signs) = 1
              \/ Cardinality(signs) >= 2
<1>1. signs \in SUBSET Nat /\ \A n \in signs : n <= 10
  OBVIOUS
<1>2. IsFiniteSet(signs) /\ Cardinality(signs) \in Nat
  BY <1>1, FS_BoundedSetOfNaturals, FS_CardinalityType
<1>3. ASSUME NEW n \in signs, signs = {n}
      PROVE  n \in 1 .. 10 /\ Cardinality(signs) = 1
  BY <1>3, FS_Singleton
<1>4. ASSUME NEW n \in signs, NEW k \in signs, n # k
      PROVE  Cardinality(signs) >= 2
  <2>1. IsFiniteSet(signs \ {n}) /\ Cardinality(signs \ {n}) = Cardinality(signs) - 1
    BY <1>2, FS_RemoveElement
  <2>2. Cardinality(signs \ {n}) # 0 /\ Cardinality(signs \ {n}) \in Nat
    BY <1>4, <2>1, FS_EmptySet, FS_CardinalityType
  <2> QED
    BY <1>2, <2>1, <2>2
<1> QED
  BY <1>2, <1>3, <1>4

\* The policy kills for a single event of one sign only if that sign is
\* conclusive (correlator.py:62-65, policy_engine.py:41-46), whatever the
\* thresholds.
THEOREM SuspicionIsNoVerdict == Spec => []NoVerdictOnOneSuspicion
<1>1. EventTypeOK => NoVerdictOnOneSuspicion
  <2> SUFFICES ASSUME EventTypeOK, Verdict = "KILL"
               PROVE  NoVerdictOnOneSuspicion
    BY DEF NoVerdictOnOneSuspicion
  <2> DEFINE signs == Signs(filename)
             weight == Weigh(RuleBook, signs)
             socket == SUSPICIOUS_FILENAMES(Last(filename))
             call == SUSPICIOUS_SYSCALLS(syscall)
             more == (IF socket > 0 THEN 1 ELSE 0)
  <2>1. ScoreEvent(filename, syscall) = weight + socket + call
    BY ScoreOfEvent DEF EventTypeOK
  <2>2. weight + socket + call >= KillThreshold
    BY <2>1 DEF Verdict
  <2>3. weight \in Nat /\ socket \in Nat /\ call \in Nat
    BY PartsAreScores
  <2>4. signs \subseteq 1 .. 10
    BY HitsMeaning DEF EventTypeOK
  <2>5. SUFFICES \/ \E n \in signs : RuleBook[n].weight >= KillThreshold
                 \/ socket >= KillThreshold
                 \/ call >= KillThreshold
                 \/ Cardinality(signs) + more + (IF call > 0 THEN 1 ELSE 0) >= 2
    BY DEF NoVerdictOnOneSuspicion
  <2>6. signs = {} => weight = 0 /\ Cardinality(signs) = 0
    BY WeighFew, FS_EmptySet
  <2>7. ASSUME NEW n \in 1 .. 10, signs = {n}
        PROVE  weight = RuleBook[n].weight /\ n \in signs
    BY <2>7, WeighFew
  <2> HIDE DEF signs, weight, socket, call
  <2>8. CASE signs = {}
    BY <2>2, <2>3, <2>6, <2>8, ThresholdsAssumption
  <2>9. ASSUME NEW n \in 1 .. 10, signs = {n}, Cardinality(signs) = 1
        PROVE  \/ \E k \in signs : RuleBook[k].weight >= KillThreshold
               \/ Cardinality(signs) + more + (IF call > 0 THEN 1 ELSE 0) >= 2
    <3>1. CASE socket = 0 /\ call = 0
      BY <2>2, <2>3, <2>7, <2>9, <3>1
    <3>2. CASE ~(socket = 0 /\ call = 0)
      BY <2>3, <2>9, <3>2
    <3> QED
      BY <3>1, <3>2
  <2>10. CASE Cardinality(signs) >= 2
    <3>1. /\ Cardinality(signs) \in Nat
          /\ more \in Nat
          /\ (IF call > 0 THEN 1 ELSE 0) \in Nat
      BY <2>4, CountSigns
    <3> HIDE DEF more
    <3> QED
      BY <2>10, <3>1
  <2> QED
    BY <2>4, <2>8, <2>9, <2>10, CountSigns
<1> QED
  BY <1>1, EventTypeCorrect, PTL

\* A name none of whose components is the last of a rule has no sign: look-
\* alikes such as /etc/hosts score nothing (correlator.py:25-32).
THEOREM LookAlikesAreHarmless == Spec => []HarmlessNames
<1> DEFINE lasts == {Last(rule.path) : rule \in Range(RuleBook)}
           sockets == {"docker.sock", "containerd.sock", "crio.sock"}
<1>1. ASSUME NEW name \in Name, Range(name) \cap (lasts \cup sockets) = {}
      PROVE  Signs(name) = {} /\ SUSPICIOUS_FILENAMES(Last(name)) = 0
  <2>1. /\ Len(name) \in Nat \ {0}
        /\ \A i \in 1 .. Len(name) : name[i] \in Range(name)
    <3>1. name \in Seq(Components) /\ name # <<>>
      BY DEF Name
    <3> QED
      BY <3>1, EmptySeq, LenProperties DEF Range
  <2>2. SUSPICIOUS_FILENAMES(Last(name)) = 0
    <3>1. name[Len(name)] \notin sockets
      BY <1>1, <2>1
    <3> QED
      BY <3>1 DEF SUSPICIOUS_FILENAMES, Last
  <2>3. ASSUME NEW path, IsPath(path), Last(path) \in lasts
        PROVE  ~PathMatches(name, path) /\ ~EndsWith(name, path)
    <3>1. Len(path) \in Nat /\ Len(path) >= 2
      BY <2>3 DEF IsPath
    <3>2. path[Len(path)] \notin Range(name)
      BY <1>1, <2>3 DEF Last
    <3>3. PathMatches(name, path) =>
             Len(path) \in 1 .. Len(name) /\ name[Len(path)] = path[Len(path)]
      BY <2>1, <2>3, <3>1, MatchMeaning
    <3>4. EndsWith(name, path) =>
             name[Len(name) - Len(path) + Len(path)] = path[Len(path)]
      BY <2>3, <3>1, EndMeaning
    <3>5. /\ Len(name) - Len(path) + Len(path) = Len(name)
          /\ Len(name) \in 1 .. Len(name)
      BY <2>1, <3>1
    <3> QED
      BY <2>1, <3>2, <3>3, <3>4, <3>5
  <2>4. \A n \in 1 .. 10 : Last(RuleBook[n].path) \in lasts
    BY BookRules DEF Range
  <2> HIDE DEF lasts, sockets
  <2>5. ASSUME NEW n \in 1 .. 6 PROVE ~PathMatches(name, PREFIXES[n].path)
    <3>1. Last(PREFIXES[n].path) \in lasts
      BY <2>4, BookRules
    <3>2. IsPath(PREFIXES[n].path)
      BY RulePaths
    <3> QED
      BY <2>3, <3>1, <3>2
  <2>6. ASSUME NEW n \in 2 .. 5 PROVE ~EndsWith(name, SUFFIXES[n].path)
    <3>1. n + 5 \in 7 .. 10 /\ n + 5 - 5 = n
      OBVIOUS
    <3>2. RuleBook[n + 5] = SUFFIXES[n]
      BY <3>1, BookRules
    <3>3. Last(SUFFIXES[n].path) \in lasts
      BY <2>4, <3>1, <3>2
    <3>4. IsPath(SUFFIXES[n].path)
      BY RulePaths
    <3> QED
      BY <2>3, <3>3, <3>4
  <2>7. ~EndsWith(name, SUFFIXES[1].path)
    <3>1. RuleBook[1].path = SUFFIXES[1].path
      BY BookRules, ShadowTwice
    <3>2. Last(SUFFIXES[1].path) \in lasts
      BY <2>4, <3>1
    <3>3. IsPath(SUFFIXES[1].path)
      BY RulePaths
    <3> QED
      BY <2>3, <3>2, <3>3
  <2>8. ASSUME NEW n \in 1 .. 10 PROVE n \notin Signs(name)
    BY <2>5, <2>6, <2>7, HitsMeaning
  <2> QED
    BY <2>2, <2>8, HitsMeaning
<1>2. EventTypeOK => HarmlessNames
  <2> SUFFICES ASSUME EventTypeOK,
                      Range(filename) \cap (lasts \cup sockets) = {}
               PROVE  ScoreEvent(filename, syscall) = SUSPICIOUS_SYSCALLS(syscall)
    BY DEF HarmlessNames
  <2>1. Signs(filename) = {} /\ SUSPICIOUS_FILENAMES(Last(filename)) = 0
    BY <1>1 DEF EventTypeOK
  <2>2. SUSPICIOUS_SYSCALLS(syscall) \in Nat
    BY PartsAreScores
  <2>3. ScoreEvent(filename, syscall) = 0 + 0 + SUSPICIOUS_SYSCALLS(syscall)
    BY <2>1, ScoreOfEvent, WeighFew DEF EventTypeOK
  <2> QED
    BY <2>2, <2>3
<1> QED
  BY <1>2, EventTypeCorrect, PTL

\* The end of a sequence, and of one that was put together.
LEMMA EndOfSeq ==
    ASSUME NEW S, NEW name \in Seq(S), NEW rest \in Seq(S), NEW k \in Nat,
           Len(name) = k + Len(rest),
           \A i \in 1 .. Len(rest) : name[k + i] = rest[i]
    PROVE  SubSeq(name, k + 1, Len(name)) = rest
<1> DEFINE end == SubSeq(name, k + 1, Len(name))
<1>1. Len(rest) \in Nat
  BY LenProperties
<1>2. \A i \in k + 1 .. Len(name) : name[i] \in S
  <2>1. \A i \in k + 1 .. Len(name) : i \in 1 .. Len(name)
    BY <1>1
  <2> QED
    BY <2>1, ElementOfSeq
<1>3. k + 1 \in Int /\ Len(name) \in Int
  BY <1>1
<1>4. /\ end \in Seq(S)
      /\ Len(end) = IF k + 1 <= Len(name) THEN Len(name) - (k + 1) + 1 ELSE 0
      /\ \A i \in 1 .. Len(name) - (k + 1) + 1 : end[i] = name[k + 1 + i - 1]
  BY <1>2, <1>3, SubSeqProperties
<1> HIDE DEF end
<1>5. Len(end) = Len(rest) /\ Len(name) - (k + 1) + 1 = Len(rest)
  BY <1>1, <1>4
<1>6. ASSUME NEW i \in 1 .. Len(rest) PROVE end[i] = rest[i]
  <2>1. k + 1 + i - 1 = k + i
    BY <1>1
  <2> QED
    BY <1>4, <1>5, <2>1
<1>7. end = rest
  BY <1>4, <1>5, <1>6, SeqEqual
<1> QED
  BY <1>7 DEF end

LEMMA EndOfConcat ==
    ASSUME NEW S, NEW front \in Seq(S), NEW rest \in Seq(S), front # <<>>,
           NEW name, name = front \o rest
    PROVE  /\ Len(front) \in DOMAIN name
           /\ SubSeq(name, Len(front) + 1, Len(name)) = rest
<1>1. /\ name \in Seq(S)
      /\ Len(name) = Len(front) + Len(rest)
      /\ \A i \in 1 .. Len(front) + Len(rest) :
            name[i] = IF i <= Len(front) THEN front[i] ELSE rest[i - Len(front)]
  BY ConcatProperties
<1>2. Len(front) \in Nat /\ Len(front) >= 1 /\ Len(rest) \in Nat
  BY EmptySeq, LenProperties
<1>3. DOMAIN name = 1 .. Len(name)
  BY <1>1, LenProperties
<1>4. ASSUME NEW i \in 1 .. Len(rest) PROVE name[Len(front) + i] = rest[i]
  <2>1. /\ Len(front) + i \in 1 .. Len(front) + Len(rest)
        /\ ~(Len(front) + i <= Len(front))
        /\ Len(front) + i - Len(front) = i
    BY <1>2
  <2> QED
    BY <1>1, <2>1
<1>5. SubSeq(name, Len(front) + 1, Len(name)) = rest
  BY <1>1, <1>2, <1>4, EndOfSeq
<1> QED
  BY <1>1, <1>2, <1>3, <1>5

\* A sensitive file scores its weight through any mount (correlator.py:57):
\* the name that ends with it has its sign, whatever it begins with.
THEOREM SensitiveThroughMounts == Spec => SensitiveAnywhere
<1> DEFINE Rises == \A n \in DOMAIN SUSPICIOUS_PATH_SUFFIXES :
                LET rule == SUSPICIOUS_PATH_SUFFIXES[n]
                IN  filename = rule.path /\ (\E step \in Steps : SeeThrough(step))
                      => ScoreEvent(filename', syscall') >= rule.weight
<1>1. EventTypeOK /\ EventTypeOK' /\ [Next]_eventVars => [Rises]_eventVars
  <2> SUFFICES ASSUME EventTypeOK, EventTypeOK',
                      NEW n \in 1 .. 5, NEW step \in Steps,
                      filename = SUFFIXES[n].path, SeeThrough(step)
               PROVE  ScoreEvent(filename', syscall') >= SUFFIXES[n].weight
    BY SuffixTable DEF SUFFIXES
  <2> DEFINE path == SUFFIXES[n].path
             front == <<"">> \o step
             rest == Tail(path)
             name == filename'
  <2>1. IsPath(path)
    BY RulePaths
  <2>2. IsCopyOf(name, path)
    <3>1. /\ path \in Seq(Components)
          /\ path # <<>>
          /\ step \in Seq(Components)
          /\ <<"">> \in Seq(Components)
          /\ Len(<<"">>) = 1
      <4>1. path \in Name
        BY DEF EventTypeOK
      <4>2. step \in Name
        BY StepsAssumption
      <4>3. <<"">> \in Seq(Components) /\ Len(<<"">>) = 1
        BY DEF Components
      <4> HIDE DEF path
      <4> QED
        BY <4>1, <4>2, <4>3 DEF Name
    <3>2. front \in Seq(Components) /\ Len(front) = 1 + Len(step)
      BY <3>1, ConcatProperties
    <3>3. rest \in Seq(Components)
      BY <3>1, HeadTailProperties
    <3>4. Len(step) \in Nat
      BY <3>1, LenProperties
    <3>5. name = front \o rest
      BY DEF SeeThrough
    <3> HIDE DEF front, rest, name
    <3>6. front # <<>>
      BY <3>2, <3>4
    <3>7. /\ Len(front) \in DOMAIN name
          /\ SubSeq(name, Len(front) + 1, Len(name)) = rest
      BY <3>2, <3>3, <3>5, <3>6, EndOfConcat
    <3> QED
      BY <3>7 DEF IsCopyOf, rest
  <2>3. name \in Name
    BY DEF EventTypeOK
  <2>4. EndsWith(name, path)
    BY <2>1, <2>2, <2>3, EndMeaning
  <2>5. PICK k \in 1 .. 10 : /\ k \in Signs(name)
                             /\ RuleBook[k].weight = SUFFIXES[n].weight
    <3>1. CASE n = 1
      BY <2>3, <2>4, <3>1, HitsMeaning, BookWeights, SuffixWeights
    <3>2. CASE n # 1
      <4>1. n + 5 \in 7 .. 10 /\ n + 5 - 5 = n
        BY <3>2
      <4> QED
        BY <2>3, <2>4, <4>1, HitsMeaning, BookRules
    <3> QED
      BY <3>1, <3>2
  <2>6. Weigh(RuleBook, Signs(name)) >= RuleBook[k].weight
    BY <2>5, WeighAtLeast
  <2> QED
    BY <2>3, <2>5, <2>6, ScoreOfEvent, PartsAreScores, BookWeights
<1> QED
  BY <1>1, EventTypeCorrect, PTL DEF Spec, SensitiveAnywhere

=============================================================================
