---------------------------- MODULE DevProxy_proofs ----------------------------
(***************************************************************************)
(* For every application, request and length of the body: the operators of *)
(* routing promise what they should, a request is replayed whole or not at *)
(* all, and a client hears one answer.                                     *)
(***************************************************************************)
EXTENDS DevProxy, SequenceTheorems, WellFoundedInduction, TLAPS

(* Routing.                                                                *)

\* Segments are strings; that the literal StrParam is one has to be said.
Text   == STRING \cup {StrParam}
Words  == Seq(Text)

LEMMA LeastIsFound ==
    ASSUME NEW S \in SUBSET Nat, S # {}
    PROVE  Min(S) \in S /\ \A y \in S : Min(S) <= y
<1>1. \E x \in S : \A y \in S : ~(<<y, x>> \in OpToRel(<, Nat))
    BY NatLessThanWellFounded, WFMin
<1>2. PICK x \in S : \A y \in S : ~(<<y, x>> \in OpToRel(<, Nat))
    BY <1>1
<1>3. \A y \in S : x <= y
    <2> TAKE y \in S
    <2>1. ~(y < x)
        BY <1>2 DEF OpToRel
    <2>2. QED BY <2>1
<1>4. QED BY <1>2, <1>3 DEF Min

\* The position of the first :path parameter of a pattern.
Greedy(pattern) == {i \in DOMAIN pattern : pattern[i] = PathParam}

LEMMA GreedyFirst ==
    ASSUME NEW pattern \in Words, Greedy(pattern) # {}
    PROVE  /\ Min(Greedy(pattern)) \in 1 .. Len(pattern)
           /\ pattern[Min(Greedy(pattern))] = PathParam
           /\ \A i \in 1 .. Min(Greedy(pattern)) - 1 : pattern[i] # PathParam
<1>1. DOMAIN pattern = 1 .. Len(pattern) /\ Len(pattern) \in Nat
    BY DEF Words
<1>2. Greedy(pattern) \in SUBSET Nat
    BY <1>1 DEF Greedy
<1>3. Min(Greedy(pattern)) \in Greedy(pattern)
      /\ \A y \in Greedy(pattern) : Min(Greedy(pattern)) <= y
    BY <1>2, LeastIsFound
<1> DEFINE at == Min(Greedy(pattern))
<1> HIDE DEF at
<1>4. at \in Greedy(pattern) /\ \A y \in Greedy(pattern) : at <= y
    BY <1>3 DEF at
<1>5. \A i \in 1 .. at - 1 : pattern[i] # PathParam
    BY <1>1, <1>4 DEF Greedy
<1>6. at \in 1 .. Len(pattern) /\ pattern[at] = PathParam
    BY <1>1, <1>4 DEF Greedy
<1>7. QED BY <1>5, <1>6 DEF at

\* A path of k segments in the place of the parameter at position at, segment by
\* segment.
Stretched(pattern, path, at, k) ==
    /\ Len(path) = Len(pattern) - 1 + k
    /\ \A i \in 1 .. at - 1 : Fits(pattern[i], path[i])
    /\ \A j \in at + 1 .. Len(pattern) : Fits(pattern[j], path[j + k - 1])

LEMMA Segments ==
    ASSUME NEW s \in Words, NEW m \in Nat, NEW n \in Nat, m >= 1, n <= Len(s), m <= n + 1
    PROVE  /\ SubSeq(s, m, n) \in Words /\ Len(SubSeq(s, m, n)) = n - m + 1
           /\ DOMAIN SubSeq(s, m, n) = 1 .. n - m + 1
           /\ \A i \in 1 .. n - m + 1 : SubSeq(s, m, n)[i] = s[m + i - 1]
<1>1. \A i \in m .. n : s[i] \in Text
    BY ElementOfSeq DEF Words
<1>2. /\ SubSeq(s, m, n) \in Seq(Text)
      /\ Len(SubSeq(s, m, n)) = IF m <= n THEN n - m + 1 ELSE 0
      /\ \A i \in 1 .. n - m + 1 : SubSeq(s, m, n)[i] = s[m + i - 1]
    BY <1>1, SubSeqProperties
<1>3. Len(SubSeq(s, m, n)) = n - m + 1
    BY <1>2
<1>4. DOMAIN SubSeq(s, m, n) = 1 .. Len(SubSeq(s, m, n))
    BY <1>2, LenProperties
<1>5. QED BY <1>2, <1>3, <1>4 DEF Words

LEMMA MatchIsStretch ==
    ASSUME NEW pattern \in Words, NEW path \in Words, NEW at \in 1 .. Len(pattern)
    PROVE  MatchWithPathParam(pattern, path, at)
              <=> \E k \in 1 .. Len(path) : Stretched(pattern, path, at, k)
<1> DEFINE L == Len(pattern)
           N == Len(path)
           start == N - (L - at)
           before == SubSeq(pattern, 1, at - 1)
           after  == SubSeq(pattern, at + 1, L)
           left   == SubSeq(path, 1, at - 1)
           right  == SubSeq(path, start + 1, N)
<1>1. L \in Nat /\ N \in Nat
    BY LenProperties DEF Words
<1>2. /\ Len(before) = at - 1
      /\ \A i \in 1 .. at - 1 : before[i] = pattern[i]
    BY <1>1, Segments
<1>3. /\ Len(after) = L - at
      /\ \A i \in 1 .. L - at : after[i] = pattern[at + i]
    <2>1. /\ Len(after) = L - (at + 1) + 1
          /\ \A i \in 1 .. L - (at + 1) + 1 : after[i] = pattern[at + 1 + i - 1]
        BY <1>1, Segments
    <2> HIDE DEF after
    <2>2. QED BY <1>1, <2>1
<1>4. MatchWithPathParam(pattern, path, at)
         <=> N > L - 1 /\ AllFit(before, left) /\ AllFit(after, right)
    <2>1. MatchWithPathParam(pattern, path, at)
             <=> /\ N > Len(before) + Len(after)
                 /\ AllFit(before, SubSeq(path, 1, Len(before)))
                 /\ AllFit(after, SubSeq(path, N - Len(after) + 1, N))
        BY DEF MatchWithPathParam
    <2> HIDE DEF before, after
    <2>2. N > Len(before) + Len(after) <=> N > L - 1
        BY <1>1, <1>2, <1>3
    <2>3. SubSeq(path, 1, Len(before)) = left /\ SubSeq(path, N - Len(after) + 1, N) = right
        BY <1>2, <1>3
    <2>4. QED BY <2>1, <2>2, <2>3
<1>5. ASSUME N > L - 1
      PROVE  /\ AllFit(before, left) <=> \A i \in 1 .. at - 1 : Fits(pattern[i], path[i])
             /\ AllFit(after, right)
                   <=> \A i \in 1 .. L - at : Fits(pattern[at + i], path[start + i])
    <2>1. /\ Len(left) = at - 1 /\ DOMAIN left = 1 .. at - 1
          /\ \A i \in 1 .. at - 1 : left[i] = path[i]
        <3>1. /\ Len(left) = at - 1 - 1 + 1 /\ DOMAIN left = 1 .. at - 1 - 1 + 1
              /\ \A i \in 1 .. at - 1 - 1 + 1 : left[i] = path[1 + i - 1]
            BY <1>1, <1>5, Segments
        <3> HIDE DEF left
        <3>2. QED BY <1>1, <3>1
    <2>2. /\ Len(right) = L - at /\ DOMAIN right = 1 .. L - at
          /\ \A i \in 1 .. L - at : right[i] = path[start + i]
        <3>a. start + 1 \in Nat
            BY <1>1, <1>5
        <3>0. PICK m \in Nat : m = start + 1
            BY <3>a
        <3>1. m >= 1 /\ m <= N + 1 /\ N - m + 1 = L - at /\ N \in Nat
            BY <1>1, <1>5, <3>0
        <3>2. right = SubSeq(path, m, N)
            BY <3>0
        <3> HIDE DEF right
        <3>3. /\ Len(right) = N - m + 1 /\ DOMAIN right = 1 .. N - m + 1
              /\ \A i \in 1 .. N - m + 1 : right[i] = path[m + i - 1]
            <4>1. N <= Len(path)
                BY <3>1
            <4>2. /\ Len(SubSeq(path, m, N)) = N - m + 1
                  /\ DOMAIN SubSeq(path, m, N) = 1 .. N - m + 1
                  /\ \A i \in 1 .. N - m + 1 : SubSeq(path, m, N)[i] = path[m + i - 1]
                <5> HIDE DEF N
                <5>1. QED BY <3>1, <4>1, Segments
            <4> HIDE DEF N
            <4>3. QED BY <3>2, <4>2
        <3>4. \A i \in 1 .. L - at : m + i - 1 = start + i
            BY <1>1, <3>0
        <3> HIDE DEF start
        <3>5. QED BY <3>1, <3>3, <3>4
    <2> HIDE DEF left, right, before, after, start
    <2>3. AllFit(before, left) <=> \A i \in 1 .. at - 1 : Fits(pattern[i], path[i])
        BY <1>2, <2>1 DEF AllFit
    <2>4. AllFit(after, right)
             <=> \A i \in 1 .. L - at : Fits(pattern[at + i], path[start + i])
        BY <1>3, <2>2 DEF AllFit
    <2>5. QED BY <2>3, <2>4
<1> HIDE DEF before, after, left, right
<1>6. ASSUME MatchWithPathParam(pattern, path, at)
      PROVE  \E k \in 1 .. Len(path) : Stretched(pattern, path, at, k)
    <2> DEFINE k == N - L + 1
    <2>1. N > L - 1 /\ k \in 1 .. N /\ N = L - 1 + k
        BY <1>1, <1>4, <1>6
    <2>2. \A i \in 1 .. at - 1 : Fits(pattern[i], path[i])
        BY <1>4, <1>5, <1>6
    <2>3. \A i \in 1 .. L - at : Fits(pattern[at + i], path[start + i])
        BY <1>4, <1>5, <1>6
    <2>4. ASSUME NEW j \in at + 1 .. L PROVE Fits(pattern[j], path[j + k - 1])
        <3>1. j - at \in 1 .. L - at /\ at + (j - at) = j /\ start + (j - at) = j + k - 1
            BY <1>1
        <3> HIDE DEF start, k
        <3>2. Fits(pattern[at + (j - at)], path[start + (j - at)])
            BY <2>3, <3>1
        <3>3. QED BY <3>1, <3>2
    <2> HIDE DEF k
    <2>5. Stretched(pattern, path, at, k)
        BY <2>1, <2>2, <2>4 DEF Stretched
    <2>6. QED BY <2>1, <2>5
<1>7. ASSUME NEW k \in 1 .. Len(path), Stretched(pattern, path, at, k)
      PROVE  MatchWithPathParam(pattern, path, at)
    <2>1. N > L - 1 /\ N = L - 1 + k
        BY <1>1, <1>7 DEF Stretched
    <2>2. \A i \in 1 .. at - 1 : Fits(pattern[i], path[i])
        BY <1>7 DEF Stretched
    <2>3. ASSUME NEW i \in 1 .. L - at PROVE Fits(pattern[at + i], path[start + i])
        <3>1. at + i \in at + 1 .. L /\ (at + i) + k - 1 = start + i
            BY <1>1, <2>1
        <3> HIDE DEF start
        <3>2. Fits(pattern[at + i], path[(at + i) + k - 1])
            BY <1>7, <3>1 DEF Stretched
        <3>3. QED BY <3>1, <3>2
    <2>4. QED BY <1>4, <1>5, <2>1, <2>2, <2>3
<1>8. QED BY <1>6, <1>7

LEMMA ConcatOf ==
    ASSUME NEW s \in Words, NEW t \in Words
    PROVE  /\ s \o t \in Words /\ Len(s \o t) = Len(s) + Len(t)
           /\ DOMAIN (s \o t) = 1 .. Len(s) + Len(t)
           /\ \A i \in 1 .. Len(s) : (s \o t)[i] = s[i]
           /\ \A i \in 1 .. Len(t) : (s \o t)[Len(s) + i] = t[i]
<1>1. /\ s \o t \in Seq(Text) /\ Len(s \o t) = Len(s) + Len(t)
      /\ \A i \in 1 .. Len(s) + Len(t) :
            (s \o t)[i] = IF i <= Len(s) THEN s[i] ELSE t[i - Len(s)]
    BY ConcatProperties DEF Words
<1>2. Len(s) \in Nat /\ Len(t) \in Nat
    BY LenProperties DEF Words
<1>3. \A i \in 1 .. Len(s) : (s \o t)[i] = s[i]
    BY <1>1, <1>2
<1>4. ASSUME NEW i \in 1 .. Len(t) PROVE (s \o t)[Len(s) + i] = t[i]
    <2>1. Len(s) + i \in 1 .. Len(s) + Len(t) /\ ~(Len(s) + i <= Len(s)) /\ Len(s) + i - Len(s) = i
        BY <1>2
    <2>2. QED BY <1>1, <2>1
<1>5. DOMAIN (s \o t) = 1 .. Len(s) + Len(t)
    BY <1>1, LenProperties
<1>6. QED BY <1>1, <1>3, <1>4, <1>5 DEF Words

\* A segment that takes anything fits every word, and one that is no parameter
\* fits itself.
LEMMA ParameterFits == \A w : Fits(StrParam, w) /\ Fits(w, w)
BY DEF Fits

\* The pattern with k segments of any text in the place of its :path parameter.
Expansion(pattern, at, k) ==
    SubSeq(pattern, 1, at - 1) \o [i \in 1 .. k |-> StrParam]
        \o SubSeq(pattern, at + 1, Len(pattern))

LEMMA ExpansionOf ==
    ASSUME NEW pattern \in Words, NEW at \in 1 .. Len(pattern), NEW k \in Nat
    PROVE  /\ Len(Expansion(pattern, at, k)) = Len(pattern) - 1 + k
           /\ \A i \in 1 .. at - 1 : Expansion(pattern, at, k)[i] = pattern[i]
           /\ \A i \in 1 .. k : Expansion(pattern, at, k)[at - 1 + i] = StrParam
           /\ \A j \in at + 1 .. Len(pattern) :
                 Expansion(pattern, at, k)[j + k - 1] = pattern[j]
<1>0. Len(pattern) \in Nat
    BY LenProperties DEF Words
<1> DEFINE L == Len(pattern)
<1>1. PICK before \in Words : /\ before = SubSeq(pattern, 1, at - 1)
                              /\ Len(before) = at - 1
                              /\ \A i \in 1 .. at - 1 : before[i] = pattern[i]
    <2>1. /\ SubSeq(pattern, 1, at - 1) \in Words
          /\ Len(SubSeq(pattern, 1, at - 1)) = at - 1 - 1 + 1
          /\ \A i \in 1 .. at - 1 - 1 + 1 :
                SubSeq(pattern, 1, at - 1)[i] = pattern[1 + i - 1]
        BY <1>0, Segments
    <2>2. at - 1 - 1 + 1 = at - 1 /\ \A i \in 1 .. at - 1 : 1 + i - 1 = i
        BY <1>0
    <2>3. QED BY <2>1, <2>2
<1>2. PICK after \in Words : /\ after = SubSeq(pattern, at + 1, Len(pattern))
                             /\ Len(after) = Len(pattern) - at
                             /\ \A i \in 1 .. Len(pattern) - at : after[i] = pattern[at + i]
    <2>0. at + 1 \in Nat /\ at + 1 >= 1 /\ L \in Nat /\ at + 1 <= L + 1
        BY <1>0
    <2>1. /\ SubSeq(pattern, at + 1, L) \in Words
          /\ Len(SubSeq(pattern, at + 1, L)) = L - (at + 1) + 1
          /\ \A i \in 1 .. L - (at + 1) + 1 :
                SubSeq(pattern, at + 1, L)[i] = pattern[at + 1 + i - 1]
        BY <2>0, Segments
    <2>2. L - (at + 1) + 1 = L - at /\ \A i \in 1 .. L - at : at + 1 + i - 1 = at + i
        BY <1>0
    <2>3. PICK s \in Words : s = SubSeq(pattern, at + 1, L)
        BY <2>1
    <2>4. Len(s) = L - at /\ \A i \in 1 .. L - at : s[i] = pattern[at + i]
        BY <2>1, <2>2, <2>3
    <2>5. QED BY <2>3, <2>4
<1>3. PICK some \in Words : /\ some = [i \in 1 .. k |-> StrParam]
                            /\ Len(some) = k /\ \A i \in 1 .. k : some[i] = StrParam
    <2>1. PICK s : s = [i \in 1 .. k |-> StrParam]
        OBVIOUS
    <2>2. s \in Seq(Text) /\ Len(s) = k /\ \A i \in 1 .. k : s[i] = StrParam
        <3>1. StrParam \in Text
            BY DEF Text
        <3>2. QED BY <2>1, <3>1
    <2>3. QED BY <2>1, <2>2 DEF Words
<1>4. PICK start \in Words :
          /\ start = before \o some /\ Len(start) = at - 1 + k
          /\ \A i \in 1 .. at - 1 : start[i] = pattern[i]
          /\ \A i \in 1 .. k : start[at - 1 + i] = StrParam
    <2>1. PICK s \in Words :
              /\ s = before \o some /\ Len(s) = Len(before) + Len(some)
              /\ \A i \in 1 .. Len(before) : s[i] = before[i]
              /\ \A i \in 1 .. Len(some) : s[Len(before) + i] = some[i]
        <3>1. /\ before \o some \in Words /\ Len(before \o some) = Len(before) + Len(some)
              /\ \A i \in 1 .. Len(before) : (before \o some)[i] = before[i]
              /\ \A i \in 1 .. Len(some) : (before \o some)[Len(before) + i] = some[i]
            BY ConcatOf
        <3>2. QED BY <3>1
    <2>2. /\ Len(s) = at - 1 + k
          /\ \A i \in 1 .. at - 1 : s[i] = pattern[i]
          /\ \A i \in 1 .. k : s[at - 1 + i] = StrParam
        BY <1>1, <1>3, <2>1
    <2>3. QED BY <2>1, <2>2
<1>5. PICK e \in Words :
          /\ e = start \o after /\ Len(e) = Len(start) + Len(after)
          /\ \A i \in 1 .. Len(start) : e[i] = start[i]
          /\ \A i \in 1 .. Len(after) : e[Len(start) + i] = after[i]
    BY ConcatOf
<1>6. e = Expansion(pattern, at, k)
    BY <1>1, <1>2, <1>3, <1>4, <1>5 DEF Expansion
<1>7. Len(e) = Len(pattern) - 1 + k
    <2>1. Len(e) = (at - 1 + k) + (Len(pattern) - at)
        BY <1>2, <1>4, <1>5
    <2>2. QED BY <1>0, <2>1
<1>8. ASSUME NEW i \in 1 .. at - 1 PROVE e[i] = pattern[i]
    <2>1. i \in 1 .. Len(start)
        BY <1>4
    <2>2. QED BY <1>4, <1>5, <2>1
<1>9. ASSUME NEW i \in 1 .. k PROVE e[at - 1 + i] = StrParam
    <2>1. at - 1 + i \in 1 .. Len(start)
        BY <1>4
    <2>2. QED BY <1>4, <1>5, <2>1
<1>10. ASSUME NEW j \in at + 1 .. Len(pattern) PROVE e[j + k - 1] = pattern[j]
    <2>1. j - at \in 1 .. Len(pattern) - at /\ at - 1 + k + (j - at) = j + k - 1
          /\ at + (j - at) = j
        BY <1>0
    <2>2. e[at - 1 + k + (j - at)] = after[j - at]
        BY <1>2, <1>4, <1>5, <2>1
    <2>3. after[j - at] = pattern[at + (j - at)]
        BY <1>2, <2>1
    <2>4. QED BY <2>1, <2>2, <2>3
<1>11. QED BY <1>6, <1>7, <1>8, <1>9, <1>10

LEMMA ExpansionIsStretch ==
    ASSUME NEW pattern \in Words, NEW path \in Words, NEW at \in 1 .. Len(pattern),
           NEW k \in Nat
    PROVE  AllFit(Expansion(pattern, at, k), path) <=> Stretched(pattern, path, at, k)
<1>0. Len(pattern) \in Nat /\ Len(path) \in Nat /\ DOMAIN path = 1 .. Len(path)
    BY LenProperties DEF Words
<1>1. PICK e : e = Expansion(pattern, at, k)
    OBVIOUS
<1>2. /\ Len(e) = Len(pattern) - 1 + k
      /\ \A i \in 1 .. at - 1 : e[i] = pattern[i]
      /\ \A i \in 1 .. k : e[at - 1 + i] = StrParam
      /\ \A j \in at + 1 .. Len(pattern) : e[j + k - 1] = pattern[j]
    BY <1>1, ExpansionOf
<1>3. ASSUME AllFit(e, path) PROVE Stretched(pattern, path, at, k)
    <2>1. Len(path) = Len(pattern) - 1 + k /\ \A i \in 1 .. Len(path) : Fits(e[i], path[i])
        BY <1>0, <1>2, <1>3 DEF AllFit
    <2>2. ASSUME NEW i \in 1 .. at - 1 PROVE Fits(pattern[i], path[i])
        <3>1. i \in 1 .. Len(path)
            BY <1>0, <2>1
        <3>2. QED BY <1>2, <2>1, <3>1
    <2>3. ASSUME NEW j \in at + 1 .. Len(pattern) PROVE Fits(pattern[j], path[j + k - 1])
        <3>1. j + k - 1 \in 1 .. Len(path)
            BY <1>0, <2>1
        <3>2. Fits(e[j + k - 1], path[j + k - 1])
            BY <2>1, <3>1
        <3>3. QED BY <1>2, <3>2
    <2>4. QED BY <2>1, <2>2, <2>3 DEF Stretched
<1>4. ASSUME Stretched(pattern, path, at, k) PROVE AllFit(e, path)
    <2>1. Len(path) = Len(pattern) - 1 + k
        BY <1>4 DEF Stretched
    <2>2. ASSUME NEW i \in 1 .. Len(path) PROVE Fits(e[i], path[i])
        <3>1. CASE i \in 1 .. at - 1
            BY <1>2, <1>4, <3>1 DEF Stretched
        <3>2. CASE i \in at .. at - 1 + k
            <4>1. i - at + 1 \in 1 .. k /\ at - 1 + (i - at + 1) = i
                BY <3>2
            <4>2. e[at - 1 + (i - at + 1)] = StrParam
                BY <1>2, <4>1
            <4>3. QED BY <4>1, <4>2, ParameterFits
        <3>3. CASE i \in at + k .. Len(path)
            <4>1. i - k + 1 \in at + 1 .. Len(pattern) /\ (i - k + 1) + k - 1 = i
                BY <1>0, <2>1, <3>3
            <4>2. PICK j \in at + 1 .. Len(pattern) : j + k - 1 = i
                BY <4>1
            <4>3. e[i] = pattern[j] /\ Fits(pattern[j], path[i])
                BY <1>2, <1>4, <4>2 DEF Stretched
            <4>4. QED BY <4>3
        <3>4. QED BY <1>0, <3>1, <3>2, <3>3
    <2>3. QED BY <1>0, <1>2, <2>1, <2>2 DEF AllFit
<1>5. QED BY <1>1, <1>3, <1>4

\* The patterns: a :path parameter stands for one or more segments.
THEOREM PatternsMeanWhatTheySay ==
    ASSUME NEW pattern \in Words, NEW path \in Words
    PROVE  Matches(pattern, path) <=> MatchesAsSpecified(pattern, path)
<1>0. DOMAIN pattern = 1 .. Len(pattern) /\ Len(pattern) \in Nat /\ Len(path) \in Nat
    BY LenProperties DEF Words
<1>1. Greedy(pattern) = {} <=> PathParam \notin Range(pattern)
    BY DEF Greedy, Range
<1>2. CASE Greedy(pattern) = {}
    BY <1>1, <1>2 DEF Greedy, Matches, MatchesAsSpecified
<1>3. CASE Greedy(pattern) # {}
    <2>1. PICK at \in 1 .. Len(pattern) : at = Min(Greedy(pattern))
        BY <1>3, GreedyFirst
    <2>2. Matches(pattern, path) <=> MatchWithPathParam(pattern, path, at)
        BY <1>3, <2>1 DEF Matches, Greedy
    <2>3. Expansions(pattern, Len(path)) = {Expansion(pattern, at, k) : k \in 1 .. Len(path)}
        BY <2>1 DEF Expansions, Expansion, Greedy
    <2>4. MatchesAsSpecified(pattern, path)
             <=> \E k \in 1 .. Len(path) : AllFit(Expansion(pattern, at, k), path)
        BY <1>1, <1>3, <2>3 DEF MatchesAsSpecified
    <2>5. \A k \in 1 .. Len(path) :
             AllFit(Expansion(pattern, at, k), path) <=> Stretched(pattern, path, at, k)
        BY <1>0, ExpansionIsStretch
    <2>6. QED BY <2>2, <2>4, <2>5, MatchIsStretch
<1>4. QED BY <1>2, <1>3

-----------------------------------------------------------------------------
Tables == Seq([method : STRING, pattern : Words])

LEMMA FirstOf ==
    ASSUME NEW table \in Tables, NEW method, NEW path
    PROVE  First(table, method, path) # 0 <=> Candidates(table, method, path) # {}
<1> DEFINE ks == Candidates(table, method, path)
<1>1. DOMAIN table = 1 .. Len(table) /\ Len(table) \in Nat
    BY LenProperties DEF Tables
<1>2. ks \in SUBSET (1 .. Len(table)) /\ ks \in SUBSET Nat
    BY <1>1 DEF Candidates
<1>3. First(table, method, path) = IF ks = {} THEN 0 ELSE Min(ks)
    BY DEF First
<1> HIDE DEF ks
<1>4. CASE ks = {}
    BY <1>3, <1>4 DEF ks
<1>5. CASE ks # {}
    <2>1. Min(ks) \in ks
        BY <1>2, <1>5, LeastIsFound
    <2>2. Min(ks) # 0
        BY <1>2, <2>1
    <2>3. QED BY <1>3, <1>5, <2>2 DEF ks
<1>6. QED BY <1>4, <1>5

\* A route is found for the methods that allowed_methods() names and no other.
THEOREM FoundIffAllowed ==
    ASSUME NEW table \in Tables, NEW method, NEW path
    PROVE  MatchRoute(table, method, path) # 0 <=> method \in AllowedMethods(table, path)
<1> DEFINE own == {table[k].method : k \in {n \in DOMAIN table : Matches(table[n].pattern, path)}}
<1>1. \A m : m \in own <=> First(table, m, path) # 0
    <2> TAKE m
    <2>1. m \in own <=> Candidates(table, m, path) # {}
        BY DEF Candidates
    <2>2. QED BY <2>1, FirstOf
<1>2. MatchRoute(table, method, path) # 0
         <=> First(table, method, path) # 0
             \/ (method = "HEAD" /\ First(table, "GET", path) # 0)
    <2>1. MatchRoute(table, method, path)
             = IF First(table, method, path) = 0 /\ method = "HEAD"
               THEN First(table, "GET", path) ELSE First(table, method, path)
        BY DEF MatchRoute
    <2>2. CASE First(table, method, path) = 0 /\ method = "HEAD"
        BY <2>1, <2>2
    <2>3. CASE ~(First(table, method, path) = 0 /\ method = "HEAD")
        <3>1. MatchRoute(table, method, path) = First(table, method, path)
            BY <2>1, <2>3
        <3>2. method = "HEAD" => First(table, method, path) # 0
            BY <2>3
        <3>3. QED BY <3>1, <3>2
    <2>4. QED BY <2>2, <2>3
<1>3. method \in AllowedMethods(table, path)
         <=> method \in own \/ (method = "HEAD" /\ "GET" \in own)
    <2>1. AllowedMethods(table, path) = IF "GET" \in own THEN own \cup {"HEAD"} ELSE own
        BY DEF AllowedMethods
    <2> HIDE DEF own
    <2>2. CASE "GET" \in own
        <3>1. AllowedMethods(table, path) = own \cup {"HEAD"}
            BY <2>1, <2>2
        <3>2. QED BY <2>2, <3>1
    <2>3. CASE "GET" \notin own
        <3>1. AllowedMethods(table, path) = own
            BY <2>1, <2>3
        <3>2. QED BY <2>3, <3>1
    <2>4. QED BY <2>2, <2>3
<1> HIDE DEF own
<1>4. QED BY <1>1, <1>2, <1>3

\* A path behind a prefix matches a pattern behind the same prefix.
LEMMA BehindPrefix ==
    ASSUME NEW pattern \in Words, NEW path \in Words, NEW prefix \in Words,
           PathParam \notin Range(prefix), Matches(pattern, path)
    PROVE  Matches(prefix \o pattern, prefix \o path)
<1> DEFINE P == Len(prefix)
           full == prefix \o pattern
           whole == prefix \o path
<1>0. /\ P \in Nat /\ Len(pattern) \in Nat /\ Len(path) \in Nat
      /\ DOMAIN pattern = 1 .. Len(pattern) /\ DOMAIN path = 1 .. Len(path)
      /\ DOMAIN prefix = 1 .. P
    BY LenProperties DEF Words
<1>1. /\ full \in Words /\ Len(full) = P + Len(pattern)
      /\ DOMAIN full = 1 .. P + Len(pattern)
      /\ \A i \in 1 .. P : full[i] = prefix[i]
      /\ \A i \in 1 .. Len(pattern) : full[P + i] = pattern[i]
    BY ConcatOf
<1>2. /\ whole \in Words /\ Len(whole) = P + Len(path)
      /\ DOMAIN whole = 1 .. P + Len(path)
      /\ \A i \in 1 .. P : whole[i] = prefix[i]
      /\ \A i \in 1 .. Len(path) : whole[P + i] = path[i]
    BY ConcatOf
<1>3. \A i \in 1 .. P : prefix[i] # PathParam
    BY <1>0 DEF Range
<1> HIDE DEF full, whole, P
<1>4. \A i \in 1 .. P : Fits(full[i], whole[i])
    BY <1>1, <1>2, ParameterFits
<1>5. CASE Greedy(pattern) = {}
    <2>1. AllFit(pattern, path)
        BY <1>5 DEF Matches, Greedy
    <2>2. Len(pattern) = Len(path) /\ \A i \in 1 .. Len(path) : Fits(pattern[i], path[i])
        BY <1>0, <2>1 DEF AllFit
    <2>3. ASSUME NEW i \in 1 .. P + Len(path) PROVE Fits(full[i], whole[i]) /\ full[i] # PathParam
        <3>1. CASE i \in 1 .. P
            BY <1>1, <1>3, <1>4, <3>1
        <3>2. CASE i \notin 1 .. P
            <4>1. PICK j \in 1 .. Len(path) : i = P + j
                <5>1. i - P \in 1 .. Len(path) /\ i = P + (i - P)
                    BY <1>0, <3>2
                <5>2. QED BY <5>1
            <4>2. full[i] = pattern[j] /\ whole[i] = path[j]
                BY <1>1, <1>2, <2>2, <4>1
            <4>3. pattern[j] # PathParam
                BY <1>0, <1>5, <2>2 DEF Greedy
            <4>4. QED BY <2>2, <4>2, <4>3
        <3>3. QED BY <3>1, <3>2
    <2>4. AllFit(full, whole)
        BY <1>1, <1>2, <2>2, <2>3 DEF AllFit
    <2>5. {i \in DOMAIN full : full[i] = PathParam} = {}
        BY <1>1, <2>2, <2>3
    <2>6. Matches(full, whole)
        BY <2>4, <2>5 DEF Matches
    <2>7. QED BY <2>6 DEF full, whole
<1>6. CASE Greedy(pattern) # {}
    <2>1. PICK at \in 1 .. Len(pattern) :
              /\ at = Min(Greedy(pattern)) /\ pattern[at] = PathParam
              /\ \A i \in 1 .. at - 1 : pattern[i] # PathParam
        BY <1>6, GreedyFirst
    <2>2. MatchWithPathParam(pattern, path, at)
        BY <1>6, <2>1 DEF Matches, Greedy
    <2>3. PICK k \in 1 .. Len(path) : Stretched(pattern, path, at, k)
        BY <2>2, MatchIsStretch
    <2>4. P + at \in 1 .. Len(full) /\ full[P + at] = PathParam
        BY <1>0, <1>1, <2>1
    <2>5. Greedy(full) # {}
        BY <1>1, <2>4 DEF Greedy
    <2>6. PICK first \in 1 .. Len(full) :
              /\ first = Min(Greedy(full)) /\ full[first] = PathParam
              /\ \A i \in 1 .. first - 1 : full[i] # PathParam
        BY <1>1, <2>5, GreedyFirst
    <2>7. first = P + at
        <3>1. ~(P + at < first)
            BY <1>0, <2>4, <2>6
        <3>2. ~(first < P + at)
            <4> SUFFICES ASSUME first < P + at PROVE FALSE
                OBVIOUS
            <4>1. CASE first \in 1 .. P
                BY <1>1, <1>3, <2>6, <4>1
            <4>2. CASE first \notin 1 .. P
                <5>1. first - P \in 1 .. at - 1 /\ first - P \in 1 .. Len(pattern)
                      /\ first = P + (first - P)
                    BY <1>0, <4>2
                <5>2. full[first] = pattern[first - P]
                    BY <1>1, <5>1
                <5>3. QED BY <2>1, <2>6, <5>1, <5>2
            <4>3. QED BY <4>1, <4>2
        <3>3. QED BY <1>0, <1>1, <3>1, <3>2
    <2>8. Stretched(full, whole, first, k)
        <3>1. Len(path) = Len(pattern) - 1 + k
            BY <2>3 DEF Stretched
        <3>2. Len(whole) = Len(full) - 1 + k
            BY <1>0, <1>1, <1>2, <3>1
        <3>3. ASSUME NEW i \in 1 .. first - 1 PROVE Fits(full[i], whole[i])
            <4>1. CASE i \in 1 .. P
                BY <1>4, <4>1
            <4>2. CASE i \notin 1 .. P
                <5>1. PICK j \in 1 .. at - 1 : i = P + j
                    <6>1. i - P \in 1 .. at - 1 /\ i = P + (i - P)
                        BY <1>0, <2>7, <4>2
                    <6>2. QED BY <6>1
                <5>2. j \in 1 .. Len(pattern) /\ j \in 1 .. Len(path)
                    BY <1>0, <3>1
                <5>3. full[i] = pattern[j] /\ whole[i] = path[j]
                    BY <1>1, <1>2, <5>1, <5>2
                <5>4. Fits(pattern[j], path[j])
                    BY <2>3 DEF Stretched
                <5>5. QED BY <5>3, <5>4
            <4>3. QED BY <4>1, <4>2
        <3>4. ASSUME NEW i \in first + 1 .. Len(full) PROVE Fits(full[i], whole[i + k - 1])
            <4>1. PICK j \in at + 1 .. Len(pattern) : i = P + j
                <5>1. i - P \in at + 1 .. Len(pattern) /\ i = P + (i - P)
                    BY <1>0, <1>1, <2>7
                <5>2. QED BY <5>1
            <4>2. j \in 1 .. Len(pattern) /\ j + k - 1 \in 1 .. Len(path)
                  /\ i + k - 1 = P + (j + k - 1)
                BY <1>0, <3>1, <4>1
            <4>3. full[i] = pattern[j]
                BY <1>1, <4>1, <4>2
            <4>4. whole[i + k - 1] = path[j + k - 1]
                BY <1>2, <4>2
            <4>5. Fits(pattern[j], path[j + k - 1])
                BY <2>3 DEF Stretched
            <4>6. QED BY <4>3, <4>4, <4>5
        <3>5. QED BY <3>2, <3>3, <3>4 DEF Stretched
    <2>9. k \in 1 .. Len(whole)
        BY <1>0, <1>2
    <2>10. MatchWithPathParam(full, whole, first)
        BY <1>1, <1>2, <2>8, <2>9, MatchIsStretch
    <2>11. Matches(full, whole)
        BY <2>5, <2>6, <2>10 DEF Matches, Greedy
    <2>12. QED BY <2>11 DEF full, whole
<1>7. QED BY <1>5, <1>6

\* include_router: what a router finds is found behind the prefix.
THEOREM IncludedIsFound ==
    ASSUME NEW other \in Tables, NEW method, NEW path \in Words, NEW prefix \in Words,
           PathParam \notin Range(prefix)
    PROVE  IncludedIsReachable(other, prefix, method, path)
<1> DEFINE listed == [k \in DOMAIN other |-> Route(other[k].method, prefix \o other[k].pattern)]
           table  == IncludeRouter(<<>>, other, prefix)
<1>1. DOMAIN other = 1 .. Len(other) /\ Len(other) \in Nat
    BY LenProperties DEF Tables
<1>2. \A k \in DOMAIN other : other[k].pattern \in Words /\ other[k].method \in STRING
    <2>1. \A k \in DOMAIN other : other[k] \in [method : STRING, pattern : Words]
        BY <1>1, ElementOfSeq DEF Tables
    <2>2. QED BY <2>1
<1>3. \A k \in DOMAIN other : listed[k] \in [method : STRING, pattern : Words]
    BY <1>2, ConcatOf DEF Route
<1>4. listed \in Tables
    BY <1>1, <1>3 DEF Tables
<1>5. table = listed
    BY <1>4, ConcatEmptySeq DEF IncludeRouter, Tables
<1>6. ASSUME NEW m, First(other, m, path) # 0
      PROVE  First(table, m, prefix \o path) # 0
    <2>1. PICK k \in DOMAIN other : other[k].method = m /\ Matches(other[k].pattern, path)
        BY <1>6, FirstOf DEF Candidates
    <2>2. Matches(prefix \o other[k].pattern, prefix \o path)
        BY <1>2, <2>1, BehindPrefix
    <2>3. k \in DOMAIN listed /\ listed[k].method = m
          /\ listed[k].pattern = prefix \o other[k].pattern
        BY <2>1 DEF Route
    <2> HIDE DEF listed
    <2>4. k \in Candidates(listed, m, prefix \o path)
        BY <2>2, <2>3 DEF Candidates
    <2> HIDE DEF table
    <2>5. QED BY <1>4, <1>5, <2>4, FirstOf
<1> HIDE DEF listed, table
<1>7. MatchRoute(other, method, path) # 0 => MatchRoute(table, method, prefix \o path) # 0
    BY <1>6 DEF MatchRoute
<1>8. QED BY <1>7 DEF IncludedIsReachable, table

-----------------------------------------------------------------------------
(* The request and the session.                                            *)

Entering  == {"http", "proxy", "cors"}
Answering == {"handler", "returned", "drain", "vite"}
InSession == {"ws", "wsApp", "wsHandler", "wsAccept", "wsConnect", "pump", "closing"}

Codes    == {1000, 1008, 1011, 4004}
Closes   == {<<>>} \cup {<<code>> : code \in Codes}
Sides    == {"none", "up", "closed", "broken"}
Tasks    == {"none", "runs", "done", "failed", "cancelling", "cancelled"}
Sessions == [accepted : BOOLEAN, closes : Closes, vite : Sides,
             toVite : Tasks, toClient : Tasks, cancelled : BOOLEAN]

\* Where a request can be, and between which bounds its parts stay.
PlaceInv ==
    /\ pc \in Entering \cup Answering \cup InSession \cup {"over", "raised"}
    /\ arrived \in 0 .. Chunks /\ read \in 0 .. arrived
    /\ status \in {0, 200, 404, 405}
    /\ ws \in Sessions

\* Until it is dispatched, the request is one of those that may come.
AskedInv ==
    pc \in Entering \cup {"ws"} =>
        app \in Apps /\ req \in [method : Methods, path : Paths]

Others  == [by : {"host", "cors", "vite", "proxy"}, status : {204, 400, 200, 502},
            cors : BOOLEAN]
FromApp == [by |-> "app", status |-> status, cors |-> origin = "allowed"]

\* What the client has heard: nothing, the application, or as a whole an answer in
\* the place of the application or of its 404.
HeardInv ==
    \/ starts = <<>> /\ ~ended
    \/ starts = <<FromApp>> /\ status # 0 /\ ~is404
    \/ /\ ended
       /\ \E r \in Others :
             /\ starts = <<r>>
             /\ r.by \in {"host", "cors"} => status = 0
             /\ r.by \in {"vite", "proxy"} => is404

\* How far the application has come, and what was noted of it.
StatusInv ==
    /\ is404 <=> proxied /\ status = 404
    /\ seen => gone
    /\ pc \in Entering \cup InSession => status = 0
    /\ status = 0 /\ pc \notin {"over", "returned"} => starts = <<>>
    /\ status # 0 /\ ~is404 => starts # <<>>
    /\ pc \in Entering \cup InSession \cup {"handler"} => history = <<>>
    /\ pc = "handler" => ~ended
    /\ pc \in {"returned", "drain", "vite", "over", "raised"} /\ status # 0
          => history = <<status>>

\* A 404 that is held back has sent nothing yet, and is replayed once, drained.
ReplayInv ==
    /\ pc = "returned" /\ ~is404 /\ ~gone => ended
    /\ is404 /\ pc \notin {"over"} => starts = <<>>
    /\ pc \in {"drain", "vite"} => is404
    /\ pc = "vite" => read = Chunks /\ ~seen
    /\ vite = <<>> \/ (vite = <<Chunks>> /\ is404 /\ ~seen /\ pc \in {"over", "raised"})
    /\ pc = "over" /\ ~gone /\ ws.closes = <<>> => ended

\* A session is closed at its end only.
WsInv ==
    /\ pc \notin {"over", "raised"} => ws.closes = <<>>
    /\ pc \in Entering \cup Answering \cup {"ws", "wsApp", "wsAccept"} => ~ws.accepted
    /\ pc = "over" /\ ws.accepted /\ ~gone => ws.closes # <<>>
    /\ pc \in {"ws", "wsApp", "wsHandler"} => ~proxied
    /\ pc \in {"pump", "closing"} => ws.vite # "none"
    /\ proxied /\ ws.closes = <<1000>> => ws.vite # "none" \/ ws.cancelled

IInv == PlaceInv /\ AskedInv /\ HeardInv /\ StatusInv /\ ReplayInv /\ WsInv

-----------------------------------------------------------------------------
(* What a step does to the session.                                        *)

Closed(w, code) == [w EXCEPT !.closes = Append(@, code)]
Connected(w)    == [w EXCEPT !.vite = "up", !.toVite = "runs", !.toClient = "runs"]

LEMMA AcceptOf ==
    ASSUME NEW w \in Sessions, NEW v, v = [w EXCEPT !.accepted = TRUE]
    PROVE  v \in Sessions /\ v.closes = w.closes /\ v.vite = w.vite /\ v.accepted
BY DEF Sessions

\* The only close of a session.
LEMMA CloseOf ==
    ASSUME NEW w \in Sessions, w.closes = <<>>, NEW code \in Codes
    PROVE  /\ Closed(w, code) \in Sessions /\ Closed(w, code).vite = w.vite
           /\ Closed(w, code).accepted = w.accepted
           /\ Closed(w, code).closes # <<>>
           /\ code # 1000 => Closed(w, code).closes # <<1000>>
<1>1. Append(<<>>, code) = <<code>> /\ <<code>> # <<>> /\ (<<code>> = <<1000>> => code = 1000)
    OBVIOUS
<1>2. <<code>> \in Closes
    BY DEF Closes
<1>3. Closed(w, code) = [w EXCEPT !.closes = <<code>>]
    BY <1>1 DEF Closed
<1>4. Closed(w, code).closes = <<code>>
    BY <1>3 DEF Sessions
<1>5. /\ Closed(w, code) \in Sessions /\ Closed(w, code).vite = w.vite
      /\ Closed(w, code).accepted = w.accepted
    BY <1>2, <1>3 DEF Sessions
<1>6. QED BY <1>1, <1>4, <1>5

\* What a step of a pump, or a hang-up, leaves as it is.
Kept(v, w) == v.closes = w.closes /\ v.accepted = w.accepted /\ v.cancelled = w.cancelled

LEMMA SideOf ==
    ASSUME NEW w \in Sessions, NEW side \in Sides, NEW v, v = [w EXCEPT !.vite = side]
    PROVE  v \in Sessions /\ Kept(v, w) /\ v.vite = side
BY DEF Sessions, Kept

LEMMA ConnectOf ==
    ASSUME NEW w \in Sessions
    PROVE  /\ Connected(w) \in Sessions /\ Connected(w).closes = w.closes
           /\ Connected(w).vite = "up" /\ Connected(w).accepted = w.accepted
<1>1. Connected(w) \in Sessions
    BY DEF Connected, Sessions, Sides, Tasks
<1>2. Connected(w).closes = w.closes /\ Connected(w).accepted = w.accepted
    BY DEF Connected, Sessions
<1>3. Connected(w).vite = "up"
    BY DEF Connected, Sessions
<1>4. QED BY <1>1, <1>2, <1>3

LEMMA TaskOf ==
    ASSUME NEW w \in Sessions, NEW t \in Tasks,
           NEW v, v = [w EXCEPT !.toVite = t] \/ v = [w EXCEPT !.toClient = t]
    PROVE  v \in Sessions /\ Kept(v, w) /\ v.vite = w.vite
<1>1. CASE v = [w EXCEPT !.toVite = t]
    BY <1>1 DEF Sessions, Kept
<1>2. CASE v = [w EXCEPT !.toClient = t]
    BY <1>2 DEF Sessions, Kept
<1>3. QED BY <1>1, <1>2

\* The steps that only the session notices.
LEMMA SessionKeeps ==
    ASSUME IInv, UNCHANGED <<app, req, origin, proxied, body, answer>>, ws' \in Sessions, WsInv',
           \/ pc' = pc
           \/ /\ pc \in {"wsAccept", "wsConnect", "pump", "closing"}
              /\ pc' \in {"closing", "over", "raised"},
           pc' = "over" => ws'.closes # <<>> \/ (pc = "over" /\ ws'.closes = ws.closes)
    PROVE  IInv'
<1> USE DEF IInv, body, answer, Entering, Answering, InSession
<1>1. PlaceInv'
    BY DEF PlaceInv
<1>2. AskedInv'
    BY DEF AskedInv
<1>3. HeardInv'
    BY DEF HeardInv, FromApp
<1>4. StatusInv'
    BY DEF StatusInv, PlaceInv
<1>5. ReplayInv'
    BY DEF ReplayInv, StatusInv
<1>6. QED BY <1>1, <1>2, <1>3, <1>4, <1>5

-----------------------------------------------------------------------------
\* An answer that is sent as a whole to a client that has heard nothing.
LEMMA WholeAnswer ==
    ASSUME NEW r \in Others, starts = <<>>, ended', starts' = Append(starts, r),
           r.by \in {"host", "cors"} => status' = 0,
           r.by \in {"vite", "proxy"} => is404'
    PROVE  HeardInv'
<1>1. starts' = <<r>>
    OBVIOUS
<1>2. QED BY <1>1 DEF HeardInv

LEMMA Initially == Init => IInv
<1> SUFFICES ASSUME Init PROVE IInv
    OBVIOUS
<1>1. PlaceInv
    <2>1. pc \in {"http", "ws"} /\ 0 \in 0 .. Chunks /\ 0 \in 0 .. 0
        BY ChunksAssumption DEF Init
    <2>2. ws \in Sessions
        BY DEF Init, Sessions, Closes, Sides, Tasks
    <2>3. QED BY <2>1, <2>2 DEF Init, PlaceInv, Entering, Answering, InSession
<1>2. AskedInv
    BY DEF Init, AskedInv
<1>3. HeardInv
    BY DEF Init, HeardInv
<1>4. StatusInv
    BY DEF Init, StatusInv, Entering, Answering, InSession
<1>5. ReplayInv
    BY DEF Init, ReplayInv, Entering, Answering, InSession
<1>6. WsInv
    BY DEF Init, WsInv, Entering, Answering, InSession
<1>7. QED BY <1>1, <1>2, <1>3, <1>4, <1>5, <1>6 DEF IInv

-----------------------------------------------------------------------------
\* Every step of the middleware, the handler, the client and Vite preserves the
\* invariant.
LEMMA NextKeeps == ASSUME IInv, [Next]_vars PROVE IInv'
<1>0. ws \in Sessions /\ (pc \notin {"over", "raised"} => ws.closes = <<>>) /\ <<>> # <<1000>>
    BY DEF IInv, PlaceInv, WsInv
<1> USE ChunksAssumption DEF IInv, body, answer, Entering, Answering, InSession
<1>1. CASE CheckHost
    <2>1. PlaceInv'
        BY <1>1 DEF CheckHost, Reply, Forget, PlaceInv
    <2>2. AskedInv'
        BY <1>1 DEF CheckHost, Reply, Forget, PlaceInv, AskedInv
    <2>3. HeardInv'
        <3>1. CASE pc' = "proxy"
            BY <1>1, <3>1 DEF CheckHost, HeardInv, FromApp
        <3>2. CASE pc' = "over"
            <4>1. starts = <<>> /\ status' = 0
                BY <1>1 DEF CheckHost, StatusInv
            <4> DEFINE r == [by |-> "host", status |-> 400, cors |-> FALSE]
            <4>2. starts' = Append(starts, r) /\ ended'
                BY <1>1, <3>2 DEF CheckHost, Reply
            <4>3. r \in Others /\ r.by = "host"
                BY DEF Others
            <4> HIDE DEF r
            <4>4. QED BY <4>1, <4>2, <4>3, WholeAnswer
        <3>3. QED BY <1>1, <3>1, <3>2 DEF CheckHost
    <2>4. StatusInv'
        BY <1>1 DEF CheckHost, Reply, Forget, PlaceInv, StatusInv, ReplayInv, HeardInv
    <2>5. ReplayInv'
        BY <1>1 DEF CheckHost, Reply, Forget, PlaceInv, ReplayInv, StatusInv, WsInv, HeardInv
    <2>6. WsInv'
        BY <1>1 DEF CheckHost, Reply, Forget, PlaceInv, WsInv, StatusInv
    <2>7. QED BY <2>1, <2>2, <2>3, <2>4, <2>5, <2>6
<1>2. CASE EnterProxy
    <2>1. PlaceInv'
        BY <1>2 DEF EnterProxy, PlaceInv
    <2>2. AskedInv'
        BY <1>2 DEF EnterProxy, PlaceInv, AskedInv
    <2>3. HeardInv'
        BY <1>2 DEF EnterProxy, PlaceInv, HeardInv, StatusInv, ReplayInv, FromApp
    <2>4. StatusInv'
        BY <1>2 DEF EnterProxy, PlaceInv, StatusInv, ReplayInv, HeardInv
    <2>5. ReplayInv'
        BY <1>2 DEF EnterProxy, PlaceInv, ReplayInv, StatusInv, WsInv, HeardInv
    <2>6. WsInv'
        <3>1. ws' = ws /\ pc = "proxy" /\ pc' = "cors" /\ ws.closes = <<>>
            BY <1>0, <1>2 DEF EnterProxy
        <3>2. ws.closes # <<1000>>
            BY <1>0, <3>1
        <3>3. QED BY <3>1, <3>2 DEF WsInv
    <2>7. QED BY <2>1, <2>2, <2>3, <2>4, <2>5, <2>6
<1>3. CASE Preflight
    <2>1. PlaceInv'
        BY <1>3 DEF Preflight, Reply, Forget, PlaceInv
    <2>2. AskedInv'
        BY <1>3 DEF Preflight, Reply, Forget, PlaceInv, AskedInv
    <2>3. HeardInv'
        <3>1. starts = <<>> /\ status' = 0
            BY <1>3 DEF Preflight, StatusInv
        <3> DEFINE r == [by |-> "cors", status |-> 204, cors |-> TRUE]
        <3>2. starts' = Append(starts, r) /\ ended'
            BY <1>3 DEF Preflight, Reply
        <3>3. r \in Others /\ r.by = "cors"
            BY DEF Others
        <3> HIDE DEF r
        <3>4. QED BY <3>1, <3>2, <3>3, WholeAnswer
    <2>4. StatusInv'
        BY <1>3 DEF Preflight, Reply, Forget, PlaceInv, StatusInv, ReplayInv, HeardInv
    <2>5. ReplayInv'
        BY <1>3 DEF Preflight, Reply, Forget, PlaceInv, ReplayInv, StatusInv, WsInv, HeardInv
    <2>6. WsInv'
        BY <1>3 DEF Preflight, Reply, Forget, PlaceInv, WsInv, StatusInv
    <2>7. QED BY <2>1, <2>2, <2>3, <2>4, <2>5, <2>6
<1>4. CASE EnterApp
    <2>0. \/ pc' = "handler" /\ UNCHANGED <<is404, status, starts, ended, history>>
          \/ \E code \in {404, 405} : Refuse(code)
        BY <1>4 DEF EnterApp
    <2>1. PlaceInv'
        BY <1>4, <2>0 DEF EnterApp, Forget, Refuse, Start, Finish, Record, PlaceInv
    <2>2. AskedInv'
        BY <1>4, <2>0 DEF EnterApp, Forget, Refuse, Start, Finish, Record, PlaceInv, AskedInv
    <2>3. HeardInv'
        <3>1. starts = <<>> /\ ~ended /\ origin' = origin /\ proxied' = proxied
            <4>1. starts = <<>> /\ status = 0 /\ ~is404
                BY <1>4 DEF EnterApp, StatusInv
            <4>2. QED BY <1>4, <4>1 DEF EnterApp, HeardInv
        <3>2. CASE pc' = "handler" /\ UNCHANGED <<is404, status, starts, ended, history>>
            BY <3>1, <3>2 DEF HeardInv
        <3>3. ASSUME NEW code \in {404, 405}, Refuse(code) PROVE HeardInv'
            <4>1. CASE proxied /\ code = 404
                BY <3>1, <3>3, <4>1 DEF Refuse, Start, Finish, HeardInv
            <4>2. CASE ~(proxied /\ code = 404)
                <5>1. starts' = Append(<<>>, FromApp') /\ status' = code
                    BY <3>1, <3>3, <4>2 DEF Refuse, Start, FromApp
                <5>2. starts' = <<FromApp>>' /\ is404' = is404 /\ ~is404
                    BY <1>4, <3>3, <4>2, <5>1 DEF Refuse, Start, EnterApp, StatusInv
                <5>3. QED BY <5>1, <5>2 DEF HeardInv
            <4>3. QED BY <4>1, <4>2
        <3>4. QED BY <2>0, <3>2, <3>3
    <2>4. StatusInv'
        BY <1>4, <2>0 DEF EnterApp, Forget, Refuse, Start, Finish, Record, PlaceInv, StatusInv, ReplayInv, HeardInv
    <2>5. ReplayInv'
        <3>1. pc' \in {"handler", "returned"} /\ vite = <<>> /\ vite' = vite
            BY <1>4, <2>0 DEF EnterApp, Refuse, ReplayInv
        <3>2. pc' = "returned" => (is404' \/ ended')
            BY <1>4, <2>0 DEF EnterApp, Refuse, Start, Finish
        <3>3. is404' => starts' = <<>>
            <4>1. starts = <<>> /\ ~is404
                BY <1>4 DEF EnterApp, StatusInv
            <4>2. QED BY <1>4, <2>0, <4>1 DEF Refuse, Start
        <3>4. QED BY <3>1, <3>2, <3>3 DEF ReplayInv
    <2>6. WsInv'
        BY <1>4, <2>0 DEF EnterApp, Forget, Refuse, Start, Finish, Record, PlaceInv, WsInv, StatusInv
    <2>7. QED BY <2>1, <2>2, <2>3, <2>4, <2>5, <2>6
<1>5. CASE HandlerReads
    <2>1. PlaceInv'
        BY <1>5 DEF HandlerReads, Receive, PlaceInv
    <2>2. AskedInv'
        BY <1>5 DEF HandlerReads, Receive, PlaceInv, AskedInv
    <2>3. HeardInv'
        BY <1>5 DEF HandlerReads, Receive, PlaceInv, HeardInv, StatusInv, ReplayInv, FromApp
    <2>4. StatusInv'
        BY <1>5 DEF HandlerReads, Receive, PlaceInv, StatusInv, ReplayInv, HeardInv
    <2>5. ReplayInv'
        BY <1>5 DEF HandlerReads, Receive, PlaceInv, ReplayInv, StatusInv, WsInv, HeardInv
    <2>6. WsInv'
        BY <1>5 DEF HandlerReads, Receive, PlaceInv, WsInv, StatusInv
    <2>7. QED BY <2>1, <2>2, <2>3, <2>4, <2>5, <2>6
<1>6. CASE HandlerStarts
    <2>1. PlaceInv'
        BY <1>6 DEF HandlerStarts, Start, PlaceInv
    <2>2. AskedInv'
        BY <1>6 DEF HandlerStarts, Start, PlaceInv, AskedInv
    <2>3. HeardInv'
        BY <1>6 DEF HandlerStarts, Start, PlaceInv, HeardInv, StatusInv, ReplayInv, FromApp
    <2>4. StatusInv'
        BY <1>6 DEF HandlerStarts, Start, PlaceInv, StatusInv, ReplayInv, HeardInv
    <2>5. ReplayInv'
        BY <1>6 DEF HandlerStarts, Start, PlaceInv, ReplayInv, StatusInv, WsInv, HeardInv
    <2>6. WsInv'
        BY <1>6 DEF HandlerStarts, Start, PlaceInv, WsInv, StatusInv
    <2>7. QED BY <2>1, <2>2, <2>3, <2>4, <2>5, <2>6
<1>7. CASE HandlerReturns
    <2>1. PlaceInv'
        BY <1>7 DEF HandlerReturns, Finish, Record, PlaceInv
    <2>2. AskedInv'
        BY <1>7 DEF HandlerReturns, Finish, Record, PlaceInv, AskedInv
    <2>3. HeardInv'
        BY <1>7 DEF HandlerReturns, Finish, Record, PlaceInv, HeardInv, StatusInv, ReplayInv, FromApp
    <2>4. StatusInv'
        BY <1>7 DEF HandlerReturns, Finish, Record, PlaceInv, StatusInv, ReplayInv, HeardInv
    <2>5. ReplayInv'
        BY <1>7 DEF HandlerReturns, Finish, Record, PlaceInv, ReplayInv, StatusInv, WsInv, HeardInv
    <2>6. WsInv'
        BY <1>7 DEF HandlerReturns, Finish, Record, PlaceInv, WsInv, StatusInv
    <2>7. QED BY <2>1, <2>2, <2>3, <2>4, <2>5, <2>6
<1>8. CASE HandlerRaises
    <2>1. PlaceInv'
        BY <1>8 DEF HandlerRaises, Record, PlaceInv
    <2>2. AskedInv'
        BY <1>8 DEF HandlerRaises, Record, PlaceInv, AskedInv
    <2>3. HeardInv'
        BY <1>8 DEF HandlerRaises, Record, PlaceInv, HeardInv, StatusInv, ReplayInv, FromApp
    <2>4. StatusInv'
        BY <1>8 DEF HandlerRaises, Record, PlaceInv, StatusInv, ReplayInv, HeardInv
    <2>5. ReplayInv'
        BY <1>8 DEF HandlerRaises, Record, PlaceInv, ReplayInv, StatusInv, WsInv, HeardInv
    <2>6. WsInv'
        BY <1>8 DEF HandlerRaises, Record, PlaceInv, WsInv, StatusInv
    <2>7. QED BY <2>1, <2>2, <2>3, <2>4, <2>5, <2>6
<1>9. CASE Returned
    <2>1. PlaceInv'
        BY <1>9 DEF Returned, PlaceInv
    <2>2. AskedInv'
        BY <1>9 DEF Returned, PlaceInv, AskedInv
    <2>3. HeardInv'
        BY <1>9 DEF Returned, PlaceInv, HeardInv, StatusInv, ReplayInv, FromApp
    <2>4. StatusInv'
        BY <1>9 DEF Returned, PlaceInv, StatusInv, ReplayInv, HeardInv
    <2>5. ReplayInv'
        BY <1>9 DEF Returned, PlaceInv, ReplayInv, StatusInv, WsInv, HeardInv
    <2>6. WsInv'
        BY <1>9 DEF Returned, PlaceInv, WsInv, StatusInv
    <2>7. QED BY <2>1, <2>2, <2>3, <2>4, <2>5, <2>6
<1>10. CASE Drain
    <2>1. PlaceInv'
        BY <1>10 DEF Drain, Receive, PlaceInv
    <2>2. AskedInv'
        BY <1>10 DEF Drain, Receive, PlaceInv, AskedInv
    <2>3. HeardInv'
        BY <1>10 DEF Drain, Receive, PlaceInv, HeardInv, StatusInv, ReplayInv, FromApp
    <2>4. StatusInv'
        BY <1>10 DEF Drain, Receive, PlaceInv, StatusInv, ReplayInv, HeardInv
    <2>5. ReplayInv'
        BY <1>10 DEF Drain, Receive, PlaceInv, ReplayInv, StatusInv, WsInv, HeardInv
    <2>6. WsInv'
        BY <1>10 DEF Drain, Receive, PlaceInv, WsInv, StatusInv
    <2>7. QED BY <2>1, <2>2, <2>3, <2>4, <2>5, <2>6
<1>11. CASE Drained
    <2>1. PlaceInv'
        BY <1>11 DEF Drained, BodyComplete, PlaceInv
    <2>2. AskedInv'
        BY <1>11 DEF Drained, BodyComplete, PlaceInv, AskedInv
    <2>3. HeardInv'
        BY <1>11 DEF Drained, BodyComplete, PlaceInv, HeardInv, StatusInv, ReplayInv, FromApp
    <2>4. StatusInv'
        BY <1>11 DEF Drained, BodyComplete, PlaceInv, StatusInv, ReplayInv, HeardInv
    <2>5. ReplayInv'
        BY <1>11 DEF Drained, BodyComplete, PlaceInv, ReplayInv, StatusInv, WsInv, HeardInv
    <2>6. WsInv'
        BY <1>11 DEF Drained, BodyComplete, PlaceInv, WsInv, StatusInv
    <2>7. QED BY <2>1, <2>2, <2>3, <2>4, <2>5, <2>6
<1>12. CASE ViteAnswers
    <2>1. PlaceInv'
        BY <1>12 DEF ViteAnswers, PlaceInv
    <2>2. AskedInv'
        BY <1>12 DEF ViteAnswers, PlaceInv, AskedInv
    <2>3. HeardInv'
        <3>1. starts = <<>> /\ is404'
            BY <1>12 DEF ViteAnswers, ReplayInv
        <3> DEFINE r == [by |-> "vite", status |-> 200, cors |-> FALSE]
        <3>2. starts' = Append(starts, r) /\ ended'
            BY <1>12 DEF ViteAnswers
        <3>3. r \in Others /\ r.by = "vite"
            BY DEF Others
        <3> HIDE DEF r
        <3>4. QED BY <3>1, <3>2, <3>3, WholeAnswer
    <2>4. StatusInv'
        BY <1>12 DEF ViteAnswers, PlaceInv, StatusInv, ReplayInv, HeardInv
    <2>5. ReplayInv'
        BY <1>12 DEF ViteAnswers, PlaceInv, ReplayInv, StatusInv, WsInv, HeardInv
    <2>6. WsInv'
        BY <1>12 DEF ViteAnswers, PlaceInv, WsInv, StatusInv
    <2>7. QED BY <2>1, <2>2, <2>3, <2>4, <2>5, <2>6
<1>13. CASE ViteUnreachable
    <2>1. PlaceInv'
        BY <1>13 DEF ViteUnreachable, PlaceInv
    <2>2. AskedInv'
        BY <1>13 DEF ViteUnreachable, PlaceInv, AskedInv
    <2>3. HeardInv'
        <3>1. starts = <<>> /\ is404'
            BY <1>13 DEF ViteUnreachable, ReplayInv
        <3> DEFINE r == [by |-> "proxy", status |-> 502, cors |-> FALSE]
        <3>2. starts' = Append(starts, r) /\ ended'
            BY <1>13 DEF ViteUnreachable
        <3>3. r \in Others /\ r.by = "proxy"
            BY DEF Others
        <3> HIDE DEF r
        <3>4. QED BY <3>1, <3>2, <3>3, WholeAnswer
    <2>4. StatusInv'
        BY <1>13 DEF ViteUnreachable, PlaceInv, StatusInv, ReplayInv, HeardInv
    <2>5. ReplayInv'
        BY <1>13 DEF ViteUnreachable, PlaceInv, ReplayInv, StatusInv, WsInv, HeardInv
    <2>6. WsInv'
        BY <1>13 DEF ViteUnreachable, PlaceInv, WsInv, StatusInv
    <2>7. QED BY <2>1, <2>2, <2>3, <2>4, <2>5, <2>6
<1>14. CASE ViteFails
    <2>1. PlaceInv'
        BY <1>14 DEF ViteFails, PlaceInv
    <2>2. AskedInv'
        BY <1>14 DEF ViteFails, PlaceInv, AskedInv
    <2>3. HeardInv'
        BY <1>14 DEF ViteFails, PlaceInv, HeardInv, StatusInv, ReplayInv, FromApp
    <2>4. StatusInv'
        BY <1>14 DEF ViteFails, PlaceInv, StatusInv, ReplayInv, HeardInv
    <2>5. ReplayInv'
        BY <1>14 DEF ViteFails, PlaceInv, ReplayInv, StatusInv, WsInv, HeardInv
    <2>6. WsInv'
        BY <1>14 DEF ViteFails, PlaceInv, WsInv, StatusInv
    <2>7. QED BY <2>1, <2>2, <2>3, <2>4, <2>5, <2>6
<1>15. CASE WsEnter
    <2>0. /\ ws' \in Sessions /\ ws'.vite = ws.vite /\ ws'.accepted = ws.accepted
          /\ \/ pc' # "over" /\ ws'.closes = <<>>
             \/ pc' = "over" /\ ws'.closes # <<>> /\ ws'.closes # <<1000>>
        <3>0. ws.closes = <<>>
            BY <1>0, <1>15 DEF WsEnter
        <3>1. CASE pc' = "over" /\ ws' = Closed(ws, 1008)
            <4>1. 1008 \in Codes
                BY DEF Codes
            <4>2. QED BY <1>0, <3>0, <3>1, <4>1, CloseOf
        <3>2. CASE pc' # "over" /\ ws' = ws
            BY <1>0, <3>0, <3>2
        <3>3. QED BY <1>15, <3>1, <3>2 DEF WsEnter, Close, Closed
    <2>1. PlaceInv'
        BY <1>15, <2>0 DEF WsEnter, Forget, PlaceInv
    <2>2. AskedInv'
        BY <1>15, <2>0 DEF WsEnter, Close, Forget, PlaceInv, AskedInv
    <2>3. HeardInv'
        BY <1>15, <2>0 DEF WsEnter, Close, Forget, PlaceInv, HeardInv, StatusInv, ReplayInv, FromApp
    <2>4. StatusInv'
        BY <1>15, <2>0 DEF WsEnter, Close, Forget, PlaceInv, StatusInv, ReplayInv, HeardInv
    <2>5. ReplayInv'
        BY <1>15, <2>0 DEF WsEnter, Forget, PlaceInv, ReplayInv, StatusInv, WsInv, HeardInv
    <2>6. WsInv'
        <3>1. pc' \in {"wsApp", "wsAccept", "over"} /\ (pc' = "wsApp" => ~proxied') /\ ~ws.accepted
            BY <1>15 DEF WsEnter, WsInv
        <3>2. ws'.closes # <<1000>>
            BY <1>0, <2>0
        <3>3. QED BY <2>0, <3>1, <3>2 DEF WsInv
    <2>7. QED BY <2>1, <2>2, <2>3, <2>4, <2>5, <2>6
<1>16. CASE WsReject
    <2>0. ws' \in Sessions /\ ws'.vite = ws.vite /\ ws'.accepted = ws.accepted /\ ws'.closes # <<>> /\ ws'.closes # <<1000>>
        <3>0. PICK code \in {4004, 1008, 1011} : Close(code)
            BY <1>16 DEF WsReject
        <3>1. ws' = Closed(ws, code)
            BY <3>0 DEF Close, Closed
        <3>2. code \in Codes /\ code # 1000 /\ ws.closes = <<>>
            BY <1>0, <1>16 DEF WsReject, Codes
        <3>3. QED BY <1>0, <3>1, <3>2, CloseOf
    <2>1. PlaceInv'
        BY <1>16, <2>0 DEF WsReject, PlaceInv
    <2>2. AskedInv'
        BY <1>16, <2>0 DEF WsReject, Close, PlaceInv, AskedInv
    <2>3. HeardInv'
        BY <1>16, <2>0 DEF WsReject, Close, PlaceInv, HeardInv, StatusInv, ReplayInv, FromApp
    <2>4. StatusInv'
        BY <1>16, <2>0 DEF WsReject, Close, PlaceInv, StatusInv, ReplayInv, HeardInv
    <2>5. ReplayInv'
        BY <1>16, <2>0 DEF WsReject, PlaceInv, ReplayInv, StatusInv, WsInv, HeardInv
    <2>6. WsInv'
        BY <1>16, <2>0 DEF WsReject, PlaceInv, WsInv, StatusInv
    <2>7. QED BY <2>1, <2>2, <2>3, <2>4, <2>5, <2>6
<1>17. CASE WsHandlerAccepts
    <2>0. ws' \in Sessions /\ ws'.closes = <<>> /\ ws'.vite = ws.vite /\ (pc' = "over" => ~ws'.accepted)
        BY <1>0, <1>17, AcceptOf DEF WsHandlerAccepts, WsInv
    <2>1. PlaceInv'
        BY <1>17, <2>0 DEF WsHandlerAccepts, PlaceInv
    <2>2. AskedInv'
        BY <1>17, <2>0 DEF WsHandlerAccepts, PlaceInv, AskedInv
    <2>3. HeardInv'
        BY <1>17, <2>0 DEF WsHandlerAccepts, PlaceInv, HeardInv, StatusInv, ReplayInv, FromApp
    <2>4. StatusInv'
        BY <1>17, <2>0 DEF WsHandlerAccepts, PlaceInv, StatusInv, ReplayInv, HeardInv
    <2>5. ReplayInv'
        BY <1>17, <2>0 DEF WsHandlerAccepts, PlaceInv, ReplayInv, StatusInv, WsInv, HeardInv
    <2>6. WsInv'
        BY <1>17, <2>0 DEF WsHandlerAccepts, PlaceInv, WsInv, StatusInv
    <2>7. QED BY <2>1, <2>2, <2>3, <2>4, <2>5, <2>6
<1>18. CASE WsHandlerEnds
    <2>0. ws' \in Sessions /\ ws'.vite = ws.vite /\ ws'.accepted = ws.accepted /\ (ws'.closes # <<>> \/ gone)
        <3>1. CASE ws' = Closed(ws, 1000)
            <4>1. 1000 \in Codes /\ ws.closes = <<>>
                BY <1>0, <1>18 DEF WsHandlerEnds, Codes
            <4>2. QED BY <1>0, <3>1, <4>1, CloseOf
        <3>2. CASE gone /\ ws' = ws
            BY <1>0, <3>2
        <3>3. QED BY <1>18, <3>1, <3>2 DEF WsHandlerEnds, Close, Closed
    <2>1. PlaceInv'
        BY <1>18, <2>0 DEF WsHandlerEnds, PlaceInv
    <2>2. AskedInv'
        BY <1>18, <2>0 DEF WsHandlerEnds, Close, PlaceInv, AskedInv
    <2>3. HeardInv'
        BY <1>18, <2>0 DEF WsHandlerEnds, Close, PlaceInv, HeardInv, StatusInv, ReplayInv, FromApp
    <2>4. StatusInv'
        BY <1>18, <2>0 DEF WsHandlerEnds, Close, PlaceInv, StatusInv, ReplayInv, HeardInv
    <2>5. ReplayInv'
        BY <1>18, <2>0 DEF WsHandlerEnds, PlaceInv, ReplayInv, StatusInv, WsInv, HeardInv
    <2>6. WsInv'
        BY <1>18, <2>0 DEF WsHandlerEnds, PlaceInv, WsInv, StatusInv
    <2>7. QED BY <2>1, <2>2, <2>3, <2>4, <2>5, <2>6
<1>19. CASE WsAccept
    <2>0. ws' \in Sessions /\ ws'.closes = <<>> /\ ws'.vite = ws.vite /\ (pc' = "over" => ~ws'.accepted)
        BY <1>0, <1>19, AcceptOf DEF WsAccept, WsInv
    <2>1. PlaceInv'
        BY <1>19, <2>0 DEF WsAccept, PlaceInv
    <2>2. AskedInv'
        BY <1>19, <2>0 DEF WsAccept, PlaceInv, AskedInv
    <2>3. HeardInv'
        BY <1>19, <2>0 DEF WsAccept, PlaceInv, HeardInv, StatusInv, ReplayInv, FromApp
    <2>4. StatusInv'
        BY <1>19, <2>0 DEF WsAccept, PlaceInv, StatusInv, ReplayInv, HeardInv
    <2>5. ReplayInv'
        BY <1>19, <2>0 DEF WsAccept, PlaceInv, ReplayInv, StatusInv, WsInv, HeardInv
    <2>6. WsInv'
        BY <1>19, <2>0 DEF WsAccept, PlaceInv, WsInv, StatusInv
    <2>7. QED BY <2>1, <2>2, <2>3, <2>4, <2>5, <2>6
<1>20. CASE WsConnectFails
    <2>0. ws' \in Sessions /\ ws'.vite = ws.vite /\ ws'.accepted = ws.accepted /\ ws'.closes # <<>> /\ ws'.closes # <<1000>>
        <3>1. ws' = Closed(ws, 1011) /\ ws.closes = <<>>
            BY <1>0, <1>20 DEF WsConnectFails, Close, Closed
        <3>2. 1011 \in Codes
            BY DEF Codes
        <3>3. QED BY <1>0, <3>1, <3>2, CloseOf
    <2>1. PlaceInv'
        BY <1>20, <2>0 DEF WsConnectFails, PlaceInv
    <2>2. AskedInv'
        BY <1>20, <2>0 DEF WsConnectFails, Close, PlaceInv, AskedInv
    <2>3. HeardInv'
        BY <1>20, <2>0 DEF WsConnectFails, Close, PlaceInv, HeardInv, StatusInv, ReplayInv, FromApp
    <2>4. StatusInv'
        BY <1>20, <2>0 DEF WsConnectFails, Close, PlaceInv, StatusInv, ReplayInv, HeardInv
    <2>5. ReplayInv'
        BY <1>20, <2>0 DEF WsConnectFails, PlaceInv, ReplayInv, StatusInv, WsInv, HeardInv
    <2>6. WsInv'
        BY <1>20, <2>0 DEF WsConnectFails, PlaceInv, WsInv, StatusInv
    <2>7. QED BY <2>1, <2>2, <2>3, <2>4, <2>5, <2>6
<1>21. CASE WsConnects
    <2>0. ws' \in Sessions /\ ws'.closes = <<>> /\ ws'.vite # "none" /\ ws'.accepted = ws.accepted
        <3>1. ws' = Connected(ws)
            BY <1>21 DEF WsConnects, Connected
        <3>2. ws.closes = <<>>
            BY <1>0, <1>21 DEF WsConnects
        <3>3. QED BY <1>0, <3>1, <3>2, ConnectOf
    <2>1. PlaceInv'
        BY <1>21, <2>0 DEF WsConnects, PlaceInv
    <2>2. AskedInv'
        BY <1>21, <2>0 DEF WsConnects, PlaceInv, AskedInv
    <2>3. HeardInv'
        BY <1>21, <2>0 DEF WsConnects, PlaceInv, HeardInv, StatusInv, ReplayInv, FromApp
    <2>4. StatusInv'
        BY <1>21, <2>0 DEF WsConnects, PlaceInv, StatusInv, ReplayInv, HeardInv
    <2>5. ReplayInv'
        BY <1>21, <2>0 DEF WsConnects, PlaceInv, ReplayInv, StatusInv, WsInv, HeardInv
    <2>6. WsInv'
        BY <1>21, <2>0 DEF WsConnects, PlaceInv, WsInv, StatusInv
    <2>7. QED BY <2>1, <2>2, <2>3, <2>4, <2>5, <2>6
\* The two pumps, and what ends them.
<1>22. CASE PumpEnds \/ PumpSendFails \/ PumpCancelled
    <2>1. /\ ws' \in Sessions /\ Kept(ws', ws) /\ ws'.vite = ws.vite
          /\ pc' = pc /\ UNCHANGED <<app, req, origin, proxied, body, answer>>
        BY <1>0, <1>22, TaskOf DEF PumpEnds, PumpSendFails, PumpCancelled, Tasks
    <2>2. WsInv'
        BY <2>1 DEF WsInv, Kept
    <2>3. QED BY <2>1, <2>2, SessionKeeps DEF Kept
<1>23. CASE FirstPumpEnded
    <2>1. Requested(ws.toVite) \in Tasks /\ Requested(ws.toClient) \in Tasks
        BY <1>0 DEF Requested, Sessions, Tasks
    <2>2. PICK u : u = [ws EXCEPT !.toVite = Requested(ws.toVite)]
        OBVIOUS
    <2>3. u \in Sessions /\ Kept(u, ws) /\ u.vite = ws.vite
        BY <1>0, <2>1, <2>2, TaskOf
    <2>4. ws' = [u EXCEPT !.toClient = Requested(ws.toClient)]
        BY <1>0, <1>23, <2>2 DEF FirstPumpEnded, Sessions
    <2>5. ws' \in Sessions /\ Kept(ws', ws) /\ ws'.vite = ws.vite
        BY <2>1, <2>3, <2>4, TaskOf DEF Kept
    <2>6. WsInv'
        BY <1>0, <1>23, <2>5 DEF FirstPumpEnded, WsInv, Kept
    <2>7. QED BY <1>23, <2>5, <2>6, SessionKeeps DEF FirstPumpEnded
<1>24. CASE SessionCloses
    <2>1. PICK u : u = [ws EXCEPT !.vite = HungUp(ws.vite)]
        OBVIOUS
    <2>2. HungUp(ws.vite) \in Sides /\ (ws.vite # "none" => HungUp(ws.vite) # "none")
        BY <1>0 DEF HungUp, Sessions, Sides
    <2>3. u \in Sessions /\ Kept(u, ws) /\ u.vite = HungUp(ws.vite)
        BY <1>0, <2>1, <2>2, SideOf
    <2>4. ws' = Closed(u, 1000)
        <3>1. ws' = [ws EXCEPT !.closes = Append(ws.closes, 1000), !.vite = HungUp(ws.vite)]
            BY <1>24 DEF SessionCloses
        <3>2. u = [ws EXCEPT !.vite = HungUp(ws.vite)] /\ u.closes = ws.closes
            BY <2>1, <2>3 DEF Kept
        <3> DEFINE c == Append(ws.closes, 1000)
                   h == HungUp(ws.vite)
        <3> HIDE DEF c, h
        <3>3. ws' = [ws EXCEPT !.closes = c, !.vite = h] /\ u = [ws EXCEPT !.vite = h]
            BY <3>1, <3>2 DEF c, h
        <3>4. ws' = [u EXCEPT !.closes = c]
            BY <1>0, <3>3 DEF Sessions
        <3>5. QED BY <3>2, <3>4 DEF Closed, c
    <2>5. u.closes = <<>> /\ 1000 \in Codes
        BY <1>0, <1>24, <2>3 DEF SessionCloses, Kept, Codes
    <2>6. ws' \in Sessions /\ ws'.closes # <<>> /\ ws'.vite # "none"
        BY <1>24, <2>2, <2>3, <2>4, <2>5, CloseOf DEF SessionCloses, WsInv
    <2>7. WsInv'
        BY <1>24, <2>6 DEF SessionCloses, WsInv
    <2>8. QED BY <1>24, <2>6, <2>7, SessionKeeps DEF SessionCloses
<1>25. CASE ClientSends
    <2>1. PlaceInv'
        BY <1>25 DEF ClientSends, PlaceInv
    <2>2. AskedInv'
        BY <1>25 DEF ClientSends, PlaceInv, AskedInv
    <2>3. HeardInv'
        BY <1>25 DEF ClientSends, PlaceInv, HeardInv, StatusInv, ReplayInv, FromApp
    <2>4. StatusInv'
        BY <1>25 DEF ClientSends, PlaceInv, StatusInv, ReplayInv, HeardInv
    <2>5. ReplayInv'
        BY <1>25 DEF ClientSends, PlaceInv, ReplayInv, StatusInv, WsInv, HeardInv
    <2>6. WsInv'
        BY <1>25 DEF ClientSends, PlaceInv, WsInv, StatusInv
    <2>7. QED BY <2>1, <2>2, <2>3, <2>4, <2>5, <2>6
<1>26. CASE ClientLeaves
    <2>1. PlaceInv'
        BY <1>26 DEF ClientLeaves, PlaceInv
    <2>2. AskedInv'
        BY <1>26 DEF ClientLeaves, PlaceInv, AskedInv
    <2>3. HeardInv'
        BY <1>26 DEF ClientLeaves, PlaceInv, HeardInv, StatusInv, ReplayInv, FromApp
    <2>4. StatusInv'
        BY <1>26 DEF ClientLeaves, PlaceInv, StatusInv, ReplayInv, HeardInv
    <2>5. ReplayInv'
        BY <1>26 DEF ClientLeaves, PlaceInv, ReplayInv, StatusInv, WsInv, HeardInv
    <2>6. WsInv'
        BY <1>26 DEF ClientLeaves, PlaceInv, WsInv, StatusInv
    <2>7. QED BY <2>1, <2>2, <2>3, <2>4, <2>5, <2>6
<1>27. CASE ViteHangsUp
    <2>1. /\ ws' \in Sessions /\ Kept(ws', ws) /\ ws'.vite # "none"
          /\ pc' = pc /\ UNCHANGED <<app, req, origin, proxied, body, answer>>
        BY <1>0, <1>27, SideOf DEF ViteHangsUp, Sides
    <2>2. WsInv'
        BY <2>1 DEF WsInv, Kept
    <2>3. QED BY <2>1, <2>2, SessionKeeps DEF Kept
\* The cancellation of the request task.
<1>28. CASE HttpCancelled
    <2>1. PlaceInv'
        BY <1>28 DEF HttpCancelled, PlaceInv
    <2>2. AskedInv'
        BY <1>28 DEF HttpCancelled, AskedInv
    <2>3. HeardInv'
        BY <1>28 DEF HttpCancelled, HeardInv, FromApp
    <2>4. StatusInv'
        BY <1>28 DEF HttpCancelled, PlaceInv, StatusInv, ReplayInv, HeardInv
    <2>5. ReplayInv'
        <3>1. CASE vite' = vite
            BY <1>28, <3>1 DEF HttpCancelled, ReplayInv
        <3>2. CASE pc = "vite" /\ vite' = Append(vite, read)
            BY <1>28, <3>2 DEF HttpCancelled, ReplayInv
        <3>3. QED BY <1>28, <3>1, <3>2 DEF HttpCancelled
    <2>6. WsInv'
        BY <1>28 DEF HttpCancelled, WsInv
    <2>7. QED BY <2>1, <2>2, <2>3, <2>4, <2>5, <2>6
<1>29. CASE WsCancelled
    <2>1. /\ UNCHANGED <<app, req, origin, proxied, body, answer>>
          /\ pc' \in {"closing", "raised"} /\ pc \in {"wsAccept", "wsConnect", "pump", "closing"}
        <3>1. \/ Cut("wsAccept", "raised") \/ Cut("wsConnect", "raised")
              \/ Cut("pump", "closing") \/ Cut("closing", "raised")
            <4>1. CASE AcceptCancelled
                BY <4>1 DEF AcceptCancelled
            <4>2. CASE ConnectCancelled
                <5>1. Cut("wsConnect", "raised")
                    BY <4>2, Zenon DEF ConnectCancelled
                <5>2. QED BY <5>1, Zenon
            <4>3. CASE WaitCancelled
                BY <4>3 DEF WaitCancelled
            <4>4. CASE CloseCancelled
                BY <4>4, Zenon DEF CloseCancelled
            <4>5. QED BY <1>29, <4>1, <4>2, <4>3, <4>4, Zenon DEF WsCancelled
        <3>2. QED BY <3>1 DEF Cut
    <2>2. PICK a \in BOOLEAN, c \in Closes, side \in Sides :
              /\ ws' = [accepted |-> a, closes |-> c, vite |-> side, toVite |-> ws.toVite,
                        toClient |-> ws.toClient, cancelled |-> TRUE]
              /\ pc' = "closing" => c = <<>> /\ side # "none" /\ a = ws.accepted
        <3>1. /\ HungUp(ws.vite) \in Sides
              /\ ws.accepted \in BOOLEAN /\ ws.vite \in Sides /\ ws.closes \in Closes
            BY <1>0 DEF HungUp, Sessions, Sides
        <3>2. CASE AcceptCancelled
            <4>1. PICK a \in BOOLEAN : ws' = [ws EXCEPT !.cancelled = TRUE, !.accepted = a]
                BY <3>2, Zenon DEF AcceptCancelled
            <4>2. ws' = [accepted |-> a, closes |-> ws.closes, vite |-> ws.vite, toVite |-> ws.toVite,
                         toClient |-> ws.toClient, cancelled |-> TRUE]
                BY <1>0, <4>1 DEF Sessions
            <4>3. pc' = "raised"
                BY <3>2 DEF AcceptCancelled, Cut
            <4>4. QED BY <3>1, <4>2, <4>3
        <3>3. CASE ConnectCancelled
            <4>1. PICK c \in Closes : ws' = [ws EXCEPT !.cancelled = TRUE, !.closes = c]
                <5> DEFINE Sent == {<<>>, <<1000>>, <<1011>>}
                <5>1. \A e \in Sent : e \in Closes
                    BY DEF Closes, Codes
                <5>2. \E sent \in Sent : ws' = [ws EXCEPT !.cancelled = TRUE, !.closes = sent]
                    BY <3>3, Zenon DEF ConnectCancelled
                <5> HIDE DEF Sent
                <5>3. QED BY <5>1, <5>2, Zenon
            <4>2. ws' = [accepted |-> ws.accepted, closes |-> c, vite |-> ws.vite,
                         toVite |-> ws.toVite, toClient |-> ws.toClient, cancelled |-> TRUE]
                BY <1>0, <4>1 DEF Sessions
            <4>3. pc' # "closing"
                BY <3>3 DEF ConnectCancelled, Cut
            <4>4. QED BY <3>1, <4>2, <4>3, Zenon
        <3>4. CASE WaitCancelled
            <4>1. ws' = [ws EXCEPT !.cancelled = TRUE] /\ pc = "pump"
                BY <3>4 DEF WaitCancelled, Cut
            <4>2. ws' = [accepted |-> ws.accepted, closes |-> ws.closes, vite |-> ws.vite,
                         toVite |-> ws.toVite, toClient |-> ws.toClient, cancelled |-> TRUE]
                BY <1>0, <4>1 DEF Sessions
            <4>3. ws.closes = <<>> /\ ws.vite # "none"
                BY <1>0, <4>1 DEF WsInv
            <4>4. QED BY <3>1, <4>2, <4>3
        <3>5. CASE CloseCancelled
            <4>1. PICK c \in Closes : ws' = [ws EXCEPT !.cancelled = TRUE, !.closes = c,
                                             !.vite = HungUp(ws.vite)]
                <5>1. \A e \in {<<>>, <<1000>>} : e \in Closes
                    BY DEF Closes, Codes
                <5>2. PICK sent \in {<<>>, <<1000>>} :
                          ws' = [ws EXCEPT !.cancelled = TRUE, !.closes = sent, !.vite = HungUp(ws.vite)]
                    BY <3>5, Zenon DEF CloseCancelled
                <5>3. sent \in Closes
                    BY <5>1, <5>2, Zenon
                <5>4. QED BY <5>2, <5>3, Zenon
            <4>2. ws' = [accepted |-> ws.accepted, closes |-> c, vite |-> HungUp(ws.vite),
                         toVite |-> ws.toVite, toClient |-> ws.toClient, cancelled |-> TRUE]
                BY <1>0, <4>1 DEF Sessions
            <4>3. pc' # "closing"
                BY <3>5 DEF CloseCancelled, Cut
            <4>4. QED BY <3>1, <4>2, <4>3, Zenon
        <3>6. QED BY <1>29, <3>2, <3>3, <3>4, <3>5, Zenon DEF WsCancelled
    <2>3. ws' \in Sessions
        BY <1>0, <2>2 DEF Sessions
    <2>4. WsInv'
        BY <2>1, <2>2 DEF WsInv
    <2>5. QED BY <2>1, <2>3, <2>4, SessionKeeps
<1>30. CASE UNCHANGED vars
    BY <1>30 DEF vars, PlaceInv, AskedInv, HeardInv, StatusInv, ReplayInv, WsInv, FromApp
<1>31. QED
    BY <1>1, <1>2, <1>3, <1>4, <1>5, <1>6, <1>7, <1>8, <1>9, <1>10, <1>11, <1>12, <1>13, <1>14, <1>15, <1>16,
       <1>17, <1>18, <1>19, <1>20, <1>21, <1>22, <1>23, <1>24, <1>25, <1>26, <1>27, <1>28, <1>29, <1>30 DEF Next, Proxy, Session, Handler

-----------------------------------------------------------------------------
THEOREM Invariance == Spec => []IInv
BY Initially, NextKeeps, PTL DEF Spec

\* ViteProxyMiddleware replays a request once at most, after the backend's 404,
\* with every chunk of its body, and not for a client that is known to be gone.
THEOREM Faithful == Spec => []ReplayIsFaithful
<1>1. IInv => ReplayIsFaithful
    BY DEF IInv, ReplayInv, StatusInv, ReplayIsFaithful
<1>2. QED BY <1>1, Invariance, PTL

\* Proxy, CORS and application together send one response, the backend's or
\* Vite's, as a whole; the history has one entry for it; and a WebSocket is
\* closed once.
THEOREM Answer == Spec => []OneAnswer
<1>1. ASSUME IInv PROVE OneAnswer
    <2> USE <1>1 DEF IInv
    <2>1. Len(starts) <= 1 /\ (ended => starts # <<>>)
        <3>1. CASE starts = <<>> /\ ~ended
            BY <3>1
        <3>2. CASE \E r : starts = <<r>>
            BY <3>2
        <3>3. QED BY <3>1, <3>2 DEF HeardInv
    <2>2. pc = "over" /\ ~gone /\ ws.closes = <<>> => ended
        BY DEF ReplayInv
    <2>3. ASSUME NEW k \in DOMAIN starts, starts[k].by = "app"
          PROVE  /\ starts[k].status = status /\ starts[k].cors = (origin = "allowed")
                 /\ status = 404 => ~proxied
        <3>1. CASE starts = <<>>
            BY <2>3, <3>1
        <3>2. CASE starts = <<FromApp>> /\ ~is404
            <4>1. starts[k] = FromApp
                BY <2>3, <3>2
            <4>2. status = 404 => ~proxied
                BY <3>2 DEF StatusInv
            <4>3. QED BY <4>1, <4>2 DEF FromApp
        <3>3. CASE \E r \in Others : starts = <<r>>
            <4>1. PICK r \in Others : starts = <<r>>
                BY <3>3
            <4>2. starts[k] = r
                BY <2>3, <4>1
            <4>3. r.by # "app"
                BY DEF Others
            <4>4. QED BY <2>3, <4>2, <4>3
        <3>4. QED BY <3>1, <3>2, <3>3 DEF HeardInv
    <2>4. pc \in {"over", "raised"} /\ status # 0 => history = <<status>>
        BY DEF StatusInv
    <2>5. Len(ws.closes) <= 1
        <3>1. ws.closes \in Closes
            BY DEF PlaceInv, Sessions
        <3>2. CASE ws.closes = <<>>
            BY <3>2
        <3>3. CASE \E code : ws.closes = <<code>>
            BY <3>3
        <3>4. QED BY <3>1, <3>2, <3>3 DEF Closes
    <2>6. /\ ws.accepted /\ pc = "over" /\ ~gone => ws.closes # <<>>
          /\ proxied /\ ws.closes = <<1000>> => ws.vite # "none" \/ ws.cancelled
        BY DEF WsInv
    <2>7. QED BY <2>1, <2>2, <2>3, <2>4, <2>5, <2>6 DEF OneAnswer
<1>2. QED BY <1>1, Invariance, PTL

\* Whatever application a request is dispatched to, its router finds a route
\* exactly for the allowed methods, its patterns mean what they say, and it finds
\* the same routes when it is included behind a prefix.
THEOREM RoutesFound == Spec => []RoutesAreFound
<1>1. ASSUME IInv PROVE RoutesAreFound
    <2> SUFFICES ASSUME pc = "cors"
                 PROVE  /\ MatchRoute(app.table, req.method, req.path) # 0
                              <=> req.method \in AllowedMethods(app.table, req.path)
                        /\ \A k \in DOMAIN app.table :
                              Matches(app.table[k].pattern, req.path)
                                <=> MatchesAsSpecified(app.table[k].pattern, req.path)
                        /\ \A prefix \in Backend :
                              IncludedIsReachable(app.table, prefix, req.method, req.path)
        BY DEF RoutesAreFound
    <2>1. app \in Apps /\ req \in [method : Methods, path : Paths]
        BY <1>1 DEF IInv, AskedInv, Entering
    <2>2. STRING \subseteq Text
        BY DEF Text
    <2>3. \A s \in Seq(STRING) : s \in Words
        BY <2>2, SeqMonotonic DEF Words
    <2>4. req.path \in Words
        BY <2>1, <2>3, PathsAssumption
    <2>5. app.table \in Tables
        <3> DEFINE Plain == [method : STRING, pattern : Seq(STRING)]
                   Known == [method : STRING, pattern : Words]
        <3>1. Plain \subseteq Known
            BY <2>3
        <3>2. app.table \in Seq(Plain)
            BY <2>1, TablesAssumption
        <3> HIDE DEF Plain, Known
        <3>3. app.table \in Seq(Known)
            BY <3>1, <3>2, SeqMonotonic
        <3>4. QED BY <3>3 DEF Tables, Known
    <2>6. ASSUME NEW k \in DOMAIN app.table PROVE app.table[k].pattern \in Words
        <3>1. k \in 1 .. Len(app.table)
            BY <2>5, LenProperties DEF Tables
        <3>2. app.table[k] \in [method : STRING, pattern : Words]
            BY <2>5, <3>1, ElementOfSeq DEF Tables
        <3>3. QED BY <3>2
    <2>7. \A prefix \in Backend : prefix \in Words /\ PathParam \notin Range(prefix)
        BY <2>3, BackendAssumption
    <2>8. QED
        BY <2>4, <2>5, <2>6, <2>7, FoundIffAllowed, PatternsMeanWhatTheySay, IncludedIsFound
<1>2. QED BY <1>1, Invariance, PTL

=============================================================================
