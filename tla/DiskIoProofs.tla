---------------------------- MODULE DiskIoProofs ----------------------------
(***************************************************************************)
(* Proofs about the disk I/O ledger: for any set of CPUs, requests and     *)
(* keys, completions are counted once, collections that overlap I/O repeat *)
(* and invent nothing, and the in-flight gauge is accounted for.           *)
(*                                                                         *)
(* The sums over the CPUs need a few facts about SumFunctionOnSet first.   *)
(* The induction over a finite set in them is an argument about a smallest *)
(* counterexample: the proper subsets of a finite set are well-founded.    *)
(***************************************************************************)
EXTENDS DiskIo, FiniteSetTheorems, TLAPS

-----------------------------------------------------------------------------
(* Sums over finite sets. *)

\* A set of subsets of a finite set has a member that contains no other.
LEMMA SmallestSubset ==
    ASSUME NEW S, IsFiniteSet(S), NEW B \in SUBSET (SUBSET S), B # {}
    PROVE  \E m \in B : \A t \in B : t \subseteq m => t = m
  <1>1. IsWellFoundedOn(StrictSubsetOrdering(S), SUBSET S)
    BY FS_StrictSubsetOrderingWellFounded, FS_FiniteSubsetsOfFinite
  <1>2. PICK m \in B : \A t \in B : ~ (<<t, m>> \in StrictSubsetOrdering(S))
    BY <1>1, WFMin
  <1>. QED  BY <1>2 DEF StrictSubsetOrdering

\* The element by which a sum over s goes on.
Any(s) == CHOOSE x \in s : TRUE

\* g is the function by which a sum over the subsets of S is defined.
SumsUp(f, S, g) ==
    g = [s \in SUBSET S |-> IF s = {} THEN 0 ELSE f[Any(s)] + g[s \ {Any(s)}]]

\* The one that the community module's sum chooses.
SumFcn(f, S) == CHOOSE g : SumsUp(f, S, g)

\* A sum as the community modules define it.
LEMMA SumUnfold ==
    ASSUME NEW f, NEW S
    PROVE  SumFunctionOnSet(f, S) = SumFcn(f, S)[S]
  BY DEF SumFunctionOnSet, FoldFunctionOnSet, MapThenFoldSet, SumFcn, SumsUp, Any

\* What is left after an element is taken out is smaller.
LEMMA AnyMember == \A s : s # {} => Any(s) \in s /\ s \ {Any(s)} # s
  BY DEF Any

\* The value of such a function at a set.
LEMMA SumsUpAt ==
    ASSUME NEW f, NEW S, NEW g, SumsUp(f, S, g), NEW s \in SUBSET S
    PROVE  g[s] = IF s = {} THEN 0 ELSE f[Any(s)] + g[s \ {Any(s)}]
  BY DEF SumsUp

\* Such functions agree wherever both are defined.
LEMMA SumsUpAgree ==
    ASSUME NEW f, NEW S, NEW T, IsFiniteSet(S), NEW g, NEW h,
           SumsUp(f, S, g), SumsUp(f, T, h), NEW s \in SUBSET S, s \subseteq T
    PROVE  g[s] = h[s]
  <1>. DEFINE B == {t \in SUBSET S : t \subseteq T /\ g[t] # h[t]}
  <1>1. SUFFICES ASSUME B # {} PROVE FALSE
    OBVIOUS
  <1>2. B \in SUBSET (SUBSET S)
    OBVIOUS
  <1>3. PICK m \in B : \A t \in B : t \subseteq m => t = m
    <2>. HIDE DEF B
    <2>. QED  BY <1>1, <1>2, SmallestSubset
  <1>4. /\ g[m] = IF m = {} THEN 0 ELSE f[Any(m)] + g[m \ {Any(m)}]
        /\ h[m] = IF m = {} THEN 0 ELSE f[Any(m)] + h[m \ {Any(m)}]
    <2>1. m \in SUBSET S /\ m \in SUBSET T
      BY <1>3
    <2>. HIDE DEF B
    <2>2. g[m] = IF m = {} THEN 0 ELSE f[Any(m)] + g[m \ {Any(m)}]
      BY <2>1, SumsUpAt, SMTT(30)
    <2>3. h[m] = IF m = {} THEN 0 ELSE f[Any(m)] + h[m \ {Any(m)}]
      BY <2>1, SumsUpAt, SMTT(30)
    <2>. QED  BY <2>2, <2>3
  <1>5. m # {}
    BY <1>3, <1>4
  <1>6. m \ {Any(m)} \notin B
    BY <1>3, <1>5, AnyMember
  <1>. QED  BY <1>3, <1>4, <1>5, <1>6

\* There is one for every finite set.
LEMMA SumsUpExists ==
    ASSUME NEW f, NEW S, IsFiniteSet(S)
    PROVE  SumsUp(f, S, SumFcn(f, S))
  <1>. DEFINE B == {s \in SUBSET S : ~ SumsUp(f, s, SumFcn(f, s))}
  <1>1. SUFFICES ASSUME B # {} PROVE FALSE
    BY DEF SumFcn
  <1>2. B \in SUBSET (SUBSET S)
    OBVIOUS
  <1>3. PICK m \in B : \A t \in B : t \subseteq m => t = m
    <2>. HIDE DEF B
    <2>. QED  BY <1>1, <1>2, SmallestSubset
  <1>. DEFINE H(s) == SumFcn(f, s)[s]
              g == [s \in SUBSET m |-> IF s = {} THEN 0 ELSE f[Any(s)] + H(s \ {Any(s)})]
  <1>4. ASSUME NEW u \in SUBSET m, u # m PROVE SumsUp(f, u, SumFcn(f, u)) /\ IsFiniteSet(u)
    BY <1>3, <1>4, FS_Subset
  <1>5. ASSUME NEW u \in SUBSET m, u # m PROVE g[u] = H(u)
    <2>1. H(u) = IF u = {} THEN 0 ELSE f[Any(u)] + SumFcn(f, u)[u \ {Any(u)}]
      BY <1>4, <1>5, SumsUpAt
    <2>2. ASSUME u # {} PROVE SumFcn(f, u)[u \ {Any(u)}] = H(u \ {Any(u)})
      <3>. DEFINE v == u \ {Any(u)}
      <3>1. v \in SUBSET m /\ v # m /\ v \in SUBSET u
        BY <1>5, <2>2, AnyMember
      <3>2. SumsUp(f, v, SumFcn(f, v)) /\ SumsUp(f, u, SumFcn(f, u)) /\ IsFiniteSet(u)
        BY <1>4, <1>5, <3>1
      <3>. HIDE DEF v
      <3>3. SumFcn(f, u)[v] = SumFcn(f, v)[v]
        BY <3>1, <3>2, SumsUpAgree
      <3>. QED  BY <3>3 DEF v
    <2>. QED  BY <2>1, <2>2
  <1>6. ASSUME NEW s \in SUBSET m
        PROVE  g[s] = IF s = {} THEN 0 ELSE f[Any(s)] + g[s \ {Any(s)}]
    <2>1. s # {} => s \ {Any(s)} \in SUBSET m /\ s \ {Any(s)} # m
      BY AnyMember
    <2>. QED  BY <1>5, <2>1
  <1>7. g = [s \in SUBSET m |-> IF s = {} THEN 0 ELSE f[Any(s)] + g[s \ {Any(s)}]]
    <2>. HIDE DEF H
    <2>1. [s \in SUBSET m |-> g[s]] = [s \in SUBSET m |-> IF s = {} THEN 0 ELSE f[Any(s)] + g[s \ {Any(s)}]]
      BY <1>6
    <2>. QED  BY <2>1
  <1>8. SumsUp(f, m, g)
    <2>. HIDE DEF g
    <2>. QED  BY <1>7 DEF SumsUp
  <1>9. SumsUp(f, m, SumFcn(f, m))
    BY <1>8 DEF SumFcn
  <1>. QED  BY <1>3, <1>9

\* A sum is an element plus the sum of the others.
LEMMA SumEquation ==
    ASSUME NEW f, NEW S, IsFiniteSet(S)
    PROVE  SumFunctionOnSet(f, S) =
               IF S = {} THEN 0 ELSE f[Any(S)] + SumFunctionOnSet(f, S \ {Any(S)})
  <1>. DEFINE T == S \ {Any(S)}
  <1>1. SumFcn(f, S)[S] = IF S = {} THEN 0 ELSE f[Any(S)] + SumFcn(f, S)[T]
    <2>1. SumsUp(f, S, SumFcn(f, S)) /\ S \in SUBSET S
      BY SumsUpExists
    <2>. QED  BY <2>1, SumsUpAt
  <1>2. IsFiniteSet(T) /\ T \in SUBSET S
    BY FS_RemoveElement
  <1>. HIDE DEF T
  <1>3. SumFcn(f, S)[T] = SumFcn(f, T)[T]
    <2>1. SumsUp(f, S, SumFcn(f, S)) /\ SumsUp(f, T, SumFcn(f, T))
      BY <1>2, SumsUpExists
    <2>2. T \in SUBSET S /\ T \subseteq T
      BY <1>2
    <2>. QED  BY <2>1, <2>2, SumsUpAgree
  <1>. QED  BY <1>1, <1>3, SumUnfold DEF T

\* The sum of integers is an integer.
LEMMA SumType ==
    ASSUME NEW S, IsFiniteSet(S), NEW f, \A x \in S : f[x] \in Int
    PROVE  SumFunctionOnSet(f, S) \in Int
  <1>. DEFINE B == {s \in SUBSET S : SumFunctionOnSet(f, s) \notin Int}
  <1>1. SUFFICES ASSUME B # {} PROVE FALSE
    OBVIOUS
  <1>2. B \in SUBSET (SUBSET S)
    OBVIOUS
  <1>3. PICK m \in B : \A t \in B : t \subseteq m => t = m
    <2>. HIDE DEF B
    <2>. QED  BY <1>1, <1>2, SmallestSubset
  <1>4. IsFiniteSet(m)
    BY <1>3, FS_Subset
  <1>5. SumFunctionOnSet(f, m) = IF m = {} THEN 0 ELSE f[Any(m)] + SumFunctionOnSet(f, m \ {Any(m)})
    BY <1>4, SumEquation
  <1>6. m # {}
    BY <1>3, <1>5
  <1>7. m \ {Any(m)} \notin B /\ Any(m) \in S
    BY <1>3, <1>6, AnyMember
  <1>8. SumFunctionOnSet(f, m \ {Any(m)}) \in Int /\ f[Any(m)] \in Int
    BY <1>3, <1>7
  <1>. QED  BY <1>3, <1>5, <1>6, <1>8

\* Any element may be added last: the order does not matter.
LEMMA SumRemove ==
    ASSUME NEW S, IsFiniteSet(S), NEW f, \A x \in S : f[x] \in Int, NEW c \in S
    PROVE  SumFunctionOnSet(f, S) = f[c] + SumFunctionOnSet(f, S \ {c})
  <1>. DEFINE Sum(s) == SumFunctionOnSet(f, s)
              B == {s \in SUBSET S : \E d \in s : Sum(s) # f[d] + Sum(s \ {d})}
  <1>1. SUFFICES ASSUME B # {} PROVE FALSE
    OBVIOUS
  <1>2. B \in SUBSET (SUBSET S)
    OBVIOUS
  <1>3. PICK m \in B : \A t \in B : t \subseteq m => t = m
    <2>. HIDE DEF B
    <2>. QED  BY <1>1, <1>2, SmallestSubset
  <1>4. \A s \in SUBSET S : IsFiniteSet(s) /\ Sum(s) \in Int
    BY SumType, FS_Subset
  <1>5. PICK d \in m : Sum(m) # f[d] + Sum(m \ {d})
    BY <1>3
  <1>. DEFINE a == Any(m)
  <1>6. a \in m
    BY <1>5, AnyMember
  <1>7. Sum(m) = f[a] + Sum(m \ {a})
    BY <1>3, <1>4, <1>5, SumEquation
  <1>. HIDE DEF a, Sum
  <1>8. a # d
    BY <1>5, <1>7
  <1>9. m \ {a} \notin B /\ m \ {d} \notin B
    BY <1>3, <1>5, <1>6
  <1>10. Sum(m \ {a}) = f[d] + Sum((m \ {a}) \ {d})
    BY <1>3, <1>5, <1>8, <1>9
  <1>11. Sum(m \ {d}) = f[a] + Sum((m \ {d}) \ {a})
    BY <1>3, <1>6, <1>8, <1>9
  <1>12. /\ f[a] \in Int /\ f[d] \in Int
         /\ Sum((m \ {a}) \ {d}) \in Int
    BY <1>3, <1>4, <1>5, <1>6
  <1>13. (m \ {a}) \ {d} = (m \ {d}) \ {a}
    OBVIOUS
  <1>14. Sum(m \ {d}) = f[a] + Sum((m \ {a}) \ {d})
    BY <1>11, <1>13, Zenon
  <1>. QED  BY <1>5, <1>7, <1>10, <1>12, <1>14

\* The sum depends on the values at the elements only.
LEMMA SumAgree ==
    ASSUME NEW S, IsFiniteSet(S), NEW f, NEW g, \A x \in S : f[x] = g[x]
    PROVE  SumFunctionOnSet(f, S) = SumFunctionOnSet(g, S)
  <1>. DEFINE B == {s \in SUBSET S : SumFunctionOnSet(f, s) # SumFunctionOnSet(g, s)}
  <1>1. SUFFICES ASSUME B # {} PROVE FALSE
    OBVIOUS
  <1>2. B \in SUBSET (SUBSET S)
    OBVIOUS
  <1>3. PICK m \in B : \A t \in B : t \subseteq m => t = m
    <2>. HIDE DEF B
    <2>. QED  BY <1>1, <1>2, SmallestSubset
  <1>4. IsFiniteSet(m)
    BY <1>3, FS_Subset
  <1>5. /\ SumFunctionOnSet(f, m) = IF m = {} THEN 0 ELSE f[Any(m)] + SumFunctionOnSet(f, m \ {Any(m)})
        /\ SumFunctionOnSet(g, m) = IF m = {} THEN 0 ELSE g[Any(m)] + SumFunctionOnSet(g, m \ {Any(m)})
    BY <1>4, SumEquation
  <1>6. m # {}
    BY <1>3, <1>5
  <1>7. m \ {Any(m)} \notin B /\ Any(m) \in S
    BY <1>3, <1>6, AnyMember
  <1>. QED  BY <1>3, <1>5, <1>6, <1>7

\* When one value changes the sum changes by as much.
LEMMA SumChange ==
    ASSUME NEW S, IsFiniteSet(S), NEW f, NEW g, NEW c \in S,
           \A x \in S : f[x] \in Int /\ g[x] \in Int,
           \A x \in S \ {c} : f[x] = g[x]
    PROVE  SumFunctionOnSet(g, S) = SumFunctionOnSet(f, S) + (g[c] - f[c])
  <1>1. IsFiniteSet(S \ {c})
    BY FS_RemoveElement
  <1>2. SumFunctionOnSet(f, S \ {c}) = SumFunctionOnSet(g, S \ {c})
    BY <1>1, SumAgree
  <1>3. /\ SumFunctionOnSet(f, S) = f[c] + SumFunctionOnSet(f, S \ {c})
        /\ SumFunctionOnSet(g, S) = g[c] + SumFunctionOnSet(g, S \ {c})
    BY SumRemove
  <1>4. SumFunctionOnSet(f, S \ {c}) \in Int
    BY <1>1, SumType
  <1>. QED  BY <1>2, <1>3, <1>4

-----------------------------------------------------------------------------
(* The collector's state. *)

\* What is counted and reported as growth since the last collection.
Growing == {"operations", "errors"}

\* The states the counters, the map and the collection can be in.
TypeInv ==
    /\ now \in Nat
    /\ IsFiniteSet(Entries) /\ start \in [Entries -> Nat]
    /\ counters \in [Cpu -> [Counter -> Int]]
    /\ reading \in [cpus : SUBSET Cpu, sum : [Counter -> Int], active : BOOLEAN]
    /\ previous \in [Counter -> Int]
    /\ evicted \in Nat /\ overwritten \in Nat
    /\ done \in [Growing -> Nat]
    /\ reported \in [Growing -> Int] /\ lost \in [Growing -> Int]

\* The values of a completion's counters are integers.
LEMMA CompletedType ==
    ASSUME TypeInv, NEW n \in [Counter -> Int], NEW k, NEW failed \in BOOLEAN
    PROVE  /\ Completed(n, k, failed) \in [Counter -> Int]
           /\ Completed(n, k, failed)["operations"] = n["operations"] + (IF failed THEN 0 ELSE 1)
           /\ Completed(n, k, failed)["errors"] = n["errors"] + (IF failed THEN 1 ELSE 0)
           /\ Completed(n, k, failed)["inflight"] =
                  n["inflight"] - (IF k \in Entries THEN 1 ELSE 0)
  <1>. DEFINE matched == Matched(n, k)
  <1>2. /\ matched \in [Counter -> Int]
        /\ matched["operations"] = n["operations"] /\ matched["errors"] = n["errors"]
        /\ matched["inflight"] = n["inflight"] - (IF k \in Entries THEN 1 ELSE 0)
    <2>1. CASE k \in Entries
      <3>1. matched = [n EXCEPT !.latency = @ + (now - start[k]), !.inflight = @ - 1]
        BY <2>1 DEF Matched
      <3>2. n["latency"] \in Int /\ n["inflight"] \in Int /\ now \in Int /\ start[k] \in Int
        BY <2>1 DEF Counter, TypeInv
      <3>. HIDE DEF matched
      <3>3. matched["inflight"] = n["inflight"] - 1
        BY <3>1 DEF Counter
      <3>4. matched["operations"] = n["operations"] /\ matched["errors"] = n["errors"]
        BY <3>1 DEF Counter
      <3>5. matched \in [Counter -> Int]
        <4>1. n["latency"] + (now - start[k]) \in Int /\ n["inflight"] - 1 \in Int
          BY <3>2
        <4>2. matched = [x \in Counter |-> IF x = "inflight" THEN n["inflight"] - 1
                                           ELSE IF x = "latency" THEN n["latency"] + (now - start[k])
                                           ELSE n[x]]
          BY <3>1
        <4>. QED  BY <4>1, <4>2
      <3>. QED  BY <2>1, <3>3, <3>4, <3>5
    <2>2. CASE k \notin Entries
      BY <2>2 DEF Matched, Counter
    <2>. QED  BY <2>1, <2>2
  <1>3. Completed(n, k, failed) = IF failed THEN [matched EXCEPT !.errors = @ + 1]
                                  ELSE [matched EXCEPT !.operations = @ + 1]
    BY DEF Completed
  <1>. HIDE DEF matched
  <1>. QED  BY <1>2, <1>3 DEF Counter

\* An issue that is counted.
Counted(extent, c) ==
    /\ start' \in Stored(IssueKey(extent))
    /\ counters' = [counters EXCEPT ![c].inflight = @ + 1]
    /\ evicted' = evicted + Cardinality(Entries \ DOMAIN start')
    /\ overwritten' = overwritten + (IF IssueKey(extent) \in Entries THEN 1 ELSE 0)

\* A counted issue has a start time in the map, puts out one other at most, and
\* evicted and overwritten grow by as much as the map does not.
LEMMA IssueStores ==
    ASSUME TypeInv, NEW extent, NEW c \in Cpu, Counted(extent, c)
    PROVE  /\ IsFiniteSet(Entries') /\ start' \in [Entries' -> Nat]
           /\ evicted' \in Nat /\ overwritten' \in Nat
           /\ Cardinality(Entries') + evicted' + overwritten' =
                  Cardinality(Entries) + evicted + overwritten + 1
  <1>. DEFINE k == IssueKey(extent)
  <1>. HIDE DEF k
  <1>1. /\ now \in Nat /\ start \in [Entries -> Nat] /\ IsFiniteSet(Entries)
        /\ evicted \in Nat /\ overwritten \in Nat
        /\ evicted' = evicted + Cardinality(Entries \ Entries')
        /\ overwritten' = overwritten + (IF k \in Entries THEN 1 ELSE 0)
        /\ start' \in Stored(k)
    BY DEF TypeInv, Counted, Entries, k
  <1>2. \A ks : ks \subseteq Entries => /\ StoredWith(k, ks) \in [ks \cup {k} -> Nat]
                                        /\ DOMAIN StoredWith(k, ks) = ks \cup {k}
    BY <1>1 DEF StoredWith
  <1>3. Cardinality(Entries) \in Nat
    BY <1>1, FS_CardinalityType
  <1>4. CASE k \in Entries
    <2>1. start' = StoredWith(k, Entries)
      BY <1>1, <1>4 DEF Stored
    <2>2. Entries' = Entries /\ start' \in [Entries' -> Nat]
      BY <1>2, <1>4, <2>1 DEF Entries
    <2>3. Cardinality(Entries \ Entries') = 0
      BY <2>2, FS_EmptySet
    <2>. QED  BY <1>1, <1>3, <1>4, <2>2, <2>3
  <1>5. CASE k \notin Entries /\ start' = StoredWith(k, Entries)
    <2>1. Entries' = Entries \cup {k} /\ start' \in [Entries' -> Nat]
      BY <1>2, <1>5 DEF Entries
    <2>2. IsFiniteSet(Entries') /\ Cardinality(Entries') = Cardinality(Entries) + 1
      BY <1>1, <1>5, <2>1, FS_AddElement
    <2>3. Cardinality(Entries \ Entries') = 0
      BY <2>1, FS_EmptySet
    <2>. QED  BY <1>1, <1>3, <1>5, <2>1, <2>2, <2>3
  <1>6. ASSUME k \notin Entries, NEW e \in Entries, start' = StoredWith(k, Entries \ {e})
        PROVE  /\ IsFiniteSet(Entries') /\ start' \in [Entries' -> Nat]
               /\ Cardinality(Entries') = Cardinality(Entries)
               /\ Cardinality(Entries \ Entries') = 1
    <2>1. Entries' = (Entries \ {e}) \cup {k} /\ start' \in [Entries' -> Nat]
      BY <1>2, <1>6 DEF Entries
    <2>2. IsFiniteSet(Entries \ {e}) /\ Cardinality(Entries \ {e}) = Cardinality(Entries) - 1
      BY <1>1, FS_RemoveElement
    <2>3. /\ IsFiniteSet(Entries')
          /\ Cardinality(Entries') = Cardinality(Entries \ {e}) + 1
      BY <1>6, <2>1, <2>2, FS_AddElement
    <2>4. Entries \ Entries' = {e}
      BY <1>6, <2>1
    <2>5. Cardinality(Entries \ Entries') = 1
      BY <2>4, FS_Singleton
    <2>. QED  BY <1>3, <2>1, <2>2, <2>3, <2>5
  <1>7. CASE k \notin Entries /\ \E e \in Entries : start' = StoredWith(k, Entries \ {e})
    BY <1>1, <1>3, <1>6, <1>7
  <1>. QED  BY <1>1, <1>4, <1>5, <1>7 DEF Stored

\* A completion that is not ignored.
Seen(k, c, failed) ==
    /\ counters' = [counters EXCEPT ![c] = Completed(@, k, failed)]
    /\ start' = [j \in Entries \ {k} |-> start[j]]
    /\ done' = [done EXCEPT ![IF failed THEN "errors" ELSE "operations"] = @ + 1]
    /\ UNCHANGED <<evicted, overwritten>>

\* Every step of the requests, of any size, is one of these for the programs.
LEMMA RequestSteps ==
    ASSUME NEW r \in Request, NEW c \in Cpu,
           \/ \E extent \in Extent : Issue(r, extent, c)
           \/ Reissue(r, c)
           \/ \E sectors \in 0..MaxSectors, failed \in BOOLEAN : Complete(r, sectors, c, failed)
    PROVE  /\ UNCHANGED <<now, userVars>>
           /\ \/ UNCHANGED <<bpfVars, evicted, overwritten, done>>
              \/ \E extent : Counted(extent, c) /\ UNCHANGED done
              \/ \E failed \in BOOLEAN : \E k : Seen(k, c, failed)
  <1>1. ASSUME NEW extent, AccountIssue(extent, c)
        PROVE  UNCHANGED <<bpfVars, evicted, overwritten>> \/ Counted(extent, c)
    BY <1>1 DEF AccountIssue, Counted
  <1>2. ASSUME NEW extent, Issue(r, extent, c)
        PROVE  AccountIssue(extent, c) /\ UNCHANGED <<now, userVars, done>>
    BY <1>2 DEF Issue
  <1>3. ASSUME Reissue(r, c) PROVE AccountIssue(flight[r], c) /\ UNCHANGED <<now, userVars, done>>
    BY <1>3 DEF Reissue
  <1>4. ASSUME NEW sectors \in 0..MaxSectors, NEW failed \in BOOLEAN,
               Complete(r, sectors, c, failed)
        PROVE  /\ UNCHANGED <<now, userVars>>
               /\ \/ UNCHANGED <<bpfVars, evicted, overwritten, done>>
                  \/ Seen(CompleteKey(flight[r], sectors), c, failed)
    BY <1>4 DEF Complete, Seen
  <1>5. CASE \E extent \in Extent : Issue(r, extent, c)
    <2>1. PICK extent \in Extent : Issue(r, extent, c)
      BY <1>5
    <2>. QED  BY <1>1, <1>2, <2>1
  <1>6. CASE Reissue(r, c)
    <2>. DEFINE extent == flight[r]
    <2>1. AccountIssue(extent, c) /\ UNCHANGED <<now, userVars, done>>
      BY <1>3, <1>6
    <2>. HIDE DEF extent
    <2>. QED  BY <1>1, <2>1
  <1>7. CASE \E sectors \in 0..MaxSectors, failed \in BOOLEAN : Complete(r, sectors, c, failed)
    <2>1. PICK sectors \in 0..MaxSectors, failed \in BOOLEAN : Complete(r, sectors, c, failed)
      BY <1>7
    <2>. DEFINE k == CompleteKey(flight[r], sectors)
    <2>2. /\ UNCHANGED <<now, userVars>>
          /\ UNCHANGED <<bpfVars, evicted, overwritten, done>> \/ Seen(k, c, failed)
      BY <1>4, <2>1
    <2>. HIDE DEF k
    <2>. QED  BY <2>2
  <1>. QED  BY <1>5, <1>6, <1>7

\* So is every other step: it leaves the programs alone.
LEMMA NextSteps ==
    ASSUME [Next]_vars
    PROVE  \/ UNCHANGED <<start, counters, evicted, overwritten, done>>
           \/ \E c \in Cpu : \E extent : Counted(extent, c) /\ UNCHANGED done
           \/ \E c \in Cpu, failed \in BOOLEAN : \E k : Seen(k, c, failed)
  <1>1. \/ UNCHANGED <<start, counters, evicted, overwritten, done>>
        \/ \E r \in Request, c \in Cpu :
               \/ \E extent \in Extent : Issue(r, extent, c)
               \/ Reissue(r, c)
               \/ \E sectors \in 0..MaxSectors, failed \in BOOLEAN :
                      Complete(r, sectors, c, failed)
    BY DEF Next, Tick, CollectBegin, ReadCpu, CollectEnd, CollectFails, CollectDropped, vars,
           bpfVars, histVars
  <1>. QED  BY <1>1, RequestSteps DEF bpfVars

\* The initial state has the types.
LEMMA InitType == Init => TypeInv
  BY FS_EmptySet DEF Init, TypeInv, Entries, Growing, Idle, Zero, Counter

\* Every step keeps the types.
LEMMA NextType == TypeInv /\ [Next]_vars => TypeInv'
  <1>. SUFFICES ASSUME TypeInv, [Next]_vars PROVE TypeInv'
    OBVIOUS
  <1>. USE DiskAssumption DEF TypeInv
  <1>1. CASE Tick
    BY <1>1 DEF Tick, bpfVars, userVars, histVars, Entries
  <1>2. ASSUME UNCHANGED <<now, userVars>>, NEW c \in Cpu, NEW extent, Counted(extent, c),
               UNCHANGED done
        PROVE  TypeInv'
    <2>1. counters' \in [Cpu -> [Counter -> Int]]
      BY <1>2 DEF Counted, Counter
    <2>. QED  BY <1>2, <2>1, IssueStores DEF userVars
  <1>3. ASSUME UNCHANGED <<now, userVars>>, NEW c \in Cpu, NEW k, NEW failed \in BOOLEAN,
               Seen(k, c, failed)
        PROVE  TypeInv'
    <2>1. counters' \in [Cpu -> [Counter -> Int]]
      BY <1>3, CompletedType DEF Seen
    <2>2. done' \in [Growing -> Nat]
      BY <1>3 DEF Seen, Growing
    <2>3. Entries' = Entries \ {k} /\ start' \in [Entries' -> Nat]
      BY <1>3 DEF Seen, Entries
    <2>4. IsFiniteSet(Entries')
      BY <2>3, FS_Subset
    <2>. QED  BY <1>3, <2>1, <2>2, <2>3, <2>4 DEF Seen, userVars
  <1>12. ASSUME UNCHANGED <<now, userVars, bpfVars, evicted, overwritten, done>> PROVE TypeInv'
    BY <1>12 DEF userVars, bpfVars, Entries
  <1>13. ASSUME NEW r \in Request, NEW c \in Cpu,
                \/ \E extent \in Extent : Issue(r, extent, c)
                \/ Reissue(r, c)
                \/ \E sectors \in 0..MaxSectors, failed \in BOOLEAN :
                       Complete(r, sectors, c, failed)
         PROVE  TypeInv'
    <2>. HIDE DEF TypeInv
    <2>. QED  BY <1>2, <1>3, <1>12, <1>13, RequestSteps, Zenon
  <1>4. CASE CollectBegin
    BY <1>4 DEF CollectBegin, bpfVars, Zero, Entries
  <1>5. ASSUME NEW c \in Cpu, ReadCpu(c) PROVE TypeInv'
    <2>1. counters[c] \in [Counter -> Int]
      OBVIOUS
    <2>2. reading' \in [cpus : SUBSET Cpu, sum : [Counter -> Int], active : BOOLEAN]
      <3>1. reading' = [cpus |-> reading.cpus \ {c}, active |-> reading.active,
                        sum |-> [x \in Counter |-> reading.sum[x] + counters[c][x]]]
        BY <1>5 DEF ReadCpu
      <3>2. \A x \in Counter : reading.sum[x] + counters[c][x] \in Int
        BY <2>1
      <3>. QED  BY <3>1, <3>2
    <2>. QED  BY <1>5, <2>2 DEF ReadCpu, bpfVars, histVars, Entries
  <1>6. Growth \in [Growing -> Int]
    BY DEF Growth, Saturating, Growing, Counter
  <1>7. Plus(reported, Growth) \in [Growing -> Int] /\ Plus(lost, Growth) \in [Growing -> Int]
    BY <1>6 DEF Plus
  <1>8. CASE CollectEnd
    BY <1>7, <1>8 DEF CollectEnd, bpfVars, histVars, Idle, NewPrevious, Zero, Entries
  <1>9. CASE CollectFails
    BY <1>9 DEF CollectFails, bpfVars, histVars, Idle, Zero, Entries
  <1>10. CASE CollectDropped
    BY <1>7, <1>10 DEF CollectDropped, bpfVars, histVars, Idle, NewPrevious, Zero, Entries
  <1>11. CASE UNCHANGED vars
    BY <1>11 DEF vars, bpfVars, userVars, histVars, Entries
  <1>. QED  BY <1>1, <1>4, <1>5, <1>8, <1>9, <1>10, <1>11, <1>13 DEF Next

-----------------------------------------------------------------------------
(* Completions. *)

\* Counter x of the per-CPU values cs, summed over the CPUs of S.
SumOf(cs, S, x) == SumFunctionOnSet([c \in Cpu |-> cs[c][x]], S)

\* Sums of integers are integers.
LEMMA SumOfType ==
    ASSUME NEW cs, NEW S \in SUBSET Cpu, NEW x, \A d \in Cpu : cs[d][x] \in Int
    PROVE  SumOf(cs, S, x) \in Int
  <1>. DEFINE f == [d \in Cpu |-> cs[d][x]]
  <1>1. \A d \in S : f[d] \in Int
    OBVIOUS
  <1>2. IsFiniteSet(S)
    BY DiskAssumption, FS_Subset
  <1>. HIDE DEF f
  <1>3. SumFunctionOnSet(f, S) \in Int
    BY <1>1, <1>2, SumType
  <1>. QED  BY <1>3 DEF SumOf, f

\* What other CPUs count does not change a sum.
LEMMA SumOfSame ==
    ASSUME NEW cs, NEW ds, NEW S \in SUBSET Cpu, NEW x, \A d \in S : cs[d][x] = ds[d][x]
    PROVE  SumOf(ds, S, x) = SumOf(cs, S, x)
  <1>. DEFINE f == [d \in Cpu |-> cs[d][x]]
              g == [d \in Cpu |-> ds[d][x]]
  <1>1. \A d \in S : f[d] = g[d]
    OBVIOUS
  <1>2. IsFiniteSet(S)
    BY DiskAssumption, FS_Subset
  <1>. HIDE DEF f, g
  <1>3. SumFunctionOnSet(f, S) = SumFunctionOnSet(g, S)
    BY <1>1, <1>2, SumAgree
  <1>. QED  BY <1>3 DEF SumOf, f, g

\* From cs to ds, CPU c adds n to counter x and the other CPUs of S nothing.
Adds(cs, ds, S, x, c, n) ==
    /\ \A d \in Cpu : cs[d][x] \in Int
    /\ c \in S /\ S \subseteq Cpu /\ n \in Int
    /\ ds[c][x] = cs[c][x] + n
    /\ \A d \in S \ {c} : ds[d][x] = cs[d][x]

\* Then so does the sum.
LEMMA SumOfStep ==
    ASSUME NEW cs, NEW ds, NEW S, NEW x, NEW c, NEW n, Adds(cs, ds, S, x, c, n)
    PROVE  SumOf(ds, S, x) = SumOf(cs, S, x) + n
  <1>. DEFINE f == [d \in Cpu |-> cs[d][x]]
              g == [d \in Cpu |-> ds[d][x]]
  <1>1. \A d \in S : f[d] \in Int /\ g[d] \in Int
    BY DEF Adds
  <1>2. \A d \in S \ {c} : f[d] = g[d]
    BY DEF Adds
  <1>3. g[c] - f[c] = n /\ c \in S
    BY DEF Adds
  <1>4. IsFiniteSet(S)
    BY DiskAssumption, FS_Subset DEF Adds
  <1>5. SumOf(ds, S, x) = SumFunctionOnSet(g, S) /\ SumOf(cs, S, x) = SumFunctionOnSet(f, S)
    BY DEF SumOf
  <1>. HIDE DEF f, g
  <1>6. SumFunctionOnSet(g, S) = SumFunctionOnSet(f, S) + (g[c] - f[c])
    BY <1>1, <1>2, <1>3, <1>4, SumChange
  <1>. QED  BY <1>3, <1>5, <1>6

\* Zeros sum to zero.
LEMMA SumOfZero ==
    ASSUME NEW x \in Counter
    PROVE  SumOf([c \in Cpu |-> Zero], Cpu, x) = 0
  <1>. DEFINE f == [c \in Cpu |-> [d \in Cpu |-> Zero][c][x]]
              B == {S \in SUBSET Cpu : SumFunctionOnSet(f, S) # 0}
  <1>1. \A c \in Cpu : f[c] = 0
    BY DEF Zero
  <1>. HIDE DEF f
  <1>2. SUFFICES ASSUME B # {} PROVE FALSE
    BY DEF SumOf, f
  <1>3. B \in SUBSET (SUBSET Cpu)
    OBVIOUS
  <1>4. PICK m \in B : \A t \in B : t \subseteq m => t = m
    <2>. HIDE DEF B
    <2>. QED  BY <1>2, <1>3, DiskAssumption, SmallestSubset
  <1>5. IsFiniteSet(m)
    BY <1>4, DiskAssumption, FS_Subset
  <1>6. SumFunctionOnSet(f, m) =
            IF m = {} THEN 0 ELSE f[Any(m)] + SumFunctionOnSet(f, m \ {Any(m)})
    BY <1>5, SumEquation
  <1>7. m # {}
    BY <1>4, <1>6
  <1>8. m \ {Any(m)} \notin B /\ Any(m) \in Cpu
    BY <1>4, <1>7, AnyMember
  <1>. QED  BY <1>1, <1>4, <1>6, <1>7, <1>8

\* Issuing adds one to the sum of the gauges that has the CPU.
LEMMA IssueSums ==
    ASSUME TypeInv, NEW extent, NEW c \in Cpu, Counted(extent, c), NEW x \in Counter
    PROVE  \A d \in Cpu :
               counters'[d][x] = counters[d][x] + (IF d = c THEN IF x = "inflight" THEN 1 ELSE 0
                                                   ELSE 0)
  <1>1. counters \in [Cpu -> [Counter -> Int]] /\ counters[c] \in [Counter -> Int]
    BY DEF TypeInv
  <1>2. counters' = [counters EXCEPT ![c] = [counters[c] EXCEPT !["inflight"] = @ + 1]]
    BY DEF Counted
  <1>. QED  BY <1>1, <1>2

\* A completion adds one to one of two sums.
LEMMA CompleteSums ==
    ASSUME TypeInv, NEW k, NEW c \in Cpu, NEW failed \in BOOLEAN, Seen(k, c, failed)
    PROVE  /\ \A x \in Growing : done'[x] - done[x] \in {0, 1}
           /\ \A x \in Growing, d \in Cpu :
                 counters'[d][x] = counters[d][x] + (IF d = c THEN done'[x] - done[x] ELSE 0)
           /\ \A d \in Cpu :
                 counters'[d]["inflight"] = counters[d]["inflight"]
                     + (IF d = c THEN IF k \in Entries THEN -1 ELSE 0 ELSE 0)
  <1>. DEFINE n == Completed(counters[c], k, failed)
  <1>1. /\ counters \in [Cpu -> [Counter -> Int]] /\ counters[c] \in [Counter -> Int]
    BY DEF TypeInv
  <1>2. n \in [Counter -> Int]
        /\ n["operations"] = counters[c]["operations"] + (IF failed THEN 0 ELSE 1)
        /\ n["errors"] = counters[c]["errors"] + (IF failed THEN 1 ELSE 0)
        /\ n["inflight"] = counters[c]["inflight"] - (IF k \in Entries THEN 1 ELSE 0)
    BY <1>1, CompletedType
  <1>3. counters' = [counters EXCEPT ![c] = n]
    BY DEF Seen
  <1>. HIDE DEF n
  <1>4. \A x \in Counter, d \in Cpu : counters[d][x] \in Int
    BY <1>1
  <1>5. /\ done'["operations"] = done["operations"] + (IF failed THEN 0 ELSE 1)
        /\ done'["errors"] = done["errors"] + (IF failed THEN 1 ELSE 0)
        /\ done["operations"] \in Nat /\ done["errors"] \in Nat
    BY DEF Seen, TypeInv, Growing
  <1>6. counters'[c] = n /\ \A d \in Cpu \ {c} : counters'[d] = counters[d]
    BY <1>1, <1>3
  <1>7. \A x \in Growing : done'[x] - done[x] \in {0, 1}
                            /\ n[x] = counters[c][x] + (done'[x] - done[x])
    BY <1>2, <1>4, <1>5 DEF Growing, Counter
  <1>8. \A x \in Growing, d \in Cpu :
            counters'[d][x] = counters[d][x] + (IF d = c THEN done'[x] - done[x] ELSE 0)
    BY <1>4, <1>6, <1>7 DEF Growing, Counter
  <1>9. \A d \in Cpu :
            counters'[d]["inflight"] = counters[d]["inflight"]
                + (IF d = c THEN IF k \in Entries THEN -1 ELSE 0 ELSE 0)
    BY <1>2, <1>4, <1>6 DEF Counter
  <1>. QED  BY <1>7, <1>8, <1>9

\* What any step adds to a sum of completions over some CPUs: no more than
\* what completes in the step, and all of it over all the CPUs.
LEMMA NextSums ==
    ASSUME TypeInv, [Next]_vars, NEW S \in SUBSET Cpu, NEW x \in Growing
    PROVE  LET was == SumOf(counters, S, x)
               is == SumOf(counters', S, x)
               completed == done'[x] - done[x]
           IN  /\ was \in Int /\ is \in Int /\ completed \in Nat
               /\ was <= is /\ is <= was + completed
               /\ S = Cpu => is = was + completed
  <1>1. x \in Counter /\ x # "inflight"
    BY DEF Growing, Counter
  <1>2. \A d \in Cpu : counters[d][x] \in Int
    BY <1>1 DEF TypeInv
  <1>3. SumOf(counters, S, x) \in Int /\ done[x] \in Nat
    BY <1>2, SumOfType DEF TypeInv
  <1>. DEFINE Goal(by) == /\ by \in {0, 1}
                          /\ done'[x] = done[x] + by
                          /\ \E part \in {0, by} :
                                 /\ SumOf(counters', S, x) = SumOf(counters, S, x) + part
                                 /\ S = Cpu => part = by
  <1>4. CASE UNCHANGED <<counters, done>>
    <2>1. Goal(0)
      BY <1>3, <1>4
    <2>. QED  BY <1>3, <2>1
  <1>5. ASSUME NEW extent, NEW c \in Cpu, Counted(extent, c), UNCHANGED done PROVE Goal(0)
    <2>1. \A d \in Cpu : counters'[d][x] = counters[d][x]
      BY <1>1, <1>2, <1>5, IssueSums
    <2>2. SumOf(counters', S, x) = SumOf(counters, S, x)
      BY <2>1, SumOfSame
    <2>. QED  BY <1>3, <1>5, <2>2
  <1>6. ASSUME NEW k, NEW c \in Cpu, NEW failed \in BOOLEAN, Seen(k, c, failed)
        PROVE  \E by : Goal(by)
    <2>1. PICK by \in {0, 1} : done'[x] - done[x] = by
      BY <1>6, CompleteSums
    <2>2. done'[x] = done[x] + by
      BY <1>3, <2>1, NextType DEF TypeInv
    <2>3. /\ counters'[c][x] = counters[c][x] + by
          /\ \A d \in Cpu \ {c} : counters'[d][x] = counters[d][x]
      <3>1. \A d \in Cpu :
                counters'[d][x] = counters[d][x] + (IF d = c THEN done'[x] - done[x] ELSE 0)
        BY <1>6, CompleteSums
      <3>. QED  BY <1>2, <2>1, <3>1
    <2>4. SumOf(counters', S, x) = SumOf(counters, S, x) + (IF c \in S THEN by ELSE 0)
      <3>1. by \in Int
        BY <2>1
      <3>2. CASE c \in S
        <4>1. Adds(counters, counters', S, x, c, by)
          BY <1>2, <2>3, <3>1, <3>2 DEF Adds
        <4>2. SumOf(counters', S, x) = SumOf(counters, S, x) + by
          BY <4>1, SumOfStep
        <4>. QED  BY <3>2, <4>2
      <3>3. CASE c \notin S
        <4>1. \A d \in S : counters[d][x] = counters'[d][x]
          BY <2>3, <3>3
        <4>2. SumOf(counters', S, x) = SumOf(counters, S, x)
          BY <4>1, SumOfSame
        <4>. QED  BY <1>3, <3>3, <4>2
      <3>. QED  BY <3>2, <3>3
    <2>. QED  BY <2>2, <2>4
  <1>7. \E by : Goal(by)
    <2>1. \/ UNCHANGED <<counters, done>>
          \/ \E c \in Cpu : \E extent : Counted(extent, c) /\ UNCHANGED done
          \/ \E c \in Cpu, failed \in BOOLEAN : \E k : Seen(k, c, failed)
      BY NextSteps
    <2>2. UNCHANGED <<counters, done>> => Goal(0)
      BY <1>3
    <2>. HIDE DEF Goal
    <2>. QED  BY <1>5, <1>6, <2>1, <2>2
  <1>. QED  BY <1>3, <1>7

\* Every completion is counted once: the sums over the CPUs are what has
\* completed since the load, whatever CPU account_disk_io_complete runs on.
LEMMA CountStep == TypeInv /\ CountedOnce /\ [Next]_vars => CountedOnce'
  <1>. SUFFICES ASSUME TypeInv, CountedOnce, [Next]_vars PROVE CountedOnce'
    OBVIOUS
  <1>1. ASSUME NEW x \in Growing, SumOf(counters, Cpu, x) = done[x]
        PROVE  SumOf(counters', Cpu, x) = done'[x]
    <2>1. done[x] \in Int /\ done'[x] \in Int
      BY NextType DEF TypeInv
    <2>2. SumOf(counters', Cpu, x) = SumOf(counters, Cpu, x) + (done'[x] - done[x])
      BY NextSums
    <2>. QED  BY <1>1, <2>1, <2>2
  <1>2. "operations" \in Growing /\ "errors" \in Growing
    BY DEF Growing
  <1>. QED  BY <1>1, <1>2 DEF CountedOnce, Total, SumOf

-----------------------------------------------------------------------------
(* Collections. *)

\* What the collection under way would report if the CPUs that it has still to
\* read counted nothing more.
Pending(x) == reading.sum[x] + SumOf(counters, reading.cpus, x)

\* It lies between what was last summed and what has happened.
ReadBounds ==
    reading.active =>
        \A x \in Growing : previous[x] <= Pending(x) /\ Pending(x) <= done[x]

CollectInv == TypeInv /\ CountedOnce /\ ReportedConserved /\ ReadBounds

\* The sum over no CPU.
LEMMA SumOfNone == \A cs, x : SumOf(cs, {}, x) = 0
  BY FS_EmptySet, SumEquation DEF SumOf

\* Reading a CPU moves its count from one side of Pending to the other.
LEMMA SumOfRemove ==
    ASSUME NEW cs, NEW S \in SUBSET Cpu, NEW c \in S, NEW x, \A d \in Cpu : cs[d][x] \in Int
    PROVE  SumOf(cs, S, x) = cs[c][x] + SumOf(cs, S \ {c}, x)
  <1>. DEFINE f == [d \in Cpu |-> cs[d][x]]
  <1>1. (\A d \in S : f[d] \in Int) /\ f[c] = cs[c][x]
    OBVIOUS
  <1>2. IsFiniteSet(S)
    BY DiskAssumption, FS_Subset
  <1>. HIDE DEF f
  <1>3. SumFunctionOnSet(f, S) = f[c] + SumFunctionOnSet(f, S \ {c})
    BY <1>1, <1>2, SumRemove
  <1>. QED  BY <1>1, <1>3 DEF SumOf, f

\* Steps that leave the collection alone keep its bounds.
LEMMA BoundsKept ==
    ASSUME CollectInv, [Next]_vars, UNCHANGED <<reading, previous, reported, lost>>
    PROVE  ReportedConserved' /\ ReadBounds'
  <1>1. ASSUME NEW x \in Growing
        PROVE  /\ reported'[x] + lost'[x] = previous'[x] /\ previous'[x] <= done'[x]
               /\ reading'.active => previous'[x] <= Pending(x)' /\ Pending(x)' <= done'[x]
    <2>. DEFINE was == SumOf(counters, reading.cpus, x)
                is == SumOf(counters', reading.cpus, x)
                completed == done'[x] - done[x]
    <2>1. reading.cpus \in SUBSET Cpu
      BY DEF CollectInv, TypeInv
    <2>2. /\ was \in Int /\ is \in Int /\ completed \in Nat
          /\ was <= is /\ is <= was + completed
      BY <2>1, NextSums DEF CollectInv
    <2>3. /\ previous[x] \in Int /\ reading.sum[x] \in Int
          /\ done[x] \in Int /\ done'[x] \in Int
      BY NextType DEF CollectInv, TypeInv, Growing, Counter
    <2>4. reading.active => previous[x] <= reading.sum[x] + was /\ reading.sum[x] + was <= done[x]
      BY DEF CollectInv, ReadBounds, Pending
    <2>5. reported[x] + lost[x] = previous[x] /\ previous[x] <= done[x]
      BY DEF CollectInv, ReportedConserved, Growing
    <2>6. Pending(x)' = reading.sum[x] + is
      BY DEF Pending
    <2>. HIDE DEF was, is
    <2>. QED  BY <2>2, <2>3, <2>4, <2>5, <2>6
  <1>. QED  BY <1>1 DEF ReportedConserved, ReadBounds, Growing

\* The invariant holds at the load.
LEMMA CollectInit == Init => CollectInv
  <1>. SUFFICES ASSUME Init PROVE CollectInv
    OBVIOUS
  <1>1. SumOf(counters, Cpu, "operations") = 0 /\ SumOf(counters, Cpu, "errors") = 0
    <2>1. counters = [c \in Cpu |-> Zero]
      BY DEF Init
    <2>. QED  BY <2>1, SumOfZero DEF Counter
  <1>2. CountedOnce
    BY <1>1 DEF Init, CountedOnce, Total, SumOf
  <1>3. ReportedConserved
    BY DEF Init, ReportedConserved, Zero, Counter
  <1>4. ReadBounds
    BY DEF Init, ReadBounds, Idle
  <1>. QED  BY <1>2, <1>3, <1>4, InitType DEF CollectInv

\* It is inductive.
LEMMA CollectStep == CollectInv /\ [Next]_vars => CollectInv'
  <1>. SUFFICES ASSUME CollectInv, [Next]_vars PROVE CollectInv'
    OBVIOUS
  <1>1. TypeInv /\ TypeInv' /\ CountedOnce /\ CountedOnce'
    BY NextType, CountStep DEF CollectInv
  <1>2. \A x \in Growing : /\ previous[x] \in Int /\ reading.sum[x] \in Int /\ done[x] \in Int
                            /\ reported[x] \in Int /\ lost[x] \in Int
                            /\ reported[x] + lost[x] = previous[x] /\ previous[x] <= done[x]
    BY DEF CollectInv, ReportedConserved, TypeInv, Growing, Counter
  <1>3. CASE UNCHANGED <<reading, previous, reported, lost>>
    BY <1>1, <1>3, BoundsKept DEF CollectInv
  <1>4. CASE CollectBegin
    <2>1. \A x \in Growing : SumOf(counters, Cpu, x) = done[x]
      BY <1>1 DEF CountedOnce, Total, SumOf, Growing
    <2>2. /\ reading' = [cpus |-> Cpu, sum |-> Zero, active |-> TRUE]
          /\ UNCHANGED <<previous, reported, lost, done, counters>>
      BY <1>4 DEF CollectBegin, bpfVars
    <2>3. \A x \in Growing : Pending(x)' = 0 + SumOf(counters, Cpu, x)
      BY <2>2 DEF Pending, Growing, Zero, Counter
    <2>4. ReadBounds'
      BY <1>2, <2>1, <2>2, <2>3 DEF ReadBounds
    <2>5. ReportedConserved'
      BY <1>2, <2>2 DEF ReportedConserved, Growing
    <2>. QED  BY <1>1, <2>4, <2>5 DEF CollectInv
  <1>5. ASSUME NEW c \in Cpu, ReadCpu(c) PROVE CollectInv'
    <2>1. ASSUME NEW x \in Growing PROVE Pending(x)' = Pending(x)
      <3>. DEFINE S == reading.cpus
      <3>1. S \in SUBSET Cpu /\ c \in S /\ x \in Counter
        BY <1>1, <1>5 DEF TypeInv, ReadCpu, Growing, Counter
      <3>2. \A d \in Cpu : counters[d][x] \in Int
        BY <1>1, <3>1 DEF TypeInv
      <3>3. reading'.cpus = S \ {c} /\ reading'.sum[x] = reading.sum[x] + counters[c][x]
        BY <1>1, <1>5, <3>1 DEF ReadCpu, TypeInv
      <3>4. counters' = counters
        BY <1>5 DEF ReadCpu, bpfVars
      <3>. HIDE DEF S
      <3>5. SumOf(counters, S, x) = counters[c][x] + SumOf(counters, S \ {c}, x)
        BY <3>1, <3>2, SumOfRemove
      <3>6. S \ {c} \in SUBSET Cpu
        BY <3>1
      <3>7. SumOf(counters, S \ {c}, x) \in Int
        BY <3>2, <3>6, SumOfType
      <3>8. Pending(x) = reading.sum[x] + SumOf(counters, S, x)
        BY DEF Pending, S
      <3>9. Pending(x)' = (reading.sum[x] + counters[c][x]) + SumOf(counters, S \ {c}, x)
        BY <3>3, <3>4 DEF Pending
      <3>10. reading.sum[x] \in Int /\ counters[c][x] \in Int
        BY <1>2, <3>2
      <3>. QED  BY <3>5, <3>7, <3>8, <3>9, <3>10
    <2>2. reading'.active = reading.active /\ UNCHANGED <<previous, reported, lost, done>>
      BY <1>1, <1>5 DEF ReadCpu, histVars, TypeInv
    <2>3. ReadBounds'
      BY <2>1, <2>2 DEF CollectInv, ReadBounds
    <2>4. ReportedConserved'
      BY <1>2, <2>2 DEF ReportedConserved, Growing
    <2>. QED  BY <1>1, <2>3, <2>4 DEF CollectInv
  <1>6. ASSUME reading.active, reading.cpus = {}, NEW x \in Growing
        PROVE  /\ Growth[x] = reading.sum[x] - previous[x]
               /\ reading.sum[x] <= done[x]
    <2>1. Pending(x) = reading.sum[x] + 0
      BY <1>6, SumOfNone DEF Pending
    <2>2. previous[x] <= reading.sum[x] /\ reading.sum[x] <= done[x]
      BY <1>2, <1>6, <2>1 DEF CollectInv, ReadBounds
    <2>. QED  BY <1>2, <2>2 DEF Growth, Saturating, Growing
  <1>7. CASE CollectEnd
    <2>1. /\ reading.active /\ reading.cpus = {} /\ reading' = Idle
          /\ previous' = reading.sum
          /\ reported' = Plus(reported, Growth) /\ UNCHANGED <<lost, done>>
      BY <1>7 DEF CollectEnd, NewPrevious, histVars
    <2>2. \A x \in Growing : reported'[x] = reported[x] + Growth[x]
      BY <1>1, <2>1 DEF Plus, TypeInv
    <2>3. \A x \in Growing : /\ reported'[x] + lost'[x] = previous'[x]
                              /\ previous'[x] <= done'[x]
      BY <1>2, <1>6, <2>1, <2>2
    <2>. QED  BY <1>1, <2>1, <2>3 DEF CollectInv, ReadBounds, ReportedConserved, Growing, Idle
  <1>8. CASE CollectDropped
    <2>1. /\ reading.active /\ reading.cpus = {} /\ reading' = Idle
          /\ previous' = reading.sum
          /\ lost' = Plus(lost, Growth) /\ UNCHANGED <<reported, done>>
      BY <1>8 DEF CollectDropped, NewPrevious, histVars
    <2>2. \A x \in Growing : lost'[x] = lost[x] + Growth[x]
      BY <1>1, <2>1 DEF Plus, TypeInv
    <2>3. \A x \in Growing : /\ reported'[x] + lost'[x] = previous'[x]
                              /\ previous'[x] <= done'[x]
      BY <1>2, <1>6, <2>1, <2>2
    <2>. QED  BY <1>1, <2>1, <2>3 DEF CollectInv, ReadBounds, ReportedConserved, Growing, Idle
  <1>9. CASE CollectFails
    <2>1. reading' = Idle /\ UNCHANGED <<previous, reported, lost, done>>
      BY <1>9 DEF CollectFails, histVars
    <2>. QED  BY <1>1, <1>2, <2>1 DEF CollectInv, ReadBounds, ReportedConserved, Growing, Idle
  <1>10. \/ UNCHANGED <<reading, previous, reported, lost>>
         \/ CollectBegin \/ CollectEnd \/ CollectDropped \/ CollectFails
         \/ \E c \in Cpu : ReadCpu(c)
    <2>1. \A r \in Request, c \in Cpu, extent \in Extent :
              Issue(r, extent, c) => UNCHANGED userVars
      BY DEF Issue
    <2>2. \A r \in Request, c \in Cpu : Reissue(r, c) => UNCHANGED userVars
      BY DEF Reissue
    <2>3. \A r \in Request, c \in Cpu, sectors \in 0..MaxSectors, failed \in BOOLEAN :
              Complete(r, sectors, c, failed) => UNCHANGED userVars
      BY DEF Complete
    <2>. QED  BY <2>1, <2>2, <2>3 DEF Next, Tick, vars, userVars
  <1>. QED  BY <1>3, <1>4, <1>5, <1>7, <1>8, <1>9, <1>10

\* Every completion is counted once, as an operation or as an error, on
\* whichever CPU account_disk_io_complete runs, for any number of CPUs.
THEOREM CompletionsCountedOnce == Spec => []CountedOnce
  BY CollectInit, CollectStep, PTL DEF Spec, CollectInv

\* DiskIoCollector::collect, whose reads of the CPUs are spread over the I/O
\* that goes on and some of which fail, reports no completion twice and none
\* that has not happened: the saturating subtraction never hides anything.
THEOREM CompletionsReportedOnce == Spec => []ReportedConserved
  BY CollectInit, CollectStep, PTL DEF Spec, CollectInv

-----------------------------------------------------------------------------
(* The in-flight gauge. *)

GaugeInv == TypeInv /\ GaugeAccounted

\* Nothing is known, or counted, at the load.
LEMMA GaugeInit == Init => GaugeInv
  <1>. SUFFICES ASSUME Init PROVE GaugeInv
    OBVIOUS
  <1>1. counters = [c \in Cpu |-> Zero] /\ Entries = {} /\ evicted = 0 /\ overwritten = 0
    BY DEF Init, Entries
  <1>2. Total("inflight") = 0
    BY <1>1, SumOfZero DEF Counter, Total, SumOf
  <1>3. Cardinality(Entries) = 0
    BY <1>1, FS_EmptySet
  <1>. QED  BY <1>1, <1>2, <1>3, InitType DEF GaugeInv, GaugeAccounted

\* What the step does to the gauges of all CPUs.
LEMMA GaugeChange ==
    ASSUME TypeInv, NEW c \in Cpu, NEW n \in Int,
           \A d \in Cpu : counters'[d]["inflight"] =
               counters[d]["inflight"] + (IF d = c THEN n ELSE 0)
    PROVE  Total("inflight")' = Total("inflight") + n
  <1>1. \A d \in Cpu : counters[d]["inflight"] \in Int
    BY DEF TypeInv, Counter
  <1>2. Adds(counters, counters', Cpu, "inflight", c, n)
    BY <1>1 DEF Adds
  <1>3. SumOf(counters', Cpu, "inflight") = SumOf(counters, Cpu, "inflight") + n
    BY <1>2, SumOfStep
  <1>. QED  BY <1>3 DEF Total, SumOf

\* The identity is inductive.
LEMMA GaugeStep == GaugeInv /\ [Next]_vars => GaugeInv'
  <1>. SUFFICES ASSUME GaugeInv, [Next]_vars PROVE GaugeInv'
    OBVIOUS
  <1>1. TypeInv /\ TypeInv' /\ GaugeAccounted
    BY NextType DEF GaugeInv
  <1>2. CASE UNCHANGED <<start, counters, evicted, overwritten, done>>
    BY <1>1, <1>2 DEF GaugeInv, GaugeAccounted, Total, Entries
  <1>3. /\ Cardinality(Entries) \in Nat /\ evicted \in Nat /\ overwritten \in Nat
        /\ Total("inflight") = Cardinality(Entries) + evicted + overwritten
    BY <1>1, FS_CardinalityType DEF TypeInv, GaugeAccounted
  <1>4. ASSUME NEW c \in Cpu, NEW extent, Counted(extent, c) PROVE GaugeInv'
    <2>1. Total("inflight")' = Total("inflight") + 1
      BY <1>1, <1>4, IssueSums, GaugeChange DEF Counter
    <2>2. Cardinality(Entries') + evicted' + overwritten' =
              Cardinality(Entries) + evicted + overwritten + 1
      BY <1>1, <1>4, IssueStores
    <2>3. Total("inflight")' = Cardinality(Entries') + evicted' + overwritten'
      BY <1>3, <2>1, <2>2
    <2>. QED  BY <1>1, <2>3 DEF GaugeInv, GaugeAccounted
  <1>5. ASSUME NEW c \in Cpu, NEW k, NEW failed \in BOOLEAN, Seen(k, c, failed) PROVE GaugeInv'
    <2>. DEFINE n == IF k \in Entries THEN -1 ELSE 0
    <2>1. n \in Int /\ \A d \in Cpu : counters'[d]["inflight"] =
              counters[d]["inflight"] + (IF d = c THEN n ELSE 0)
      BY <1>1, <1>5, CompleteSums
    <2>2. Total("inflight")' = Total("inflight") + n
      <3>. HIDE DEF n
      <3>. QED  BY <1>1, <2>1, GaugeChange
    <2>3. Entries' = Entries \ {k} /\ evicted' = evicted /\ overwritten' = overwritten
      BY <1>5 DEF Seen, Entries
    <2>4. Cardinality(Entries \ {k}) = Cardinality(Entries) + n
      <3>1. CASE k \in Entries
        <4>1. Cardinality(Entries \ {k}) = Cardinality(Entries) - 1
          BY <1>1, <3>1, FS_RemoveElement DEF TypeInv
        <4>. QED  BY <1>3, <3>1, <4>1
      <3>2. CASE k \notin Entries
        <4>1. Entries \ {k} = Entries
          BY <3>2
        <4>. QED  BY <1>3, <3>2, <4>1
      <3>. QED  BY <3>1, <3>2
    <2>5. Total("inflight")' = Cardinality(Entries') + evicted' + overwritten'
      <3>1. n \in Int
        OBVIOUS
      <3>. HIDE DEF n
      <3>. QED  BY <1>3, <2>2, <2>3, <2>4, <3>1
    <2>. QED  BY <1>1, <2>5 DEF GaugeInv, GaugeAccounted
  <1>. QED  BY <1>2, <1>4, <1>5, NextSteps

\* Whatever is issued, requeued and completed, in one piece or several, on
\* whichever CPUs and for a map of any capacity, the summed in-flight gauges are
\* the start times in the map and those evicted or overwritten: so the gauge is
\* never too low, and nothing but these three leaves it too high.
THEOREM GaugeIsAccountedFor == Spec => []GaugeAccounted
  BY GaugeInit, GaugeStep, PTL DEF Spec, GaugeInv
=============================================================================
