--------------------------- MODULE Processor_proofs ---------------------------
(***************************************************************************)
(* The assembler, for any keys, numbers of fragments, texts, timeout and   *)
(* limits: it keeps its groups typed and within the limit, accounts for    *)
(* every group it created, completes none across a silence, reports every  *)
(* group that ends, renews a group by progress alone, evicts the one that  *)
(* waited longest, and implements Reassembly.                              *)
(*                                                                         *)
(* The processor that has it, for any frames, snapshots, ttl, capacity and *)
(* configuration besides: the metadata it keeps is that of the groups of   *)
(* the assembler, what it emits is drawn from the arrivals of the message  *)
(* alone, and a target gets all lines of a message unless a copy it had in *)
(* the mode stands against it, within the ttl and the cache's capacity.    *)
(***************************************************************************)
EXTENDS Processor, FiniteSetTheorems, SequenceTheorems, TLAPS

-----------------------------------------------------------------------------
(* The inductive invariant.                                                *)

\* A group of k at the time t: a fragment was never longer in coming than the
\* timeout.
GroupTyped(g, k, t) ==
  /\ g = [fragments |-> g.fragments, last_progress_at |-> g.last_progress_at, gap |-> g.gap]
  /\ g.fragments \in Fragments(k)
  /\ g.last_progress_at \in 0 .. t
  /\ g.gap \in Nat /\ g.gap < Timeout

GroupsTyped ==
  /\ groups = [k \in DOMAIN groups |-> groups[k]]
  /\ DOMAIN groups \subseteq {k \in Keys : Multipart(k)}
  /\ IsFiniteSet(DOMAIN groups)
  /\ \A k \in DOMAIN groups : GroupTyped(groups[k], k, now)
  /\ Cardinality(DOMAIN groups) <= MaxGroups

PeaksCover ==
  /\ peak \in [groups : Nat, fragments : Nat]
  /\ Cardinality(DOMAIN groups) <= peak.groups
  /\ FragmentsIn(groups) <= peak.fragments

CountsTyped ==
  /\ now \in Nat
  /\ outcome.status \in Statuses /\ outcome.discarded \subseteq Keys
  /\ count \in [Statuses \cup Losses -> Nat]
  /\ started \in Nat
  /\ calls \in Nat

Accounted ==
  started = Cardinality(DOMAIN groups) + count["COMPLETE"] + count["CONFLICT"]
            + count["expired"] + count["capacity_evicted"] + count["reset_discarded"]

AssemblerInv ==
  GroupsTyped /\ PeaksCover /\ CountsTyped /\ Accounted /\ NoStaleCompletion

-----------------------------------------------------------------------------
(* Finite sets.                                                            *)

\* A set of numbers that is not empty has a least one.
LEMMA LeastNumber ==
  ASSUME NEW S, S \subseteq Nat, S # {}
  PROVE  \E n \in S : \A m \in S : n <= m
<1>1. PICK n \in S : \A m \in S : ~(<<m, n>> \in OpToRel(<, Nat))
  BY NatLessThanWellFounded, WFMin, Zenon
<1>2. \A m \in S : ~(m < n)
  BY <1>1 DEF OpToRel
<1> QED
  BY <1>2, n \in Nat, \A m \in S : m \in Nat

\* What a finite set loses is counted.
LEMMA SweptCounts ==
  ASSUME NEW D, IsFiniteSet(D), NEW S \in SUBSET D
  PROVE  /\ IsFiniteSet(D \ S) /\ IsFiniteSet(S)
         /\ Cardinality(D) \in Nat /\ Cardinality(S) \in Nat
         /\ Cardinality(D \ S) \in Nat
         /\ Cardinality(D \ S) = Cardinality(D) - Cardinality(S)
         /\ Cardinality(S) <= Cardinality(D)
<1>1. IsFiniteSet(S) /\ Cardinality(S) <= Cardinality(D)
  BY FS_Subset
<1>2. IsFiniteSet(D \ S) /\ Cardinality(D \ S) = Cardinality(D) - Cardinality(D \cap S)
  BY FS_Difference
<1>3. D \cap S = S
  OBVIOUS
<1>4. Cardinality(D) \in Nat /\ Cardinality(S) \in Nat /\ Cardinality(D \ S) \in Nat
  BY <1>1, <1>2, FS_CardinalityType
<1> QED
  BY <1>1, <1>2, <1>3, <1>4

\* There are as many ordinals as the key declares.
LEMMA OrdinalsCount ==
  ASSUME NEW k \in Keys
  PROVE  /\ Total[k] \in Nat \ {0}
         /\ IsFiniteSet(Ordinals(k)) /\ Cardinality(Ordinals(k)) = Total[k]
<1>1. Total[k] \in Nat \ {0}
  BY AssemblerAssumption
<1> QED
  BY <1>1, FS_Interval DEF Ordinals

\* Fragments of a group: a text for some ordinals of its key, not for all.
LEMMA FragmentsAre ==
  ASSUME NEW k \in Keys, NEW f
  PROVE  f \in Fragments(k) <=> /\ f \in [DOMAIN f -> Texts]
                                /\ DOMAIN f \subseteq Ordinals(k)
                                /\ DOMAIN f # {} /\ DOMAIN f # Ordinals(k)
<1>1. ASSUME f \in Fragments(k)
      PROVE  /\ f \in [DOMAIN f -> Texts]
             /\ DOMAIN f \subseteq Ordinals(k)
             /\ DOMAIN f # {} /\ DOMAIN f # Ordinals(k)
  <2>1. PICK D \in (SUBSET Ordinals(k)) \ {{}, Ordinals(k)} : f \in [D -> Texts]
    BY <1>1 DEF Fragments
  <2>2. DOMAIN f = D
    BY <2>1
  <2> QED
    BY <2>1, <2>2
<1>2. ASSUME f \in [DOMAIN f -> Texts], DOMAIN f \subseteq Ordinals(k),
             DOMAIN f # {}, DOMAIN f # Ordinals(k)
      PROVE  f \in Fragments(k)
  <2>1. DOMAIN f \in (SUBSET Ordinals(k)) \ {{}, Ordinals(k)}
    BY <1>2
  <2> QED
    BY <1>2, <2>1 DEF Fragments
<1> QED
  BY <1>1, <1>2

\* The fragments held are finitely many.
LEMMA HeldIsFinite ==
  ASSUME NEW gs, IsFiniteSet(DOMAIN gs),
         \A k \in DOMAIN gs : k \in Keys /\ gs[k].fragments \in Fragments(k)
  PROVE  IsFiniteSet(Held(gs))
<1> DEFINE Of == [k \in DOMAIN gs |-> {k} \X DOMAIN gs[k].fragments]
           Parts == {{k} \X DOMAIN gs[k].fragments : k \in DOMAIN gs}
<1>1. Of \in Surjection(DOMAIN gs, Parts)
  BY DEF Surjection
<1>2. IsFiniteSet(Parts)
  BY <1>1, FS_Surjection
<1>3. ASSUME NEW p \in Parts
      PROVE  IsFiniteSet(p)
  <2>1. PICK k \in DOMAIN gs : p = {k} \X DOMAIN gs[k].fragments
    OBVIOUS
  <2>2. IsFiniteSet(DOMAIN gs[k].fragments)
    <3>1. DOMAIN gs[k].fragments \subseteq Ordinals(k) /\ IsFiniteSet(Ordinals(k))
      BY FragmentsAre, OrdinalsCount
    <3> QED
      BY <3>1, FS_Subset
  <2>3. IsFiniteSet({k})
    BY FS_Singleton
  <2> QED
    BY <2>1, <2>2, <2>3, FS_Product
<1> HIDE DEF Parts
<1>4. IsFiniteSet(UNION Parts)
  BY <1>2, <1>3, FS_UNION
<1> QED
  BY <1>4 DEF Parts, Held

-----------------------------------------------------------------------------
(* What a step does to the dictionary.                                     *)

\* Groups that only go.
LEMMA GroupsShrink ==
  ASSUME GroupsTyped, PeaksCover, NEW S \in SUBSET DOMAIN groups,
         groups' = Without(S), now' = now, peak' = peak
  PROVE  /\ GroupsTyped' /\ PeaksCover'
         /\ Cardinality(DOMAIN groups) \in Nat /\ Cardinality(S) \in Nat
         /\ Cardinality(DOMAIN groups)' = Cardinality(DOMAIN groups) - Cardinality(S)
<1>1. /\ DOMAIN groups' = DOMAIN groups \ S
      /\ \A k \in DOMAIN groups' : groups'[k] = groups[k]
      /\ groups' = [k \in DOMAIN groups' |-> groups'[k]]
  BY DEF Without
<1>2. /\ IsFiniteSet(DOMAIN groups')
      /\ Cardinality(DOMAIN groups) \in Nat /\ Cardinality(S) \in Nat
      /\ Cardinality(DOMAIN groups') \in Nat
      /\ Cardinality(DOMAIN groups') = Cardinality(DOMAIN groups) - Cardinality(S)
  BY <1>1, SweptCounts DEF GroupsTyped
<1>3. Cardinality(DOMAIN groups') <= Cardinality(DOMAIN groups)
  BY <1>2
<1>4. GroupsTyped'
  <2>1. Cardinality(DOMAIN groups') <= MaxGroups
    BY <1>2, <1>3, AssemblerAssumption DEF GroupsTyped
  <2>2. \A k \in DOMAIN groups' : GroupTyped(groups'[k], k, now')
    BY <1>1 DEF GroupsTyped
  <2>3. DOMAIN groups' \subseteq {k \in Keys : Multipart(k)}
    BY <1>1 DEF GroupsTyped
  <2> QED
    BY <1>1, <1>2, <2>1, <2>2, <2>3 DEF GroupsTyped, Multipart
<1>5. PeaksCover'
  <2>1. Held(groups') \subseteq Held(groups)
    BY <1>1 DEF Held
  <2>2. IsFiniteSet(Held(groups))
    BY HeldIsFinite DEF GroupsTyped, GroupTyped
  <2>3. /\ Cardinality(Held(groups')) <= Cardinality(Held(groups))
        /\ IsFiniteSet(Held(groups'))
    BY <2>1, <2>2, FS_Subset
  <2>4. Cardinality(Held(groups')) \in Nat /\ Cardinality(Held(groups)) \in Nat
    BY <2>2, <2>3, FS_CardinalityType
  <2> QED
    BY <1>2, <1>3, <2>3, <2>4 DEF PeaksCover, FragmentsIn
<1> QED
  BY <1>2, <1>4, <1>5

\* Groups that go, and one that comes or is extended.
LEMMA GroupsUpdated ==
  ASSUME GroupsTyped, PeaksCover, NEW S \in SUBSET DOMAIN groups,
         NEW k \in Keys, Multipart(k), NEW g, GroupTyped(g, k, now),
         Cardinality((DOMAIN groups \ S) \cup {k}) <= MaxGroups,
         groups' = Updated(S, k, g), now' = now, UpdatePeaks
  PROVE  GroupsTyped' /\ PeaksCover'
<1>1. /\ DOMAIN groups' = (DOMAIN groups \ S) \cup {k}
      /\ \A j \in DOMAIN groups' : groups'[j] = IF j = k THEN g ELSE groups[j]
      /\ groups' = [j \in DOMAIN groups' |-> groups'[j]]
  BY DEF Updated
<1>2. IsFiniteSet(DOMAIN groups')
  <2>1. IsFiniteSet(DOMAIN groups \ S)
    BY SweptCounts DEF GroupsTyped
  <2> QED
    BY <1>1, <2>1, FS_AddElement
<1>3. GroupsTyped'
  <2>1. \A j \in DOMAIN groups' : GroupTyped(groups'[j], j, now')
    BY <1>1 DEF GroupsTyped
  <2>2. DOMAIN groups' \subseteq {j \in Keys : Multipart(j)}
    BY <1>1 DEF GroupsTyped
  <2> QED
    BY <1>1, <1>2, <2>1, <2>2 DEF GroupsTyped, Multipart
<1>4. PeaksCover'
  <2>1. IsFiniteSet(Held(groups'))
    <3>1. \A j \in DOMAIN groups' : j \in Keys /\ groups'[j].fragments \in Fragments(j)
      BY <1>3 DEF GroupsTyped, GroupTyped
    <3> QED
      BY <1>2, <3>1, HeldIsFinite
  <2>2. FragmentsIn(groups') \in Nat /\ Cardinality(DOMAIN groups') \in Nat
    BY <1>2, <2>1, FS_CardinalityType DEF FragmentsIn
  <2>3. peak.groups \in Nat /\ peak.fragments \in Nat
    BY DEF PeaksCover
  <2>4. peak' = [groups    |-> Larger(peak.groups, Cardinality(DOMAIN groups')),
                 fragments |-> Larger(peak.fragments, FragmentsIn(groups'))]
    BY DEF UpdatePeaks
  <2>5. \A m, n \in Nat : Larger(m, n) \in Nat /\ n <= Larger(m, n)
    BY DEF Larger
  <2> QED
    BY <2>2, <2>3, <2>4, <2>5 DEF PeaksCover, FragmentsIn, Held
<1> QED
  BY <1>3, <1>4

\* What a feed with this status, expired and evicted groups counts.
Moved(status, E, V) ==
  /\ count' \in [Statuses \cup Losses -> Nat]
  /\ count["COMPLETE"] \in Nat /\ count["CONFLICT"] \in Nat
  /\ count["expired"] \in Nat /\ count["capacity_evicted"] \in Nat
  /\ count["reset_discarded"] \in Nat
  /\ count'["expired"] = count["expired"] + Cardinality(E)
  /\ count'["capacity_evicted"] = count["capacity_evicted"] + Cardinality(V)
  /\ count'["reset_discarded"] = count["reset_discarded"]
  /\ count'["COMPLETE"] = count["COMPLETE"] + (IF status = "COMPLETE" THEN 1 ELSE 0)
  /\ count'["CONFLICT"] = count["CONFLICT"] + (IF status = "CONFLICT" THEN 1 ELSE 0)

\* The counters move by one outcome, and by what expired or was evicted.
LEMMA CountMoves ==
  ASSUME CountsTyped, NEW status \in Statuses, NEW E, NEW V,
         Cardinality(E) \in Nat, Cardinality(V) \in Nat, Count(status, E, V)
  PROVE  Moved(status, E, V)
<1>1. /\ count' = [count EXCEPT ![status] = @ + 1,
                         !["expired"] = @ + Cardinality(E),
                         !["capacity_evicted"] = @ + Cardinality(V)]
      /\ count \in [Statuses \cup Losses -> Nat]
  BY DEF Count, CountsTyped
<1>2. /\ {"COMPLETE", "CONFLICT"} \subseteq Statuses
      /\ {"expired", "capacity_evicted", "reset_discarded"} \subseteq Losses
      /\ "expired" \notin Statuses /\ "capacity_evicted" \notin Statuses
      /\ "reset_discarded" \notin Statuses
  BY DEF Statuses, Losses
<1>3. \A c \in Statuses \cup Losses : count[c] \in Nat
  BY <1>1
<1>4. /\ count'["expired"] = count["expired"] + Cardinality(E)
      /\ count'["capacity_evicted"] = count["capacity_evicted"] + Cardinality(V)
      /\ \A c \in Statuses \cup Losses :
           c \notin {"expired", "capacity_evicted"} =>
             count'[c] = count[c] + (IF c = status THEN 1 ELSE 0)
  BY <1>1, <1>2, <1>3
<1>5. count' \in [Statuses \cup Losses -> Nat]
  <2>1. \A c \in Statuses \cup Losses : count'[c] \in Nat
    BY <1>2, <1>3, <1>4
  <2>2. DOMAIN count' = Statuses \cup Losses /\ count' = [c \in DOMAIN count' |-> count'[c]]
    BY <1>1
  <2> QED
    BY <2>1, <2>2
<1> QED
  BY <1>2, <1>3, <1>4, <1>5 DEF Moved

-----------------------------------------------------------------------------
(* The victim.                                                             *)

\* _evict_capacity_victim is defined on any groups, and finds the one that
\* waited longest.
LEMMA VictimIsLongest ==
  ASSUME GroupsTyped, NEW S, S \subseteq DOMAIN groups, S # {}
  PROVE  /\ Victim(S) \in S
         /\ \A k \in S \ {Victim(S)} :
              \/ groups[Victim(S)].last_progress_at < groups[k].last_progress_at
              \/ /\ groups[Victim(S)].last_progress_at = groups[k].last_progress_at
                 /\ Victim(S) < k
<1> DEFINE At(k) == groups[k].last_progress_at
           Times == {At(k) : k \in S}
           Least(v) == \A k \in S \ {v} : At(v) < At(k) \/ (At(v) = At(k) /\ v < k)
<1>1. \A k \in S : At(k) \in Nat /\ k \in Nat
  BY AssemblerAssumption DEF GroupsTyped, GroupTyped
<1>2. PICK t \in Times : \A u \in Times : t <= u
  <2>1. Times \subseteq Nat /\ Times # {}
    BY <1>1
  <2> QED
    BY <2>1, LeastNumber
<1>3. PICK v \in {k \in S : At(k) = t} : \A k \in {j \in S : At(j) = t} : v <= k
  <2>1. {k \in S : At(k) = t} \subseteq Nat /\ {k \in S : At(k) = t} # {}
    BY <1>1, <1>2
  <2> HIDE DEF At
  <2> QED
    BY <2>1, LeastNumber
<1>4. Least(v)
  <2> SUFFICES ASSUME NEW k \in S \ {v}
               PROVE  At(v) < At(k) \/ (At(v) = At(k) /\ v < k)
    OBVIOUS
  <2>1. At(v) = t /\ t <= At(k) /\ v \in Nat /\ k \in Nat /\ At(k) \in Nat /\ t \in Nat
    BY <1>1, <1>2, <1>3
  <2>2. At(k) = t => v <= k
    BY <1>3
  <2> HIDE DEF At
  <2> QED
    BY <2>1, <2>2
<1>5. Victim(S) \in S /\ Least(Victim(S))
  <2>1. \E w \in S : \A k \in S \ {w} :
          \/ groups[w].last_progress_at < groups[k].last_progress_at
          \/ groups[w].last_progress_at = groups[k].last_progress_at /\ w < k
    BY <1>3, <1>4
  <2> QED
    BY <2>1 DEF Victim
<1> QED
  BY <1>5

\* v comes before all others of S in the order of eviction.
Longest(v, S) ==
  \A k \in S \ {v} :
    \/ groups[v].last_progress_at < groups[k].last_progress_at
    \/ groups[v].last_progress_at = groups[k].last_progress_at /\ v < k

\* At the limit a new group pushes out one group, below it none.
LEMMA EvictionFits ==
  ASSUME GroupsTyped, NEW S, S = DOMAIN groups \ Expired
  PROVE  /\ Evicted(S) \subseteq S
         /\ Cardinality(Evicted(S)) \in {0, 1}
         /\ Cardinality(S) \in Nat
         /\ Cardinality(S) - Cardinality(Evicted(S)) + 1 <= MaxGroups
         /\ \A v \in Evicted(S) : Cardinality(S) = MaxGroups /\ Longest(v, S)
<1>1. Expired \in SUBSET DOMAIN groups /\ S \subseteq DOMAIN groups
  BY DEF Expired
<1>2. /\ IsFiniteSet(S) /\ Cardinality(S) \in Nat
      /\ Cardinality(S) <= MaxGroups /\ MaxGroups \in Nat \ {0}
  <2>1. /\ IsFiniteSet(DOMAIN groups) /\ Cardinality(DOMAIN groups) <= MaxGroups
        /\ MaxGroups \in Nat \ {0}
    BY AssemblerAssumption DEF GroupsTyped
  <2>2. /\ IsFiniteSet(S) /\ Cardinality(S) \in Nat /\ Cardinality(Expired) \in Nat
        /\ Cardinality(DOMAIN groups) \in Nat
        /\ Cardinality(S) = Cardinality(DOMAIN groups) - Cardinality(Expired)
    BY <1>1, <2>1, SweptCounts
  <2> QED
    BY <2>1, <2>2
<1>3. CASE Cardinality(S) >= MaxGroups
  <2>1. S # {}
    BY <1>2, <1>3, FS_EmptySet
  <2>2. /\ Victim(S) \in S
        /\ Longest(Victim(S), S)
    BY <1>1, <2>1, VictimIsLongest DEF Longest
  <2>3. Evicted(S) = {Victim(S)} /\ Cardinality(Evicted(S)) = 1
    BY <1>3, FS_Singleton DEF Evicted
  <2> QED
    <3>1. Cardinality(S) - Cardinality(Evicted(S)) + 1 <= MaxGroups
      BY <1>2, <2>3
    <3>2. /\ Evicted(S) \subseteq S
          /\ \A v \in Evicted(S) : Cardinality(S) = MaxGroups /\ Longest(v, S)
      BY <1>2, <1>3, <2>2, <2>3
    <3>3. Cardinality(Evicted(S)) \in {0, 1}
      BY <2>3
    <3> QED
      BY <1>2, <3>1, <3>2, <3>3
<1>4. CASE ~(Cardinality(S) >= MaxGroups)
  <2>1. Evicted(S) = {} /\ Cardinality(Evicted(S)) = 0
    BY <1>4, FS_EmptySet DEF Evicted
  <2> QED
    <3>1. Cardinality(S) - Cardinality(Evicted(S)) + 1 <= MaxGroups
      BY <1>2, <1>4, <2>1
    <3>2. /\ Evicted(S) \subseteq S /\ Cardinality(Evicted(S)) \in {0, 1}
          /\ \A v \in Evicted(S) : Cardinality(S) = MaxGroups /\ Longest(v, S)
      BY <2>1
    <3> QED
      BY <1>2, <3>1, <3>2
<1> QED
  BY <1>3, <1>4

\* What a new group finds: its place is free, and what it pushes out was live.
LEMMA StartFits ==
  ASSUME GroupsTyped, NEW k \in Keys, ~Live(k)
  PROVE  LET evicted == Evicted(DOMAIN groups \ Expired)
             gone == Expired \cup evicted
         IN  /\ gone \in SUBSET DOMAIN groups
             /\ k \notin DOMAIN groups \ gone /\ k \notin evicted
             /\ Cardinality(Expired) \in Nat /\ Cardinality(evicted) \in Nat
             /\ Cardinality(DOMAIN groups) \in Nat
             /\ Cardinality((DOMAIN groups \ gone) \cup {k})
                  = Cardinality(DOMAIN groups) - Cardinality(Expired)
                    - Cardinality(evicted) + 1
             /\ Cardinality((DOMAIN groups \ gone) \cup {k}) <= MaxGroups
<1> DEFINE S == DOMAIN groups \ Expired
           evicted == Evicted(S)
           gone == Expired \cup evicted
<1>1. /\ evicted \subseteq S
      /\ Cardinality(evicted) \in {0, 1}
      /\ Cardinality(S) \in Nat
      /\ Cardinality(S) - Cardinality(evicted) + 1 <= MaxGroups
  BY EvictionFits
<1>2. Expired \in SUBSET DOMAIN groups /\ k \notin S
  BY DEF Expired, Live
<1> HIDE DEF evicted
<1>3. gone \in SUBSET DOMAIN groups /\ DOMAIN groups \ gone = S \ evicted
  BY <1>1, <1>2
<1>4. /\ IsFiniteSet(S)
      /\ Cardinality(Expired) \in Nat /\ Cardinality(DOMAIN groups) \in Nat
      /\ Cardinality(S) = Cardinality(DOMAIN groups) - Cardinality(Expired)
  BY <1>2, SweptCounts DEF GroupsTyped
<1>5. /\ IsFiniteSet(S \ evicted)
      /\ Cardinality(S \ evicted) = Cardinality(S) - Cardinality(evicted)
  BY <1>1, <1>4, SweptCounts
<1>6. Cardinality((S \ evicted) \cup {k}) = Cardinality(S \ evicted) + 1
  BY <1>2, <1>5, FS_AddElement
<1>7. Cardinality(evicted) \in Nat
  BY <1>1
<1>8. k \notin evicted
  BY <1>1, <1>2
<1> HIDE DEF S
<1>9. /\ Cardinality((S \ evicted) \cup {k})
           = Cardinality(DOMAIN groups) - Cardinality(Expired) - Cardinality(evicted) + 1
      /\ Cardinality((S \ evicted) \cup {k}) <= MaxGroups
  BY <1>1, <1>4, <1>5, <1>6, <1>7
<1> QED
  BY <1>1, <1>2, <1>3, <1>4, <1>7, <1>8, <1>9 DEF evicted, S

-----------------------------------------------------------------------------
(* The groups a feed stores.                                               *)

\* The first fragment of a message of several.
LEMMA NewGroupTyped ==
  ASSUME CountsTyped, NEW k \in Keys, Multipart(k), NEW i \in Ordinals(k), NEW x \in Texts
  PROVE  GroupTyped(NewGroup(i, x), k, now)
<1> DEFINE f == [o \in {i} |-> x]
<1>1. Ordinals(k) # {i}
  <2>1. Cardinality(Ordinals(k)) = Total[k] /\ Total[k] > 1 /\ Total[k] \in Nat
    BY OrdinalsCount DEF Multipart
  <2>2. Cardinality({i}) = 1
    BY FS_Singleton
  <2> QED
    BY <2>1, <2>2
<1>2. f \in Fragments(k)
  BY <1>1, FragmentsAre
<1>3. now \in 0 .. now /\ 0 \in Nat /\ 0 < Timeout
  BY AssemblerAssumption DEF CountsTyped
<1> QED
  BY <1>2, <1>3 DEF GroupTyped, NewGroup

\* A fragment that does not complete its group.
LEMMA ProgressTyped ==
  ASSUME CountsTyped, GroupsTyped, NEW k \in Keys, Live(k), NEW i \in Ordinals(k),
         NEW x \in Texts, i \notin DOMAIN groups[k].fragments, ~Fills(groups[k], k)
  PROVE  GroupTyped(Progress(groups[k], i, x), k, now)
<1> DEFINE f == groups[k].fragments
           p == Progress(groups[k], i, x)
<1>1. f \in [DOMAIN f -> Texts] /\ DOMAIN f \subseteq Ordinals(k)
  BY FragmentsAre DEF Live, GroupsTyped, GroupTyped
<1>2. /\ p = [fragments |-> p.fragments, last_progress_at |-> now, gap |-> p.gap]
      /\ p.last_progress_at = now
      /\ DOMAIN p.fragments = DOMAIN f \cup {i}
      /\ p.fragments = [o \in DOMAIN f \cup {i} |-> IF o = i THEN x ELSE f[o]]
      /\ p.gap = Larger(groups[k].gap, now - groups[k].last_progress_at)
  BY DEF Progress
<1>3. IsFiniteSet(DOMAIN f)
  BY <1>1, OrdinalsCount, FS_Subset
<1>4. DOMAIN f \cup {i} # Ordinals(k)
  <2>1. Cardinality(DOMAIN f \cup {i}) = Cardinality(DOMAIN f) + 1
    BY <1>3, FS_AddElement
  <2> QED
    BY <2>1, OrdinalsCount DEF Fills
<1>5. p.fragments \in Fragments(k)
  <2>1. p.fragments \in [DOMAIN p.fragments -> Texts]
    BY <1>1, <1>2
  <2> QED
    BY <1>1, <1>2, <1>4, <2>1, FragmentsAre
<1>6. p.gap \in Nat /\ p.gap < Timeout
  <2>1. /\ groups[k].gap \in Nat /\ groups[k].gap < Timeout
        /\ groups[k].last_progress_at \in 0 .. now /\ now \in Nat
        /\ ~(now - groups[k].last_progress_at >= Timeout) /\ Timeout \in Nat
    BY AssemblerAssumption DEF Live, Stale, GroupsTyped, GroupTyped, CountsTyped
  <2> QED
    BY <1>2, <2>1 DEF Larger
<1>7. now \in 0 .. now
  BY DEF CountsTyped
<1> HIDE DEF p
<1> QED
  BY <1>2, <1>5, <1>6, <1>7 DEF GroupTyped, p

\* A completed message was never longer in coming than the timeout either.
LEMMA CompletedInTime ==
  ASSUME CountsTyped, GroupsTyped, NEW k \in Keys, Live(k), NEW i, NEW x
  PROVE  Progress(groups[k], i, x).gap < Timeout
<1>1. /\ groups[k].gap \in Nat /\ groups[k].gap < Timeout
      /\ groups[k].last_progress_at \in 0 .. now /\ now \in Nat
      /\ ~(now - groups[k].last_progress_at >= Timeout) /\ Timeout \in Nat
  BY AssemblerAssumption DEF Live, Stale, GroupsTyped, GroupTyped, CountsTyped
<1> QED
  BY <1>1 DEF Progress, Larger

-----------------------------------------------------------------------------
(* The steps.                                                              *)

\* What the last outcome shows of a call.
LEMMA OutcomeSays ==
  ASSUME CountsTyped, NEW status \in Statuses, NEW k, NEW sentences,
         NEW discarded, discarded \subseteq Keys, NEW gap,
         Outcome(status, k, sentences, discarded, gap)
  PROVE  /\ now' = now /\ now' \in Nat /\ calls' = calls + 1 /\ calls' \in Nat
         /\ calls' # calls
         /\ outcome'.status = status /\ outcome'.key = k
         /\ outcome'.discarded = discarded /\ outcome'.gap = gap
         /\ outcome'.sentences = sentences
BY DEF Outcome, CountsTyped

\* Outcomes that touch no group.
LEMMA PassByStep ==
  ASSUME AssemblerInv, NEW status \in Statuses, status \notin {"COMPLETE", "CONFLICT"},
         NEW sentences, PassBy(status, sentences)
  PROVE  AssemblerInv'
<1>1. /\ Outcome(status, NoKey, sentences, {}, 0) /\ Count(status, {}, {})
      /\ groups' = groups /\ peak' = peak /\ started' = started
  BY DEF PassBy
<1>2. /\ now' = now /\ now' \in Nat /\ calls' \in Nat
      /\ outcome'.status = status /\ outcome'.discarded = {}
  BY <1>1, OutcomeSays DEF AssemblerInv
<1>3. Cardinality({}) = 0
  BY FS_EmptySet
<1>4. /\ count' \in [Statuses \cup Losses -> Nat]
      /\ \A c \in {"COMPLETE", "CONFLICT", "expired", "capacity_evicted",
                   "reset_discarded"} : count'[c] = count[c]
  <2>1. Moved(status, {}, {})
    BY <1>1, <1>3, CountMoves DEF AssemblerInv
  <2> QED
    BY <1>1, <1>3, <2>1 DEF Moved
<1>5. GroupsTyped' /\ PeaksCover'
  BY <1>1, <1>2 DEF AssemblerInv, GroupsTyped, PeaksCover, Multipart
<1>6. CountsTyped'
  BY <1>1, <1>2, <1>4 DEF AssemblerInv, CountsTyped
<1>7. Accounted'
  BY <1>1, <1>4 DEF AssemblerInv, Accounted
<1>8. NoStaleCompletion'
  BY <1>2 DEF NoStaleCompletion
<1> QED
  BY <1>5, <1>6, <1>7, <1>8 DEF AssemblerInv

\* A repeated fragment.
LEMMA DuplicateStep ==
  ASSUME AssemblerInv, NEW k \in Keys, NEW i, NEW x, Duplicate(k, i, x)
  PROVE  AssemblerInv'
<1>1. /\ Outcome("DUPLICATE", k, <<>>, Expired, 0) /\ Count("DUPLICATE", Expired, {})
      /\ groups' = Without(Expired) /\ peak' = peak /\ started' = started
  BY DEF Duplicate, Duplicated
<1>2. Expired \in SUBSET DOMAIN groups /\ Expired \subseteq Keys /\ "DUPLICATE" \in Statuses
  BY DEF Expired, AssemblerInv, GroupsTyped, Statuses
<1>3. /\ now' = now /\ now' \in Nat /\ calls' \in Nat
      /\ outcome'.status = "DUPLICATE" /\ outcome'.discarded = Expired
  BY <1>1, <1>2, OutcomeSays DEF AssemblerInv
<1>4. /\ GroupsTyped' /\ PeaksCover'
      /\ Cardinality(DOMAIN groups) \in Nat /\ Cardinality(Expired) \in Nat
      /\ Cardinality(DOMAIN groups)' = Cardinality(DOMAIN groups) - Cardinality(Expired)
  BY <1>1, <1>2, <1>3, GroupsShrink DEF AssemblerInv
<1>5. Cardinality({}) = 0
  BY FS_EmptySet
<1>6. /\ count' \in [Statuses \cup Losses -> Nat]
      /\ count["COMPLETE"] \in Nat /\ count["CONFLICT"] \in Nat
      /\ count["expired"] \in Nat /\ count["capacity_evicted"] \in Nat
      /\ count["reset_discarded"] \in Nat
      /\ count'["expired"] = count["expired"] + Cardinality(Expired)
      /\ \A c \in {"COMPLETE", "CONFLICT", "capacity_evicted", "reset_discarded"} :
           count'[c] = count[c]
  <2>1. Moved("DUPLICATE", Expired, {})
    BY <1>1, <1>2, <1>4, <1>5, CountMoves DEF AssemblerInv
  <2> QED
    BY <1>1, <1>2, <1>4, <1>5, <2>1 DEF Moved
<1>7. CountsTyped'
  BY <1>1, <1>2, <1>3, <1>6 DEF AssemblerInv, CountsTyped
<1>8. Accounted'
  <2>1. started = Cardinality(DOMAIN groups) + count["COMPLETE"] + count["CONFLICT"]
            + count["expired"] + count["capacity_evicted"] + count["reset_discarded"]
    BY DEF AssemblerInv, Accounted
  <2>2. /\ Cardinality(DOMAIN groups') = Cardinality(DOMAIN groups) - Cardinality(Expired)
        /\ started' = started
    BY <1>1, <1>4
  <2>3. count["capacity_evicted"] \in Nat
    BY DEF AssemblerInv, CountsTyped, Losses
  <2> QED
    BY ONLY <1>4, <1>6, <2>1, <2>2, <2>3 DEF Accounted
<1>9. NoStaleCompletion'
  BY <1>3 DEF NoStaleCompletion
<1> QED
  BY <1>4, <1>7, <1>8, <1>9 DEF AssemblerInv

\* A fragment that contradicts one it has.
LEMMA ConflictStep ==
  ASSUME AssemblerInv, NEW k \in Keys, NEW i, NEW x, Conflict(k, i, x)
  PROVE  AssemblerInv'
<1>1. /\ Outcome("CONFLICT", k, <<>>, Expired \cup {k}, 0) /\ Count("CONFLICT", Expired, {})
      /\ groups' = Without(Expired \cup {k}) /\ peak' = peak /\ started' = started
      /\ k \in DOMAIN groups \ Expired
  BY DEF Conflict, Live, Expired
<1>2. /\ Expired \cup {k} \in SUBSET DOMAIN groups /\ Expired \cup {k} \subseteq Keys
      /\ Expired \in SUBSET DOMAIN groups /\ "CONFLICT" \in Statuses
  BY <1>1 DEF Expired, AssemblerInv, GroupsTyped, Statuses
<1>3. /\ now' = now /\ now' \in Nat /\ calls' \in Nat
      /\ outcome'.status = "CONFLICT" /\ outcome'.discarded = Expired \cup {k}
  BY <1>1, <1>2, OutcomeSays DEF AssemblerInv
<1>4. /\ GroupsTyped' /\ PeaksCover'
      /\ Cardinality(DOMAIN groups) \in Nat
      /\ Cardinality(DOMAIN groups)' = Cardinality(DOMAIN groups) - Cardinality(Expired \cup {k})
  BY <1>1, <1>2, <1>3, GroupsShrink DEF AssemblerInv
<1>5. /\ Cardinality({}) = 0
      /\ Cardinality(Expired) \in Nat
      /\ Cardinality(Expired \cup {k}) = Cardinality(Expired) + 1
  <2>1. IsFiniteSet(Expired) /\ Cardinality(Expired) \in Nat
    BY <1>2, SweptCounts DEF AssemblerInv, GroupsTyped
  <2>2. k \notin Expired
    BY <1>1
  <2>3. Cardinality(Expired \cup {k}) = Cardinality(Expired) + 1
    BY <2>1, <2>2, FS_AddElement
  <2> QED
    BY <2>1, <2>3, FS_EmptySet
<1>6. /\ count' \in [Statuses \cup Losses -> Nat]
      /\ count["COMPLETE"] \in Nat /\ count["CONFLICT"] \in Nat
      /\ count["expired"] \in Nat /\ count["capacity_evicted"] \in Nat
      /\ count["reset_discarded"] \in Nat
      /\ count'["expired"] = count["expired"] + Cardinality(Expired)
      /\ count'["CONFLICT"] = count["CONFLICT"] + 1
      /\ \A c \in {"COMPLETE", "capacity_evicted", "reset_discarded"} :
           count'[c] = count[c]
  <2>1. Moved("CONFLICT", Expired, {})
    BY <1>1, <1>2, <1>5, CountMoves DEF AssemblerInv
  <2> QED
    BY <1>1, <1>2, <1>5, <2>1 DEF Moved
<1>7. CountsTyped'
  BY <1>1, <1>2, <1>3, <1>6 DEF AssemblerInv, CountsTyped
<1>8. Accounted'
  <2>1. started = Cardinality(DOMAIN groups) + count["COMPLETE"] + count["CONFLICT"]
            + count["expired"] + count["capacity_evicted"] + count["reset_discarded"]
    BY DEF AssemblerInv, Accounted
  <2>2. Cardinality(DOMAIN groups') = Cardinality(DOMAIN groups) - Cardinality(Expired) - 1
    BY <1>4, <1>5
  <2>3. started' = started
    BY <1>1
  <2> QED
    BY ONLY <1>4, <1>5, <1>6, <2>1, <2>2, <2>3 DEF Accounted
<1>9. NoStaleCompletion'
  BY <1>3 DEF NoStaleCompletion
<1> QED
  BY <1>4, <1>7, <1>8, <1>9 DEF AssemblerInv

\* The last fragment of a group.
LEMMA CompleteStep ==
  ASSUME AssemblerInv, NEW k \in Keys, NEW i, NEW x, Complete(k, i, x)
  PROVE  AssemblerInv'
<1> DEFINE g == Progress(groups[k], i, x)
           sentences == [o \in Ordinals(k) |-> g.fragments[o]]
<1>1. /\ Outcome("COMPLETE", k, sentences, {}, g.gap) /\ Count("COMPLETE", {}, {})
      /\ groups' = Without({k}) /\ peak' = peak /\ started' = started
      /\ k \in DOMAIN groups /\ Live(k)
  BY DEF Complete, Live
<1>2. {k} \in SUBSET DOMAIN groups /\ "COMPLETE" \in Statuses
  BY <1>1 DEF Statuses
<1>3. /\ now' = now /\ now' \in Nat /\ calls' \in Nat
      /\ outcome'.status = "COMPLETE" /\ outcome'.discarded = {} /\ outcome'.gap = g.gap
  <2> HIDE DEF g, sentences
  <2> QED
    BY <1>1, <1>2, OutcomeSays DEF AssemblerInv
<1>4. /\ GroupsTyped' /\ PeaksCover'
      /\ Cardinality(DOMAIN groups) \in Nat
      /\ Cardinality(DOMAIN groups)' = Cardinality(DOMAIN groups) - Cardinality({k})
  BY <1>1, <1>2, <1>3, GroupsShrink DEF AssemblerInv
<1>5. Cardinality({}) = 0 /\ Cardinality({k}) = 1
  BY FS_EmptySet, FS_Singleton
<1>6. /\ count' \in [Statuses \cup Losses -> Nat]
      /\ count["COMPLETE"] \in Nat /\ count["CONFLICT"] \in Nat
      /\ count["expired"] \in Nat /\ count["capacity_evicted"] \in Nat
      /\ count["reset_discarded"] \in Nat
      /\ count'["COMPLETE"] = count["COMPLETE"] + 1
      /\ \A c \in {"CONFLICT", "expired", "capacity_evicted", "reset_discarded"} :
           count'[c] = count[c]
  <2>1. Moved("COMPLETE", {}, {})
    BY <1>1, <1>2, <1>5, CountMoves DEF AssemblerInv
  <2> QED
    BY <1>1, <1>2, <1>5, <2>1 DEF Moved
<1>7. CountsTyped'
  BY <1>1, <1>2, <1>3, <1>6 DEF AssemblerInv, CountsTyped
<1>8. Accounted'
  BY <1>1, <1>4, <1>5, <1>6 DEF AssemblerInv, Accounted
<1>9. NoStaleCompletion'
  BY <1>1, <1>3, CompletedInTime DEF NoStaleCompletion, AssemblerInv
<1> QED
  BY <1>4, <1>7, <1>8, <1>9 DEF AssemblerInv

\* One more fragment of a group.
LEMMA ExtendStep ==
  ASSUME AssemblerInv, NEW k \in Keys, NEW i \in Ordinals(k), NEW x \in Texts,
         Extend(k, i, x)
  PROVE  AssemblerInv'
<1> DEFINE g == Progress(groups[k], i, x)
<1>1. /\ Outcome("PENDING", k, <<>>, Expired, 0) /\ Count("PENDING", Expired, {})
      /\ groups' = Updated(Expired, k, g) /\ UpdatePeaks /\ started' = started
      /\ k \in DOMAIN groups \ Expired /\ Live(k) /\ Multipart(k)
      /\ i \notin DOMAIN groups[k].fragments /\ ~Fills(groups[k], k)
  BY DEF Extend, Live, Expired
<1>2. /\ Expired \in SUBSET DOMAIN groups /\ Expired \subseteq Keys
      /\ "PENDING" \in Statuses
  BY <1>1 DEF Expired, AssemblerInv, GroupsTyped, Statuses
<1>3. /\ now' = now /\ now' \in Nat /\ calls' \in Nat
      /\ outcome'.status = "PENDING" /\ outcome'.discarded = Expired
  BY <1>1, <1>2, OutcomeSays DEF AssemblerInv
<1>4. /\ (DOMAIN groups \ Expired) \cup {k} = DOMAIN groups \ Expired
      /\ DOMAIN groups' = DOMAIN groups \ Expired
  BY <1>1 DEF Updated
<1>5. /\ Cardinality(DOMAIN groups) \in Nat /\ Cardinality(Expired) \in Nat
      /\ Cardinality(DOMAIN groups \ Expired) = Cardinality(DOMAIN groups) - Cardinality(Expired)
      /\ Cardinality(DOMAIN groups \ Expired) <= MaxGroups
  <2>1. /\ Cardinality(DOMAIN groups) \in Nat /\ Cardinality(Expired) \in Nat
        /\ Cardinality(DOMAIN groups \ Expired)
             = Cardinality(DOMAIN groups) - Cardinality(Expired)
    BY <1>2, SweptCounts DEF AssemblerInv, GroupsTyped
  <2>2. Cardinality(DOMAIN groups) <= MaxGroups /\ MaxGroups \in Nat
    BY AssemblerAssumption DEF AssemblerInv, GroupsTyped
  <2> QED
    BY <2>1, <2>2
<1>6. GroupTyped(g, k, now)
  BY <1>1, ProgressTyped DEF AssemblerInv
<1> HIDE DEF g
<1>7. GroupsTyped' /\ PeaksCover'
  BY <1>1, <1>2, <1>3, <1>4, <1>5, <1>6, GroupsUpdated DEF AssemblerInv
<1>8. Cardinality({}) = 0
  BY FS_EmptySet
<1>9. /\ count' \in [Statuses \cup Losses -> Nat]
      /\ count["COMPLETE"] \in Nat /\ count["CONFLICT"] \in Nat
      /\ count["expired"] \in Nat /\ count["capacity_evicted"] \in Nat
      /\ count["reset_discarded"] \in Nat
      /\ count'["expired"] = count["expired"] + Cardinality(Expired)
      /\ \A c \in {"COMPLETE", "CONFLICT", "capacity_evicted", "reset_discarded"} :
           count'[c] = count[c]
  <2>1. Moved("PENDING", Expired, {})
    BY <1>1, <1>2, <1>5, <1>8, CountMoves DEF AssemblerInv
  <2> QED
    BY <1>1, <1>2, <1>5, <1>8, <2>1 DEF Moved
<1>10. CountsTyped'
  BY <1>1, <1>2, <1>3, <1>9 DEF AssemblerInv, CountsTyped
<1>11. Accounted'
  <2>1. started = Cardinality(DOMAIN groups) + count["COMPLETE"] + count["CONFLICT"]
            + count["expired"] + count["capacity_evicted"] + count["reset_discarded"]
    BY DEF AssemblerInv, Accounted
  <2>2. /\ Cardinality(DOMAIN groups') = Cardinality(DOMAIN groups) - Cardinality(Expired)
        /\ started' = started
    BY <1>1, <1>4, <1>5
  <2>3. count["capacity_evicted"] \in Nat
    BY DEF AssemblerInv, CountsTyped, Losses
  <2> QED
    BY ONLY <1>5, <1>9, <2>1, <2>2, <2>3 DEF Accounted
<1>12. NoStaleCompletion'
  BY <1>3 DEF NoStaleCompletion
<1> QED
  BY <1>7, <1>10, <1>11, <1>12 DEF AssemblerInv

\* The first fragment of a group.
LEMMA StartStep ==
  ASSUME AssemblerInv, NEW k \in Keys, NEW i \in Ordinals(k), NEW x \in Texts,
         Start(k, i, x)
  PROVE  AssemblerInv'
<1> DEFINE evicted == Evicted(DOMAIN groups \ Expired)
           gone == Expired \cup evicted
<1>1. /\ Outcome("PENDING", k, <<>>, gone, 0) /\ Count("PENDING", Expired, evicted)
      /\ groups' = Updated(gone, k, NewGroup(i, x)) /\ UpdatePeaks
      /\ started' = started + 1
      /\ ~Live(k) /\ Multipart(k)
  BY DEF Start, Discarded
<1>2. /\ gone \in SUBSET DOMAIN groups
      /\ Cardinality(Expired) \in Nat /\ Cardinality(evicted) \in Nat
      /\ Cardinality(DOMAIN groups) \in Nat
      /\ Cardinality((DOMAIN groups \ gone) \cup {k})
           = Cardinality(DOMAIN groups) - Cardinality(Expired) - Cardinality(evicted) + 1
      /\ Cardinality((DOMAIN groups \ gone) \cup {k}) <= MaxGroups
  BY <1>1, StartFits DEF AssemblerInv
<1> HIDE DEF evicted, gone
<1>3. gone \subseteq Keys /\ "PENDING" \in Statuses
  BY <1>2 DEF AssemblerInv, GroupsTyped, Statuses
<1>4. /\ now' = now /\ now' \in Nat /\ calls' \in Nat
      /\ outcome'.status = "PENDING" /\ outcome'.discarded = gone
  BY <1>1, <1>3, OutcomeSays DEF AssemblerInv
<1>5. GroupTyped(NewGroup(i, x), k, now)
  BY <1>1, NewGroupTyped DEF AssemblerInv
<1>6. GroupsTyped' /\ PeaksCover'
  BY <1>1, <1>2, <1>4, <1>5, GroupsUpdated DEF AssemblerInv
<1>7. DOMAIN groups' = (DOMAIN groups \ gone) \cup {k}
  BY <1>1 DEF Updated
<1>8. /\ count' \in [Statuses \cup Losses -> Nat]
      /\ count["COMPLETE"] \in Nat /\ count["CONFLICT"] \in Nat
      /\ count["expired"] \in Nat /\ count["capacity_evicted"] \in Nat
      /\ count["reset_discarded"] \in Nat
      /\ count'["expired"] = count["expired"] + Cardinality(Expired)
      /\ count'["capacity_evicted"] = count["capacity_evicted"] + Cardinality(evicted)
      /\ \A c \in {"COMPLETE", "CONFLICT", "reset_discarded"} : count'[c] = count[c]
  <2>1. Moved("PENDING", Expired, evicted)
    BY <1>1, <1>2, <1>3, CountMoves DEF AssemblerInv
  <2>2. /\ count'["COMPLETE"] = count["COMPLETE"] + 0
        /\ count'["CONFLICT"] = count["CONFLICT"] + 0
    BY ONLY <2>1 DEF Moved
  <2> QED
    BY ONLY <2>1, <2>2 DEF Moved
<1>9. CountsTyped'
  BY <1>1, <1>3, <1>4, <1>8 DEF AssemblerInv, CountsTyped
<1>10. Accounted'
  <2>1. started = Cardinality(DOMAIN groups) + count["COMPLETE"] + count["CONFLICT"]
            + count["expired"] + count["capacity_evicted"] + count["reset_discarded"]
    BY DEF AssemblerInv, Accounted
  <2>2. Cardinality(DOMAIN groups') = Cardinality(DOMAIN groups) - Cardinality(Expired)
                                      - Cardinality(evicted) + 1
    BY <1>2, <1>7
  <2>3. started' = started + 1
    BY <1>1
  <2> QED
    BY <1>2, <1>8, <2>1, <2>2, <2>3 DEF Accounted
<1>11. NoStaleCompletion'
  BY <1>4 DEF NoStaleCompletion
<1> QED
  BY <1>6, <1>9, <1>10, <1>11 DEF AssemblerInv

\* A reset of the assembler.
LEMMA ResetStep ==
  ASSUME AssemblerInv, Reset
  PROVE  AssemblerInv'
<1>1. /\ groups' = Without(DOMAIN groups) /\ calls' = calls + 1
      /\ count' = [count EXCEPT !["reset_discarded"] = @ + Cardinality(DOMAIN groups),
                                !["resets"] = @ + 1]
      /\ now' = now /\ outcome' = outcome /\ peak' = peak /\ started' = started
  BY DEF Reset
<1>2. /\ GroupsTyped' /\ PeaksCover'
      /\ Cardinality(DOMAIN groups) \in Nat
      /\ Cardinality(DOMAIN groups)' = Cardinality(DOMAIN groups) - Cardinality(DOMAIN groups)
  BY <1>1, GroupsShrink DEF AssemblerInv
<1>3. /\ count \in [Statuses \cup Losses -> Nat]
      /\ {"COMPLETE", "CONFLICT", "expired", "capacity_evicted", "reset_discarded",
          "resets"} \subseteq Statuses \cup Losses
  BY DEF AssemblerInv, CountsTyped, Statuses, Losses
<1>4. \A c \in Statuses \cup Losses : count[c] \in Nat
  BY <1>3
<1>5. /\ count' \in [Statuses \cup Losses -> Nat]
      /\ count'["reset_discarded"] = count["reset_discarded"] + Cardinality(DOMAIN groups)
      /\ \A c \in {"COMPLETE", "CONFLICT", "expired", "capacity_evicted"} :
           count'[c] = count[c]
  BY <1>1, <1>2, <1>3, <1>4
<1>6. CountsTyped'
  BY <1>1, <1>5 DEF AssemblerInv, CountsTyped
<1>7. Accounted'
  BY <1>1, <1>2, <1>3, <1>4, <1>5 DEF AssemblerInv, Accounted
<1>8. NoStaleCompletion'
  BY <1>1 DEF AssemblerInv, NoStaleCompletion
<1> QED
  BY <1>2, <1>6, <1>7, <1>8 DEF AssemblerInv

\* The clock.
LEMMA TickStep ==
  ASSUME AssemblerInv, Tick
  PROVE  AssemblerInv'
<1>1. /\ now \in Nat /\ now' = now + 1 /\ groups' = groups /\ outcome' = outcome
      /\ count' = count /\ peak' = peak /\ started' = started /\ calls' = calls
  BY DEF Tick, AssemblerInv, CountsTyped
<1>2. 0 .. now \subseteq 0 .. now' /\ now' \in Nat
  BY <1>1
<1>3. \A k \in DOMAIN groups : GroupTyped(groups[k], k, now')
  BY <1>2 DEF AssemblerInv, GroupsTyped, GroupTyped
<1>4. GroupsTyped' /\ PeaksCover'
  BY <1>1, <1>3 DEF AssemblerInv, GroupsTyped, PeaksCover, Multipart
<1> QED
  BY <1>1, <1>2, <1>4 DEF AssemblerInv, CountsTyped, Accounted, NoStaleCompletion

\* The assembler's invariant holds at first,
LEMMA AssemblerInvInit == Init => AssemblerInv
<1> SUFFICES ASSUME Init PROVE AssemblerInv
  OBVIOUS
<1>1. groups = [k \in {} |-> {}] /\ DOMAIN groups = {} /\ Held(groups) = {}
  BY DEF Init, Held
<1>2. GroupsTyped
  BY <1>1, FS_EmptySet, AssemblerAssumption DEF GroupsTyped
<1>3. PeaksCover
  <2>1. Cardinality(DOMAIN groups) = 0 /\ FragmentsIn(groups) = 0
    BY <1>1, FS_EmptySet DEF FragmentsIn
  <2> QED
    BY <2>1 DEF PeaksCover, Init
<1>4. CountsTyped
  BY DEF CountsTyped, Init, Statuses
<1>5. Accounted
  BY <1>1, FS_EmptySet DEF Accounted, Init, Statuses, Losses
<1>6. NoStaleCompletion
  BY DEF NoStaleCompletion, Init
<1> QED
  BY <1>2, <1>3, <1>4, <1>5, <1>6 DEF AssemblerInv

\* every step keeps it,
LEMMA AssemblerInvStep == AssemblerInv /\ [Next]_vars => AssemblerInv'
<1> SUFFICES ASSUME AssemblerInv, [Next]_vars PROVE AssemblerInv'
  OBVIOUS
<1>1. ASSUME NEW k \in Keys, NEW i \in Ordinals(k), NEW x \in Texts, Feed(k, i, x)
      PROVE  AssemblerInv'
  <2>1. ASSUME NEW status \in {"SINGLE", "LIMIT_EXCEEDED"}, NEW sentences,
               PassBy(status, sentences)
        PROVE  AssemblerInv'
    BY <2>1, PassByStep DEF Statuses
  <2>2. CASE Single(k, x) \/ LimitExceeded(k)
    BY <2>1, <2>2 DEF Single, LimitExceeded
  <2> QED
    BY <1>1, <2>2, DuplicateStep, ConflictStep, CompleteStep, ExtendStep, StartStep
       DEF Feed
<1>2. CASE Invalid
  BY <1>2, PassByStep DEF Invalid, Statuses
<1>3. CASE UNCHANGED vars
  BY <1>3 DEF vars, AssemblerInv, GroupsTyped, PeaksCover, CountsTyped, Accounted,
              NoStaleCompletion, Multipart, FragmentsIn, Held
<1> QED
  BY <1>1, <1>2, <1>3, ResetStep, TickStep DEF Next

-----------------------------------------------------------------------------
(* The theorems.                                                           *)

\* AssemblerInv holds in every state.
LEMMA AssemblerInvAlways == Spec => []AssemblerInv
<1> QED
  BY AssemblerInvInit, AssemblerInvStep, PTL DEF Spec

\* and it implies what the run checks.
LEMMA AssemblerInvGivesConsistent == AssemblerInv => Consistent
<1> SUFFICES ASSUME AssemblerInv PROVE Consistent
  OBVIOUS
<1>1. TypeOK
  BY DEF TypeOK, AssemblerInv, GroupsTyped, GroupTyped, PeaksCover, CountsTyped
<1>2. Ledger
  BY DEF Ledger, AssemblerInv, PeaksCover, Accounted
<1> QED
  BY <1>1, <1>2 DEF Consistent

\* The counters of stats() account for every group ever created, the peaks
\* cover every state, and the dictionary keeps to its limit.
THEOREM AssemblerIsConsistent == Spec => []Consistent
<1> QED
  BY AssemblerInvAlways, AssemblerInvGivesConsistent, PTL

\* No message is completed across a silence as long as the timeout, swept or not.
THEOREM NoneCompletesStale == Spec => []NoStaleCompletion
<1>1. AssemblerInv => NoStaleCompletion
  BY DEF AssemblerInv
<1> QED
  BY <1>1, AssemblerInvAlways, PTL

\* The calls that end groups only.
LEMMA EndingCalls ==
  ASSUME AssemblerInv, NEW k \in Keys, NEW i \in Ordinals(k), NEW x
  PROVE  /\ Duplicate(k, i, x) =>
              /\ groups' = Without(Expired) /\ outcome'.discarded = Expired
              /\ outcome'.status = "DUPLICATE" /\ outcome'.key = k
         /\ Conflict(k, i, x) =>
              /\ groups' = Without(Expired \cup {k})
              /\ outcome'.discarded = Expired \cup {k} /\ k \in DOMAIN groups
              /\ outcome'.status = "CONFLICT" /\ outcome'.key = k
         /\ Complete(k, i, x) =>
              /\ groups' = Without({k}) /\ outcome'.discarded = {} /\ k \in DOMAIN groups
              /\ outcome'.status = "COMPLETE" /\ outcome'.key = k
BY DEF Duplicate, Duplicated, Conflict, Complete, Outcome, Live

\* Extend: the expired groups end, and the group of k has one fragment more.
LEMMA ExtendLeaves ==
  ASSUME AssemblerInv, NEW k \in Keys, NEW i \in Ordinals(k), NEW x, Extend(k, i, x)
  PROVE  /\ k \in DOMAIN groups \ Expired
         /\ DOMAIN groups' = DOMAIN groups \ Expired
         /\ \A j \in DOMAIN groups' \ {k} : groups'[j] = groups[j]
         /\ i \notin DOMAIN groups[k].fragments
         /\ groups'[k].fragments = [o \in DOMAIN groups[k].fragments \cup {i} |->
                                      IF o = i THEN x ELSE groups[k].fragments[o]]
         /\ outcome'.status = "PENDING" /\ outcome'.key = k
         /\ outcome'.discarded = Expired
<1>1. /\ groups' = Updated(Expired, k, Progress(groups[k], i, x))
      /\ k \in DOMAIN groups \ Expired /\ i \notin DOMAIN groups[k].fragments
      /\ outcome'.status = "PENDING" /\ outcome'.key = k /\ outcome'.discarded = Expired
  BY DEF Extend, Outcome, Live, Expired
<1>2. groups'[k] = Progress(groups[k], i, x)
  BY <1>1 DEF Updated
<1>3. DOMAIN groups' = DOMAIN groups \ Expired
  BY <1>1 DEF Updated
<1>4. \A j \in DOMAIN groups' \ {k} : groups'[j] = groups[j]
  BY <1>1 DEF Updated
<1> QED
  BY <1>1, <1>2, <1>3, <1>4 DEF Progress

\* Start: the expired groups end and what the limit evicts, and k has a new one.
LEMMA StartLeaves ==
  ASSUME AssemblerInv, NEW k \in Keys, NEW i \in Ordinals(k), NEW x, Start(k, i, x)
  PROVE  LET evicted == Evicted(DOMAIN groups \ Expired)
             gone == Expired \cup evicted
         IN  /\ gone \subseteq DOMAIN groups /\ k \notin evicted /\ ~Live(k)
             /\ evicted \subseteq DOMAIN groups \ Expired
             /\ DOMAIN groups' = (DOMAIN groups \ gone) \cup {k}
             /\ k \in DOMAIN groups => k \in Expired
             /\ \A j \in DOMAIN groups' \ {k} : groups'[j] = groups[j]
             /\ groups'[k] = NewGroup(i, x)
             /\ outcome'.status = "PENDING" /\ outcome'.key = k
             /\ outcome'.discarded = gone
<1> DEFINE evicted == Evicted(DOMAIN groups \ Expired)
           gone == Expired \cup evicted
<1>1. /\ groups' = Updated(gone, k, NewGroup(i, x)) /\ ~Live(k)
      /\ outcome'.status = "PENDING" /\ outcome'.key = k /\ outcome'.discarded = gone
  BY DEF Start, Outcome, Discarded
<1>2. gone \subseteq DOMAIN groups /\ k \notin evicted
  BY <1>1, StartFits DEF AssemblerInv
<1>3. evicted \subseteq DOMAIN groups \ Expired
  BY EvictionFits DEF AssemblerInv
<1>4. k \in DOMAIN groups => k \in Expired
  BY <1>1 DEF Live, Expired
<1> HIDE DEF gone, evicted
<1>5. /\ DOMAIN groups' = (DOMAIN groups \ gone) \cup {k}
      /\ \A j \in DOMAIN groups' \ {k} : groups'[j] = groups[j]
      /\ groups'[k] = NewGroup(i, x)
  BY <1>1 DEF Updated
<1> QED
  BY <1>1, <1>2, <1>3, <1>4, <1>5 DEF gone, evicted

-----------------------------------------------------------------------------
(* The action properties.                                                  *)

\* Calls that leave the groups and report none.
Passes ==
  groups' = groups /\ outcome'.discarded = {} /\ outcome'.status \notin {"COMPLETE", "PENDING"}

\* Which calls pass by the groups.
LEMMA PassingCalls ==
  /\ \A k \in Keys, x \in Texts : Single(k, x) \/ LimitExceeded(k) => Passes
  /\ Invalid => Passes
BY DEF Single, LimitExceeded, Invalid, PassBy, Outcome, Passes

\* Reset counts itself.
LEMMA ResetIsCounted ==
  ASSUME AssemblerInv, Reset
  PROVE  count'["resets"] # count["resets"]
<1>1. /\ count' = [count EXCEPT !["reset_discarded"] = @ + Cardinality(DOMAIN groups),
                                !["resets"] = @ + 1]
      /\ count \in [Statuses \cup Losses -> Nat] /\ "resets" \in Losses
  BY DEF Reset, AssemblerInv, CountsTyped, Losses
<1>2. count["resets"] \in Nat
  BY <1>1
<1> QED
  BY <1>1, <1>2

\* A caller that keeps metadata per group learns of every group that ends, from
\* discarded_keys or the COMPLETE outcome, and of no other.
THEOREM EveryEndIsReported == Spec => EndsAreReported
<1> DEFINE
      told == outcome'.discarded \cup
                (IF outcome'.status = "COMPLETE" THEN {outcome'.key} ELSE {})
      Told == /\ Ended \subseteq told
              /\ told \subseteq DOMAIN groups
              /\ \A k \in told \cap DOMAIN groups' : k = outcome'.key /\ Stale(groups[k])
      Reports == (calls' # calls /\ count'["resets"] = count["resets"]) => Told
<1>1. ASSUME AssemblerInv, Passes
      PROVE  Told
  <2>1. Ended = {}
    BY <1>1 DEF Ended, Passes
  <2> QED
    BY <1>1, <2>1 DEF Passes
<1>2. ASSUME NEW S, S \subseteq DOMAIN groups, groups' = Without(S), told = S
      PROVE  Told
  <2>1. DOMAIN groups' = DOMAIN groups \ S /\ \A j \in DOMAIN groups' : groups'[j] = groups[j]
    BY <1>2 DEF Without
  <2>2. Ended \subseteq S
    BY <2>1 DEF Ended
  <2> QED
    BY <1>2, <2>1, <2>2
<1>3. ASSUME AssemblerInv, NEW k \in Keys, NEW i \in Ordinals(k), NEW x \in Texts,
             Feed(k, i, x)
      PROVE  Told
  <2>1. Expired \subseteq DOMAIN groups
    BY DEF Expired
  <2>2. CASE Single(k, x) \/ LimitExceeded(k)
    BY <1>1, <1>3, <2>2, PassingCalls
  <2>3. CASE Duplicate(k, i, x)
    <3>1. groups' = Without(Expired) /\ told = Expired
      BY <1>3, <2>3, EndingCalls
    <3> QED
      BY <1>2, <2>1, <3>1
  <2>4. CASE Conflict(k, i, x)
    <3>1. /\ groups' = Without(Expired \cup {k}) /\ told = Expired \cup {k}
          /\ Expired \cup {k} \subseteq DOMAIN groups
      BY <1>3, <2>1, <2>4, EndingCalls
    <3> QED
      BY <1>2, <3>1
  <2>5. CASE Complete(k, i, x)
    <3>1. groups' = Without({k}) /\ told = {k} /\ {k} \subseteq DOMAIN groups
      BY <1>3, <2>5, EndingCalls
    <3> QED
      BY <1>2, <3>1
  <2>6. CASE Extend(k, i, x)
    <3>1. /\ k \in DOMAIN groups \ Expired
          /\ DOMAIN groups' = DOMAIN groups \ Expired
          /\ \A j \in DOMAIN groups' \ {k} : groups'[j] = groups[j]
          /\ i \notin DOMAIN groups[k].fragments
          /\ groups'[k].fragments = [o \in DOMAIN groups[k].fragments \cup {i} |->
                                       IF o = i THEN x ELSE groups[k].fragments[o]]
          /\ told = Expired
      BY <1>3, <2>6, ExtendLeaves
    <3>2. k \notin Ended
      BY <3>1 DEF Ended
    <3>3. Ended \subseteq Expired
      BY <3>1, <3>2 DEF Ended
    <3> QED
      BY <2>1, <3>1, <3>3
  <2>7. CASE Start(k, i, x)
    <3> DEFINE evicted == Evicted(DOMAIN groups \ Expired)
               gone == Expired \cup evicted
    <3>1. /\ gone \subseteq DOMAIN groups /\ k \notin evicted
          /\ DOMAIN groups' = (DOMAIN groups \ gone) \cup {k}
          /\ k \in DOMAIN groups => k \in Expired
          /\ \A j \in DOMAIN groups' \ {k} : groups'[j] = groups[j]
          /\ told = gone /\ outcome'.key = k
      BY <1>3, <2>7, StartLeaves
    <3> HIDE DEF evicted, told
    <3>2. Ended \subseteq gone
      BY <3>1 DEF Ended
    <3>3. \A j \in gone \cap DOMAIN groups' : j = k /\ Stale(groups[j])
      BY <3>1 DEF Expired
    <3> QED
      BY <3>1, <3>2, <3>3
  <2> QED
    BY <1>3, <2>2, <2>3, <2>4, <2>5, <2>6, <2>7 DEF Feed
<1>4. ASSUME AssemblerInv, Next
      PROVE  Reports
  <2>1. CASE Invalid
    BY <1>1, <1>4, <2>1, PassingCalls
  <2>2. CASE Tick
    BY <2>2 DEF Tick
  <2> QED
    BY <1>3, <1>4, <2>1, <2>2, ResetIsCounted DEF Next
<1>5. AssemblerInv /\ [Next]_vars => [Reports]_vars
  BY <1>4
<1> QED
  BY <1>5, AssemblerInvAlways, PTL DEF Spec, EndsAreReported

\* Repeated fragments do not keep a group alive.
THEOREM RepeatsDoNotRenew == Spec => OnlyProgressRenews
<1> DEFINE
      Renews == \A k \in DOMAIN groups \cap DOMAIN groups' :
        groups'[k].last_progress_at # groups[k].last_progress_at =>
          \/ Cardinality(DOMAIN groups'[k].fragments)
               > Cardinality(DOMAIN groups[k].fragments)
          \/ Stale(groups[k])
<1>1. ASSUME NEW S, groups' = Without(S)
      PROVE  Renews
  BY <1>1 DEF Without
<1>2. ASSUME groups' = groups
      PROVE  Renews
  BY <1>2
<1>3. ASSUME AssemblerInv, NEW k \in Keys, NEW i \in Ordinals(k), NEW x \in Texts,
             Extend(k, i, x)
      PROVE  Renews
  <2>1. /\ k \in DOMAIN groups
        /\ \A j \in DOMAIN groups' \ {k} : groups'[j] = groups[j]
        /\ i \notin DOMAIN groups[k].fragments
        /\ groups'[k].fragments = [o \in DOMAIN groups[k].fragments \cup {i} |->
                                     IF o = i THEN x ELSE groups[k].fragments[o]]
    BY <1>3, ExtendLeaves
  <2>2. IsFiniteSet(DOMAIN groups[k].fragments)
    <3>1. DOMAIN groups[k].fragments \subseteq Ordinals(k) /\ IsFiniteSet(Ordinals(k))
      BY <1>3, <2>1, FragmentsAre, OrdinalsCount DEF AssemblerInv, GroupsTyped, GroupTyped
    <3> QED
      BY <3>1, FS_Subset
  <2>3. DOMAIN groups'[k].fragments = DOMAIN groups[k].fragments \cup {i}
    BY <2>1
  <2>4. /\ Cardinality(DOMAIN groups'[k].fragments)
             = Cardinality(DOMAIN groups[k].fragments) + 1
        /\ Cardinality(DOMAIN groups[k].fragments) \in Nat
    BY <2>1, <2>2, <2>3, FS_AddElement, FS_CardinalityType
  <2>5. Cardinality(DOMAIN groups'[k].fragments) > Cardinality(DOMAIN groups[k].fragments)
    BY <2>4
  <2> QED
    BY <2>1, <2>5
<1>4. ASSUME AssemblerInv, NEW k \in Keys, NEW i \in Ordinals(k), NEW x \in Texts,
             Start(k, i, x)
      PROVE  Renews
  <2>1. /\ k \in DOMAIN groups => k \in Expired
        /\ \A j \in DOMAIN groups' \ {k} : groups'[j] = groups[j]
    BY <1>4, StartLeaves
  <2> QED
    BY <2>1 DEF Expired
<1>5. ASSUME AssemblerInv, Next
      PROVE  Renews
  <2>1. ASSUME NEW k \in Keys, NEW i \in Ordinals(k), NEW x \in Texts, Feed(k, i, x)
        PROVE  Renews
    <3>1. CASE Single(k, x) \/ LimitExceeded(k)
      BY <1>2, <3>1, PassingCalls DEF Passes
    <3>2. CASE Duplicate(k, i, x) \/ Conflict(k, i, x) \/ Complete(k, i, x)
      BY <1>1, <1>5, <3>2, EndingCalls
    <3> QED
      BY <1>3, <1>4, <1>5, <2>1, <3>1, <3>2 DEF Feed
  <2>2. CASE Invalid
    BY <1>2, <2>2, PassingCalls DEF Passes
  <2>3. CASE Reset
    BY <1>1, <2>3 DEF Reset
  <2>4. CASE Tick
    BY <1>2, <2>4 DEF Tick
  <2> QED
    BY <1>5, <2>1, <2>2, <2>3, <2>4 DEF Next
<1>6. AssemblerInv /\ [Next]_vars => [Renews]_vars
  BY <1>5
<1> QED
  BY <1>6, AssemblerInvAlways, PTL DEF Spec, OnlyProgressRenews

\* _evict_capacity_victim takes a live group only when max_pending_groups others
\* are live, and then it is the one that waited longest, the least key among
\* equals, and goes alone.
THEOREM LongestWaitingGoes == Spec => EvictsLongestWaiting
<1> DEFINE
      Evicts == \A v \in DOMAIN groups \ DOMAIN groups' :
        (Live(v) /\ outcome'.status = "PENDING" /\ calls' # calls
         /\ count'["resets"] = count["resets"]) =>
          LET live == DOMAIN groups \ Expired
          IN  /\ Cardinality(live) = MaxGroups
              /\ live \ {v} \subseteq DOMAIN groups'
              /\ \A k \in live \ {v} :
                   \/ groups[v].last_progress_at < groups[k].last_progress_at
                   \/ groups[v].last_progress_at = groups[k].last_progress_at /\ v < k
<1>1. ASSUME AssemblerInv, NEW k \in Keys, NEW i \in Ordinals(k), NEW x \in Texts,
             Feed(k, i, x)
      PROVE  Evicts
  <2>1. \A v \in Expired : ~Live(v)
    BY DEF Expired, Live
  <2>2. CASE Single(k, x) \/ LimitExceeded(k)
    BY <2>2, PassingCalls DEF Passes
  <2>3. CASE Duplicate(k, i, x) \/ Conflict(k, i, x) \/ Complete(k, i, x)
    BY <1>1, <2>3, EndingCalls
  <2>4. CASE Extend(k, i, x)
    BY <1>1, <2>1, <2>4, ExtendLeaves
  <2>5. CASE Start(k, i, x)
    <3> DEFINE S == DOMAIN groups \ Expired
    <3>1. /\ DOMAIN groups' = (DOMAIN groups \ (Expired \cup Evicted(S))) \cup {k}
          /\ outcome'.key = k
      BY <1>1, <2>5, StartLeaves
    <3>2. \A v \in Evicted(S) : Cardinality(S) = MaxGroups /\ Longest(v, S)
      BY <1>1, EvictionFits DEF AssemblerInv
    <3>3. \A v \in DOMAIN groups \ DOMAIN groups' : Live(v) => v \in Evicted(S)
      BY <2>1, <3>1
    <3>4. \A v \in Evicted(S) : Evicted(S) = {v}
      BY DEF Evicted
    <3>5. \A v \in DOMAIN groups \ DOMAIN groups' : Live(v) => S \ {v} \subseteq DOMAIN groups'
      BY <3>1, <3>3, <3>4
    <3> QED
      BY <3>2, <3>3, <3>5 DEF Longest
  <2> QED
    BY <1>1, <2>2, <2>3, <2>4, <2>5 DEF Feed
<1>2. ASSUME AssemblerInv, Next
      PROVE  Evicts
  <2>1. CASE Invalid
    BY <2>1, PassingCalls DEF Passes
  <2>2. CASE Tick
    BY <2>2 DEF Tick
  <2> QED
    BY <1>1, <1>2, <2>1, <2>2, ResetIsCounted DEF Next
<1>3. AssemblerInv /\ [Next]_vars => [Evicts]_vars
  BY <1>2
<1> QED
  BY <1>3, AssemblerInvAlways, PTL DEF Spec, EvictsLongestWaiting

-----------------------------------------------------------------------------
(* The refinement.                                                         *)

Pieces == [k \in Keys |-> IF k \in DOMAIN groups THEN groups[k].fragments
                          ELSE [i \in {} |-> {}]]

Delivered == IF outcome.status = "COMPLETE"
             THEN [key |-> outcome.key, lines |-> outcome.sentences]
             ELSE [key |-> NoKey, lines |-> <<>>]

\* Groups that only go are fragments that are only lost.
LEMMA LossIsDrop ==
  ASSUME NEW S, groups' = Without(S),
         outcome'.status # "COMPLETE" \/ outcome' = outcome
  PROVE  Promise!Drop
<1>1. \A k \in Keys : Pieces'[k] \in {Pieces[k], [i \in {} |-> {}]}
  BY DEF Pieces, Without
<1>2. DOMAIN Pieces' = Keys
  BY DEF Pieces
<1>3. Delivered' \in {Delivered, [key |-> NoKey, lines |-> <<>>]}
  BY DEF Delivered
<1> QED
  BY <1>1, <1>2, <1>3
     DEF Promise!Drop, Promise!KeptOrDropped, Promise!Nothing, Promise!Empty, Pieces,
         Delivered, NoKey

\* A call that leaves the groups loses nothing.
LEMMA PassIsDrop ==
  ASSUME groups' = groups, outcome'.status # "COMPLETE" \/ outcome' = outcome
  PROVE  Promise!Drop
<1>1. Pieces' = Pieces
  BY DEF Pieces
<1>2. \A k \in Keys : Pieces'[k] \in {Pieces[k], [i \in {} |-> {}]}
  BY <1>1
<1>3. DOMAIN Pieces' = Keys
  BY DEF Pieces
<1>4. Delivered' \in {Delivered, [key |-> NoKey, lines |-> <<>>]}
  BY DEF Delivered
<1> QED
  BY <1>2, <1>3, <1>4
     DEF Promise!Drop, Promise!KeptOrDropped, Promise!Nothing, Promise!Empty, Pieces,
         Delivered, NoKey

\* The fragment that fills a group delivers its message.
LEMMA CompletionDelivers ==
  ASSUME AssemblerInv, NEW k \in Keys, NEW i \in Ordinals(k), NEW x \in Texts,
         Complete(k, i, x)
  PROVE  Promise!Deliver(k, i, x)
<1> DEFINE f == groups[k].fragments
<1>1. /\ k \in DOMAIN groups /\ i \notin DOMAIN f
      /\ Cardinality(DOMAIN f) + 1 = Total[k]
      /\ outcome'.status = "COMPLETE" /\ outcome'.key = k
      /\ outcome'.sentences = [o \in Ordinals(k) |-> Progress(groups[k], i, x).fragments[o]]
      /\ groups' = Without({k})
  BY DEF Complete, Outcome, Live, Fills
<1>2. DOMAIN f \subseteq Ordinals(k)
  BY <1>1, FragmentsAre DEF AssemblerInv, GroupsTyped, GroupTyped
<1>3. DOMAIN f \cup {i} = 1 .. Total[k]
  <2>1. IsFiniteSet(Ordinals(k)) /\ Cardinality(Ordinals(k)) = Total[k]
    BY OrdinalsCount
  <2>2. IsFiniteSet(DOMAIN f)
    BY <1>2, <2>1, FS_Subset
  <2>3. Cardinality(DOMAIN f \cup {i}) = Total[k]
    BY <1>1, <2>2, FS_AddElement
  <2>4. DOMAIN f \cup {i} \in SUBSET Ordinals(k)
    BY <1>2
  <2>5. DOMAIN f \cup {i} = Ordinals(k)
    BY <2>1, <2>3, <2>4, FS_Subset
  <2> QED
    BY <2>5 DEF Ordinals
<1>4. /\ Pieces[k] = f
      /\ Pieces'[k] = [o \in {} |-> {}]
      /\ DOMAIN Pieces' = Keys
      /\ \A j \in Keys \ {k} : Pieces'[j] = Pieces[j]
  BY <1>1 DEF Pieces, Without
<1>5. Delivered' = [key |-> k, lines |-> [o \in DOMAIN f \cup {i} |-> IF o = i THEN x ELSE f[o]]]
  <2>1. \A o \in DOMAIN f \cup {i} :
          Progress(groups[k], i, x).fragments[o] = IF o = i THEN x ELSE f[o]
    BY DEF Progress
  <2>2. Ordinals(k) = DOMAIN f \cup {i}
    BY <1>3 DEF Ordinals
  <2>3. outcome'.sentences = [o \in DOMAIN f \cup {i} |-> IF o = i THEN x ELSE f[o]]
    BY <1>1, <2>1, <2>2
  <2> QED
    BY <1>1, <2>3 DEF Delivered
<1> HIDE DEF f
<1>6. /\ Delivered'.key = k
      /\ Delivered' = [key |-> k, lines |-> Promise!With(Pieces[k], i, x)]
  BY ONLY <1>4, <1>5 DEF Promise!With, Pieces, Delivered, NoKey
<1>7. Promise!KeptOrDropped(Keys \ {k}) /\ Pieces'[k] = Promise!Empty
  BY ONLY <1>4 DEF Promise!KeptOrDropped, Promise!Empty, Pieces
<1>8. i \notin DOMAIN Pieces[k] /\ DOMAIN Pieces[k] \cup {i} = 1 .. Total[k]
  BY ONLY <1>1, <1>3, <1>4
<1> QED
  BY ONLY <1>6, <1>7, <1>8 DEF Promise!Deliver, Pieces, Delivered, NoKey

\* A fragment that is stored is received: added to those of its live group, or
\* the only one of a new group.
LEMMA StoringReceives ==
  ASSUME AssemblerInv, NEW k \in Keys, NEW i \in Ordinals(k), NEW x \in Texts,
         Extend(k, i, x) \/ Start(k, i, x)
  PROVE  Promise!Receive(k, i, x)
<1> DEFINE before == IF Live(k) THEN groups[k].fragments ELSE [o \in {} |-> {}]
           after == [o \in DOMAIN before \cup {i} |-> IF o = i THEN x ELSE before[o]]
<1>1. CASE Extend(k, i, x)
  <2>1. Live(k) /\ k \in DOMAIN groups /\ ~Fills(groups[k], k)
    BY <1>1 DEF Extend, Live
  <2>2. /\ DOMAIN groups' = DOMAIN groups \ Expired
        /\ k \in DOMAIN groups'
        /\ \A j \in DOMAIN groups' \ {k} : groups'[j] = groups[j]
        /\ i \notin DOMAIN groups[k].fragments
        /\ groups'[k].fragments = after
        /\ outcome'.status = "PENDING"
    <3>1. before = groups[k].fragments
      BY <2>1
    <3> HIDE DEF before
    <3> QED
      BY <1>1, <2>1, <3>1, ExtendLeaves
  <2>3. Cardinality(DOMAIN groups[k].fragments \cup {i})
          = Cardinality(DOMAIN groups[k].fragments) + 1
    <3>1. DOMAIN groups[k].fragments \subseteq Ordinals(k) /\ IsFiniteSet(Ordinals(k))
      BY <2>1, FragmentsAre, OrdinalsCount DEF AssemblerInv, GroupsTyped, GroupTyped
    <3>2. IsFiniteSet(DOMAIN groups[k].fragments)
      BY <3>1, FS_Subset
    <3> QED
      BY <2>2, <3>2, FS_AddElement
  <2>4. DOMAIN groups[k].fragments \cup {i} # 1 .. Total[k]
    BY <2>1, <2>3, OrdinalsCount DEF Fills, Ordinals
  <2>5. /\ before = Pieces[k] /\ i \notin DOMAIN before
        /\ DOMAIN before \cup {i} # 1 .. Total[k]
        /\ Pieces'[k] = after
    BY <2>1, <2>2, <2>4 DEF Pieces
  <2>6. /\ DOMAIN Pieces' = Keys
        /\ \A j \in Keys \ {k} : Pieces'[j] \in {Pieces[j], [o \in {} |-> {}]}
    BY <2>2 DEF Pieces
  <2>7. Delivered' = [key |-> NoKey, lines |-> <<>>]
    BY <2>2 DEF Delivered
  <2> HIDE DEF before
  <2> QED
    BY <2>5, <2>6, <2>7
       DEF Promise!Receive, Promise!With, Promise!KeptOrDropped, Promise!Empty,
           Promise!Nothing, Pieces, Delivered, NoKey
<1>2. CASE Start(k, i, x)
  <2> DEFINE gone == Expired \cup Evicted(DOMAIN groups \ Expired)
  <2>1. /\ DOMAIN groups' = (DOMAIN groups \ gone) \cup {k}
        /\ \A j \in DOMAIN groups' \ {k} : groups'[j] = groups[j]
        /\ groups'[k] = NewGroup(i, x)
        /\ outcome'.status = "PENDING" /\ ~Live(k)
    BY <1>2, StartLeaves
  <2>2. {i} # 1 .. Total[k]
    <3>1. 1 \in 1 .. Total[k] /\ 2 \in 1 .. Total[k]
      BY <1>2, OrdinalsCount DEF Start, Multipart
    <3> QED
      BY <3>1
  <2>3. /\ before = [o \in {} |-> {}] /\ DOMAIN before = {}
        /\ after = [o \in {i} |-> x]
    BY <2>1
  <2> HIDE DEF gone, before, after
  <2>4. /\ i \notin DOMAIN before
        /\ DOMAIN before \cup {i} # 1 .. Total[k]
        /\ Pieces'[k] = after
    BY <2>1, <2>2, <2>3 DEF Pieces, NewGroup
  <2>5. /\ DOMAIN Pieces' = Keys
        /\ \A j \in Keys \ {k} : Pieces'[j] \in {Pieces[j], [o \in {} |-> {}]}
    BY <2>1 DEF Pieces
  <2>6. Delivered' = [key |-> NoKey, lines |-> <<>>]
    BY <2>1 DEF Delivered
  <2> QED
    BY <2>3, <2>4, <2>5, <2>6
       DEF after, Promise!Receive, Promise!With, Promise!KeptOrDropped, Promise!Empty,
           Promise!Nothing, Pieces, Delivered, NoKey
<1> QED
  BY <1>1, <1>2

\* Whatever is swept, evicted or reset in between, a COMPLETE outcome delivers
\* one fragment per ordinal, all received since the group of the key was created.
THEOREM AssemblerReassembles == Spec => Reassembles
<1>1. Init => Promise!Init
  BY DEF Init, Promise!Init, Promise!Nothing, Promise!Empty, NoKey
<1>2. ASSUME AssemblerInv, Next
      PROVE  Promise!Next
  <2>1. ASSUME NEW k \in Keys, NEW i \in Ordinals(k), NEW x \in Texts, Feed(k, i, x)
        PROVE  Promise!Next
    <3>1. CASE Single(k, x) \/ LimitExceeded(k)
      BY <3>1, PassingCalls, PassIsDrop DEF Passes, Promise!Next
    <3>2. CASE Duplicate(k, i, x) \/ Conflict(k, i, x)
      <4>1. /\ groups' = Without(Expired) \/ groups' = Without(Expired \cup {k})
            /\ outcome'.status # "COMPLETE"
        BY <1>2, <3>2, EndingCalls
      <4> QED
        BY <4>1, LossIsDrop DEF Promise!Next
    <3>3. CASE Complete(k, i, x)
      <4>1. Promise!Deliver(k, i, x)
        BY <1>2, <3>3, CompletionDelivers
      <4> QED
        BY <4>1 DEF Promise!Next, Ordinals
    <3>4. CASE Extend(k, i, x) \/ Start(k, i, x)
      <4>1. Promise!Receive(k, i, x)
        BY <1>2, <3>4, StoringReceives
      <4> QED
        BY <4>1 DEF Promise!Next, Ordinals
    <3> QED
      BY <2>1, <3>1, <3>2, <3>3, <3>4 DEF Feed
  <2>2. CASE Invalid
    BY <2>2, PassingCalls, PassIsDrop DEF Passes, Promise!Next
  <2>3. CASE Reset
    BY <2>3, LossIsDrop DEF Reset, Promise!Next
  <2>4. CASE Tick
    BY <2>4, PassIsDrop DEF Tick, Promise!Next
  <2> QED
    BY <1>2, <2>1, <2>2, <2>3, <2>4 DEF Next
<1>3. UNCHANGED vars => UNCHANGED Promise!vars
  BY DEF vars, Promise!vars
<1>4. AssemblerInv /\ [Next]_vars => [Promise!Next]_Promise!vars
  BY <1>2, <1>3
<1> QED
  BY <1>1, <1>4, AssemblerInvAlways, PTL DEF Spec, Reassembles, Promise!Spec

-----------------------------------------------------------------------------
(* Asking the deduplicator for one scope after the other.                  *)

\* One scope.
AskStep(acc, scope, message) ==
  LET r == Dd!IsUnique(acc.d, <<scope, message>>, now)
  IN  [d |-> r.d, passed |-> IF r.unique THEN Append(acc.passed, scope) ELSE acc.passed]

\* The fold over the scopes of S, as the library defines it.
AskBase == [d |-> dedup, passed |-> <<>>]

Asking(iter, message, scopes, S) ==
  iter = [s \in SUBSET S |->
            IF s = {} THEN AskBase
            ELSE AskStep(iter[s \ {Max(s)}], scopes[Max(s)], message)]

\* Asking is such a fold.
LEMMA AskedIsFold ==
  ASSUME NEW message, NEW snap
  PROVE  Asked(message, snap)
           = (CHOOSE iter : Asking(iter, message, Scopes(snap), DOMAIN Scopes(snap)))[DOMAIN Scopes(snap)]
  BY DEF Asked, FoldLeft, MapThenFoldSet, Asking, AskStep, AskBase

\* The greatest place of those up to n.
LEMMA MaxOf ==
  ASSUME NEW n \in Nat, NEW s \in SUBSET (1 .. n), n \in s
  PROVE  Max(s) = n
<1>1. n \in s /\ \A y \in s : n >= y
  OBVIOUS
<1>2. \A x \in s : (\A y \in s : x >= y) => x = n
  <2>1. \A x \in s : x \in Int
    OBVIOUS
  <2> QED
    BY <2>1
<1> QED
  BY <1>1, <1>2 DEF Max

\* What a function that is defined like this is at each set of places.
LEMMA AskingAt ==
  ASSUME NEW message, NEW scopes, NEW n \in Nat, NEW iter, Asking(iter, message, scopes, 1 .. n)
  PROVE  \A s \in SUBSET (1 .. n) :
           iter[s] = IF s = {} THEN AskBase
                     ELSE AskStep(iter[s \ {Max(s)}], scopes[Max(s)], message)
BY DEF Asking

\* There is such a function.
LEMMA AskingExists ==
  ASSUME NEW message, NEW scopes, NEW n \in Nat
  PROVE  \E iter : Asking(iter, message, scopes, 1 .. n)
<1> DEFINE Exists(m) == \E iter : Asking(iter, message, scopes, 1 .. m)
           Missing == {m \in Nat : ~Exists(m)}
<1>1. Exists(0)
  <2> DEFINE g == [s \in SUBSET {} |-> AskBase]
  <2>1. Asking(g, message, scopes, {})
    <3>1. \A s \in SUBSET {} : s = {}
      OBVIOUS
    <3>2. g = [s \in SUBSET {} |-> IF s = {} THEN AskBase
                                  ELSE AskStep(g[s \ {Max(s)}], scopes[Max(s)], message)]
      BY <3>1
    <3> QED
      BY <3>2 DEF Asking
  <2>2. 1 .. 0 = {}
    OBVIOUS
  <2> QED
    BY <2>1, <2>2
<1>2. ASSUME NEW m \in Nat, Exists(m)
      PROVE  Exists(m + 1)
  <2>1. PICK g : Asking(g, message, scopes, 1 .. m)
    BY <1>2
  <2> DEFINE h == [s \in SUBSET (1 .. m + 1) |->
                     IF m + 1 \in s THEN AskStep(g[s \ {m + 1}], scopes[m + 1], message)
                     ELSE g[s]]
             E(s) == IF s = {} THEN AskBase
                     ELSE AskStep(h[s \ {Max(s)}], scopes[Max(s)], message)
  <2>2. \A s \in SUBSET (1 .. m) :
          g[s] = IF s = {} THEN AskBase
                 ELSE AskStep(g[s \ {Max(s)}], scopes[Max(s)], message)
    BY <2>1, AskingAt
  <2>3. ASSUME NEW s \in SUBSET (1 .. m + 1), m + 1 \in s
        PROVE  Max(s) = m + 1
    BY <2>3, MaxOf
  <2>4. \A s \in SUBSET (1 .. m + 1) : m + 1 \notin s => s \in SUBSET (1 .. m)
    OBVIOUS
  <2>5. ASSUME NEW s \in SUBSET (1 .. m + 1)
        PROVE  h[s] = E(s)
    <3>1. CASE m + 1 \in s
      <4>1. s # {} /\ Max(s) = m + 1 /\ s \ {m + 1} \in SUBSET (1 .. m + 1)
            /\ m + 1 \notin s \ {m + 1}
        BY <2>3, <3>1
      <4>2. h[s \ {m + 1}] = g[s \ {m + 1}] /\ h[s] = AskStep(g[s \ {m + 1}], scopes[m + 1], message)
        BY <3>1, <4>1
      <4> HIDE DEF h
      <4> QED
        BY <4>1, <4>2
    <3>2. CASE m + 1 \notin s
      <4>1. s \in SUBSET (1 .. m) /\ s \ {Max(s)} \in SUBSET (1 .. m + 1) /\ m + 1 \notin s \ {Max(s)}
        BY <2>4, <3>2
      <4>2. h[s] = g[s] /\ h[s \ {Max(s)}] = g[s \ {Max(s)}]
        BY <3>2, <4>1
      <4> HIDE DEF h
      <4> QED
        BY <2>2, <4>1, <4>2
    <3> QED
      BY <3>1, <3>2
  <2>6. h = [s \in SUBSET (1 .. m + 1) |-> h[s]]
    OBVIOUS
  <2>7. Asking(h, message, scopes, 1 .. m + 1)
    <3> HIDE DEF h
    <3>1. h = [s \in SUBSET (1 .. m + 1) |-> E(s)]
      BY <2>5, <2>6
    <3> QED
      BY <3>1 DEF Asking
  <2> QED
    BY <2>7
<1> HIDE DEF Exists
<1>3. Missing = {}
  <2> SUFFICES ASSUME Missing # {} PROVE FALSE
    OBVIOUS
  <2>1. PICK m \in Missing : \A l \in Missing : m <= l
    BY LeastNumber
  <2>2. m \in Nat /\ m # 0 /\ ~Exists(m)
    BY <1>1, <2>1
  <2>3. m - 1 \in Nat /\ m - 1 + 1 = m /\ ~(m <= m - 1)
    BY <2>2
  <2>4. Exists(m - 1)
    BY <2>1, <2>3
  <2> QED
    BY <1>2, <2>2, <2>3, <2>4
<1> QED
  BY <1>3 DEF Exists

\* What the questions leave, question by question.
AskTrace(a, message, scopes, n) ==
  /\ a[0] = AskBase
  /\ \A m \in 1 .. n : a[m] = AskStep(a[m - 1], scopes[m], message)

\* Asking is the end of such a trace.
LEMMA AskedRuns ==
  ASSUME NEW message, NEW snap, NEW n \in Nat, DOMAIN Scopes(snap) = 1 .. n
  PROVE  \E a : AskTrace(a, message, Scopes(snap), n) /\ Asked(message, snap) = a[n]
<1> DEFINE sc == Scopes(snap)
<1>1. PICK iter : /\ Asking(iter, message, sc, 1 .. n)
                  /\ iter[1 .. n] = Asked(message, snap)
  <2> DEFINE iter == CHOOSE it : Asking(it, message, sc, 1 .. n)
  <2>1. Asking(iter, message, sc, 1 .. n)
    BY AskingExists
  <2>2. Asked(message, snap) = iter[1 .. n]
    BY AskedIsFold
  <2> QED
    BY <2>1, <2>2
<1> HIDE DEF sc
<1>2. \A s \in SUBSET (1 .. n) :
        iter[s] = IF s = {} THEN AskBase ELSE AskStep(iter[s \ {Max(s)}], sc[Max(s)], message)
  BY <1>1 DEF Asking
<1> DEFINE a == [m \in 0 .. n |-> iter[1 .. m]]
<1>3. a[0] = AskBase /\ a[n] = Asked(message, snap)
  <2>1. 1 .. 0 = {} /\ 0 \in 0 .. n /\ n \in 0 .. n
    OBVIOUS
  <2> QED
    BY <1>1, <1>2, <2>1
<1>4. ASSUME NEW m \in 1 .. n
      PROVE  a[m] = AskStep(a[m - 1], sc[m], message)
  <2>1. 1 .. m \in SUBSET (1 .. n) /\ 1 .. m # {} /\ m \in 0 .. n /\ m - 1 \in 0 .. n
    <3> HIDE DEF a
    <3>1. m \in 0 .. n /\ m - 1 \in 0 .. n
      OBVIOUS
    <3>2. m \in 1 .. m /\ \A l \in 1 .. m : l \in 1 .. n
      OBVIOUS
    <3> QED
      BY <3>1, <3>2
  <2>2. Max(1 .. m) = m
    BY DEF Max
  <2>3. (1 .. m) \ {m} = 1 .. m - 1
    OBVIOUS
  <2> QED
    BY <1>2, <2>1, <2>2, <2>3
<1>5. AskTrace(a, message, sc, n)
  BY <1>3, <1>4 DEF AskTrace
<1> QED
  BY <1>3, <1>5 DEF sc

-----------------------------------------------------------------------------
(* The deduplicator's containers.                                          *)

\* A sequence is one of its own elements.
LEMMA OwnElements ==
  ASSUME NEW S, NEW s \in Seq(S)
  PROVE  s \in Seq(ToSet(s)) /\ Len(s) \in Nat /\ DOMAIN s = 1 .. Len(s)
<1>1. Len(s) \in Nat /\ DOMAIN s = 1 .. Len(s) /\ s \in [1 .. Len(s) -> S]
  BY LenProperties
<1>2. s \in [1 .. Len(s) -> ToSet(s)]
  BY <1>1 DEF ToSet
<1> QED
  BY <1>1, <1>2

\* The number of entries a loop pops: while Test, from the oldest.
LEMMA LoopStops ==
  ASSUME NEW len \in Nat, NEW Test, Test = [n \in 0 .. len |-> Test[n]]
  PROVE  \E n \in 0 .. len : (\A i \in 0 .. n - 1 : Test[i]) /\ (n < len => ~Test[n])
<1> DEFINE Stops == {n \in 0 .. len : n < len => ~Test[n]}
<1>1. Stops \subseteq Nat /\ len \in Stops
  OBVIOUS
<1>2. PICK n \in Stops : \A m \in Stops : n <= m
  BY <1>1, LeastNumber
<1>3. \A i \in 0 .. n - 1 : i \in 0 .. len /\ i < len /\ ~(n <= i)
  OBVIOUS
<1>4. \A i \in 0 .. n - 1 : Test[i]
  BY <1>2, <1>3
<1> QED
  BY <1>2, <1>4

\* What was let through, in order: entries with their times.
Log(l) ==
  /\ l \in Seq(ToSet(l))
  /\ \A i \in 1 .. Len(l) : l[i].at \in 0 .. now
  /\ \A i, j \in 1 .. Len(l) : i < j => l[i].at <= l[j].at

\* The containers hold the entries of l after the first n, each key once.
Holds(d, l, n) ==
  /\ n \in 0 .. Len(l)
  /\ n + Len(d.index) = Len(l)
  /\ \A i \in 1 .. Len(d.index) : d.index[i] = l[n + i]
  /\ d.index \in Seq(ToSet(d.index))
  /\ DOMAIN d.cache = {l[i].key : i \in n + 1 .. Len(l)}
  /\ \A i \in n + 1 .. Len(l) : d.cache[l[i].key] = l[i].at
  /\ \A i, j \in n + 1 .. Len(l) : l[i].key = l[j].key => i = j

\* Their lengths are numbers.
LEMMA HoldsNumbers ==
  ASSUME NEW d, NEW l, Log(l), NEW n, Holds(d, l, n)
  PROVE  /\ Len(l) \in Nat /\ n \in Nat /\ Len(d.index) \in Nat
         /\ n <= Len(l) /\ n + Len(d.index) = Len(l)
<1>1. Len(l) \in Nat
  BY OwnElements DEF Log
<1>2. n \in 0 .. Len(l) /\ n + Len(d.index) = Len(l)
  BY DEF Holds
<1>3. Len(d.index) \in Nat
  BY OwnElements DEF Holds
<1> QED
  BY <1>1, <1>2, <1>3

\* An index as long as the cache is large.
LEMMA HoldsCounts ==
  ASSUME NEW d, NEW l, Log(l), NEW n, Holds(d, l, n)
  PROVE  /\ IsFiniteSet(DOMAIN d.cache)
         /\ Cardinality(DOMAIN d.cache) = Len(l) - n
<1> DEFINE m == Len(l) - n
           f == [i \in 1 .. m |-> l[n + i].key]
<1>1. m \in Nat /\ Len(l) \in Nat /\ n \in Nat /\ n <= Len(l)
  <2>1. /\ Len(l) \in Nat /\ n \in Nat /\ n <= Len(l)
    BY HoldsNumbers
  <2> QED
    BY ONLY <2>1
<1>2. \A i \in 1 .. m : n + i \in n + 1 .. Len(l)
  BY <1>1
<1>3. f \in [1 .. m -> DOMAIN d.cache]
  BY <1>2 DEF Holds
<1>4. \A i, j \in 1 .. m : f[i] = f[j] => i = j
  <2> SUFFICES ASSUME NEW i \in 1 .. m, NEW j \in 1 .. m, f[i] = f[j]
               PROVE  i = j
    OBVIOUS
  <2>1. l[n + i].key = l[n + j].key /\ n + i \in n + 1 .. Len(l) /\ n + j \in n + 1 .. Len(l)
    BY <1>2
  <2>2. n + i = n + j
    BY <2>1 DEF Holds
  <2> QED
    BY <1>1, <2>2
<1>5. \A k \in DOMAIN d.cache : \E i \in 1 .. m : f[i] = k
  <2> SUFFICES ASSUME NEW k \in DOMAIN d.cache PROVE \E i \in 1 .. m : f[i] = k
    OBVIOUS
  <2>1. PICK i \in n + 1 .. Len(l) : l[i].key = k
    BY DEF Holds
  <2>2. i - n \in 1 .. m /\ n + (i - n) = i
    BY <1>1
  <2> QED
    BY <2>1, <2>2
<1> HIDE DEF m, f
<1>6. f \in Bijection(1 .. m, DOMAIN d.cache)
  BY <1>3, <1>4, <1>5 DEF Bijection, Injection, IsInjective, Surjection
<1>7. ExistsBijection(1 .. m, DOMAIN d.cache)
  BY <1>6 DEF ExistsBijection
<1>8. IsFiniteSet(DOMAIN d.cache)
  BY <1>1, <1>7, FS_NatBijection
<1>9. Cardinality(DOMAIN d.cache) = m
  BY <1>1, <1>7, FS_CountingElements
<1> QED
  BY <1>8, <1>9 DEF m

\* Popping the k oldest entries.
LEMMA PopHolds ==
  ASSUME NEW d, NEW l, Log(l), NEW n, Holds(d, l, n), NEW k \in 0 .. Len(d.index)
  PROVE  Holds(Dd!Pop(d, k), l, n + k)
<1> DEFINE p == Dd!Pop(d, k)
           len == Len(d.index)
           all == Len(l)
<1>1. /\ all \in Nat /\ n \in Nat /\ n + len = all /\ len \in Nat /\ k \in Nat /\ k <= len
      /\ n + k \in 0 .. all
  BY HoldsNumbers
<1>2. /\ p.index \in Seq(ToSet(p.index)) /\ Len(p.index) = len - k
      /\ \A i \in 1 .. len - k : p.index[i] = d.index[k + i]
  <2> DEFINE q == SubSeq(d.index, k + 1, len)
             S == ToSet(d.index)
  <2>1. d.index \in Seq(S) /\ DOMAIN d.index = 1 .. len
    BY OwnElements DEF Holds
  <2>2. \A i \in k + 1 .. len : d.index[i] \in S
    BY <1>1, <2>1 DEF ToSet
  <2>3. k + 1 \in Int /\ len \in Int
    BY <1>1
  <2>4. /\ q \in Seq(S)
        /\ Len(q) = IF k + 1 <= len THEN len - (k + 1) + 1 ELSE 0
        /\ \A i \in 1 .. len - (k + 1) + 1 : q[i] = d.index[k + 1 + i - 1]
    <3> HIDE DEF S, len
    <3> QED
      BY ONLY <2>3, <2>2, SubSeqProperties
  <2> HIDE DEF q, S, len
  <2>5. Len(q) = len - k
    BY <1>1, <2>4
  <2>6. \A i \in 1 .. len - k : q[i] = d.index[k + i]
    <3>1. \A i \in 1 .. len - k : i \in 1 .. len - (k + 1) + 1 /\ k + 1 + i - 1 = k + i
      BY <1>1
    <3> QED
      BY <2>4, <3>1
  <2>7. q \in Seq(ToSet(q))
    BY <2>4, OwnElements
  <2>8. p.index = q
    BY DEF Dd!Pop, q, len
  <2> QED
    BY ONLY <2>5, <2>6, <2>7, <2>8
<1>3. \A i \in 1 .. len - k : p.index[i] = l[n + k + i]
  <2> SUFFICES ASSUME NEW i \in 1 .. len - k PROVE p.index[i] = l[n + k + i]
    OBVIOUS
  <2>1. k + i \in 1 .. len /\ n + (k + i) = n + k + i
    BY <1>1
  <2>2. d.index[k + i] = l[n + (k + i)]
    BY <2>1 DEF Holds
  <2> HIDE DEF p, len
  <2> QED
    BY <1>2, <2>1, <2>2
<1>4. Dd!Dropped(d, k) = {l[i].key : i \in n + 1 .. n + k}
  <2>1. ASSUME NEW i \in 1 .. k
        PROVE  /\ d.index[i] = l[n + i] /\ n + i \in n + 1 .. n + k /\ n + i \in n + 1 .. all
               /\ Dd!Current(d, d.index[i])
    <3>1. i \in 1 .. len /\ n + i \in n + 1 .. n + k /\ n + i \in n + 1 .. all
      BY <1>1
    <3>2. d.index[i] = l[n + i]
      BY <3>1 DEF Holds
    <3>3. l[n + i].key \in DOMAIN d.cache /\ d.cache[l[n + i].key] = l[n + i].at
      BY <3>1 DEF Holds
    <3> QED
      BY <3>1, <3>2, <3>3 DEF Dd!Current
  <2>2. Dd!Dropped(d, k) = {d.index[i].key : i \in 1 .. k}
    BY <2>1 DEF Dd!Dropped
  <2>3. ASSUME NEW i \in n + 1 .. n + k
        PROVE  i - n \in 1 .. k /\ n + (i - n) = i
    BY <1>1
  <2>4. \A x : x \in {d.index[i].key : i \in 1 .. k} => x \in {l[i].key : i \in n + 1 .. n + k}
    BY <2>1
  <2>5. \A x : x \in {l[i].key : i \in n + 1 .. n + k} => x \in {d.index[i].key : i \in 1 .. k}
    <3> SUFFICES ASSUME NEW i \in n + 1 .. n + k
                 PROVE  l[i].key \in {d.index[j].key : j \in 1 .. k}
      OBVIOUS
    <3>1. i - n \in 1 .. k /\ n + (i - n) = i
      BY <2>3
    <3>2. d.index[i - n] = l[i]
      BY <2>1, <3>1
    <3> QED
      BY <3>1, <3>2
  <2> QED
    BY <2>2, <2>4, <2>5
<1>5. /\ DOMAIN p.cache = DOMAIN d.cache \ Dd!Dropped(d, k)
      /\ \A x \in DOMAIN p.cache : p.cache[x] = d.cache[x]
  BY DEF Dd!Pop
<1>6. DOMAIN p.cache = {l[i].key : i \in n + k + 1 .. all}
  <2>1. ASSUME NEW i \in n + 1 .. all
        PROVE  i \in n + 1 .. n + k \/ i \in n + k + 1 .. all
    BY <1>1
  <2>2. \A i \in n + 1 .. n + k : i \in n + 1 .. all
    BY <1>1
  <2>3. \A i \in n + k + 1 .. all : i \in n + 1 .. all /\ ~(i \in n + 1 .. n + k)
    BY <1>1
  <2>4. DOMAIN d.cache = {l[i].key : i \in n + 1 .. all}
    BY DEF Holds
  <2>5. \A i, j \in n + 1 .. all : l[i].key = l[j].key => i = j
    BY DEF Holds
  <2>6. \A x : x \in DOMAIN p.cache => x \in {l[i].key : i \in n + k + 1 .. all}
    <3> SUFFICES ASSUME NEW x \in DOMAIN p.cache
                 PROVE  x \in {l[i].key : i \in n + k + 1 .. all}
      OBVIOUS
    <3>1. PICK i \in n + 1 .. all : l[i].key = x
      BY <1>5, <2>4
    <3>2. ~(i \in n + 1 .. n + k)
      BY <1>4, <1>5, <3>1
    <3> QED
      BY <2>1, <3>1, <3>2
  <2>7. \A i \in n + k + 1 .. all : l[i].key \in DOMAIN p.cache
    <3> SUFFICES ASSUME NEW i \in n + k + 1 .. all, l[i].key \in Dd!Dropped(d, k)
                 PROVE  FALSE
      BY <1>5, <2>3, <2>4
    <3>1. PICK j \in n + 1 .. n + k : l[j].key = l[i].key
      BY <1>4
    <3>2. j = i
      BY <2>2, <2>3, <2>5, <3>1
    <3> QED
      BY <2>3, <3>2
  <2> QED
    BY <2>6, <2>7
<1>7. \A i \in n + k + 1 .. all : i \in n + 1 .. all
  BY <1>1
<1>8. \A i \in n + k + 1 .. all : p.cache[l[i].key] = l[i].at
  <2>1. \A i \in n + k + 1 .. all : d.cache[l[i].key] = l[i].at /\ l[i].key \in DOMAIN p.cache
    BY <1>6, <1>7 DEF Holds
  <2> QED
    BY <1>5, <2>1
<1>9. \A i, j \in n + k + 1 .. all : l[i].key = l[j].key => i = j
  BY <1>7 DEF Holds
<1>10. Holds(p, l, n + k)
  <2> HIDE DEF p
  <2> DEFINE left == Len(p.index)
  <2>1. n + k \in 0 .. all /\ n + k + Len(p.index) = all
    <3>1. left = len - k
      BY <1>2
    <3> HIDE DEF left, len, all
    <3>2. n + k \in 0 .. all /\ n + k + left = all
      BY ONLY <1>1, <3>1
    <3> QED
      BY ONLY <3>2 DEF left
  <2>2. \A i \in 1 .. Len(p.index) : p.index[i] = l[n + k + i]
    BY <1>2, <1>3
  <2> QED
    BY <1>2, <1>6, <1>8, <1>9, <2>1, <2>2 DEF Holds
<1> QED
  BY <1>10 DEF p

\* cleanup_expired pops exactly the entries whose ttl has passed.
LEMMA FreshHolds ==
  ASSUME now \in Nat, NEW d, NEW l, Log(l), NEW n, Holds(d, l, n)
  PROVE  \E m \in n .. Len(l) :
           /\ Holds(Dd!Fresh(d, now), l, m)
           /\ \A i \in n + 1 .. m : now - l[i].at >= Ttl
           /\ \A i \in m + 1 .. Len(l) : now - l[i].at < Ttl
<1> DEFINE len == Len(d.index)
           Old(i) == Dd!TtlPassed(d.index[i], now)
           e == Dd!ExpiredCount(d, now)
<1>1. len \in Nat /\ n \in Nat /\ n + len = Len(l) /\ Len(l) \in Nat
  BY HoldsNumbers
<1>2. \E m \in 0 .. len : (\A i \in 1 .. m : Old(i)) /\ (m < len => ~Old(m + 1))
  <2> DEFINE Test == [i \in 0 .. len |-> Old(i + 1)]
  <2>1. PICK m \in 0 .. len : (\A i \in 0 .. m - 1 : Test[i]) /\ (m < len => ~Test[m])
    <3>1. Test = [i \in 0 .. len |-> Test[i]]
      OBVIOUS
    <3> HIDE DEF Test, len
    <3> QED
      BY <1>1, <3>1, LoopStops
  <2>2. ASSUME NEW i \in 1 .. m
        PROVE  Old(i)
    <3>1. i - 1 \in 0 .. m - 1 /\ i - 1 \in 0 .. len /\ i - 1 + 1 = i
      BY <1>1
    <3> HIDE DEF Old
    <3> QED
      BY <2>1, <3>1
  <2> HIDE DEF Old, len
  <2> QED
    BY <2>1, <2>2
<1>3. e \in 0 .. len /\ (\A i \in 1 .. e : Old(i)) /\ (e < len => ~Old(e + 1))
  <2>1. e = CHOOSE m \in 0 .. len : (\A i \in 1 .. m : Old(i)) /\ (m < len => ~Old(m + 1))
    BY DEF Dd!ExpiredCount
  <2> HIDE DEF e, len, Old
  <2> QED
    BY <1>2, <2>1
<1>4. Holds(Dd!Fresh(d, now), l, n + e)
  <2>1. Dd!Fresh(d, now) = Dd!Pop(d, e)
    BY DEF Dd!Fresh
  <2> HIDE DEF e
  <2> QED
    BY <1>3, <2>1, PopHolds
<1>5. ASSUME NEW i \in 1 .. len
      PROVE  Old(i) <=> now - l[n + i].at >= Ttl
  <2>1. d.index[i] = l[n + i]
    BY <1>1, <1>5 DEF Holds
  <2> QED
    BY <2>1 DEF Dd!TtlPassed
<1> HIDE DEF Old, e, len
<1>6. ASSUME NEW i \in n + 1 .. n + e
      PROVE  now - l[i].at >= Ttl
  <2>1. i - n \in 1 .. e /\ i - n \in 1 .. len /\ n + (i - n) = i
    BY <1>1, <1>3, <1>6
  <2> QED
    BY <1>3, <1>5, <2>1
<1>7. ASSUME NEW i \in n + e + 1 .. Len(l)
      PROVE  now - l[i].at < Ttl
  <2>1. e < len /\ e + 1 \in 1 .. len /\ n + (e + 1) = n + e + 1
    BY <1>1, <1>3, <1>7
  <2>2. ~(now - l[n + e + 1].at >= Ttl)
    BY <1>3, <1>5, <2>1
  <2>3. /\ n + e + 1 \in 1 .. Len(l) /\ i \in 1 .. Len(l)
        /\ n + e + 1 = i \/ n + e + 1 < i
    BY <1>1, <1>3, <1>7
  <2>4. /\ l[n + e + 1].at \in 0 .. now /\ l[i].at \in 0 .. now
        /\ l[n + e + 1].at <= l[i].at
    BY <2>3 DEF Log
  <2> QED
    BY <2>2, <2>4, ProcessorAssumption
<1>8. n + e \in n .. Len(l)
  BY <1>1, <1>3
<1> QED
  BY <1>4, <1>6, <1>7, <1>8

\* The eviction loop pops one entry of a full cache, and none of another.
LEMMA RoomyHolds ==
  ASSUME NEW d, NEW l, Log(l), NEW n, Holds(d, l, n), Len(l) - n <= MaxEntries
  PROVE  \E m \in n .. Len(l) :
           /\ Holds(Dd!Roomy(d), l, m)
           /\ Len(l) - m < MaxEntries
           /\ m = n \/ (Len(l) - n = MaxEntries /\ m = n + 1)
<1> DEFINE len == Len(d.index)
           e == Dd!EvictedCount(d)
<1>1. /\ len \in Nat /\ n \in Nat /\ n + len = Len(l) /\ Len(l) \in Nat
      /\ MaxEntries \in Nat /\ MaxEntries > 0
  BY HoldsNumbers, ProcessorAssumption
<1>2. \E m \in 0 .. len : (\A i \in 0 .. m - 1 : Dd!Full(d, i)) /\ (m < len => ~Dd!Full(d, m))
  <2> DEFINE Test == [i \in 0 .. len |-> Dd!Full(d, i)]
  <2>1. PICK m \in 0 .. len : (\A i \in 0 .. m - 1 : Test[i]) /\ (m < len => ~Test[m])
    <3>1. Test = [i \in 0 .. len |-> Test[i]]
      OBVIOUS
    <3> HIDE DEF Test, len
    <3> QED
      BY <1>1, <3>1, LoopStops
  <2>2. \A i \in 0 .. m - 1 : i \in 0 .. len
    BY <1>1
  <2> QED
    BY <2>1, <2>2
<1>3. e \in 0 .. len /\ (\A i \in 0 .. e - 1 : Dd!Full(d, i)) /\ (e < len => ~Dd!Full(d, e))
  <2>1. e = CHOOSE m \in 0 .. len :
              (\A i \in 0 .. m - 1 : Dd!Full(d, i)) /\ (m < len => ~Dd!Full(d, m))
    BY DEF Dd!EvictedCount
  <2> HIDE DEF e, len
  <2> QED
    BY <1>2, <2>1
<1>4. ASSUME NEW i \in 0 .. len
      PROVE  Dd!Full(d, i) <=> len - i >= MaxEntries
  <2>1. Holds(Dd!Pop(d, i), l, n + i)
    BY <1>4, PopHolds
  <2>2. Cardinality(DOMAIN Dd!Pop(d, i).cache) = Len(l) - (n + i)
    BY <2>1, HoldsCounts
  <2>3. Len(l) - (n + i) = len - i
    BY <1>1, <1>4
  <2>4. Dd!Cardinality(DOMAIN Dd!Pop(d, i).cache) = Cardinality(DOMAIN Dd!Pop(d, i).cache)
    BY ONLY TRUE DEF Cardinality, Dd!Cardinality
  <2>5. Dd!Full(d, i) = (Cardinality(DOMAIN Dd!Pop(d, i).cache) >= MaxEntries)
    BY ONLY <2>4 DEF Dd!Full
  <2> QED
    BY ONLY <2>2, <2>3, <2>5
<1>5. Holds(Dd!Roomy(d), l, n + e)
  <2>1. Dd!Roomy(d) = Dd!Pop(d, e)
    BY DEF Dd!Roomy
  <2> HIDE DEF e
  <2> QED
    BY <1>3, <2>1, PopHolds
<1> HIDE DEF e, len
<1>6. len <= MaxEntries
  BY <1>1
<1>7. e = 0 \/ (len = MaxEntries /\ e = 1)
  <2>1. CASE e > 0
    <3>1. e - 1 \in 0 .. e - 1 /\ e - 1 \in 0 .. len
      BY <1>1, <1>3, <2>1
    <3>2. len - (e - 1) >= MaxEntries
      BY <1>3, <1>4, <3>1
    <3> QED
      BY <1>1, <1>3, <1>6, <2>1, <3>2
  <2> QED
    BY <1>1, <1>3, <2>1
<1>8. len - e < MaxEntries
  <2>1. CASE e < len
    <3>1. ~(len - e >= MaxEntries)
      BY <1>3, <1>4, <2>1
    <3> QED
      BY <1>1, <1>3, <3>1
  <2> QED
    BY <1>1, <1>3, <2>1
<1>9. n + e \in n .. Len(l) /\ Len(l) - (n + e) < MaxEntries
  BY <1>1, <1>3, <1>8
<1>10. n + e = n \/ (Len(l) - n = MaxEntries /\ n + e = n + 1)
  BY <1>1, <1>3, <1>7
<1> QED
  BY <1>5, <1>9, <1>10

\* A log with an entry of now behind it.
LEMMA AppendLog ==
  ASSUME now \in Nat, NEW l, Log(l), NEW e, e.at = now
  PROVE  /\ Log(Append(l, e)) /\ Len(Append(l, e)) = Len(l) + 1
         /\ Append(l, e)[Len(l) + 1] = e
         /\ \A i \in 1 .. Len(l) : Append(l, e)[i] = l[i]
<1> DEFINE q == Append(l, e)
           n == Len(l)
           S == ToSet(l) \cup {e}
<1>1. l \in Seq(S) /\ e \in S
  <2>1. l \in Seq(ToSet(l))
    BY DEF Log
  <2> QED
    BY <2>1, SeqMonotonic
<1>2. n \in Nat /\ q \in Seq(S) /\ Len(q) = n + 1 /\ q[n + 1] = e /\ \A i \in 1 .. n : q[i] = l[i]
  <2> HIDE DEF S
  <2> QED
    BY <1>1
<1> HIDE DEF q, S
<1>0. q \in Seq(ToSet(q)) /\ DOMAIN q = 1 .. n + 1
  BY <1>2, OwnElements
<1>3. \A i \in 1 .. n + 1 : q[i].at \in 0 .. now
  <2>1. \A i \in 1 .. n : l[i].at \in 0 .. now
    BY DEF Log
  <2>2. \A i \in 1 .. n + 1 : i \in 1 .. n \/ i = n + 1
    BY <1>2
  <2> QED
    BY <1>2, <2>1, <2>2
<1>4. ASSUME NEW i \in 1 .. n + 1, NEW j \in 1 .. n + 1, i < j
      PROVE  q[i].at <= q[j].at
  <2>1. CASE j = n + 1
    BY <1>2, <1>3, <2>1
  <2>2. CASE j # n + 1
    <3>1. i \in 1 .. n /\ j \in 1 .. n
      BY <1>2, <1>4, <2>2
    <3>2. l[i].at <= l[j].at
      BY <1>4, <3>1 DEF Log
    <3> QED
      BY <1>2, <3>1, <3>2
  <2> QED
    BY <2>1, <2>2
<1>5. Log(q)
  BY <1>0, <1>2, <1>3, <1>4 DEF Log
<1> QED
  BY <1>2, <1>5 DEF q

\* A key that is not held is inserted behind the others.
LEMMA InsertHolds ==
  ASSUME now \in Nat, NEW d, NEW l, Log(l), NEW n, Holds(d, l, n),
         NEW key, key \notin DOMAIN d.cache
  PROVE  Holds(Dd!Insert(d, key, now), Append(l, Dd!Entry(now, key)), n)
<1> DEFINE e == Dd!Entry(now, key)
           q == Append(l, e)
           r == Dd!Insert(d, key, now)
           m == Len(d.index)
           all == Len(l)
<1>1. e.at = now /\ e.key = key
  BY DEF Dd!Entry
<1> HIDE DEF e
<1>2. /\ all \in Nat /\ n \in Nat /\ m \in Nat /\ n <= all /\ n + m = all
      /\ Len(q) = all + 1 /\ q[all + 1] = e /\ \A i \in 1 .. all : q[i] = l[i]
  <2>1. /\ all \in Nat /\ n \in Nat /\ m \in Nat /\ n <= all /\ n + m = all
    BY HoldsNumbers
  <2>2. Len(q) = all + 1 /\ q[all + 1] = e /\ \A i \in 1 .. all : q[i] = l[i]
    BY <1>1, AppendLog
  <2> QED
    BY ONLY <2>1, <2>2
<1>3. /\ r.index = Append(d.index, e)
      /\ DOMAIN r.cache = DOMAIN d.cache \cup {key} /\ r.cache[key] = now
      /\ \A k \in DOMAIN d.cache : k # key => r.cache[k] = d.cache[k]
  BY DEF Dd!Insert, e
<1>4. /\ r.index \in Seq(ToSet(r.index)) /\ Len(r.index) = m + 1 /\ r.index[m + 1] = e
      /\ \A i \in 1 .. m : r.index[i] = d.index[i]
  <2> DEFINE s == Append(d.index, e)
             S == ToSet(d.index) \cup {e}
  <2>1. d.index \in Seq(S) /\ e \in S
    <3>1. d.index \in Seq(ToSet(d.index))
      BY DEF Holds
    <3> QED
      BY <3>1, SeqMonotonic
  <2>2. s \in Seq(S) /\ Len(s) = m + 1 /\ s[m + 1] = e /\ \A i \in 1 .. m : s[i] = d.index[i]
    <3> HIDE DEF S
    <3> QED
      BY <2>1
  <2> HIDE DEF s, S
  <2>3. s \in Seq(ToSet(s))
    BY <2>2, OwnElements
  <2> QED
    BY <1>3, <2>2, <2>3 DEF s
<1> HIDE DEF r, q, m, all
<1>5. \A i \in 1 .. m + 1 : r.index[i] = q[n + i]
  <2>1. ASSUME NEW i \in 1 .. m
        PROVE  r.index[i] = q[n + i]
    <3>1. n + i \in 1 .. all
      BY <1>2
    <3>2. d.index[i] = l[n + i]
      BY <2>1 DEF Holds, m
    <3> QED
      BY <1>2, <1>4, <3>1, <3>2
  <2>2. r.index[m + 1] = q[n + (m + 1)]
    <3>1. n + (m + 1) = all + 1
      BY <1>2
    <3> QED
      BY <1>2, <1>4, <3>1
  <2>3. \A i \in 1 .. m + 1 : i \in 1 .. m \/ i = m + 1
    BY <1>2
  <2> QED
    BY <2>1, <2>2, <2>3
<1>6. /\ DOMAIN d.cache = {l[i].key : i \in n + 1 .. all}
      /\ \A i \in n + 1 .. all : d.cache[l[i].key] = l[i].at
      /\ \A i, j \in n + 1 .. all : l[i].key = l[j].key => i = j
  BY DEF Holds, all
<1>7. \A i \in n + 1 .. all + 1 : i \in n + 1 .. all \/ i = all + 1
  BY <1>2
<1>8. /\ \A i \in n + 1 .. all : i \in n + 1 .. all + 1 /\ i \in 1 .. all
      /\ all + 1 \in n + 1 .. all + 1
  BY <1>2
<1>9. /\ \A i \in n + 1 .. all : q[i] = l[i] /\ q[i].key \in DOMAIN d.cache /\ q[i].key # key
      /\ q[all + 1].key = key
  BY <1>1, <1>2, <1>6, <1>8
<1>10. DOMAIN r.cache = {q[i].key : i \in n + 1 .. all + 1}
  <2>1. \A x : x \in DOMAIN r.cache => x \in {q[i].key : i \in n + 1 .. all + 1}
    <3> SUFFICES ASSUME NEW x \in DOMAIN r.cache PROVE x \in {q[i].key : i \in n + 1 .. all + 1}
      OBVIOUS
    <3>1. CASE x = key
      BY <1>8, <1>9, <3>1
    <3>2. CASE x # key
      <4>1. PICK i \in n + 1 .. all : l[i].key = x
        BY <1>3, <1>6, <3>2
      <4> QED
        BY <1>8, <1>9, <4>1
    <3> QED
      BY <3>1, <3>2
  <2>2. \A i \in n + 1 .. all + 1 : q[i].key \in DOMAIN r.cache
    BY <1>3, <1>7, <1>9
  <2> QED
    BY <2>1, <2>2
<1>11. \A i \in n + 1 .. all + 1 : r.cache[q[i].key] = q[i].at
  <2>1. ASSUME NEW i \in n + 1 .. all
        PROVE  r.cache[q[i].key] = q[i].at
    BY <1>3, <1>6, <1>9
  <2>2. r.cache[q[all + 1].key] = q[all + 1].at
    BY <1>1, <1>2, <1>3
  <2> QED
    BY <1>7, <2>1, <2>2
<1>12. \A i, j \in n + 1 .. all + 1 : q[i].key = q[j].key => i = j
  BY <1>6, <1>7, <1>9
<1>13. Holds(r, q, n)
  <2>1. n \in 0 .. Len(q) /\ n + Len(r.index) = Len(q)
    BY <1>2, <1>4
  <2> QED
    BY <1>2, <1>4, <1>5, <1>10, <1>11, <1>12, <2>1 DEF Holds
<1> QED
  BY <1>13 DEF r, q, e

\* The first n of the log are forgotten: their ttl has passed, or newer ones fill
\* the cache.
Forgotten(l, n) == \A i \in 1 .. n : now - l[i].at >= Ttl \/ Len(l) - i >= MaxEntries

\* The containers hold the end of the log.
Trails(d, l) ==
  /\ Log(l)
  /\ \E n \in 0 .. Len(l) : Holds(d, l, n) /\ Forgotten(l, n) /\ Len(l) - n <= MaxEntries

\* One of l stands against key, when the log has grown to n entries.
Barred(l, key, n) ==
  \E i \in 1 .. Len(l) : l[i].key = key /\ now - l[i].at < Ttl /\ n - i < MaxEntries

\* is_unique lets a key through when nothing stands against it, and logs it.
LEMMA UniqueTrails ==
  ASSUME now \in Nat, NEW d, NEW l, Trails(d, l), NEW key
  PROVE  LET r == Dd!IsUnique(d, key, now)
         IN  /\ r.unique \in BOOLEAN
             /\ r.unique <=> ~Barred(l, key, Len(l))
             /\ Trails(r.d, IF r.unique THEN Append(l, Dd!Entry(now, key)) ELSE l)
<1> DEFINE f == Dd!Fresh(d, now)
           e == Dd!Entry(now, key)
           r == Dd!IsUnique(d, key, now)
           q == Append(l, e)
           all == Len(l)
<1>1. Log(l)
  BY DEF Trails
<1>2. PICK n \in 0 .. all : Holds(d, l, n) /\ Forgotten(l, n) /\ all - n <= MaxEntries
  BY DEF Trails
<1>3. PICK m \in n .. all : /\ Holds(f, l, m)
                            /\ \A i \in n + 1 .. m : now - l[i].at >= Ttl
                            /\ \A i \in m + 1 .. all : now - l[i].at < Ttl
  BY <1>1, <1>2, FreshHolds
<1> HIDE DEF f
<1>4. all \in Nat /\ n \in Nat /\ m \in Nat /\ n <= m /\ m <= all /\ MaxEntries \in Nat /\ Ttl \in Nat
  <2>1. all \in Nat
    BY <1>1, OwnElements DEF Log
  <2> HIDE DEF all
  <2> QED
    BY <1>2, <1>3, <2>1, ProcessorAssumption
<1> HIDE DEF all
<1>5. all - m <= MaxEntries
  BY <1>2, <1>4
<1>6. Forgotten(l, m)
  <2>1. \A i \in 1 .. m : i \in 1 .. n \/ i \in n + 1 .. m
    BY <1>4
  <2> QED
    BY <1>2, <1>3, <2>1 DEF Forgotten
<1>7. key \in DOMAIN f.cache <=> Barred(l, key, all)
  <2>1. DOMAIN f.cache = {l[i].key : i \in m + 1 .. all}
    BY <1>3 DEF Holds, all
  <2>2. ASSUME NEW i \in m + 1 .. all, l[i].key = key
        PROVE  Barred(l, key, all)
    <3>1. i \in 1 .. all /\ all - i < MaxEntries
      BY <1>4, <1>5
    <3>2. now - l[i].at < Ttl
      BY <1>3
    <3> QED
      BY <2>2, <3>1, <3>2 DEF Barred, all
  <2>3. ASSUME NEW i \in 1 .. all, l[i].key = key, now - l[i].at < Ttl, all - i < MaxEntries
        PROVE  i \in m + 1 .. all
    <3>1. SUFFICES ASSUME i \in 1 .. m PROVE FALSE
      BY <1>4
    <3>2. now - l[i].at >= Ttl \/ all - i >= MaxEntries
      BY <1>6, <3>1 DEF Forgotten, all
    <3>3. l[i].at \in 0 .. now
      BY <1>1 DEF Log, all
    <3> QED
      BY <1>4, <2>3, <3>2, <3>3
  <2> QED
    BY <2>1, <2>2, <2>3 DEF Barred, all
<1>8. r = IF key \in DOMAIN f.cache THEN [unique |-> FALSE, d |-> f]
          ELSE [unique |-> TRUE, d |-> Dd!Insert(Dd!Roomy(f), key, now)]
  BY DEF Dd!IsUnique, Dd!Renewed, f
<1> HIDE DEF r
<1>9. CASE key \in DOMAIN f.cache
  <2>1. r = [unique |-> FALSE, d |-> f]
    BY <1>8, <1>9
  <2>2. r.unique = FALSE /\ r.d = f
    BY <2>1
  <2>3. m \in 0 .. Len(l) /\ Len(l) - m <= MaxEntries
    BY <1>4, <1>5 DEF all
  <2>4. Trails(f, l)
    BY <1>1, <1>3, <1>6, <2>3 DEF Trails
  <2> QED
    BY <1>7, <1>9, <2>2, <2>4 DEF r, all
<1>10. CASE key \notin DOMAIN f.cache
  <2>1. r = [unique |-> TRUE, d |-> Dd!Insert(Dd!Roomy(f), key, now)]
    BY <1>8, <1>10
  <2>2. r.unique = TRUE /\ r.d = Dd!Insert(Dd!Roomy(f), key, now)
    BY <2>1
  <2>3. PICK k \in m .. all : /\ Holds(Dd!Roomy(f), l, k)
                              /\ all - k < MaxEntries
                              /\ k = m \/ (all - m = MaxEntries /\ k = m + 1)
    BY <1>1, <1>3, <1>5, RoomyHolds DEF all
  <2>4. key \notin DOMAIN Dd!Roomy(f).cache
    <3>1. \A i \in k + 1 .. all : i \in m + 1 .. all
      BY <1>4, <2>3
    <3>2. DOMAIN Dd!Roomy(f).cache = {l[i].key : i \in k + 1 .. all}
      BY <2>3 DEF Holds, all
    <3>3. DOMAIN f.cache = {l[i].key : i \in m + 1 .. all}
      BY <1>3 DEF Holds, all
    <3> QED
      BY <1>10, <3>1, <3>2, <3>3
  <2>5. Holds(r.d, q, k)
    BY <1>1, <2>2, <2>3, <2>4, InsertHolds
  <2>6. Log(q) /\ Len(q) = all + 1 /\ \A i \in 1 .. all : q[i] = l[i]
    <3>1. e.at = now
      BY DEF Dd!Entry
    <3> HIDE DEF e
    <3> QED
      BY <1>1, <3>1, AppendLog DEF all
  <2> HIDE DEF q, e
  <2>7. ASSUME NEW i \in 1 .. k
        PROVE  now - q[i].at >= Ttl \/ Len(q) - i >= MaxEntries
    <3>1. i \in 1 .. all /\ q[i] = l[i]
      BY <1>4, <2>3, <2>6
    <3>2. CASE i \in 1 .. m
      <4>1. now - l[i].at >= Ttl \/ all - i >= MaxEntries
        BY <1>6, <3>2 DEF Forgotten, all
      <4> QED
        BY <1>4, <2>6, <3>1, <4>1
    <3>3. CASE i \notin 1 .. m
      <4>1. i = m + 1 /\ all - m = MaxEntries
        BY <1>4, <2>3, <3>3
      <4> QED
        BY <1>4, <2>6, <4>1
    <3> QED
      BY <3>2, <3>3
  <2>8. k \in 0 .. Len(q) /\ Len(q) - k <= MaxEntries
    BY <1>4, <2>3, <2>6
  <2>9. Trails(r.d, q)
    BY <2>5, <2>6, <2>7, <2>8 DEF Trails, Forgotten
  <2> QED
    BY <1>7, <1>10, <2>2, <2>9 DEF r, q, e, all
<1> QED
  BY <1>9, <1>10

-----------------------------------------------------------------------------
(* The log behind the containers, question by question.                    *)

\* l is the log l0 with what was let through of a message behind it.
Continues(l, l0, passed, message) ==
  /\ Len(l) = Len(l0) + Len(passed)
  /\ \A i \in 1 .. Len(l0) : l[i] = l0[i]
  /\ \A i \in 1 .. Len(passed) : l[Len(l0) + i] = Dd!Entry(now, <<passed[i], message>>)

\* Which of the first m scopes were let through.
PassedOf(sc, passed, m) == {k \in 1 .. m : sc[k] \in ToSet(passed)}

\* After the first m scopes: those were let through against which nothing stood,
\* and the containers hold the end of the log with them.
AskedSofar(acc, l0, message, sc, m) ==
  /\ acc.passed \in Seq(ToSet(sc))
  /\ \A i \in DOMAIN acc.passed : \E k \in 1 .. m : acc.passed[i] = sc[k]
  /\ IsFiniteSet(PassedOf(sc, acc.passed, m))
  /\ Len(acc.passed) = Cardinality(PassedOf(sc, acc.passed, m))
  /\ \E l : Continues(l, l0, acc.passed, message) /\ Trails(acc.d, l)
  /\ \A i \in 1 .. m :
       sc[i] \in ToSet(acc.passed)
         <=> ~Barred(l0, <<sc[i], message>>,
                     Len(l0) + Cardinality(PassedOf(sc, acc.passed, i - 1)))

\* One scope more is let through.
LEMMA OneMore ==
  ASSUME NEW S, NEW passed \in Seq(S), NEW scope \in S
  PROVE  /\ Append(passed, scope) \in Seq(S)
         /\ Len(passed) \in Nat /\ DOMAIN passed = 1 .. Len(passed)
         /\ Len(Append(passed, scope)) = Len(passed) + 1
         /\ DOMAIN Append(passed, scope) = 1 .. Len(passed) + 1
         /\ Append(passed, scope)[Len(passed) + 1] = scope
         /\ \A i \in 1 .. Len(passed) : Append(passed, scope)[i] = passed[i]
         /\ ToSet(Append(passed, scope)) = ToSet(passed) \cup {scope}
<1> DEFINE q == Append(passed, scope)
           n == Len(passed)
<1>1. /\ n \in Nat /\ DOMAIN passed = 1 .. n
      /\ q \in Seq(S) /\ Len(q) = n + 1 /\ DOMAIN q = 1 .. n + 1
      /\ q[n + 1] = scope /\ \A i \in 1 .. n : q[i] = passed[i]
  <2>1. n \in Nat /\ DOMAIN passed = 1 .. n /\ q \in Seq(S) /\ Len(q) = n + 1
    BY OwnElements
  <2>2. DOMAIN q = 1 .. n + 1
    <3> HIDE DEF q, n
    <3> QED
      BY ONLY <2>1, OwnElements
  <2>3. q[n + 1] = scope /\ \A i \in 1 .. n : q[i] = passed[i]
    OBVIOUS
  <2> QED
    BY <2>1, <2>2, <2>3
<1> HIDE DEF q, n
<1>2. \A i \in 1 .. n + 1 : i \in 1 .. n \/ i = n + 1
  BY <1>1
<1>3. n + 1 \in 1 .. n + 1 /\ \A i \in 1 .. n : i \in 1 .. n + 1
  BY <1>1
<1>4. ToSet(q) = ToSet(passed) \cup {scope}
  BY <1>1, <1>2, <1>3 DEF ToSet
<1> QED
  BY <1>1, <1>4 DEF q, n

\* What stands against a scope that was not asked for yet stands in the log as it
\* was before.
LEMMA BarredBefore ==
  ASSUME NEW l, NEW l0, NEW passed, NEW message, NEW S, passed \in Seq(S),
         Len(l0) \in Nat, Continues(l, l0, passed, message),
         NEW scope, scope \notin ToSet(passed), NEW n
  PROVE  Barred(l, <<scope, message>>, n) <=> Barred(l0, <<scope, message>>, n)
<1> DEFINE a == Len(l0)
           p == Len(passed)
<1>1. p \in Nat /\ DOMAIN passed = 1 .. p
  BY OwnElements
<1>2. Len(l) = a + p /\ a \in Nat
  BY DEF Continues
<1>3. /\ \A i \in 1 .. a : l[i] = l0[i]
      /\ \A i \in 1 .. p : l[a + i] = Dd!Entry(now, <<passed[i], message>>)
  BY DEF Continues
<1>4. ASSUME NEW i \in 1 .. p
      PROVE  l[a + i].key # <<scope, message>>
  <2>1. l[a + i].key = <<passed[i], message>>
    <3>1. l[a + i] = Dd!Entry(now, <<passed[i], message>>)
      BY <1>3
    <3>2. Dd!Entry(now, <<passed[i], message>>).key = <<passed[i], message>>
      BY DEF Dd!Entry
    <3> QED
      BY ONLY <3>1, <3>2
  <2>2. passed[i] \in ToSet(passed)
    BY <1>1 DEF ToSet
  <2>3. passed[i] # scope
    BY <2>2
  <2> QED
    BY <2>1, <2>3
<1> HIDE DEF a, p
<1>5. \A i \in 1 .. a + p : i \in 1 .. a \/ (i - a \in 1 .. p /\ a + (i - a) = i)
  BY <1>1, <1>2
<1>6. \A i \in 1 .. a : i \in 1 .. a + p
  BY <1>1, <1>2
<1>7. \A i \in 1 .. a + p : l[i].key = <<scope, message>> => i \in 1 .. a
  <2> SUFFICES ASSUME NEW i \in 1 .. a + p, l[i].key = <<scope, message>>, i \notin 1 .. a
               PROVE  FALSE
    OBVIOUS
  <2>1. i - a \in 1 .. p /\ a + (i - a) = i
    BY <1>5
  <2> QED
    BY <1>4, <2>1
<1> QED
  BY <1>2, <1>3, <1>6, <1>7 DEF Barred, a

\* The next question.
LEMMA AskStepKeeps ==
  ASSUME now \in Nat, NEW acc, NEW l0, Log(l0), NEW message, NEW sc, NEW n \in Nat,
         DOMAIN sc = 1 .. n, \A i, j \in 1 .. n : sc[i] = sc[j] => i = j,
         NEW m \in 1 .. n, AskedSofar(acc, l0, message, sc, m - 1)
  PROVE  AskedSofar(AskStep(acc, sc[m], message), l0, message, sc, m)
<1> DEFINE key == <<sc[m], message>>
           r == Dd!IsUnique(acc.d, key, now)
           next == AskStep(acc, sc[m], message)
           p == acc.passed
           a == Len(l0)
<1>1. PICK l : Continues(l, l0, p, message) /\ Trails(acc.d, l)
  BY DEF AskedSofar
<1>2. /\ r.unique \in BOOLEAN
      /\ r.unique <=> ~Barred(l, key, Len(l))
      /\ Trails(r.d, IF r.unique THEN Append(l, Dd!Entry(now, key)) ELSE l)
  BY <1>1, UniqueTrails
<1>3. next = [d |-> r.d, passed |-> IF r.unique THEN Append(p, sc[m]) ELSE p]
  BY DEF AskStep
<1> HIDE DEF r, next
<1>4. next.d = r.d /\ next.passed = IF r.unique THEN Append(p, sc[m]) ELSE p
  BY <1>3
<1> DEFINE np == next.passed
<1>5. p \in Seq(ToSet(sc)) /\ sc[m] \in ToSet(sc)
  BY DEF AskedSofar, ToSet
<1>6. a \in Nat /\ Len(p) \in Nat /\ DOMAIN p = 1 .. Len(p) /\ Len(l) = a + Len(p)
  <2>1. a \in Nat
    BY OwnElements DEF Log
  <2>2. Len(p) \in Nat /\ DOMAIN p = 1 .. Len(p)
    BY <1>5, OwnElements
  <2>3. Len(l) = a + Len(p)
    BY <1>1 DEF Continues
  <2> QED
    BY <2>1, <2>2, <2>3
<1>7. sc[m] \notin ToSet(p)
  <2> SUFFICES ASSUME sc[m] \in ToSet(p) PROVE FALSE
    OBVIOUS
  <2>1. PICK i \in DOMAIN p : p[i] = sc[m]
    BY DEF ToSet
  <2>2. PICK k \in 1 .. m - 1 : p[i] = sc[k]
    BY DEF AskedSofar
  <2>3. k \in 1 .. n /\ k # m
    OBVIOUS
  <2> QED
    BY <2>1, <2>2, <2>3
<1>8. r.unique <=> ~Barred(l0, key, a + Cardinality(PassedOf(sc, p, m - 1)))
  <2>1. Barred(l, key, Len(l)) <=> Barred(l0, key, Len(l))
    BY <1>1, <1>5, <1>6, <1>7, BarredBefore
  <2>2. Len(l) = a + Cardinality(PassedOf(sc, p, m - 1))
    BY <1>6 DEF AskedSofar
  <2> QED
    BY <1>2, <2>1, <2>2
<1>9. ToSet(np) = ToSet(p) \cup (IF r.unique THEN {sc[m]} ELSE {}) /\ np \in Seq(ToSet(sc))
  <2>1. CASE r.unique
    BY <1>4, <1>5, <2>1, OneMore
  <2>2. CASE ~r.unique
    BY <1>4, <1>5, <2>2
  <2> QED
    BY <2>1, <2>2
<1>10. ASSUME NEW i \in 1 .. m - 1
       PROVE  sc[i] \in ToSet(np) <=> sc[i] \in ToSet(p)
  <2>1. i \in 1 .. n /\ i # m
    OBVIOUS
  <2>2. sc[i] # sc[m]
    BY <2>1
  <2> QED
    BY <1>9, <2>2
<1>11. ASSUME NEW i \in 1 .. m
       PROVE  PassedOf(sc, np, i - 1) = PassedOf(sc, p, i - 1)
  <2>1. \A k \in 1 .. i - 1 : k \in 1 .. m - 1
    OBVIOUS
  <2> QED
    BY <1>10, <2>1 DEF PassedOf
<1>12. PassedOf(sc, np, m) = PassedOf(sc, p, m - 1) \cup (IF r.unique THEN {m} ELSE {})
  <2>1. \A k : k \in 1 .. m <=> k \in 1 .. m - 1 \/ k = m
    OBVIOUS
  <2>2. sc[m] \in ToSet(np) <=> r.unique
    BY <1>7, <1>9
  <2>3. \A k \in 1 .. m : k \in PassedOf(sc, np, m) <=>
                            (k \in PassedOf(sc, p, m - 1) \/ (k = m /\ r.unique))
    BY <1>10, <2>1, <2>2 DEF PassedOf
  <2>4. \A k \in PassedOf(sc, p, m - 1) : k \in 1 .. m
    BY DEF PassedOf
  <2>5. \A k \in PassedOf(sc, np, m) : k \in 1 .. m
    BY DEF PassedOf
  <2>6. m \in 1 .. m
    OBVIOUS
  <2> QED
    BY <2>3, <2>4, <2>5, <2>6
<1>13. /\ IsFiniteSet(PassedOf(sc, np, m))
       /\ Len(np) = Cardinality(PassedOf(sc, np, m))
  <2> DEFINE P == PassedOf(sc, p, m - 1)
  <2>1. IsFiniteSet(P) /\ Len(p) = Cardinality(P)
    BY DEF AskedSofar
  <2>2. m \notin P
    BY DEF PassedOf
  <2> HIDE DEF P
  <2>3. IsFiniteSet(P \cup {m}) /\ Cardinality(P \cup {m}) = Cardinality(P) + 1
    BY <2>1, <2>2, FS_AddElement
  <2>4. CASE r.unique
    <3>1. Len(np) = Len(p) + 1
      BY <1>4, <1>5, <2>4, OneMore
    <3>2. PassedOf(sc, np, m) = P \cup {m}
      BY <1>12, <2>4 DEF P
    <3> QED
      BY <2>1, <2>3, <3>1, <3>2
  <2>5. CASE ~r.unique
    <3>1. np = p
      BY <1>4, <2>5
    <3>2. PassedOf(sc, np, m) = P
      BY <1>12, <2>5 DEF P
    <3> QED
      BY <2>1, <3>1, <3>2
  <2> QED
    BY <2>4, <2>5
<1>14. \E k : Continues(k, l0, np, message) /\ Trails(next.d, k)
  <2> DEFINE e == Dd!Entry(now, key)
             q == Append(l, e)
  <2>1. CASE r.unique
    <3>1. Trails(next.d, q)
      BY <1>2, <1>4, <2>1
    <3>2. Len(q) = Len(l) + 1 /\ q[Len(l) + 1] = e /\ \A i \in 1 .. Len(l) : q[i] = l[i]
      <4>1. e.at = now /\ Log(l)
        BY <1>1 DEF Dd!Entry, Trails
      <4> HIDE DEF e
      <4> QED
        BY <4>1, AppendLog
    <3>3. /\ Len(np) = Len(p) + 1 /\ np[Len(p) + 1] = sc[m]
          /\ \A i \in 1 .. Len(p) : np[i] = p[i]
      BY <1>4, <1>5, <2>1, OneMore
    <3> HIDE DEF q, np, p, a
    <3>4. Len(q) = a + Len(np)
      BY <1>6, <3>2, <3>3
    <3>5. ASSUME NEW i \in 1 .. a
          PROVE  q[i] = l0[i]
      <4>1. i \in 1 .. Len(l)
        BY <1>6
      <4>2. l[i] = l0[i]
        BY <1>1 DEF Continues, a
      <4> QED
        BY <3>2, <4>1, <4>2
    <3>6. ASSUME NEW i \in 1 .. Len(np)
          PROVE  q[a + i] = Dd!Entry(now, <<np[i], message>>)
      <4>1. CASE i \in 1 .. Len(p)
        <5>1. a + i \in 1 .. Len(l)
          BY <1>6, <4>1
        <5>2. l[a + i] = Dd!Entry(now, <<p[i], message>>)
          BY <1>1, <4>1 DEF Continues, a
        <5> QED
          BY <3>2, <3>3, <4>1, <5>1, <5>2
      <4>2. CASE i \notin 1 .. Len(p)
        <5>1. i = Len(p) + 1 /\ a + i = Len(l) + 1
          BY <1>6, <3>3, <4>2
        <5> QED
          BY <3>2, <3>3, <5>1
      <4> QED
        BY <4>1, <4>2
    <3>7. Continues(q, l0, np, message)
      BY <3>4, <3>5, <3>6 DEF Continues, a
    <3> QED
      BY <3>1, <3>7
  <2>2. CASE ~r.unique
    <3>1. Trails(next.d, l) /\ np = p
      BY <1>2, <1>4, <2>2
    <3> QED
      BY <1>1, <3>1
  <2> QED
    BY <2>1, <2>2
<1>15. \A i \in 1 .. m :
         sc[i] \in ToSet(np)
           <=> ~Barred(l0, <<sc[i], message>>, a + Cardinality(PassedOf(sc, np, i - 1)))
  <2>1. ASSUME NEW i \in 1 .. m - 1
        PROVE  sc[i] \in ToSet(np)
                 <=> ~Barred(l0, <<sc[i], message>>, a + Cardinality(PassedOf(sc, np, i - 1)))
    <3>1. i \in 1 .. m
      OBVIOUS
    <3>2. sc[i] \in ToSet(p)
            <=> ~Barred(l0, <<sc[i], message>>, a + Cardinality(PassedOf(sc, p, i - 1)))
      BY DEF AskedSofar
    <3> QED
      BY <1>10, <1>11, <3>1, <3>2
  <2>2. sc[m] \in ToSet(np)
          <=> ~Barred(l0, key, a + Cardinality(PassedOf(sc, np, m - 1)))
    <3>1. PassedOf(sc, np, m - 1) = PassedOf(sc, p, m - 1)
      <4>1. m \in 1 .. m
        OBVIOUS
      <4> QED
        BY <1>11, <4>1
    <3>2. sc[m] \in ToSet(np) <=> r.unique
      BY <1>7, <1>9
    <3> QED
      BY <1>8, <3>1, <3>2
  <2>3. \A i \in 1 .. m : i \in 1 .. m - 1 \/ i = m
    OBVIOUS
  <2> QED
    BY <2>1, <2>2, <2>3
<1>16. \A i \in DOMAIN np : \E k \in 1 .. m : np[i] = sc[k]
  <2>1. \A i \in DOMAIN np : np[i] \in ToSet(p) \/ np[i] = sc[m]
    BY <1>9 DEF ToSet
  <2>2. \A x \in ToSet(p) : \E k \in 1 .. m - 1 : x = sc[k]
    BY DEF AskedSofar, ToSet
  <2>3. m \in 1 .. m /\ \A k \in 1 .. m - 1 : k \in 1 .. m
    OBVIOUS
  <2> HIDE DEF np, p
  <2> QED
    BY <2>1, <2>2, <2>3
<1>17. AskedSofar(next, l0, message, sc, m)
  <2> HIDE DEF key, p
  <2> QED
    BY <1>9, <1>13, <1>14, <1>15, <1>16 DEF AskedSofar, key
<1> QED
  BY <1>17 DEF next

\* So it is known of all of them.
LEMMA AskedKeeps ==
  ASSUME now \in Nat, NEW l0, Trails(dedup, l0), NEW message, NEW snap, NEW n \in Nat,
         DOMAIN Scopes(snap) = 1 .. n,
         \A i, j \in 1 .. n : Scopes(snap)[i] = Scopes(snap)[j] => i = j
  PROVE  AskedSofar(Asked(message, snap), l0, message, Scopes(snap), n)
<1> DEFINE sc == Scopes(snap)
<1>1. PICK a : AskTrace(a, message, sc, n) /\ Asked(message, snap) = a[n]
  BY AskedRuns
<1> HIDE DEF sc
<1> DEFINE Bad == {m \in 0 .. n : ~AskedSofar(a[m], l0, message, sc, m)}
<1>0. Log(l0) /\ Len(l0) \in Nat
  BY OwnElements DEF Trails, Log
<1>2. AskedSofar(a[0], l0, message, sc, 0)
  <2>1. a[0] = AskBase
    BY <1>1 DEF AskTrace
  <2>2. a[0].d = dedup /\ a[0].passed = <<>>
    BY <2>1 DEF AskBase
  <2>3. /\ ToSet(<<>>) = {} /\ <<>> \in Seq(ToSet(sc)) /\ DOMAIN <<>> = {} /\ Len(<<>>) = 0
    BY EmptySeq DEF ToSet
  <2>4. PassedOf(sc, <<>>, 0) = {} /\ 1 .. 0 = {}
    BY <2>3 DEF PassedOf
  <2>5. IsFiniteSet({}) /\ Cardinality({}) = 0
    BY FS_EmptySet
  <2>6. Continues(l0, l0, <<>>, message)
    BY <1>0, <2>3 DEF Continues
  <2> QED
    BY <2>2, <2>3, <2>4, <2>5, <2>6 DEF AskedSofar
<1>3. ASSUME NEW m \in 1 .. n, AskedSofar(a[m - 1], l0, message, sc, m - 1)
      PROVE  AskedSofar(a[m], l0, message, sc, m)
  <2>1. a[m] = AskStep(a[m - 1], sc[m], message)
    BY ONLY <1>1, m \in 1 .. n DEF AskTrace
  <2>2. DOMAIN sc = 1 .. n /\ \A i, j \in 1 .. n : sc[i] = sc[j] => i = j
    BY DEF sc
  <2>3. AskedSofar(AskStep(a[m - 1], sc[m], message), l0, message, sc, m)
    BY <1>0, <1>3, <2>2, AskStepKeeps
  <2> QED
    BY <2>1, <2>3
<1>4. Bad = {}
  <2> SUFFICES ASSUME Bad # {} PROVE FALSE
    OBVIOUS
  <2>1. PICK m \in Bad : \A l \in Bad : m <= l
    <3>1. Bad \subseteq Nat
      OBVIOUS
    <3> QED
      BY <3>1, LeastNumber
  <2>2. m \in 1 .. n /\ ~AskedSofar(a[m], l0, message, sc, m) /\ m - 1 \in 0 .. n /\ ~(m <= m - 1)
    BY <1>2, <2>1
  <2> QED
    BY <1>3, <2>1, <2>2
<1>5. n \in 0 .. n
  OBVIOUS
<1>6. AskedSofar(a[n], l0, message, sc, n)
  BY <1>4, <1>5
<1> QED
  BY <1>1, <1>6 DEF sc

-----------------------------------------------------------------------------
(* The processor.                                                          *)

GidsOf(S) == {ValidGid(x) : x \in S} \ {NoValue}
CsOf(S) == {ValidC(x) : x \in S} \ {NoValue}

\* What the contexts hold for k, when S are the arrivals of its group.
GidsHold(k, S, gs) ==
  /\ GidsOf(S) = (IF k \in DOMAIN gs THEN gs[k] ELSE {})
  /\ k \in DOMAIN gs => gs[k] # {}

CsHold(k, S, cs) ==
  /\ CsOf(S) = {} <=> k \notin DOMAIN cs
  /\ k \in DOMAIN cs => cs[k] \in CsOf(S) /\ \A c \in CsOf(S) : cs[k] <= c

SHolds(k, S, ss) ==
  k \in DOMAIN ss => ss[k] # NoValue /\ \E x \in S : x.hasG /\ x.s = ss[k]

\* No arrival that may leave its s behind was forgotten.
SKept(k, S, ss) ==
  k \notin DOMAIN ss => \A x \in S : x.hasG => x.s = NoValue

\* The contexts are those of the groups of D, of which k has the arrivals of[k].
Hold(D, of, cs, gs, ss) ==
  /\ DOMAIN cs \subseteq D /\ DOMAIN gs \subseteq D /\ DOMAIN ss \subseteq D
  /\ \A k \in D : /\ of[k] \subseteq Sentences
                  /\ GidsHold(k, of[k], gs) /\ CsHold(k, of[k], cs) /\ SHolds(k, of[k], ss)

ContextsInv ==
  /\ DOMAIN seen = DOMAIN groups
  /\ Hold(DOMAIN groups, seen, cCtx, gidCtx, sCtx)
  /\ \A k \in DOMAIN groups : SKept(k, seen[k], sCtx)

\* The groups, the one that was completed included, after an arrival with outcome
\* o, and their arrivals.
Met(o) == (DOMAIN groups \ o.discarded) \cup (IF o.status \in Merging THEN {o.key} ELSE {})

MetBy(x, o) ==
  [k \in Met(o) |-> (IF k \in DOMAIN groups \ o.discarded THEN seen[k] ELSE {})
                     \cup (IF o.status \in Merging /\ k = o.key THEN {x} ELSE {})]

\* The timestamps of sentences are numbers.
LEMMA TimesAreNumbers ==
  ASSUME NEW S, S \subseteq Sentences
  PROVE  CsOf(S) \subseteq Nat
<1> SUFFICES ASSUME NEW x \in S, ValidC(x) # NoValue
             PROVE  ValidC(x) \in Nat
  BY DEF CsOf
<1>1. x.c \in {NoValue} \cup Nat
  BY ProcessorAssumption
<1> QED
  BY <1>1 DEF ValidC

\* What an arrival adds to the group ids and timestamps of its group.
LEMMA GidsGrow ==
  ASSUME NEW S, NEW x
  PROVE  /\ GidsOf(S \cup {x}) = GidsOf(S) \cup (IF ValidGid(x) = NoValue THEN {} ELSE {ValidGid(x)})
         /\ CsOf(S \cup {x}) = CsOf(S) \cup (IF ValidC(x) = NoValue THEN {} ELSE {ValidC(x)})
         /\ GidsOf({}) = {} /\ CsOf({}) = {}
BY DEF GidsOf, CsOf

\* Merging the group ids of an arrival keeps what the contexts hold.
LEMMA GidsMerge ==
  ASSUME ContextsInv, NEW x, NEW o
  PROVE  /\ DOMAIN MergedGid(x, o) \subseteq Met(o)
         /\ \A k \in Met(o) : GidsHold(k, MetBy(x, o)[k], MergedGid(x, o))
<1> DEFINE ctx == Discard(gidCtx, o.discarded)
           new == o.status \in Merging /\ ValidGid(x) # NoValue
           old(k) == IF k \in DOMAIN groups \ o.discarded THEN seen[k] ELSE {}
<1>1. /\ DOMAIN ctx = DOMAIN gidCtx \ o.discarded
      /\ \A k \in DOMAIN ctx : ctx[k] = gidCtx[k]
      /\ DOMAIN gidCtx \subseteq DOMAIN groups
  <2>1. DOMAIN gidCtx \subseteq DOMAIN groups
    BY DEF ContextsInv, Hold
  <2> QED
    BY <2>1 DEF Discard
<1>2. ASSUME NEW k
      PROVE  GidsHold(k, old(k), ctx)
  <2>1. CASE k \in DOMAIN groups \ o.discarded
    <3>1. GidsHold(k, seen[k], gidCtx)
      BY <2>1 DEF ContextsInv, Hold
    <3> HIDE DEF ctx
    <3> QED
      BY <1>1, <2>1, <3>1 DEF GidsHold
  <2>2. CASE k \notin DOMAIN groups \ o.discarded
    <3>1. k \notin DOMAIN ctx
      BY <1>1, <2>2
    <3> HIDE DEF ctx
    <3> QED
      BY <2>2, <3>1, GidsGrow DEF GidsHold
  <2> QED
    BY <2>1, <2>2
<1>3. MergedGid(x, o) = IF new THEN Put(ctx, o.key, (IF o.key \in DOMAIN ctx THEN ctx[o.key] ELSE {})
                                                    \cup {ValidGid(x)}) ELSE ctx
  BY DEF MergedGid
<1>4. \A k \in Met(o) : MetBy(x, o)[k] = old(k) \cup (IF o.status \in Merging /\ k = o.key THEN {x} ELSE {})
  BY DEF MetBy
<1>5. DOMAIN ctx \subseteq Met(o)
  BY <1>1 DEF Met
<1> HIDE DEF ctx, old
<1>6. CASE new
  <2>1. o.key \in Met(o)
    BY <1>6 DEF Met
  <2> DEFINE m == MergedGid(x, o)
             v == (IF o.key \in DOMAIN ctx THEN ctx[o.key] ELSE {}) \cup {ValidGid(x)}
  <2>2. m = Put(ctx, o.key, v)
    BY <1>3, <1>6
  <2> HIDE DEF m, v
  <2>3. DOMAIN m = DOMAIN ctx \cup {o.key} /\ m[o.key] = v
        /\ \A k \in DOMAIN ctx : k # o.key => m[k] = ctx[k]
    BY ONLY <2>2 DEF Put
  <2>4. ASSUME NEW k \in Met(o), k # o.key
        PROVE  GidsHold(k, MetBy(x, o)[k], m)
    <3>1. MetBy(x, o)[k] = old(k)
      BY <1>4, <2>4
    <3>2. GidsHold(k, old(k), ctx)
      BY <1>2
    <3> QED
      BY ONLY <2>3, <2>4, <3>1, <3>2 DEF GidsHold
  <2>5. GidsHold(o.key, MetBy(x, o)[o.key], m)
    <3>1. MetBy(x, o)[o.key] = old(o.key) \cup {x}
      BY <1>4, <1>6, <2>1
    <3>2. GidsHold(o.key, old(o.key), ctx)
      BY <1>2
    <3>3. GidsOf(old(o.key) \cup {x}) = GidsOf(old(o.key)) \cup {ValidGid(x)}
      BY <1>6, GidsGrow
    <3> QED
      BY ONLY <2>3, <3>1, <3>2, <3>3 DEF GidsHold, v
  <2> QED
    BY <1>5, <2>1, <2>3, <2>4, <2>5 DEF m
<1>7. CASE ~new
  <2>1. MergedGid(x, o) = ctx
    BY <1>3, <1>7
  <2>2. ASSUME NEW k \in Met(o)
        PROVE  GidsHold(k, MetBy(x, o)[k], ctx)
    <3>1. GidsOf(MetBy(x, o)[k]) = GidsOf(old(k))
      <4>1. CASE o.status \in Merging /\ k = o.key
        <5>1. MetBy(x, o)[k] = old(k) \cup {x} /\ ValidGid(x) = NoValue
          BY <1>4, <1>7, <4>1
        <5>2. GidsOf(old(k) \cup {x}) = GidsOf(old(k)) \cup {}
          BY <5>1, GidsGrow
        <5> QED
          BY ONLY <5>1, <5>2
      <4>2. CASE ~(o.status \in Merging /\ k = o.key)
        <5>1. MetBy(x, o)[k] = old(k) \cup {}
          BY <1>4, <2>2, <4>2
        <5> QED
          BY ONLY <5>1
      <4> QED
        BY <4>1, <4>2
    <3> QED
      BY <1>2, <3>1 DEF GidsHold
  <2> QED
    BY <1>5, <2>1, <2>2
<1> QED
  BY <1>6, <1>7

\* So does merging its time, as the least is kept.
LEMMA CsMerge ==
  ASSUME ContextsInv, NEW x \in Sentences, NEW o
  PROVE  /\ DOMAIN MergedC(x, o) \subseteq Met(o)
         /\ \A k \in Met(o) : CsHold(k, MetBy(x, o)[k], MergedC(x, o))
<1> DEFINE ctx == Discard(cCtx, o.discarded)
           new == o.status \in Merging /\ ValidC(x) # NoValue
           old(k) == IF k \in DOMAIN groups \ o.discarded THEN seen[k] ELSE {}
           v == IF o.key \in DOMAIN ctx THEN Lesser(ctx[o.key], ValidC(x)) ELSE ValidC(x)
<1>1. /\ DOMAIN ctx = DOMAIN cCtx \ o.discarded
      /\ \A k \in DOMAIN ctx : ctx[k] = cCtx[k]
      /\ DOMAIN cCtx \subseteq DOMAIN groups
  <2>1. DOMAIN cCtx \subseteq DOMAIN groups
    BY DEF ContextsInv, Hold
  <2> QED
    BY <2>1 DEF Discard
<1>2. ASSUME NEW k
      PROVE  CsHold(k, old(k), ctx) /\ CsOf(old(k)) \subseteq Nat
  <2>1. CASE k \in DOMAIN groups \ o.discarded
    <3>1. CsHold(k, seen[k], cCtx) /\ seen[k] \subseteq Sentences
      BY <2>1 DEF ContextsInv, Hold
    <3>2. CsOf(seen[k]) \subseteq Nat
      BY <3>1, TimesAreNumbers
    <3> HIDE DEF ctx
    <3> QED
      BY <1>1, <2>1, <3>1, <3>2 DEF CsHold
  <2>2. CASE k \notin DOMAIN groups \ o.discarded
    <3>1. k \notin DOMAIN ctx
      BY <1>1, <2>2
    <3> HIDE DEF ctx
    <3> QED
      BY <2>2, <3>1, GidsGrow DEF CsHold
  <2> QED
    BY <2>1, <2>2
<1>3. MergedC(x, o) = IF new THEN Put(ctx, o.key, v) ELSE ctx
  BY DEF MergedC
<1>4. \A k \in Met(o) : MetBy(x, o)[k] = old(k) \cup (IF o.status \in Merging /\ k = o.key THEN {x} ELSE {})
  BY DEF MetBy
<1>5. DOMAIN ctx \subseteq Met(o)
  BY <1>1 DEF Met
<1> HIDE DEF ctx, old
<1>6. CASE new
  <2>1. o.key \in Met(o)
    BY <1>6 DEF Met
  <2> DEFINE m == MergedC(x, o)
  <2>2. m = Put(ctx, o.key, v)
    BY <1>3, <1>6
  <2> HIDE DEF m, v
  <2>3. DOMAIN m = DOMAIN ctx \cup {o.key} /\ m[o.key] = v
        /\ \A k \in DOMAIN ctx : k # o.key => m[k] = ctx[k]
    BY ONLY <2>2 DEF Put
  <2>4. ASSUME NEW k \in Met(o), k # o.key
        PROVE  CsHold(k, MetBy(x, o)[k], m)
    <3>1. MetBy(x, o)[k] = old(k) \cup {}
      BY <1>4, <2>4
    <3>2. CsHold(k, old(k), ctx)
      BY <1>2
    <3> QED
      BY ONLY <2>3, <2>4, <3>1, <3>2 DEF CsHold
  <2>5. CsHold(o.key, MetBy(x, o)[o.key], m)
    <3> DEFINE S == CsOf(old(o.key))
               c == ValidC(x)
    <3>1. MetBy(x, o)[o.key] = old(o.key) \cup {x}
      BY <1>4, <1>6, <2>1
    <3>2. CsHold(o.key, old(o.key), ctx) /\ S \subseteq Nat
      BY <1>2
    <3>3. CsOf(old(o.key) \cup {x}) = S \cup {c}
      BY <1>6, GidsGrow
    <3>4. c \in Nat
      <4>1. CsOf({x}) \subseteq Nat /\ c \in CsOf({x})
        BY <1>6, TimesAreNumbers DEF CsOf
      <4> QED
        BY ONLY <4>1
    <3> HIDE DEF S, c
    <3>5. v \in S \cup {c} /\ \A t \in S \cup {c} : v <= t
      <4>1. v = IF o.key \in DOMAIN ctx THEN Lesser(ctx[o.key], c) ELSE c
        BY DEF v, c
      <4>2. /\ S = {} <=> o.key \notin DOMAIN ctx
            /\ o.key \in DOMAIN ctx => ctx[o.key] \in S /\ \A t \in S : ctx[o.key] <= t
        BY <3>2 DEF CsHold, S
      <4>3. \A t \in S : t \in Nat
        BY <3>2
      <4>4. CASE o.key \in DOMAIN ctx
        <5> DEFINE u == ctx[o.key]
        <5>1. u \in S /\ u \in Nat /\ (\A t \in S : u <= t) /\ v = Lesser(u, c)
          BY <4>1, <4>2, <4>3, <4>4
        <5> HIDE DEF u
        <5> QED
          BY ONLY <3>4, <4>3, <5>1 DEF Lesser
      <4>5. CASE o.key \notin DOMAIN ctx
        BY ONLY <3>4, <4>1, <4>2, <4>5
      <4> QED
        BY <4>4, <4>5
    <3>6. CsOf(MetBy(x, o)[o.key]) = S \cup {c} /\ S \cup {c} # {}
      BY ONLY <3>1, <3>3
    <3> QED
      BY ONLY <2>3, <3>5, <3>6 DEF CsHold
  <2> QED
    BY <1>5, <2>1, <2>3, <2>4, <2>5 DEF m
<1>7. CASE ~new
  <2>1. MergedC(x, o) = ctx
    BY <1>3, <1>7
  <2>2. ASSUME NEW k \in Met(o)
        PROVE  CsHold(k, MetBy(x, o)[k], ctx)
    <3>1. CsOf(MetBy(x, o)[k]) = CsOf(old(k))
      <4>1. CASE o.status \in Merging /\ k = o.key
        <5>1. MetBy(x, o)[k] = old(k) \cup {x} /\ ValidC(x) = NoValue
          BY <1>4, <1>7, <4>1
        <5>2. CsOf(old(k) \cup {x}) = CsOf(old(k)) \cup {}
          BY <5>1, GidsGrow
        <5> QED
          BY ONLY <5>1, <5>2
      <4>2. CASE ~(o.status \in Merging /\ k = o.key)
        <5>1. MetBy(x, o)[k] = old(k) \cup {}
          BY <1>4, <2>2, <4>2
        <5> QED
          BY ONLY <5>1
      <4> QED
        BY <4>1, <4>2
    <3> QED
      BY <1>2, <3>1 DEF CsHold
  <2> QED
    BY <1>5, <2>1, <2>2
<1> QED
  BY <1>6, <1>7

\* The s that is kept for a group is one that came with it.
LEMMA SMerge ==
  ASSUME ContextsInv, NEW x, NEW o
  PROVE  /\ DOMAIN MergedS(x, o) \subseteq Met(o)
         /\ \A k \in Met(o) : SHolds(k, MetBy(x, o)[k], MergedS(x, o))
<1> DEFINE ctx == Discard(sCtx, o.discarded)
           new == o.status \in {"PENDING", "DUPLICATE"} /\ x.s # NoValue /\ x.hasG
<1>1. /\ DOMAIN ctx = DOMAIN sCtx \ o.discarded
      /\ \A k \in DOMAIN ctx : ctx[k] = sCtx[k]
      /\ DOMAIN sCtx \subseteq DOMAIN groups
  <2>1. DOMAIN sCtx \subseteq DOMAIN groups
    BY DEF ContextsInv, Hold
  <2> QED
    BY <2>1 DEF Discard
<1>2. MergedS(x, o) = IF new THEN Put(ctx, o.key, x.s) ELSE ctx
  BY DEF MergedS
<1>3. new => o.status \in Merging
  BY DEF Merging
<1>4. ASSUME NEW k \in DOMAIN ctx
      PROVE  k \in Met(o) /\ SHolds(k, MetBy(x, o)[k], ctx)
  <2>1. k \in DOMAIN groups \ o.discarded /\ k \in Met(o) /\ ctx[k] = sCtx[k] /\ k \in DOMAIN sCtx
    BY <1>1 DEF Met
  <2>2. SHolds(k, seen[k], sCtx)
    BY <2>1 DEF ContextsInv, Hold
  <2>3. seen[k] \subseteq MetBy(x, o)[k]
    BY <2>1 DEF MetBy
  <2> HIDE DEF ctx
  <2> QED
    BY <2>1, <2>2, <2>3 DEF SHolds
<1> HIDE DEF ctx
<1>5. CASE new
  <2>1. o.key \in Met(o) /\ x \in MetBy(x, o)[o.key]
    BY <1>3, <1>5 DEF Met, MetBy
  <2> DEFINE m == MergedS(x, o)
  <2>2. m = Put(ctx, o.key, x.s)
    BY <1>2, <1>5
  <2> HIDE DEF m
  <2>3. DOMAIN m = DOMAIN ctx \cup {o.key} /\ m[o.key] = x.s
        /\ \A k \in DOMAIN ctx : k # o.key => m[k] = ctx[k]
    BY ONLY <2>2 DEF Put
  <2>4. SHolds(o.key, MetBy(x, o)[o.key], m)
    BY <1>5, <2>1, <2>3 DEF SHolds
  <2>5. ASSUME NEW k \in Met(o), k # o.key
        PROVE  SHolds(k, MetBy(x, o)[k], m)
    BY <1>4, <2>3, <2>5 DEF SHolds
  <2> QED
    BY <1>4, <2>1, <2>3, <2>4, <2>5 DEF m
<1>6. CASE ~new
  <2>1. MergedS(x, o) = ctx
    BY <1>2, <1>6
  <2> QED
    BY <1>4, <2>1 DEF SHolds
<1> QED
  BY <1>5, <1>6

\* An s that may be kept is kept until the group is consumed.
LEMMA SKeptMerge ==
  ASSUME ContextsInv, NEW x, NEW o, o.status \in Statuses
  PROVE  \A k \in Met(o) \ Consumed(o) : SKept(k, MetBy(x, o)[k], MergedS(x, o))
<1> DEFINE ctx == Discard(sCtx, o.discarded)
           m == MergedS(x, o)
           new == o.status \in {"PENDING", "DUPLICATE"} /\ x.s # NoValue /\ x.hasG
<1>1. DOMAIN ctx = DOMAIN sCtx \ o.discarded
  BY DEF Discard
<1>2. DOMAIN m = IF new THEN DOMAIN ctx \cup {o.key} ELSE DOMAIN ctx
  <2>1. m = IF new THEN Put(ctx, o.key, x.s) ELSE ctx
    BY DEF MergedS
  <2> HIDE DEF m, ctx
  <2>2. DOMAIN Put(ctx, o.key, x.s) = DOMAIN ctx \cup {o.key}
    BY DEF Put
  <2> QED
    BY <2>1, <2>2
<1> HIDE DEF m, ctx
<1>3. ASSUME NEW k \in Met(o) \ Consumed(o), k \notin DOMAIN m,
             NEW z \in MetBy(x, o)[k], z.hasG
      PROVE  z.s = NoValue
  <2>1. CASE k \in DOMAIN groups \ o.discarded /\ z \in seen[k]
    <3>1. SKept(k, seen[k], sCtx)
      BY <2>1 DEF ContextsInv
    <3>2. k \notin DOMAIN sCtx
      BY <1>1, <1>2, <1>3, <2>1
    <3> QED
      BY <1>3, <2>1, <3>1, <3>2 DEF SKept
  <2>2. CASE ~(k \in DOMAIN groups \ o.discarded /\ z \in seen[k])
    <3>1. o.status \in Merging /\ k = o.key /\ z = x
      BY <1>3, <2>2 DEF MetBy
    <3>2. o.status # "COMPLETE"
      BY <1>3, <3>1 DEF Consumed
    <3>3. ~new
      BY <1>2, <1>3, <3>1
    <3> QED
      BY <1>3, <3>1, <3>2, <3>3 DEF Merging
  <2> QED
    BY <2>1, <2>2
<1> QED
  BY <1>3 DEF m, SKept

\* The contexts hold the metadata of the arrivals, the one being merged included.
LEMMA MergedHold ==
  ASSUME ContextsInv, NEW x \in Sentences, NEW o
  PROVE  Hold(Met(o), MetBy(x, o), MergedC(x, o), MergedGid(x, o), MergedS(x, o))
<1>1. \A k \in Met(o) : MetBy(x, o)[k] \subseteq Sentences
  BY DEF MetBy, ContextsInv, Hold
<1> QED
  BY <1>1, GidsMerge, CsMerge, SMerge DEF Hold

\* Contexts of fewer groups.
LEMMA HoldLess ==
  ASSUME NEW D, NEW of, NEW cs, NEW gs, NEW ss, Hold(D, of, cs, gs, ss), NEW S
  PROVE  Hold(D \ S, of, Discard(cs, S), Discard(gs, S), Discard(ss, S))
<1> DEFINE cs2 == Discard(cs, S)
           gs2 == Discard(gs, S)
           ss2 == Discard(ss, S)
<1>1. /\ DOMAIN cs2 = DOMAIN cs \ S /\ \A k \in DOMAIN cs2 : cs2[k] = cs[k]
      /\ DOMAIN gs2 = DOMAIN gs \ S /\ \A k \in DOMAIN gs2 : gs2[k] = gs[k]
      /\ DOMAIN ss2 = DOMAIN ss \ S /\ \A k \in DOMAIN ss2 : ss2[k] = ss[k]
  BY DEF Discard
<1> HIDE DEF cs2, gs2, ss2
<1>2. ASSUME NEW k \in D \ S
      PROVE  /\ of[k] \subseteq Sentences
             /\ GidsHold(k, of[k], gs2) /\ CsHold(k, of[k], cs2) /\ SHolds(k, of[k], ss2)
  <2>1. /\ of[k] \subseteq Sentences
        /\ GidsHold(k, of[k], gs) /\ CsHold(k, of[k], cs) /\ SHolds(k, of[k], ss)
    BY DEF Hold
  <2>2. GidsHold(k, of[k], gs2)
    BY ONLY <1>1, <1>2, <2>1 DEF GidsHold
  <2>3. CsHold(k, of[k], cs2)
    BY ONLY <1>1, <1>2, <2>1 DEF CsHold
  <2>4. SHolds(k, of[k], ss2)
    BY ONLY <1>1, <1>2, <2>1 DEF SHolds
  <2> QED
    BY <2>1, <2>2, <2>3, <2>4
<1>3. DOMAIN cs2 \subseteq D \ S /\ DOMAIN gs2 \subseteq D \ S /\ DOMAIN ss2 \subseteq D \ S
  BY <1>1 DEF Hold
<1>4. Hold(D \ S, of, cs2, gs2, ss2)
  BY ONLY <1>2, <1>3 DEF Hold
<1> QED
  BY <1>4 DEF cs2, gs2, ss2

\* The same arrivals by another function.
LEMMA HoldSame ==
  ASSUME NEW D, NEW of, NEW of2, NEW cs, NEW gs, NEW ss, Hold(D, of, cs, gs, ss),
         \A k \in D : of2[k] = of[k]
  PROVE  Hold(D, of2, cs, gs, ss)
BY DEF Hold

\* The assembler takes a sentence.
Fed(x) == IF x.ordinal = 0 THEN Invalid ELSE Feed(x.key, x.ordinal, x.text)

\* A sentence that is fed is a step of the assembler.
LEMMA FeedIsStep ==
  ASSUME NEW x \in Sentences, Fed(x)
  PROVE  Next /\ (Invalid \/ \E k \in Keys : \E i \in Ordinals(k), t \in Texts : Feed(k, i, t))
<1>1. x.ordinal # 0 => x.key \in Keys /\ x.ordinal \in Ordinals(x.key) /\ x.text \in Texts
  BY ProcessorAssumption
<1> QED
  BY <1>1 DEF Fed, Next

\* What the caller of the assembler sees of an arrival with outcome o.
Finishes(o) ==
  /\ o.key \in DOMAIN groups /\ o.discarded = {}
  /\ o.key \in Keys /\ Total[o.key] > 1
  /\ DOMAIN o.sentences = 1 .. Total[o.key]
  /\ o.sentences = [p \in 1 .. Total[o.key] |-> o.sentences[p]]

Sees(x, o) ==
  /\ o.status \in Statuses
  /\ DOMAIN groups' = Met(o) \ Consumed(o)
  /\ \A k \in DOMAIN groups' : SeenAfter(x)[k] = MetBy(x, o)[k]
  /\ o.status = "COMPLETE" => Finishes(o)
  /\ o.status = "SINGLE" => o.sentences = <<x.text>>

\* Its outcome says which groups are there afterwards, and which arrivals each has.
LEMMA FeedMeets ==
  ASSUME AssemblerInv, DOMAIN seen = DOMAIN groups, NEW x \in Sentences, Fed(x)
  PROVE  Sees(x, outcome')
<1> DEFINE o == outcome'
           Meets == DOMAIN groups' = Met(o) \ Consumed(o)
           Same == \A k \in DOMAIN groups' : SeenAfter(x)[k] = MetBy(x, o)[k]
<1>1. /\ DOMAIN groups \subseteq Keys /\ NoKey \notin Keys
      /\ Expired = {k \in DOMAIN groups : Stale(groups[k])}
  BY AssemblerAssumption DEF AssemblerInv, GroupsTyped, Expired
<1>2. \A k \in DOMAIN groups' :
        SeenAfter(x)[k] = (IF k \in DOMAIN groups /\ ~(k = o.key /\ Stale(groups[k]))
                           THEN seen[k] ELSE {})
                          \cup (IF o.key = k THEN {x} ELSE {})
  BY DEF SeenAfter
<1>3. \A k \in Met(o) :
        MetBy(x, o)[k] = (IF k \in DOMAIN groups \ o.discarded THEN seen[k] ELSE {})
                         \cup (IF o.status \in Merging /\ k = o.key THEN {x} ELSE {})
  BY DEF MetBy
\* It is enough to say which groups keep their arrivals.
<1>4. ASSUME Meets,
             \A k \in DOMAIN groups' :
               /\ (k \in DOMAIN groups /\ ~(k = o.key /\ Stale(groups[k])))
                    <=> k \in DOMAIN groups \ o.discarded
               /\ o.key = k <=> (o.status \in Merging /\ k = o.key)
      PROVE  Same
  <2>1. ASSUME NEW k \in DOMAIN groups'
        PROVE  SeenAfter(x)[k] = MetBy(x, o)[k]
    <3>1. k \in Met(o)
      BY <1>4
    <3>2. /\ (k \in DOMAIN groups /\ ~(k = o.key /\ Stale(groups[k])))
               <=> k \in DOMAIN groups \ o.discarded
          /\ o.key = k <=> (o.status \in Merging /\ k = o.key)
      BY <1>4
    <3> HIDE DEF o
    <3>3. SeenAfter(x)[k] = (IF k \in DOMAIN groups /\ ~(k = o.key /\ Stale(groups[k]))
                            THEN seen[k] ELSE {})
                           \cup (IF o.key = k THEN {x} ELSE {})
      BY ONLY <1>2, <2>1
    <3>4. MetBy(x, o)[k] = (IF k \in DOMAIN groups \ o.discarded THEN seen[k] ELSE {})
                           \cup (IF o.status \in Merging /\ k = o.key THEN {x} ELSE {})
      BY ONLY <1>3, <3>1
    <3> QED
      BY ONLY <3>2, <3>3, <3>4
  <2> QED
    BY <2>1
<1> HIDE DEF Same
<1>5. ASSUME Passes, o.key = NoKey, o.status \in {"INVALID", "SINGLE", "LIMIT_EXCEEDED"},
             o.status = "SINGLE" => o.sentences = <<x.text>>
      PROVE  Sees(x, o)
  <2>1. groups' = groups /\ o.discarded = {} /\ o.status \notin Merging
    BY <1>5 DEF Passes, Merging
  <2>2. Meets
    BY <1>5, <2>1 DEF Met, Consumed
  <2>3. Same
    BY <1>1, <1>4, <1>5, <2>1, <2>2
  <2> QED
    BY <1>5, <2>2, <2>3 DEF Sees, Same, Statuses
<1>6. ASSUME NEW k \in Keys, NEW i \in Ordinals(k), NEW t, Duplicate(k, i, t)
      PROVE  Sees(x, o)
  <2>1. /\ groups' = Without(Expired) /\ o.discarded = Expired
        /\ o.status = "DUPLICATE" /\ o.key = k
    BY <1>6, EndingCalls
  <2>2. k \in DOMAIN groups \ Expired
    BY <1>6 DEF Duplicate, Live, Expired
  <2>3. DOMAIN groups' = DOMAIN groups \ Expired
    BY <2>1 DEF Without
  <2>4. Meets
    BY <2>1, <2>2, <2>3 DEF Met, Merging, Consumed
  <2>5. Same
    BY <1>1, <1>4, <2>1, <2>3, <2>4 DEF Merging
  <2> QED
    BY <2>1, <2>4, <2>5 DEF Sees, Same, Statuses
<1>7. ASSUME NEW k \in Keys, NEW i \in Ordinals(k), NEW t, Conflict(k, i, t)
      PROVE  Sees(x, o)
  <2>1. /\ groups' = Without(Expired \cup {k}) /\ o.discarded = Expired \cup {k}
        /\ o.status = "CONFLICT" /\ o.key = k
    BY <1>7, EndingCalls
  <2>2. DOMAIN groups' = DOMAIN groups \ (Expired \cup {k})
    BY <2>1 DEF Without
  <2>3. Meets
    BY <2>1, <2>2 DEF Met, Merging, Consumed
  <2>4. Same
    BY <1>1, <1>4, <2>1, <2>2, <2>3 DEF Merging
  <2> QED
    BY <2>1, <2>3, <2>4 DEF Sees, Same, Statuses
<1>8. ASSUME NEW k \in Keys, NEW i \in Ordinals(k), NEW t, Complete(k, i, t)
      PROVE  Sees(x, o)
  <2>1. /\ groups' = Without({k}) /\ o.discarded = {} /\ k \in DOMAIN groups
        /\ o.status = "COMPLETE" /\ o.key = k
    BY <1>8, EndingCalls
  <2>2. DOMAIN groups' = DOMAIN groups \ {k}
    BY <2>1 DEF Without
  <2>3. Meets
    BY <2>1, <2>2 DEF Met, Merging, Consumed
  <2>4. ~Stale(groups[k])
    BY <1>8 DEF Complete, Live
  <2>5. Same
    BY <1>1, <1>4, <2>1, <2>2, <2>3, <2>4
  <2>6. /\ o.sentences = [p \in Ordinals(k) |-> Progress(groups[k], i, t).fragments[p]]
        /\ Total[k] > 1
    BY <1>8 DEF Complete, Outcome, Multipart
  <2>7. Finishes(o)
    BY <2>1, <2>6 DEF Finishes, Ordinals
  <2> QED
    BY <2>1, <2>3, <2>5, <2>7 DEF Sees, Same, Statuses
<1>9. ASSUME NEW k \in Keys, NEW i \in Ordinals(k), NEW t, Extend(k, i, t)
      PROVE  Sees(x, o)
  <2>1. /\ k \in DOMAIN groups \ Expired
        /\ DOMAIN groups' = DOMAIN groups \ Expired
        /\ o.status = "PENDING" /\ o.key = k /\ o.discarded = Expired
    BY <1>9, ExtendLeaves
  <2>2. Meets
    BY <2>1 DEF Met, Merging, Consumed
  <2>3. Same
    BY <1>1, <1>4, <2>1, <2>2 DEF Merging
  <2> QED
    BY <2>1, <2>2, <2>3 DEF Sees, Same, Statuses
<1>10. ASSUME NEW k \in Keys, NEW i \in Ordinals(k), NEW t, Start(k, i, t)
       PROVE  Sees(x, o)
  <2> DEFINE evicted == Evicted(DOMAIN groups \ Expired)
  <2>1. /\ k \notin evicted
        /\ DOMAIN groups' = (DOMAIN groups \ (Expired \cup evicted)) \cup {k}
        /\ k \in DOMAIN groups => k \in Expired
        /\ o.status = "PENDING" /\ o.key = k
        /\ o.discarded = Expired \cup evicted
    BY <1>10, StartLeaves
  <2> HIDE DEF evicted
  <2>2. Meets
    BY <2>1 DEF Met, Merging, Consumed
  <2>3. Same
    BY <1>1, <1>4, <2>1, <2>2 DEF Merging
  <2> QED
    BY <2>1, <2>2, <2>3 DEF Sees, Same, Statuses
<1>11. CASE x.ordinal = 0
  <2>1. Invalid
    BY <1>11 DEF Fed
  <2>2. Passes /\ o.key = NoKey /\ o.status = "INVALID"
    BY <2>1, PassingCalls DEF Invalid, PassBy, Outcome
  <2> QED
    BY <1>5, <2>2
<1>12. CASE x.ordinal # 0
  <2> DEFINE k == x.key
             i == x.ordinal
             t == x.text
  <2>1. k \in Keys /\ i \in Ordinals(k) /\ t \in Texts /\ Feed(k, i, t)
    BY <1>12, ProcessorAssumption DEF Fed
  <2> HIDE DEF k, i
  <2>2. CASE Single(k, t)
    <3>1. o.key = NoKey /\ o.status = "SINGLE" /\ o.sentences = <<t>>
      BY <2>2 DEF Single, PassBy, Outcome
    <3>2. Passes
      BY ONLY <2>1, <2>2, PassingCalls
    <3> QED
      BY <1>5, <3>1, <3>2
  <2>3. CASE LimitExceeded(k)
    <3>1. o.key = NoKey /\ o.status = "LIMIT_EXCEEDED"
      BY <2>3 DEF LimitExceeded, PassBy, Outcome
    <3>2. Passes
      BY ONLY <2>1, <2>3, PassingCalls
    <3> QED
      BY <1>5, <3>1, <3>2
  <2>4. CASE Duplicate(k, i, t)
    BY <1>6, <2>1, <2>4
  <2>5. CASE Conflict(k, i, t)
    BY <1>7, <2>1, <2>5
  <2>6. CASE Complete(k, i, t)
    BY <1>8, <2>1, <2>6
  <2>7. CASE Extend(k, i, t)
    BY <1>9, <2>1, <2>7
  <2>8. CASE Start(k, i, t)
    BY <1>10, <2>1, <2>8
  <2> QED
    BY <2>1, <2>2, <2>3, <2>4, <2>5, <2>6, <2>7, <2>8 DEF Feed
<1> QED
  BY <1>11, <1>12

-----------------------------------------------------------------------------
(* What is emitted.                                                        *)

\* The header of line i of a message that y completes and the fragments of S made.
SaidBy(S, y) == IF y.alias # NoValue THEN {y.alias} ELSE {x.s : x \in {z \in S : Names(z, y)}}

Named(S, y) == ({StationId, y.leading} \cup (SaidBy(S, y) \ {Anonymous})) \ {NoValue}

Unnamed(S, y) == Named(S, y) = {} \/ Anonymous \in SaidBy(S, y)

Drawn(out, i, S, y) ==
  /\ i = 1 => out.s \in Named(S, y) \cup (IF Unnamed(S, y) THEN {Address} ELSE {})
  /\ out.gid = IF Cardinality(GidsOf(S)) = 1 THEN CHOOSE g \in GidsOf(S) : TRUE
               ELSE Generated
  /\ i = 1 => IF CsOf(S) = {} THEN out.c = NoValue
              ELSE out.c \in CsOf(S) /\ \A c \in CsOf(S) : out.c <= c

\* OutputsDrawOnTheirGroup of the emission e.
Draws(e) ==
  e.status = "COMPLETE" =>
    \A i \in DOMAIN e.outputs : Drawn(e.outputs[i].header, i, e.seen, e.last)

\* The property is one of the emission alone.
LEMMA EmissionIsDrawn ==
  /\ OutputsDrawOnTheirGroup <=> Draws(emission)
  /\ OutputsDrawOnTheirGroup' <=> Draws(emission')
  /\ emission' = emission => (OutputsDrawOnTheirGroup' <=> OutputsDrawOnTheirGroup)
<1>1. OutputsDrawOnTheirGroup <=> Draws(emission)
  BY DEF OutputsDrawOnTheirGroup, Draws, Drawn, Named, Unnamed, SaidBy, GidsOf, CsOf
<1>2. OutputsDrawOnTheirGroup' <=> Draws(emission')
  BY DEF OutputsDrawOnTheirGroup, Draws, Drawn, Named, Unnamed, SaidBy, GidsOf, CsOf
<1>3. emission' = emission => (OutputsDrawOnTheirGroup' <=> OutputsDrawOnTheirGroup)
  BY <1>1, <1>2
<1> QED
  BY <1>1, <1>2, <1>3

\* The first of four candidates of which the last is there.
LEMMA FirstIsGiven ==
  ASSUME NEW a, NEW b, NEW c, NEW d, d # NoValue
  PROVE  FirstGiven(<<a, b, c, d>>) =
           IF a # NoValue THEN a ELSE IF b # NoValue THEN b
           ELSE IF c # NoValue THEN c ELSE d
<1> DEFINE s == <<a, b, c, d>>
           First(i) == s[i] # NoValue /\ \A j \in 1 .. i - 1 : s[j] = NoValue
<1>1. DOMAIN s = 1 .. 4 /\ s[1] = a /\ s[2] = b /\ s[3] = c /\ s[4] = d
  OBVIOUS
<1>2. FirstGiven(s) = s[CHOOSE i \in DOMAIN s : First(i)]
  BY DEF FirstGiven
<1> HIDE DEF s
<1>3. ASSUME NEW n \in 1 .. 4, First(n)
      PROVE  (CHOOSE i \in 1 .. 4 : First(i)) = n
  <2>1. ASSUME NEW i \in 1 .. 4, First(i)
        PROVE  i = n
    <3>1. ~(i < n) /\ ~(n < i)
      BY <1>3, <2>1
    <3> QED
      BY <3>1
  <2> QED
    BY <1>3, <2>1
<1>4. CASE a # NoValue
  <2>1. First(1)
    BY <1>1, <1>4
  <2> QED
    BY <1>1, <1>2, <1>3, <1>4, <2>1, 1 \in 1 .. 4 DEF s
<1>5. CASE a = NoValue /\ b # NoValue
  <2>1. First(2)
    BY <1>1, <1>5
  <2> QED
    BY <1>1, <1>2, <1>3, <1>5, <2>1, 2 \in 1 .. 4 DEF s
<1>6. CASE a = NoValue /\ b = NoValue /\ c # NoValue
  <2>1. First(3)
    BY <1>1, <1>6
  <2> QED
    BY <1>1, <1>2, <1>3, <1>6, <2>1, 3 \in 1 .. 4 DEF s
<1>7. CASE a = NoValue /\ b = NoValue /\ c = NoValue
  <2>1. First(4)
    BY <1>1, <1>7
  <2> QED
    BY <1>1, <1>2, <1>3, <1>7, <2>1, 4 \in 1 .. 4 DEF s
<1> QED
  BY <1>4, <1>5, <1>6, <1>7

\* The name is the receiver's, one the fragments say, or the address.
LEMMA NameIsDrawn ==
  ASSUME ContextsInv, NEW x, NEW o, o.status = "COMPLETE", Finishes(o)
  PROVE  LET S == seen[o.key] \cup {x}
         IN  ChosenS(x, o) \in Named(S, x) \cup (IF Unnamed(S, x) THEN {Address} ELSE {})
<1> DEFINE in == IncomingS(x, o)
           source == IF x.alias # NoValue THEN x.alias ELSE in
           named == IF source = Anonymous THEN NoValue ELSE source
           S == seen[o.key] \cup {x}
           chosen == ChosenS(x, o)
<1>1. o.key \in DOMAIN groups /\ o.key \in Met(o) /\ S = MetBy(x, o)[o.key]
  BY DEF Finishes, Met, MetBy, Merging
<1>2. DOMAIN MergedS(x, o) = DOMAIN sCtx
  BY DEF Finishes, MergedS, Discard
<1>3. in # NoValue => \E z \in S : Names(z, x) /\ z.s = in
  <2>1. CASE x.s = NoValue /\ o.key \in DOMAIN MergedS(x, o)
    <3>1. SHolds(o.key, S, MergedS(x, o))
      BY <1>1, SMerge
    <3>2. in = MergedS(x, o)[o.key]
      BY <2>1 DEF IncomingS
    <3> HIDE DEF in, S
    <3> QED
      BY <2>1, <3>1, <3>2 DEF SHolds, Names
  <2>2. CASE ~(x.s = NoValue /\ o.key \in DOMAIN MergedS(x, o))
    <3>1. in = x.s /\ x \in S
      BY <2>2 DEF IncomingS
    <3> HIDE DEF in, S
    <3> QED
      BY <3>1 DEF Names
  <2> QED
    BY <2>1, <2>2
<1>4. in = NoValue => \A z \in S : ~Names(z, x)
  <2>1. SUFFICES ASSUME in = NoValue, NEW z \in S, Names(z, x) PROVE FALSE
    OBVIOUS
  <2>2. SHolds(o.key, S, MergedS(x, o))
    BY <1>1, SMerge
  <2>3. x.s = NoValue /\ o.key \notin DOMAIN sCtx
    BY <1>2, <2>1, <2>2 DEF IncomingS, SHolds
  <2>4. SKept(o.key, seen[o.key], sCtx)
    BY <1>1 DEF ContextsInv
  <2> QED
    BY <2>1, <2>3, <2>4 DEF SKept, Names
<1>5. chosen = IF StationId # NoValue THEN StationId
               ELSE IF named # NoValue THEN named
               ELSE IF x.leading # NoValue THEN x.leading ELSE Address
  <2>1. chosen = FirstGiven(<<StationId, named, x.leading, Address>>)
    BY DEF ChosenS
  <2> HIDE DEF named, chosen
  <2> QED
    BY <2>1, FirstIsGiven, ProcessorAssumption
<1> DEFINE said == SaidBy(S, x)
<1>6. /\ source # NoValue => source \in said
      /\ source = NoValue => said = {}
  <2>1. CASE x.alias # NoValue
    BY <2>1 DEF SaidBy
  <2>2. CASE x.alias = NoValue
    <3>1. source = in /\ said = {z.s : z \in {y \in S : Names(y, x)}}
      BY <2>2 DEF SaidBy
    <3> HIDE DEF in, S, said, source
    <3> QED
      BY <1>3, <1>4, <3>1
  <2> QED
    BY <2>1, <2>2
<1>7. chosen \in Named(S, x) \cup (IF Unnamed(S, x) THEN {Address} ELSE {})
  <2> HIDE DEF in, S, source, chosen
  <2>1. Named(S, x) = ({StationId, x.leading} \cup (said \ {Anonymous})) \ {NoValue}
    BY DEF Named
  <2>2. Unnamed(S, x) <=> Named(S, x) = {} \/ Anonymous \in said
    BY DEF Unnamed
  <2> HIDE DEF said
  <2>3. CASE StationId # NoValue
    BY <1>5, <2>1, <2>3
  <2>4. CASE StationId = NoValue /\ named # NoValue
    BY <1>5, <1>6, <2>1, <2>4
  <2>5. CASE StationId = NoValue /\ named = NoValue /\ x.leading # NoValue
    BY <1>5, <2>1, <2>5
  <2>6. CASE StationId = NoValue /\ named = NoValue /\ x.leading = NoValue
    <3>1. chosen = Address
      BY <1>5, <2>6
    <3>2. source = NoValue \/ source = Anonymous
      BY <2>6
    <3>3. Unnamed(S, x)
      BY <1>6, <2>1, <2>2, <2>6, <3>2
    <3> QED
      BY <3>1, <3>3
  <2> QED
    BY <2>3, <2>4, <2>5, <2>6
<1> QED
  BY <1>7 DEF S, chosen

\* A completed message has its number of fragments as lines.
LEMMA FinishedLength ==
  ASSUME NEW o, Finishes(o)
  PROVE  Len(o.sentences) \in Nat /\ Len(o.sentences) > 1
<1> DEFINE n == Total[o.key]
<1>1. n \in Nat /\ n > 1 /\ DOMAIN o.sentences = 1 .. n
  BY AssemblerAssumption DEF Finishes
<1>2. o.sentences \in Seq(ToSet(o.sentences))
  <2>1. o.sentences \in [1 .. n -> ToSet(o.sentences)]
    BY <1>1 DEF Finishes, ToSet
  <2> QED
    BY <1>1, <2>1
<1>3. Len(o.sentences) \in Nat /\ DOMAIN o.sentences = 1 .. Len(o.sentences)
  BY <1>2, LenProperties
<1> HIDE DEF n
<1> QED
  BY <1>1, <1>3

\* Every line of a message that was completed.
LEMMA HeadersAreDrawn ==
  ASSUME ContextsInv, NEW x \in Sentences, NEW o, o.status = "COMPLETE", Finishes(o),
         NEW targets, NEW i \in DOMAIN Outputs(x, o, targets)
  PROVE  Drawn(Outputs(x, o, targets)[i].header, i, seen[o.key] \cup {x}, x)
<1> DEFINE S == seen[o.key] \cup {x}
           k == o.key
           out == Outputs(x, o, targets)[i].header
<1>1. k \in Met(o) /\ MetBy(x, o)[k] = S
  BY DEF Finishes, Met, MetBy, Merging
<1>2. GidsHold(k, S, MergedGid(x, o)) /\ CsHold(k, S, MergedC(x, o))
  BY <1>1, GidsMerge, CsMerge
<1>3. Len(o.sentences) > 1
  BY FinishedLength
<1>4. out = Header(i, TRUE, HeaderC(x, o), ChosenS(x, o), HeaderGid(x, o))
  BY <1>3 DEF Outputs
<1>5. /\ out.gid = HeaderGid(x, o)
      /\ i = 1 => out.c = HeaderC(x, o) /\ out.s = ChosenS(x, o)
  <2> HIDE DEF out
  <2> QED
    BY <1>4 DEF Header
<1> HIDE DEF out, S
<1>6. HeaderGid(x, o) = IF Cardinality(GidsOf(S)) = 1 THEN CHOOSE g \in GidsOf(S) : TRUE
                        ELSE Generated
  <2>1. GidsOf(S) = IF k \in DOMAIN MergedGid(x, o) THEN MergedGid(x, o)[k] ELSE {}
    BY <1>2 DEF GidsHold
  <2>2. HeaderGid(x, o) = IF PreserveGid /\ Cardinality(GidsOf(S)) = 1
                          THEN CHOOSE g \in GidsOf(S) : TRUE ELSE Generated
    BY <2>1 DEF HeaderGid
  <2>3. ~PreserveGid => Cardinality(GidsOf(S)) # 1
    <3>1. ~PreserveGid => GidsOf(S) = {}
      BY DEF GidsOf, ValidGid
    <3> QED
      BY <3>1, FS_EmptySet
  <2> QED
    BY <2>2, <2>3
<1>7. IF CsOf(S) = {} THEN HeaderC(x, o) = NoValue
      ELSE HeaderC(x, o) \in CsOf(S) /\ \A c \in CsOf(S) : HeaderC(x, o) <= c
  <2>1. HeaderC(x, o) = IF PreserveC /\ k \in DOMAIN MergedC(x, o) THEN MergedC(x, o)[k]
                        ELSE NoValue
    BY DEF HeaderC
  <2>2. ~PreserveC => CsOf(S) = {}
    BY DEF CsOf, ValidC
  <2> QED
    BY <1>2, <2>1, <2>2 DEF CsHold
<1>8. ChosenS(x, o) \in Named(S, x) \cup (IF Unnamed(S, x) THEN {Address} ELSE {})
  BY NameIsDrawn DEF S
<1>9. Drawn(out, i, S, x)
  <2> HIDE DEF k
  <2> QED
    BY ONLY <1>5, <1>6, <1>7, <1>8 DEF Drawn
<1> QED
  BY <1>9 DEF S, out

-----------------------------------------------------------------------------
(* The inductive invariant.                                                *)

\* The frame in work, and the snapshot that lasts as long as it.
WorkTyped ==
  /\ todo \in Seq(Sentences)
  /\ snapshot \in Snapshots \cup {NoSnapshot}
  /\ snapshot = NoSnapshot <=> todo = NoFrame

\* A copy given out as the deduplicator sees it: its scope is its mode, or its one
\* target.
CopyTyped(c) ==
  /\ c.mode \in {"GLOBAL", "PER_TARGET"}
  /\ c.mode = "PER_TARGET" => \E t : c.targets = {t} /\ t # GlobalScope

ScopeOf(c) == IF c.mode = "GLOBAL" THEN GlobalScope ELSE CHOOSE t : c.targets = {t}

Stamp(c) == Dd!Entry(c.at, <<ScopeOf(c), c.message>>)

SentLog == [i \in 1 .. Len(sent) |-> Stamp(sent[i])]

\* The containers hold the end of what was given out.
SentInv ==
  /\ sent \in Seq(ToSet(sent))
  /\ \A i \in 1 .. Len(sent) : CopyTyped(sent[i])
  /\ Trails(dedup, SentLog)

ProcessorInv ==
  /\ AssemblerInv /\ WorkTyped
  /\ ContextsInv /\ OutputsDrawOnTheirGroup
  /\ SentInv

\* What a frame can be bound to has scopes to ask for.
LEMMA SnapshotsAreBound ==
  ASSUME NEW snap \in Snapshots
  PROVE  /\ snap # NoSnapshot
         /\ Scopes(snap) \in Seq(ToSet(Scopes(snap)))
         /\ Len(Scopes(snap)) \in Nat
         /\ DOMAIN Scopes(snap) = 1 .. Len(Scopes(snap))
<1>1. snap.mode \in {"GLOBAL", "PER_TARGET"} /\ snap.targets \in Seq(ToSet(snap.targets))
  BY ProcessorAssumption
<1>2. snap # NoSnapshot
  BY <1>1 DEF NoSnapshot
<1>3. Scopes(snap) \in Seq(ToSet(Scopes(snap)))
  <2>1. CASE snap.mode = "GLOBAL"
    <3>1. Scopes(snap) = <<GlobalScope>> /\ GlobalScope \in ToSet(<<GlobalScope>>)
      BY <2>1 DEF Scopes, ToSet
    <3> QED
      BY <3>1
  <2>2. CASE snap.mode # "GLOBAL"
    BY <1>1, <2>2 DEF Scopes
  <2> QED
    BY <2>1, <2>2
<1> QED
  BY <1>2, <1>3, LenProperties

\* A frame is made of sentences.
LEMMA FramesAreSentences ==
  ASSUME NEW f \in Frames
  PROVE  f \in Seq(Sentences) /\ f # NoFrame
<1>1. f # <<>> /\ f \in Seq(ToSet(f))
  BY ProcessorAssumption
<1>2. ToSet(f) \subseteq Sentences
  BY DEF ToSet, Sentences
<1> QED
  BY <1>1, <1>2, SeqMonotonic DEF NoFrame

\* Empty containers hold the end of an empty log.
LEMMA NothingTrails ==
  Trails(Dd!EmptyCache, <<>>) /\ Trails(Dd!EmptyCache, <<>>)'
<1>1. <<>> \in Seq(ToSet(<<>>)) /\ Len(<<>>) = 0 /\ 1 .. 0 = {} /\ 0 \in 0 .. 0
  BY EmptySeq
<1>2. Log(<<>>) /\ Log(<<>>)'
  BY <1>1 DEF Log
<1>3. Dd!EmptyCache.index = <<>> /\ DOMAIN Dd!EmptyCache.cache = {}
  BY DEF Dd!EmptyCache
<1>4. Holds(Dd!EmptyCache, <<>>, 0)
  <2>1. \A i \in 0 + 1 .. Len(<<>>) : FALSE
    BY <1>1
  <2>2. {<<>>[i].key : i \in 0 + 1 .. Len(<<>>)} = {}
    BY <2>1
  <2> QED
    BY <1>1, <1>3, <2>1, <2>2 DEF Holds
<1>5. Forgotten(<<>>, 0) /\ Forgotten(<<>>, 0)' /\ Len(<<>>) - 0 <= MaxEntries
  BY <1>1, ProcessorAssumption DEF Forgotten
<1> QED
  BY <1>1, <1>2, <1>4, <1>5 DEF Trails

\* Nothing was given out, and nothing is remembered.
LEMMA NothingSent ==
  /\ dedup = Dd!EmptyCache /\ sent = <<>> => SentInv
  /\ dedup' = Dd!EmptyCache /\ sent' = <<>> => SentInv'
<1>1. <<>> \in Seq(ToSet(<<>>)) /\ Len(<<>>) = 0 /\ 1 .. 0 = {} /\ DOMAIN <<>> = {}
  BY EmptySeq
<1>2. sent = <<>> => SentLog = <<>>
  BY <1>1 DEF SentLog
<1>3. sent' = <<>> => SentLog' = <<>>
  BY <1>1 DEF SentLog
<1>4. dedup = Dd!EmptyCache /\ sent = <<>> => SentInv
  BY <1>1, <1>2, NothingTrails DEF SentInv
<1>5. dedup' = Dd!EmptyCache /\ sent' = <<>> => SentInv'
  BY <1>1, <1>3, NothingTrails DEF SentInv
<1> QED
  BY <1>4, <1>5

\* The processor's invariant holds at first.
LEMMA ProcessorInvInit == ProcessorInit => ProcessorInv
<1> SUFFICES ASSUME ProcessorInit PROVE ProcessorInv
  OBVIOUS
<1>1. AssemblerInv
  BY AssemblerInvInit DEF ProcessorInit
<1>2. WorkTyped
  BY EmptySeq DEF ProcessorInit, WorkTyped, NoFrame
<1>3. DOMAIN groups = {} /\ DOMAIN seen = {}
  BY DEF ProcessorInit, Init
<1>4. ContextsInv
  BY <1>3 DEF ContextsInv, Hold, ProcessorInit
<1>5. SentInv
  BY NothingSent DEF ProcessorInit
<1>6. OutputsDrawOnTheirGroup
  BY DEF ProcessorInit, OutputsDrawOnTheirGroup, NoEmission
<1> QED
  BY <1>1, <1>2, <1>4, <1>5, <1>6 DEF ProcessorInv

\* The log at a later time.
LEMMA TrailsLater ==
  ASSUME now \in Nat, now' \in Nat, now <= now', NEW CONSTANT d, NEW CONSTANT l, Trails(d, l)
  PROVE  Trails(d, l)'
<1>1. PICK n \in 0 .. Len(l) : Holds(d, l, n) /\ Forgotten(l, n) /\ Len(l) - n <= MaxEntries
  BY DEF Trails
<1>2. /\ \A i \in 1 .. Len(l) : l[i].at \in 0 .. now
      /\ \A i, j \in 1 .. Len(l) : i < j => l[i].at <= l[j].at
      /\ l \in Seq(ToSet(l))
  BY DEF Trails, Log
<1>3. ASSUME NEW t \in 0 .. now
      PROVE  t \in 0 .. now' /\ (now - t >= Ttl => now' - t >= Ttl)
  <2>1. Ttl \in Nat /\ t \in Nat /\ t <= now
    BY ProcessorAssumption
  <2>2. t \in 0 .. now'
    BY <2>1
  <2>3. now - t >= Ttl => now' - t >= Ttl
    <3>1. \A a, b \in Nat : a <= b /\ a - t >= Ttl => b - t >= Ttl
      BY ONLY <2>1
    <3> QED
      BY ONLY <3>1, now \in Nat, now' \in Nat, now <= now'
  <2> QED
    BY <2>2, <2>3
<1>4. Log(l)'
  BY <1>2, <1>3 DEF Log
<1>5. Forgotten(l, n)'
  <2> SUFFICES ASSUME NEW i \in 1 .. n
               PROVE  now' - l[i].at >= Ttl \/ Len(l) - i >= MaxEntries
    BY DEF Forgotten
  <2>1. Len(l) \in Nat
    BY <1>2, OwnElements
  <2>2. i \in 1 .. Len(l)
    BY <1>1, <2>1
  <2>3. now - l[i].at >= Ttl \/ Len(l) - i >= MaxEntries
    BY <1>1 DEF Forgotten
  <2> QED
    BY <1>2, <1>3, <2>2, <2>3
<1>6. Holds(d, l, n)'
  BY <1>1 DEF Holds
<1> QED
  BY <1>1, <1>4, <1>5, <1>6 DEF Trails

\* The containers age well.
LEMMA DedupStays ==
  ASSUME now \in Nat, SentInv, now' \in Nat, now <= now', UNCHANGED <<dedup, sent>>
  PROVE  SentInv'
<1>1. PICK d, l : d = dedup /\ l = SentLog
  OBVIOUS
<1>2. Trails(d, l)
  BY <1>1 DEF SentInv
<1>3. Trails(d, l)'
  BY <1>2, TrailsLater
<1>4. dedup' = d /\ SentLog' = l
  BY <1>1 DEF SentLog
<1>5. Trails(dedup, SentLog)'
  BY <1>3, <1>4
<1>6. /\ sent' \in Seq(ToSet(sent'))
      /\ \A i \in 1 .. Len(sent') : CopyTyped(sent'[i])
  BY DEF SentInv
<1> QED
  BY <1>5, <1>6 DEF SentInv

\* The work is typed as long as it stays.
LEMMA WorkStays ==
  ASSUME WorkTyped, OutputsDrawOnTheirGroup, UNCHANGED <<todo, snapshot, emission>>
  PROVE  WorkTyped' /\ OutputsDrawOnTheirGroup'
<1>1. WorkTyped'
  BY DEF WorkTyped
<1>2. OutputsDrawOnTheirGroup'
  BY EmissionIsDrawn
<1> QED
  BY <1>1, <1>2

\* A frame is taken up.
LEMMA BeginStep ==
  ASSUME ProcessorInv, NEW f \in Frames, NEW snap \in Snapshots, Begin(f, snap)
  PROVE  ProcessorInv'
<1>1. AssemblerInv'
  <2>1. UNCHANGED vars
    BY DEF Begin
  <2> QED
    BY <2>1, AssemblerInvStep DEF ProcessorInv
<1>2. WorkTyped'
  BY FramesAreSentences, SnapshotsAreBound DEF Begin, WorkTyped
<1>3. ContextsInv' /\ SentInv' /\ OutputsDrawOnTheirGroup'
  <2>1. UNCHANGED <<now, groups, dedup, sCtx, cCtx, gidCtx, emission, sent, seen>>
    BY DEF Begin, vars
  <2>2. ContextsInv'
    BY <2>1 DEF ProcessorInv, ContextsInv
  <2>3. SentInv'
    BY <2>1, DedupStays DEF ProcessorInv, AssemblerInv, CountsTyped
  <2>4. OutputsDrawOnTheirGroup'
    BY <2>1, EmissionIsDrawn DEF ProcessorInv
  <2> QED
    BY <2>2, <2>3, <2>4
<1> QED
  BY <1>1, <1>2, <1>3 DEF ProcessorInv

\* What every sentence does, whether it completes a message or not.
LEMMA FeedSentenceStep ==
  ASSUME ProcessorInv, todo # NoFrame, NEW x, x = Head(todo), FeedSentence(x)
  PROVE  /\ x \in Sentences /\ snapshot \in Snapshots /\ now' = now /\ now \in Nat
         /\ AssemblerInv' /\ WorkTyped' /\ Sees(x, outcome')
         /\ calls' # calls
<1>1. x \in Sentences /\ Tail(todo) \in Seq(Sentences)
  BY HeadTailProperties DEF ProcessorInv, WorkTyped, NoFrame
<1>2. Fed(x) /\ seen' = SeenAfter(x)
  BY DEF FeedSentence, Fed
<1>3. Next
  BY <1>1, <1>2, FeedIsStep
<1>4. AssemblerInv'
  BY <1>3, AssemblerInvStep DEF ProcessorInv
<1>5. snapshot \in Snapshots
  BY DEF ProcessorInv, WorkTyped
<1>6. WorkTyped'
  BY <1>1, <1>5, SnapshotsAreBound DEF FeedSentence, WorkTyped
<1>7. Sees(x, outcome')
  BY <1>1, <1>2, FeedMeets DEF ProcessorInv, ContextsInv
<1>8. now' = now /\ calls' = calls + 1 /\ now \in Nat /\ calls \in Nat
  <2>1. Outcome(outcome'.status, outcome'.key, outcome'.sentences, outcome'.discarded, outcome'.gap)
    BY <1>2 DEF Fed, Invalid, Feed, Single, LimitExceeded, Duplicate, Conflict, Complete, Extend,
                Start, PassBy, Outcome
  <2> QED
    BY <2>1 DEF Outcome, ProcessorInv, AssemblerInv, CountsTyped
<1> QED
  BY <1>1, <1>4, <1>5, <1>6, <1>7, <1>8

\* The contexts after a sentence: merged, and consumed with the group.
LEMMA ContextsStep ==
  ASSUME ContextsInv, NEW x \in Sentences, Sees(x, outcome'), seen' = SeenAfter(x),
         cCtx' = Discard(MergedC(x, outcome'), Consumed(outcome')),
         gidCtx' = Discard(MergedGid(x, outcome'), Consumed(outcome')),
         sCtx' = Discard(MergedS(x, outcome'), Consumed(outcome'))
  PROVE  ContextsInv'
<1> DEFINE o == outcome'
           D == Met(o) \ Consumed(o)
           of == MetBy(x, o)
           ss == MergedS(x, o)
           ss2 == Discard(ss, Consumed(o))
<1>1. DOMAIN groups' = D /\ \A k \in DOMAIN groups' : SeenAfter(x)[k] = of[k]
  BY DEF Sees
<1>2. o.status \in Statuses
  BY DEF Sees
<1>3. Hold(D, of, cCtx', gidCtx', sCtx')
  BY MergedHold, HoldLess
<1>4. \A k \in D : seen'[k] = of[k]
  BY <1>1
<1>5. Hold(D, seen', cCtx', gidCtx', sCtx')
  <2> HIDE DEF D, of, o
  <2> QED
    BY <1>3, <1>4, HoldSame
<1>6. DOMAIN seen' = DOMAIN groups'
  BY DEF SeenAfter
<1>7. \A k \in D : SKept(k, of[k], ss)
  BY <1>2, SKeptMerge
<1>8. \A k \in D : k \in DOMAIN ss2 <=> k \in DOMAIN ss
  BY DEF Discard
<1>9. \A k \in DOMAIN groups' : SKept(k, seen'[k], sCtx')
  <2>1. sCtx' = ss2
    OBVIOUS
  <2> HIDE DEF D, of, ss, ss2, o
  <2> QED
    BY <1>1, <1>4, <1>7, <1>8, <2>1 DEF SKept
<1> HIDE DEF D, of, ss, ss2, o
<1> QED
  BY <1>1, <1>5, <1>6, <1>9 DEF ContextsInv

\* No scope is asked for twice.
LEMMA ScopesDiffer ==
  ASSUME NEW snap \in Snapshots
  PROVE  \A i, j \in 1 .. Len(Scopes(snap)) : Scopes(snap)[i] = Scopes(snap)[j] => i = j
<1>1. CASE snap.mode = "GLOBAL"
  BY <1>1 DEF Scopes
<1>2. CASE snap.mode # "GLOBAL"
  <2>1. Scopes(snap) = snap.targets
    BY <1>2 DEF Scopes
  <2>2. DOMAIN Scopes(snap) = 1 .. Len(Scopes(snap))
    BY SnapshotsAreBound
  <2> QED
    BY <2>1, <2>2, ProcessorAssumption DEF IsInjective
<1> QED
  BY <1>1, <1>2

\* What the outputs are when these scopes were let through.
OutputsAre(outputs, passed, message) ==
  LET targets == IF snapshot.mode = "GLOBAL" THEN snapshot.targets ELSE passed
  IN  IF passed = <<>> THEN outputs = <<>>
      ELSE /\ DOMAIN outputs = 1 .. Len(message)
           /\ outputs # <<>>
           /\ \A i \in 1 .. Len(message) : outputs[i].targets = targets

\* Lines there are.
LEMMA OutputsOf ==
  ASSUME NEW x, NEW o, Len(o.sentences) \in Nat, Len(o.sentences) >= 1, NEW asked
  PROVE  OutputsAre(IF asked.passed = <<>> THEN <<>>
                    ELSE Outputs(x, o, Eligible(asked, snapshot)), asked.passed, o.sentences)
<1> DEFINE targets == IF snapshot.mode = "GLOBAL" THEN snapshot.targets ELSE asked.passed
           n == Len(o.sentences)
           lines == Outputs(x, o, Eligible(asked, snapshot))
<1>1. CASE asked.passed = <<>>
  BY <1>1 DEF OutputsAre
<1>2. CASE asked.passed # <<>>
  <2>1. Eligible(asked, snapshot) = targets
    BY <1>2 DEF Eligible
  <2>2. DOMAIN lines = 1 .. n /\ \A i \in 1 .. n : lines[i].targets = targets
    BY <2>1 DEF Outputs
  <2>3. 1 \in 1 .. n /\ DOMAIN <<>> = {}
    BY EmptySeq
  <2> HIDE DEF lines, targets
  <2>4. lines # <<>>
    BY <2>2, <2>3
  <2>5. OutputsAre(lines, asked.passed, o.sentences)
    BY <1>2, <2>2, <2>4 DEF OutputsAre, targets
  <2> QED
    BY <1>2, <2>5 DEF lines
<1> QED
  BY <1>1, <1>2

\* The copies given out are those of the scopes that were let through.
LEMMA CopiesAre ==
  ASSUME snapshot \in Snapshots, NEW passed \in Seq(ToSet(Scopes(snapshot))),
         Len(passed) <= Len(Scopes(snapshot)),
         NEW message, Len(message) \in Nat, Len(message) >= 1,
         NEW outputs, OutputsAre(outputs, passed, message)
  PROVE  LET c == Copies(message, outputs)
         IN  /\ c \in Seq(ToSet(c)) /\ Len(c) = Len(passed)
             /\ \A i \in 1 .. Len(c) :
                  CopyTyped(c[i]) /\ Stamp(c[i]) = Dd!Entry(now, <<passed[i], message>>)
<1> DEFINE c == Copies(message, outputs)
           Copy(targets) == [mode |-> snapshot.mode, targets |-> targets, message |-> message,
                             at |-> now]
<1>1. Len(passed) \in Nat /\ DOMAIN passed = 1 .. Len(passed) /\ passed \in Seq(ToSet(passed))
  BY OwnElements
<1>2. snapshot.mode \in {"GLOBAL", "PER_TARGET"}
  BY ProcessorAssumption
<1>3. CASE passed = <<>>
  <2>1. c = <<>>
    BY <1>3 DEF OutputsAre, Copies
  <2>2. <<>> \in Seq(ToSet(<<>>)) /\ Len(<<>>) = 0
    BY EmptySeq
  <2> QED
    BY <1>3, <2>1, <2>2
<1>4. CASE passed # <<>> /\ snapshot.mode = "GLOBAL"
  <2>1. outputs # <<>>
    BY <1>4 DEF OutputsAre
  <2>2. c = <<Copy(ToSet(outputs[1].targets))>>
    BY <1>4, <2>1 DEF Copies
  <2>3. Scopes(snapshot) = <<GlobalScope>>
    BY <1>4 DEF Scopes
  <2>4. Len(passed) = 1 /\ passed[1] = GlobalScope
    <3>1. Len(passed) <= 1 /\ ToSet(Scopes(snapshot)) = {GlobalScope}
      BY <2>3 DEF ToSet
    <3>2. Len(passed) # 0
      BY <1>4, EmptySeq
    <3>3. Len(passed) = 1
      BY <1>1, <3>1, <3>2
    <3>4. passed[1] \in {GlobalScope}
      BY <3>1, <3>3, ElementOfSeq
    <3> QED
      BY <3>3, <3>4
  <2> DEFINE one == Copy(ToSet(outputs[1].targets))
  <2>5. CopyTyped(one) /\ Stamp(one) = Dd!Entry(now, <<GlobalScope, message>>)
    BY <1>4 DEF CopyTyped, Stamp, ScopeOf
  <2> HIDE DEF one, c
  <2>6. c = <<one>>
    BY <2>2 DEF one
  <2>7. c \in Seq(ToSet(c)) /\ Len(c) = 1 /\ c[1] = one
    <3>1. c \in Seq({one})
      BY <2>6
    <3> QED
      BY <2>6, <3>1, OwnElements
  <2> QED
    BY <2>4, <2>5, <2>7 DEF c
<1>5. CASE passed # <<>> /\ snapshot.mode = "PER_TARGET"
  <2>1. outputs # <<>> /\ outputs[1].targets = passed
    BY <1>5 DEF OutputsAre
  <2>2. c = [i \in DOMAIN passed |-> Copy({passed[i]})]
    BY <1>5, <2>1 DEF Copies
  <2>3. \A i \in 1 .. Len(passed) : passed[i] # GlobalScope
    <3>1. Scopes(snapshot) = snapshot.targets
      BY <1>5 DEF Scopes
    <3>2. GlobalScope \notin ToSet(Scopes(snapshot))
      BY <3>1, ProcessorAssumption
    <3>3. \A i \in 1 .. Len(passed) : passed[i] \in ToSet(Scopes(snapshot))
      BY ElementOfSeq
    <3> QED
      BY <3>2, <3>3
  <2>4. ASSUME NEW i \in 1 .. Len(passed)
        PROVE  /\ CopyTyped(Copy({passed[i]}))
               /\ Stamp(Copy({passed[i]})) = Dd!Entry(now, <<passed[i], message>>)
    <3>1. (CHOOSE t : {passed[i]} = {t}) = passed[i]
      OBVIOUS
    <3>2. ScopeOf(Copy({passed[i]})) = passed[i]
      BY <1>5, <3>1 DEF ScopeOf
    <3>3. CopyTyped(Copy({passed[i]}))
      <4>1. Copy({passed[i]}).mode = "PER_TARGET" /\ Copy({passed[i]}).targets = {passed[i]}
        BY <1>5
      <4> HIDE DEF Copy
      <4> QED
        BY <2>3, <4>1 DEF CopyTyped
    <3> QED
      BY <3>2, <3>3 DEF Stamp
  <2> HIDE DEF Copy, c
  <2>5. DOMAIN c = 1 .. Len(passed) /\ \A i \in 1 .. Len(passed) : c[i] = Copy({passed[i]})
    BY <1>1, <2>2
  <2>6. c \in Seq(ToSet(c)) /\ Len(c) = Len(passed)
    <3>1. c \in [1 .. Len(passed) -> ToSet(c)]
      BY <1>1, <2>2, <2>5 DEF ToSet
    <3>2. c \in Seq(ToSet(c))
      BY <1>1, <3>1
    <3> QED
      BY <1>1, <3>1, <3>2
  <2> QED
    BY <2>4, <2>5, <2>6 DEF c
<1> QED
  BY <1>2, <1>3, <1>4, <1>5

\* No more scopes are let through than are asked for.
LEMMA PassedAreFew ==
  ASSUME NEW acc, NEW l0, NEW message, NEW sc, NEW n \in Nat, AskedSofar(acc, l0, message, sc, n)
  PROVE  Len(acc.passed) \in Nat /\ Len(acc.passed) <= n
<1> DEFINE P == PassedOf(sc, acc.passed, n)
<1>1. P \subseteq 1 .. n
  BY DEF PassedOf
<1>2. Len(acc.passed) = Cardinality(P)
  BY DEF AskedSofar
<1>3. IsFiniteSet(1 .. n) /\ Cardinality(1 .. n) = n
  BY FS_Interval
<1> HIDE DEF P
<1>4. Cardinality(P) <= n /\ Cardinality(P) \in Nat
  BY <1>1, <1>3, FS_Subset, FS_CardinalityType
<1> QED
  BY <1>2, <1>4

\* What the deduplicator says when it is asked, given what was given out.
LEMMA Asks ==
  ASSUME now \in Nat, SentInv, NEW message, NEW snap \in Snapshots
  PROVE  AskedSofar(Asked(message, snap), SentLog, message, Scopes(snap), Len(Scopes(snap)))
<1> DEFINE n == Len(Scopes(snap))
<1>1. n \in Nat /\ DOMAIN Scopes(snap) = 1 .. n
  BY SnapshotsAreBound
<1>2. \A i, j \in 1 .. n : Scopes(snap)[i] = Scopes(snap)[j] => i = j
  BY ScopesDiffer
<1>3. Trails(dedup, SentLog)
  BY DEF SentInv
<1> HIDE DEF n
<1>4. AskedSofar(Asked(message, snap), SentLog, message, Scopes(snap), n)
  BY <1>1, <1>2, <1>3, AskedKeeps
<1> QED
  BY <1>4 DEF n

\* The deduplicator is asked, and the copies are given out.
LEMMA DedupStep ==
  ASSUME now \in Nat, now' = now, SentInv, snapshot \in Snapshots,
         NEW message, Len(message) \in Nat, Len(message) >= 1,
         dedup' = Asked(message, snapshot).d,
         NEW outputs, OutputsAre(outputs, Asked(message, snapshot).passed, message),
         sent' = sent \o Copies(message, outputs)
  PROVE  SentInv'
<1> DEFINE asked == Asked(message, snapshot)
           p == asked.passed
           n == Len(Scopes(snapshot))
           c == Copies(message, outputs)
           a == Len(sent)
<1>1. AskedSofar(asked, SentLog, message, Scopes(snapshot), n)
  BY Asks
<1>2. n \in Nat
  BY SnapshotsAreBound
<1>3. p \in Seq(ToSet(Scopes(snapshot))) /\ Len(p) \in Nat /\ Len(p) <= n
  <2> HIDE DEF asked, n
  <2> QED
    BY <1>1, <1>2, PassedAreFew DEF AskedSofar
<1>4. /\ c \in Seq(ToSet(c)) /\ Len(c) = Len(p)
      /\ \A i \in 1 .. Len(c) : CopyTyped(c[i]) /\ Stamp(c[i]) = Dd!Entry(now, <<p[i], message>>)
  <2> HIDE DEF asked
  <2> QED
    BY <1>3, CopiesAre DEF asked
<1>5. PICK l : Continues(l, SentLog, p, message) /\ Trails(asked.d, l)
  <2> HIDE DEF asked, n
  <2> QED
    BY <1>1 DEF AskedSofar
<1>6. a \in Nat /\ sent \in Seq(ToSet(sent))
  BY OwnElements DEF SentInv
<1> HIDE DEF asked, n, c
<1>7. /\ sent' \in Seq(ToSet(sent')) /\ Len(sent') = a + Len(p)
      /\ \A i \in 1 .. a : sent'[i] = sent[i]
      /\ \A i \in 1 .. Len(p) : sent'[a + i] = c[i]
  <2> DEFINE S == ToSet(sent) \cup ToSet(c)
  <2>1. sent \in Seq(S) /\ c \in Seq(S)
    BY <1>4, <1>6, SeqMonotonic
  <2>2. sent' = sent \o c
    BY DEF c
  <2> HIDE DEF S
  <2>3. /\ sent \o c \in Seq(S) /\ Len(sent \o c) = a + Len(c)
        /\ \A i \in 1 .. a + Len(c) : (sent \o c)[i] = IF i <= a THEN sent[i] ELSE c[i - a]
    BY <2>1, ConcatProperties
  <2>4. sent \o c \in Seq(ToSet(sent \o c))
    BY <2>3, OwnElements
  <2>5. /\ \A i \in 1 .. a : i \in 1 .. a + Len(c) /\ i <= a
        /\ \A i \in 1 .. Len(p) : a + i \in 1 .. a + Len(c) /\ ~(a + i <= a) /\ (a + i) - a = i
    BY <1>3, <1>4, <1>6
  <2> QED
    BY <1>4, <2>2, <2>3, <2>4, <2>5
<1>8. \A i \in 1 .. a + Len(p) : i \in 1 .. a \/ (i - a \in 1 .. Len(p) /\ a + (i - a) = i)
  BY <1>3, <1>6
<1>9. \A i \in 1 .. Len(sent') : CopyTyped(sent'[i])
  <2> SUFFICES ASSUME NEW i \in 1 .. Len(sent') PROVE CopyTyped(sent'[i])
    OBVIOUS
  <2>1. CASE i \in 1 .. a
    BY <1>7, <2>1 DEF SentInv
  <2>2. CASE i \notin 1 .. a
    BY <1>4, <1>7, <1>8, <2>2
  <2> QED
    BY <2>1, <2>2
<1>10. SentLog' = l
  <2>1. l \in Seq(ToSet(l)) /\ Len(l) = Len(SentLog) + Len(p)
    BY <1>5 DEF Trails, Log, Continues
  <2>2. Len(SentLog) = a
    BY <1>6 DEF SentLog
  <2>3. l = [i \in 1 .. a + Len(p) |-> l[i]]
    BY <2>1, <2>2, OwnElements
  <2>4. SentLog' = [i \in 1 .. a + Len(p) |-> Stamp(sent'[i])]
    BY <1>7 DEF SentLog
  <2>5. ASSUME NEW i \in 1 .. a + Len(p)
        PROVE  Stamp(sent'[i]) = l[i]
    <3>1. CASE i \in 1 .. a
      <4>1. l[i] = SentLog[i]
        BY <1>5, <2>2, <3>1 DEF Continues
      <4>2. SentLog[i] = Stamp(sent[i])
        BY <3>1 DEF SentLog
      <4> QED
        BY <1>7, <3>1, <4>1, <4>2
    <3>2. CASE i \notin 1 .. a
      <4>1. i - a \in 1 .. Len(p) /\ a + (i - a) = i
        BY <1>8, <3>2
      <4>2. l[i] = Dd!Entry(now, <<p[i - a], message>>)
        BY <1>5, <2>2, <4>1 DEF Continues
      <4> QED
        BY <1>4, <1>7, <4>1, <4>2
    <3> QED
      BY <3>1, <3>2
  <2> QED
    BY ONLY <2>3, <2>4, <2>5
<1>11. Trails(dedup, SentLog)'
  <2>1. PICK d : d = dedup'
    OBVIOUS
  <2>2. Trails(d, l)
    BY <1>5, <2>1 DEF asked
  <2>3. now' \in Nat /\ now <= now'
    OBVIOUS
  <2>4. Trails(d, l)'
    BY <2>2, <2>3, TrailsLater
  <2> QED
    BY <1>10, <2>1, <2>4
<1> QED
  BY <1>7, <1>9, <1>11 DEF SentInv

\* Discarding nothing changes nothing.
LEMMA DiscardNone ==
  ASSUME NEW ctx, ctx = [k \in DOMAIN ctx |-> ctx[k]]
  PROVE  Discard(ctx, {}) = ctx
BY DEF Discard

\* Contexts are functions.
LEMMA MergedIsFunction ==
  ASSUME NEW x, NEW o
  PROVE  /\ MergedC(x, o) = [k \in DOMAIN MergedC(x, o) |-> MergedC(x, o)[k]]
         /\ MergedGid(x, o) = [k \in DOMAIN MergedGid(x, o) |-> MergedGid(x, o)[k]]
         /\ MergedS(x, o) = [k \in DOMAIN MergedS(x, o) |-> MergedS(x, o)[k]]
<1>1. ASSUME NEW ctx, NEW S
      PROVE  Discard(ctx, S) = [k \in DOMAIN Discard(ctx, S) |-> Discard(ctx, S)[k]]
  BY DEF Discard
<1>2. ASSUME NEW ctx, NEW j, NEW v
      PROVE  Put(ctx, j, v) = [k \in DOMAIN Put(ctx, j, v) |-> Put(ctx, j, v)[k]]
  BY DEF Put
<1>3. MergedC(x, o) = [k \in DOMAIN MergedC(x, o) |-> MergedC(x, o)[k]]
  BY <1>1, <1>2 DEF MergedC
<1>4. MergedGid(x, o) = [k \in DOMAIN MergedGid(x, o) |-> MergedGid(x, o)[k]]
  BY <1>1, <1>2 DEF MergedGid
<1>5. MergedS(x, o) = [k \in DOMAIN MergedS(x, o) |-> MergedS(x, o)[k]]
  BY <1>1, <1>2 DEF MergedS
<1> QED
  BY <1>3, <1>4, <1>5

\* A sentence that completes nothing.
LEMMA IncompleteStep ==
  ASSUME ProcessorInv, todo # NoFrame, Incomplete(Head(todo))
  PROVE  ProcessorInv'
<1> DEFINE x == Head(todo)
           o == outcome'
<1>1. /\ x \in Sentences /\ now' = now /\ now \in Nat
      /\ AssemblerInv' /\ WorkTyped' /\ Sees(x, o)
  BY FeedSentenceStep DEF Incomplete
<1>2. Consumed(o) = {}
  BY DEF Incomplete, Consumed
<1>3. /\ MergedC(x, o) = Discard(MergedC(x, o), {})
      /\ MergedGid(x, o) = Discard(MergedGid(x, o), {})
      /\ MergedS(x, o) = Discard(MergedS(x, o), {})
  BY MergedIsFunction, DiscardNone
<1>4. ContextsInv'
  <2>1. /\ seen' = SeenAfter(x)
        /\ cCtx' = Discard(MergedC(x, o), Consumed(o))
        /\ gidCtx' = Discard(MergedGid(x, o), Consumed(o))
        /\ sCtx' = Discard(MergedS(x, o), Consumed(o))
    BY <1>2, <1>3 DEF Incomplete, FeedSentence
  <2> HIDE DEF x
  <2> QED
    BY <1>1, <2>1, ContextsStep DEF ProcessorInv
<1>5. SentInv'
  BY <1>1, DedupStays DEF Incomplete, ProcessorInv
<1>6. OutputsDrawOnTheirGroup'
  BY DEF Incomplete, NoEmission, OutputsDrawOnTheirGroup
<1> QED
  BY <1>1, <1>4, <1>5, <1>6 DEF ProcessorInv

\* What an emission says of the step that made it.
Emits(x, o, S) ==
  LET asked == Asked(o.sentences, snapshot)
  IN  /\ dedup' = asked.d
      /\ emission' = [status |-> o.status,
                      outputs |-> IF asked.passed = <<>> THEN <<>>
                                  ELSE Outputs(x, o, Eligible(asked, snapshot)),
                      seen |-> S, last |-> x]

\* A multipart message draws on its own arrivals.
LEMMA EmissionDraws ==
  ASSUME ContextsInv, NEW x \in Sentences, NEW o, o.status = "COMPLETE" => Finishes(o),
         NEW S, o.status = "COMPLETE" => S = seen[o.key] \cup {x}, Emits(x, o, S)
  PROVE  OutputsDrawOnTheirGroup'
<1> DEFINE targets == Eligible(Asked(o.sentences, snapshot), snapshot)
<1>1. /\ emission'.status = o.status /\ emission'.seen = S /\ emission'.last = x
      /\ emission'.outputs = <<>> \/ emission'.outputs = Outputs(x, o, targets)
  BY DEF Emits
<1> HIDE DEF targets
<1>2. ASSUME o.status = "COMPLETE", NEW i \in DOMAIN emission'.outputs
      PROVE  Drawn(emission'.outputs[i].header, i, S, x)
  <2>1. emission'.outputs # <<>>
    BY <1>2
  <2>2. emission'.outputs = Outputs(x, o, targets) /\ i \in DOMAIN Outputs(x, o, targets)
    BY <1>1, <1>2, <2>1
  <2>3. Drawn(Outputs(x, o, targets)[i].header, i, seen[o.key] \cup {x}, x)
    BY <1>2, <2>2, HeadersAreDrawn
  <2>4. S = seen[o.key] \cup {x}
    BY <1>2
  <2> QED
    BY ONLY <2>2, <2>3, <2>4
<1>3. Draws(emission')
  BY <1>1, <1>2 DEF Draws
<1> QED
  BY <1>3, EmissionIsDrawn

\* The outputs of an emission.
LEMMA EmittedOutputs ==
  ASSUME ProcessorInv, todo # NoFrame, Emit(Head(todo))
  PROVE  LET message == outcome'.sentences
         IN  /\ Len(message) \in Nat /\ Len(message) >= 1 /\ DOMAIN message = 1 .. Len(message)
             /\ OutputsAre(emission'.outputs, Asked(message, snapshot).passed, message)
<1> DEFINE x == Head(todo)
           o == outcome'
           asked == Asked(o.sentences, snapshot)
<1>1. Sees(x, o) /\ o.status \in {"SINGLE", "COMPLETE"}
  BY FeedSentenceStep DEF Emit
<1>2. /\ Len(o.sentences) \in Nat /\ Len(o.sentences) >= 1
      /\ DOMAIN o.sentences = 1 .. Len(o.sentences)
  <2>1. CASE o.status = "COMPLETE"
    <3>1. Finishes(o)
      BY <1>1, <2>1 DEF Sees
    <3>2. Total[o.key] \in Nat /\ o.sentences \in [1 .. Total[o.key] -> ToSet(o.sentences)]
      BY <3>1, AssemblerAssumption DEF Finishes, ToSet
    <3>3. o.sentences \in Seq(ToSet(o.sentences))
      BY <3>2
    <3>4. DOMAIN o.sentences = 1 .. Len(o.sentences)
      BY <3>3, OwnElements
    <3>5. Len(o.sentences) \in Nat /\ Len(o.sentences) > 1
      BY <3>1, FinishedLength
    <3> QED
      BY <3>4, <3>5
  <2>2. CASE o.status = "SINGLE"
    <3>1. o.sentences = <<x.text>>
      BY <1>1, <2>2 DEF Sees
    <3>2. Len(<<x.text>>) = 1 /\ DOMAIN <<x.text>> = 1 .. 1
      OBVIOUS
    <3> HIDE DEF x, o
    <3>3. Len(o.sentences) = 1 /\ DOMAIN o.sentences = 1 .. 1
      BY <3>1, <3>2
    <3> QED
      BY ONLY <3>3
  <2> QED
    BY <1>1, <2>1, <2>2
<1>3. emission'.outputs = IF asked.passed = <<>> THEN <<>>
                          ELSE Outputs(x, o, Eligible(asked, snapshot))
  BY DEF Emit
<1> HIDE DEF x, asked
<1>4. OutputsAre(emission'.outputs, asked.passed, o.sentences)
  BY <1>2, <1>3, OutputsOf
<1> QED
  BY <1>2, <1>4 DEF asked

\* A sentence that is a message or completes one.
LEMMA EmitStep ==
  ASSUME ProcessorInv, todo # NoFrame, Emit(Head(todo))
  PROVE  ProcessorInv'
<1> DEFINE x == Head(todo)
           o == outcome'
           S == IF o.status = "COMPLETE" THEN seen[o.key] \cup {x} ELSE {x}
<1>1. /\ x \in Sentences /\ now' = now /\ now \in Nat /\ snapshot \in Snapshots
      /\ AssemblerInv' /\ WorkTyped' /\ Sees(x, o)
  BY FeedSentenceStep DEF Emit
<1>2. ContextsInv'
  <2>1. /\ seen' = SeenAfter(x)
        /\ cCtx' = Discard(MergedC(x, o), Consumed(o))
        /\ gidCtx' = Discard(MergedGid(x, o), Consumed(o))
        /\ sCtx' = Discard(MergedS(x, o), Consumed(o))
    BY DEF Emit, FeedSentence
  <2> HIDE DEF x
  <2> QED
    BY <1>1, <2>1, ContextsStep DEF ProcessorInv
<1>3. Emits(x, o, S)
  BY DEF Emit, Emits
<1>4. SentInv'
  <2>1. dedup' = Asked(o.sentences, snapshot).d
    BY <1>3 DEF Emits
  <2>2. OutputsAre(emission'.outputs, Asked(o.sentences, snapshot).passed, o.sentences)
    BY EmittedOutputs DEF ProcessorInv
  <2>3. sent' = sent \o Copies(o.sentences, emission'.outputs)
    BY DEF Emit
  <2>4. Len(o.sentences) \in Nat /\ Len(o.sentences) >= 1
    BY EmittedOutputs
  <2> HIDE DEF o
  <2> QED
    BY <1>1, <2>1, <2>2, <2>3, <2>4, DedupStep DEF ProcessorInv
<1>5. OutputsDrawOnTheirGroup'
  <2>1. o.status = "COMPLETE" => Finishes(o) /\ S = seen[o.key] \cup {x}
    BY <1>1 DEF Sees
  <2> HIDE DEF x, o, S
  <2> QED
    BY <1>1, <1>3, <2>1, EmissionDraws DEF ProcessorInv
<1> QED
  BY <1>1, <1>2, <1>4, <1>5 DEF ProcessorInv

\* A reset of the processor.
LEMMA ProcessorResetStep ==
  ASSUME ProcessorInv, ProcessorReset
  PROVE  ProcessorInv'
<1>1. AssemblerInv'
  BY AssemblerInvStep DEF ProcessorReset, ProcessorInv, Next
<1>2. DOMAIN groups' = {} /\ DOMAIN seen' = {}
  BY DEF ProcessorReset, Reset, Without
<1>3. ContextsInv'
  BY <1>2 DEF ContextsInv, Hold, ProcessorReset, ResetContexts
<1>4. WorkTyped' /\ OutputsDrawOnTheirGroup'
  BY WorkStays DEF ProcessorReset, ProcessorInv
<1>5. SentInv'
  <2>1. dedup' = Dd!EmptyCache /\ sent' = <<>>
    BY DEF ProcessorReset
  <2> QED
    BY <2>1, NothingSent
<1> QED
  BY <1>1, <1>3, <1>4, <1>5 DEF ProcessorInv

\* The clock.
LEMMA ProcessorTickStep ==
  ASSUME ProcessorInv, ProcessorTick
  PROVE  ProcessorInv'
<1>1. AssemblerInv'
  BY AssemblerInvStep DEF ProcessorTick, ProcessorInv, Next
<1>2. UNCHANGED <<groups, dedup, sCtx, cCtx, gidCtx, todo, snapshot, emission, seen>>
  BY DEF ProcessorTick, Tick
<1>3. ContextsInv'
  BY <1>2 DEF ProcessorInv, ContextsInv
<1>4. WorkTyped' /\ OutputsDrawOnTheirGroup'
  BY <1>2, WorkStays DEF ProcessorInv
<1>5. SentInv'
  <2>1. now \in Nat /\ now' = now + 1
    BY DEF ProcessorTick, Tick, ProcessorInv, AssemblerInv, CountsTyped
  <2> QED
    BY <2>1, DedupStays DEF ProcessorTick, ProcessorInv
<1> QED
  BY <1>1, <1>3, <1>4, <1>5 DEF ProcessorInv

\* Every step keeps the invariant.
LEMMA ProcessorInvStep == ProcessorInv /\ [ProcessorNext]_processorVars => ProcessorInv'
<1> SUFFICES ASSUME ProcessorInv, [ProcessorNext]_processorVars PROVE ProcessorInv'
  OBVIOUS
<1>1. CASE UNCHANGED processorVars
  <2>1. UNCHANGED vars
    BY <1>1 DEF processorVars
  <2>2. AssemblerInv'
    BY <2>1, AssemblerInvStep DEF ProcessorInv
  <2>3. UNCHANGED <<now, groups, dedup, sCtx, cCtx, gidCtx, todo, snapshot, emission, seen>>
    BY <1>1 DEF processorVars, vars
  <2>4. ContextsInv'
    BY <2>3 DEF ProcessorInv, ContextsInv
  <2>5. WorkTyped' /\ OutputsDrawOnTheirGroup'
    BY <2>3, WorkStays DEF ProcessorInv
  <2>6. SentInv'
    <3>1. UNCHANGED <<dedup, sent>> /\ now \in Nat
      BY <1>1 DEF processorVars, ProcessorInv, AssemblerInv, CountsTyped
    <3> QED
      BY <2>3, <3>1, DedupStays DEF ProcessorInv
  <2> QED
    BY <2>2, <2>4, <2>5, <2>6 DEF ProcessorInv
<1> QED
  BY <1>1, BeginStep, IncompleteStep, EmitStep, ProcessorResetStep, ProcessorTickStep
     DEF ProcessorNext

\* So it holds throughout.
LEMMA ProcessorInvAlways == ProcessorSpec => []ProcessorInv
<1> QED
  BY ProcessorInvInit, ProcessorInvStep, PTL DEF ProcessorSpec

\* What is remembered was given out before now.
LEMMA RememberedTimes ==
  ASSUME SentInv
  PROVE  \A k \in DOMAIN dedup.cache : dedup.cache[k] \in 0 .. now
<1>1. PICK l : l = SentLog
  OBVIOUS
<1>2. PICK n \in 0 .. Len(l) : Holds(dedup, l, n)
  BY <1>1 DEF SentInv, Trails
<1>3. Log(l) /\ Len(l) \in Nat
  BY <1>1, OwnElements DEF SentInv, Trails, Log
<1> SUFFICES ASSUME NEW k \in DOMAIN dedup.cache PROVE dedup.cache[k] \in 0 .. now
  OBVIOUS
<1>4. PICK i \in n + 1 .. Len(l) : l[i].key = k
  BY <1>2 DEF Holds
<1>5. i \in 1 .. Len(l) /\ dedup.cache[k] = l[i].at
  BY <1>2, <1>3, <1>4 DEF Holds
<1> QED
  BY <1>3, <1>5 DEF Log

\* The invariant implies what the run checks.
LEMMA ProcessorInvGivesConsistent == ProcessorInv => ProcessorConsistent
<1> SUFFICES ASSUME ProcessorInv PROVE ProcessorConsistent
  OBVIOUS
<1>1. TypeOK
  BY AssemblerInvGivesConsistent DEF ProcessorInv, Consistent
<1>2. ASSUME NEW k \in DOMAIN groups
      PROVE  /\ seen[k] \subseteq Sentences /\ CsOf(seen[k]) \subseteq Nat
             /\ GidsHold(k, seen[k], gidCtx) /\ CsHold(k, seen[k], cCtx)
             /\ SHolds(k, seen[k], sCtx) /\ SKept(k, seen[k], sCtx)
             /\ GidsOf(seen[k]) \subseteq Gids
  <2>1. /\ seen[k] \subseteq Sentences
        /\ GidsHold(k, seen[k], gidCtx) /\ CsHold(k, seen[k], cCtx)
        /\ SHolds(k, seen[k], sCtx) /\ SKept(k, seen[k], sCtx)
    BY <1>2 DEF ProcessorInv, ContextsInv, Hold
  <2>2. GidsOf(seen[k]) \subseteq Gids
    BY <2>1 DEF GidsOf, Gids, ValidGid
  <2> QED
    BY <2>1, <2>2, TimesAreNumbers
<1>3. /\ DOMAIN cCtx \subseteq DOMAIN groups /\ DOMAIN gidCtx \subseteq DOMAIN groups
      /\ DOMAIN sCtx \subseteq DOMAIN groups
  BY DEF ProcessorInv, ContextsInv, Hold
<1>4. /\ \A k \in DOMAIN gidCtx : gidCtx[k] \in (SUBSET Gids) \ {{}}
      /\ \A k \in DOMAIN cCtx : cCtx[k] \in Nat
      /\ \A k \in DOMAIN sCtx : sCtx[k] # NoValue
  BY <1>2, <1>3 DEF GidsHold, CsHold, SHolds
<1>5. ProcessorTypes
  BY <1>1, <1>4, RememberedTimes DEF ProcessorTypes, ProcessorInv, WorkTyped
<1>6. ASSUME NEW k \in DOMAIN groups
      PROVE  LET gids == {ValidGid(x) : x \in seen[k]} \ {NoValue}
                 cs == {ValidC(x) : x \in seen[k]} \ {NoValue}
             IN  /\ gids = (IF k \in DOMAIN gidCtx THEN gidCtx[k] ELSE {})
                 /\ cs = {} <=> k \notin DOMAIN cCtx
                 /\ k \in DOMAIN cCtx => cCtx[k] \in cs /\ \A c \in cs : cCtx[k] <= c
                 /\ k \in DOMAIN sCtx => \E x \in seen[k] : x.hasG /\ x.s = sCtx[k]
                 /\ k \notin DOMAIN sCtx => \A x \in seen[k] : x.hasG => x.s = NoValue
  <2>1. /\ GidsHold(k, seen[k], gidCtx) /\ CsHold(k, seen[k], cCtx)
        /\ SHolds(k, seen[k], sCtx) /\ SKept(k, seen[k], sCtx)
    BY <1>2, <1>6
  <2> QED
    BY ONLY <2>1 DEF GidsHold, CsHold, SHolds, SKept, GidsOf, CsOf
<1>7. ContextsAreOfThisGroup
  BY <1>3, <1>6 DEF ContextsAreOfThisGroup
<1> QED
  BY <1>5, <1>7 DEF ProcessorConsistent

\* For any frames, snapshots and configuration: the contexts that process keeps per
\* assembly key are there for groups of the assembler alone, and hold the least
\* time, the group ids and an s of the arrivals of the present group, because
\* discarded_keys and completion take along those of every group that ends.
THEOREM ProcessorIsConsistent == ProcessorSpec => []ProcessorConsistent
<1> QED
  BY ProcessorInvAlways, ProcessorInvGivesConsistent, PTL

\* The header that process gives a completed message is drawn from the arrivals of
\* its own group: its group id when they have one, the earliest of their times,
\* and a name they or their receiver have.
THEOREM OutputsAreDrawn == ProcessorSpec => []OutputsDrawOnTheirGroup
<1>1. ProcessorInv => OutputsDrawOnTheirGroup
  BY DEF ProcessorInv
<1> QED
  BY <1>1, ProcessorInvAlways, PTL

\* A copy stands against a target in the log as it does among those given out.
LEMMA BarsAre ==
  ASSUME SentInv, snapshot \in Snapshots, NEW j \in DOMAIN snapshot.targets,
         NEW message, NEW n,
         NEW scope, scope = IF snapshot.mode = "GLOBAL" THEN GlobalScope ELSE snapshot.targets[j]
  PROVE  (\E i \in DOMAIN sent : Bars(i, snapshot.targets[j], message, n))
           <=> Barred(SentLog, <<scope, message>>, n)
<1> DEFINE t == snapshot.targets[j]
<1>1. Len(sent) \in Nat /\ DOMAIN sent = 1 .. Len(sent)
  BY OwnElements DEF SentInv
<1>2. /\ Len(SentLog) = Len(sent)
      /\ \A i \in 1 .. Len(sent) : SentLog[i] = Stamp(sent[i])
  BY <1>1 DEF SentLog
<1>3. snapshot.mode \in {"GLOBAL", "PER_TARGET"} /\ t # GlobalScope
  BY ProcessorAssumption DEF ToSet
<1>4. ASSUME NEW i \in 1 .. Len(sent)
      PROVE  /\ SentLog[i].at = sent[i].at
             /\ SentLog[i].key = <<scope, message>>
                  <=> /\ sent[i].message = message
                      /\ sent[i].mode = snapshot.mode
                      /\ snapshot.mode = "PER_TARGET" => t \in sent[i].targets
  <2> DEFINE c == sent[i]
  <2>1. CopyTyped(c)
    BY DEF SentInv
  <2>2. SentLog[i].at = c.at /\ SentLog[i].key = <<ScopeOf(c), c.message>>
    <3>1. SentLog[i] = Dd!Entry(c.at, <<ScopeOf(c), c.message>>)
      BY <1>2 DEF Stamp
    <3>2. /\ Dd!Entry(c.at, <<ScopeOf(c), c.message>>).at = c.at
          /\ Dd!Entry(c.at, <<ScopeOf(c), c.message>>).key = <<ScopeOf(c), c.message>>
      BY DEF Dd!Entry
    <3> QED
      BY ONLY <3>1, <3>2
  <2>3. ScopeOf(c) = scope
          <=> /\ c.mode = snapshot.mode
              /\ snapshot.mode = "PER_TARGET" => t \in c.targets
    <3>1. CASE c.mode = "GLOBAL"
      <4>1. ScopeOf(c) = GlobalScope
        BY <3>1 DEF ScopeOf
      <4> QED
        BY <1>3, <3>1, <4>1
    <3>2. CASE c.mode = "PER_TARGET"
      <4>1. PICK u : c.targets = {u} /\ u # GlobalScope
        BY <2>1, <3>2 DEF CopyTyped
      <4>2. ScopeOf(c) = u
        <5>1. (CHOOSE v : c.targets = {v}) = u
          BY <4>1
        <5> QED
          BY <3>2, <5>1 DEF ScopeOf
      <4> QED
        BY <1>3, <3>2, <4>1, <4>2
    <3> QED
      BY <2>1, <3>1, <3>2 DEF CopyTyped
  <2> HIDE DEF c
  <2>4. <<ScopeOf(c), c.message>> = <<scope, message>> <=> ScopeOf(c) = scope /\ c.message = message
    OBVIOUS
  <2> QED
    BY <2>2, <2>3, <2>4 DEF c
<1> HIDE DEF t
<1>5. ASSUME NEW i \in 1 .. Len(sent)
      PROVE  Bars(i, t, message, n)
               <=> SentLog[i].key = <<scope, message>> /\ now - SentLog[i].at < Ttl /\ n - i < MaxEntries
  BY <1>4 DEF Bars
<1> QED
  BY <1>1, <1>2, <1>5 DEF Barred, t

\* What the outputs of an emission say of each target.
LEMMA GivenIs ==
  ASSUME snapshot \in Snapshots, NEW message, Len(message) \in Nat, Len(message) >= 1,
         NEW passed \in Seq(ToSet(Scopes(snapshot))),
         OutputsAre(emission'.outputs, passed, message),
         NEW k \in DOMAIN snapshot.targets, NEW l \in 1 .. Len(message)
  PROVE  Given(l, snapshot.targets[k])
           <=> (IF snapshot.mode = "GLOBAL" THEN GlobalScope ELSE snapshot.targets[k]) \in ToSet(passed)
<1> DEFINE t == snapshot.targets[k]
           outputs == emission'.outputs
<1>1. Len(passed) \in Nat /\ DOMAIN passed = 1 .. Len(passed)
  BY OwnElements
<1>2. CASE passed = <<>>
  <2>1. outputs = <<>> /\ ToSet(passed) = {} /\ DOMAIN <<>> = {}
    BY <1>2, EmptySeq DEF OutputsAre, ToSet
  <2> QED
    BY <2>1 DEF Given
<1>3. CASE passed # <<>>
  <2>1. /\ DOMAIN outputs = 1 .. Len(message)
        /\ outputs[l].targets = IF snapshot.mode = "GLOBAL" THEN snapshot.targets ELSE passed
    BY <1>3 DEF OutputsAre
  <2>2. CASE snapshot.mode = "GLOBAL"
    <3>1. t \in ToSet(snapshot.targets)
      BY DEF ToSet
    <3>2. ToSet(Scopes(snapshot)) = {GlobalScope}
      BY <2>2 DEF Scopes, ToSet
    <3>3. Len(passed) # 0
      BY <1>3, EmptySeq
    <3>4. 1 \in DOMAIN passed /\ passed[1] \in ToSet(Scopes(snapshot))
      BY <1>1, <3>3, ElementOfSeq
    <3>5. GlobalScope \in ToSet(passed)
      BY <3>2, <3>4 DEF ToSet
    <3> QED
      BY <2>1, <2>2, <3>1, <3>5 DEF Given
  <2>3. CASE snapshot.mode # "GLOBAL"
    BY <2>1, <2>3 DEF Given
  <2> QED
    BY <2>2, <2>3
<1> QED
  BY <1>2, <1>3

\* What an emission gives to each target.
LEMMA EachTarget ==
  ASSUME ProcessorInv, todo # NoFrame, Emit(Head(todo)), NEW j \in DOMAIN snapshot.targets
  PROVE  LET message == outcome'.sentences
             t == snapshot.targets[j]
             before == IF snapshot.mode = "GLOBAL" THEN {}
                       ELSE {k \in 1 .. j - 1 : Given(1, snapshot.targets[k])}
             n == Len(sent) + Cardinality(before)
             barred == \E i \in DOMAIN sent : Bars(i, t, message, n)
         IN  \A l \in DOMAIN message : Given(l, t) <=> ~barred
<1> DEFINE message == outcome'.sentences
           t == snapshot.targets[j]
           sc == Scopes(snapshot)
           passed == Asked(message, snapshot).passed
           before == IF snapshot.mode = "GLOBAL" THEN {}
                     ELSE {k \in 1 .. j - 1 : Given(1, snapshot.targets[k])}
           n == Len(sent) + Cardinality(before)
           place == IF snapshot.mode = "GLOBAL" THEN 1 ELSE j
           scope == IF snapshot.mode = "GLOBAL" THEN GlobalScope ELSE t
<1>1. snapshot \in Snapshots /\ now \in Nat /\ SentInv
  BY DEF ProcessorInv, WorkTyped, AssemblerInv, CountsTyped, Emit, FeedSentence
<1>2. /\ Len(message) \in Nat /\ Len(message) >= 1 /\ DOMAIN message = 1 .. Len(message)
      /\ OutputsAre(emission'.outputs, passed, message)
  BY EmittedOutputs
<1> HIDE DEF message
<1>3. AskedSofar(Asked(message, snapshot), SentLog, message, sc, Len(sc))
  BY <1>1, Asks
<1>4. passed \in Seq(ToSet(sc))
  BY <1>3 DEF AskedSofar
<1> HIDE DEF passed
<1>5. Len(SentLog) = Len(sent)
  <2>1. Len(sent) \in Nat
    BY <1>1, OwnElements DEF SentInv
  <2> QED
    BY <2>1 DEF SentLog
<1>6. /\ place \in 1 .. Len(sc) /\ sc[place] = scope
      /\ snapshot.targets \in Seq(ToSet(snapshot.targets))
  <2>1. snapshot.targets \in Seq(ToSet(snapshot.targets))
    BY <1>1, ProcessorAssumption
  <2>2. DOMAIN sc = 1 .. Len(sc)
    BY <1>1, SnapshotsAreBound
  <2>3. CASE snapshot.mode = "GLOBAL"
    BY <2>1, <2>3 DEF Scopes
  <2>4. CASE snapshot.mode # "GLOBAL"
    BY <2>1, <2>2, <2>4 DEF Scopes
  <2> QED
    BY <2>3, <2>4
<1>7. before = PassedOf(sc, passed, place - 1)
  <2>1. CASE snapshot.mode = "GLOBAL"
    <3>1. 1 .. place - 1 = {}
      BY <2>1
    <3> QED
      BY <2>1, <3>1 DEF PassedOf
  <2>2. CASE snapshot.mode # "GLOBAL"
    <3>1. sc = snapshot.targets /\ place = j
      BY <2>2 DEF Scopes
    <3>2. 1 \in 1 .. Len(message)
      BY <1>2
    <3>3. \A k \in 1 .. j - 1 : k \in DOMAIN snapshot.targets
      <4>1. Len(snapshot.targets) \in Nat /\ DOMAIN snapshot.targets = 1 .. Len(snapshot.targets)
        BY <1>6, OwnElements
      <4> QED
        BY <4>1
    <3>4. ASSUME NEW k \in 1 .. j - 1
          PROVE  Given(1, snapshot.targets[k]) <=> snapshot.targets[k] \in ToSet(passed)
      BY <1>1, <1>2, <1>4, <2>2, <3>2, <3>3, GivenIs
    <3> QED
      BY <2>2, <3>1, <3>4 DEF PassedOf
  <2> QED
    BY <2>1, <2>2
<1>8. scope \in ToSet(passed) <=> ~Barred(SentLog, <<scope, message>>, n)
  <2> HIDE DEF place, scope, before, sc
  <2>1. sc[place] \in ToSet(passed)
          <=> ~Barred(SentLog, <<sc[place], message>>,
                      Len(SentLog) + Cardinality(PassedOf(sc, passed, place - 1)))
    BY <1>3, <1>6 DEF AskedSofar, passed
  <2> QED
    BY <1>5, <1>6, <1>7, <2>1
<1>9. (\E i \in DOMAIN sent : Bars(i, t, message, n)) <=> Barred(SentLog, <<scope, message>>, n)
  <2> HIDE DEF n
  <2> QED
    BY <1>1, BarsAre
<1>10. ASSUME NEW l \in DOMAIN message
       PROVE  Given(l, t) <=> scope \in ToSet(passed)
  BY <1>1, <1>2, <1>4, <1>10, GivenIs
<1> HIDE DEF scope, n, t
<1>11. \A l \in DOMAIN message : Given(l, t) <=> ~(\E i \in DOMAIN sent : Bars(i, t, message, n))
  BY <1>8, <1>9, <1>10
<1> QED
  BY <1>11 DEF message, t, n

\* For every ttl, capacity, list of targets, mode and sequence of frames: process
\* gives every line of a message to a target unless is_unique has let a copy through
\* for it in this mode within the ttl and fewer than max_entries since, and then it
\* gives it none.  So nothing is forgotten before it must be, and nothing is held
\* against a target for longer.
THEOREM EachTargetOncePerWindow == ProcessorSpec => SentOncePerWindow
<1> DEFINE Body == \A j \in DOMAIN snapshot.targets :
                     LET message == outcome'.sentences
                         t == snapshot.targets[j]
                         before == IF snapshot.mode = "GLOBAL" THEN {}
                                   ELSE {k \in 1 .. j - 1 : Given(1, snapshot.targets[k])}
                         n == Len(sent) + Cardinality(before)
                         barred == \E i \in DOMAIN sent : Bars(i, t, message, n)
                     IN  \A l \in DOMAIN message : Given(l, t) <=> ~barred
<1>1. ProcessorInv /\ [ProcessorNext]_processorVars =>
        [(Emitted /\ emission'.status # "none") => Body]_processorVars
  <2> SUFFICES ASSUME ProcessorInv, ProcessorNext, Emitted, emission'.status # "none"
               PROVE  Body
    OBVIOUS
  <2>1. CASE \E f \in Frames, snap \in Snapshots : Begin(f, snap)
    BY <2>1 DEF Begin, vars, Emitted
  <2>2. CASE ProcessorReset \/ ProcessorTick
    BY <2>2 DEF ProcessorReset, ProcessorTick, Emitted
  <2>3. CASE todo # NoFrame /\ Incomplete(Head(todo))
    BY <2>3 DEF Incomplete, NoEmission
  <2>4. CASE todo # NoFrame /\ Emit(Head(todo))
    BY <2>4, EachTarget
  <2> QED
    BY <2>1, <2>2, <2>3, <2>4 DEF ProcessorNext
<1> QED
  BY <1>1, ProcessorInvAlways, PTL DEF ProcessorSpec, SentOncePerWindow
===============================================================================
