---------------------------- MODULE TrafficProofs ----------------------------
(***************************************************************************)
(* What holds of Traffic for all users, all finite sets of keys and all    *)
(* bounds: the totals invent no byte, and lose none but where the module   *)
(* says so.                                                                *)
(*                                                                         *)
(* The first part is about sums over finite sets.  Functions defines       *)
(* SumFunctionOnSet by the fold of a function, and what a fold computes is *)
(* known by induction only, which is put here as a statement about sets:   *)
(* a family of subsets of S that is closed the right way holds every one.  *)
(* The second part says how one step moves the sum Ahead of what the       *)
(* collector has yet to see, and the third has the invariant.              *)
(***************************************************************************)
EXTENDS Traffic, FiniteSetTheorems, WellFoundedInduction, TLAPS

-----------------------------------------------------------------------------
(* Induction. *)

\* Every nonempty set of naturals has a least element.
LEMMA Least ==
  ASSUME NEW T \in SUBSET Nat, T # {}
  PROVE  \E n \in T : \A m \in T : n <= m
<1> DEFINE R == OpToRel(<, Nat)
<1>1. IsWellFoundedOn(R, Nat)
  BY NatLessThanWellFounded
<1>2. \A x, y \in Nat : <<x, y>> \notin R => y <= x
  BY DEF OpToRel
<1> HIDE DEF R
<1>3. PICK n \in T : \A m \in T : <<m, n>> \notin R
  BY <1>1, WFMin
<1>4. \A m \in T : n <= m
  BY <1>2, <1>3
<1> QED
  BY <1>4

\* A set of naturals that holds 0 and every successor holds them all.
LEMMA Naturals ==
  ASSUME NEW Q \in SUBSET Nat, 0 \in Q, \A n \in Q : n + 1 \in Q
  PROVE  Q = Nat
<1> SUFFICES ASSUME Q # Nat PROVE FALSE
  OBVIOUS
<1>1. PICK n \in Nat \ Q : \A m \in Nat \ Q : n <= m
  BY Least
<1>2. n # 0 /\ n - 1 \in Nat
  BY <1>1
<1>3. n - 1 \in Q
  BY <1>1, <1>2
<1> QED
  BY <1>1, <1>2, <1>3

\* A family of subsets of a finite set that holds the empty set, and a set
\* whenever it holds all that lack one of its elements, holds them all.
LEMMA Subsets ==
  ASSUME NEW S, IsFiniteSet(S), NEW Q \in SUBSET SUBSET S, {} \in Q,
         \A T \in SUBSET S : T # {} /\ (\A x \in T : T \ {x} \in Q) => T \in Q
  PROVE  Q = SUBSET S
<1> SUFFICES ASSUME Q # SUBSET S PROVE FALSE
  OBVIOUS
<1> DEFINE Bad == (SUBSET S) \ Q
           Sizes == {Cardinality(T) : T \in Bad}
<1>1. \A T \in SUBSET S : /\ IsFiniteSet(T) /\ Cardinality(T) \in Nat
                          /\ \A x \in T : Cardinality(T \ {x}) = Cardinality(T) - 1
  BY FS_Subset, FS_CardinalityType, FS_RemoveElement
<1>2. Sizes \in SUBSET Nat /\ Sizes # {}
  BY <1>1
<1>3. PICK n \in Sizes : \A m \in Sizes : n <= m
  BY <1>2, Least
<1>4. PICK T \in Bad : n = Cardinality(T)
  BY <1>3
<1>5. ASSUME NEW x \in T PROVE T \ {x} \in Q
  <2> SUFFICES ASSUME T \ {x} \notin Q PROVE FALSE
    OBVIOUS
  <2>1. T \ {x} \in Bad
    OBVIOUS
  <2>2. Cardinality(T \ {x}) \in Sizes
    BY <2>1
  <2>3. Cardinality(T \ {x}) = n - 1 /\ n \in Nat
    BY <1>1, <1>4
  <2> QED
    BY <1>3, <2>2, <2>3
<1> QED
  BY <1>4, <1>5

-----------------------------------------------------------------------------
(* Folds and sums. *)

\* The element that a fold takes first.
First(s) == CHOOSE x \in s : TRUE
Rest(s)  == s \ {First(s)}

\* g is the fold of f on the sets of D.
IsFold(g, f, D) == g = [s \in D |-> IF s = {} THEN 0 ELSE f[First(s)] + g[Rest(s)]]

\* It is one of the set's.
LEMMA FirstIn == ASSUME NEW s, s # {} PROVE First(s) \in s
BY DEF First

\* A sum is the value at the whole set of the fold that CHOOSE finds.
LEMMA SumDef ==
  ASSUME NEW f, NEW S
  PROVE  SumFunctionOnSet(f, S) = (CHOOSE g : IsFold(g, f, SUBSET S))[S]
BY DEF SumFunctionOnSet, FoldFunctionOnSet, MapThenFoldSet, IsFold, First, Rest

\* On a finite set there is such a fold.
LEMMA FoldExists ==
  ASSUME NEW f, NEW S, IsFiniteSet(S)
  PROVE  \E g : IsFold(g, f, SUBSET S)
<1> DEFINE D(k) == {T \in SUBSET S : Cardinality(T) <= k}
           Q == {k \in Nat : \E g : IsFold(g, f, D(k))}
<1>1. \A T \in SUBSET S : /\ IsFiniteSet(T) /\ Cardinality(T) \in Nat
                          /\ Cardinality(T) <= Cardinality(S)
                          /\ Cardinality(T) = 0 => T = {}
                          /\ \A x \in T : Cardinality(T \ {x}) = Cardinality(T) - 1
  BY FS_Subset, FS_CardinalityType, FS_RemoveElement, FS_EmptySet
<1>2. 0 \in Q
  <2> DEFINE g == [s \in D(0) |-> 0]
  <2>1. \A s \in D(0) : s = {}
    BY <1>1
  <2>2. IsFold(g, f, D(0))
    BY <2>1 DEF IsFold
  <2> QED
    BY <2>2
<1>3. ASSUME NEW k \in Q PROVE k + 1 \in Q
  <2>1. PICK g : IsFold(g, f, D(k))
    OBVIOUS
  <2> DEFINE h == [s \in D(k + 1) |-> IF s = {} THEN 0 ELSE f[First(s)] + g[Rest(s)]]
  <2>2. \A s \in D(k) : s \in D(k + 1) /\ h[s] = g[s]
    <3>1. \A s \in D(k) : s \in D(k + 1)
      BY <1>1
    <3> QED
      BY <2>1, <3>1 DEF IsFold
  <2>3. \A s \in D(k + 1) : s # {} => Rest(s) \in D(k)
    BY <1>1, FirstIn DEF Rest
  <2>4. IsFold(h, f, D(k + 1))
    BY <2>2, <2>3 DEF IsFold
  <2>5. k + 1 \in Nat
    OBVIOUS
  <2> HIDE DEF h, D
  <2> QED
    BY <2>4, <2>5
<1>4. Q = Nat
  BY <1>2, <1>3, Naturals
<1>5. Cardinality(S) \in Nat /\ D(Cardinality(S)) = SUBSET S
  BY <1>1
<1>6. \A k \in Nat : \E g : IsFold(g, f, D(k))
  <2> HIDE DEF D
  <2> QED
    BY <1>4
<1> HIDE DEF D
<1> QED
  BY <1>5, <1>6

\* So the sum over a finite set unfolds.
LEMMA SumFold ==
  ASSUME NEW f, NEW S, IsFiniteSet(S)
  PROVE  \E g : IsFold(g, f, SUBSET S) /\ SumFunctionOnSet(f, S) = g[S]
<1>1. IsFold(CHOOSE g : IsFold(g, f, SUBSET S), f, SUBSET S)
  BY FoldExists
<1> QED
  BY <1>1, SumDef

\* Two folds of functions that agree on a set agree there.
LEMMA FoldsAgree ==
  ASSUME NEW f, NEW g, NEW S, NEW T, NEW p, NEW q, IsFiniteSet(S), S \subseteq T,
         IsFold(p, f, SUBSET S), IsFold(q, g, SUBSET T), \A x \in S : f[x] = g[x]
  PROVE  p[S] = q[S]
<1> DEFINE Q == {s \in SUBSET S : p[s] = q[s]}
<1>1. {} \in Q
  BY DEF IsFold
<1>2. ASSUME NEW s \in SUBSET S, s # {}, \A x \in s : s \ {x} \in Q PROVE s \in Q
  <2>1. First(s) \in s /\ Rest(s) \in Q
    BY <1>2, FirstIn DEF Rest
  <2>2. p[s] = f[First(s)] + p[Rest(s)] /\ q[s] = g[First(s)] + q[Rest(s)]
    BY <1>2 DEF IsFold
  <2> QED
    BY <2>1, <2>2
<1>3. Q = SUBSET S
  <2>1. Q \in SUBSET SUBSET S
    OBVIOUS
  <2> HIDE DEF Q
  <2>2. \A s \in SUBSET S : s # {} /\ (\A x \in s : s \ {x} \in Q) => s \in Q
    BY <1>2
  <2> QED
    BY <1>1, <2>1, <2>2, Subsets
<1> QED
  BY <1>3

\* Functions that agree on a set have the same sum there.
LEMMA SumAgrees ==
  ASSUME NEW f, NEW g, NEW S, IsFiniteSet(S), \A x \in S : f[x] = g[x]
  PROVE  SumFunctionOnSet(f, S) = SumFunctionOnSet(g, S)
<1>1. PICK p : IsFold(p, f, SUBSET S) /\ SumFunctionOnSet(f, S) = p[S]
  BY SumFold
<1>2. PICK q : IsFold(q, g, SUBSET S) /\ SumFunctionOnSet(g, S) = q[S]
  BY SumFold
<1>3. p[S] = q[S]
  BY <1>1, <1>2, FoldsAgree
<1> QED
  BY <1>1, <1>2, <1>3

\* The empty sum.
LEMMA SumEmpty == ASSUME NEW f PROVE SumFunctionOnSet(f, {}) = 0
<1>1. PICK g : IsFold(g, f, SUBSET {}) /\ SumFunctionOnSet(f, {}) = g[{}]
  BY SumFold, FS_EmptySet
<1> QED
  BY <1>1 DEF IsFold

\* A sum is its first element and the sum of the rest.
LEMMA SumFirst ==
  ASSUME NEW f, NEW S, IsFiniteSet(S), S # {}
  PROVE  SumFunctionOnSet(f, S) = f[First(S)] + SumFunctionOnSet(f, Rest(S))
<1>1. Rest(S) \subseteq S /\ IsFiniteSet(Rest(S))
  BY FS_Subset DEF Rest
<1>2. PICK p : IsFold(p, f, SUBSET S) /\ SumFunctionOnSet(f, S) = p[S]
  BY SumFold
<1>3. PICK q : IsFold(q, f, SUBSET Rest(S)) /\ SumFunctionOnSet(f, Rest(S)) = q[Rest(S)]
  BY <1>1, SumFold
<1>4. q[Rest(S)] = p[Rest(S)]
  BY <1>1, <1>2, <1>3, FoldsAgree
<1>5. p[S] = f[First(S)] + p[Rest(S)]
  BY <1>2 DEF IsFold
<1> QED
  BY <1>2, <1>3, <1>4, <1>5

\* A sum of naturals is one.
LEMMA SumNat ==
  ASSUME NEW f, NEW S, IsFiniteSet(S), \A x \in S : f[x] \in Nat
  PROVE  SumFunctionOnSet(f, S) \in Nat
<1> DEFINE Q == {s \in SUBSET S : SumFunctionOnSet(f, s) \in Nat}
<1>1. {} \in Q
  BY SumEmpty
<1>2. ASSUME NEW s \in SUBSET S, s # {}, \A x \in s : s \ {x} \in Q PROVE s \in Q
  <2>1. First(s) \in s /\ Rest(s) \in Q
    BY <1>2, FirstIn DEF Rest
  <2>2. SumFunctionOnSet(f, s) = f[First(s)] + SumFunctionOnSet(f, Rest(s))
    BY <1>2, SumFirst, FS_Subset
  <2>3. SumFunctionOnSet(f, Rest(s)) \in Nat /\ f[First(s)] \in Nat
    BY <2>1
  <2> QED
    BY <2>2, <2>3
<1>3. Q = SUBSET S
  <2>1. Q \in SUBSET SUBSET S
    OBVIOUS
  <2> HIDE DEF Q
  <2>2. \A s \in SUBSET S : s # {} /\ (\A x \in s : s \ {x} \in Q) => s \in Q
    BY <1>2
  <2> QED
    BY <1>1, <2>1, <2>2, Subsets
<1> QED
  BY <1>3

\* Any element may be taken out first.
LEMMA SumTake ==
  ASSUME NEW f, NEW S, IsFiniteSet(S), \A x \in S : f[x] \in Nat, NEW k \in S
  PROVE  SumFunctionOnSet(f, S) = f[k] + SumFunctionOnSet(f, S \ {k})
<1> DEFINE Q == {s \in SUBSET S : \A y \in s : SumFunctionOnSet(f, s) = f[y] + SumFunctionOnSet(f, s \ {y})}
<1>0. \A s \in SUBSET S : IsFiniteSet(s) /\ SumFunctionOnSet(f, s) \in Nat
  BY FS_Subset, SumNat
<1>1. {} \in Q
  OBVIOUS
<1>2. ASSUME NEW s \in SUBSET S, s # {}, \A y \in s : s \ {y} \in Q PROVE s \in Q
  <2> SUFFICES ASSUME NEW y \in s PROVE SumFunctionOnSet(f, s) = f[y] + SumFunctionOnSet(f, s \ {y})
    OBVIOUS
  <2> DEFINE c == First(s)
  <2>1. c \in s /\ Rest(s) = s \ {c}
    BY <1>2, FirstIn DEF Rest
  <2>2. SumFunctionOnSet(f, s) = f[c] + SumFunctionOnSet(f, s \ {c})
    <3>1. IsFiniteSet(s) /\ s # {}
      BY <1>0, <1>2
    <3>2. SumFunctionOnSet(f, s) = f[First(s)] + SumFunctionOnSet(f, Rest(s))
      BY <3>1, SumFirst
    <3> QED
      BY <3>2, <2>1
  <2> HIDE DEF c
  <2>3. CASE y = c
    BY <2>2, <2>3
  <2>4. CASE y # c
    <3>1. SumFunctionOnSet(f, s \ {c}) = f[y] + SumFunctionOnSet(f, (s \ {c}) \ {y})
      BY <1>2, <2>1, <2>4
    <3>2. SumFunctionOnSet(f, s \ {y}) = f[c] + SumFunctionOnSet(f, (s \ {y}) \ {c})
      BY <1>2, <2>1, <2>4
    <3>3. (s \ {c}) \ {y} = (s \ {y}) \ {c}
      OBVIOUS
    <3>4. f[c] \in Nat /\ f[y] \in Nat /\ SumFunctionOnSet(f, (s \ {c}) \ {y}) \in Nat
      BY <1>0, <2>1
    <3> QED
      BY <2>2, <3>1, <3>2, <3>3, <3>4
  <2> QED
    BY <2>3, <2>4
<1>3. Q = SUBSET S
  <2>1. Q \in SUBSET SUBSET S
    OBVIOUS
  <2> HIDE DEF Q
  <2>2. \A s \in SUBSET S : s # {} /\ (\A x \in s : s \ {x} \in Q) => s \in Q
    BY <1>2
  <2> QED
    BY <1>1, <2>1, <2>2, Subsets
<1> QED
  BY <1>3

\* Sums add up.
LEMMA SumPlus ==
  ASSUME NEW f, NEW g, NEW h, NEW S, IsFiniteSet(S),
         \A x \in S : f[x] \in Nat /\ g[x] \in Nat /\ h[x] = f[x] + g[x]
  PROVE  SumFunctionOnSet(h, S) = SumFunctionOnSet(f, S) + SumFunctionOnSet(g, S)
<1> DEFINE Q == {s \in SUBSET S : SumFunctionOnSet(h, s) = SumFunctionOnSet(f, s) + SumFunctionOnSet(g, s)}
<1>0. \A s \in SUBSET S : /\ IsFiniteSet(s) /\ SumFunctionOnSet(f, s) \in Nat /\ SumFunctionOnSet(g, s) \in Nat
  BY FS_Subset, SumNat
<1>1. {} \in Q
  BY SumEmpty
<1>2. ASSUME NEW s \in SUBSET S, s # {}, \A y \in s : s \ {y} \in Q PROVE s \in Q
  <2> DEFINE c == First(s)
  <2>1. c \in s /\ Rest(s) = s \ {c} /\ s \ {c} \in Q
    BY <1>2, FirstIn DEF Rest
  <2>2. /\ SumFunctionOnSet(f, s) = f[c] + SumFunctionOnSet(f, s \ {c})
        /\ SumFunctionOnSet(g, s) = g[c] + SumFunctionOnSet(g, s \ {c})
        /\ SumFunctionOnSet(h, s) = h[c] + SumFunctionOnSet(h, s \ {c})
    <3>1. IsFiniteSet(s) /\ s # {}
      BY <1>0, <1>2
    <3>2. \A e : SumFunctionOnSet(e, s) = e[First(s)] + SumFunctionOnSet(e, Rest(s))
      BY <3>1, SumFirst
    <3> QED
      BY <3>2, <2>1
  <2> HIDE DEF c
  <2>3. /\ f[c] \in Nat /\ g[c] \in Nat /\ h[c] = f[c] + g[c]
        /\ SumFunctionOnSet(f, s \ {c}) \in Nat /\ SumFunctionOnSet(g, s \ {c}) \in Nat
    BY <1>0, <2>1
  <2>4. SumFunctionOnSet(h, s \ {c}) = SumFunctionOnSet(f, s \ {c}) + SumFunctionOnSet(g, s \ {c})
    BY <2>1
  <2> QED
    BY <2>2, <2>3, <2>4
<1>3. Q = SUBSET S
  <2>1. Q \in SUBSET SUBSET S
    OBVIOUS
  <2> HIDE DEF Q
  <2>2. \A s \in SUBSET S : s # {} /\ (\A x \in s : s \ {x} \in Q) => s \in Q
    BY <1>2
  <2> QED
    BY <1>1, <2>1, <2>2, Subsets
<1> QED
  BY <1>3

\* Nothing adds up to nothing.
LEMMA SumZero ==
  ASSUME NEW f, NEW S, IsFiniteSet(S), \A x \in S : f[x] = 0
  PROVE  SumFunctionOnSet(f, S) = 0
<1>1. SumFunctionOnSet(f, S) = SumFunctionOnSet(f, S) + SumFunctionOnSet(f, S)
  BY SumPlus
<1> QED
  BY <1>1, SumNat

\* One element's change is the sum's.
LEMMA SumChange ==
  ASSUME NEW f, NEW g, NEW S, IsFiniteSet(S), \A x \in S : f[x] \in Nat /\ g[x] \in Nat,
         NEW k \in S, \A x \in S \ {k} : f[x] = g[x]
  PROVE  SumFunctionOnSet(f, S) + g[k] = SumFunctionOnSet(g, S) + f[k]
<1>1. /\ SumFunctionOnSet(f, S) = f[k] + SumFunctionOnSet(f, S \ {k})
      /\ SumFunctionOnSet(g, S) = g[k] + SumFunctionOnSet(g, S \ {k})
  BY SumTake
<1>2. IsFiniteSet(S \ {k})
  BY FS_RemoveElement
<1>3. SumFunctionOnSet(f, S \ {k}) = SumFunctionOnSet(g, S \ {k}) /\ SumFunctionOnSet(f, S \ {k}) \in Nat
  BY <1>2, SumAgrees, SumNat
<1> QED
  BY <1>1, <1>3

\* A sum over a part is one over the whole, with nothing elsewhere.
LEMMA SumPart ==
  ASSUME NEW f, NEW g, NEW S, IsFiniteSet(S), NEW T \in SUBSET S, \A x \in T : f[x] \in Nat /\ g[x] = f[x],
         \A x \in S \ T : g[x] = 0
  PROVE  SumFunctionOnSet(f, T) = SumFunctionOnSet(g, S)
<1> DEFINE Q == {s \in SUBSET S : SumFunctionOnSet(f, s \cap T) = SumFunctionOnSet(g, s)}
<1>0. \A x \in S : g[x] \in Nat
  OBVIOUS
<1>1. {} \in Q
  BY SumEmpty
<1>2. ASSUME NEW s \in SUBSET S, s # {}, \A y \in s : s \ {y} \in Q PROVE s \in Q
  <2>1. PICK c : c \in s
    BY <1>2
  <2>2. IsFiniteSet(s) /\ IsFiniteSet(s \cap T)
    BY FS_Subset
  <2>3. SumFunctionOnSet(g, s) = g[c] + SumFunctionOnSet(g, s \ {c})
    BY <1>0, <2>1, <2>2, SumTake
  <2>4. SumFunctionOnSet(f, (s \ {c}) \cap T) = SumFunctionOnSet(g, s \ {c})
    BY <1>2, <2>1
  <2>5. CASE c \in T
    <3>1. (s \ {c}) \cap T = (s \cap T) \ {c}
      OBVIOUS
    <3>2. SumFunctionOnSet(f, s \cap T) = f[c] + SumFunctionOnSet(f, (s \cap T) \ {c})
      BY <2>1, <2>2, <2>5, SumTake
    <3> QED
      BY <2>3, <2>4, <2>5, <3>1, <3>2
  <2>6. CASE c \notin T
    <3>1. (s \ {c}) \cap T = s \cap T
      BY <2>6
    <3>2. SumFunctionOnSet(g, s \ {c}) \in Nat /\ g[c] = 0
      BY <1>0, <2>1, <2>2, <2>6, SumNat, FS_RemoveElement
    <3> QED
      BY <2>3, <2>4, <3>1, <3>2
  <2> QED
    BY <2>5, <2>6
<1>3. Q = SUBSET S
  <2>1. Q \in SUBSET SUBSET S
    OBVIOUS
  <2> HIDE DEF Q
  <2>2. \A s \in SUBSET S : s # {} /\ (\A x \in s : s \ {x} \in Q) => s \in Q
    BY <1>2
  <2> QED
    BY <1>1, <2>1, <2>2, Subsets
<1>4. S \cap T = T
  OBVIOUS
<1> QED
  BY <1>3, <1>4

-----------------------------------------------------------------------------
(* The types. *)

Tunnels == [user : Users, state : States, bytes : 0 .. MaxBytes]
Samples == {NoSample} \cup 0 .. MaxBytes

\* Every key has an SA of some user, or none.
SaTypes == sas \in [Sas -> Tunnels \cup {NoSa}]

Types == SaTypes /\ TypeOK

\* No SA is not an SA.
LEMMA NoSaIsNone == NoSa \notin Tunnels
BY NamesAssumption, BoundsAssumption DEF Tunnels

\* The fields of the SA that a key has.
LEMMA SaFields ==
  ASSUME Types, NEW s \in Sas, sas[s] # NoSa
  PROVE  /\ sas[s] \in Tunnels
         /\ sas[s].user \in Users /\ sas[s].state \in States
         /\ sas[s].bytes \in 0 .. MaxBytes /\ sas[s].bytes \in Nat
BY BoundsAssumption DEF Types, SaTypes, Tunnels

\* The SAs are well formed to begin with, and after every step.
LEMMA SaTypesStep ==
  ASSUME Types, [Next]_vars
  PROVE  SaTypes'
<1> USE BoundsAssumption
<1>1. \A u \in Users : Sa(u, "ESTABLISHED", 0) \in Tunnels
  BY DEF Sa, Tunnels, States
<1>2. ASSUME NEW s \in Sas, sas[s] # NoSa
      PROVE  /\ \A x \in States : [sas[s] EXCEPT !.state = x] \in Tunnels
             /\ \A n \in 0 .. MaxBytes : [sas[s] EXCEPT !.bytes = n] \in Tunnels
  BY <1>2, SaFields DEF Tunnels
<1>3. CASE UNCHANGED vars
  BY <1>3 DEF vars, charon, Types, SaTypes
<1>4. ASSUME NEW s \in Sas, NEW u \in Users, Connect(s, u) PROVE SaTypes'
  BY <1>1, <1>4 DEF Connect, Types, SaTypes
<1>5. ASSUME NEW s \in Sas, Carry(s) PROVE SaTypes'
  <2>1. sas[s] # NoSa /\ sas[s].bytes + 1 \in 0 .. MaxBytes
    BY <1>5, SaFields DEF Carry
  <2>2. sas' = [sas EXCEPT ![s] = [sas[s] EXCEPT !.bytes = sas[s].bytes + 1]]
    BY <1>5 DEF Carry
  <2> QED
    BY <1>2, <2>1, <2>2 DEF Types, SaTypes
<1>6. ASSUME NEW s \in Sas, Rekey(s) PROVE SaTypes'
  <2>1. sas' = [sas EXCEPT ![s] = [sas[s] EXCEPT !.state = "REKEYING"]] /\ sas[s] # NoSa
    BY <1>6 DEF Rekey
  <2> QED
    BY <1>2, <2>1 DEF Types, SaTypes, States
<1>7. ASSUME NEW s \in Sas, NEW t \in Sas, Rekeyed(s, t) PROVE SaTypes'
  <2>1. /\ sas[s] # NoSa
        /\ sas' = [sas EXCEPT ![s] = [sas[s] EXCEPT !.state = "REKEYED"],
                              ![t] = Sa(sas[s].user, "ESTABLISHED", 0)]
    BY <1>7 DEF Rekeyed
  <2>2. [sas[s] EXCEPT !.state = "REKEYED"] \in Tunnels
    BY <1>2, <2>1 DEF States
  <2>3. Sa(sas[s].user, "ESTABLISHED", 0) \in Tunnels
    BY <1>1, <2>1, SaFields
  <2> QED
    BY <2>1, <2>2, <2>3 DEF Types, SaTypes
<1>8. ASSUME NEW s \in Sas, RekeyChild(s) PROVE SaTypes'
  <2>1. sas' = [sas EXCEPT ![s] = [sas[s] EXCEPT !.bytes = 0]] /\ sas[s] # NoSa
    BY <1>8 DEF RekeyChild, Counted
  <2> QED
    BY <1>2, <2>1 DEF Types, SaTypes
<1>9. ASSUME NEW s \in Sas, Close(s) PROVE SaTypes'
  <2>1. sas[s] # NoSa /\ \/ sas' = [sas EXCEPT ![s] = [sas[s] EXCEPT !.state = "DELETING"]]
                         \/ sas' = [sas EXCEPT ![s] = NoSa]
    BY <1>9 DEF Close
  <2> QED
    BY <1>2, <2>1 DEF Types, SaTypes, States
<1>10. CASE Restart
  BY <1>10 DEF Restart, SaTypes
<1>11. ASSUME UNCHANGED sas PROVE SaTypes'
  BY <1>11 DEF Types, SaTypes
<1> QED
  BY <1>3, <1>4, <1>5, <1>6, <1>7, <1>8, <1>9, <1>10, <1>11
     DEF Next, charon, DeleteUser, CreateUser, IncrementUserBytes, IncrementFails, Collect,
         CollectFails, RestartPanel

-----------------------------------------------------------------------------
(* What the collector has yet to see. *)

\* The part of the key s in what is yet to be seen of the user u.
Part(u, s) == IF Counted(s) /\ sas[s].user = u THEN Unseen(s) ELSE 0
\* It, for every key.
Parts(u) == [s \in Sas |-> Part(u, s)]

\* Ahead adds up the parts of all keys.
LEMMA AheadIsSum ==
  ASSUME Types, NEW u \in Users
  PROVE  /\ \A s \in Sas : Part(u, s) \in Nat
         /\ Ahead(u) = SumFunctionOnSet(Parts(u), Sas)
         /\ Ahead(u) \in Nat
<1> DEFINE own == {s \in Sas : Counted(s) /\ sas[s].user = u}
           seen == [s \in own |-> Unseen(s)]
<1>1. ASSUME NEW s \in Sas, Counted(s) PROVE Unseen(s) \in Nat
  <2>1. sas[s].bytes \in Nat
    BY <1>1, SaFields DEF Counted
  <2>2. prev[s] = NoSample \/ prev[s] \in Nat
    BY BoundsAssumption DEF Types, TypeOK
  <2> QED
    BY <2>1, <2>2 DEF Unseen
<1>2. \A s \in Sas : Part(u, s) \in Nat
  BY <1>1 DEF Part
<1>3. own \in SUBSET Sas
  OBVIOUS
<1>4. \A s \in own : seen[s] \in Nat /\ Parts(u)[s] = seen[s]
  BY <1>1 DEF Parts, Part
<1>5. \A s \in Sas \ own : Parts(u)[s] = 0
  BY DEF Parts, Part
<1>6. Ahead(u) = SumFunctionOnSet(seen, own)
  BY DEF Ahead
<1>7. \A s \in Sas : Parts(u)[s] \in Nat
  BY <1>2 DEF Parts
<1> HIDE DEF own, seen
<1>8. IsFiniteSet(Sas)
  BY NamesAssumption
<1>9. SumFunctionOnSet(seen, own) = SumFunctionOnSet(Parts(u), Sas)
  BY <1>3, <1>4, <1>5, <1>8, SumPart
<1>10. SumFunctionOnSet(Parts(u), Sas) \in Nat
  BY <1>7, <1>8, SumNat
<1> QED
  BY <1>2, <1>6, <1>9, <1>10

\* The same of every state.
LEMMA AheadSums ==
  Types => \A u \in Users : /\ \A s \in Sas : Part(u, s) \in Nat
                            /\ Ahead(u) = SumFunctionOnSet(Parts(u), Sas)
                            /\ Ahead(u) \in Nat
BY AheadIsSum

\* And hence of the state after a step.
LEMMA AheadSumsNext ==
  Types' => (\A u \in Users : /\ \A s \in Sas : Part(u, s) \in Nat
                              /\ Ahead(u) = SumFunctionOnSet(Parts(u), Sas)
                              /\ Ahead(u) \in Nat)'
BY AheadSums, PTL

\* A step that changes what is yet to be seen of one key changes Ahead by it.
LEMMA AheadMoves ==
  ASSUME Types, Types', NEW u \in Users, NEW s \in Sas,
         \A k \in Sas \ {s} : Part(u, k)' = Part(u, k)
  PROVE  Ahead(u)' + Part(u, s) = Ahead(u) + Part(u, s)'
<1> DEFINE f == Parts(u)'
           g == Parts(u)
<1>1. /\ Ahead(u)' = SumFunctionOnSet(f, Sas) /\ Ahead(u) = SumFunctionOnSet(g, Sas)
      /\ \A k \in Sas : Part(u, k)' \in Nat /\ Part(u, k) \in Nat
  BY AheadSums, AheadSumsNext
<1>2. \A k \in Sas : f[k] = Part(u, k)' /\ g[k] = Part(u, k)
  BY DEF Parts
<1> HIDE DEF f, g
<1>3. \A k \in Sas : f[k] \in Nat /\ g[k] \in Nat
  BY <1>1, <1>2
<1>4. \A k \in Sas \ {s} : f[k] = g[k]
  BY <1>2
<1>5. SumFunctionOnSet(f, Sas) + g[s] = SumFunctionOnSet(g, Sas) + f[s]
  BY <1>3, <1>4, NamesAssumption, SumChange
<1> QED
  BY <1>1, <1>2, <1>5

\* A step that changes nothing of it leaves Ahead alone.
LEMMA AheadStays ==
  ASSUME Types, Types', NEW u \in Users, \A k \in Sas : Part(u, k)' = Part(u, k)
  PROVE  Ahead(u)' = Ahead(u)
<1> DEFINE f == Parts(u)'
           g == Parts(u)
<1>1. /\ Ahead(u)' = SumFunctionOnSet(f, Sas) /\ Ahead(u) = SumFunctionOnSet(g, Sas)
  BY AheadSums, AheadSumsNext
<1>2. f = g
  BY DEF Parts
<1> QED
  BY <1>1, <1>2

\* Where nothing is yet to be seen, Ahead is 0.
LEMMA AheadGone ==
  ASSUME Types', NEW u \in Users, \A k \in Sas : Part(u, k)' = 0
  PROVE  Ahead(u)' = 0
<1> DEFINE f == Parts(u)'
<1>1. Ahead(u)' = SumFunctionOnSet(f, Sas)
  BY AheadSumsNext
<1>2. \A k \in Sas : f[k] = 0
  BY DEF Parts
<1> HIDE DEF f
<1> QED
  BY <1>1, <1>2, NamesAssumption, SumZero

\* What a sample gathers for a user is what was yet to be seen.
LEMMA GatheredIsAhead ==
  ASSUME Types, NEW u \in Users
  PROVE  Gathered(sas)[u] = Ahead(u)
<1> DEFINE own == {s \in Sampled(sas) : sas[s].user = u}
           f == [s \in Sampled(sas) |-> Delta(prev[s], sas[s].bytes)]
<1>1. Sampled(sas) = {s \in Sas : Counted(s)}
  BY DEF Sampled, Counted, ActiveStates
<1>2. \A s \in own : s \in Sas /\ f[s] = Parts(u)[s] /\ f[s] \in Nat
  BY <1>1, AheadSums DEF Parts, Part, Delta, Unseen
<1>3. \A s \in Sas \ own : Parts(u)[s] = 0
  BY <1>1 DEF Parts, Part
<1>4. Gathered(sas)[u] = SumFunctionOnSet(f, own)
  BY DEF Gathered
<1> HIDE DEF own, f
<1>5. own \in SUBSET Sas
  BY <1>2
<1>6. SumFunctionOnSet(f, own) = SumFunctionOnSet(Parts(u), Sas)
  BY <1>2, <1>3, <1>5, NamesAssumption, SumPart
<1> QED
  BY <1>4, <1>6, AheadSums

\* What the key s adds to the bytes that count again for u.
Repeat(u, s) == IF Counted(s) /\ sas[s].user = u THEN sas[s].bytes - Unseen(s) ELSE 0

\* Again adds it up, and no part of it is negative.
LEMMA AgainIsSum ==
  ASSUME Types, NEW u \in Users
  PROVE  /\ \A s \in Sas : Repeat(u, s) \in Nat
         /\ Again(u) = SumFunctionOnSet([s \in Sas |-> Repeat(u, s)], Sas)
         /\ Again(u) \in Nat
<1> DEFINE own == {s \in Sas : Counted(s) /\ sas[s].user = u}
           f == [s \in own |-> sas[s].bytes - Unseen(s)]
           g == [s \in Sas |-> Repeat(u, s)]
<1>1. ASSUME NEW s \in Sas, Counted(s) PROVE sas[s].bytes - Unseen(s) \in Nat
  <2>1. sas[s].bytes \in Nat
    BY <1>1, SaFields DEF Counted
  <2>2. prev[s] = NoSample \/ prev[s] \in Nat
    BY BoundsAssumption DEF Types, TypeOK
  <2> QED
    BY <2>1, <2>2 DEF Unseen
<1>2. \A s \in Sas : Repeat(u, s) \in Nat
  BY <1>1 DEF Repeat
<1>3. own \in SUBSET Sas
  OBVIOUS
<1>4. \A s \in own : f[s] \in Nat /\ g[s] = f[s]
  BY <1>1 DEF Repeat
<1>5. \A s \in Sas \ own : g[s] = 0
  BY DEF Repeat
<1>6. \A s \in Sas : g[s] \in Nat
  BY <1>2
<1>7. Again(u) = SumFunctionOnSet(f, own)
  BY DEF Again
<1>8. IsFiniteSet(Sas)
  BY NamesAssumption
<1> HIDE DEF own, f, g
<1>9. SumFunctionOnSet(f, own) = SumFunctionOnSet(g, Sas)
  BY <1>3, <1>4, <1>5, <1>8, SumPart
<1>10. SumFunctionOnSet(g, Sas) \in Nat
  BY <1>6, <1>8, SumNat
<1> QED
  BY <1>2, <1>7, <1>9, <1>10 DEF g

-----------------------------------------------------------------------------
(* The invariant. *)

\* Until it is noticed that the SA of a sampled key ended or started anew, the
\* key is still counted and its counter has not gone down.
NoticeInv ==
    \A s \in Sas : prev[s] # NoSample /\ s \notin unnoticed =>
        Counted(s) /\ sas[s].bytes >= prev[s]

TrafficInv == Types /\ NoticeInv /\ NoTrafficInvented /\ EveryByteIsCounted

\* The bytes of one user are accounted for.
Accounted(u) ==
    /\ total[u] + pending[u] + Ahead(u) <= owed[u]
    /\ calm[u] => total[u] + pending[u] + Ahead(u) = owed[u]

\* The invariant holds at the start.
LEMMA InitTrafficInv == Init => TrafficInv
<1> SUFFICES ASSUME Init PROVE TrafficInv
  OBVIOUS
<1>1. Types
  BY BoundsAssumption DEF Init, Types, SaTypes, TypeOK, Zero
<1>2. NoticeInv
  BY DEF Init, NoticeInv
<1>3. ASSUME NEW u \in Users PROVE total[u] + pending[u] + Ahead(u) = owed[u]
  <2>1. \A s \in Sas : Part(u, s) = 0
    BY DEF Init, Part, Counted
  <2> DEFINE g == Parts(u)
  <2>2. \A s \in Sas : g[s] = 0
    BY <2>1 DEF Parts
  <2>3. Ahead(u) = SumFunctionOnSet(g, Sas)
    BY <1>1, AheadSums
  <2> HIDE DEF g
  <2>4. Ahead(u) = 0
    BY <2>2, <2>3, NamesAssumption, SumZero
  <2> QED
    BY <2>4 DEF Init, Zero
<1>4. \A u \in Users : /\ total[u] \in Nat /\ pending[u] \in Nat /\ owed[u] \in Nat
                       /\ Ahead(u) \in Nat
  BY <1>1, AheadSums DEF Types, TypeOK
<1> QED
  BY <1>1, <1>2, <1>3, <1>4 DEF TrafficInv, NoTrafficInvented, EveryByteIsCounted

\* A step leaves the types alone.
LEMMA TypesStep ==
  ASSUME Types, [Next]_vars
  PROVE  Types'
<1> USE BoundsAssumption DEF Owe, Lost
<1> DEFINE Others == /\ rows \subseteq Users /\ unnoticed \subseteq Sas
                     /\ total \in [Users -> Nat] /\ pending \in [Users -> Nat]
                     /\ owed \in [Users -> Nat]
                     /\ prev \in [Sas -> Samples] /\ calm \in [Users -> BOOLEAN]
<1>1. SaTypes'
  BY SaTypesStep
<1>2. (\A s \in Sas : sas[s] # NoSa =>
          sas[s] \in [user : Users, state : States, bytes : 0 .. MaxBytes])'
  BY <1>1 DEF SaTypes, Tunnels
<1>3. Others
  BY DEF Types, TypeOK, Samples
<1>4. \A u \in Users : Ahead(u) \in Nat /\ Again(u) \in Nat
  BY AheadSums, AgainIsSum
<1>5. \A s \in Sas : sas[s] # NoSa => sas[s].user \in Users /\ sas[s].bytes \in 0 .. MaxBytes
  BY SaFields
<1>6. ASSUME UNCHANGED vars PROVE Others'
  BY <1>3, <1>6 DEF vars, table, collector, history
<1>7. ASSUME NEW s \in Sas, NEW u \in Users, Connect(s, u) PROVE Others'
  BY <1>3, <1>7 DEF Connect, table, collector, history
<1>8. ASSUME NEW s \in Sas, Carry(s) PROVE Others'
  <2>1. sas[s].user \in Users
    BY <1>5, <1>8 DEF Carry
  <2>2. owed' \in [Users -> Nat] /\ calm' \in [Users -> BOOLEAN]
    BY <1>3, <1>8, <2>1 DEF Carry
  <2> QED
    BY <1>3, <1>8, <2>2 DEF Carry, table, collector
<1>9. ASSUME NEW s \in Sas, Rekey(s) PROVE Others'
  BY <1>3, <1>9 DEF Rekey, table, collector, history
<1>10. ASSUME NEW s \in Sas, NEW t \in Sas, Rekeyed(s, t) PROVE Others'
  BY <1>3, <1>10 DEF Rekeyed, table, collector
<1>11. ASSUME NEW s \in Sas, RekeyChild(s) PROVE Others'
  BY <1>3, <1>11 DEF RekeyChild, table, collector
<1>12. ASSUME NEW s \in Sas, Close(s) PROVE Others'
  BY <1>3, <1>12 DEF Close, table, collector
<1>13. ASSUME NEW u \in Users, DeleteUser(u) PROVE Others'
  BY <1>3, <1>4, <1>13 DEF DeleteUser, collector
<1>14. ASSUME NEW u \in Users, CreateUser(u) PROVE Others'
  BY <1>3, <1>14 DEF CreateUser, collector, history
<1>15. ASSUME NEW u \in Users, IncrementUserBytes(u) PROVE Others'
  BY <1>3, <1>15 DEF IncrementUserBytes
<1>16. ASSUME NEW u \in Users, IncrementFails(u) PROVE Others'
  BY <1>3, <1>16 DEF IncrementFails, table
<1>17. ASSUME Collect PROVE Others'
  <2>1. pending' \in [Users -> Nat]
    <3>1. \A u \in Users : Gathered(sas)[u] \in Nat
      BY <1>4, GatheredIsAhead
    <3>2. pending' = Gathered(sas)
      BY <1>17 DEF Collect
    <3> QED
      BY <3>1, <3>2 DEF Gathered
  <2>2. prev' \in [Sas -> Samples]
    <3>1. \A s \in Sampled(sas) : sas[s].bytes \in Samples
      BY <1>5 DEF Sampled, Samples
    <3> QED
      BY <1>17, <3>1 DEF Collect, Tracked, Samples
  <2> QED
    BY <1>3, <1>17, <2>1, <2>2 DEF Collect, table
<1>18. ASSUME CollectFails PROVE Others'
  BY <1>3, <1>18 DEF CollectFails, table, collector, history
<1>19. ASSUME Restart PROVE Others'
  BY <1>3, <1>19 DEF Restart, table, Zero, Samples
<1>20. ASSUME RestartPanel PROVE Others'
  BY <1>3, <1>4, <1>20 DEF RestartPanel, table, Zero, Samples
<1>21. Others'
  BY <1>6, <1>7, <1>8, <1>9, <1>10, <1>11, <1>12, <1>13, <1>14, <1>15, <1>16, <1>17, <1>18,
     <1>19, <1>20 DEF Next
<1> QED
  BY <1>1, <1>2, <1>21 DEF Types, TypeOK, Samples

\* A key whose SA and sample stay keeps its part.
LEMMA PartStays ==
  ASSUME NEW u, NEW k, sas'[k] = sas[k], prev'[k] = prev[k]
  PROVE  Part(u, k)' = Part(u, k) /\ Counted(k)' = Counted(k)
BY DEF Part, Counted, Unseen

\* An SA that has just begun to count has nothing to be seen.
LEMMA PartOfNew ==
  ASSUME Types', NEW u \in Users, NEW s \in Sas, sas'[s] # NoSa => sas'[s].bytes = 0
  PROVE  Part(u, s)' = 0
<1>1. prev'[s] = NoSample \/ prev'[s] \in Nat
  BY BoundsAssumption DEF Types, TypeOK
<1> QED
  BY <1>1 DEF Part, Counted, Unseen

\* A step after which nothing of s is yet to be seen, and that says so when
\* there was something.
LEMMA KeyLost ==
  ASSUME TrafficInv, Types', NEW u \in Users, NEW s \in Sas,
         \A k \in Sas \ {s} : Part(u, k)' = Part(u, k), Part(u, s)' = 0,
         UNCHANGED <<table, pending, owed>>,
         calm'[u] => calm[u] /\ Part(u, s) = 0
  PROVE  Accounted(u)'
<1>1. Types
  BY DEF TrafficInv
<1>2. Ahead(u)' + Part(u, s) = Ahead(u) + 0
  BY <1>1, AheadMoves
<1>3. Part(u, s) \in Nat /\ Ahead(u) \in Nat /\ Ahead(u)' \in Nat
  BY <1>1, AheadSums, AheadSumsNext
<1>4. total[u] \in Nat /\ pending[u] \in Nat /\ owed[u] \in Nat
  BY <1>1 DEF Types, TypeOK
<1>5. Accounted(u)
  BY DEF TrafficInv, NoTrafficInvented, EveryByteIsCounted, Accounted
<1>6. total' = total /\ pending' = pending /\ owed' = owed
  BY DEF table
<1> QED
  BY <1>2, <1>3, <1>4, <1>5, <1>6 DEF Accounted

\* A step that leaves the part of every key, and the numbers of u.
LEMMA KeysStay ==
  ASSUME TrafficInv, Types', NEW u \in Users, \A k \in Sas : Part(u, k)' = Part(u, k),
         total'[u] = total[u], pending'[u] = pending[u], owed'[u] = owed[u],
         calm'[u] => calm[u]
  PROVE  Accounted(u)'
<1>1. Types
  BY DEF TrafficInv
<1>2. Ahead(u)' = Ahead(u)
  BY <1>1, AheadStays
<1>3. Accounted(u)
  BY DEF TrafficInv, NoTrafficInvented, EveryByteIsCounted, Accounted
<1> QED
  BY <1>2, <1>3 DEF Accounted

\* A step that counts its loss on s leaves nobody calm who had something to be
\* seen there.
LEMMA LossIsKnown ==
  ASSUME Types, NEW u \in Users, NEW s \in Sas, sas[s] # NoSa, NEW lost \in BOOLEAN,
         Counted(s) /\ Unseen(s) > 0 => lost,
         calm' = [calm EXCEPT ![sas[s].user] = calm[sas[s].user] /\ ~lost]
  PROVE  calm'[u] => calm[u] /\ Part(u, s) = 0
<1>1. calm \in [Users -> BOOLEAN] /\ sas[s].user \in Users
  BY SaFields DEF Types, TypeOK
<1>2. Part(u, s) \in Nat
  BY AheadSums
<1>3. CASE sas[s].user = u
  <2>1. calm'[u] => calm[u] /\ ~lost
    BY <1>1, <1>3
  <2>2. Part(u, s) # 0 => Counted(s) /\ Unseen(s) > 0
    BY <1>2 DEF Part
  <2> QED
    BY <2>1, <2>2
<1>4. CASE sas[s].user # u
  <2>1. calm'[u] = calm[u]
    BY <1>1, <1>4
  <2>2. Part(u, s) = 0
    BY <1>4 DEF Part
  <2> QED
    BY <2>1, <2>2
<1> QED
  BY <1>3, <1>4

\* The steps of charon keep the bytes of every user accounted for.
LEMMA CharonAccounts ==
  ASSUME TrafficInv, Types', NEW u \in Users, NEW s \in Sas,
         \/ \E v \in Users : Connect(s, v)
         \/ Carry(s) \/ Rekey(s) \/ RekeyChild(s) \/ Close(s)
         \/ \E t \in Sas : Rekeyed(s, t)
  PROVE  Accounted(u)'
<1>0. Types /\ sas \in [Sas -> Tunnels \cup {NoSa}] /\ calm \in [Users -> BOOLEAN]
  BY DEF TrafficInv, Types, SaTypes, TypeOK
<1>1. prev[s] = NoSample \/ prev[s] \in Nat
  BY <1>0, BoundsAssumption DEF Types, TypeOK
<1>2. sas[s] # NoSa => /\ sas[s] \in Tunnels /\ sas[s].user \in Users /\ sas[s].bytes \in Nat
                       /\ sas[s].bytes + 1 # sas[s].bytes
  BY <1>0, SaFields
<1>3. \A t \in Sas : sas[t] = NoSa => Part(u, t) = 0
  BY DEF Part, Counted
<1>4. ASSUME NEW v \in Users, Connect(s, v) PROVE Accounted(u)'
  <2>1. sas' = [sas EXCEPT ![s] = Sa(v, "ESTABLISHED", 0)] /\ UNCHANGED <<prev, total, pending, owed, calm>>
    BY <1>4 DEF Connect, table, collector, history
  <2>2. \A k \in Sas \ {s} : Part(u, k)' = Part(u, k)
    BY <2>1, PartStays
  <2>3. Part(u, s)' = 0
    BY <1>0, <2>1, PartOfNew DEF Sa
  <2>4. Part(u, s) = 0
    BY <1>3, <1>4 DEF Connect
  <2> QED
    BY <2>1, <2>2, <2>3, <2>4, KeysStay
<1>5. ASSUME Rekey(s) PROVE Accounted(u)'
  <2>1. /\ sas[s] # NoSa /\ sas[s].state = "ESTABLISHED"
        /\ sas' = [sas EXCEPT ![s] = [sas[s] EXCEPT !.state = "REKEYING"]]
        /\ UNCHANGED <<prev, total, pending, owed, calm>>
    BY <1>5 DEF Rekey, table, collector, history
  <2>2. \A k \in Sas \ {s} : Part(u, k)' = Part(u, k)
    BY <2>1, PartStays
  <2>3. /\ sas'[s] \in Tunnels /\ sas'[s].state = "REKEYING" /\ sas'[s].user = sas[s].user
        /\ sas'[s].bytes = sas[s].bytes
    BY <1>0, <1>2, <2>1 DEF Tunnels, States
  <2>4. Part(u, s)' = Part(u, s)
    BY <2>1, <2>3, NoSaIsNone DEF Part, Counted, Unseen
  <2> QED
    BY <2>1, <2>2, <2>4, KeysStay
<1>6. ASSUME RekeyChild(s) PROVE Accounted(u)'
  <2>1. /\ sas[s] # NoSa /\ sas' = [sas EXCEPT ![s] = [sas[s] EXCEPT !.bytes = 0]]
        /\ UNCHANGED <<prev, table, pending, owed>>
        /\ calm' = [calm EXCEPT ![sas[s].user] = calm[sas[s].user] /\ ~(Unseen(s) > 0)]
    BY <1>6 DEF RekeyChild, Counted, collector, Lost
  <2>2. \A k \in Sas \ {s} : Part(u, k)' = Part(u, k)
    BY <2>1, PartStays
  <2>3. sas'[s].bytes = 0
    BY <1>0, <1>2, <2>1 DEF Tunnels
  <2>4. Part(u, s)' = 0
    BY <2>3, PartOfNew
  <2>6. calm'[u] => calm[u] /\ Part(u, s) = 0
    BY <1>0, <2>1, LossIsKnown
  <2> QED
    BY <2>1, <2>2, <2>4, <2>6, KeyLost
<1>7. ASSUME Close(s) PROVE Accounted(u)'
  <2>1. /\ sas[s] # NoSa
        /\ \/ sas' = [sas EXCEPT ![s] = [sas[s] EXCEPT !.state = "DELETING"]]
           \/ sas' = [sas EXCEPT ![s] = NoSa]
        /\ UNCHANGED <<prev, table, pending, owed>>
        /\ calm' = [calm EXCEPT ![sas[s].user] =
                        calm[sas[s].user] /\ ~(Counted(s) /\ Unseen(s) > 0)]
    BY <1>7 DEF Close, collector, Lost
  <2>2. \A k \in Sas \ {s} : Part(u, k)' = Part(u, k)
    <3>1. \A k \in Sas \ {s} : sas'[k] = sas[k] /\ prev'[k] = prev[k]
      BY <1>0, <2>1
    <3> QED
      BY <3>1, PartStays
  <2>3. sas'[s] = NoSa \/ sas'[s].state = "DELETING"
    BY <1>0, <1>2, <2>1 DEF Tunnels
  <2>4. Part(u, s)' = 0
    BY <2>3 DEF Part, Counted
  <2>6. calm'[u] => calm[u] /\ Part(u, s) = 0
    BY <1>0, <2>1, LossIsKnown
  <2> QED
    BY <2>1, <2>2, <2>4, <2>6, KeyLost
<1>8. ASSUME NEW t \in Sas, Rekeyed(s, t) PROVE Accounted(u)'
  <2>1. /\ sas[s] # NoSa /\ sas[t] = NoSa
        /\ sas' = [sas EXCEPT ![s] = [sas[s] EXCEPT !.state = "REKEYED"],
                              ![t] = Sa(sas[s].user, "ESTABLISHED", 0)]
        /\ UNCHANGED <<prev, table, pending, owed>>
        /\ calm' = [calm EXCEPT ![sas[s].user] = calm[sas[s].user] /\ ~(Unseen(s) > 0)]
    BY <1>8 DEF Rekeyed, collector, Lost
  <2>2. sas'[s].state = "REKEYED" /\ sas'[t].bytes = 0
    BY <1>0, <1>2, <2>1 DEF Tunnels, Sa
  <2>3. \A k \in Sas \ {s, t} : Part(u, k)' = Part(u, k)
    <3>1. \A k \in Sas \ {s, t} : sas'[k] = sas[k] /\ prev'[k] = prev[k]
      BY <1>0, <2>1
    <3> QED
      BY <3>1, PartStays
  <2>4. Part(u, t)' = 0 /\ Part(u, t) = 0
    BY <1>3, <2>1, <2>2, PartOfNew
  <2>5. \A k \in Sas \ {s} : Part(u, k)' = Part(u, k)
    BY <2>3, <2>4
  <2>6. Part(u, s)' = 0
    BY <2>2 DEF Part, Counted
  <2>8. calm'[u] => calm[u] /\ Part(u, s) = 0
    BY <1>0, <2>1, LossIsKnown
  <2> QED
    BY <2>1, <2>5, <2>6, <2>8, KeyLost
<1>9. ASSUME Carry(s) PROVE Accounted(u)'
  <2> DEFINE lost == \/ ~Counted(s)
                     \/ s \in unnoticed /\ prev[s] # NoSample /\ sas[s].bytes + 1 >= prev[s]
  <2>1. /\ sas[s] # NoSa
        /\ sas' = [sas EXCEPT ![s] = [sas[s] EXCEPT !.bytes = sas[s].bytes + 1]]
        /\ UNCHANGED <<prev, total, pending>>
        /\ owed' = [owed EXCEPT ![sas[s].user] = owed[sas[s].user] + 1]
        /\ calm' = [calm EXCEPT ![sas[s].user] = calm[sas[s].user] /\ ~lost]
    BY <1>9 DEF Carry, table, collector, Lost, Owe
  <2>2. \A k \in Sas \ {s} : Part(u, k)' = Part(u, k)
    BY <2>1, PartStays
  <2>3. /\ sas'[s].bytes = sas[s].bytes + 1 /\ sas'[s].state = sas[s].state
        /\ sas'[s].user = sas[s].user /\ sas'[s] # NoSa
    <3>1. sas'[s] = [sas[s] EXCEPT !.bytes = sas[s].bytes + 1]
      BY <1>0, <2>1
    <3>2. /\ sas'[s].bytes = sas[s].bytes + 1 /\ sas'[s].state = sas[s].state
          /\ sas'[s].user = sas[s].user
      BY <1>2, <2>1, <3>1 DEF Tunnels
    <3>3. sas'[s] \in Tunnels
      <4>1. sas[s].bytes + 1 \in 0 .. MaxBytes
        BY <1>2, <1>9, BoundsAssumption DEF Carry, Tunnels
      <4> QED
        BY <1>2, <2>1, <3>1, <4>1 DEF Tunnels
    <3> QED
      BY <3>2, <3>3, NoSaIsNone
  <2>4. Counted(s)' = Counted(s)
    BY <2>1, <2>3 DEF Counted
  <2>5. CASE sas[s].user # u
    <3>1. Part(u, s)' = Part(u, s)
      BY <2>3, <2>5 DEF Part
    <3>2. owed'[u] = owed[u] /\ (calm'[u] => calm[u])
      BY <1>0, <2>1, <2>5 DEF Types, TypeOK
    <3> QED
      BY <2>1, <2>2, <3>1, <3>2, KeysStay
  <2>6. CASE sas[s].user = u
    <3>1. owed'[u] = owed[u] + 1 /\ (calm'[u] => calm[u] /\ ~lost)
      BY <1>0, <2>1, <2>6 DEF Types, TypeOK
    <3>2. /\ Part(u, s) = IF Counted(s) THEN Unseen(s) ELSE 0
          /\ Part(u, s)' = IF Counted(s) THEN Unseen(s)' ELSE 0
      BY <2>3, <2>4, <2>6 DEF Part
    <3>3. Unseen(s)' = IF prev[s] = NoSample \/ sas[s].bytes + 1 < prev[s]
                       THEN sas[s].bytes + 1 ELSE sas[s].bytes + 1 - prev[s]
      <4>1. prev' = prev
        BY <2>1
      <4>2. sas'[s].bytes = sas[s].bytes + 1
        BY <2>3
      <4>3. Unseen(s)' = IF prev'[s] = NoSample \/ sas'[s].bytes < prev'[s]
                         THEN sas'[s].bytes ELSE sas'[s].bytes - prev'[s]
        BY DEF Unseen
      <4>4. prev'[s] = prev[s] /\ sas[s].bytes \in Nat
        BY <1>2, <2>1, <4>1
      <4> QED
        BY <1>1, <4>2, <4>3, <4>4
    <3>4. NoticeInv
      BY DEF TrafficInv
    <3>5. Part(u, s)' <= Part(u, s) + 1
      BY <1>1, <1>2, <2>1, <3>2, <3>3 DEF Unseen
    <3>6. ~lost => Part(u, s)' = Part(u, s) + 1
      BY <1>1, <1>2, <2>1, <3>2, <3>3, <3>4 DEF Unseen, NoticeInv
    <3> HIDE DEF lost
    <3>7. Ahead(u)' + Part(u, s) = Ahead(u) + Part(u, s)'
      BY <1>0, <2>2, AheadMoves
    <3>8. /\ Part(u, s) \in Nat /\ Ahead(u) \in Nat
          /\ Part(u, s)' \in Nat /\ Ahead(u)' \in Nat
      BY <1>0, AheadSums, AheadSumsNext
    <3>9. total[u] \in Nat /\ pending[u] \in Nat /\ owed[u] \in Nat
      BY <1>0 DEF Types, TypeOK
    <3>10. Accounted(u)
      BY DEF TrafficInv, NoTrafficInvented, EveryByteIsCounted, Accounted
    <3>11. total' = total /\ pending' = pending
      BY <2>1
    <3>12. total'[u] + pending'[u] + Ahead(u)' <= owed'[u]
      BY <3>1, <3>5, <3>7, <3>8, <3>9, <3>10, <3>11 DEF Accounted
    <3>13. calm'[u] => total'[u] + pending'[u] + Ahead(u)' = owed'[u]
      BY <3>1, <3>6, <3>7, <3>8, <3>9, <3>10, <3>11 DEF Accounted
    <3> QED
      BY <3>12, <3>13 DEF Accounted
  <2> QED
    BY <2>5, <2>6
<1> QED
  BY <1>4, <1>5, <1>6, <1>7, <1>8, <1>9

\* So do the handlers, the collector and the restarts.
LEMMA CollectorAccounts ==
  ASSUME TrafficInv, Types', NEW u \in Users,
         \/ \E v \in Users : \/ DeleteUser(v) \/ CreateUser(v)
                             \/ IncrementUserBytes(v) \/ IncrementFails(v)
         \/ Collect \/ CollectFails \/ Restart \/ RestartPanel
  PROVE  Accounted(u)'
<1>1. Types
  BY DEF TrafficInv
<1>2. /\ total \in [Users -> Nat] /\ pending \in [Users -> Nat] /\ owed \in [Users -> Nat]
      /\ calm \in [Users -> BOOLEAN]
  BY <1>1 DEF Types, TypeOK
<1>3. total[u] \in Nat /\ pending[u] \in Nat /\ owed[u] \in Nat
  BY <1>2
<1>4. Ahead(u) \in Nat /\ Ahead(u)' \in Nat /\ Again(u) \in Nat
  BY <1>1, AheadSums, AheadSumsNext, AgainIsSum
<1>5. Accounted(u)
  BY DEF TrafficInv, NoTrafficInvented, EveryByteIsCounted, Accounted
<1>6. ASSUME sas' = sas, prev' = prev
      PROVE  (\A k \in Sas : Part(u, k)' = Part(u, k)) /\ Ahead(u)' = Ahead(u)
  <2>1. \A k \in Sas : sas'[k] = sas[k] /\ prev'[k] = prev[k]
    BY <1>6
  <2>2. \A k \in Sas : Part(u, k)' = Part(u, k)
    BY <2>1, PartStays
  <2> QED
    BY <1>1, <2>2, AheadStays
<1>7. ASSUME NEW v \in Users, DeleteUser(v) PROVE Accounted(u)'
  <2>1. /\ total' = [total EXCEPT ![v] = 0] /\ owed' = [owed EXCEPT ![v] = pending[v] + Ahead(v)]
        /\ sas' = sas /\ prev' = prev /\ pending' = pending /\ calm' = calm
    BY <1>7 DEF DeleteUser, charon, collector
  <2>2. CASE u = v
    <3>1. total'[u] = 0 /\ owed'[u] = pending[u] + Ahead(u)
      BY <1>2, <2>1, <2>2
    <3> QED
      BY <1>3, <1>4, <1>6, <2>1, <3>1 DEF Accounted
  <2>3. CASE u # v
    <3>1. total'[u] = total[u] /\ owed'[u] = owed[u]
      BY <1>2, <2>1, <2>3
    <3> QED
      BY <1>5, <1>6, <2>1, <3>1 DEF Accounted
  <2> QED
    BY <2>2, <2>3
<1>8. ASSUME NEW v \in Users, CreateUser(v) PROVE Accounted(u)'
  <2>1. UNCHANGED <<sas, prev, total, pending, owed, calm>>
    BY <1>8 DEF CreateUser, charon, collector, history
  <2> QED
    BY <1>5, <1>6, <2>1 DEF Accounted
<1>9. ASSUME NEW v \in Users, IncrementUserBytes(v) PROVE Accounted(u)'
  <2>1. /\ sas' = sas /\ prev' = prev /\ owed' = owed
        /\ pending' = [pending EXCEPT ![v] = 0]
        /\ total' = IF v \in rows THEN [total EXCEPT ![v] = total[v] + pending[v]] ELSE total
        /\ calm' = [calm EXCEPT ![v] = calm[v] /\ ~(v \notin rows)]
    BY <1>9 DEF IncrementUserBytes, charon, Lost
  <2>2. CASE u = v
    <3>1. pending'[u] = 0 /\ calm'[u] = (calm[u] /\ u \in rows)
      BY <1>2, <2>1, <2>2
    <3>2. total'[u] = IF u \in rows THEN total[u] + pending[u] ELSE total[u]
      BY <1>2, <2>1, <2>2
    <3>3. Ahead(u)' = Ahead(u) /\ owed'[u] = owed[u]
      BY <1>6, <2>1
    <3>4. total'[u] + pending'[u] + Ahead(u)' <= owed'[u]
      BY <1>3, <1>4, <1>5, <3>1, <3>2, <3>3 DEF Accounted
    <3>5. calm'[u] => total'[u] + pending'[u] + Ahead(u)' = owed'[u]
      <4>1. calm'[u] => calm[u] /\ u \in rows
        BY <3>1
      <4>2. pending'[u] = 0
        BY <3>1
      <4> QED
        BY <1>3, <1>4, <1>5, <3>2, <3>3, <4>1, <4>2 DEF Accounted
    <3> QED
      BY <3>4, <3>5 DEF Accounted
  <2>3. CASE u # v
    <3>1. total'[u] = total[u] /\ pending'[u] = pending[u] /\ calm'[u] = calm[u]
      BY <1>2, <2>1, <2>3
    <3> QED
      BY <1>5, <1>6, <2>1, <3>1 DEF Accounted
  <2> QED
    BY <2>2, <2>3
<1>10. ASSUME NEW v \in Users, IncrementFails(v) PROVE Accounted(u)'
  <2>1. /\ sas' = sas /\ prev' = prev /\ owed' = owed /\ total' = total
        /\ pending' = [pending EXCEPT ![v] = 0]
        /\ calm' = [calm EXCEPT ![v] = calm[v] /\ ~TRUE]
    BY <1>10 DEF IncrementFails, charon, table, Lost
  <2>2. CASE u = v
    <3>1. pending'[u] = 0 /\ ~calm'[u]
      BY <1>2, <2>1, <2>2
    <3> QED
      BY <1>3, <1>4, <1>5, <1>6, <2>1, <3>1 DEF Accounted
  <2>3. CASE u # v
    <3>1. pending'[u] = pending[u] /\ calm'[u] = calm[u]
      BY <1>2, <2>1, <2>3
    <3> QED
      BY <1>5, <1>6, <2>1, <3>1 DEF Accounted
  <2> QED
    BY <2>2, <2>3
<1>11. ASSUME Collect PROVE Accounted(u)'
  <2>1. /\ pending = Zero /\ pending' = Gathered(sas) /\ prev' = Tracked(sas)
        /\ sas' = sas /\ total' = total /\ owed' = owed /\ calm' = calm
    BY <1>11 DEF Collect, charon, table
  <2>2. ASSUME NEW k \in Sas PROVE Part(u, k)' = 0
    <3>1. CASE Counted(k)
      <4>1. prev'[k] = sas[k].bytes /\ sas[k].bytes \in Nat
        BY <1>1, <2>1, <3>1, SaFields DEF Tracked, Sampled, Counted, ActiveStates
      <4>2. prev'[k] # NoSample
        BY <4>1, NamesAssumption
      <4>3. Unseen(k)' = 0
        BY <2>1, <4>1, <4>2 DEF Unseen
      <4> QED
        BY <4>3 DEF Part
    <3>2. CASE ~Counted(k)
      BY <2>1, <3>2 DEF Part, Counted
    <3> QED
      BY <3>1, <3>2
  <2>3. Ahead(u)' = 0
    BY <2>2, AheadGone
  <2>4. pending[u] = 0 /\ pending'[u] = Ahead(u)
    BY <1>1, <2>1, GatheredIsAhead DEF Zero
  <2> QED
    BY <1>3, <1>4, <1>5, <2>1, <2>3, <2>4 DEF Accounted
<1>12. ASSUME CollectFails PROVE Accounted(u)'
  <2>1. UNCHANGED <<sas, prev, total, pending, owed, calm>>
    BY <1>12 DEF CollectFails, charon, collector, table, history
  <2> QED
    BY <1>5, <1>6, <2>1 DEF Accounted
<1>13. ASSUME Restart PROVE Accounted(u)'
  <2>1. /\ sas' = [k \in Sas |-> NoSa] /\ pending' = Zero /\ total' = total /\ owed' = owed
        /\ calm'[u] = (calm[u] /\ pending[u] = 0 /\ Ahead(u) = 0)
    BY <1>13 DEF Restart, table
  <2>2. \A k \in Sas : Part(u, k)' = 0
    BY <2>1 DEF Part, Counted
  <2>3. Ahead(u)' = 0
    BY <2>2, AheadGone
  <2>4. pending'[u] = 0
    BY <2>1 DEF Zero
  <2>5. total'[u] = total[u] /\ owed'[u] = owed[u]
    BY <2>1
  <2>6. total'[u] + pending'[u] + Ahead(u)' <= owed'[u]
    BY <1>3, <1>4, <1>5, <2>3, <2>4, <2>5 DEF Accounted
  <2>7. calm'[u] => total'[u] + pending'[u] + Ahead(u)' = owed'[u]
    <3>1. calm'[u] => calm[u] /\ pending[u] = 0 /\ Ahead(u) = 0
      BY <2>1
    <3> QED
      BY <1>3, <1>4, <1>5, <2>3, <2>4, <2>5, <3>1 DEF Accounted
  <2> QED
    BY <2>6, <2>7 DEF Accounted
<1>14. ASSUME RestartPanel PROVE Accounted(u)'
  <2>1. /\ prev' = [k \in Sas |-> NoSample] /\ pending' = Zero /\ total' = total /\ sas' = sas
        /\ calm'[u] = (calm[u] /\ pending[u] = 0) /\ owed'[u] = owed[u] + Again(u)
    BY <1>14 DEF RestartPanel, table, charon
  <2> DEFINE f == Parts(u)
             g == [k \in Sas |-> Repeat(u, k)]
             h == Parts(u)'
  <2>2. ASSUME NEW k \in Sas
        PROVE  f[k] \in Nat /\ g[k] \in Nat /\ h[k] = f[k] + g[k]
    <3>1. f[k] = Part(u, k) /\ h[k] = Part(u, k)' /\ g[k] = Repeat(u, k)
      BY DEF Parts
    <3>2. Part(u, k) \in Nat /\ Repeat(u, k) \in Nat
      BY <1>1, AheadSums, AgainIsSum
    <3>3. Counted(k)' = Counted(k) /\ Unseen(k)' = sas[k].bytes
      BY <2>1 DEF Counted, Unseen
    <3>4. CASE Counted(k) /\ sas[k].user = u
      <4>1. sas[k].bytes \in Nat
        BY <1>1, <3>4, SaFields DEF Counted
      <4>2. /\ Part(u, k) = Unseen(k) /\ Repeat(u, k) = sas[k].bytes - Unseen(k)
            /\ Part(u, k)' = sas[k].bytes
        BY <2>1, <3>3, <3>4 DEF Part, Repeat
      <4> QED
        BY <3>1, <3>2, <4>1, <4>2
    <3>5. CASE ~(Counted(k) /\ sas[k].user = u)
      <4>1. Part(u, k) = 0 /\ Repeat(u, k) = 0 /\ Part(u, k)' = 0
        BY <2>1, <3>3, <3>5 DEF Part, Repeat
      <4> QED
        BY <3>1, <4>1
    <3> QED
      BY <3>4, <3>5
  <2>3. /\ Ahead(u) = SumFunctionOnSet(f, Sas) /\ Ahead(u)' = SumFunctionOnSet(h, Sas)
        /\ Again(u) = SumFunctionOnSet(g, Sas)
    BY <1>1, AheadSums, AheadSumsNext, AgainIsSum
  <2> HIDE DEF f, g, h
  <2>4. SumFunctionOnSet(h, Sas) = SumFunctionOnSet(f, Sas) + SumFunctionOnSet(g, Sas)
    BY <2>2, NamesAssumption, SumPlus
  <2>5. Ahead(u)' = Ahead(u) + Again(u)
    BY <2>3, <2>4
  <2>6. pending'[u] = 0
    BY <2>1 DEF Zero
  <2>7. total'[u] = total[u] /\ owed'[u] = owed[u] + Again(u)
    BY <2>1
  <2>8. total'[u] + pending'[u] + Ahead(u)' <= owed'[u]
    BY <1>3, <1>4, <1>5, <2>5, <2>6, <2>7 DEF Accounted
  <2>9. calm'[u] => total'[u] + pending'[u] + Ahead(u)' = owed'[u]
    <3>1. calm'[u] => calm[u] /\ pending[u] = 0
      BY <2>1
    <3> QED
      BY <1>3, <1>4, <1>5, <2>5, <2>6, <2>7, <3>1 DEF Accounted
  <2> QED
    BY <2>8, <2>9 DEF Accounted
<1> QED
  BY <1>7, <1>8, <1>9, <1>10, <1>11, <1>12, <1>13, <1>14

\* A step keeps the samples honest.
LEMMA NoticeStep ==
  ASSUME Types, NoticeInv, [Next]_vars
  PROVE  NoticeInv'
<1>0. sas \in [Sas -> Tunnels \cup {NoSa}]
  BY DEF Types, SaTypes
\* A step that leaves the samples and changes no key but those it notices.
<1>1. ASSUME NEW K \in SUBSET Sas, prev' = prev, unnoticed' = unnoticed \cup K,
             \A k \in Sas \ K : sas'[k] = sas[k]
      PROVE  NoticeInv'
  BY <1>1 DEF NoticeInv, Counted
<1>2. \A s \in Sas : sas[s] # NoSa => sas[s] \in Tunnels /\ sas[s].bytes \in Nat
  BY SaFields
<1>3. \A s \in Sas : prev[s] = NoSample \/ prev[s] \in Nat
  BY BoundsAssumption DEF Types, TypeOK
<1>4. ASSUME UNCHANGED <<sas, prev, unnoticed>> PROVE NoticeInv'
  BY <1>4 DEF NoticeInv, Counted
<1>5. ASSUME NEW s \in Sas, NEW u \in Users, Connect(s, u) PROVE NoticeInv'
  <2>1. /\ sas[s] = NoSa /\ sas' = [sas EXCEPT ![s] = Sa(u, "ESTABLISHED", 0)]
        /\ prev' = prev /\ unnoticed' = unnoticed
    BY <1>5 DEF Connect, collector, history
  <2>2. prev[s] # NoSample => s \in unnoticed
    BY <2>1 DEF NoticeInv, Counted
  <2>3. \A k \in Sas \ {s} : sas'[k] = sas[k]
    BY <1>0, <2>1
  <2> QED
    BY <2>1, <2>2, <2>3 DEF NoticeInv, Counted
<1>6. ASSUME NEW s \in Sas, NEW r \in Tunnels, sas' = [sas EXCEPT ![s] = r],
             sas[s] # NoSa, r.state \in {"ESTABLISHED", "REKEYING"} \/ ~Counted(s),
             r.bytes >= sas[s].bytes, prev' = prev, unnoticed' = unnoticed
      PROVE  NoticeInv'
  <2>1. \A k \in Sas \ {s} : sas'[k] = sas[k]
    BY <1>0, <1>6
  <2>2. sas'[s] = r /\ r # NoSa /\ r.bytes \in Nat
    BY <1>0, <1>6, NoSaIsNone, BoundsAssumption DEF Tunnels
  <2>3. ASSUME prev'[s] # NoSample, s \notin unnoticed'
        PROVE  Counted(s)' /\ sas'[s].bytes >= prev'[s]
    <3>1. Counted(s) /\ sas[s].bytes >= prev[s]
      BY <1>6, <2>3 DEF NoticeInv
    <3>2. prev[s] \in Nat /\ sas[s].bytes \in Nat
      BY <1>2, <1>3, <1>6, <2>3
    <3>3. Counted(s)'
      BY <1>6, <2>2, <3>1 DEF Counted
    <3>4. sas'[s].bytes = r.bytes /\ prev'[s] = prev[s] /\ r.bytes >= sas[s].bytes
      BY <1>6, <2>2
    <3> QED
      BY <2>2, <3>1, <3>2, <3>3, <3>4
  <2> QED
    BY <1>6, <2>1, <2>3 DEF NoticeInv, Counted
<1>7. ASSUME NEW s \in Sas, Carry(s) PROVE NoticeInv'
  <2> DEFINE r == [sas[s] EXCEPT !.bytes = sas[s].bytes + 1]
  <2>1. /\ sas[s] # NoSa /\ sas' = [sas EXCEPT ![s] = r] /\ sas[s].bytes < MaxBytes
        /\ prev' = prev /\ unnoticed' = unnoticed
    BY <1>7 DEF Carry, collector
  <2>2. r \in Tunnels /\ r.state = sas[s].state /\ r.bytes = sas[s].bytes + 1
    BY <1>2, <2>1, BoundsAssumption DEF Tunnels
  <2>3. r.bytes >= sas[s].bytes /\ (r.state \in {"ESTABLISHED", "REKEYING"} \/ ~Counted(s))
    BY <1>2, <2>1, <2>2 DEF Counted
  <2> HIDE DEF r
  <2> QED
    BY <1>6, <2>1, <2>2, <2>3
<1>8. ASSUME NEW s \in Sas, Rekey(s) PROVE NoticeInv'
  <2> DEFINE r == [sas[s] EXCEPT !.state = "REKEYING"]
  <2>1. /\ sas[s] # NoSa /\ sas' = [sas EXCEPT ![s] = r]
        /\ prev' = prev /\ unnoticed' = unnoticed
    BY <1>8 DEF Rekey, collector, history
  <2>2. r \in Tunnels /\ r.state = "REKEYING" /\ r.bytes = sas[s].bytes /\ sas[s].bytes \in Nat
    BY <1>2, <2>1 DEF Tunnels, States
  <2>3. r.bytes >= sas[s].bytes
    BY <2>2
  <2> HIDE DEF r
  <2> QED
    BY <1>6, <2>1, <2>2, <2>3
<1>9. ASSUME NEW s \in Sas, NEW t \in Sas, Rekeyed(s, t) PROVE NoticeInv'
  <2>1. /\ sas[t] = NoSa /\ prev' = prev /\ unnoticed' = unnoticed \cup {s}
        /\ sas' = [sas EXCEPT ![s].state = "REKEYED", ![t] = Sa(sas[s].user, "ESTABLISHED", 0)]
    BY <1>9 DEF Rekeyed, collector
  <2>2. prev[t] # NoSample => t \in unnoticed
    BY <2>1 DEF NoticeInv, Counted
  <2>3. \A k \in Sas \ {s, t} : sas'[k] = sas[k]
    BY <1>0, <2>1
  <2> QED
    BY <2>1, <2>2, <2>3 DEF NoticeInv, Counted
<1>10. ASSUME NEW s \in Sas, RekeyChild(s) \/ Close(s) PROVE NoticeInv'
  <2>1. \A k \in Sas \ {s} : sas'[k] = sas[k]
    BY <1>0, <1>10 DEF RekeyChild, Close
  <2>2. prev' = prev /\ unnoticed' = unnoticed \cup {s}
    BY <1>10 DEF RekeyChild, Close, collector
  <2> QED
    BY <1>1, <2>1, <2>2
<1>11. ASSUME Collect PROVE NoticeInv'
  <2>1. prev' = Tracked(sas) /\ sas' = sas
    BY <1>11 DEF Collect, charon
  <2>2. ASSUME NEW s \in Sas, prev'[s] # NoSample
        PROVE  Counted(s)' /\ sas'[s].bytes >= prev'[s]
    <3>1. s \in Sampled(sas) /\ prev'[s] = sas[s].bytes
      BY <2>1, <2>2 DEF Tracked
    <3>2. Counted(s)' /\ sas[s].bytes \in Nat
      BY <1>2, <2>1, <3>1 DEF Sampled, Counted, ActiveStates
    <3> QED
      BY <2>1, <3>1, <3>2
  <2> QED
    BY <2>2 DEF NoticeInv
<1>12. ASSUME Restart \/ RestartPanel PROVE NoticeInv'
  <2>1. prev' = [s \in Sas |-> NoSample]
    BY <1>12 DEF Restart, RestartPanel
  <2> QED
    BY <2>1 DEF NoticeInv
<1>13. ASSUME \/ UNCHANGED vars \/ CollectFails
              \/ \E u \in Users : \/ DeleteUser(u) \/ CreateUser(u)
                                  \/ IncrementUserBytes(u) \/ IncrementFails(u)
       PROVE  NoticeInv'
  <2>1. UNCHANGED <<sas, prev, unnoticed>>
    BY <1>13 DEF vars, charon, table, collector, history, CollectFails, DeleteUser, CreateUser,
                 IncrementUserBytes, IncrementFails
  <2> QED
    BY <1>4, <2>1
<1> QED
  BY <1>5, <1>7, <1>8, <1>9, <1>10, <1>11, <1>12, <1>13 DEF Next

\* A step keeps the invariant.
LEMMA TrafficInvStep ==
  ASSUME TrafficInv, [Next]_vars
  PROVE  TrafficInv'
<1>1. Types'
  BY TypesStep DEF TrafficInv
<1>2. NoticeInv'
  BY NoticeStep DEF TrafficInv
<1>3. ASSUME NEW u \in Users PROVE Accounted(u)'
  <2>1. CASE UNCHANGED vars
    <3>1. UNCHANGED <<sas, prev, total, pending, owed, calm>>
      BY <2>1 DEF vars, charon, table, collector, history
    <3>2. \A k \in Sas : sas'[k] = sas[k] /\ prev'[k] = prev[k]
      BY <3>1
    <3>3. \A k \in Sas : Part(u, k)' = Part(u, k)
      BY <3>2, PartStays
    <3> QED
      BY <1>1, <3>1, <3>3, KeysStay
  <2>2. CASE \E s \in Sas : \/ \E v \in Users : Connect(s, v)
                            \/ Carry(s) \/ Rekey(s) \/ RekeyChild(s) \/ Close(s)
                            \/ \E t \in Sas : Rekeyed(s, t)
    BY <1>1, <2>2, CharonAccounts
  <2>3. CASE \/ \E v \in Users : \/ DeleteUser(v) \/ CreateUser(v)
                                 \/ IncrementUserBytes(v) \/ IncrementFails(v)
             \/ Collect \/ CollectFails \/ Restart \/ RestartPanel
    BY <1>1, <2>3, CollectorAccounts
  <2> QED
    BY <2>1, <2>2, <2>3 DEF Next
<1> QED
  BY <1>1, <1>2, <1>3 DEF TrafficInv, NoTrafficInvented, EveryByteIsCounted, Accounted

-----------------------------------------------------------------------------
(* The theorems. *)

\* The invariant holds of every run of the collector, the table and charon.
THEOREM TrafficInvHolds == Spec => []TrafficInv
<1>1. Init => TrafficInv
  BY InitTrafficInv
<1>2. TrafficInv /\ [Next]_vars => TrafficInv'
  BY TrafficInvStep
<1> QED
  BY <1>1, <1>2, PTL DEF Spec

\* The state is well formed (users.bytes_in_total, Collector.prevBytes).
THEOREM TypeOKHolds == Spec => []TypeOK
<1>1. TrafficInv => TypeOK
  BY DEF TrafficInv, Types
<1> QED
  BY <1>1, TrafficInvHolds, PTL

\* No total ever exceeds what the tunnels of its user carried
\* (Collector.collect, Store.IncrementUserBytes).
THEOREM NoTrafficInventedHolds == Spec => []NoTrafficInvented
<1>1. TrafficInv => NoTrafficInvented
  BY DEF TrafficInv
<1> QED
  BY <1>1, TrafficInvHolds, PTL

\* The total is on its way to exactly what the tunnels of a user carried, as
\* long as no byte got lost in one of the ways the module names.
THEOREM EveryByteIsCountedHolds == Spec => []EveryByteIsCounted
<1>1. TrafficInv => EveryByteIsCounted
  BY DEF TrafficInv
<1> QED
  BY <1>1, TrafficInvHolds, PTL

=============================================================================
