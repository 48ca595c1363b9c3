-------------------------- MODULE ComercialProofs ---------------------------
(***************************************************************************)
(* Theorems about Comercial, for every value of its constants.  Each part  *)
(* has an inductive invariant of its own: what is of Confidencialidad has  *)
(* the prefix G_, of Clientes L_, of Importacion I_, of Metricas M_.  That  *)
(* of Metricas needs sums over finite sets, which come first.              *)
(***************************************************************************)
EXTENDS Comercial, RepetirProofs, FiniteSetTheorems, TLAPS

-----------------------------------------------------------------------------
(* Sums over finite sets *)

\* Among the subsets of a finite set that have something in common, one is minimal:
\* this is what the inductions on finite sets below use.
LEMMA Minimo ==
    ASSUME NEW S, IsFiniteSet(S), NEW B, B \subseteq SUBSET S, B # {}
    PROVE  \E T \in B : \A U \in B : ~(U \subseteq T /\ U # T)
<1>1. IsWellFoundedOn(StrictSubsetOrdering(S), SUBSET S)
    BY FS_StrictSubsetOrderingWellFounded, FS_FiniteSubsetsOfFinite
<1>2. PICK T \in B : \A U \in B : ~(<<U, T>> \in StrictSubsetOrdering(S))
    <2> DEFINE R == StrictSubsetOrdering(S)
    <2>1. IsWellFoundedOn(R, SUBSET S)
        BY <1>1
    <2> HIDE DEF R
    <2>2. \E T \in B : \A U \in B : ~(<<U, T>> \in R)
        BY <2>1, WFMin
    <2> QED
        BY <2>2 DEF R
<1> QED
    BY <1>2 DEF StrictSubsetOrdering

\* How a sum over subsets is computed: an element, and the rest.
Primero(T) == CHOOSE x \in T : TRUE
Sig(f, it, T) == IF T = {} THEN 0 ELSE f[Primero(T)] + it[T \ {Primero(T)}]
Acumula(f, S, it) == it = [T \in SUBSET S |-> Sig(f, it, T)]

LEMMA PrimeroEsta ==
    ASSUME NEW T, T # {}
    PROVE  Primero(T) \in T
BY DEF Primero

LEMMA SumaComo ==
    ASSUME NEW f, NEW S
    PROVE  SumFunctionOnSet(f, S) = (CHOOSE it : Acumula(f, S, it))[S]
BY DEF SumFunctionOnSet, FoldFunctionOnSet, MapThenFoldSet, Acumula, Sig, Primero

\* There is one way at most,
LEMMA AcumulaIgual ==
    ASSUME NEW f, NEW S, NEW R, NEW a, NEW b, IsFiniteSet(S), S \subseteq R,
           Acumula(f, S, a), Acumula(f, R, b)
    PROVE  \A T \in SUBSET S : a[T] = b[T]
<1> DEFINE B == {T \in SUBSET S : a[T] # b[T]}
<1>1. SUFFICES ASSUME B # {} PROVE FALSE
    OBVIOUS
<1>2. PICK T \in B : \A U \in B : ~(U \subseteq T /\ U # T)
    <2>1. B \subseteq SUBSET S
        OBVIOUS
    <2> HIDE DEF B
    <2> QED
        BY <1>1, <2>1, Minimo
<1>3. a[T] = Sig(f, a, T) /\ b[T] = Sig(f, b, T)
    BY <1>2 DEF Acumula
<1>4. T # {}
    BY <1>2, <1>3 DEF Sig
<1>5. T \ {Primero(T)} \notin B
    BY <1>2, <1>4, PrimeroEsta
<1>6. a[T \ {Primero(T)}] = b[T \ {Primero(T)}]
    BY <1>2, <1>5
<1> QED
    BY <1>2, <1>3, <1>6 DEF Sig

\* and for a finite set there is one.
LEMMA AcumulaHay ==
    ASSUME NEW f, NEW S, IsFiniteSet(S)
    PROVE  \E it : Acumula(f, S, it)
<1> DEFINE B == {T \in SUBSET S : ~ \E it : Acumula(f, T, it)}
<1>1. SUFFICES ASSUME B # {} PROVE FALSE
    OBVIOUS
<1>2. PICK T \in B : \A U \in B : ~(U \subseteq T /\ U # T)
    <2>1. B \subseteq SUBSET S
        OBVIOUS
    <2> HIDE DEF B
    <2> QED
        BY <1>1, <2>1, Minimo
<1> DEFINE Ya == [U \in SUBSET T |-> CHOOSE it : Acumula(f, U, it)]
           it == [U \in SUBSET T |-> Sig(f, Ya[U \ {Primero(U)}], U)]
<1>3. ASSUME NEW U \in SUBSET T, U # T
      PROVE  Acumula(f, U, Ya[U])
    BY <1>2, <1>3
<1>4. ASSUME NEW U \in SUBSET T, U # {}
      PROVE  /\ U \ {Primero(U)} \in SUBSET T /\ U \ {Primero(U)} # T
             /\ IsFiniteSet(U \ {Primero(U)})
    BY <1>2, <1>4, PrimeroEsta, FS_Subset
<1>5. ASSUME NEW U \in SUBSET T, U # T
      PROVE  it[U] = Ya[U][U]
    <2>1. Ya[U][U] = Sig(f, Ya[U], U)
        <3>1. Acumula(f, U, Ya[U]) /\ U \in SUBSET U
            BY <1>3, <1>5
        <3> HIDE DEF Ya
        <3> QED
            BY <3>1 DEF Acumula
    <2>2. CASE U = {}
        BY <2>1, <2>2 DEF Sig
    <2>3. CASE U # {}
        <3> DEFINE V == U \ {Primero(U)}
        <3>1. Acumula(f, V, Ya[V]) /\ Acumula(f, U, Ya[U]) /\ IsFiniteSet(V) /\ V \subseteq U
            BY <1>3, <1>4, <1>5, <2>3
        <3>2. Ya[V][V] = Ya[U][V]
            BY <3>1, AcumulaIgual
        <3> QED
            BY <2>1, <3>2 DEF Sig
    <2> QED
        BY <2>2, <2>3
<1>6. ASSUME NEW U \in SUBSET T
      PROVE  it[U] = Sig(f, it, U)
    <2>1. CASE U = {}
        BY <2>1 DEF Sig
    <2>2. CASE U # {}
        <3> DEFINE V == U \ {Primero(U)}
        <3>1. V \in SUBSET T /\ V # T
            BY <1>4, <2>2
        <3>2. it[V] = Ya[V][V]
            BY <1>5, <3>1
        <3>3. it[U] = f[Primero(U)] + Ya[V][V]
            BY <2>2 DEF Sig
        <3> HIDE DEF it
        <3> QED
            BY <2>2, <3>2, <3>3 DEF Sig
    <2> QED
        BY <2>1, <2>2
<1>7. Acumula(f, T, it)
    <2>1. it = [U \in SUBSET T |-> it[U]]
        OBVIOUS
    <2> HIDE DEF it
    <2> QED
        BY <1>6, <2>1 DEF Acumula
<1> QED
    BY <1>2, <1>7

LEMMA SumaPrimero ==
    ASSUME NEW f, NEW S, IsFiniteSet(S)
    PROVE  SumFunctionOnSet(f, S) =
               IF S = {} THEN 0 ELSE f[Primero(S)] + SumFunctionOnSet(f, S \ {Primero(S)})
<1> DEFINE a == CHOOSE it : Acumula(f, S, it)
<1>1. Acumula(f, S, a) /\ SumFunctionOnSet(f, S) = a[S]
    BY AcumulaHay, SumaComo
<1>2. a[S] = Sig(f, a, S)
    <2> HIDE DEF a
    <2> QED
        BY <1>1 DEF Acumula
<1>3. CASE S = {}
    BY <1>1, <1>2, <1>3 DEF Sig
<1>4. CASE S # {}
    <2> DEFINE R == S \ {Primero(S)}
               b == CHOOSE it : Acumula(f, R, it)
    <2>1. R \subseteq S /\ IsFiniteSet(R)
        BY FS_Subset
    <2>2. Acumula(f, R, b) /\ SumFunctionOnSet(f, R) = b[R]
        BY <2>1, AcumulaHay, SumaComo
    <2> HIDE DEF a, b
    <2>3. b[R] = a[R]
        BY <1>1, <2>1, <2>2, AcumulaIgual
    <2> QED
        BY <1>1, <1>2, <1>4, <2>2, <2>3 DEF Sig
<1> QED
    BY <1>3, <1>4

LEMMA SumaVacia == \A f : SumFunctionOnSet(f, {}) = 0
BY SumaPrimero, FS_EmptySet

\* A sum of natural numbers is one,
LEMMA SumaNatural ==
    ASSUME NEW S, IsFiniteSet(S), NEW f, \A x \in S : f[x] \in Nat
    PROVE  SumFunctionOnSet(f, S) \in Nat
<1> DEFINE B == {T \in SUBSET S : SumFunctionOnSet(f, T) \notin Nat}
<1>1. SUFFICES ASSUME B # {} PROVE FALSE
    BY S \in SUBSET S
<1>2. PICK T \in B : \A U \in B : ~(U \subseteq T /\ U # T)
    <2>1. B \subseteq SUBSET S
        OBVIOUS
    <2> HIDE DEF B
    <2> QED
        BY <1>1, <2>1, Minimo
<1> DEFINE R == T \ {Primero(T)}
<1>3. T # {}
    <2>1. SUFFICES ASSUME T = {} PROVE FALSE
        OBVIOUS
    <2>2. SumFunctionOnSet(f, T) = 0
        BY <2>1, SumaVacia, Zenon
    <2> QED
        BY <1>2, <2>2
<1>4. Primero(T) \in T /\ R \in SUBSET S /\ R \subseteq T /\ R # T /\ IsFiniteSet(T)
    BY <1>2, <1>3, PrimeroEsta, FS_Subset
<1>5. SumFunctionOnSet(f, R) \in Nat
    BY <1>2, <1>4
<1>6. SumFunctionOnSet(f, T) = f[Primero(T)] + SumFunctionOnSet(f, R)
    BY <1>3, <1>4, SumaPrimero
<1> QED
    BY <1>2, <1>4, <1>5, <1>6

\* and any of its terms can be taken out of it.
LEMMA SumaQuita ==
    ASSUME NEW S, IsFiniteSet(S), NEW f, \A x \in S : f[x] \in Nat, NEW z \in S
    PROVE  SumFunctionOnSet(f, S) = f[z] + SumFunctionOnSet(f, S \ {z})
<1> DEFINE B == {T \in SUBSET S : \E x \in T :
                    SumFunctionOnSet(f, T) # f[x] + SumFunctionOnSet(f, T \ {x})}
<1>1. SUFFICES ASSUME B # {} PROVE FALSE
    BY S \in SUBSET S
<1>2. PICK T \in B : \A U \in B : ~(U \subseteq T /\ U # T)
    <2>1. B \subseteq SUBSET S
        OBVIOUS
    <2> HIDE DEF B
    <2> QED
        BY <1>1, <2>1, Minimo
<1>3. PICK x \in T : SumFunctionOnSet(f, T) # f[x] + SumFunctionOnSet(f, T \ {x})
    BY <1>2
<1> DEFINE y == Primero(T)
           R == T \ {x, y}
<1>4. /\ y \in T /\ IsFiniteSet(T) /\ IsFiniteSet(T \ {x}) /\ IsFiniteSet(T \ {y})
      /\ IsFiniteSet(R) /\ f[x] \in Nat /\ f[y] \in Nat
    BY <1>2, <1>3, PrimeroEsta, FS_Subset
<1>5. SumFunctionOnSet(f, T) = f[y] + SumFunctionOnSet(f, T \ {y})
    BY <1>3, <1>4, SumaPrimero
<1>6. x # y
    BY <1>3, <1>5
<1>7. T \ {x} \notin B /\ T \ {y} \notin B
    BY <1>2, <1>3, <1>4
<1>8. SumFunctionOnSet(f, T \ {y}) = f[x] + SumFunctionOnSet(f, R)
    <2>1. (T \ {y}) \ {x} = R /\ x \in T \ {y} /\ T \ {y} \in SUBSET S
        BY <1>2, <1>3, <1>6
    <2> HIDE DEF R, y
    <2> QED
        BY <1>7, <2>1
<1>9. SumFunctionOnSet(f, T \ {x}) = f[y] + SumFunctionOnSet(f, R)
    <2>1. (T \ {x}) \ {y} = R /\ y \in T \ {x} /\ T \ {x} \in SUBSET S
        BY <1>2, <1>3, <1>4, <1>6
    <2> HIDE DEF R, y
    <2> QED
        BY <1>7, <2>1
<1>10. SumFunctionOnSet(f, R) \in Nat
    <2>1. \A u \in R : f[u] \in Nat
        BY <1>2
    <2> HIDE DEF R
    <2> QED
        BY <1>4, <2>1, SumaNatural
<1> HIDE DEF R, y
<1> QED
    BY <1>3, <1>4, <1>5, <1>8, <1>9, <1>10

\* A sum term by term bounded is bounded,
LEMMA SumaMenor ==
    ASSUME NEW S, IsFiniteSet(S), NEW f, NEW g,
           \A x \in S : f[x] \in Nat /\ g[x] \in Nat /\ f[x] <= g[x]
    PROVE  SumFunctionOnSet(f, S) <= SumFunctionOnSet(g, S)
<1> DEFINE B == {T \in SUBSET S : ~(SumFunctionOnSet(f, T) <= SumFunctionOnSet(g, T))}
<1>1. SUFFICES ASSUME B # {} PROVE FALSE
    BY S \in SUBSET S
<1>2. PICK T \in B : \A U \in B : ~(U \subseteq T /\ U # T)
    <2>1. B \subseteq SUBSET S
        OBVIOUS
    <2> HIDE DEF B
    <2> QED
        BY <1>1, <2>1, Minimo
<1> DEFINE y == Primero(T)
           R == T \ {y}
<1>3. T # {}
    <2>1. SUFFICES ASSUME T = {} PROVE FALSE
        OBVIOUS
    <2>2. SumFunctionOnSet(f, T) = 0 /\ SumFunctionOnSet(g, T) = 0
        BY <2>1, SumaVacia, Zenon
    <2> QED
        BY <1>2, <2>2
<1>4. y \in T /\ R \in SUBSET S /\ R \subseteq T /\ R # T /\ IsFiniteSet(T) /\ IsFiniteSet(R)
    BY <1>2, <1>3, PrimeroEsta, FS_Subset
<1>5. SumFunctionOnSet(f, R) <= SumFunctionOnSet(g, R)
    BY <1>2, <1>4
<1>6. /\ SumFunctionOnSet(f, T) = f[y] + SumFunctionOnSet(f, R)
      /\ SumFunctionOnSet(g, T) = g[y] + SumFunctionOnSet(g, R)
    BY <1>3, <1>4, SumaPrimero
<1>7. SumFunctionOnSet(f, R) \in Nat /\ SumFunctionOnSet(g, R) \in Nat
    <2> HIDE DEF R
    <2> QED
        BY <1>4, SumaNatural
<1>8. f[y] \in Nat /\ g[y] \in Nat /\ f[y] <= g[y]
    BY <1>4, <1>2
<1> HIDE DEF R, y
<1> QED
    BY <1>2, <1>5, <1>6, <1>7, <1>8

\* depends on its terms only,
LEMMA SumaIgual ==
    ASSUME NEW S, IsFiniteSet(S), NEW f, NEW g, \A x \in S : f[x] \in Nat /\ f[x] = g[x]
    PROVE  SumFunctionOnSet(f, S) = SumFunctionOnSet(g, S)
<1>1. SumFunctionOnSet(f, S) \in Nat /\ SumFunctionOnSet(g, S) \in Nat
    BY SumaNatural
<1>2. SumFunctionOnSet(f, S) <= SumFunctionOnSet(g, S)
    BY SumaMenor
<1>3. SumFunctionOnSet(g, S) <= SumFunctionOnSet(f, S)
    BY SumaMenor
<1> QED
    BY <1>1, <1>2, <1>3

\* and the sum of three made term by term is that of the three.
LEMMA SumaTres ==
    ASSUME NEW S, IsFiniteSet(S), NEW f, NEW g, NEW h, NEW k,
           \A x \in S : f[x] \in Nat /\ g[x] \in Nat /\ h[x] \in Nat
                        /\ k[x] = f[x] + g[x] + h[x]
    PROVE  SumFunctionOnSet(k, S) =
               SumFunctionOnSet(f, S) + SumFunctionOnSet(g, S) + SumFunctionOnSet(h, S)
<1> DEFINE Vale(T) == SumFunctionOnSet(k, T) =
               SumFunctionOnSet(f, T) + SumFunctionOnSet(g, T) + SumFunctionOnSet(h, T)
           B == {T \in SUBSET S : ~Vale(T)}
<1>1. SUFFICES ASSUME B # {} PROVE FALSE
    BY S \in SUBSET S
<1>2. PICK T \in B : \A U \in B : ~(U \subseteq T /\ U # T)
    <2>1. B \subseteq SUBSET S
        OBVIOUS
    <2> HIDE DEF B
    <2> QED
        BY <1>1, <2>1, Minimo
<1> DEFINE y == Primero(T)
           R == T \ {y}
<1>3. T # {}
    <2>1. SUFFICES ASSUME T = {} PROVE FALSE
        OBVIOUS
    <2>2. /\ SumFunctionOnSet(f, T) = 0 /\ SumFunctionOnSet(g, T) = 0
          /\ SumFunctionOnSet(h, T) = 0 /\ SumFunctionOnSet(k, T) = 0
        BY <2>1, SumaVacia, Zenon
    <2> QED
        BY <1>2, <2>2
<1>4. y \in T /\ R \in SUBSET S /\ R \subseteq T /\ R # T /\ IsFiniteSet(T) /\ IsFiniteSet(R)
    BY <1>2, <1>3, PrimeroEsta, FS_Subset
<1>5. Vale(R)
    BY <1>2, <1>4
<1>6. /\ SumFunctionOnSet(f, T) = f[y] + SumFunctionOnSet(f, R)
      /\ SumFunctionOnSet(g, T) = g[y] + SumFunctionOnSet(g, R)
      /\ SumFunctionOnSet(h, T) = h[y] + SumFunctionOnSet(h, R)
      /\ SumFunctionOnSet(k, T) = k[y] + SumFunctionOnSet(k, R)
    BY <1>3, <1>4, SumaPrimero
<1>7. /\ SumFunctionOnSet(f, R) \in Nat /\ SumFunctionOnSet(g, R) \in Nat
      /\ SumFunctionOnSet(h, R) \in Nat
    <2> HIDE DEF R
    <2> QED
        BY <1>4, SumaNatural
<1>8. f[y] \in Nat /\ g[y] \in Nat /\ h[y] \in Nat /\ k[y] = f[y] + g[y] + h[y]
    BY <1>4, <1>2
<1> HIDE DEF R, y
<1> QED
    BY <1>2, <1>5, <1>6, <1>7, <1>8

-----------------------------------------------------------------------------
(* Finite sets *)

\* A set that changes in one element changes its size by one at most.
LEMMA CambiaUno ==
    ASSUME NEW A, NEW B, NEW c, IsFiniteSet(A), A \ {c} = B \ {c}
    PROVE  /\ IsFiniteSet(B) /\ Cardinality(A) \in Nat /\ Cardinality(B) \in Nat
           /\ Cardinality(A) <= Cardinality(B) + 1 /\ Cardinality(B) <= Cardinality(A) + 1
<1>1. IsFiniteSet(A \ {c}) /\ IsFiniteSet(B)
  <2>1. IsFiniteSet((A \ {c}) \cup {c}) /\ IsFiniteSet(A \ {c})
        BY FS_RemoveElement, FS_AddElement
  <2>2. B \subseteq (A \ {c}) \cup {c}
        OBVIOUS
  <2> QED
        BY <2>1, <2>2, FS_Subset
<1>2. /\ Cardinality(A \ {c}) = IF c \in A THEN Cardinality(A) - 1 ELSE Cardinality(A)
      /\ Cardinality(B \ {c}) = IF c \in B THEN Cardinality(B) - 1 ELSE Cardinality(B)
    BY <1>1, FS_RemoveElement
<1>3. Cardinality(A) \in Nat /\ Cardinality(B) \in Nat
    BY <1>1, FS_CardinalityType
<1>4. Cardinality(A \ {c}) = Cardinality(B \ {c})
    OBVIOUS
<1> QED
    BY <1>1, <1>2, <1>3, <1>4

LEMMA Reparto ==
    ASSUME NEW A, NEW B, IsFiniteSet(B), A \subseteq B
    PROVE  /\ IsFiniteSet(A) /\ IsFiniteSet(B \ A)
           /\ Cardinality(A) \in Nat /\ Cardinality(B \ A) \in Nat /\ Cardinality(B) \in Nat
           /\ Cardinality(B) = Cardinality(A) + Cardinality(B \ A)
<1>1. /\ IsFiniteSet(A) /\ IsFiniteSet(B \ A)
      /\ Cardinality(B \ A) = Cardinality(B) - Cardinality(B \cap A)
    BY FS_Subset, FS_Difference
<1>2. B \cap A = A
    OBVIOUS
<1>3. Cardinality(A) \in Nat /\ Cardinality(B \ A) \in Nat /\ Cardinality(B) \in Nat
    BY <1>1, FS_CardinalityType
<1>4. Cardinality(B \ A) = Cardinality(B) - Cardinality(A)
    BY <1>1, <1>2
<1> QED
    BY <1>1, <1>3, <1>4

-----------------------------------------------------------------------------
(* Confidencialidad: locals *)

G_Ficha ==
    [pc : G!Pasos \cup G!Fines, host : Hosts, u : Usuarios, v : G!Versiones, previa : BOOLEAN]

LEMMA G_Fichas ==
    /\ \A r \in G!Peticion : r.pc # "libre" => r \in G_Ficha
    /\ G_Ficha \subseteq G!Peticion
    /\ "libre" \notin G!Pasos \cup G!Fines
BY DEF G!Peticion, G_Ficha, G!Pasos, G!Fines

\* What is kept of a request whose step changes.
G_Mueve(p, x) ==
    /\ petF'[p].pc = x
    /\ petF'[p].host = petF[p].host /\ petF'[p].u = petF[p].u
    /\ petF'[p].v = petF[p].v /\ petF'[p].previa = petF[p].previa

G_Otras(p) == \A q \in Peticiones \ {p} : petF'[q] = petF[q]

LEMMA G_Avances ==
    ASSUME G!TypeOK, NEW p \in Peticiones, NEW x \in G!Pasos \cup G!Fines,
           petF[p].pc # "libre", G!Avanza(p, x)
    PROVE  /\ petF' \in [Peticiones -> G!Peticion] /\ G_Otras(p) /\ G_Mueve(p, x)
           /\ petF[p] \in G_Ficha
<1>1. petF[p] \in G_Ficha
    BY G_Fichas DEF G!TypeOK
<1>2. /\ [petF[p] EXCEPT !.pc = x] \in G_Ficha
      /\ petF' = [petF EXCEPT ![p] = [petF[p] EXCEPT !.pc = x]]
    BY <1>1 DEF G_Ficha, G!Avanza
<1>3. petF' \in [Peticiones -> G!Peticion] /\ G_Otras(p) /\ petF'[p] = [petF[p] EXCEPT !.pc = x]
    BY <1>2, G_Fichas DEF G!TypeOK, G_Otras
<1> QED
    BY <1>1, <1>3 DEF G_Mueve, G_Ficha

LEMMA G_Llegadas ==
    ASSUME G!TypeOK, NEW p \in Peticiones, NEW h \in Hosts, NEW u \in Usuarios,
           NEW x \in G!Pasos \cup G!Fines, G!Llega(p, h, u, x)
    PROVE  /\ petF' \in [Peticiones -> G!Peticion] /\ G_Otras(p)
           /\ petF'[p].pc = x /\ petF'[p].host = h /\ petF'[p].u = u
           /\ petF'[p].v = version[h] /\ petF'[p].v \in G!Versiones
           /\ petF'[p].previa = (<<u, version[h]>> \in confirmadas)
<1> DEFINE r == [pc |-> x, host |-> h, u |-> u, v |-> version[h],
                 previa |-> <<u, version[h]>> \in confirmadas]
<1>1. r \in G_Ficha /\ petF' = [petF EXCEPT ![p] = r]
    BY DEF G!TypeOK, G_Ficha, G!Llega
<1>2. petF' \in [Peticiones -> G!Peticion] /\ G_Otras(p) /\ petF'[p] = r
    BY <1>1, G_Fichas DEF G!TypeOK, G_Otras
<1> QED
    BY <1>2 DEF G!TypeOK

-----------------------------------------------------------------------------
(* Confidencialidad: the inductive invariant *)

\* A host remembers accounts that have accepted the version it carries.
G_Recordadas ==
    \A h \in Hosts : \A u \in cache[h] : <<u, version[h]>> \in aceptadas

\* A request in flight is of the version of its host; what it is about to confirm,
\* and what was confirmed before it began, is stored.
G_EnVuelo(p) ==
    /\ petF[p].pc \in G!Pasos => petF[p].v = version[petF[p].host]
    /\ petF[p].pc = "audita" => G!Acta(p) \in aceptadas
    /\ petF[p].pc # "libre" /\ petF[p].previa => G!Acta(p) \in aceptadas
    /\ petF[p].pc = "falta" => ~petF[p].previa

G_IInv ==
    /\ G!TypeOK /\ G_Recordadas /\ \A p \in Peticiones : G_EnVuelo(p)
    /\ entradas \subseteq aceptadas /\ confirmadas \subseteq aceptadas

\* What a step of the request p may do.  A host remembers at most one more account.
G_Aumenta(p) ==
    /\ aceptadas \subseteq aceptadas' /\ aceptadas' \subseteq G!Actas
    /\ entradas' \subseteq aceptadas' /\ confirmadas' \subseteq aceptadas'
    /\ \/ UNCHANGED cache
       \/ \E h \in Hosts, u \in Usuarios : G!Olvida(h, u)
       \/ \E h \in Hosts, u \in Usuarios :
            G!Recuerda(h, u) /\ <<u, version[h]>> \in aceptadas'
    /\ UNCHANGED version

LEMMA G_Memoria ==
    ASSUME G_IInv, NEW p \in Peticiones, G_Aumenta(p), petF' \in [Peticiones -> G!Peticion],
           G_Otras(p), G_EnVuelo(p)'
    PROVE  G_IInv'
<1>1. cache' \in [Hosts -> SUBSET Usuarios] /\ G_Recordadas'
  <2>1. CASE UNCHANGED cache
        BY <2>1 DEF G_IInv, G!TypeOK, G_Recordadas, G_Aumenta
  <2>2. ASSUME NEW h \in Hosts, NEW u \in Usuarios, G!Olvida(h, u)
        PROVE  cache' \in [Hosts -> SUBSET Usuarios] /\ G_Recordadas'
        BY <2>2 DEF G_IInv, G!TypeOK, G_Recordadas, G_Aumenta, G!Olvida
  <2>3. ASSUME NEW h \in Hosts, NEW u \in Usuarios,
               G!Recuerda(h, u) /\ <<u, version[h]>> \in aceptadas'
        PROVE  cache' \in [Hosts -> SUBSET Usuarios] /\ G_Recordadas'
        BY <2>3 DEF G_IInv, G!TypeOK, G_Recordadas, G_Aumenta, G!Recuerda
  <2> QED
        BY <2>1, <2>2, <2>3 DEF G_Aumenta
<1>2. G!TypeOK'
    BY <1>1 DEF G_IInv, G!TypeOK, G_Aumenta
<1>3. \A q \in Peticiones : G_EnVuelo(q)'
    BY DEF G_IInv, G_EnVuelo, G_Otras, G_Aumenta, G!Acta
<1> QED
    BY <1>1, <1>2, <1>3 DEF G_IInv, G_Aumenta

-----------------------------------------------------------------------------
(* Confidencialidad: steps *)

LEMMA G_Puerta ==
    ASSUME G_IInv, NEW p \in Peticiones,
           \/ \E h \in Hosts, u \in Usuarios : G!Entra(p, h, u)
           \/ \E h \in Hosts, u \in Usuarios, v \in G!Versiones : G!Acepta(p, h, u, v)
           \/ G!Mira(p) \/ G!Falla(p)
    PROVE  G_IInv'
<1> USE DEF G!Pasos, G!Fines
<1>1. ASSUME NEW h \in Hosts, NEW u \in Usuarios, G!Entra(p, h, u) PROVE G_IInv'
  <2>1. CASE u \in cache[h]
    <3>1. <<u, version[h]>> \in aceptadas
          BY <2>1 DEF G_IInv, G_Recordadas
    <3>2. /\ G!Llega(p, h, u, "pasa") /\ entradas' = entradas \cup {<<u, version[h]>>}
          /\ UNCHANGED <<version, cache, aceptadas, confirmadas>>
          BY <1>1, <2>1 DEF G!Entra
    <3>3. G_Aumenta(p)
          BY <3>1, <3>2 DEF G_IInv, G!TypeOK, G_Aumenta
    <3>4. /\ petF' \in [Peticiones -> G!Peticion] /\ G_Otras(p)
          /\ petF'[p].pc = "pasa" /\ petF'[p].u = u /\ petF'[p].v = version[h]
          BY <3>2, G_Llegadas DEF G_IInv
    <3>5. G_EnVuelo(p)'
          BY <3>1, <3>2, <3>4 DEF G_EnVuelo, G!Acta
    <3> QED
          BY <3>3, <3>4, <3>5, G_Memoria
  <2>2. CASE u \notin cache[h]
    <3>1. G!Llega(p, h, u, "mira")
          /\ UNCHANGED <<version, cache, aceptadas, entradas, confirmadas>>
          BY <1>1, <2>2 DEF G!Entra
    <3>2. G_Aumenta(p)
          BY <3>1 DEF G_IInv, G!TypeOK, G_Aumenta
    <3>3. /\ petF' \in [Peticiones -> G!Peticion] /\ G_Otras(p) /\ petF'[p].pc = "mira"
          /\ petF'[p].host = h /\ petF'[p].u = u /\ petF'[p].v = version[h]
          /\ petF'[p].previa = (<<u, version[h]>> \in confirmadas)
          BY <3>1, G_Llegadas DEF G_IInv
    <3>4. G_EnVuelo(p)'
          BY <3>1, <3>3 DEF G_IInv, G_EnVuelo, G!Acta
    <3> QED
          BY <3>2, <3>3, <3>4, G_Memoria
  <2> QED
        BY <2>1, <2>2
<1>2. ASSUME NEW h \in Hosts, NEW u \in Usuarios, NEW v \in G!Versiones, G!Acepta(p, h, u, v)
      PROVE  G_IInv'
  <2>1. G!Llega(p, h, u, "busca")
        /\ UNCHANGED <<version, cache, aceptadas, entradas, confirmadas>>
        BY <1>2 DEF G!Acepta
  <2>2. G_Aumenta(p)
        BY <2>1 DEF G_IInv, G!TypeOK, G_Aumenta
  <2>3. /\ petF' \in [Peticiones -> G!Peticion] /\ G_Otras(p) /\ petF'[p].pc = "busca"
        /\ petF'[p].host = h /\ petF'[p].u = u /\ petF'[p].v = version[h]
        /\ petF'[p].previa = (<<u, version[h]>> \in confirmadas)
        BY <2>1, G_Llegadas DEF G_IInv
  <2>4. G_EnVuelo(p)'
        BY <2>1, <2>3 DEF G_IInv, G_EnVuelo, G!Acta
  <2> QED
        BY <2>2, <2>3, <2>4, G_Memoria
<1>3. ASSUME G!Mira(p) PROVE G_IInv'
  <2>1. petF[p] \in G_Ficha /\ petF[p].v = version[petF[p].host]
        BY <1>3, G_Fichas DEF G!Mira, G_IInv, G!TypeOK, G_EnVuelo
  <2>2. petF[p].host \in Hosts /\ petF[p].u \in Usuarios
        BY <2>1 DEF G_Ficha
  <2>3. CASE G!Acta(p) \in aceptadas
    <3>1. /\ G!Recuerda(petF[p].host, petF[p].u) /\ G!Avanza(p, "pasa")
          /\ entradas' = entradas \cup {G!Acta(p)}
          /\ UNCHANGED <<version, aceptadas, confirmadas>>
          BY <1>3, <2>3 DEF G!Mira
    <3>2. G_Aumenta(p)
          BY <2>1, <2>2, <2>3, <3>1 DEF G_IInv, G!TypeOK, G_Aumenta, G!Acta
    <3>3. G_EnVuelo(p)' /\ petF' \in [Peticiones -> G!Peticion] /\ G_Otras(p)
          BY <1>3, <2>3, <3>1, G_Avances DEF G!Mira, G_IInv, G_EnVuelo, G!Acta, G_Mueve
    <3> QED
          BY <3>2, <3>3, G_Memoria
  <2>4. CASE G!Acta(p) \notin aceptadas
    <3>1. /\ G!Olvida(petF[p].host, petF[p].u) /\ G!Avanza(p, "falta")
          /\ UNCHANGED <<version, aceptadas, entradas, confirmadas>>
          BY <1>3, <2>4 DEF G!Mira
    <3>2. G_Aumenta(p)
          BY <2>2, <3>1 DEF G_IInv, G!TypeOK, G_Aumenta
    <3>3. G_EnVuelo(p)' /\ petF' \in [Peticiones -> G!Peticion] /\ G_Otras(p)
          BY <1>3, <2>4, <3>1, G_Avances DEF G!Mira, G_IInv, G_EnVuelo, G!Acta, G_Mueve
    <3> QED
          BY <3>2, <3>3, G_Memoria
  <2> QED
        BY <2>3, <2>4
<1>4. ASSUME G!Falla(p) PROVE G_IInv'
  <2>1. /\ petF[p].pc # "libre" /\ G!Avanza(p, "error")
        /\ UNCHANGED <<version, cache, aceptadas, entradas, confirmadas>>
        BY <1>4 DEF G!Falla
  <2>2. G_Aumenta(p)
        BY <2>1 DEF G_IInv, G!TypeOK, G_Aumenta
  <2>3. G_EnVuelo(p)' /\ petF' \in [Peticiones -> G!Peticion] /\ G_Otras(p)
        BY <2>1, G_Avances DEF G_IInv, G_EnVuelo, G!Acta, G_Mueve
  <2> QED
        BY <2>2, <2>3, G_Memoria
<1> QED
    BY <1>1, <1>2, <1>3, <1>4

\* A success is answered once the acceptance is stored.
LEMMA G_Exitos ==
    ASSUME G_IInv, NEW p \in Peticiones, G!Confirma(p), G!Acta(p) \in aceptadas,
           petF[p].pc \in G!Pasos, UNCHANGED <<version, aceptadas, entradas>>
    PROVE  G_IInv'
<1>1. petF[p].pc # "libre" /\ petF[p] \in G_Ficha /\ petF[p].v = version[petF[p].host]
    BY G_Fichas DEF G_IInv, G!TypeOK, G_EnVuelo, G!Pasos
<1>2. petF[p].host \in Hosts /\ petF[p].u \in Usuarios
    BY <1>1 DEF G_Ficha
<1>3. G_Aumenta(p)
    BY <1>1, <1>2 DEF G!Confirma, G_IInv, G!TypeOK, G_Aumenta, G!Acta
<1>4. G_EnVuelo(p)' /\ petF' \in [Peticiones -> G!Peticion] /\ G_Otras(p)
    BY <1>1, G_Avances DEF G!Confirma, G_IInv, G_EnVuelo, G!Acta, G_Mueve, G!Pasos, G!Fines
<1> QED
    BY <1>3, <1>4, G_Memoria

LEMMA G_Aceptaciones ==
    ASSUME G_IInv, NEW p \in Peticiones, G!Busca(p) \/ G!Crea(p) \/ G!Audita(p) \/ G!Relee(p)
    PROVE  G_IInv'
<1> USE DEF G!Pasos, G!Fines
<1>1. ASSUME NEW x \in G!Pasos \cup G!Fines, petF[p].pc \in G!Pasos, G!Avanza(p, x),
             x \notin {"falta", "audita"},
             UNCHANGED <<version, cache, aceptadas, entradas, confirmadas>>
      PROVE  G_IInv'
  <2>1. petF[p].pc # "libre"
        BY <1>1
  <2>2. G_Aumenta(p)
        BY <1>1 DEF G_IInv, G!TypeOK, G_Aumenta
  <2>3. G_EnVuelo(p)' /\ petF' \in [Peticiones -> G!Peticion] /\ G_Otras(p)
        BY <1>1, <2>1, G_Avances DEF G_IInv, G_EnVuelo, G!Acta, G_Mueve
  <2> QED
        BY <2>2, <2>3, G_Memoria
<1>2. ASSUME G!Busca(p) PROVE G_IInv'
  <2>1. CASE G!Acta(p) \in aceptadas
        BY <1>2, <2>1, G_Exitos DEF G!Busca
  <2>2. CASE G!Acta(p) \notin aceptadas
        BY <1>1, <1>2, <2>2 DEF G!Busca
  <2> QED
        BY <2>1, <2>2
<1>3. ASSUME G!Crea(p) PROVE G_IInv'
  <2>1. CASE G!Acta(p) \in aceptadas
        BY <1>1, <1>3, <2>1 DEF G!Crea
  <2>2. CASE G!Acta(p) \notin aceptadas
    <3>1. /\ petF[p].pc = "crea" /\ aceptadas' = aceptadas \cup {G!Acta(p)}
          /\ UNCHANGED <<version, cache, entradas, confirmadas>>
          BY <1>3, <2>2 DEF G!Crea
    <3>2. PICK x \in {"audita", "error"} : G!Avanza(p, x)
          BY <1>3, <2>2 DEF G!Crea
    <3>3. petF[p] \in G_Ficha
          BY <3>1, G_Fichas DEF G_IInv, G!TypeOK
    <3>4. G!Acta(p) \in G!Actas
          BY <3>3 DEF G_Ficha, G!Acta, G!Actas
    <3>5. G_Aumenta(p)
          BY <3>1, <3>4 DEF G_IInv, G!TypeOK, G_Aumenta
    <3>6. G_EnVuelo(p)' /\ petF' \in [Peticiones -> G!Peticion] /\ G_Otras(p)
          BY <3>1, <3>2, G_Avances DEF G_IInv, G_EnVuelo, G!Acta, G_Mueve
    <3> QED
          BY <3>5, <3>6, G_Memoria
  <2> QED
        BY <2>1, <2>2
<1>4. ASSUME G!Audita(p) PROVE G_IInv'
    BY <1>4, G_Exitos DEF G!Audita, G_IInv, G_EnVuelo
<1>5. ASSUME G!Relee(p) PROVE G_IInv'
  <2>1. CASE G!Acta(p) \in aceptadas
        BY <1>5, <2>1, G_Exitos DEF G!Relee
  <2>2. CASE G!Acta(p) \notin aceptadas
        BY <1>1, <1>5, <2>2 DEF G!Relee
  <2> QED
        BY <2>1, <2>2
<1> QED
    BY <1>2, <1>3, <1>4, <1>5

\* A host that forgets, or that restarts.
LEMMA G_Anfitriones ==
    ASSUME G_IInv, NEW h \in Hosts,
           \/ \E u \in Usuarios : G!Caduca(h, u)
           \/ \E v \in G!Versiones : G!Despliega(h, v)
    PROVE  G_IInv'
<1>1. ASSUME NEW u \in Usuarios, G!Caduca(h, u) PROVE G_IInv'
    BY <1>1 DEF G!Caduca, G!Olvida, G_IInv, G!TypeOK, G_Recordadas, G_EnVuelo, G!Acta
<1>2. ASSUME NEW v \in G!Versiones, G!Despliega(h, v) PROVE G_IInv'
  <2>1. \A p \in Peticiones :
            petF'[p] = IF petF[p].pc \in G!Pasos /\ petF[p].host = h
                      THEN [petF[p] EXCEPT !.pc = "error"] ELSE petF[p]
        BY <1>2 DEF G!Despliega
  <2>2. ASSUME NEW p \in Peticiones
        PROVE  /\ petF'[p] \in G!Peticion
               /\ \/ petF'[p] = petF[p] /\ ~(petF[p].pc \in G!Pasos /\ petF[p].host = h)
                  \/ G_Mueve(p, "error") /\ petF[p].pc \in G!Pasos
    <3>1. CASE petF[p].pc \in G!Pasos /\ petF[p].host = h
      <4>1. petF[p] \in G_Ficha
            BY <3>1, G_Fichas DEF G_IInv, G!TypeOK
      <4>2. [petF[p] EXCEPT !.pc = "error"] \in G_Ficha
            BY <4>1 DEF G_Ficha, G!Fines
      <4> QED
            BY <2>1, <3>1, <4>1, <4>2, G_Fichas DEF G_Mueve, G_Ficha
    <3>2. CASE ~(petF[p].pc \in G!Pasos /\ petF[p].host = h)
          BY <2>1, <3>2 DEF G_IInv, G!TypeOK
    <3> QED
          BY <3>1, <3>2
  <2>3. /\ version' = [version EXCEPT ![h] = v] /\ cache' = [cache EXCEPT ![h] = {}]
        /\ UNCHANGED <<aceptadas, entradas, confirmadas>>
        BY <1>2 DEF G!Despliega
  <2>4. G!TypeOK'
        BY <1>2, <2>2, <2>3 DEF G_IInv, G!TypeOK, G!Despliega
  <2>5. G_Recordadas'
        BY <2>3 DEF G_IInv, G!TypeOK, G_Recordadas
  <2>6. \A p \in Peticiones : G_EnVuelo(p)'
    <3> SUFFICES ASSUME NEW p \in Peticiones PROVE G_EnVuelo(p)'
        OBVIOUS
    <3>1. CASE petF'[p] = petF[p] /\ petF[p].pc \in G!Pasos /\ petF[p].host # h
      <4>1. petF[p].host \in Hosts
            BY <3>1, G_Fichas DEF G_IInv, G!TypeOK, G_Ficha, G!Pasos
      <4>2. version'[petF[p].host] = version[petF[p].host]
            BY <2>3, <3>1, <4>1 DEF G_IInv, G!TypeOK
      <4> QED
            BY <2>3, <3>1, <4>2 DEF G_IInv, G_EnVuelo, G!Acta
    <3>2. CASE petF'[p] = petF[p] /\ petF[p].pc \notin G!Pasos
          BY <2>3, <3>2 DEF G_IInv, G_EnVuelo, G!Acta
    <3>3. CASE G_Mueve(p, "error") /\ petF[p].pc \in G!Pasos
          BY <2>3, <3>3 DEF G_IInv, G_EnVuelo, G!Acta, G_Mueve, G!Pasos
    <3> QED
          BY <2>2, <3>1, <3>2, <3>3
  <2> QED
        BY <2>3, <2>4, <2>5, <2>6 DEF G_IInv
<1> QED
    BY <1>1, <1>2

LEMMA G_Inicio ==
    ASSUME G!ConstantsOK, G!Init
    PROVE  G_IInv
<1>1. 1 \in G!Versiones
    BY DEF G!ConstantsOK, G!Versiones
<1> QED
    BY <1>1 DEF G!Init, G_IInv, G!TypeOK, G_Recordadas, G_EnVuelo, G!Peticion, G!Actas, G!Pasos

LEMMA G_Paso ==
    ASSUME G_IInv, [G!Next]_varsG
    PROVE  G_IInv'
<1>1. CASE UNCHANGED varsG
    BY <1>1 DEF varsG, G_IInv, G!TypeOK, G_Recordadas, G_EnVuelo, G!Acta
<1> QED
    BY <1>1, G_Puerta, G_Aceptaciones, G_Anfitriones DEF G!Next

-----------------------------------------------------------------------------
(* Clientes: the inductive invariant *)

\* The document a request goes on to write is there: none is ever deleted.
L_Presente(p) ==
    /\ petL[p].pc \in {"contactoNuevo", "guardaCliente"} => cliente[petL[p].doc] # Nada
    /\ petL[p].pc \in {"alternaContacto", "quitaContacto", "guardaContacto"} =>
            contacto[petL[p].doc] # Nada

\* Every contact is of a customer that is there.
L_DeAlguien ==
    \A y \in Contactos : contacto[y] # Nada => cliente[contacto[y].cliente] # Nada

L_IInv == L!TypeOK /\ L_DeAlguien /\ (\A p \in Tramites : L_Presente(p))

L_Quedan ==
    /\ \A x \in Ids : cliente[x] # Nada => cliente'[x] # Nada
    /\ \A y \in Contactos : contacto[y] # Nada => contacto'[y] # Nada

-----------------------------------------------------------------------------
(* Clientes: steps *)

LEMMA L_Sigue ==
    ASSUME L!TypeOK, NEW p \in Tramites, NEW r \in L!Peticion, L!Seguir(p, r)
    PROVE  /\ petL' \in [Tramites -> L!Peticion] /\ petL'[p] = r
           /\ \A q \in Tramites \ {p} : petL'[q] = petL[q]
BY DEF L!TypeOK, L!Seguir

LEMMA L_Terminan ==
    ASSUME L!TypeOK, NEW p \in Tramites, L!Terminar(p)
    PROVE  /\ petL' \in [Tramites -> L!Peticion] /\ petL'[p] = [pc |-> "hecha"]
           /\ \A q \in Tramites \ {p} : petL'[q] = petL[q]
<1>1. [pc |-> "hecha"] \in L!Peticion
    BY DEF L!Peticion
<1>2. L!Seguir(p, [pc |-> "hecha"])
    BY DEF L!Terminar, L!Seguir
<1> QED
    BY <1>1, <1>2, L_Sigue

LEMMA L_Documentos ==
    ASSUME L!TypeOK, NEW x \in Ids, cliente[x] # Nada
    PROVE  /\ cliente[x] \in L!Cliente
           /\ \A k \in RFCs \cup {Nada} : [cliente[x] EXCEPT !.rfc = k] \in L!Cliente
           /\ \A a \in L!Estado : [cliente[x] EXCEPT !.activo = a] \in L!Cliente
<1>1. cliente[x] \in L!Cliente
    BY DEF L!TypeOK
<1>2. ASSUME NEW k \in RFCs \cup {Nada} PROVE [cliente[x] EXCEPT !.rfc = k] \in L!Cliente
    BY <1>1 DEF L!Cliente
<1>3. ASSUME NEW a \in L!Estado PROVE [cliente[x] EXCEPT !.activo = a] \in L!Cliente
    BY <1>1 DEF L!Cliente
<1> QED
    BY <1>1, <1>2, <1>3

\* The write of a customer
LEMMA L_Escribe ==
    ASSUME L_IInv, NEW p \in Tramites, NEW x \in Ids, NEW d \in L!Cliente,
           L!Pone(x, d), L!Terminar(p), UNCHANGED contacto
    PROVE  L_IInv'
<1>1. d # Nada
    BY ParametersAssumption DEF L!ConstantsOK, L!Cliente
<1>2. /\ cliente' \in [Ids -> L!Cliente \cup {Nada}] /\ cliente'[x] = d
      /\ \A z \in Ids \ {x} : cliente'[z] = cliente[z]
    BY DEF L_IInv, L!TypeOK, L!Pone
<1>3. /\ petL' \in [Tramites -> L!Peticion] /\ petL'[p] = [pc |-> "hecha"]
      /\ \A q \in Tramites \ {p} : petL'[q] = petL[q]
    BY L_Terminan DEF L_IInv
<1>4. L!TypeOK'
    BY <1>2, <1>3 DEF L_IInv, L!TypeOK
<1>5. ASSUME NEW q \in Tramites PROVE L_Presente(q)'
  <2>1. CASE q = p
        BY <1>3, <2>1 DEF L_Presente
  <2>2. CASE q # p
    <3>1. petL[q] \in L!Peticion /\ L_Presente(q) /\ petL'[q] = petL[q]
          BY <1>3, <2>2 DEF L_IInv, L!TypeOK
    <3>2. petL[q].pc \in {"contactoNuevo", "guardaCliente"} => petL[q].doc \in Ids
          BY <3>1 DEF L!Peticion
    <3> QED
          BY <1>1, <1>2, <3>1, <3>2 DEF L_Presente
  <2> QED
        BY <2>1, <2>2
<1>6. L_DeAlguien'
  <2>1. \A y \in Contactos : contacto[y] # Nada => contacto[y].cliente \in Ids
        BY DEF L_IInv, L!TypeOK, L!Contacto
  <2> QED
        BY <1>1, <1>2, <2>1 DEF L_IInv, L_DeAlguien
<1> QED
    BY <1>4, <1>5, <1>6 DEF L_IInv

\* A step of the requests, and of the contacts
LEMMA L_Resto ==
    ASSUME L_IInv, UNCHANGED cliente, petL' \in [Tramites -> L!Peticion],
           contacto' \in [Contactos -> L!Contacto \cup {Nada}],
           \A y \in Contactos : contacto[y] # Nada => contacto'[y] # Nada,
           \A y \in Contactos : contacto'[y] # Nada => cliente[contacto'[y].cliente] # Nada,
           NEW p \in Tramites, \A q \in Tramites \ {p} : petL'[q] = petL[q],
           L_Presente(p)'
    PROVE  L_IInv'
<1>1. L!TypeOK' /\ L_DeAlguien'
    BY DEF L_IInv, L!TypeOK, L_DeAlguien
<1>2. ASSUME NEW q \in Tramites, q # p PROVE L_Presente(q)'
  <2>1. petL[q] \in L!Peticion /\ L_Presente(q) /\ petL'[q] = petL[q]
        BY <1>2 DEF L_IInv, L!TypeOK
  <2>2. petL[q].pc \in {"alternaContacto", "quitaContacto", "guardaContacto"} =>
            petL[q].doc \in Contactos
        BY <2>1 DEF L!Peticion
  <2> QED
        BY <2>1, <2>2 DEF L_Presente
<1> QED
    BY <1>1, <1>2 DEF L_IInv

\* A request that ends and writes nothing
LEMMA L_Callan ==
    ASSUME L_IInv, NEW p \in Tramites, L!Terminar(p), UNCHANGED <<cliente, contacto>>
    PROVE  L_IInv'
<1>1. /\ petL' \in [Tramites -> L!Peticion] /\ petL'[p] = [pc |-> "hecha"]
      /\ \A q \in Tramites \ {p} : petL'[q] = petL[q]
    BY L_Terminan DEF L_IInv
<1>2. L_Presente(p)'
    BY <1>1 DEF L_Presente
<1> QED
    BY <1>1, <1>2, L_Resto DEF L_IInv, L!TypeOK, L_DeAlguien

LEMMA L_Clientes ==
    ASSUME L_IInv, NEW p \in Tramites,
           \/ \E k \in RFCs \cup {Nada} : L!Crear(p, k) \/ \E x \in Ids : L!Editar(p, x, k)
           \/ \E x \in Ids : L!Quitar(p, x)
           \/ L!GuardaCliente(p)
    PROVE  L_IInv'
<1>1. ASSUME NEW k \in RFCs \cup {Nada}, L!Crear(p, k) PROVE L_IInv'
  <2> DEFINE d == [rfc |-> k, activo |-> TRUE]
  <2>1. d \in L!Cliente
        BY DEF L!Cliente, L!Estado
  <2>2. PICK x \in Ids : L!Admite(x, d) /\ L!Pone(x, d)
        BY <1>1 DEF L!Crear
  <2>3. L!Terminar(p) /\ UNCHANGED contacto
        BY <1>1 DEF L!Crear
  <2> HIDE DEF d
  <2> QED
        BY <2>1, <2>2, <2>3, L_Escribe
<1>2. ASSUME NEW k \in RFCs \cup {Nada}, NEW x \in Ids, L!Editar(p, x, k) PROVE L_IInv'
  <2> DEFINE d == [cliente[x] EXCEPT !.rfc = k]
  <2>1. cliente[x] # Nada
        BY <1>2 DEF L!Editar, L!Existentes
  <2>2. d \in L!Cliente
        BY <2>1, L_Documentos DEF L_IInv
  <2>3. L!Admite(x, d) /\ L!Pone(x, d) /\ L!Terminar(p) /\ UNCHANGED contacto
        BY <1>2 DEF L!Editar
  <2> HIDE DEF d
  <2> QED
        BY <2>2, <2>3, L_Escribe
<1>3. ASSUME NEW x \in Ids, L!Quitar(p, x) PROVE L_IInv'
  <2> DEFINE d == [cliente[x] EXCEPT !.activo = FALSE]
  <2>1. cliente[x] # Nada
        BY <1>3 DEF L!Quitar, L!Existentes
  <2>2. d \in L!Cliente /\ d.activo = FALSE
        BY <2>1, L_Documentos DEF L_IInv, L!Estado, L!Cliente
  <2>3. L!Pone(x, d) /\ L!Terminar(p) /\ UNCHANGED contacto
        BY <1>3 DEF L!Quitar
  <2> HIDE DEF d
  <2>4. L!Admite(x, d)
        BY <2>2 DEF L!Admite
  <2> QED
        BY <2>2, <2>3, <2>4, L_Escribe
<1>4. ASSUME L!GuardaCliente(p) PROVE L_IInv'
  <2>1. petL[p] \in L!Peticion /\ petL[p].pc = "guardaCliente" /\ L_Presente(p)
        BY <1>4 DEF L!GuardaCliente, L_IInv, L!TypeOK
  <2>2. /\ petL[p].doc \in Ids /\ petL[p].previo \in BOOLEAN
        /\ cliente[petL[p].doc] # Nada
        BY <2>1 DEF L!Peticion, L_Presente
  <2> PICK x \in Ids : x = petL[p].doc
      BY <2>2
  <2> DEFINE d == [cliente[x] EXCEPT !.activo = ~petL[p].previo]
  <2>3. d \in L!Cliente
    <3>1. (~petL[p].previo) \in L!Estado
          BY <2>2 DEF L!Estado
    <3> QED
          BY <2>2, <3>1, L_Documentos DEF L_IInv
  <2>4. /\ L!Terminar(p) /\ UNCHANGED contacto
        /\ (L!Admite(x, d) /\ L!Pone(x, d)) \/ UNCHANGED cliente
        BY <1>4 DEF L!GuardaCliente
  <2> HIDE DEF d
  <2>5. CASE L!Admite(x, d) /\ L!Pone(x, d)
        BY <2>3, <2>4, <2>5, L_Escribe
  <2>6. CASE UNCHANGED cliente
        BY <2>4, <2>6, L_Callan
  <2> QED
        BY <2>4, <2>5, <2>6
<1> QED
    BY <1>1, <1>2, <1>3, <1>4

LEMMA L_Piden ==
    ASSUME L_IInv, NEW p \in Tramites, NEW r \in L!Peticion, L!Seguir(p, r),
           r.pc \in {"contactoNuevo", "guardaCliente"} => cliente[r.doc] # Nada,
           r.pc \in {"alternaContacto", "quitaContacto", "guardaContacto"} =>
                contacto[r.doc] # Nada,
           UNCHANGED <<cliente, contacto>>
    PROVE  L_IInv'
<1>1. /\ petL' \in [Tramites -> L!Peticion] /\ petL'[p] = r
      /\ \A q \in Tramites \ {p} : petL'[q] = petL[q]
    BY L_Sigue DEF L_IInv
<1>2. L_Presente(p)'
    BY <1>1 DEF L_Presente
<1> QED
    BY <1>1, <1>2, L_Resto DEF L_IInv, L!TypeOK, L_DeAlguien

LEMMA L_Peticiones ==
    ASSUME L_IInv, NEW p \in Tramites,
           \/ \E x \in Ids :
                \/ L!Alternar(p, x) \/ L!PedirContacto(p, x)
                \/ \E y \in Contactos, pc \in {"alternaContacto", "quitaContacto"} :
                    L!PedirDeContacto(p, x, y, pc)
           \/ L!AlternaContacto(p) \/ L!Falla(p)
    PROVE  L_IInv'
<1>1. ASSUME NEW x \in Ids, L!Alternar(p, x) PROVE L_IInv'
  <2> DEFINE r == [pc |-> "guardaCliente", doc |-> x, previo |-> L!Visible(cliente[x])]
  <2>1. r \in L!Peticion /\ r.pc = "guardaCliente" /\ r.doc = x
        BY DEF L!Peticion, L!Visible
  <2>2. L!Seguir(p, r) /\ cliente[x] # Nada /\ UNCHANGED <<cliente, contacto>>
        BY <1>1 DEF L!Alternar, L!Existentes
  <2> HIDE DEF r
  <2> QED
        BY <2>1, <2>2, L_Piden
<1>2. ASSUME NEW x \in Ids, L!PedirContacto(p, x) PROVE L_IInv'
  <2> DEFINE r == [pc |-> "contactoNuevo", doc |-> x]
  <2>1. r \in L!Peticion /\ r.pc = "contactoNuevo" /\ r.doc = x
        BY DEF L!Peticion
  <2>2. L!Seguir(p, r) /\ cliente[x] # Nada /\ UNCHANGED <<cliente, contacto>>
        BY <1>2 DEF L!PedirContacto, L!Existentes
  <2> HIDE DEF r
  <2> QED
        BY <2>1, <2>2, L_Piden
<1>3. ASSUME NEW x \in Ids, NEW y \in Contactos, NEW pc \in {"alternaContacto", "quitaContacto"},
             L!PedirDeContacto(p, x, y, pc)
      PROVE  L_IInv'
  <2> DEFINE r == [pc |-> pc, doc |-> y]
  <2>1. r \in L!Peticion /\ r.pc = pc /\ r.doc = y
        BY DEF L!Peticion
  <2>2. L!Seguir(p, r) /\ contacto[y] # Nada /\ UNCHANGED <<cliente, contacto>>
        BY <1>3 DEF L!PedirDeContacto
  <2> HIDE DEF r
  <2> QED
        BY <2>1, <2>2, L_Piden
<1>4. ASSUME L!AlternaContacto(p) PROVE L_IInv'
  <2>1. petL[p] \in L!Peticion /\ petL[p].pc = "alternaContacto" /\ L_Presente(p)
        BY <1>4 DEF L!AlternaContacto, L_IInv, L!TypeOK
  <2>2. petL[p].doc \in Contactos /\ contacto[petL[p].doc] # Nada
        BY <2>1 DEF L!Peticion, L_Presente
  <2> DEFINE r == [pc |-> "guardaContacto", doc |-> petL[p].doc,
                   previo |-> L!Visible(contacto[petL[p].doc])]
  <2>3. r \in L!Peticion /\ r.pc = "guardaContacto" /\ r.doc = petL[p].doc
        BY <2>2 DEF L!Peticion, L!Visible
  <2>4. L!Seguir(p, r) /\ UNCHANGED <<cliente, contacto>>
        BY <1>4 DEF L!AlternaContacto
  <2> HIDE DEF r
  <2> QED
        BY <2>2, <2>3, <2>4, L_Piden
<1>5. ASSUME L!Falla(p) PROVE L_IInv'
    BY <1>5, L_Callan DEF L!Falla
<1> QED
    BY <1>1, <1>2, <1>3, <1>4, <1>5

LEMMA L_Contactos ==
    ASSUME L_IInv, NEW p \in Tramites,
           L!InsertaContacto(p) \/ L!GuardaContacto(p) \/ L!QuitaContacto(p)
    PROVE  L_IInv'
<1>1. /\ petL' \in [Tramites -> L!Peticion] /\ petL'[p] = [pc |-> "hecha"]
      /\ \A q \in Tramites \ {p} : petL'[q] = petL[q]
    BY L_Terminan DEF L_IInv, L!InsertaContacto, L!GuardaContacto, L!QuitaContacto
<1>2. L_Presente(p)' /\ petL[p] \in L!Peticion /\ L_Presente(p) /\ UNCHANGED cliente
    BY <1>1 DEF L_Presente, L_IInv, L!TypeOK, L!InsertaContacto, L!GuardaContacto,
                L!QuitaContacto
<1>3. ASSUME NEW y \in Contactos, NEW d \in L!Contacto, contacto' = [contacto EXCEPT ![y] = d],
             cliente[d.cliente] # Nada
      PROVE  L_IInv'
  <2>1. /\ contacto' \in [Contactos -> L!Contacto \cup {Nada}] /\ contacto'[y] = d
        /\ \A z \in Contactos \ {y} : contacto'[z] = contacto[z]
        BY <1>3 DEF L_IInv, L!TypeOK
  <2>2. d # Nada
        BY ParametersAssumption DEF L!ConstantsOK, L!Contacto
  <2>3. \A z \in Contactos : contacto'[z] # Nada => cliente[contacto'[z].cliente] # Nada
        BY <1>3, <2>1 DEF L_IInv, L_DeAlguien
  <2> QED
        BY <1>1, <1>2, <2>1, <2>2, <2>3, L_Resto
<1>4. ASSUME L!InsertaContacto(p) PROVE L_IInv'
  <2>1. petL[p].pc = "contactoNuevo"
        BY <1>4 DEF L!InsertaContacto
  <2>2. petL[p].doc \in Ids /\ cliente[petL[p].doc] # Nada
        BY <1>2, <2>1 DEF L!Peticion, L_Presente
  <2>3. [cliente |-> petL[p].doc, activo |-> TRUE] \in L!Contacto
        BY <2>2 DEF L!Contacto, L!Estado
  <2> QED
        BY <1>3, <1>4, <2>2, <2>3 DEF L!InsertaContacto
<1>5. ASSUME NEW y \in Contactos, contacto[y] # Nada, NEW a \in L!Estado,
             contacto' = [contacto EXCEPT ![y] = [contacto[y] EXCEPT !.activo = a]]
      PROVE  L_IInv'
  <2>1. contacto[y] \in L!Contacto /\ cliente[contacto[y].cliente] # Nada
        BY <1>5 DEF L_IInv, L!TypeOK, L_DeAlguien
  <2>2. /\ [contacto[y] EXCEPT !.activo = a] \in L!Contacto
        /\ [contacto[y] EXCEPT !.activo = a].cliente = contacto[y].cliente
        BY <2>1 DEF L!Contacto
  <2> QED
        BY <1>3, <1>5, <2>1, <2>2
<1>6. ASSUME L!GuardaContacto(p) PROVE L_IInv'
  <2>1. petL[p].pc = "guardaContacto"
        BY <1>6 DEF L!GuardaContacto
  <2>2. petL[p].doc \in Contactos /\ contacto[petL[p].doc] # Nada /\ petL[p].previo \in BOOLEAN
        BY <1>2, <2>1 DEF L!Peticion, L_Presente
  <2>3. (~petL[p].previo) \in L!Estado
        BY <2>2 DEF L!Estado
  <2> QED
        BY <1>5, <1>6, <2>2, <2>3 DEF L!GuardaContacto
<1>7. ASSUME L!QuitaContacto(p) PROVE L_IInv'
  <2>1. petL[p].pc = "quitaContacto"
        BY <1>7 DEF L!QuitaContacto
  <2>2. petL[p].doc \in Contactos /\ contacto[petL[p].doc] # Nada /\ FALSE \in L!Estado
        BY <1>2, <2>1 DEF L!Peticion, L_Presente, L!Estado
  <2> QED
        BY <1>5, <1>7, <2>2 DEF L!QuitaContacto
<1> QED
    BY <1>4, <1>6, <1>7

LEMMA L_Inicio ==
    ASSUME L!Init
    PROVE  L_IInv
<1>1. [pc |-> "libre"] \in L!Peticion
    BY DEF L!Peticion
<1>2. [rfc : RFCs, activo : {TRUE, Ausente}] \subseteq L!Cliente
  <2>1. {TRUE, Ausente} \subseteq L!Estado
        BY DEF L!Estado
  <2> QED
        BY <2>1 DEF L!Cliente
<1>3. Ausente \in L!Estado /\ L!Existentes \subseteq Ids
    BY DEF L!Estado, L!Existentes
<1>4. [cliente : L!Existentes, activo : {Ausente}] \subseteq L!Contacto
    BY <1>3 DEF L!Contacto
<1>5. /\ cliente \in [Ids -> L!Cliente \cup {Nada}]
      /\ contacto \in [Contactos -> L!Contacto \cup {Nada}]
    BY <1>2, <1>4 DEF L!Init
<1>6. L!TypeOK
    BY <1>1, <1>5 DEF L!Init, L!TypeOK
<1>7. L_DeAlguien
    BY DEF L!Init, L_DeAlguien, L!Existentes
<1>8. \A p \in Tramites : L_Presente(p)
    BY DEF L!Init, L_Presente
<1> QED
    BY <1>6, <1>7, <1>8 DEF L_IInv

LEMMA L_Paso ==
    ASSUME L_IInv, [L!Next]_varsL
    PROVE  L_IInv'
<1>1. CASE UNCHANGED varsL
    BY <1>1 DEF varsL, L_IInv, L!TypeOK, L_DeAlguien, L_Presente
<1> QED
    BY <1>1, L_Clientes, L_Peticiones, L_Contactos DEF L!Next

-----------------------------------------------------------------------------
(* Importacion: the inductive invariant *)

\* A request that has begun
I_Ficha ==
    [pc : I!Pasos \cup {"hecha"}, filas : Archivos, i : Nat, nombres : SUBSET Nombres,
     codigos : SUBSET Codigos, creadas : Nat, fallidas : Nat, vacias : Nat]

\* The rows before the one in turn have been counted; the one that goes on is valid
\* and repeats nothing.
I_Cuadra(r) ==
    /\ r.creadas + r.fallidas + r.vacias + 1 = r.i /\ r.i <= Len(r.filas) + 1
    /\ r.pc = "hecha" => r.i = Len(r.filas) + 1
    /\ r.pc \in {"categoria", "guarda"} =>
        /\ r.i <= Len(r.filas)
        /\ r.filas[r.i].clase = "valida" /\ ~I!Repetida(r, r.filas[r.i])

\* What the request remembers of an item
I_Sabido(r, d) == d.nombre \in r.nombres

I_Distintos(p) ==
    \A x \in hechos[p] \cup perdidos[p], y \in hechos[p] \cup vistos[p] :
        y < x => item[x].nombre # item[y].nombre

\* The counts are those of what the import did.
I_Cuenta(p) ==
    /\ petI[p].creadas = Cardinality(hechos[p])
    /\ Cardinality(perdidos[p]) <= petI[p].fallidas

I_Bien(p) ==
    /\ IsFiniteSet(hechos[p]) /\ IsFiniteSet(perdidos[p]) /\ hechos[p] \cap perdidos[p] = {}
    /\ petI[p].pc \notin {"libre", "caida"} => I_Cuadra(petI[p]) /\ I_Cuenta(p)
    /\ petI[p].pc \in {"libre", "lee"} =>
            hechos[p] = {} /\ vistos[p] = {} /\ perdidos[p] = {}
    /\ petI[p].pc \notin {"libre", "lee", "caida"} =>
            \A x \in hechos[p] \cup vistos[p] : I_Sabido(petI[p], item[x])
    /\ I_Distintos(p)

I_IInv == I!TypeOK /\ \A p \in Peticiones : I_Bien(p)

-----------------------------------------------------------------------------
(* Importacion: steps *)

LEMMA I_Fichas ==
    /\ \A r \in I!Peticion : r.pc \notin {"libre", "caida"} => r \in I_Ficha
    /\ I_Ficha \subseteq I!Peticion
    /\ \A r \in I_Ficha : r.filas \in Seq(I!Fila) /\ Len(r.filas) \in Nat
<1>1. \A r \in I_Ficha : r.filas \in Seq(I!Fila)
    BY ParametersAssumption DEF I!ConstantsOK, I_Ficha
<1> QED
    BY <1>1 DEF I!Peticion, I_Ficha, I!Pasos

\* Items are only added.
I_Crece ==
    /\ item' \in Seq(I!Item)
    /\ DOMAIN item \subseteq DOMAIN item' /\ \A x \in DOMAIN item : item'[x] = item[x]

I_Otros(p) ==
    \A q \in Peticiones \ {p} :
        /\ petI'[q] = petI[q] /\ hechos'[q] = hechos[q] /\ vistos'[q] = vistos[q]
        /\ perdidos'[q] = perdidos[q]

\* A request that others overtake finds its items as it left them.
LEMMA I_Ajenas ==
    ASSUME I_IInv, I_Crece, NEW q \in Peticiones, petI'[q] = petI[q], hechos'[q] = hechos[q],
           vistos'[q] = vistos[q], perdidos'[q] = perdidos[q]
    PROVE  I_Bien(q)'
<1>1. /\ hechos[q] \subseteq DOMAIN item /\ vistos[q] \subseteq DOMAIN item
      /\ perdidos[q] \subseteq DOMAIN item /\ I_Bien(q)
    BY DEF I_IInv, I!TypeOK, I!Guardados
<1>2. \A x \in hechos[q] \cup vistos[q] \cup perdidos[q] : item'[x] = item[x]
    BY <1>1 DEF I_Crece
<1>3. I_Distintos(q)'
    BY <1>1, <1>2 DEF I_Bien, I_Distintos
<1> QED
    BY <1>1, <1>2, <1>3 DEF I_Bien, I_Cuadra, I_Cuenta, I_Sabido, I!Repetida

\* A step of the import p
LEMMA I_Da ==
    ASSUME I_IInv, NEW p \in Peticiones, NEW r \in I!Peticion, I!Seguir(p, r), I_Crece,
           hechos' \in [Peticiones -> SUBSET DOMAIN item'],
           vistos' \in [Peticiones -> SUBSET DOMAIN item'],
           perdidos' \in [Peticiones -> SUBSET DOMAIN item'],
           \A q \in Peticiones \ {p} : /\ hechos'[q] = hechos[q] /\ vistos'[q] = vistos[q]
                                       /\ perdidos'[q] = perdidos[q],
           UNCHANGED <<activas, ajenosI>>,
           petI'[p] = r => I_Bien(p)'
    PROVE  I_IInv'
<1>1. petI' \in [Peticiones -> I!Peticion] /\ I_Otros(p) /\ petI'[p] = r
    BY DEF I_IInv, I!TypeOK, I!Seguir, I_Otros
<1>2. I!TypeOK'
    BY <1>1 DEF I_IInv, I!TypeOK, I_Crece, I!Guardados
<1>3. \A q \in Peticiones \ {p} : I_Bien(q)'
    BY <1>1, I_Ajenas DEF I_Otros
<1> QED
    BY <1>1, <1>2, <1>3 DEF I_IInv

\* A row that is dealt with and creates nothing that counts
LEMMA I_Avanza ==
    ASSUME I_IInv, NEW p \in Peticiones, petI[p].pc \in {"fila", "categoria", "guarda"},
           NEW r \in I_Ficha, I!Seguir(p, r), I_Crece, I_Cuadra(r), r.pc # "lee",
           r.nombres = petI[p].nombres, r.codigos = petI[p].codigos,
           r.creadas = petI[p].creadas, r.fallidas >= petI[p].fallidas,
           UNCHANGED <<activas, hechos, vistos, perdidos, ajenosI>>
    PROVE  I_IInv'
<1>1. r \in I!Peticion /\ r.pc \notin {"libre", "caida"}
    BY I_Fichas DEF I_Ficha, I!Pasos
<1>2. /\ hechos' \in [Peticiones -> SUBSET DOMAIN item']
      /\ vistos' \in [Peticiones -> SUBSET DOMAIN item']
      /\ perdidos' \in [Peticiones -> SUBSET DOMAIN item']
      /\ hechos[p] \subseteq DOMAIN item /\ vistos[p] \subseteq DOMAIN item
      /\ perdidos[p] \subseteq DOMAIN item
    BY DEF I_IInv, I!TypeOK, I_Crece, I!Guardados
<1>3. \A x \in hechos[p] \cup vistos[p] \cup perdidos[p] : item'[x] = item[x]
    BY <1>2 DEF I_Crece
<1>4. I_Bien(p) /\ petI[p].pc \notin {"libre", "lee", "caida"}
    BY DEF I_IInv
<1>5. Cardinality(perdidos[p]) <= r.fallidas
  <2>1. petI[p] \in I_Ficha /\ IsFiniteSet(perdidos[p])
        BY <1>4, I_Fichas DEF I_IInv, I!TypeOK, I_Bien
  <2>2. /\ Cardinality(perdidos[p]) \in Nat /\ petI[p].fallidas \in Nat /\ r.fallidas \in Nat
        BY <2>1, FS_CardinalityType DEF I_Ficha
  <2>3. Cardinality(perdidos[p]) <= petI[p].fallidas
        BY <1>4 DEF I_Bien, I_Cuenta
  <2> QED
        BY <2>2, <2>3
<1>6. I_Distintos(p)'
    BY <1>3, <1>4 DEF I_Bien, I_Distintos
<1>7. ASSUME petI'[p] = r PROVE I_Bien(p)'
    BY <1>1, <1>3, <1>4, <1>5, <1>6, <1>7
    DEF I_Bien, I_Sabido, I_Cuadra, I_Cuenta, I!Repetida
<1> QED
    BY <1>1, <1>2, <1>7, I_Da

LEMMA I_Empiezan ==
    ASSUME I_IInv, NEW p \in Peticiones,
           \/ \E a \in Archivos : I!Importar(p, a)
           \/ I!LeeCatalogo(p)
    PROVE  I_IInv'
<1>0. /\ hechos \in [Peticiones -> SUBSET DOMAIN item] /\ vistos \in [Peticiones -> SUBSET DOMAIN item]
      /\ perdidos \in [Peticiones -> SUBSET DOMAIN item]
      /\ I_Bien(p) /\ item \in Seq(I!Item) /\ petI[p] \in I!Peticion
    BY DEF I_IInv, I!TypeOK, I!Guardados
<1>1. ASSUME NEW a \in Archivos, I!Importar(p, a) PROVE I_IInv'
  <2> DEFINE r == [pc |-> "lee", filas |-> a, i |-> 1, nombres |-> {}, codigos |-> {},
                   creadas |-> 0, fallidas |-> 0, vacias |-> 0]
  <2>1. /\ r \in I_Ficha /\ r.pc = "lee" /\ r.filas = a /\ r.i = 1
        /\ r.creadas = 0 /\ r.fallidas = 0 /\ r.vacias = 0
        BY DEF I_Ficha, I!Pasos
  <2>2. /\ petI[p].pc = "libre" /\ I!Seguir(p, r)
        /\ UNCHANGED <<item, activas, hechos, vistos, perdidos, ajenosI>>
        BY <1>1 DEF I!Importar
  <2> HIDE DEF r
  <2>3. hechos[p] = {} /\ vistos[p] = {} /\ perdidos[p] = {}
        BY <1>0, <1>1, <2>2 DEF I_Bien
  <2>4. I_Cuadra(r)
        BY <2>1, I_Fichas DEF I_Cuadra
  <2>5. ASSUME petI'[p] = r PROVE I_Bien(p)'
        BY <2>1, <2>2, <2>3, <2>4, <2>5, FS_EmptySet
        DEF I_Bien, I_Distintos, I_Cuadra, I_Cuenta
  <2> QED
        BY <1>0, <2>1, <2>2, <2>5, I_Da, I_Fichas DEF I_Crece
<1>2. ASSUME I!LeeCatalogo(p) PROVE I_IInv'
  <2> DEFINE nombres == {item[x].nombre : x \in I!Guardados}
             codigos == {item[x].codigo : x \in I!Guardados} \ {Nada}
             r == [petI[p] EXCEPT !.pc = "fila", !.nombres = nombres, !.codigos = codigos]
  <2>1. /\ petI[p].pc = "lee" /\ I!Seguir(p, r) /\ vistos' = [vistos EXCEPT ![p] = DOMAIN item]
        /\ UNCHANGED <<item, activas, hechos, perdidos, ajenosI>>
        BY <1>2 DEF I!LeeCatalogo, I!Guardados
  <2>2. petI[p] \in I_Ficha /\ hechos[p] = {} /\ perdidos[p] = {}
        BY <1>0, <2>1, I_Fichas DEF I_Bien
  <2>3. \A x \in DOMAIN item : /\ item[x] \in I!Item
                               /\ item[x].nombre \in nombres
                               /\ item[x].codigo \in codigos \cup {Nada}
        BY <1>0 DEF I!Guardados
  <2>4. nombres \subseteq Nombres /\ codigos \subseteq Codigos
        BY <2>3 DEF I!Item, I!Guardados
  <2> HIDE DEF nombres, codigos
  <2>5. /\ r \in I_Ficha /\ r.pc = "fila" /\ r.filas = petI[p].filas /\ r.i = petI[p].i
        /\ r.nombres = nombres /\ r.codigos = codigos /\ r.creadas = petI[p].creadas
        /\ r.fallidas = petI[p].fallidas /\ r.vacias = petI[p].vacias
        BY <2>2, <2>4 DEF I_Ficha, I!Pasos
  <2> HIDE DEF r
  <2>6. I_Cuadra(r)
        BY <1>0, <2>1, <2>5 DEF I_Bien, I_Cuadra
  <2>7. ASSUME petI'[p] = r PROVE I_Bien(p)'
    <3>1. hechos'[p] = {} /\ vistos'[p] = DOMAIN item /\ perdidos'[p] = {}
          BY <1>0, <2>1, <2>2
    <3>2. I_Distintos(p)'
          BY <3>1 DEF I_Distintos
    <3>3. \A x \in DOMAIN item : I_Sabido(r, item[x])
          BY <2>3, <2>5 DEF I_Sabido
    <3> QED
          BY <1>0, <2>1, <2>2, <2>5, <2>6, <2>7, <3>1, <3>2, <3>3
          DEF I_Bien, I_Sabido, I_Cuadra, I_Cuenta, I!Repetida
  <2> QED
        BY <1>0, <2>1, <2>5, <2>7, I_Da, I_Fichas DEF I_Crece
<1> QED
    BY <1>1, <1>2

\* x is r at another step, with other counts.
I_Tras(r, x, pc, i, fallidasX, vaciasX) ==
    /\ x \in I_Ficha /\ x.pc = pc /\ x.i = i /\ x.fallidas = fallidasX /\ x.vacias = vaciasX
    /\ x.filas = r.filas /\ x.nombres = r.nombres /\ x.codigos = r.codigos
    /\ x.creadas = r.creadas

\* The ways a step of a row ends without creating anything that counts
LEMMA I_Finales ==
    ASSUME NEW r \in I_Ficha
    PROVE  /\ I_Tras(r, I!Siguiente(r), "fila", r.i + 1, r.fallidas, r.vacias)
           /\ I_Tras(r, I!Fallida(r), "fila", r.i + 1, r.fallidas + 1, r.vacias)
           /\ I_Tras(r, [I!Siguiente(r) EXCEPT !.vacias = r.vacias + 1], "fila", r.i + 1,
                     r.fallidas, r.vacias + 1)
           /\ \A pc \in I!Pasos \cup {"hecha"} :
                I_Tras(r, [r EXCEPT !.pc = pc], pc, r.i, r.fallidas, r.vacias)
<1>1. I_Tras(r, I!Siguiente(r), "fila", r.i + 1, r.fallidas, r.vacias)
  <2> DEFINE x == [r EXCEPT !.i = r.i + 1, !.pc = "fila"]
  <2>3. r.i + 1 \in Nat /\ "fila" \in I!Pasos
        BY DEF I_Ficha, I!Pasos
  <2>1. /\ x \in I_Ficha /\ x.pc = "fila" /\ x.i = r.i + 1 /\ x.filas = r.filas
        /\ x.nombres = r.nombres /\ x.codigos = r.codigos
        /\ x.creadas = r.creadas /\ x.fallidas = r.fallidas /\ x.vacias = r.vacias
        BY <2>3 DEF I_Ficha
  <2>2. I!Siguiente(r) = x
        BY DEF I!Siguiente
  <2> HIDE DEF x
  <2> QED
        BY <2>1, <2>2 DEF I_Tras
<1>2. PICK y \in I_Ficha : y = I!Siguiente(r)
    BY <1>1 DEF I_Tras
<1>3. I_Tras(r, [y EXCEPT !.fallidas = r.fallidas + 1], "fila", r.i + 1, r.fallidas + 1, r.vacias)
    BY <1>1, <1>2 DEF I_Tras, I_Ficha
<1>4. I_Tras(r, [y EXCEPT !.vacias = r.vacias + 1], "fila", r.i + 1, r.fallidas, r.vacias + 1)
    BY <1>1, <1>2 DEF I_Tras, I_Ficha
<1>5. \A pc \in I!Pasos \cup {"hecha"} :
        I_Tras(r, [r EXCEPT !.pc = pc], pc, r.i, r.fallidas, r.vacias)
    BY DEF I_Tras, I_Ficha
<1> QED
    BY <1>1, <1>2, <1>3, <1>4, <1>5 DEF I!Fallida

LEMMA I_Suma ==
    ASSUME NEW a \in Nat, NEW b \in Nat, NEW c \in Nat, NEW i \in Nat, a + b + c + 1 = i
    PROVE  /\ (a + 1) + b + c + 1 = i + 1 /\ a + (b + 1) + c + 1 = i + 1
           /\ a + b + (c + 1) + 1 = i + 1
OBVIOUS

LEMMA I_Filas ==
    ASSUME I_IInv, NEW p \in Peticiones, I!TomaFila(p) \/ I!BuscaCategoria(p)
    PROVE  I_IInv'
<1> DEFINE e == petI[p]
<1>1. /\ e.pc \in {"fila", "categoria"} /\ I_Cuadra(e)
      /\ UNCHANGED <<item, activas, hechos, vistos, perdidos, ajenosI>>
    BY DEF I!TomaFila, I!BuscaCategoria, I_IInv, I_Bien
<1>2. e \in I_Ficha
    BY <1>1, I_Fichas DEF I_IInv, I!TypeOK
<1>3. /\ e.creadas \in Nat /\ e.fallidas \in Nat /\ e.vacias \in Nat /\ e.i \in Nat
      /\ Len(e.filas) \in Nat /\ e.filas \in Seq(I!Fila)
    BY <1>2, I_Fichas DEF I_Ficha
<1>4. I_Crece
    BY <1>1 DEF I_Crece, I_IInv, I!TypeOK
<1>5. ASSUME NEW x, I!Seguir(p, x),
             \/ /\ e.i <= Len(e.filas)
                /\ \/ I_Tras(e, x, "fila", e.i + 1, e.fallidas + 1, e.vacias)
                   \/ I_Tras(e, x, "fila", e.i + 1, e.fallidas, e.vacias + 1)
             \/ I_Tras(e, x, "hecha", e.i, e.fallidas, e.vacias) /\ e.i > Len(e.filas)
             \/ /\ \E pc \in {"categoria", "guarda"} :
                    I_Tras(e, x, pc, e.i, e.fallidas, e.vacias)
                /\ e.i <= Len(e.filas)
                /\ e.filas[e.i].clase = "valida" /\ ~I!Repetida(e, e.filas[e.i])
      PROVE  I_IInv'
  <2>1. /\ x \in I_Ficha /\ x.nombres = e.nombres /\ x.codigos = e.codigos
        /\ x.creadas = e.creadas /\ x.filas = e.filas /\ x.pc # "lee"
        BY <1>5 DEF I_Tras
  <2>2. /\ e.creadas + e.fallidas + e.vacias + 1 = e.i /\ e.i <= Len(e.filas) + 1
        BY <1>1 DEF I_Cuadra
  <2>3. /\ x.creadas + x.fallidas + x.vacias + 1 = x.i /\ x.i <= Len(x.filas) + 1
        /\ x.pc = "hecha" => x.i = Len(x.filas) + 1
    <3>1. CASE I_Tras(e, x, "hecha", e.i, e.fallidas, e.vacias) /\ e.i > Len(e.filas)
          BY <1>3, <2>1, <2>2, <3>1 DEF I_Tras
    <3>2. CASE /\ e.i <= Len(e.filas)
               /\ \/ I_Tras(e, x, "fila", e.i + 1, e.fallidas + 1, e.vacias)
                  \/ I_Tras(e, x, "fila", e.i + 1, e.fallidas, e.vacias + 1)
      <4>1. /\ x.i = e.i + 1
            /\ \/ x.fallidas = e.fallidas + 1 /\ x.vacias = e.vacias
               \/ x.fallidas = e.fallidas /\ x.vacias = e.vacias + 1
            BY <3>2 DEF I_Tras
      <4>2. x.pc # "hecha"
            BY <3>2 DEF I_Tras
      <4>3. x.creadas = e.creadas /\ x.filas = e.filas /\ e.i <= Len(e.filas)
            BY <2>1, <3>2
      <4> HIDE DEF e
      <4>4. /\ e.creadas \in Nat /\ e.fallidas \in Nat /\ e.vacias \in Nat /\ e.i \in Nat
            /\ Len(e.filas) \in Nat
            BY <1>3
      <4>5. x.creadas + x.fallidas + x.vacias + 1 = x.i
            BY <2>2, <4>1, <4>3, <4>4, I_Suma
      <4>6. x.i <= Len(x.filas) + 1
            BY <4>1, <4>3, <4>4
      <4> QED
            BY <4>2, <4>5, <4>6
    <3>3. CASE \E pc \in {"categoria", "guarda"} :
                    I_Tras(e, x, pc, e.i, e.fallidas, e.vacias)
          BY <1>3, <2>1, <2>2, <3>3 DEF I_Tras
    <3> QED
          BY <1>5, <3>1, <3>2, <3>3
  <2>4. x.pc \in {"categoria", "guarda"} =>
            /\ x.i <= Len(x.filas)
            /\ x.filas[x.i].clase = "valida" /\ ~I!Repetida(x, x.filas[x.i])
        BY <1>5, <2>1 DEF I_Tras, I!Repetida
  <2>5. I_Cuadra(x)
        BY <2>3, <2>4 DEF I_Cuadra
  <2>6. x.fallidas >= e.fallidas
        BY <1>3, <1>5 DEF I_Tras
  <2> QED
        BY <1>1, <1>4, <1>5, <2>1, <2>5, <2>6, I_Avanza
<1>6. CASE I!TomaFila(p)
  <2>1. CASE e.i > Len(e.filas) /\ I!Seguir(p, [e EXCEPT !.pc = "hecha"])
        BY <1>2, <1>5, <2>1, I_Finales
  <2>2. CASE e.i <= Len(e.filas)
    <3> PICK f \in I!Fila : f = e.filas[e.i]
        BY <1>2, <1>3, <1>1, <2>2 DEF I_Cuadra
    <3>1. f.clase \in {"vacia", "invalida", "valida"}
          BY DEF I!Fila
    <3> DEFINE z == [I!Siguiente(e) EXCEPT !.vacias = e.vacias + 1]
    <3>5. I!Seguir(p, CASE f.clase = "vacia" -> z
                        [] f.clase = "invalida" \/ I!Repetida(e, f) -> I!Fallida(e)
                        [] OTHER -> [e EXCEPT !.pc = "categoria"])
          BY <1>3, <1>6, <2>2 DEF I!TomaFila
    <3>6. I_Tras(e, z, "fila", e.i + 1, e.fallidas, e.vacias + 1)
          BY <1>2, I_Finales
    <3> HIDE DEF z
    <3>2. CASE f.clase = "vacia"
      <4>0. ~I!Repetida(e, f)
        <5>1. f.nombre = Nada /\ f.codigo = Nada
              BY <3>2 DEF I!Fila
        <5>2. e.nombres \subseteq Nombres /\ e.codigos \subseteq Codigos
              BY <1>2 DEF I_Ficha
        <5> QED
              BY <5>1, <5>2, ParametersAssumption DEF I!ConstantsOK, I!Repetida
      <4>1. I!Seguir(p, z)
            BY <3>5, <3>2, <4>0
      <4> QED
            BY <1>5, <2>2, <3>6, <4>1
    <3>3. CASE f.clase # "vacia" /\ (f.clase = "invalida" \/ I!Repetida(e, f))
      <4>1. I!Seguir(p, I!Fallida(e))
            BY <3>1, <3>5, <3>3
      <4> QED
            BY <1>2, <1>5, <2>2, <4>1, I_Finales
    <3>4. CASE f.clase = "valida" /\ ~I!Repetida(e, f)
      <4>1. I!Seguir(p, [e EXCEPT !.pc = "categoria"])
            BY <3>1, <3>5, <3>4
      <4>2. I_Tras(e, [e EXCEPT !.pc = "categoria"], "categoria", e.i, e.fallidas, e.vacias)
            BY <1>2, I_Finales DEF I!Pasos
      <4> QED
            BY <1>5, <2>2, <3>4, <4>1, <4>2
    <3> QED
          BY <3>1, <3>2, <3>3, <3>4
  <2> QED
        BY <1>3, <1>6, <2>1, <2>2 DEF I!TomaFila
<1>7. CASE I!BuscaCategoria(p)
  <2>1. /\ e.i <= Len(e.filas) /\ e.filas[e.i].clase = "valida" /\ ~I!Repetida(e, e.filas[e.i])
        BY <1>1, <1>7 DEF I_Cuadra, I!BuscaCategoria
  <2>2. CASE I!Seguir(p, [e EXCEPT !.pc = "guarda"])
    <3>1. I_Tras(e, [e EXCEPT !.pc = "guarda"], "guarda", e.i, e.fallidas, e.vacias)
          BY <1>2, I_Finales DEF I!Pasos
    <3> QED
          BY <1>5, <2>1, <2>2, <3>1
  <2>3. CASE I!Seguir(p, I!Fallida(e))
        BY <1>2, <1>5, <2>1, <2>3, I_Finales
  <2> QED
        BY <1>7, <2>2, <2>3 DEF I!BuscaCategoria
<1> QED
    BY <1>6, <1>7

\* A new item
LEMMA I_Pone ==
    ASSUME item \in Seq(I!Item), NEW f, f.nombre \in Nombres, f.codigo \in Codigos \cup {Nada},
           I!Pone(f)
    PROVE  /\ I_Crece /\ DOMAIN item' = DOMAIN item \cup {I!Nuevo} /\ I!Nuevo \notin DOMAIN item
           /\ item'[I!Nuevo].nombre = f.nombre /\ item'[I!Nuevo].codigo = f.codigo
<1> DEFINE d == [nombre |-> f.nombre, codigo |-> f.codigo]
<1>1. d \in I!Item /\ d.nombre = f.nombre /\ d.codigo = f.codigo
    BY DEF I!Item
<1>2. item' = Append(item, d)
    BY DEF I!Pone
<1> HIDE DEF d
<1>3. /\ item' \in Seq(I!Item) /\ Len(item) \in Nat
      /\ DOMAIN item = 1..Len(item) /\ DOMAIN item' = 1..(Len(item) + 1)
      /\ \A x \in 1..Len(item) : item'[x] = item[x]
      /\ item'[Len(item) + 1] = d
    BY <1>1, <1>2
<1> QED
    BY <1>1, <1>3 DEF I_Crece, I!Nuevo

\* It repeats no name that the import remembers.
LEMMA I_Nueva ==
    ASSUME I_IInv, NEW p \in Peticiones, petI[p].pc = "guarda",
           NEW f, f = petI[p].filas[petI[p].i], f.nombre \in Nombres,
           f.codigo \in Codigos \cup {Nada}, I!Pone(f), UNCHANGED vistos,
           hechos'[p] \subseteq hechos[p] \cup {I!Nuevo},
           perdidos'[p] \subseteq perdidos[p] \cup {I!Nuevo}
    PROVE  I_Distintos(p)'
<1> DEFINE n == I!Nuevo
<1>1. /\ I_Bien(p) /\ I_Cuadra(petI[p]) /\ item \in Seq(I!Item)
      /\ hechos[p] \subseteq DOMAIN item /\ vistos[p] \subseteq DOMAIN item
      /\ perdidos[p] \subseteq DOMAIN item
    BY DEF I_IInv, I!TypeOK, I_Bien, I!Guardados
<1>2. f.nombre \notin petI[p].nombres
    BY <1>1 DEF I_Cuadra, I!Repetida
<1>3. I_Crece /\ item'[n].nombre = f.nombre
    BY <1>1, I_Pone
<1>4. n \in Nat /\ \A x \in DOMAIN item : x \in Nat /\ x < n
    BY <1>1 DEF I!Nuevo
<1> HIDE DEF n
<1>5. \A x \in hechos[p] \cup vistos[p] \cup perdidos[p] : item'[x] = item[x]
    BY <1>1, <1>3 DEF I_Crece
<1>6. ASSUME NEW x \in hechos'[p] \cup perdidos'[p], NEW y \in hechos'[p] \cup vistos'[p], y < x
      PROVE  item'[x].nombre # item'[y].nombre
  <2>1. y \in hechos[p] \cup vistos[p]
    <3>1. y # n
          BY <1>1, <1>4, <1>6 DEF n
    <3> QED
          BY <1>6, <3>1 DEF n
  <2>2. CASE x = n
    <3>1. item[y].nombre \in petI[p].nombres
          BY <1>1, <2>1 DEF I_Bien, I_Sabido
    <3> QED
          BY <1>2, <1>3, <1>5, <2>1, <2>2, <3>1
  <2>3. CASE x # n
    <3>1. x \in hechos[p] \cup perdidos[p]
          BY <1>6, <2>3 DEF n
    <3> QED
          BY <1>1, <1>5, <1>6, <2>1, <3>1 DEF I_Bien, I_Distintos
  <2> QED
        BY <2>2, <2>3
<1> QED
    BY <1>6 DEF I_Distintos

\* A row that is created and answered as failed
LEMMA I_Pierde ==
    ASSUME I_IInv, NEW p \in Peticiones, petI[p].pc = "guarda",
           NEW f, f = petI[p].filas[petI[p].i], f.nombre \in Nombres,
           f.codigo \in Codigos \cup {Nada}, I!Pone(f),
           NEW r \in I_Ficha, I!Seguir(p, r), I_Cuadra(r), r.pc = "fila",
           r.nombres = petI[p].nombres, r.creadas = petI[p].creadas,
           r.fallidas = petI[p].fallidas + 1,
           perdidos' = [perdidos EXCEPT ![p] = @ \cup {I!Nuevo}],
           UNCHANGED <<hechos, activas, vistos, ajenosI>>
    PROVE  I_IInv'
<1> DEFINE n == I!Nuevo
<1>1. /\ petI[p] \in I_Ficha /\ I_Bien(p) /\ item \in Seq(I!Item)
      /\ hechos \in [Peticiones -> SUBSET DOMAIN item] /\ vistos \in [Peticiones -> SUBSET DOMAIN item]
      /\ perdidos \in [Peticiones -> SUBSET DOMAIN item]
    BY I_Fichas DEF I_IInv, I!TypeOK, I!Guardados
<1>2. I_Crece /\ DOMAIN item' = DOMAIN item \cup {n} /\ n \notin DOMAIN item
    BY <1>1, I_Pone
<1> HIDE DEF n
<1>3. /\ perdidos'[p] = perdidos[p] \cup {n} /\ hechos'[p] = hechos[p] /\ vistos'[p] = vistos[p]
      /\ \A q \in Peticiones \ {p} : /\ hechos'[q] = hechos[q] /\ vistos'[q] = vistos[q]
                                    /\ perdidos'[q] = perdidos[q]
      /\ hechos' \in [Peticiones -> SUBSET DOMAIN item']
      /\ vistos' \in [Peticiones -> SUBSET DOMAIN item']
      /\ perdidos' \in [Peticiones -> SUBSET DOMAIN item']
    BY <1>1, <1>2 DEF n
<1>4. /\ IsFiniteSet(perdidos'[p]) /\ hechos'[p] \cap perdidos'[p] = {}
      /\ Cardinality(perdidos'[p]) <= r.fallidas
  <2>1. n \notin hechos[p] /\ n \notin perdidos[p] /\ IsFiniteSet(perdidos[p])
        BY <1>1, <1>2 DEF I_Bien
  <2>2. /\ Cardinality(perdidos[p]) <= petI[p].fallidas
        /\ Cardinality(perdidos[p]) \in Nat /\ petI[p].fallidas \in Nat
        BY <1>1, <2>1, FS_CardinalityType DEF I_Bien, I_Cuenta, I_Ficha
  <2>3. IsFiniteSet(perdidos'[p]) /\ Cardinality(perdidos'[p]) = Cardinality(perdidos[p]) + 1
        BY <1>3, <2>1, FS_AddElement
  <2>4. hechos'[p] \cap perdidos'[p] = {}
        BY <1>1, <1>3, <2>1 DEF I_Bien
  <2> QED
        BY <2>2, <2>3, <2>4
<1>5. \A x \in hechos'[p] \cup vistos'[p] : I_Sabido(r, item'[x])
    BY <1>1, <1>2, <1>3 DEF I_Bien, I_Sabido, I_Crece
<1>6. I_Distintos(p)'
    BY <1>3, I_Nueva DEF n
<1>7. ASSUME petI'[p] = r PROVE I_Bien(p)'
    BY <1>1, <1>3, <1>4, <1>5, <1>6, <1>7
    DEF I_Bien, I_Cuadra, I_Cuenta, I_Sabido, I!Repetida
<1> QED
    BY <1>2, <1>3, <1>7, I_Da, I_Fichas

\* A row that is created and counted
LEMMA I_Crea ==
    ASSUME I_IInv, NEW p \in Peticiones, petI[p].pc = "guarda",
           NEW f, f = petI[p].filas[petI[p].i], I!Pone(f),
           hechos' = [hechos EXCEPT ![p] = @ \cup {I!Nuevo}],
           I!Seguir(p, [I!Siguiente(petI[p]) EXCEPT
                            !.creadas = petI[p].creadas + 1,
                            !.nombres = petI[p].nombres \cup {f.nombre},
                            !.codigos = petI[p].codigos \cup ({f.codigo} \ {Nada})]),
           UNCHANGED <<perdidos, activas, vistos, ajenosI>>
    PROVE  I_IInv'
<1> DEFINE e == petI[p]
           n == I!Nuevo
<1>1. /\ e \in I_Ficha /\ I_Bien(p) /\ I_Cuadra(e) /\ item \in Seq(I!Item)
      /\ hechos \in [Peticiones -> SUBSET DOMAIN item] /\ vistos \in [Peticiones -> SUBSET DOMAIN item]
      /\ perdidos \in [Peticiones -> SUBSET DOMAIN item]
    BY I_Fichas DEF I_IInv, I!TypeOK, I_Bien, I!Guardados
<1>2. /\ e.creadas \in Nat /\ e.fallidas \in Nat /\ e.vacias \in Nat /\ e.i \in Nat
      /\ Len(e.filas) \in Nat /\ e.filas \in Seq(I!Fila) /\ e.creadas = Cardinality(hechos[p])
      /\ e.nombres \in SUBSET Nombres /\ e.codigos \in SUBSET Codigos
    BY <1>1, I_Fichas DEF I_Ficha, I_Bien, I_Cuenta
<1>3. /\ e.creadas + e.fallidas + e.vacias + 1 = e.i /\ e.i <= Len(e.filas)
      /\ f.clase = "valida" /\ f.nombre \notin e.nombres /\ f.codigo \notin e.codigos
    BY <1>1 DEF I_Cuadra, I!Repetida
<1>4. f \in I!Fila
    <2>1. e.i \in 1..Len(e.filas)
          BY <1>2, <1>3
    <2> QED
          BY <1>2, <2>1
<1>5. f.nombre \in Nombres /\ f.codigo \in Codigos \cup {Nada}
    BY <1>3, <1>4 DEF I!Fila
<1>6. /\ I_Crece /\ DOMAIN item' = DOMAIN item \cup {n} /\ n \notin DOMAIN item
      /\ item'[n].nombre = f.nombre /\ item'[n].codigo = f.codigo
    BY <1>1, <1>5, I_Pone
<1> DEFINE r == [I!Siguiente(e) EXCEPT !.creadas = e.creadas + 1,
                                       !.nombres = e.nombres \cup {f.nombre},
                                       !.codigos = e.codigos \cup ({f.codigo} \ {Nada})]
<1>7. /\ r \in I_Ficha /\ r.pc = "fila" /\ r.i = e.i + 1 /\ r.filas = e.filas
      /\ r.creadas = e.creadas + 1 /\ r.fallidas = e.fallidas /\ r.vacias = e.vacias
      /\ r.nombres = e.nombres \cup {f.nombre} /\ r.codigos = e.codigos \cup ({f.codigo} \ {Nada})
  <2>1. PICK y \in I_Ficha : y = I!Siguiente(e) /\ I_Tras(e, y, "fila", e.i + 1, e.fallidas, e.vacias)
        BY <1>1, I_Finales DEF I_Tras
  <2>2. /\ e.creadas + 1 \in Nat /\ e.nombres \cup {f.nombre} \in SUBSET Nombres
        /\ e.codigos \cup ({f.codigo} \ {Nada}) \in SUBSET Codigos
        BY <1>2, <1>5
  <2>3. r = [y EXCEPT !.creadas = e.creadas + 1, !.nombres = e.nombres \cup {f.nombre},
                      !.codigos = e.codigos \cup ({f.codigo} \ {Nada})]
        BY <2>1
  <2> HIDE DEF r
  <2> QED
        BY <2>1, <2>2, <2>3 DEF I_Tras, I_Ficha
<1>8. I!Seguir(p, r)
    OBVIOUS
<1> HIDE DEF r, n
<1>9. /\ hechos'[p] = hechos[p] \cup {n} /\ vistos'[p] = vistos[p] /\ perdidos'[p] = perdidos[p]
      /\ \A q \in Peticiones \ {p} : /\ hechos'[q] = hechos[q] /\ vistos'[q] = vistos[q]
                                    /\ perdidos'[q] = perdidos[q]
      /\ hechos' \in [Peticiones -> SUBSET DOMAIN item']
      /\ vistos' \in [Peticiones -> SUBSET DOMAIN item']
      /\ perdidos' \in [Peticiones -> SUBSET DOMAIN item']
      /\ hechos[p] \subseteq DOMAIN item /\ vistos[p] \subseteq DOMAIN item
      /\ perdidos[p] \subseteq DOMAIN item
    BY <1>1, <1>6 DEF n
<1>10. I_Cuadra(r)
  <2>1. r.creadas + r.fallidas + r.vacias + 1 = r.i
        BY <1>2, <1>3, <1>7, I_Suma
  <2>2. r.i <= Len(r.filas) + 1
        BY <1>2, <1>3, <1>7
  <2> QED
        BY <1>7, <2>1, <2>2 DEF I_Cuadra
<1>11. /\ IsFiniteSet(hechos'[p]) /\ r.creadas = Cardinality(hechos'[p])
       /\ IsFiniteSet(perdidos'[p]) /\ Cardinality(perdidos'[p]) <= r.fallidas
       /\ hechos'[p] \cap perdidos'[p] = {}
  <2>1. n \notin hechos[p] /\ IsFiniteSet(hechos[p])
        BY <1>1, <1>6, <1>9 DEF I_Bien
  <2> QED
        BY <1>1, <1>2, <1>6, <1>7, <1>9, <2>1, FS_AddElement DEF I_Bien, I_Cuenta
<1>12. \A x \in hechos[p] \cup vistos[p] : item'[x] = item[x] /\ I_Sabido(e, item[x])
    BY <1>1, <1>6, <1>9 DEF I_Bien, I_Crece
<1>13. \A x \in hechos'[p] \cup vistos'[p] : I_Sabido(r, item'[x])
    BY <1>6, <1>7, <1>9, <1>12 DEF I_Sabido
<1>14. I_Distintos(p)'
    BY <1>5, <1>9, I_Nueva DEF n
<1>15. ASSUME petI'[p] = r PROVE I_Bien(p)'
    BY <1>7, <1>10, <1>11, <1>13, <1>14, <1>15
    DEF I_Bien, I_Cuadra, I_Cuenta, I_Sabido, I!Repetida
<1> QED
    BY <1>1, <1>6, <1>7, <1>8, <1>9, <1>15, I_Da, I_Fichas

LEMMA I_Guarda ==
    ASSUME I_IInv, NEW p \in Peticiones, I!GuardaFila(p)
    PROVE  I_IInv'
<1> DEFINE e == petI[p]
<1>1. e.pc = "guarda" /\ UNCHANGED <<activas, vistos, ajenosI>>
    BY DEF I!GuardaFila
<1>2. e \in I_Ficha /\ I_Cuadra(e) /\ item \in Seq(I!Item)
    BY <1>1, I_Fichas DEF I_IInv, I!TypeOK, I_Bien
<1>3. e.i \in 1..Len(e.filas) /\ e.filas \in Seq(I!Fila)
  <2>1. e.i \in Nat /\ e.creadas \in Nat /\ e.fallidas \in Nat /\ e.vacias \in Nat
        BY <1>2 DEF I_Ficha
  <2>2. e.i <= Len(e.filas) /\ e.creadas + e.fallidas + e.vacias + 1 = e.i
        BY <1>1, <1>2 DEF I_Cuadra
  <2>3. e.i >= 1
        BY <2>1, <2>2
  <2> QED
        BY <1>2, <2>1, <2>2, <2>3, I_Fichas
<1> PICK f \in I!Fila : f = e.filas[e.i]
    BY <1>3
<1>4. f.nombre \in Nombres /\ f.codigo \in Codigos \cup {Nada}
    BY <1>1, <1>2 DEF I_Cuadra, I!Fila
<1>5. ASSUME I!Seguir(p, I!Fallida(e)), UNCHANGED hechos,
             \/ UNCHANGED <<item, perdidos>>
             \/ I!Pone(f) /\ perdidos' = [perdidos EXCEPT ![p] = @ \cup {I!Nuevo}]
      PROVE  I_IInv'
  <2> PICK x : x = I!Fallida(e)
      OBVIOUS
  <2>1. I_Tras(e, x, "fila", e.i + 1, e.fallidas + 1, e.vacias)
        BY <1>2, I_Finales
  <2>2. /\ x \in I_Ficha /\ x.pc = "fila" /\ x.nombres = e.nombres /\ x.codigos = e.codigos
        /\ x.creadas = e.creadas /\ x.filas = e.filas /\ x.i = e.i + 1
        /\ x.fallidas = e.fallidas + 1 /\ x.vacias = e.vacias
        BY <2>1 DEF I_Tras
  <2>3. /\ e.creadas \in Nat /\ e.fallidas \in Nat /\ e.vacias \in Nat /\ e.i \in Nat
        BY <1>2 DEF I_Ficha
  <2>4. e.creadas + e.fallidas + e.vacias + 1 = e.i
        BY <1>2 DEF I_Cuadra
  <2>5. x.creadas + x.fallidas + x.vacias + 1 = x.i
        BY <2>2, <2>3, <2>4, I_Suma
  <2>6. x.i <= Len(x.filas) + 1
        BY <1>3, <2>2
  <2>7. I_Cuadra(x)
        BY <2>2, <2>5, <2>6 DEF I_Cuadra
  <2>8. CASE UNCHANGED <<item, perdidos>>
    <3>1. I_Crece /\ x.fallidas >= e.fallidas
          BY <1>2, <2>2, <2>3, <2>8 DEF I_Crece
    <3> QED
          BY <1>1, <1>5, <2>2, <2>7, <2>8, <3>1, I_Avanza
  <2>9. CASE I!Pone(f) /\ perdidos' = [perdidos EXCEPT ![p] = @ \cup {I!Nuevo}]
        BY <1>1, <1>4, <1>5, <2>2, <2>7, <2>9, I_Pierde
  <2> QED
        BY <1>5, <2>8, <2>9
<1>6. CASE UNCHANGED <<item, hechos, perdidos>> /\ I!Seguir(p, I!Fallida(e))
    BY <1>5, <1>6
<1>7. CASE I!Pone(f)
  <2>2. CASE /\ I!Seguir(p, I!Fallida(e)) /\ UNCHANGED hechos
             /\ perdidos' = [perdidos EXCEPT ![p] = @ \cup {I!Nuevo}]
        BY <1>5, <1>7, <2>2
  <2>3. CASE /\ I!Seguir(p, [I!Siguiente(e) EXCEPT
                                !.creadas = e.creadas + 1,
                                !.nombres = e.nombres \cup {f.nombre},
                                !.codigos = e.codigos \cup ({f.codigo} \ {Nada})])
             /\ hechos' = [hechos EXCEPT ![p] = @ \cup {I!Nuevo}]
             /\ UNCHANGED perdidos
        BY <1>1, <1>7, <2>3, I_Crea
  <2> QED
        BY <1>7, <2>2, <2>3, <1>6 DEF I!GuardaFila
<1> QED
    BY <1>6, <1>7 DEF I!GuardaFila

LEMMA I_Cae ==
    ASSUME I_IInv, NEW p \in Peticiones, I!Cae(p)
    PROVE  I_IInv'
<1>1. /\ I!Seguir(p, [pc |-> "caida"])
      /\ UNCHANGED <<item, activas, hechos, vistos, perdidos, ajenosI>>
    BY DEF I!Cae
<1>2. [pc |-> "caida"] \in I!Peticion /\ [pc |-> "caida"].pc = "caida"
    BY DEF I!Peticion
<1>3. /\ hechos \in [Peticiones -> SUBSET DOMAIN item] /\ vistos \in [Peticiones -> SUBSET DOMAIN item]
      /\ perdidos \in [Peticiones -> SUBSET DOMAIN item]
      /\ I_Bien(p) /\ item \in Seq(I!Item)
    BY DEF I_IInv, I!TypeOK, I!Guardados
<1>4. ASSUME petI'[p] = [pc |-> "caida"] PROVE I_Bien(p)'
    BY <1>1, <1>2, <1>3, <1>4 DEF I_Bien, I_Distintos
<1> QED
    BY <1>1, <1>2, <1>3, <1>4, I_Da DEF I_Crece

\* What is created by hand, and categories that come and go, change no item.
LEMMA I_Ajeno ==
    ASSUME I_IInv, I!Ajeno
    PROVE  I_IInv'
<1>1. UNCHANGED <<petI, hechos, vistos, perdidos>> /\ item \in Seq(I!Item) /\ ajenosI' = ajenosI + 1
    BY DEF I!Ajeno, I_IInv, I!TypeOK
<1>2. I_Crece /\ activas' \subseteq Categorias
  <2>1. ASSUME NEW n \in Nombres, NEW k \in Codigos \cup {Nada},
               I!CreaAMano([nombre |-> n, codigo |-> k])
        PROVE  I_Crece /\ activas' \subseteq Categorias
    <3> PICK f : f = [nombre |-> n, codigo |-> k]
        OBVIOUS
    <3>1. f.nombre \in Nombres /\ f.codigo \in Codigos \cup {Nada} /\ I!Pone(f) /\ UNCHANGED activas
          BY <2>1 DEF I!CreaAMano
    <3> QED
          BY <1>1, <3>1, I_Pone DEF I_IInv, I!TypeOK
  <2>2. ASSUME NEW k \in Categorias, I!CambiaCategoria(k)
        PROVE  I_Crece /\ activas' \subseteq Categorias
        BY <1>1, <2>2 DEF I!CambiaCategoria, I_Crece, I_IInv, I!TypeOK
  <2> QED
        BY <2>1, <2>2 DEF I!Ajeno
<1>3. I!TypeOK'
    BY <1>1, <1>2 DEF I_IInv, I!TypeOK, I_Crece, I!Guardados
<1>4. \A q \in Peticiones : I_Bien(q)'
    BY <1>1, <1>2, I_Ajenas
<1> QED
    BY <1>3, <1>4 DEF I_IInv

LEMMA I_Inicio ==
    ASSUME I!Init
    PROVE  I_IInv
<1>1. /\ item = <<>> /\ activas \subseteq Categorias /\ ajenosI = 0
      /\ \A p \in Peticiones : /\ petI[p] = [pc |-> "libre"] /\ hechos[p] = {} /\ vistos[p] = {}
                               /\ perdidos[p] = {}
    BY DEF I!Init
<1>2. I!TypeOK
  <2>1. [pc |-> "libre"] \in I!Peticion /\ item \in Seq(I!Item)
        BY <1>1 DEF I!Peticion
  <2> QED
        BY <1>1, <2>1 DEF I!Init, I!TypeOK
<1>3. ASSUME NEW p \in Peticiones PROVE I_Bien(p)
  <2>1. petI[p].pc = "libre" /\ hechos[p] = {} /\ vistos[p] = {} /\ perdidos[p] = {}
        BY <1>1
  <2>2. I_Distintos(p)
        BY <2>1 DEF I_Distintos
  <2> QED
        BY <2>1, <2>2, FS_EmptySet DEF I_Bien
<1> QED
    BY <1>2, <1>3 DEF I_IInv

LEMMA I_Paso ==
    ASSUME I_IInv, [I!Next]_varsI
    PROVE  I_IInv'
<1>1. CASE UNCHANGED varsI
  <2>1. UNCHANGED <<item, activas, petI, hechos, vistos, perdidos, ajenosI>> /\ item \in Seq(I!Item)
        BY <1>1 DEF varsI, I_IInv, I!TypeOK
  <2>2. I!TypeOK' /\ I_Crece
        BY <2>1 DEF I_IInv, I!TypeOK, I!Guardados, I_Crece
  <2> QED
        BY <2>1, <2>2, I_Ajenas DEF I_IInv
<1> QED
    BY <1>1, I_Empiezan, I_Filas, I_Guarda, I_Cae, I_Ajeno DEF I!Next

-----------------------------------------------------------------------------
(* Metricas: the invariant *)

\* The figures of a summary, those that have not been read as they are now
M_Cifras(m) ==
    [q \in M!Consultas |-> IF q \in res[m].falta THEN M!Valor(q, res[m].filtro)
                           ELSE res[m].leidas[q]]

M_Cuadra(m) ==
    res[m].pc # "libre" =>
        /\ res[m].pc = "hecho" => res[m].falta = {}
        /\ res[m].falta \cap M!Cubos = {} \/ M!Cubos \subseteq res[m].falta
        /\ M!Concuerdan(M_Cifras(m), res[m].cifras, res[m].filtro, movidos[m])

\* A total is that of its lines.
M_Totales ==
    /\ \A c \in Registros : total[c] = M!SumaDe(itemsM[c])
    /\ \A p \in Creaciones : crea[p].pc = "lineas" => crea[p].total = M!SumaDe(crea[p].items)

M_Tipos == M!TypeOK /\ estadoM \in [Registros -> M!Ciclo!Estados \cup {"ausente"}]

M_IInv == M_Tipos /\ M_Totales /\ \A m \in Resumenes : M_Cuadra(m)

-----------------------------------------------------------------------------
(* Metricas: sums and counts of one state *)

LEMMA M_Puente ==
    /\ \A g, S : M!SumFunctionOnSet(g, S) = SumFunctionOnSet(g, S)
    /\ \A g : M!SumFunction(g) = SumFunctionOnSet(g, DOMAIN g)
    /\ \A S : M!Cardinality(S) = Cardinality(S)
    /\ \A S : M!IsFiniteSet(S) <=> IsFiniteSet(S)
<1>1. \A g, S : M!SumFunctionOnSet(g, S) = SumFunctionOnSet(g, S)
    BY DEF M!SumFunctionOnSet, M!FoldFunctionOnSet, M!MapThenFoldSet,
           SumFunctionOnSet, FoldFunctionOnSet, MapThenFoldSet
<1>2. \A g : M!SumFunction(g) = SumFunctionOnSet(g, DOMAIN g)
    BY <1>1 DEF M!SumFunction
<1>3. \A S : M!IsFiniteSet(S) <=> IsFiniteSet(S)
    BY DEF M!IsFiniteSet, IsFiniteSet
<1>4. \A S : M!Cardinality(S) = Cardinality(S)
    BY DEF M!Cardinality, Cardinality
<1> QED
    BY <1>1, <1>2, <1>3, <1>4

LEMMA M_Registros ==
    IsFiniteSet(Registros)
BY ParametersAssumption, M_Puente DEF M!ConstantsOK

\* What the lines of a quotation add up to, and how it grows
LEMMA M_Lineas ==
    ASSUME NEW s \in Seq(M!Item)
    PROVE  /\ DOMAIN s = 1..Len(s) /\ IsFiniteSet(DOMAIN s)
           /\ \A i \in DOMAIN s : s[i].subtotal \in Nat /\ s[i].tipo \in M!Cubos
           /\ M!SumaDe(s) = SumFunctionOnSet([i \in DOMAIN s |-> s[i].subtotal], DOMAIN s)
           /\ M!SumaDe(s) \in Nat
<1>1. DOMAIN s = 1..Len(s) /\ Len(s) \in Nat
    OBVIOUS
<1>2. IsFiniteSet(DOMAIN s)
    BY <1>1, FS_Interval
<1>3. \A i \in DOMAIN s : s[i].subtotal \in Nat /\ s[i].tipo \in M!Cubos
  <2>1. \A i \in DOMAIN s : s[i] \in M!Item
        BY <1>1
  <2> QED
        BY <2>1 DEF M!Item
<1> DEFINE g == [i \in DOMAIN s |-> s[i].subtotal]
<1>4. M!SumaDe(s) = SumFunctionOnSet(g, DOMAIN s)
  <2>1. M!SumFunction(g) = SumFunctionOnSet(g, DOMAIN g)
        BY M_Puente, Zenon
  <2>2. DOMAIN g = DOMAIN s
        OBVIOUS
  <2>3. M!SumaDe(s) = M!SumFunction(g)
        BY Zenon DEF M!SumaDe
  <2> QED
        BY <2>1, <2>2, <2>3, Zenon
<1>5. \A i \in DOMAIN s : g[i] \in Nat
    BY <1>3
<1>6. SumFunctionOnSet(g, DOMAIN s) \in Nat
  <2> HIDE DEF g
  <2> QED
        BY <1>2, <1>5, SumaNatural
<1> QED
    BY <1>1, <1>2, <1>3, <1>4, <1>6

LEMMA M_Agrega ==
    ASSUME NEW s \in Seq(M!Item), NEW x \in M!Item
    PROVE  M!SumaDe(Append(s, x)) = M!SumaDe(s) + x.subtotal
<1> DEFINE t == Append(s, x)
           n == Len(s)
           g == [i \in DOMAIN s |-> s[i].subtotal]
           h == [i \in DOMAIN t |-> t[i].subtotal]
<1>1. t \in Seq(M!Item) /\ Len(t) = n + 1 /\ n \in Nat
    OBVIOUS
<1>2. DOMAIN s = 1..n /\ DOMAIN t = 1..(n + 1) /\ IsFiniteSet(1..n) /\ IsFiniteSet(1..(n + 1))
    BY <1>1, M_Lineas
<1>3. M!SumaDe(s) = SumFunctionOnSet(g, 1..n) /\ M!SumaDe(t) = SumFunctionOnSet(h, 1..(n + 1))
    BY <1>1, <1>2, M_Lineas
<1>4. \A i \in 1..(n + 1) : h[i] \in Nat
    BY <1>1, <1>2, M_Lineas
<1>5. h[n + 1] = x.subtotal /\ \A i \in 1..n : h[i] = g[i] /\ h[i] \in Nat
    BY <1>1, <1>2, <1>4
<1>6. n + 1 \in 1..(n + 1) /\ (1..(n + 1)) \ {n + 1} = 1..n
    BY <1>1
<1> HIDE DEF t, n, g, h
<1>7. SumFunctionOnSet(h, 1..(n + 1)) = h[n + 1] + SumFunctionOnSet(h, (1..(n + 1)) \ {n + 1})
    BY <1>2, <1>4, <1>6, SumaQuita
<1>8. SumFunctionOnSet(h, 1..n) = SumFunctionOnSet(g, 1..n)
    BY <1>2, <1>5, SumaIgual
<1>9. M!SumaDe(t) = x.subtotal + M!SumaDe(s)
    BY <1>3, <1>5, <1>6, <1>7, <1>8
<1>10. x.subtotal \in Nat /\ M!SumaDe(s) \in Nat
    BY M_Lineas DEF M!Item
<1> QED
    BY <1>9, <1>10 DEF t

LEMMA M_SinLineas == <<>> \in Seq(M!Item) /\ M!SumaDe(<<>>) = 0
<1>1. <<>> \in Seq(M!Item) /\ DOMAIN <<>> = {}
    OBVIOUS
<1> QED
    BY <1>1, M_Lineas, SumaVacia

\* The lines of a quotation by type make its total, or less if the filter is of a type.
LEMMA M_PorTipo ==
    ASSUME M!TypeOK, M_Totales, NEW c \in Registros, NEW f \in Filtros
    PROVE  LET D(t) == M!SumFunction(M!DelTipo(c, t, f)) IN
           /\ D("producto") \in Nat /\ D("servicio") \in Nat /\ D("sinTipo") \in Nat
           /\ D("producto") + D("servicio") + D("sinTipo") <= total[c]
           /\ f.tipo = Nada => D("producto") + D("servicio") + D("sinTipo") = total[c]
<1> DEFINE s == itemsM[c]
           S == DOMAIN s
           g == [i \in S |-> s[i].subtotal]
           d(t) == M!DelTipo(c, t, f)
           k == [i \in S |-> d("producto")[i] + d("servicio")[i] + d("sinTipo")[i]]
<1>1. s \in Seq(M!Item) /\ total[c] = M!SumaDe(s)
    BY DEF M!TypeOK, M_Totales
<1>2. /\ IsFiniteSet(S) /\ \A i \in S : s[i].subtotal \in Nat /\ s[i].tipo \in M!Cubos
      /\ M!SumaDe(s) = SumFunctionOnSet(g, S)
    BY <1>1, M_Lineas
<1>3. ASSUME NEW t
      PROVE  /\ M!SumFunction(d(t)) = SumFunctionOnSet(d(t), S)
             /\ \A i \in S : d(t)[i] = IF s[i].tipo = t /\ f.tipo \in {t, Nada}
                                       THEN s[i].subtotal ELSE 0
  <2>1. DOMAIN d(t) = S
        BY DEF M!DelTipo
  <2>2. M!SumFunction(d(t)) = SumFunctionOnSet(d(t), DOMAIN d(t))
        BY M_Puente, Zenon
  <2> QED
        BY <2>1, <2>2 DEF M!DelTipo
<1>4. ASSUME NEW i \in S
      PROVE  /\ d("producto")[i] \in Nat /\ d("servicio")[i] \in Nat /\ d("sinTipo")[i] \in Nat
             /\ k[i] = d("producto")[i] + d("servicio")[i] + d("sinTipo")[i]
             /\ k[i] \in Nat /\ g[i] \in Nat /\ k[i] <= g[i]
             /\ f.tipo = Nada => k[i] = g[i]
  <2>1. /\ k[i] = d("producto")[i] + d("servicio")[i] + d("sinTipo")[i]
        /\ g[i] = s[i].subtotal /\ s[i].subtotal \in Nat
        /\ s[i].tipo \in {"producto", "servicio", "sinTipo"}
        BY <1>2 DEF M!Cubos, M!Tipos
  <2>2. \A t : d(t)[i] = IF s[i].tipo = t /\ f.tipo \in {t, Nada} THEN s[i].subtotal ELSE 0
        BY <1>3
  <2> HIDE DEF d, k, g, s
  <2> QED
        BY <2>1, <2>2
<1>5. /\ SumFunctionOnSet(d("producto"), S) \in Nat
      /\ SumFunctionOnSet(d("servicio"), S) \in Nat
      /\ SumFunctionOnSet(d("sinTipo"), S) \in Nat
  <2> HIDE DEF d, S
  <2> QED
        BY <1>2, <1>4, SumaNatural
<1>6. SumFunctionOnSet(k, S) = SumFunctionOnSet(d("producto"), S)
          + SumFunctionOnSet(d("servicio"), S) + SumFunctionOnSet(d("sinTipo"), S)
  <2> DEFINE a == d("producto")
             b == d("servicio")
             e == d("sinTipo")
  <2>1. \A i \in S : a[i] \in Nat /\ b[i] \in Nat /\ e[i] \in Nat /\ k[i] = a[i] + b[i] + e[i]
        BY <1>4
  <2> HIDE DEF a, b, e, k, S
  <2>2. SumFunctionOnSet(k, S) =
            SumFunctionOnSet(a, S) + SumFunctionOnSet(b, S) + SumFunctionOnSet(e, S)
        BY <1>2, <2>1, SumaTres
  <2> QED
        BY <2>2 DEF a, b, e
<1>7. /\ SumFunctionOnSet(k, S) <= SumFunctionOnSet(g, S)
      /\ f.tipo = Nada => SumFunctionOnSet(k, S) = SumFunctionOnSet(g, S)
  <2> HIDE DEF k, g, S
  <2>1. SumFunctionOnSet(k, S) <= SumFunctionOnSet(g, S)
        BY <1>2, <1>4, SumaMenor
  <2>2. CASE f.tipo = Nada
        BY <1>2, <1>4, <2>1, <2>2, SumaIgual
  <2> QED
        BY <2>1, <2>2
<1> HIDE DEF k, g, d, S, s
<1>8. total[c] = SumFunctionOnSet(g, S)
    BY <1>1, <1>2
<1>9. /\ M!SumFunction(d("producto")) = SumFunctionOnSet(d("producto"), S)
      /\ M!SumFunction(d("servicio")) = SumFunctionOnSet(d("servicio"), S)
      /\ M!SumFunction(d("sinTipo")) = SumFunctionOnSet(d("sinTipo"), S)
    BY <1>3
<1>10. /\ M!SumFunction(d("producto")) \in Nat /\ M!SumFunction(d("servicio")) \in Nat
       /\ M!SumFunction(d("sinTipo")) \in Nat
       /\ M!SumFunction(d("producto")) + M!SumFunction(d("servicio"))
              + M!SumFunction(d("sinTipo")) = SumFunctionOnSet(k, S)
    BY <1>5, <1>6, <1>9
<1> QED
    BY <1>7, <1>8, <1>10 DEF d

\* So does the income of the quotations that were accepted.
LEMMA M_Ingresos ==
    ASSUME M!TypeOK, M_Totales, NEW f \in Filtros
    PROVE  LET V(q) == M!Valor(q, f)
               suma == V("producto") + V("servicio") + V("sinTipo") IN
           /\ V("producto") \in Nat /\ V("servicio") \in Nat /\ V("sinTipo") \in Nat
           /\ V("ingresos") \in Nat /\ suma <= V("ingresos")
           /\ f.tipo = Nada => suma = V("ingresos")
<1> DEFINE S == M!EnEstado(f, "aceptada")
           g(t) == [c \in Registros |-> M!SumFunction(M!DelTipo(c, t, f))]
           a == g("producto")
           b == g("servicio")
           e == g("sinTipo")
           k == [c \in Registros |-> a[c] + b[c] + e[c]]
<1>1. S \subseteq Registros /\ IsFiniteSet(S)
  <2>1. S \subseteq Registros
        BY DEF M!EnEstado
  <2> QED
        BY <2>1, M_Registros, FS_Subset
<1>2. \A c \in S : /\ a[c] \in Nat /\ b[c] \in Nat /\ e[c] \in Nat /\ total[c] \in Nat
                   /\ k[c] = a[c] + b[c] + e[c] /\ k[c] \in Nat /\ k[c] <= total[c]
                   /\ f.tipo = Nada => k[c] = total[c]
  <2> SUFFICES ASSUME NEW c \in S
               PROVE  /\ a[c] \in Nat /\ b[c] \in Nat /\ e[c] \in Nat /\ total[c] \in Nat
                      /\ k[c] = a[c] + b[c] + e[c] /\ k[c] \in Nat /\ k[c] <= total[c]
                      /\ f.tipo = Nada => k[c] = total[c]
      OBVIOUS
  <2>1. c \in Registros /\ total[c] \in Nat
        BY <1>1 DEF M!TypeOK
  <2>2. /\ a[c] = M!SumFunction(M!DelTipo(c, "producto", f))
        /\ b[c] = M!SumFunction(M!DelTipo(c, "servicio", f))
        /\ e[c] = M!SumFunction(M!DelTipo(c, "sinTipo", f))
        BY <2>1
  <2>3. k[c] = a[c] + b[c] + e[c]
        BY <2>1
  <2> HIDE DEF S, a, b, e, k
  <2>4. /\ a[c] \in Nat /\ b[c] \in Nat /\ e[c] \in Nat /\ a[c] + b[c] + e[c] <= total[c]
        /\ f.tipo = Nada => a[c] + b[c] + e[c] = total[c]
        BY <2>1, <2>2, M_PorTipo
  <2> QED
        BY <2>1, <2>3, <2>4
<1>3. /\ M!Valor("producto", f) = SumFunctionOnSet(a, S)
      /\ M!Valor("servicio", f) = SumFunctionOnSet(b, S)
      /\ M!Valor("sinTipo", f) = SumFunctionOnSet(e, S)
      /\ M!Valor("ingresos", f) = SumFunctionOnSet(total, S)
  <2>1. /\ M!Valor("producto", f) = M!SumFunctionOnSet(a, S)
        /\ M!Valor("servicio", f) = M!SumFunctionOnSet(b, S)
        /\ M!Valor("sinTipo", f) = M!SumFunctionOnSet(e, S)
        /\ M!Valor("ingresos", f) = M!SumFunctionOnSet(total, S)
        BY DEF M!Valor, M!Cubos, M!Tipos
  <2> QED
        BY <2>1, M_Puente, Zenon
<1> HIDE DEF S, g, a, b, e, k
<1>4. /\ SumFunctionOnSet(a, S) \in Nat /\ SumFunctionOnSet(b, S) \in Nat
      /\ SumFunctionOnSet(e, S) \in Nat /\ SumFunctionOnSet(total, S) \in Nat
    BY <1>1, <1>2, SumaNatural
<1>5. SumFunctionOnSet(k, S) =
          SumFunctionOnSet(a, S) + SumFunctionOnSet(b, S) + SumFunctionOnSet(e, S)
    BY <1>1, <1>2, SumaTres
<1>6. SumFunctionOnSet(k, S) <= SumFunctionOnSet(total, S)
    BY <1>1, <1>2, SumaMenor
<1>7. CASE f.tipo = Nada
  <2>1. SumFunctionOnSet(k, S) = SumFunctionOnSet(total, S)
        BY <1>1, <1>2, <1>7, SumaIgual
  <2> QED
        BY <1>3, <1>4, <1>5, <2>1
<1> QED
    BY <1>3, <1>4, <1>5, <1>6, <1>7

M_Contables == {"hoy", "mes", "anio", "totales", "aceptadas", "rechazadas"}

\* A period is part of a longer one, and those answered are of those issued.
M_Ordenados(f) ==
    LET C(q) == M!Contadas(q, f) IN
    /\ C("hoy") \subseteq C("mes") /\ C("mes") \subseteq C("anio")
    /\ C("anio") \subseteq C("totales") /\ C("totales") \subseteq Registros
    /\ C("aceptadas") \subseteq C("totales") /\ C("rechazadas") \subseteq C("totales")
    /\ C("aceptadas") \cap C("rechazadas") = {}

LEMMA M_Conjuntos == M!TypeOK => \A f \in Filtros : M_Ordenados(f)
<1> SUFFICES ASSUME M!TypeOK, NEW f \in Filtros PROVE M_Ordenados(f)
    OBVIOUS
<1> DEFINE C(q) == M!Contadas(q, f)
           T == M!Base(f)
<1>1. /\ C("hoy") = M!Desde(f, 4) /\ C("mes") = M!Desde(f, 3) /\ C("anio") = M!Desde(f, 2)
      /\ C("totales") = T /\ C("aceptadas") = M!EnEstado(f, "aceptada")
      /\ C("rechazadas") = M!EnEstado(f, "rechazada")
    BY DEF M!Contadas
<1>2. T \subseteq Registros
    BY DEF M!Base
<1>3. \A i : M!Desde(f, i) = {c \in T : i <= fecha[c]}
    BY DEF M!Desde
<1>4. /\ M!EnEstado(f, "aceptada") \subseteq T /\ M!EnEstado(f, "rechazada") \subseteq T
      /\ M!EnEstado(f, "aceptada") \cap M!EnEstado(f, "rechazada") = {}
    BY DEF M!EnEstado, M!Base
<1>5. \A c \in Registros : fecha[c] \in 1..4
    BY DEF M!TypeOK, M!Periodos
<1> HIDE DEF T
<1>6. /\ M!Desde(f, 4) \subseteq M!Desde(f, 3) /\ M!Desde(f, 3) \subseteq M!Desde(f, 2)
      /\ M!Desde(f, 2) \subseteq T
    BY <1>2, <1>3, <1>5
<1> QED
    BY <1>1, <1>2, <1>4, <1>6 DEF M_Ordenados

LEMMA M_Conteos ==
    M!TypeOK => \A f \in Filtros, q \in M_Contables :
        /\ M!Valor(q, f) = Cardinality(M!Contadas(q, f))
        /\ IsFiniteSet(M!Contadas(q, f)) /\ M!Valor(q, f) \in Nat
<1> SUFFICES ASSUME M!TypeOK, NEW f \in Filtros, NEW q \in M_Contables
             PROVE  /\ M!Valor(q, f) = Cardinality(M!Contadas(q, f))
                    /\ IsFiniteSet(M!Contadas(q, f)) /\ M!Valor(q, f) \in Nat
    OBVIOUS
<1>1. M!Contadas(q, f) \subseteq Registros
    BY M_Conjuntos DEF M_Contables, M_Ordenados
<1>2. IsFiniteSet(M!Contadas(q, f))
    BY <1>1, M_Registros, FS_Subset
<1>3. M!Valor(q, f) = Cardinality(M!Contadas(q, f))
  <2>1. q \notin M!Cubos /\ q # "ingresos"
        BY DEF M!Cubos, M!Tipos, M_Contables
  <2>2. M!Valor(q, f) = M!Cardinality(M!Contadas(q, f))
        BY <2>1 DEF M!Valor
  <2> QED
        BY <2>2, M_Puente, Zenon
<1> QED
    BY <1>2, <1>3, FS_CardinalityType

\* Three sets of which two are parts of the third and apart, each either still to be
\* counted (its query is in F) or read already (as a number): a change in one element
\* disturbs what holds of them by one at most.
M_Dice(F, q, A, a) == IF q \in F THEN Cardinality(A) ELSE a

LEMMA M_Tercia ==
    ASSUME NEW T, IsFiniteSet(T), NEW A, A \subseteq T, NEW R, R \subseteq T, A \cap R = {},
           NEW T1, NEW A1, A1 \subseteq T1, NEW R1, R1 \subseteq T1, A1 \cap R1 = {},
           NEW c, T \ {c} = T1 \ {c}, A \ {c} = A1 \ {c}, R \ {c} = R1 \ {c},
           NEW t \in Nat, NEW a \in Nat, NEW r \in Nat, NEW n \in Nat,
           NEW F, NEW qt, NEW qa, NEW qr,
           M_Dice(F, qa, A, a) + M_Dice(F, qr, R, r) <= M_Dice(F, qt, T, t) + n
    PROVE  M_Dice(F, qa, A1, a) + M_Dice(F, qr, R1, r) <= M_Dice(F, qt, T1, t) + (n + 1)
<1>1. IsFiniteSet(A) /\ IsFiniteSet(R) /\ IsFiniteSet(A \cup R) /\ A \cup R \subseteq T
    BY FS_Subset
<1>2. /\ IsFiniteSet(A1) /\ IsFiniteSet(R1) /\ IsFiniteSet(T1) /\ IsFiniteSet(A1 \cup R1)
      /\ A1 \cup R1 \subseteq T1
    BY <1>1, CambiaUno, FS_Union
\* U: what is still to be counted of A and R
<1> DEFINE Pide(B, S) == (IF qa \in F THEN B ELSE {}) \cup (IF qr \in F THEN S ELSE {})
           U == Pide(A, R)
           U1 == Pide(A1, R1)
           x == (IF qa \in F THEN 0 ELSE a) + (IF qr \in F THEN 0 ELSE r)
<1>3. /\ U \subseteq T /\ U1 \subseteq T1 /\ U \ {c} = U1 \ {c}
      /\ (T \ U) \ {c} = (T1 \ U1) \ {c}
    BY <1>1, <1>2
<1>4. /\ IsFiniteSet(U) /\ IsFiniteSet(U1) /\ IsFiniteSet(T \ U) /\ IsFiniteSet(T1 \ U1)
    BY <1>2, <1>3, Reparto
<1>5. /\ Cardinality(A \cup R) = Cardinality(A) + Cardinality(R)
      /\ Cardinality(A1 \cup R1) = Cardinality(A1) + Cardinality(R1)
      /\ Cardinality(A) \in Nat /\ Cardinality(R) \in Nat
      /\ Cardinality(A1) \in Nat /\ Cardinality(R1) \in Nat
      /\ Cardinality({}) = 0
  <2>1. /\ Cardinality(A \cup R) = Cardinality(A) + Cardinality(R) - Cardinality(A \cap R)
        /\ Cardinality(A1 \cup R1) = Cardinality(A1) + Cardinality(R1) - Cardinality(A1 \cap R1)
        BY <1>1, <1>2, FS_Union
  <2>2. /\ Cardinality(A) \in Nat /\ Cardinality(R) \in Nat
        /\ Cardinality(A1) \in Nat /\ Cardinality(R1) \in Nat
        BY <1>1, <1>2, FS_CardinalityType
  <2>3. Cardinality({}) = 0
        BY FS_EmptySet
  <2>4. Cardinality(A \cap R) = 0 /\ Cardinality(A1 \cap R1) = 0
        BY <2>3
  <2> QED
        BY <2>1, <2>2, <2>3, <2>4
<1>6. /\ M_Dice(F, qa, A, a) + M_Dice(F, qr, R, r) = Cardinality(U) + x
      /\ M_Dice(F, qa, A1, a) + M_Dice(F, qr, R1, r) = Cardinality(U1) + x
  <2>1. CASE qa \in F /\ qr \in F
    <3>1. U = A \cup R /\ U1 = A1 \cup R1 /\ x = 0
          BY <2>1
    <3> QED
          BY <2>1, <3>1, <1>5 DEF M_Dice
  <2>2. CASE qa \in F /\ qr \notin F
    <3>1. U = A /\ U1 = A1 /\ x = r
          BY <2>2
    <3> QED
          BY <2>2, <3>1, <1>5 DEF M_Dice
  <2>3. CASE qa \notin F /\ qr \in F
    <3>1. U = R /\ U1 = R1 /\ x = a
          BY <2>3
    <3> QED
          BY <2>3, <3>1, <1>5 DEF M_Dice
  <2>4. CASE qa \notin F /\ qr \notin F
    <3>1. U = {} /\ U1 = {} /\ x = a + r
          BY <2>4
    <3> QED
          BY <2>4, <3>1, <1>5 DEF M_Dice
  <2> QED
        BY <2>1, <2>2, <2>3, <2>4
<1>7. x \in Nat
    OBVIOUS
<1> HIDE DEF Pide, U, U1, x
<1>8. /\ Cardinality(T) = Cardinality(U) + Cardinality(T \ U)
      /\ Cardinality(T1) = Cardinality(U1) + Cardinality(T1 \ U1)
      /\ Cardinality(U) \in Nat /\ Cardinality(U1) \in Nat
      /\ Cardinality(T \ U) \in Nat /\ Cardinality(T1 \ U1) \in Nat
    BY <1>2, <1>3, Reparto
<1>9. /\ Cardinality(U1) <= Cardinality(U) + 1
      /\ Cardinality(T \ U) <= Cardinality(T1 \ U1) + 1
    BY <1>3, <1>4, CambiaUno
<1>10. CASE qt \in F
  <2>1. Cardinality(U) + x <= Cardinality(T) + n
        BY <1>6, <1>10 DEF M_Dice
  <2>2. Cardinality(U1) + x <= Cardinality(T1) + (n + 1)
        BY <2>1, <1>7, <1>8, <1>9
  <2> QED
        BY <2>2, <1>6, <1>10 DEF M_Dice
<1>11. CASE qt \notin F
  <2>1. Cardinality(U) + x <= t + n
        BY <1>6, <1>11 DEF M_Dice
  <2>2. Cardinality(U1) + x <= t + (n + 1)
        BY <2>1, <1>7, <1>8, <1>9
  <2> QED
        BY <2>2, <1>6, <1>11 DEF M_Dice
<1> QED
    BY <1>10, <1>11

\* The same of a set and a part of it
LEMMA M_Pareja ==
    ASSUME NEW T, IsFiniteSet(T), NEW A, A \subseteq T, NEW T1, NEW A1, A1 \subseteq T1,
           NEW c, T \ {c} = T1 \ {c}, A \ {c} = A1 \ {c},
           NEW t \in Nat, NEW a \in Nat, NEW n \in Nat, NEW F, NEW qt, NEW qa,
           M_Dice(F, qa, A, a) <= M_Dice(F, qt, T, t) + n
    PROVE  M_Dice(F, qa, A1, a) <= M_Dice(F, qt, T1, t) + (n + 1)
<1>1. IsFiniteSet(A) /\ IsFiniteSet(A1) /\ Cardinality(A) \in Nat /\ Cardinality(A1) \in Nat
  <2>1. IsFiniteSet(A)
        BY FS_Subset
  <2> QED
        BY <2>1, CambiaUno
<1>2. M_Dice(F, qa, {}, 0) = 0
    BY FS_EmptySet DEF M_Dice
<1>3. /\ M_Dice(F, qa, A, a) \in Nat /\ M_Dice(F, qa, A1, a) \in Nat
      /\ M_Dice(F, qt, T, t) \in Nat /\ M_Dice(F, qt, T1, t) \in Nat
  <2>1. Cardinality(T) \in Nat /\ Cardinality(T1) \in Nat
        BY CambiaUno
  <2> QED
        BY <1>1, <2>1 DEF M_Dice
<1>4. M_Dice(F, qa, A, a) + M_Dice(F, qa, {}, 0) <= M_Dice(F, qt, T, t) + n
    BY <1>2, <1>3
<1>5. M_Dice(F, qa, A1, a) + M_Dice(F, qa, {}, 0) <= M_Dice(F, qt, T1, t) + (n + 1)
  <2>1. 0 \in Nat /\ {} \subseteq T /\ {} \subseteq T1
        /\ A \cap {} = {} /\ A1 \cap {} = {} /\ {} \ {c} = {} \ {c}
        OBVIOUS
  <2> QED
        BY <1>4, <2>1, M_Tercia
<1> QED
    BY <1>2, <1>3, <1>5

-----------------------------------------------------------------------------
(* Metricas: what a step does to the figures of a summary *)

LEMMA M_Acuerdo ==
    ASSUME NEW v, NEW Q, NEW f, NEW n
    PROVE  M!Concuerdan(v, Q, f, n) <=>
               /\ {"hoy", "mes"} = Q => v["hoy"] <= v["mes"] + n
               /\ {"mes", "anio"} = Q => v["mes"] <= v["anio"] + n
               /\ {"anio", "totales"} = Q => v["anio"] <= v["totales"] + n
               /\ "aceptadas" \in Q => v["aceptadas"] + v["rechazadas"] <= v["totales"] + n
               /\ "ingresos" \in Q /\ n = 0 =>
                    IF f.tipo = Nada
                    THEN v["producto"] + v["servicio"] + v["sinTipo"] = v["ingresos"]
                    ELSE v["producto"] + v["servicio"] + v["sinTipo"] <= v["ingresos"]
BY DEF M!Concuerdan

LEMMA M_Valores ==
    M!TypeOK /\ M_Totales => \A f \in Filtros, q \in M!Consultas : M!Valor(q, f) \in Nat
<1> SUFFICES ASSUME M!TypeOK, M_Totales, NEW f \in Filtros, NEW q \in M!Consultas
             PROVE  M!Valor(q, f) \in Nat
    OBVIOUS
<1>1. CASE q \in M_Contables
    BY <1>1, M_Conteos
<1>2. CASE q \notin M_Contables
  <2>1. q \in {"producto", "servicio", "sinTipo", "ingresos"}
        BY <1>2 DEF M!Consultas, M!Cubos, M!Tipos, M_Contables
  <2> QED
        BY <2>1, M_Ingresos
<1> QED
    BY <1>1, <1>2

\* Figures of one state agree.
LEMMA M_DeUnaVez ==
    ASSUME M!TypeOK, M_Totales, NEW f \in Filtros, NEW n \in Nat, NEW Q, NEW v,
           \A q \in M!Consultas : v[q] = M!Valor(q, f)
    PROVE  M!Concuerdan(v, Q, f, n)
<1>1. M_Contables \cup {"producto", "servicio", "sinTipo", "ingresos"} = M!Consultas
    BY DEF M_Contables, M!Consultas, M!Cubos, M!Tipos
<1> DEFINE C(q) == M!Contadas(q, f)
<1>2. \A q \in M_Contables : v[q] = Cardinality(C(q)) /\ v[q] \in Nat /\ IsFiniteSet(C(q))
    BY <1>1, M_Conteos
<1>3. /\ C("hoy") \subseteq C("mes") /\ C("mes") \subseteq C("anio")
      /\ C("anio") \subseteq C("totales")
      /\ C("aceptadas") \cup C("rechazadas") \subseteq C("totales")
      /\ C("aceptadas") \cap C("rechazadas") = {}
    BY M_Conjuntos DEF M_Ordenados
<1> HIDE DEF C
<1>4. /\ v["hoy"] \in Nat /\ v["mes"] \in Nat /\ v["anio"] \in Nat /\ v["totales"] \in Nat
      /\ v["aceptadas"] \in Nat /\ v["rechazadas"] \in Nat
    BY <1>2 DEF M_Contables
<1>5. v["hoy"] <= v["mes"] /\ v["mes"] <= v["anio"] /\ v["anio"] <= v["totales"]
  <2>1. \A A, B : IsFiniteSet(B) /\ A \subseteq B => Cardinality(A) <= Cardinality(B)
        BY FS_Subset
  <2> QED
        BY <1>2, <1>3, <2>1 DEF M_Contables
<1>6. v["aceptadas"] + v["rechazadas"] <= v["totales"]
  <2> DEFINE A == C("aceptadas")
             R == C("rechazadas")
  <2>1. IsFiniteSet(A) /\ IsFiniteSet(R) /\ IsFiniteSet(C("totales"))
        BY <1>2 DEF M_Contables
  <2>2. v["aceptadas"] = Cardinality(A) /\ v["rechazadas"] = Cardinality(R)
        /\ v["totales"] = Cardinality(C("totales"))
        BY <1>2 DEF M_Contables
  <2>3. A \cup R \subseteq C("totales") /\ A \cap R = {}
        BY <1>3
  <2> HIDE DEF A, R
  <2>4. Cardinality(A \cup R) = Cardinality(A) + Cardinality(R) - Cardinality({})
        BY <2>1, <2>3, FS_Union
  <2>5. Cardinality(A \cup R) <= Cardinality(C("totales"))
        BY <2>1, <2>3, FS_Subset
  <2> QED
        BY <1>4, <2>2, <2>4, <2>5, FS_EmptySet
<1>7. /\ v["producto"] + v["servicio"] + v["sinTipo"] <= v["ingresos"]
      /\ f.tipo = Nada => v["producto"] + v["servicio"] + v["sinTipo"] = v["ingresos"]
  <2>1. /\ v["producto"] = M!Valor("producto", f) /\ v["servicio"] = M!Valor("servicio", f)
        /\ v["sinTipo"] = M!Valor("sinTipo", f) /\ v["ingresos"] = M!Valor("ingresos", f)
        BY <1>1
  <2> QED
        BY <2>1, M_Ingresos
<1> QED
    BY <1>4, <1>5, <1>6, <1>7, M_Acuerdo

M_Ficha ==
    [pc : {"lee", "hecho"}, filtro : Filtros, cifras : M!Comparadas,
     leidas : [M!Consultas -> Nat], falta : SUBSET M!Consultas]

LEMMA M_Fichas ==
    /\ \A r \in M!Resumen : r.pc # "libre" => r \in M_Ficha
    /\ M_Ficha \subseteq M!Resumen /\ [pc |-> "libre"] \in M!Resumen
BY DEF M!Resumen, M_Ficha

\* Quotations that do not change leave the figures as they are.
LEMMA M_Iguales ==
    ASSUME UNCHANGED <<estadoM, fecha, itemsM, total>>
    PROVE  \A q, f : M!Valor(q, f)' = M!Valor(q, f)
<1>1. \A f, e : M!EnEstado(f, e)' = M!EnEstado(f, e)
    BY DEF M!EnEstado, M!EnFiltro
<1>2. \A f : M!Base(f)' = M!Base(f)
    BY DEF M!Base, M!EnFiltro
<1>3. \A f, i : M!Desde(f, i)' = M!Desde(f, i)
    BY <1>2 DEF M!Desde
<1>4. \A q, f : M!Contadas(q, f)' = M!Contadas(q, f)
    BY <1>1, <1>2, <1>3 DEF M!Contadas
<1>5. \A c, t, f : M!DelTipo(c, t, f)' = M!DelTipo(c, t, f)
    BY DEF M!DelTipo
<1>6. TAKE q, f
<1>7. [c \in Registros |-> M!SumFunction(M!DelTipo(c, q, f))]'
          = [c \in Registros |-> M!SumFunction(M!DelTipo(c, q, f))]
    BY <1>5
<1> QED
    BY <1>1, <1>4, <1>7 DEF M!Valor

LEMMA M_Callada ==
    ASSUME M_IInv, NEW m \in Resumenes, res'[m] = res[m], movidos'[m] = movidos[m],
           UNCHANGED <<estadoM, fecha, itemsM, total>>
    PROVE  M_Cuadra(m)'
<1>1. M_Cifras(m)' = M_Cifras(m)
    BY M_Iguales DEF M_Cifras
<1> QED
    BY <1>1 DEF M_IInv, M_Cuadra

\* A quotation that is created or moved disturbs the sets that are counted in one
\* element,
M_Salvo(c) == \A x \in Registros \ {c} : estadoM'[x] = estadoM[x] /\ fecha'[x] = fecha[x]

LEMMA M_UnoSolo ==
    ASSUME NEW c \in Registros, M_Salvo(c), NEW f, NEW q \in M_Contables
    PROVE  M!Contadas(q, f) \ {c} = M!Contadas(q, f)' \ {c}
<1>1. \A e : M!EnEstado(f, e) \ {c} = M!EnEstado(f, e)' \ {c}
    BY DEF M!EnEstado, M!EnFiltro, M_Salvo
<1>2. M!Base(f) \ {c} = M!Base(f)' \ {c}
    BY DEF M!Base, M!EnFiltro, M_Salvo
<1>3. \A i : M!Desde(f, i) \ {c} = M!Desde(f, i)' \ {c}
  <2> TAKE i
  <2>1. /\ M!Desde(f, i) = {x \in M!Base(f) : i <= fecha[x]}
        /\ M!Desde(f, i)' = {x \in M!Base(f)' : i <= fecha'[x]}
        BY DEF M!Desde
  <2>2. M!Base(f) \subseteq Registros /\ M!Base(f)' \subseteq Registros
        BY DEF M!Base
  <2> QED
        BY <1>2, <2>1, <2>2 DEF M_Salvo
<1> QED
    BY <1>1, <1>2, <1>3 DEF M!Contadas, M_Contables

LEMMA M_ConjuntosLuego == (M!TypeOK => \A f \in Filtros : M_Ordenados(f))'
BY M_Conjuntos, PTL

LEMMA M_ConteosLuego ==
    (M!TypeOK => \A f \in Filtros, q \in M_Contables :
        /\ M!Valor(q, f) = Cardinality(M!Contadas(q, f))
        /\ IsFiniteSet(M!Contadas(q, f)) /\ M!Valor(q, f) \in Nat)'
BY M_Conteos, PTL

\* which is one more of those counted as moved.
LEMMA M_Empuja ==
    ASSUME M_IInv, M!TypeOK', NEW c \in Registros, M_Salvo(c), NEW m \in Resumenes,
           res'[m] = res[m],
           movidos'[m] = IF res[m].pc = "lee" THEN movidos[m] + 1 ELSE movidos[m]
    PROVE  M_Cuadra(m)'
<1> DEFINE r == res[m]
           f == r.filtro
           v == M_Cifras(m)
           w == M_Cifras(m)'
           C(q) == M!Contadas(q, f)
           D(q) == M!Contadas(q, f)'
           n == movidos[m]
<1>1. CASE r.pc = "libre"
    BY <1>1 DEF M_Cuadra
<1>2. CASE r.pc = "hecho"
  <2>1. r.falta = {} /\ M_Cuadra(m)
        BY <1>2 DEF M_IInv, M_Cuadra
  <2>2. w = v
        BY <2>1 DEF M_Cifras
  <2> QED
        BY <1>2, <2>1, <2>2 DEF M_Cuadra
<1>3. CASE r.pc = "lee"
  <2>1. r \in M_Ficha /\ f \in Filtros /\ n \in Nat /\ r.leidas \in [M!Consultas -> Nat]
    <3>1. r \in M!Resumen /\ n \in Nat
          BY DEF M_IInv, M_Tipos, M!TypeOK
    <3>2. r \in M_Ficha
          BY <1>3, <3>1, M_Fichas
    <3> QED
          BY <3>1, <3>2 DEF M_Ficha
  <2>2. M_Ordenados(f) /\ M_Ordenados(f)'
    <3>1. M!TypeOK /\ M!TypeOK'
          BY DEF M_IInv, M_Tipos
    <3>2. (M!TypeOK => \A g \in Filtros : M_Ordenados(g))'
          BY M_ConjuntosLuego
    <3>3. \A g \in Filtros : M_Ordenados(g)'
          BY <3>1, <3>2
    <3> QED
          BY <2>1, <3>1, <3>3, M_Conjuntos
  <2>3. ASSUME NEW q \in M_Contables
        PROVE  /\ v[q] = M_Dice(r.falta, q, C(q), r.leidas[q])
               /\ w[q] = M_Dice(r.falta, q, D(q), r.leidas[q])
               /\ IsFiniteSet(C(q)) /\ r.leidas[q] \in Nat
               /\ C(q) \ {c} = D(q) \ {c}
    <3>1. q \in M!Consultas
          BY DEF M_Contables, M!Consultas
    <3>2. M!Valor(q, f) = Cardinality(C(q)) /\ IsFiniteSet(C(q))
          BY <2>1, M_Conteos DEF M_IInv, M_Tipos
    <3>3. (M!Valor(q, f) = Cardinality(C(q)))'
      <4>1. (M!TypeOK => \A g \in Filtros, k \in M_Contables :
                /\ M!Valor(k, g) = Cardinality(M!Contadas(k, g))
                /\ IsFiniteSet(M!Contadas(k, g)) /\ M!Valor(k, g) \in Nat)'
            BY M_ConteosLuego
      <4>2. \A g \in Filtros, k \in M_Contables :
                M!Valor(k, g)' = Cardinality(M!Contadas(k, g)')
            BY <4>1
      <4>3. M!Valor(q, res[m].filtro)' = Cardinality(M!Contadas(q, res[m].filtro)')
            BY <2>1, <4>2
      <4> QED
            BY <4>3
    <3>4. v[q] = IF q \in r.falta THEN M!Valor(q, f) ELSE r.leidas[q]
          BY <3>1 DEF M_Cifras
    <3>5. w[q] = IF q \in r.falta THEN M!Valor(q, f)' ELSE r.leidas[q]
          BY <3>1 DEF M_Cifras
    <3>6. C(q) \ {c} = D(q) \ {c}
          BY M_UnoSolo
    <3> HIDE DEF v, w
    <3> QED
          BY <2>1, <3>1, <3>2, <3>3, <3>4, <3>5, <3>6 DEF M_Dice
  <2>4. M!Concuerdan(v, r.cifras, f, n)
        BY <1>3 DEF M_IInv, M_Cuadra
  <2> HIDE DEF v, w, C, D, n
  <2>5. ASSUME NEW a \in M_Contables, NEW t \in M_Contables, v[a] <= v[t] + n,
               C(a) \subseteq C(t), D(a) \subseteq D(t)
        PROVE  w[a] <= w[t] + (n + 1)
    <3>1. M_Dice(r.falta, a, C(a), r.leidas[a]) <= M_Dice(r.falta, t, C(t), r.leidas[t]) + n
          BY <2>3, <2>5
    <3>2. M_Dice(r.falta, a, D(a), r.leidas[a])
              <= M_Dice(r.falta, t, D(t), r.leidas[t]) + (n + 1)
          BY <2>1, <2>3, <2>5, <3>1, M_Pareja
    <3> QED
          BY <2>3, <3>2
  <2>6. /\ C("hoy") \subseteq C("mes") /\ C("mes") \subseteq C("anio")
        /\ C("anio") \subseteq C("totales")
        /\ D("hoy") \subseteq D("mes") /\ D("mes") \subseteq D("anio")
        /\ D("anio") \subseteq D("totales")
        /\ C("aceptadas") \subseteq C("totales") /\ C("rechazadas") \subseteq C("totales")
        /\ C("aceptadas") \cap C("rechazadas") = {}
        /\ D("aceptadas") \subseteq D("totales") /\ D("rechazadas") \subseteq D("totales")
        /\ D("aceptadas") \cap D("rechazadas") = {}
        BY <2>2 DEF M_Ordenados, C, D
  <2>7. ASSUME v["aceptadas"] + v["rechazadas"] <= v["totales"] + n
        PROVE  w["aceptadas"] + w["rechazadas"] <= w["totales"] + (n + 1)
    <3> DEFINE a == "aceptadas"
               b == "rechazadas"
               t == "totales"
    <3>1. a \in M_Contables /\ b \in M_Contables /\ t \in M_Contables
          BY DEF M_Contables
    <3>2. /\ C(a) \subseteq C(t) /\ C(b) \subseteq C(t) /\ C(a) \cap C(b) = {}
          /\ D(a) \subseteq D(t) /\ D(b) \subseteq D(t) /\ D(a) \cap D(b) = {}
          BY <2>6
    <3>3. v[a] + v[b] <= v[t] + n
          BY <2>7
    <3> HIDE DEF a, b, t
    <3>4. M_Dice(r.falta, a, C(a), r.leidas[a]) + M_Dice(r.falta, b, C(b), r.leidas[b])
              <= M_Dice(r.falta, t, C(t), r.leidas[t]) + n
          BY <2>3, <3>1, <3>3
    <3>5. M_Dice(r.falta, a, D(a), r.leidas[a]) + M_Dice(r.falta, b, D(b), r.leidas[b])
              <= M_Dice(r.falta, t, D(t), r.leidas[t]) + (n + 1)
      <4>1. /\ IsFiniteSet(C(t)) /\ C(t) \ {c} = D(t) \ {c} /\ C(a) \ {c} = D(a) \ {c}
            /\ C(b) \ {c} = D(b) \ {c} /\ r.leidas[t] \in Nat /\ r.leidas[a] \in Nat
            /\ r.leidas[b] \in Nat /\ n \in Nat
            BY <2>1, <2>3, <3>1
      <4> HIDE DEF r
      <4> QED
            BY <3>2, <3>4, <4>1, M_Tercia, Zenon
    <3>6. w[a] + w[b] <= w[t] + (n + 1)
          BY <2>3, <3>1, <3>5
    <3> QED
          BY <3>6 DEF a, b, t
  <2>8. M!Concuerdan(w, r.cifras, f, n + 1)
    <3>1. n + 1 # 0
          BY <2>1
    <3>2. /\ "hoy" \in M_Contables /\ "mes" \in M_Contables /\ "anio" \in M_Contables
          /\ "totales" \in M_Contables
          BY DEF M_Contables
    <3>3. /\ v["hoy"] <= v["mes"] + n => w["hoy"] <= w["mes"] + (n + 1)
          /\ v["mes"] <= v["anio"] + n => w["mes"] <= w["anio"] + (n + 1)
          /\ v["anio"] <= v["totales"] + n => w["anio"] <= w["totales"] + (n + 1)
          BY <2>5, <2>6, <3>2
    <3> HIDE DEF r, f
    <3> QED
          BY <2>4, <2>7, <3>1, <3>3, M_Acuerdo
  <2>9. res'[m] = r /\ movidos'[m] = n + 1
        BY <1>3 DEF n
  <2> QED
        BY <1>3, <2>8, <2>9 DEF M_IInv, M_Cuadra, w
<1> QED
    BY <1>1, <1>2, <1>3 DEF M_IInv, M_Tipos, M!TypeOK, M!Resumen

-----------------------------------------------------------------------------
(* Metricas: steps *)

\* What leaves the quotations and the summaries alone
LEMMA M_Aparte ==
    ASSUME M_IInv, UNCHANGED <<estadoM, origenM, fecha, itemsM, total, res, movidos>>,
           catalogo' \in [Servicios -> [tipo : M!Tipos, precio : Precios, activo : BOOLEAN]],
           crea' \in [Creaciones -> M!Creacion], ajenosM' \in Nat,
           \A p \in Creaciones : crea'[p].pc = "lineas" => crea'[p].total = M!SumaDe(crea'[p].items)
    PROVE  M_IInv'
<1>1. M_Tipos'
    BY DEF M_IInv, M_Tipos, M!TypeOK
<1>2. M_Totales'
    BY DEF M_IInv, M_Totales
<1>3. \A m \in Resumenes : M_Cuadra(m)'
    BY M_Callada
<1> QED
    BY <1>1, <1>2, <1>3 DEF M_IInv

LEMMA M_Piden ==
    ASSUME M_IInv, NEW p \in Creaciones, \E d \in Pedidos : M!Pedir(p, d)
    PROVE  M_IInv'
<1>1. PICK d \in Pedidos : M!Pedir(p, d)
    OBVIOUS
<1> DEFINE x == [pc |-> "lineas", faltan |-> d, items |-> <<>>, total |-> 0]
<1>2. x \in M!Creacion
    BY ParametersAssumption, M_SinLineas DEF M!ConstantsOK, M!Creacion
<1>3. /\ crea' = [crea EXCEPT ![p] = x] /\ crea \in [Creaciones -> M!Creacion]
      /\ UNCHANGED <<estadoM, origenM, fecha, itemsM, total, catalogo, res, ajenosM, movidos>>
    BY <1>1 DEF M!Pedir, M!cotizaciones, M_IInv, M_Tipos, M!TypeOK
<1>4. x.total = M!SumaDe(x.items)
    BY M_SinLineas
<1> HIDE DEF x
<1>5. crea' \in [Creaciones -> M!Creacion] /\ crea'[p] = x
      /\ \A q \in Creaciones \ {p} : crea'[q] = crea[q]
    BY <1>2, <1>3
<1>6. catalogo' \in [Servicios -> [tipo : M!Tipos, precio : Precios, activo : BOOLEAN]]
      /\ ajenosM' \in Nat
    BY <1>3 DEF M_IInv, M_Tipos, M!TypeOK
<1> QED
    BY <1>3, <1>4, <1>5, <1>6, M_Aparte DEF M_IInv, M_Totales

LEMMA M_Producto == \A a, b \in Nat : a * b \in Nat
OBVIOUS

LEMMA M_LeenLinea ==
    ASSUME M_IInv, NEW p \in Creaciones, M!LeeLinea(p)
    PROVE  M_IInv'
<1> DEFINE r == crea[p]
           l == Head(r.faltan)
           s == catalogo[l.servicio]
           subtotal == (IF l.precio # Nada THEN l.precio ELSE s.precio) * l.cantidad
           y == [servicio |-> l.servicio, tipo |-> s.tipo, subtotal |-> subtotal]
           x == IF ~s.activo THEN [pc |-> "hecha"]
                ELSE [r EXCEPT !.faltan = Tail(r.faltan), !.total = r.total + subtotal,
                               !.items = Append(r.items, y)]
<1>1. /\ crea' = [crea EXCEPT ![p] = x] /\ crea \in [Creaciones -> M!Creacion]
      /\ r.pc = "lineas" /\ r.faltan # <<>>
      /\ UNCHANGED <<estadoM, origenM, fecha, itemsM, total, catalogo, res, ajenosM, movidos>>
    BY DEF M!LeeLinea, M!cotizaciones, M_IInv, M_Tipos, M!TypeOK
<1>2. r \in [pc : {"lineas"}, faltan : Seq(M!Pedido), items : Seq(M!Item), total : Nat]
    BY <1>1 DEF M!Creacion
<1>3. l \in M!Pedido /\ Tail(r.faltan) \in Seq(M!Pedido)
    BY <1>1, <1>2
<1>4. s \in [tipo : M!Tipos, precio : Precios, activo : BOOLEAN]
    BY <1>3 DEF M_IInv, M_Tipos, M!TypeOK, M!Pedido
<1>5. subtotal \in Nat
  <2>1. l.cantidad \in Nat /\ l.precio \in Precios \cup {Nada} /\ s.precio \in Precios
        BY <1>3, <1>4 DEF M!Pedido
  <2>2. Precios \subseteq Nat
        BY ParametersAssumption DEF M!ConstantsOK
  <2> HIDE DEF l, s
  <2>3. (IF l.precio # Nada THEN l.precio ELSE s.precio) \in Nat
        BY <2>1, <2>2
  <2> QED
        BY <2>1, <2>3, M_Producto
<1>6. y \in M!Item
  <2> HIDE DEF subtotal, s, l
  <2> QED
        BY <1>3, <1>4, <1>5 DEF M!Item, M!Pedido, M!Cubos
<1>7. Append(r.items, y) \in Seq(M!Item) /\ r.total + subtotal \in Nat
      /\ M!SumaDe(Append(r.items, y)) = M!SumaDe(r.items) + subtotal
  <2>1. r.items \in Seq(M!Item) /\ r.total \in Nat /\ y.subtotal = subtotal
        BY <1>2
  <2> HIDE DEF y, r, subtotal
  <2> QED
        BY <1>5, <1>6, <2>1, M_Agrega
<1>8. r.total = M!SumaDe(r.items)
    BY <1>1 DEF M_IInv, M_Totales
<1>9. x \in M!Creacion /\ (x.pc = "lineas" => x.total = M!SumaDe(x.items))
  <2> HIDE DEF subtotal, y, s, l
  <2>1. CASE ~s.activo
        BY <2>1 DEF M!Creacion
  <2>2. CASE s.activo
    <3>1. x = [r EXCEPT !.faltan = Tail(r.faltan), !.total = r.total + subtotal,
                        !.items = Append(r.items, y)]
          BY <2>2
    <3> HIDE DEF x, r
    <3>2. /\ x \in [pc : {"lineas"}, faltan : Seq(M!Pedido), items : Seq(M!Item), total : Nat]
          /\ x.total = r.total + subtotal /\ x.items = Append(r.items, y)
          BY <1>2, <1>3, <1>7, <3>1
    <3> QED
          BY <1>7, <1>8, <3>2 DEF M!Creacion
  <2> QED
        BY <2>1, <2>2
<1> HIDE DEF x
<1>10. crea' \in [Creaciones -> M!Creacion] /\ crea'[p] = x
       /\ \A q \in Creaciones \ {p} : crea'[q] = crea[q]
    BY <1>1, <1>9
<1>11. catalogo' \in [Servicios -> [tipo : M!Tipos, precio : Precios, activo : BOOLEAN]]
       /\ ajenosM' \in Nat
    BY <1>1 DEF M_IInv, M_Tipos, M!TypeOK
<1> QED
    BY <1>1, <1>9, <1>10, <1>11, M_Aparte DEF M_IInv, M_Totales

\* A move of a quotation is of that one, and is counted by the summaries under way.
LEMMA M_Mueven ==
    ASSUME M_IInv, M!TypeOK', NEW c \in Registros, M!Movida, UNCHANGED res, M_Salvo(c),
           estadoM' \in [Registros -> M!Ciclo!Estados \cup {"ausente"}], M_Totales'
    PROVE  M_IInv'
<1>1. ASSUME NEW m \in Resumenes
      PROVE  M_Cuadra(m)'
  <2>1. movidos'[m] = IF res[m].pc = "lee" THEN movidos[m] + 1 ELSE movidos[m]
        BY DEF M!Movida
  <2> QED
        BY <2>1, M_Empuja
<1> QED
    BY <1>1 DEF M_IInv, M_Tipos

LEMMA M_MovidaCuenta ==
    ASSUME M_IInv, M!Movida
    PROVE  movidos' \in [Resumenes -> Nat]
BY DEF M!Movida, M_IInv, M_Tipos, M!TypeOK

LEMMA M_Guardan ==
    ASSUME M_IInv, NEW p \in Creaciones, M!Guarda(p)
    PROVE  M_IInv'
<1>1. /\ crea' = [crea EXCEPT ![p] = [pc |-> "hecha"]] /\ crea[p].pc = "lineas"
      /\ crea \in [Creaciones -> M!Creacion] /\ UNCHANGED <<catalogo, res, ajenosM>>
    BY DEF M!Guarda, M_IInv, M_Tipos, M!TypeOK
<1>2. [pc |-> "hecha"] \in M!Creacion
    BY DEF M!Creacion
<1>3. /\ crea' \in [Creaciones -> M!Creacion] /\ crea'[p].pc = "hecha"
      /\ \A q \in Creaciones \ {p} : crea'[q] = crea[q]
    BY <1>1, <1>2
<1>4. catalogo' \in [Servicios -> [tipo : M!Tipos, precio : Precios, activo : BOOLEAN]]
      /\ ajenosM' \in Nat
    BY <1>1 DEF M_IInv, M_Tipos, M!TypeOK
<1>5. \A q \in Creaciones : crea'[q].pc = "lineas" => crea'[q].total = M!SumaDe(crea'[q].items)
    BY <1>3 DEF M_IInv, M_Totales
<1>6. CASE UNCHANGED <<M!cotizaciones, movidos>>
  <2>1. UNCHANGED <<estadoM, origenM, fecha, itemsM, total, res, movidos>>
        BY <1>1, <1>6 DEF M!cotizaciones
  <2> QED
        BY <1>3, <1>4, <1>5, <2>1, M_Aparte
<1>7. CASE \E c \in Registros :
            /\ M!Ciclo!Nacer(c)
            /\ fecha' = [fecha EXCEPT ![c] = 4]
            /\ itemsM' = [itemsM EXCEPT ![c] = crea[p].items]
            /\ total' = [total EXCEPT ![c] = crea[p].total]
            /\ M!Movida
  <2>1. PICK c \in Registros :
            /\ M!Ciclo!Nacer(c)
            /\ fecha' = [fecha EXCEPT ![c] = 4]
            /\ itemsM' = [itemsM EXCEPT ![c] = crea[p].items]
            /\ total' = [total EXCEPT ![c] = crea[p].total]
            /\ M!Movida
        BY <1>7
  <2>2. /\ estadoM \in [Registros -> M!Ciclo!Estados \cup {"ausente"}]
        /\ fecha \in [Registros -> M!Periodos] /\ itemsM \in [Registros -> Seq(M!Item)]
        /\ total \in [Registros -> Nat]
        BY DEF M_IInv, M_Tipos, M!TypeOK
  <2>3. estadoM' = [estadoM EXCEPT ![c] = "vigente"]
        BY <2>1 DEF M!Ciclo!Nacer, M!Ciclo!Mover
  <2>4. /\ crea[p].items \in Seq(M!Item) /\ crea[p].total \in Nat
        /\ crea[p].total = M!SumaDe(crea[p].items)
        BY <1>1 DEF M!Creacion, M_IInv, M_Totales
  <2>5. estadoM' \in [Registros -> M!Ciclo!Estados \cup {"ausente"}]
        BY <2>2, <2>3 DEF M!Ciclo!Estados
  <2>6. /\ fecha' \in [Registros -> M!Periodos] /\ itemsM' \in [Registros -> Seq(M!Item)]
        /\ total' \in [Registros -> Nat]
        BY <2>1, <2>2, <2>4 DEF M!Periodos
  <2>7. M_Salvo(c)
        BY <2>1, <2>2, <2>3 DEF M_Salvo
  <2>8. M!TypeOK'
        BY <1>1, <1>3, <1>4, <2>1, <2>6, M_MovidaCuenta DEF M_IInv, M_Tipos, M!TypeOK
  <2>9. \A x \in Registros : total'[x] = M!SumaDe(itemsM'[x])
        BY <2>1, <2>2, <2>4 DEF M_IInv, M_Totales
  <2>10. M_Totales'
        BY <1>5, <2>9 DEF M_Totales
  <2> QED
        BY <1>1, <2>1, <2>5, <2>7, <2>8, <2>10, M_Mueven
<1> QED
    BY <1>6, <1>7 DEF M!Guarda

LEMMA M_Resumen ==
    ASSUME M_IInv, NEW m \in Resumenes, NEW x \in M_Ficha,
           res' = [res EXCEPT ![m] = x], M_Cuadra(m)',
           UNCHANGED <<estadoM, origenM, fecha, itemsM, total, catalogo, crea, ajenosM, movidos>>
    PROVE  M_IInv'
<1>1. /\ res' \in [Resumenes -> M!Resumen] /\ \A k \in Resumenes \ {m} : res'[k] = res[k]
    BY M_Fichas DEF M_IInv, M_Tipos, M!TypeOK
<1>2. M_Tipos' /\ M_Totales'
    BY <1>1 DEF M_IInv, M_Tipos, M!TypeOK, M_Totales
<1>3. ASSUME NEW k \in Resumenes
      PROVE  M_Cuadra(k)'
  <2>1. CASE k = m
        BY <2>1
  <2>2. CASE k # m
        BY <1>1, <2>2, M_Callada
  <2> QED
        BY <2>1, <2>2
<1> QED
    BY <1>2, <1>3 DEF M_IInv

LEMMA M_Empiezan ==
    ASSUME M_IInv, NEW m \in Resumenes, NEW f \in Filtros, NEW Q \in M!Comparadas,
           M!Resumir(m, f, Q)
    PROVE  M_IInv'
<1> DEFINE x == [pc |-> "lee", filtro |-> f, cifras |-> Q, falta |-> Q,
                 leidas |-> [q \in M!Consultas |-> 0]]
<1>1. /\ res' = [res EXCEPT ![m] = x] /\ res \in [Resumenes -> M!Resumen]
      /\ UNCHANGED <<estadoM, origenM, fecha, itemsM, total, catalogo, crea, ajenosM, movidos>>
    BY DEF M!Resumir, M!cotizaciones, M_IInv, M_Tipos, M!TypeOK
<1>2. Q \subseteq M!Consultas /\ (Q \cap M!Cubos = {} \/ M!Cubos \subseteq Q)
    BY DEF M!Comparadas, M!Consultas, M!Cubos, M!Tipos
<1>3. x \in M_Ficha
    BY <1>2 DEF M_Ficha
<1>4. res'[m] = x /\ movidos'[m] = movidos[m] /\ movidos[m] \in Nat
    BY <1>1 DEF M_IInv, M_Tipos, M!TypeOK
<1>5. M!Concuerdan(M_Cifras(m)', Q, f, movidos[m])
\* what is not read does not matter: no query outside of the comparison is looked at
  <2> DEFINE w == M_Cifras(m)'
             v == [q \in M!Consultas |-> M!Valor(q, f)]
  <2>1. M!Concuerdan(v, Q, f, movidos[m])
        BY <1>4, M_DeUnaVez DEF M_IInv, M_Tipos
  <2>2. \A q \in Q : w[q] = v[q]
    <3>1. \A q \in Q : w[q] = M!Valor(q, f)'
          BY <1>2, <1>4 DEF M_Cifras
    <3> QED
          BY <1>1, <1>2, <3>1, M_Iguales
  <2>3. /\ {"hoy", "mes"} = Q => "hoy" \in Q /\ "mes" \in Q
        /\ {"mes", "anio"} = Q => "mes" \in Q /\ "anio" \in Q
        /\ {"anio", "totales"} = Q => "anio" \in Q /\ "totales" \in Q
        /\ "aceptadas" \in Q => "rechazadas" \in Q /\ "totales" \in Q
        /\ "ingresos" \in Q => "producto" \in Q /\ "servicio" \in Q /\ "sinTipo" \in Q
        BY DEF M!Comparadas, M!Cubos, M!Tipos
  <2> HIDE DEF w, v
  <2>4. M!Concuerdan(w, Q, f, movidos[m])
        BY <2>1, <2>2, <2>3, M_Acuerdo
  <2> QED
        BY <2>4 DEF w
<1>6. M_Cuadra(m)'
    BY <1>2, <1>4, <1>5 DEF M_Cuadra
<1> HIDE DEF x
<1> QED
    BY <1>1, <1>3, <1>6, M_Resumen

LEMMA M_Consultan ==
    ASSUME M_IInv, NEW m \in Resumenes, NEW q \in M!Consultas, M!Consulta(m, q)
    PROVE  M_IInv'
<1> DEFINE r == res[m]
           f == r.filtro
           falta == r.falta \ M!Grupo(q)
           leidas == [k \in M!Consultas |-> IF k \in M!Grupo(q) THEN M!Valor(k, f)
                                            ELSE r.leidas[k]]
           x == [r EXCEPT !.falta = falta, !.pc = IF falta = {} THEN "hecho" ELSE "lee",
                          !.leidas = leidas]
<1>1. /\ r.pc = "lee" /\ q \in r.falta
      /\ res' = [res EXCEPT ![m] = x] /\ res \in [Resumenes -> M!Resumen]
      /\ UNCHANGED <<estadoM, origenM, fecha, itemsM, total, catalogo, crea, ajenosM, movidos>>
    BY DEF M!Consulta, M!cotizaciones, M_IInv, M_Tipos, M!TypeOK
<1>2. r \in M_Ficha /\ f \in Filtros
  <2>1. r \in M_Ficha
        BY <1>1, M_Fichas
  <2> QED
        BY <2>1 DEF M_Ficha
<1>3. leidas \in [M!Consultas -> Nat]
  <2>1. \A k \in M!Consultas : M!Valor(k, f) \in Nat
        BY <1>2, M_Valores DEF M_IInv, M_Tipos
  <2> HIDE DEF f, r
  <2>2. r.leidas \in [M!Consultas -> Nat]
        BY <1>2 DEF M_Ficha
  <2> QED
        BY <2>1, <2>2
<1>4. /\ x \in M_Ficha /\ x.falta = falta /\ x.leidas = leidas /\ x.filtro = f
      /\ x.cifras = r.cifras /\ x.pc = (IF falta = {} THEN "hecho" ELSE "lee")
  <2>1. falta \in SUBSET M!Consultas /\ (IF falta = {} THEN "hecho" ELSE "lee") \in {"lee", "hecho"}
        BY <1>2 DEF M_Ficha
  <2> HIDE DEF falta, leidas, r
  <2> QED
        BY <1>2, <1>3, <2>1 DEF M_Ficha
<1>5. res'[m] = x
    BY <1>1
<1>6. /\ r.falta \cap M!Cubos = {} \/ M!Cubos \subseteq r.falta
      /\ M!Concuerdan(M_Cifras(m), r.cifras, f, movidos[m])
    BY <1>1 DEF M_IInv, M_Cuadra
<1>7. M!Grupo(q) \subseteq r.falta /\ (falta \cap M!Cubos = {} \/ M!Cubos \subseteq falta)
  <2>1. CASE q \in M!Cubos
        BY <1>1, <1>6, <2>1 DEF M!Grupo
  <2>2. CASE q \notin M!Cubos
        BY <1>1, <1>6, <2>2 DEF M!Grupo
  <2> QED
        BY <2>1, <2>2
<1>8. M_Cifras(m)' = M_Cifras(m)
  <2>1. M_Cifras(m)' = [k \in M!Consultas |-> IF k \in falta THEN M!Valor(k, f) ELSE leidas[k]]
    <3>1. res'[m].falta = falta /\ res'[m].leidas = leidas /\ res'[m].filtro = f
          BY <1>4, <1>5
    <3>2. M_Cifras(m)' = [k \in M!Consultas |-> IF k \in res'[m].falta
                                                THEN M!Valor(k, res[m].filtro)'
                                                ELSE res'[m].leidas[k]]
          BY DEF M_Cifras
    <3>3. \A k : M!Valor(k, res[m].filtro)' = M!Valor(k, f)
      <4>1. \A k, g : M!Valor(k, g)' = M!Valor(k, g)
            BY <1>1, M_Iguales
      <4>2. res'[m].filtro = res[m].filtro
            BY <3>1
      <4>3. \A k : M!Valor(k, res[m].filtro)' = M!Valor(k, res[m].filtro)
            BY <4>1, <4>2
      <4> QED
            BY <4>3
    <3> HIDE DEF falta, leidas, x
    <3> QED
          BY <3>1, <3>2, <3>3
  <2>2. \A k \in M!Consultas : (IF k \in falta THEN M!Valor(k, f) ELSE leidas[k])
                                   = (IF k \in r.falta THEN M!Valor(k, f) ELSE r.leidas[k])
    <3> TAKE k \in M!Consultas
    <3>1. leidas[k] = IF k \in M!Grupo(q) THEN M!Valor(k, f) ELSE r.leidas[k]
          OBVIOUS
    <3>2. k \in falta <=> k \in r.falta /\ k \notin M!Grupo(q)
          OBVIOUS
    <3> HIDE DEF falta, leidas, f, r
    <3> QED
          BY <1>7, <3>1, <3>2
  <2>3. M_Cifras(m) = [k \in M!Consultas |-> IF k \in r.falta THEN M!Valor(k, f)
                                             ELSE r.leidas[k]]
        BY DEF M_Cifras
  <2> HIDE DEF falta, leidas, f, r
  <2> QED
        BY <2>1, <2>2, <2>3
<1>9. M_Cuadra(m)'
  <2>1. M!Concuerdan(M_Cifras(m)', res'[m].cifras, res'[m].filtro, movidos'[m])
        BY <1>1, <1>4, <1>5, <1>6, <1>8
  <2>2. /\ res'[m].pc = "hecho" => res'[m].falta = {}
        /\ res'[m].falta \cap M!Cubos = {} \/ M!Cubos \subseteq res'[m].falta
        BY <1>4, <1>5, <1>7
  <2> QED
        BY <2>1, <2>2 DEF M_Cuadra
<1> HIDE DEF x
<1> QED
    BY <1>1, <1>4, <1>9, M_Resumen

LEMMA M_Ajenos ==
    ASSUME M_IInv, ajenosM' = ajenosM + 1,
           (\E c \in Registros : M!MueveCotizacion(c)) \/ (\E s \in Servicios : M!CambiaServicio(s))
    PROVE  M_IInv'
<1>1. CASE \E c \in Registros : M!MueveCotizacion(c)
  <2>1. PICK c \in Registros : M!MueveCotizacion(c)
        BY <1>1
  <2>2. /\ M!Movida /\ UNCHANGED <<fecha, itemsM, total, catalogo, crea, res>>
        /\ M!Ciclo!Responder(c) \/ M!Ciclo!Expirar(c) \/ M!Ciclo!CambiarManual(c)
        BY <2>1 DEF M!MueveCotizacion
  <2>3. PICK e \in M!Ciclo!Estados : estadoM' = [estadoM EXCEPT ![c] = e]
        BY <2>2 DEF M!Ciclo!Responder, M!Ciclo!Expirar, M!Ciclo!CambiarManual, M!Ciclo!Mover,
                    M!Ciclo!Estados, M!Ciclo!Decisiones
  <2>4. estadoM \in [Registros -> M!Ciclo!Estados \cup {"ausente"}]
        BY DEF M_IInv, M_Tipos
  <2>5. estadoM' \in [Registros -> M!Ciclo!Estados \cup {"ausente"}] /\ M_Salvo(c)
        BY <2>2, <2>3, <2>4 DEF M_Salvo
  <2>6. M!TypeOK' /\ M_Totales'
        BY <2>2, M_MovidaCuenta DEF M_IInv, M_Tipos, M!TypeOK, M_Totales
  <2> QED
        BY <2>2, <2>5, <2>6, M_Mueven
<1>2. CASE \E s \in Servicios : M!CambiaServicio(s)
  <2>1. PICK s \in Servicios, d \in [tipo : M!Tipos, precio : Precios, activo : BOOLEAN] :
            /\ catalogo' = [catalogo EXCEPT ![s] = d]
            /\ UNCHANGED <<M!cotizaciones, crea, res, movidos>>
        BY <1>2 DEF M!CambiaServicio
  <2>2. UNCHANGED <<estadoM, origenM, fecha, itemsM, total, res, movidos>> /\ UNCHANGED crea
        BY <2>1 DEF M!cotizaciones
  <2>3. /\ catalogo' \in [Servicios -> [tipo : M!Tipos, precio : Precios, activo : BOOLEAN]]
        /\ crea' \in [Creaciones -> M!Creacion] /\ ajenosM' \in Nat
        BY <2>1, <2>2 DEF M_IInv, M_Tipos, M!TypeOK
  <2>4. \A p \in Creaciones : crea'[p].pc = "lineas" => crea'[p].total = M!SumaDe(crea'[p].items)
        BY <2>2 DEF M_IInv, M_Totales
  <2> QED
        BY <2>2, <2>3, <2>4, M_Aparte
<1> QED
    BY <1>1, <1>2

LEMMA M_Inicio ==
    ASSUME M!Init
    PROVE  M_IInv
<1>1. estadoM \in [Registros -> M!Ciclo!Estados \cup {"ausente"}]
    BY DEF M!Init, M!Ciclo!Estados
<1>2. fecha \in [Registros -> M!Periodos] /\ itemsM \in [Registros -> Seq(M!Item)]
  <2>1. /\ DOMAIN Iniciales \subseteq Registros
        /\ \A c \in DOMAIN Iniciales :
              Iniciales[c].fecha \in M!Periodos /\ Iniciales[c].items \in Seq(M!Item)
        BY ParametersAssumption DEF M!ConstantsOK
  <2>2. 4 \in M!Periodos /\ <<>> \in Seq(M!Item)
        BY M_SinLineas DEF M!Periodos
  <2>3. /\ fecha = [c \in Registros |-> IF c \in DOMAIN Iniciales THEN Iniciales[c].fecha ELSE 4]
        /\ itemsM = [c \in Registros |-> IF c \in DOMAIN Iniciales THEN Iniciales[c].items
                                         ELSE <<>>]
        BY DEF M!Init
  <2> QED
        BY <2>1, <2>2, <2>3
<1>3. /\ total = [c \in Registros |-> M!SumaDe(itemsM[c])]
      /\ crea = [p \in Creaciones |-> [pc |-> "libre"]]
      /\ res = [m \in Resumenes |-> [pc |-> "libre"]]
      /\ ajenosM = 0 /\ movidos = [m \in Resumenes |-> 0]
      /\ catalogo \in [Servicios -> [tipo : M!Tipos, precio : Precios, activo : BOOLEAN]]
    BY DEF M!Init
<1>4. total \in [Registros -> Nat]
    BY <1>2, <1>3, M_Lineas
<1>5. [pc |-> "libre"] \in M!Creacion /\ [pc |-> "libre"] \in M!Resumen
    BY M_Fichas DEF M!Creacion
<1>6. M!TypeOK
    BY <1>2, <1>3, <1>4, <1>5 DEF M!TypeOK
<1>7. M_Totales /\ \A m \in Resumenes : M_Cuadra(m)
    BY <1>3 DEF M_Totales, M_Cuadra
<1> QED
    BY <1>1, <1>6, <1>7 DEF M_IInv, M_Tipos

LEMMA M_Paso ==
    ASSUME M_IInv, [M!Next]_varsM
    PROVE  M_IInv'
<1>1. CASE UNCHANGED varsM
  <2>1. UNCHANGED <<estadoM, origenM, fecha, itemsM, total, res, movidos>>
        /\ UNCHANGED <<catalogo, crea, ajenosM>>
        BY <1>1 DEF varsM
  <2>2. /\ catalogo' \in [Servicios -> [tipo : M!Tipos, precio : Precios, activo : BOOLEAN]]
        /\ crea' \in [Creaciones -> M!Creacion] /\ ajenosM' \in Nat
        BY <2>1 DEF M_IInv, M_Tipos, M!TypeOK
  <2>3. \A p \in Creaciones : crea'[p].pc = "lineas" => crea'[p].total = M!SumaDe(crea'[p].items)
        BY <2>1 DEF M_IInv, M_Totales
  <2> QED
        BY <2>1, <2>2, <2>3, M_Aparte
<1>2. CASE M!Next
    BY <1>2, M_Piden, M_LeenLinea, M_Guardan, M_Empiezan, M_Consultan, M_Ajenos DEF M!Next
<1> QED
    BY <1>1, <1>2

-----------------------------------------------------------------------------
(* Theorems *)

\* A step of the whole is a step of each part or leaves it as it is.
LEMMA Partes ==
    ASSUME [NextTodo]_<<vars, varsI, varsM, varsL, varsG>>
    PROVE  /\ [Next]_vars /\ [I!Next]_varsI /\ [M!Next]_varsM /\ [L!Next]_varsL
           /\ [G!Next]_varsG
BY DEF NextTodo, PasoRepetir, PasoImportacion, PasoMetricas, PasoClientes, PasoConfidencialidad

\* Every state that is reached satisfies the inductive invariant of the agreement:
\* what a host remembers is stored, for the version that it carries
\* (confidentiality.service.ts:81).
THEOREM GateIInv == SpecTodo => []G_IInv
<1>1. InitTodo => G_IInv
    BY G_Inicio, ParametersAssumption DEF InitTodo
<1>2. G_IInv /\ [NextTodo]_<<vars, varsI, varsM, varsL, varsG>> => G_IInv'
    BY G_Paso, Partes
<1> QED
    BY <1>1, <1>2, PTL DEF SpecTodo

\* Nobody passes, or is told to have accepted, without a stored acceptance of the
\* version of the host, and nobody who was told is refused by it
\* (confidentiality.service.ts:81, :172).
THEOREM GateIsFaithful == SpecTodo => []PuertaFiel
<1>1. G_IInv => PuertaFiel
    BY DEF G_IInv, G_EnVuelo, PuertaFiel, G!PuertaFiel
<1> QED
    BY <1>1, GateIInv, PTL

\* Every state that is reached satisfies the inductive invariant of the customers: every
\* contact is of a customer that is there, and what a request goes on to write is there,
\* removed or not (clientes.service.ts:338, contactos.service.ts:81, :231).
THEOREM CustomersIInv == SpecTodo => []L_IInv
<1>1. InitTodo => L_IInv
    BY L_Inicio DEF InitTodo
<1>2. L_IInv /\ [NextTodo]_<<vars, varsI, varsM, varsL, varsG>> => L_IInv'
    BY L_Paso, Partes
<1> QED
    BY <1>1, <1>2, PTL DEF SpecTodo

\* Every state that is reached satisfies the inductive invariant of the import: the
\* rows before the one in turn have been counted, and what it remembers covers what
\* it read and what it created (servicios.service.ts:242).
THEOREM ImportIInv == SpecTodo => []I_IInv
<1>1. InitTodo => I_IInv
    BY I_Inicio DEF InitTodo
<1>2. I_IInv /\ [NextTodo]_<<vars, varsI, varsM, varsL, varsG>> => I_IInv'
    BY I_Paso, Partes
<1> QED
    BY <1>1, <1>2, PTL DEF SpecTodo

\* No row of an import repeats a name that the import read or has counted as created,
\* whoever writes meanwhile; its counts add up to the rows, what it counts as created is
\* there and what it created without knowing it counts as failed
\* (servicios.service.ts:233, :284, :299).
THEOREM ImportIsFaithful == SpecTodo => []ImportacionFiel
<1>1. ASSUME I_IInv PROVE I!SinRepetidos
    BY <1>1 DEF I_IInv, I_Bien, I_Distintos, I!SinRepetidos
<1>2. ASSUME I_IInv, NEW p \in Peticiones, petI[p].pc = "hecha"
      PROVE  /\ petI[p].creadas + petI[p].fallidas + petI[p].vacias = Len(petI[p].filas)
             /\ petI[p].creadas = Cardinality(hechos[p])
             /\ Cardinality(perdidos[p]) <= petI[p].fallidas
             /\ hechos[p] \cap perdidos[p] = {}
  <2>1. petI[p] \in I_Ficha /\ I_Bien(p)
        BY <1>2, I_Fichas DEF I_IInv, I!TypeOK
  <2>2. /\ petI[p].creadas \in Nat /\ petI[p].fallidas \in Nat /\ petI[p].vacias \in Nat
        /\ petI[p].i \in Nat /\ Len(petI[p].filas) \in Nat
        BY <2>1, I_Fichas DEF I_Ficha
  <2>3. /\ petI[p].creadas + petI[p].fallidas + petI[p].vacias + 1 = petI[p].i
        /\ petI[p].i = Len(petI[p].filas) + 1
        BY <1>2, <2>1 DEF I_Bien, I_Cuadra
  <2>4. petI[p].creadas + petI[p].fallidas + petI[p].vacias = Len(petI[p].filas)
        BY <2>2, <2>3
  <2> QED
        BY <1>2, <2>1, <2>4 DEF I_Bien, I_Cuenta
<1>3. ASSUME I_IInv PROVE I!CuentaCuadra
  <2> SUFFICES ASSUME NEW p \in Peticiones, petI[p].pc = "hecha"
               PROVE  /\ petI[p].creadas + petI[p].fallidas + petI[p].vacias
                             = Len(petI[p].filas)
                      /\ petI[p].creadas = Cardinality(hechos[p])
                      /\ Cardinality(perdidos[p]) <= petI[p].fallidas
                      /\ hechos[p] \cap perdidos[p] = {}
      BY DEF I!CuentaCuadra, I!Cardinality, Cardinality
  <2> QED
      BY <1>2, <1>3
<1>4. I_IInv => ImportacionFiel
    BY <1>1, <1>3 DEF ImportacionFiel, I!ImportacionFiel
<1> QED
    BY <1>4, ImportIInv, PTL

\* Every state that is reached satisfies the inductive invariant of the summary: its
\* figures, those still to be read taken as they are now, agree (metrics.service.ts:348).
THEOREM SummaryIInv == SpecTodo => []M_IInv
<1>1. InitTodo => M_IInv
    BY M_Inicio DEF InitTodo
<1>2. M_IInv /\ [NextTodo]_<<vars, varsI, varsM, varsL, varsG>> => M_IInv'
    BY M_Paso, Partes
<1> QED
    BY <1>1, <1>2, PTL DEF SpecTodo

\* The figures of a summary agree with each other, for any quotations, lines, filters
\* and summaries, whatever moves between two of its queries
\* (metrics.service.ts:348, :436).
THEOREM SummaryIsCoherent == SpecTodo => []ResumenCoherente
<1>1. ASSUME M_IInv, NEW m \in Resumenes, res[m].pc = "hecho"
      PROVE  M!Concuerdan(res[m].leidas, res[m].cifras, res[m].filtro, movidos[m])
  <2>1. res[m].falta = {} /\ M!Concuerdan(M_Cifras(m), res[m].cifras, res[m].filtro, movidos[m])
        BY <1>1 DEF M_IInv, M_Cuadra
  <2>2. res[m] \in M_Ficha
        BY <1>1, M_Fichas DEF M_IInv, M_Tipos, M!TypeOK
  <2>3. res[m].leidas = [q \in M!Consultas |-> res[m].leidas[q]]
        BY <2>2 DEF M_Ficha
  <2>4. M_Cifras(m) = res[m].leidas
        BY <2>1, <2>3 DEF M_Cifras
  <2> QED
        BY <2>1, <2>4
<1>2. M_IInv => ResumenCoherente
    BY <1>1 DEF ResumenCoherente, M!ResumenCoherente
<1> QED
    BY <1>2, SummaryIInv, PTL

\* The documents and the locals of the requests of all the parts keep their types.
THEOREM TypesAreCorrect == SpecTodo => []TiposOK
<1>1. InitTodo => IInv
    BY InitIInv DEF InitTodo
<1>2. IInv /\ [NextTodo]_<<vars, varsI, varsM, varsL, varsG>> => IInv'
    BY NextIInv, Partes
<1>3. IInv /\ G_IInv /\ L_IInv /\ I_IInv /\ M_IInv => TiposOK
    BY DEF IInv, G_IInv, L_IInv, I_IInv, M_IInv, M_Tipos, TiposOK
<1> QED
    BY <1>1, <1>2, <1>3, GateIInv, CustomersIInv, ImportIInv, SummaryIInv, PTL DEF SpecTodo
=============================================================================
