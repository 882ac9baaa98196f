---------------------------- MODULE StreamsProofs ----------------------------
(***************************************************************************)
(* For every number of FCBs, of descriptors, of processes and of sleeping  *)
(* calls: the FCBs and the streams behind them are accounted for exactly.  *)
(***************************************************************************)
EXTENDS Streams, ListLemmas, FiniteSetTheorems

Free == ToSet(FCB_freelist)

\* A process that has not begun, or that has ended, refers to nothing.
DeadHoldNothing == \A p \in Procs \ alive : \A i \in Fids : FIDT[p][i] = NULL

IInv ==
  /\ TypeOK
  /\ FcbsExact
  /\ StreamsExact
  /\ Free \cap leftover = {}
  /\ DeadHoldNothing

-----------------------------------------------------------------------------
(***************************************************************************)
(* Counting.                                                               *)
(***************************************************************************)

\* The descriptors of a table T, and the calls C, that refer to f.
In(T, f) == {d \in Procs \X Fids : T[d[1]][d[2]] = f}
On(C, f) == {t \in Threads : C[t] = f}

\* A table, or the calls, with one entry changed; a table in which process c
\* has the descriptors of p.
WithFid(T, p, i, v) == [T EXCEPT ![p][i] = v]
WithCall(C, t, v)   == [C EXCEPT ![t] = v]
WithRow(T, c, p)    == [T EXCEPT ![c] = T[p]]

\* Those who refer to f.
Users(T, C, f) == Cardinality(In(T, f)) + Cardinality(On(C, f))

Same(v, w) == IF v = w THEN 1 ELSE 0

Tables == [Procs -> [Fids -> FT \cup {NULL}]]

LEMMA ConstantsTyped ==
  /\ IsFiniteSet(Procs \X Fids) /\ IsFiniteSet(Fids) /\ IsFiniteSet(Threads)
  /\ NULL \notin FT /\ Fids \subseteq Nat
  /\ InitProc \in Procs
<1>1. MAX_FILES \in Nat /\ MAX_FILEID \in Nat /\ IsFiniteSet(Procs)
  BY ConstantsAssumption
<1>2. IsFiniteSet(Fids)
  BY <1>1, FS_Interval DEF Fids
<1>3. IsFiniteSet(Procs \X Fids)
  BY <1>1, <1>2, FS_Product
<1> QED
  BY <1>1, <1>2, <1>3, ConstantsAssumption DEF FT, Fids

LEMMA CountsAreNatural ==
  ASSUME NEW T, NEW C, NEW f
  PROVE  /\ IsFiniteSet(In(T, f)) /\ Cardinality(In(T, f)) \in Nat
         /\ IsFiniteSet(On(C, f)) /\ Cardinality(On(C, f)) \in Nat
<1>1. In(T, f) \in SUBSET (Procs \X Fids) /\ On(C, f) \in SUBSET Threads
  BY DEF In, On
<1>2. IsFiniteSet(In(T, f)) /\ IsFiniteSet(On(C, f))
  BY <1>1, ConstantsTyped, FS_Subset
<1> QED
  BY <1>2, FS_CardinalityType

\* A descriptor that changes from w to v counts for v, and for w no more.
LEMMA SetDescriptor ==
  ASSUME NEW T \in Tables, NEW p \in Procs, NEW i \in Fids,
         NEW v \in FT \cup {NULL}, NEW f \in FT
  PROVE  /\ WithFid(T, p, i, v) \in Tables
         /\ Cardinality(In(WithFid(T, p, i, v), f))
              = Cardinality(In(T, f)) + Same(v, f) - Same(T[p][i], f)
<1> DEFINE U == WithFid(T, p, i, v)
           d == <<p, i>>
<1>1. /\ U \in Tables
      /\ \A q \in Procs, j \in Fids : U[q][j] = IF q = p /\ j = i THEN v ELSE T[q][j]
  BY DEF Tables, WithFid
<1>2. d \in Procs \X Fids /\ d[1] = p /\ d[2] = i
  OBVIOUS
<1>3. \A e \in Procs \X Fids : e[1] \in Procs /\ e[2] \in Fids /\ (e # d => e[1] # p \/ e[2] # i)
  OBVIOUS
<1> HIDE DEF U, d
<1>4. \A e \in Procs \X Fids : U[e[1]][e[2]] = IF e = d THEN v ELSE T[e[1]][e[2]]
  BY <1>1, <1>2, <1>3
<1>5. /\ v = f => In(U, f) = In(T, f) \cup {d}
      /\ v # f => In(U, f) = In(T, f) \ {d}
      /\ d \in In(T, f) <=> T[p][i] = f
  BY <1>2, <1>4 DEF In
<1>6. IsFiniteSet(In(T, f)) /\ Cardinality(In(T, f)) \in Nat
  BY CountsAreNatural
<1>7. /\ Cardinality(In(T, f) \cup {d}) = Cardinality(In(T, f)) + 1 - Same(T[p][i], f)
      /\ Cardinality(In(T, f) \ {d}) = Cardinality(In(T, f)) - Same(T[p][i], f)
  <2>1. /\ Cardinality(In(T, f) \cup {d}) =
             IF d \in In(T, f) THEN Cardinality(In(T, f)) ELSE Cardinality(In(T, f)) + 1
        /\ Cardinality(In(T, f) \ {d}) =
             IF d \in In(T, f) THEN Cardinality(In(T, f)) - 1 ELSE Cardinality(In(T, f))
    BY <1>6, FS_AddElement, FS_RemoveElement
  <2> QED
    BY <2>1, <1>5, <1>6 DEF Same
<1>8. Cardinality(In(U, f)) = Cardinality(In(T, f)) + Same(v, f) - Same(T[p][i], f)
  <2>1. Same(T[p][i], f) \in Nat
    BY DEF Same
  <2>2. CASE v = f
    <3>1. Cardinality(In(U, f)) = Cardinality(In(T, f) \cup {d})
      BY <2>2, <1>5, Zenon
    <3>2. Same(v, f) = 1
      BY <2>2 DEF Same
    <3> QED
      BY <2>1, <3>1, <3>2, <1>6, <1>7
  <2>3. CASE v # f
    <3>1. Cardinality(In(U, f)) = Cardinality(In(T, f) \ {d})
      BY <2>3, <1>5, Zenon
    <3>2. Same(v, f) = 0
      BY <2>3 DEF Same
    <3> QED
      BY <2>1, <3>1, <3>2, <1>6, <1>7
  <2> QED
    BY <2>2, <2>3
<1> QED
  BY <1>1, <1>8 DEF U

\* The same for a call.
LEMMA SetCall ==
  ASSUME NEW C \in [Threads -> FT \cup {NULL}], NEW t \in Threads,
         NEW v \in FT \cup {NULL}, NEW f \in FT
  PROVE  /\ WithCall(C, t, v) \in [Threads -> FT \cup {NULL}]
         /\ Cardinality(On(WithCall(C, t, v), f))
              = Cardinality(On(C, f)) + Same(v, f) - Same(C[t], f)
<1> DEFINE D == WithCall(C, t, v)
<1>1. /\ D \in [Threads -> FT \cup {NULL}]
      /\ \A u \in Threads : D[u] = IF u = t THEN v ELSE C[u]
  BY DEF WithCall
<1> HIDE DEF D
<1>2. /\ v = f => On(D, f) = On(C, f) \cup {t}
      /\ v # f => On(D, f) = On(C, f) \ {t}
      /\ t \in On(C, f) <=> C[t] = f
  BY <1>1 DEF On
<1>3. IsFiniteSet(On(C, f)) /\ Cardinality(On(C, f)) \in Nat
  BY CountsAreNatural
<1>4. /\ Cardinality(On(C, f) \cup {t}) =
           IF t \in On(C, f) THEN Cardinality(On(C, f)) ELSE Cardinality(On(C, f)) + 1
      /\ Cardinality(On(C, f) \ {t}) =
           IF t \in On(C, f) THEN Cardinality(On(C, f)) - 1 ELSE Cardinality(On(C, f))
  BY <1>3, FS_AddElement, FS_RemoveElement
<1>5. CASE v = f
  <2>1. Cardinality(On(D, f)) = Cardinality(On(C, f) \cup {t})
    BY <1>2, <1>5, Zenon
  <2>2. Cardinality(On(D, f)) = Cardinality(On(C, f)) + Same(v, f) - Same(C[t], f)
    BY <2>1, <1>2, <1>3, <1>4, <1>5 DEF Same
  <2> QED
    BY <2>2, <1>1 DEF D
<1>6. CASE v # f
  <2>1. Cardinality(On(D, f)) = Cardinality(On(C, f) \ {t})
    BY <1>2, <1>6, Zenon
  <2>2. Cardinality(On(D, f)) = Cardinality(On(C, f)) + Same(v, f) - Same(C[t], f)
    BY <2>1, <1>2, <1>3, <1>4, <1>6 DEF Same
  <2> QED
    BY <2>2, <1>1 DEF D
<1> QED
  BY <1>5, <1>6

\* A table that takes over the row of another process, for a row of NULLs.
LEMMA CopyRow ==
  ASSUME NEW T \in Tables, NEW p \in Procs, NEW c \in Procs, p # c,
         \A i \in Fids : T[c][i] = NULL, NEW f \in FT
  PROVE  LET copied == Cardinality({i \in Fids : T[p][i] = f})
         IN  /\ WithRow(T, c, p) \in Tables
             /\ copied \in Nat
             /\ Cardinality(In(WithRow(T, c, p), f)) = Cardinality(In(T, f)) + copied
<1> DEFINE U == WithRow(T, c, p)
           K == {i \in Fids : T[p][i] = f}
           R == {c} \X K
<1>1. /\ U \in Tables
      /\ \A q \in Procs, j \in Fids : U[q][j] = IF q = c THEN T[p][j] ELSE T[q][j]
  BY DEF Tables, WithRow
<1>2. IsFiniteSet(K) /\ K \subseteq Fids /\ Cardinality(K) \in Nat
  <2>1. K \in SUBSET Fids
    OBVIOUS
  <2> QED
    BY <2>1, ConstantsTyped, FS_Subset, FS_CardinalityType
<1>3. \A j \in Fids : j \in K <=> T[p][j] = f
  OBVIOUS
<1>4. IsFiniteSet({c}) /\ Cardinality({c}) = 1
  BY FS_Singleton
<1> HIDE DEF U, K
<1>5. IsFiniteSet(R) /\ Cardinality(R) = Cardinality(K)
  BY <1>2, <1>4, FS_Product
<1>6. \A e \in Procs \X Fids : e \in R <=> e[1] = c /\ e[2] \in K
  OBVIOUS
<1>7. R \subseteq Procs \X Fids
  BY <1>2
<1> HIDE DEF R
<1>8. \A e \in Procs \X Fids : e[1] \in Procs /\ e[2] \in Fids
  OBVIOUS
<1>9. In(U, f) = In(T, f) \cup R /\ In(T, f) \cap R = {}
  <2>1. ASSUME NEW e \in Procs \X Fids
        PROVE  /\ e \in In(U, f) <=> e \in In(T, f) \/ e \in R
               /\ ~ (e \in In(T, f) /\ e \in R)
    <3>1. CASE e[1] = c
      <4>1. /\ T[e[1]][e[2]] = NULL /\ NULL # f
            /\ U[e[1]][e[2]] = T[p][e[2]]
        BY <3>1, <1>1, <1>8, ConstantsTyped
      <4> QED
        BY <3>1, <4>1, <1>3, <1>6, <1>8 DEF In
    <3>2. CASE e[1] # c
      BY <3>2, <1>1, <1>6, <1>8 DEF In
    <3> QED
      BY <3>1, <3>2
  <2>2. In(U, f) \subseteq Procs \X Fids /\ In(T, f) \subseteq Procs \X Fids
    BY DEF In
  <2> QED
    BY <2>1, <2>2, <1>7
<1>10. IsFiniteSet(In(T, f)) /\ Cardinality(In(T, f)) \in Nat
  BY CountsAreNatural
<1>11. Cardinality(In(T, f) \cap R) = 0
  BY <1>9, FS_EmptySet
<1>12. Cardinality(In(T, f) \cup R)
         = Cardinality(In(T, f)) + Cardinality(R) - Cardinality(In(T, f) \cap R)
  BY <1>5, <1>10, FS_Union
<1>13. Cardinality(In(U, f)) = Cardinality(In(T, f)) + Cardinality(K)
  <2>1. Cardinality(In(U, f)) = Cardinality(In(T, f) \cup R)
    BY <1>9
  <2> QED
    BY <2>1, <1>2, <1>5, <1>10, <1>11, <1>12
<1> QED
  BY <1>1, <1>2, <1>13 DEF U, K

LEMMA UsersAreCounted ==
  ASSUME NEW T, NEW C, NEW f
  PROVE  /\ Users(T, C, f) \in Nat
         /\ Users(T, C, f) = 0 => /\ \A t \in Threads : C[t] # f
                                  /\ \A p \in Procs, i \in Fids : T[p][i] # f
<1>1. /\ IsFiniteSet(On(C, f)) /\ Cardinality(On(C, f)) \in Nat
      /\ IsFiniteSet(In(T, f)) /\ Cardinality(In(T, f)) \in Nat
  BY CountsAreNatural
<1>2. ASSUME Users(T, C, f) = 0
      PROVE  On(C, f) = {} /\ In(T, f) = {}
  <2>1. Cardinality(On(C, f)) = 0 /\ Cardinality(In(T, f)) = 0
    BY <1>1, <1>2 DEF Users
  <2> QED
    BY <2>1, <1>1, FS_EmptySet
<1>3. \A p \in Procs, i \in Fids : T[p][i] = f => <<p, i>> \in In(T, f)
  BY DEF In
<1>4. \A t \in Threads : C[t] = f => t \in On(C, f)
  BY DEF On
<1>5. Users(T, C, f) \in Nat
  BY <1>1 DEF Users
<1> QED
  BY <1>2, <1>3, <1>4, <1>5

\* The invariant in terms of Users.
LEMMA ExactByUsers ==
  FcbsExact <=>
    /\ IsInjective(FCB_freelist)
    /\ \A f \in FT : IF f \in Free THEN Users(FIDT, call, f) = 0
                   ELSE refcount[f] = Users(FIDT, call, f) /\ Users(FIDT, call, f) > 0
<1>1. \A f : Descriptors(f) = In(FIDT, f) /\ Calls(f) = On(call, f)
  BY DEF Descriptors, In, Calls, On
<1> QED
  BY <1>1 DEF FcbsExact, Free, Users

LEMMA ExactByUsersNext ==
  FcbsExact' <=>
    /\ IsInjective(FCB_freelist')
    /\ \A f \in FT : IF f \in Free' THEN Users(FIDT', call', f) = 0
                   ELSE refcount'[f] = Users(FIDT', call', f) /\ Users(FIDT', call', f) > 0
<1>1. \A f : Descriptors(f)' = In(FIDT', f) /\ Calls(f)' = On(call', f)
  BY DEF Descriptors, In, Calls, On
<1> QED
  BY <1>1 DEF FcbsExact, Free, Users

-----------------------------------------------------------------------------
(***************************************************************************)
(* What FCB_decref() does, to one FCB or to none, when count is right but  *)
(* for the reference that goes.                                            *)
(***************************************************************************)
LEMMA DecrefKeeps ==
  ASSUME IInv,
         NEW fs \in SUBSET FT, \A f, g \in fs : f = g,
         NEW count \in [FT -> Nat], Decref(fs, count),
         FIDT' \in Tables, alive' \subseteq Procs, ending' \in Procs \cup {NULL},
         caller' \in [Threads -> Procs \cup {NULL}],
         call' \in [Threads -> FT \cup {NULL}],
         DeadHoldNothing',
         \A t \in Threads : call'[t] # NULL => call'[t] = call[t],
         \A f \in FT :
           IF f \in Free THEN Users(FIDT', call', f) = 0 /\ f \notin fs
           ELSE count[f] = Users(FIDT', call', f) + (IF f \in fs THEN 1 ELSE 0) /\ count[f] > 0
  PROVE  IInv'
<1> DEFINE gone == {f \in fs : count[f] = 1}
<1>1. /\ refcount' = [f \in FT |-> IF f \in fs THEN count[f] - 1 ELSE count[f]]
      /\ stream' = [f \in FT |-> IF f \in gone THEN "closed" ELSE stream[f]]
      /\ leftover' = leftover \ gone
      /\ astray' \in BOOLEAN
      /\ \/ gone = {} /\ FCB_freelist' = FCB_freelist
         \/ \E f \in gone : FCB_freelist' = Append(FCB_freelist, f)
  BY DEF Decref, Vanishes
<1>2. \A f \in FT : f \in gone <=> f \in fs /\ count[f] = 1
  OBVIOUS
<1>3. gone \subseteq FT /\ gone \cap Free = {} /\ (\A f, g \in gone : f = g)
  OBVIOUS
<1> HIDE DEF gone
<1>4. FCB_freelist \in Seq(FT) /\ IsInjective(FCB_freelist) /\ Free \subseteq FT
  <2>1. FCB_freelist \in Seq(FT) /\ IsInjective(FCB_freelist)
    BY DEF IInv, TypeOK, FcbsExact
  <2> QED
    BY <2>1, SeqTyped DEF Free
<1>5. FCB_freelist' \in Seq(FT) /\ IsInjective(FCB_freelist') /\ Free' = Free \cup gone
  <2>1. CASE gone = {} /\ FCB_freelist' = FCB_freelist
    BY <2>1, <1>4 DEF Free
  <2>2. ASSUME NEW f \in gone, FCB_freelist' = Append(FCB_freelist, f)
        PROVE  FCB_freelist' \in Seq(FT) /\ IsInjective(FCB_freelist') /\ Free' = Free \cup gone
    <3>1. f \in FT /\ f \notin ToSet(FCB_freelist) /\ gone = {f}
      BY <1>3 DEF Free
    <3> QED
      BY <2>2, <3>1, <1>4, PushBack DEF Free
  <2> QED
    BY <2>1, <2>2, <1>1
<1>6. ASSUME NEW f \in FT
      PROVE  Users(FIDT', call', f) \in Nat /\ count[f] \in Nat /\ (f \in fs \/ f \notin fs)
  BY UsersAreCounted
<1>7. TypeOK'
  <2>1. refcount' \in [FT -> Nat]
    <3>1. ASSUME NEW f \in FT, f \in fs PROVE count[f] - 1 \in Nat
      <4>1. count[f] > 0
        BY <3>1
      <4> QED
        BY <4>1, <1>6
    <3> QED
      BY <3>1, <1>1
  <2>2. stream' \in [FT -> {"none", "open", "closed"}] /\ leftover' \subseteq FT
    BY <1>1 DEF IInv, TypeOK
  <2> QED
    BY <1>1, <1>5, <2>1, <2>2 DEF TypeOK, Tables
<1>8. FcbsExact'
  <2>1. ASSUME NEW f \in FT, f \in Free'
        PROVE  Users(FIDT', call', f) = 0
    BY <2>1, <1>2, <1>5, <1>6 DEF Same
  <2>2. ASSUME NEW f \in FT, f \notin Free'
        PROVE  refcount'[f] = Users(FIDT', call', f) /\ Users(FIDT', call', f) > 0
    <3>1. /\ count[f] = Users(FIDT', call', f) + (IF f \in fs THEN 1 ELSE 0) /\ count[f] > 0
          /\ f \in fs => count[f] # 1
          /\ refcount'[f] = IF f \in fs THEN count[f] - 1 ELSE count[f]
      BY <2>2, <1>1, <1>2, <1>5
    <3> QED
      BY <3>1, <1>6 DEF Same
  <2> QED
    BY <2>1, <2>2, <1>5, ExactByUsersNext
<1>9. StreamsExact'
  <2>1. ASSUME NEW f \in FT
        PROVE  stream'[f] = "open" <=> f \notin Free' \cup leftover'
    <3>1. stream[f] = "open" <=> f \notin Free \cup leftover
      BY DEF IInv, StreamsExact, Free
    <3> QED
      BY <3>1, <1>1, <1>5
  <2>2. ASSUME NEW t \in Threads, call'[t] # NULL
        PROVE  stream'[call'[t]] = "open"
    <3> DEFINE f == call'[t]
    <3>1. f \in FT /\ f = call[t] /\ stream[f] = "open"
      BY <2>2 DEF IInv, StreamsExact
    <3>2. Users(FIDT', call', f) # 0
      BY UsersAreCounted
    <3>3. f \notin Free'
      BY <3>1, <3>2, <1>8, ExactByUsersNext
    <3> QED
      BY <3>1, <3>3, <1>1, <1>5
  <2> QED
    BY <2>1, <2>2 DEF StreamsExact, Free
<1>10. (Free \cap leftover = {})'
  <2>1. Free \cap leftover = {}
    BY DEF IInv
  <2> QED
    BY <2>1, <1>1, <1>5
<1> QED
  BY <1>7, <1>8, <1>9, <1>10 DEF IInv

-----------------------------------------------------------------------------
(***************************************************************************)
(* The steps.                                                              *)
(***************************************************************************)
LEMMA InitEstablishes == Init => IInv
<1> SUFFICES ASSUME Init PROVE IInv
  OBVIOUS
<1>1. /\ FCB_freelist \in Seq(FT) /\ DOMAIN FCB_freelist = FT
      /\ \A f \in FT : FCB_freelist[f] = f
  BY ConstantsAssumption DEF Init, FT
<1>2. IsInjective(FCB_freelist) /\ Free = FT
  BY <1>1 DEF IsInjective, ToSet, Free
<1>3. TypeOK
  BY <1>1, ConstantsAssumption DEF Init, TypeOK
<1>4. ASSUME NEW f \in FT
      PROVE  Users(FIDT, call, f) = 0
  <2>1. f # NULL
    BY ConstantsTyped
  <2>2. On(call, f) = {}
    BY <2>1 DEF Init, On
  <2>3. \A d \in Procs \X Fids : FIDT[d[1]][d[2]] # f
    BY <2>1 DEF Init
  <2>4. In(FIDT, f) = {}
    BY <2>3 DEF In
  <2>5. Cardinality({}) = 0
    BY FS_EmptySet
  <2> QED
    BY <2>2, <2>4, <2>5 DEF Users
<1>5. FcbsExact
  BY <1>2, <1>4, ExactByUsers
<1>6. StreamsExact /\ Free \cap leftover = {} /\ DeadHoldNothing
  BY <1>2 DEF Init, StreamsExact, DeadHoldNothing, Free
<1> QED
  BY <1>3, <1>5, <1>6 DEF IInv

\* The lowest descriptor is one of them.
LEMMA LowestIsMember ==
  ASSUME NEW fids, fids \subseteq Fids, fids # {}
  PROVE  Lowest(fids) \in fids
<1>1. fids \subseteq Nat
  BY ConstantsTyped
<1>2. \E i \in fids : \A j \in fids : i <= j
  BY <1>1, NatMinimum
<1> QED
  BY <1>2 DEF Lowest

\* The facts that the steps below start from.
LEMMA Typed ==
  ASSUME IInv
  PROVE  /\ FCB_freelist \in Seq(FT) /\ IsInjective(FCB_freelist) /\ Free \subseteq FT
         /\ FIDT \in Tables
         /\ call \in [Threads -> FT \cup {NULL}]
         /\ caller \in [Threads -> Procs \cup {NULL}]
         /\ refcount \in [FT -> Nat]
         /\ stream \in [FT -> {"none", "open", "closed"}]
         /\ leftover \subseteq FT /\ Free \cap leftover = {}
         /\ alive \subseteq Procs /\ ending \in Procs \cup {NULL} /\ astray \in BOOLEAN
         /\ DeadHoldNothing
         /\ \A f \in FT : IF f \in Free THEN Users(FIDT, call, f) = 0
                        ELSE refcount[f] = Users(FIDT, call, f) /\ Users(FIDT, call, f) > 0
         /\ \A f \in FT : stream[f] = "open" <=> f \notin Free \cup leftover
         /\ \A t \in Threads : call[t] # NULL => stream[call[t]] = "open"
<1>1. /\ FCB_freelist \in Seq(FT) /\ IsInjective(FCB_freelist)
      /\ Free \cap leftover = {} /\ DeadHoldNothing
  BY DEF IInv, TypeOK, FcbsExact
<1>2. Free \subseteq FT
  BY <1>1, SeqTyped DEF Free
<1>3. /\ FIDT \in Tables
      /\ call \in [Threads -> FT \cup {NULL}]
      /\ caller \in [Threads -> Procs \cup {NULL}]
      /\ refcount \in [FT -> Nat]
      /\ stream \in [FT -> {"none", "open", "closed"}]
      /\ leftover \subseteq FT
      /\ alive \subseteq Procs /\ ending \in Procs \cup {NULL} /\ astray \in BOOLEAN
  BY DEF IInv, TypeOK, Tables
<1>4. \A f \in FT : IF f \in Free THEN Users(FIDT, call, f) = 0
                  ELSE refcount[f] = Users(FIDT, call, f) /\ Users(FIDT, call, f) > 0
  BY ExactByUsers DEF IInv
<1>5. /\ \A f \in FT : stream[f] = "open" <=> f \notin Free \cup leftover
      /\ \A t \in Threads : call[t] # NULL => stream[call[t]] = "open"
  BY DEF IInv, StreamsExact, Free
<1> QED
  BY <1>1, <1>2, <1>3, <1>4, <1>5

\* A descriptor that was not open, and refers to f now.
Vacant(T, p) == {i \in Fids : T[p][i] = NULL}

LEMMA OpensDescriptor ==
  ASSUME NEW T \in Tables, NEW p \in Procs, NEW i \in Vacant(T, p),
         NEW f \in FT, NEW C, NEW g \in FT
  PROVE  /\ WithFid(T, p, i, f) \in Tables
         /\ Users(WithFid(T, p, i, f), C, g) = Users(T, C, g) + Same(f, g)
         /\ Users(T, C, g) \in Nat
         /\ \A q \in Procs, j \in Fids :
              WithFid(T, p, i, f)[q][j] = IF q = p /\ j = i THEN f ELSE T[q][j]
<1> DEFINE U == WithFid(T, p, i, f)
<1>1. f \in FT \cup {NULL} /\ i \in Fids
  BY DEF Vacant
<1>2. /\ U \in Tables
      /\ Cardinality(In(U, g)) = Cardinality(In(T, g)) + Same(f, g) - Same(T[p][i], g)
  BY <1>1, SetDescriptor
<1>3. Same(T[p][i], g) = 0 /\ Same(f, g) \in Nat
  BY ConstantsTyped DEF Same, Vacant
<1>4. /\ Cardinality(In(T, g)) \in Nat /\ Cardinality(In(U, g)) \in Nat
      /\ Cardinality(On(C, g)) \in Nat
  BY CountsAreNatural
<1>5. \A q \in Procs, j \in Fids : U[q][j] = IF q = p /\ j = i THEN f ELSE T[q][j]
  BY <1>1 DEF Tables, WithFid
<1> HIDE DEF U
<1> QED
  BY <1>2, <1>3, <1>4, <1>5 DEF Users, U

\* What a reservation finds.
LEMMA ReserveFinds ==
  ASSUME IInv, NEW p \in Procs, CanReserve(p)
  PROVE  /\ Lowest(FreeFids(p)) \in Vacant(FIDT, p) /\ FreeFids(p) = Vacant(FIDT, p)
         /\ Head(FCB_freelist) \in Free /\ Head(FCB_freelist) \in FT
         /\ Tail(FCB_freelist) \in Seq(FT) /\ IsInjective(Tail(FCB_freelist))
         /\ ToSet(Tail(FCB_freelist)) = Free \ {Head(FCB_freelist)}
<1>1. FreeFids(p) \subseteq Fids /\ FreeFids(p) # {}
  BY DEF CanReserve, FreeFids
<1>2. Lowest(FreeFids(p)) \in FreeFids(p)
  BY <1>1, LowestIsMember
<1>3. FCB_freelist \in Seq(FT) /\ IsInjective(FCB_freelist) /\ FCB_freelist # << >>
  BY Typed DEF CanReserve
<1>4. /\ Head(FCB_freelist) \in Free /\ Head(FCB_freelist) \in FT
      /\ Tail(FCB_freelist) \in Seq(FT) /\ IsInjective(Tail(FCB_freelist))
      /\ ToSet(Tail(FCB_freelist)) = Free \ {Head(FCB_freelist)}
  BY <1>3, PopFront DEF Free
<1> QED
  BY <1>2, <1>4 DEF FreeFids, Vacant

\* The FCBs that a call takes get one reference each.
LEMMA TakenAreUsed ==
  ASSUME IInv, NEW taken, taken \subseteq Free,
         IsInjective(FCB_freelist'), Free' = Free \ taken,
         \A f \in FT : refcount'[f] = IF f \in taken THEN 1 ELSE refcount[f],
         \A f \in FT :
           Users(FIDT', call', f) = Users(FIDT, call, f) + IF f \in taken THEN 1 ELSE 0
  PROVE  FcbsExact'
<1>1. ASSUME NEW f \in FT
      PROVE  IF f \in Free' THEN Users(FIDT', call', f) = 0
             ELSE refcount'[f] = Users(FIDT', call', f) /\ Users(FIDT', call', f) > 0
  <2>1. /\ IF f \in Free THEN Users(FIDT, call, f) = 0
           ELSE refcount[f] = Users(FIDT, call, f) /\ Users(FIDT, call, f) > 0
        /\ Users(FIDT, call, f) \in Nat
    BY Typed, UsersAreCounted
  <2>2. CASE f \in taken
    BY <2>1, <2>2
  <2>3. CASE f \notin taken
    BY <2>1, <2>3
  <2> QED
    BY <2>2, <2>3
<1> QED
  BY <1>1, ExactByUsersNext

LEMMA OpenStep == ASSUME IInv, NEW p \in Procs, Open(p) PROVE IInv'
<1> DEFINE f == Head(FCB_freelist)
           i == Lowest(FreeFids(p))
<1>1. /\ p \in alive /\ CanReserve(p)
      /\ FIDT' = [FIDT EXCEPT ![p][i] = f]
      /\ FCB_freelist' = Tail(FCB_freelist)
      /\ refcount' = [refcount EXCEPT ![f] = 1]
      /\ stream' = [stream EXCEPT ![f] = "open"]
      /\ leftover' = leftover /\ alive' = alive /\ ending' = ending
      /\ caller' = caller /\ call' = call /\ astray' = astray
  BY DEF Open, Runs, call_vars
<1>2. i \in Vacant(FIDT, p)
  BY <1>1, ReserveFinds
<1>3. /\ f \in Free /\ f \in FT
      /\ FCB_freelist' \in Seq(FT) /\ IsInjective(FCB_freelist')
      /\ Free' = Free \ {f}
  BY <1>1, ReserveFinds DEF Free
<1> HIDE DEF f, i
<1>4. ASSUME NEW g \in FT
      PROVE  /\ FIDT' \in Tables
             /\ Users(FIDT', call', g) = Users(FIDT, call, g) + Same(f, g)
  <2>1. FIDT \in Tables /\ FIDT' = WithFid(FIDT, p, i, f) /\ f \in FT
    BY <1>1, <1>3, Typed DEF WithFid
  <2>2. FIDT' \in Tables /\ Users(FIDT', call, g) = Users(FIDT, call, g) + Same(f, g)
    BY <2>1, <1>2, OpensDescriptor
  <2> QED
    BY <2>2, <1>1
<1>5. TypeOK'
  BY <1>1, <1>3, <1>4, Typed DEF TypeOK, Tables
<1>6. FcbsExact'
  <2>1. \A g \in FT : refcount'[g] = IF g \in {f} THEN 1 ELSE refcount[g]
    BY <1>1, Typed
  <2>2. \A g \in FT :
          Users(FIDT', call', g) = Users(FIDT, call, g) + IF g \in {f} THEN 1 ELSE 0
    BY <1>4 DEF Same
  <2>3. {f} \subseteq Free
    BY <1>3
  <2> QED
    BY <2>1, <2>2, <2>3, <1>3, TakenAreUsed
<1>7. StreamsExact'
  <2>1. ASSUME NEW g \in FT
        PROVE  stream'[g] = "open" <=> g \notin Free' \cup leftover'
    BY <1>1, <1>3, Typed
  <2>2. ASSUME NEW t \in Threads, call'[t] # NULL
        PROVE  stream'[call'[t]] = "open"
    BY <2>2, <1>1, <1>3, Typed
  <2> QED
    BY <2>1, <2>2 DEF StreamsExact, Free
<1>8. (Free \cap leftover = {})' /\ DeadHoldNothing'
  <2>1. (Free \cap leftover = {})'
    BY <1>1, <1>3, Typed
  <2>2. ASSUME NEW q \in Procs \ alive, NEW j \in Fids
        PROVE  FIDT'[q][j] = NULL
    <3>1. q # p /\ FIDT[q][j] = NULL
      BY <1>1, Typed DEF DeadHoldNothing
    <3> QED
      BY <3>1, <1>1, Typed DEF Tables
  <2> QED
    BY <2>1, <2>2, <1>1 DEF DeadHoldNothing
<1> QED
  BY <1>5, <1>6, <1>7, <1>8 DEF IInv

LEMMA OpenFailsStep == ASSUME IInv, NEW p \in Procs, OpenFails(p) PROVE IInv'
<1> DEFINE f == Head(FCB_freelist)
           r == Tail(FCB_freelist)
<1>1. /\ CanReserve(p)
      /\ FCB_freelist' = Append(r, f)
      /\ refcount' = [refcount EXCEPT ![f] = 1]
      /\ UNCHANGED <<stream, leftover, FIDT, alive, ending, caller, call, astray>>
  BY DEF OpenFails, Unreserved, proc_vars, call_vars
<1>2. /\ f \in Free /\ f \in FT
      /\ r \in Seq(FT) /\ IsInjective(r) /\ ToSet(r) = Free \ {f}
  BY <1>1, ReserveFinds
<1> HIDE DEF f, r
<1>3. FCB_freelist' \in Seq(FT) /\ IsInjective(FCB_freelist') /\ Free' = Free
  <2>1. f \notin ToSet(r) /\ ToSet(r) \cup {f} = Free
    BY <1>2
  <2>2. /\ Append(r, f) \in Seq(FT)
        /\ ToSet(Append(r, f)) = ToSet(r) \cup {f}
        /\ IsInjective(Append(r, f))
    BY <2>1, <1>2, PushBack
  <2> QED
    BY <2>1, <2>2, <1>1 DEF Free
<1>4. TypeOK'
  BY <1>1, <1>2, <1>3, Typed DEF TypeOK, Tables
<1>5. FcbsExact'
  <2>1. ASSUME NEW g \in FT
        PROVE  IF g \in Free' THEN Users(FIDT', call', g) = 0
               ELSE refcount'[g] = Users(FIDT', call', g) /\ Users(FIDT', call', g) > 0
    BY <1>1, <1>2, <1>3, Typed
  <2> QED
    BY <2>1, <1>3, ExactByUsersNext
<1> QED
  BY <1>1, <1>3, <1>4, <1>5, Typed DEF IInv, StreamsExact, DeadHoldNothing, Free

LEMMA PipeStep == ASSUME IInv, NEW p \in Procs, Pipe(p) PROVE IInv'
<1> DEFINE f == Head(FCB_freelist)
           i == Lowest(FreeFids(p))
           rest == Tail(FCB_freelist)
           more == FreeFids(p) \ {i}
           g == Head(rest)
           j == Lowest(more)
           T == WithFid(FIDT, p, i, f)
<1>1. /\ p \in alive /\ CanReserve(p)
      /\ alive' = alive /\ ending' = ending
      /\ caller' = caller /\ call' = call /\ astray' = astray
  BY DEF Pipe, Runs, call_vars
<1>2. \/ /\ rest # << >> /\ more # {}
         /\ FIDT' = [FIDT EXCEPT ![p][i] = f, ![p][j] = g]
         /\ FCB_freelist' = Tail(rest)
         /\ refcount' = [refcount EXCEPT ![f] = 1, ![g] = 1]
         /\ stream' = [stream EXCEPT ![f] = "open", ![g] = "open"]
         /\ leftover' = leftover
      \/ /\ FIDT' = T
         /\ FCB_freelist' = rest
         /\ refcount' = [refcount EXCEPT ![f] = 1]
         /\ leftover' = leftover \cup {f}
         /\ stream' = stream
  BY DEF Pipe, WithFid
<1>3. i \in Vacant(FIDT, p) /\ FreeFids(p) = Vacant(FIDT, p)
  BY <1>1, ReserveFinds
<1>4. /\ f \in Free /\ f \in FT
      /\ rest \in Seq(FT) /\ IsInjective(rest) /\ ToSet(rest) = Free \ {f}
  BY <1>1, ReserveFinds
<1>5. ASSUME rest # << >>, more # {}
      PROVE  /\ j \in Vacant(FIDT, p) \ {i}
             /\ g \in Free \ {f}
             /\ Tail(rest) \in Seq(FT) /\ IsInjective(Tail(rest))
             /\ ToSet(Tail(rest)) = Free \ {f, g}
  <2>1. more \subseteq Fids
    BY DEF FreeFids
  <2>2. j \in more
    BY <1>5, <2>1, LowestIsMember
  <2>3. /\ g \in ToSet(rest)
        /\ Tail(rest) \in Seq(FT) /\ IsInjective(Tail(rest))
        /\ ToSet(Tail(rest)) = ToSet(rest) \ {g}
    BY <1>4, <1>5, PopFront
  <2> QED
    BY <1>3, <1>4, <2>2, <2>3
<1> HIDE DEF f, i, rest, more, g, j
<1>6. FIDT \in Tables /\ i \in Fids
  BY <1>3, Typed DEF Vacant
<1>7. ASSUME NEW h \in FT
      PROVE  /\ T \in Tables
             /\ Users(T, call, h) = Users(FIDT, call, h) + Same(f, h)
             /\ Users(FIDT, call, h) \in Nat
             /\ \A q \in Procs, k \in Fids : T[q][k] = IF q = p /\ k = i THEN f ELSE FIDT[q][k]
  <2>1. FIDT \in Tables /\ f \in FT
    BY <1>4, <1>6
  <2> QED
    BY <2>1, <1>3, OpensDescriptor DEF T
<1> HIDE DEF T
<1>8. CASE /\ rest # << >> /\ more # {}
           /\ FIDT' = [FIDT EXCEPT ![p][i] = f, ![p][j] = g]
           /\ FCB_freelist' = Tail(rest)
           /\ refcount' = [refcount EXCEPT ![f] = 1, ![g] = 1]
           /\ stream' = [stream EXCEPT ![f] = "open", ![g] = "open"]
           /\ leftover' = leftover
  <2>1. /\ j \in Vacant(FIDT, p) \ {i}
        /\ g \in Free \ {f} /\ g \in FT
        /\ FCB_freelist' \in Seq(FT) /\ IsInjective(FCB_freelist')
        /\ Free' = Free \ {f, g}
    BY <1>5, <1>8, Typed DEF Free
  <2>2. j \in Vacant(T, p)
    BY <2>1, <1>7 DEF Vacant
  <2>3. FIDT' = WithFid(T, p, j, g)
    BY <1>8 DEF T, WithFid
  <2>4. ASSUME NEW h \in FT
        PROVE  /\ FIDT' \in Tables
               /\ Users(FIDT', call', h) = Users(FIDT, call, h) + Same(f, h) + Same(g, h)
               /\ \A q \in Procs, k \in Fids :
                    q # p => FIDT'[q][k] = FIDT[q][k]
    <3>1. T \in Tables /\ g \in FT
      BY <1>7, <2>1
    <3>2. /\ FIDT' \in Tables
          /\ Users(FIDT', call, h) = Users(T, call, h) + Same(g, h)
          /\ \A q \in Procs, k \in Fids :
               FIDT'[q][k] = IF q = p /\ k = j THEN g ELSE T[q][k]
      BY <3>1, <2>2, <2>3, OpensDescriptor
    <3> QED
      BY <3>2, <1>1, <1>7
  <2>5. TypeOK'
    BY <1>1, <1>4, <1>8, <2>1, <2>4, Typed DEF TypeOK, Tables
  <2>6. FcbsExact'
    <3>1. \A h \in FT : refcount'[h] = IF h \in {f, g} THEN 1 ELSE refcount[h]
      BY <1>8, Typed
    <3>2. \A h \in FT :
            Users(FIDT', call', h) = Users(FIDT, call, h) + IF h \in {f, g} THEN 1 ELSE 0
      BY <1>7, <2>1, <2>4 DEF Same
    <3>3. {f, g} \subseteq Free
      BY <1>4, <2>1
    <3> QED
      BY <3>1, <3>2, <3>3, <2>1, TakenAreUsed
  <2>7. StreamsExact'
    <3>1. ASSUME NEW h \in FT
          PROVE  stream'[h] = "open" <=> h \notin Free' \cup leftover'
      BY <1>4, <1>8, <2>1, Typed
    <3>2. ASSUME NEW t \in Threads, call'[t] # NULL
          PROVE  stream'[call'[t]] = "open"
      BY <3>2, <1>1, <1>8, Typed
    <3> QED
      BY <3>1, <3>2 DEF StreamsExact, Free
  <2>8. (Free \cap leftover = {})'
    BY <1>4, <1>8, <2>1, Typed
  <2>9. DeadHoldNothing'
    <3>1. ASSUME NEW q \in Procs \ alive, NEW k \in Fids
          PROVE  FIDT'[q][k] = NULL
      <4>1. q # p /\ FIDT[q][k] = NULL
        BY <1>1, Typed DEF DeadHoldNothing
      <4> QED
        BY <4>1, <1>4, <2>4
    <3> QED
      BY <3>1, <1>1 DEF DeadHoldNothing
  <2> QED
    BY <2>5, <2>6, <2>7, <2>8, <2>9 DEF IInv
<1>9. CASE /\ FIDT' = T
           /\ FCB_freelist' = rest
           /\ refcount' = [refcount EXCEPT ![f] = 1]
           /\ leftover' = leftover \cup {f}
           /\ stream' = stream
  <2>1. /\ FCB_freelist' \in Seq(FT) /\ IsInjective(FCB_freelist')
        /\ Free' = Free \ {f}
    BY <1>4, <1>9 DEF Free
  <2>2. ASSUME NEW h \in FT
        PROVE  /\ FIDT' \in Tables
               /\ Users(FIDT', call', h) = Users(FIDT, call, h) + Same(f, h)
    BY <1>1, <1>7, <1>9
  <2>3. TypeOK'
    BY <1>1, <1>4, <1>9, <2>1, <2>2, Typed DEF TypeOK, Tables
  <2>4. FcbsExact'
    <3>1. \A h \in FT : refcount'[h] = IF h \in {f} THEN 1 ELSE refcount[h]
      BY <1>9, Typed
    <3>2. \A h \in FT :
            Users(FIDT', call', h) = Users(FIDT, call, h) + IF h \in {f} THEN 1 ELSE 0
      BY <2>2 DEF Same
    <3>3. {f} \subseteq Free
      BY <1>4
    <3> QED
      BY <3>1, <3>2, <3>3, <2>1, TakenAreUsed
  <2>5. StreamsExact'
    <3>1. ASSUME NEW h \in FT
          PROVE  stream'[h] = "open" <=> h \notin Free' \cup leftover'
      BY <1>4, <1>9, <2>1, Typed
    <3>2. ASSUME NEW t \in Threads, call'[t] # NULL
          PROVE  stream'[call'[t]] = "open"
      BY <3>2, <1>1, <1>9, Typed
    <3> QED
      BY <3>1, <3>2 DEF StreamsExact, Free
  <2>6. (Free \cap leftover = {})'
    BY <1>4, <1>9, <2>1, Typed
  <2>7. DeadHoldNothing'
    <3>1. ASSUME NEW q \in Procs \ alive, NEW k \in Fids
          PROVE  FIDT'[q][k] = NULL
      <4>1. q # p /\ FIDT[q][k] = NULL
        BY <1>1, Typed DEF DeadHoldNothing
      <4>2. f \in FT
        BY <1>4
      <4> QED
        BY <4>1, <4>2, <1>7, <1>9
    <3> QED
      BY <3>1, <1>1 DEF DeadHoldNothing
  <2> QED
    BY <2>3, <2>4, <2>5, <2>6, <2>7 DEF IInv
<1> QED
  BY <1>2, <1>8, <1>9

\* What a descriptor, or a call, refers to is not free.
LEMMA ReferredIsUsed ==
  ASSUME IInv
  PROVE  /\ \A p \in Procs, i \in Fids : FIDT[p][i] # NULL =>
              FIDT[p][i] \in FT /\ FIDT[p][i] \notin Free
         /\ \A t \in Threads : call[t] # NULL => call[t] \in FT /\ call[t] \notin Free
<1>1. ASSUME NEW p \in Procs, NEW i \in Fids, FIDT[p][i] # NULL
      PROVE  FIDT[p][i] \in FT /\ FIDT[p][i] \notin Free
  <2>1. FIDT[p][i] \in FT
    BY <1>1, Typed DEF Tables
  <2>2. Users(FIDT, call, FIDT[p][i]) # 0
    BY UsersAreCounted
  <2> QED
    BY <2>1, <2>2, Typed
<1>2. ASSUME NEW t \in Threads, call[t] # NULL
      PROVE  call[t] \in FT /\ call[t] \notin Free
  <2>1. call[t] \in FT
    BY <1>2, Typed
  <2>2. Users(FIDT, call, call[t]) # 0
    BY UsersAreCounted
  <2> QED
    BY <2>1, <2>2, Typed
<1> QED
  BY <1>1, <1>2

\* How the users change when one descriptor, or one call, does.
LEMMA DescriptorCounts ==
  ASSUME IInv, NEW p \in Procs, NEW i \in Fids, NEW v \in FT \cup {NULL},
         FIDT' = [FIDT EXCEPT ![p][i] = v], call' = call
  PROVE  /\ FIDT' \in Tables
         /\ \A g \in FT : Users(FIDT', call', g)
                        = Users(FIDT, call, g) + Same(v, g) - Same(FIDT[p][i], g)
         /\ \A q \in Procs, j \in Fids : q # p => FIDT'[q][j] = FIDT[q][j]
         /\ \A j \in Fids : j # i => FIDT'[p][j] = FIDT[p][j]
<1>1. FIDT \in Tables /\ FIDT' = WithFid(FIDT, p, i, v)
  BY Typed DEF WithFid
<1>2. ASSUME NEW g \in FT
      PROVE  /\ FIDT' \in Tables
             /\ Users(FIDT', call', g)
                  = Users(FIDT, call, g) + Same(v, g) - Same(FIDT[p][i], g)
  <2> DEFINE T == WithFid(FIDT, p, i, v)
  <2>1. /\ FIDT' \in Tables
        /\ Cardinality(In(FIDT', g))
             = Cardinality(In(FIDT, g)) + Same(v, g) - Same(FIDT[p][i], g)
    <3>1. /\ T \in Tables
          /\ Cardinality(In(T, g))
               = Cardinality(In(FIDT, g)) + Same(v, g) - Same(FIDT[p][i], g)
      BY <1>1, SetDescriptor
    <3> QED
      BY <3>1, <1>1, Zenon
  <2>2. /\ Cardinality(In(FIDT, g)) \in Nat /\ Cardinality(On(call, g)) \in Nat
        /\ Same(v, g) \in Nat /\ Same(FIDT[p][i], g) \in Nat
    BY CountsAreNatural DEF Same
  <2> QED
    BY <2>1, <2>2 DEF Users
<1>3. FIDT' \in Tables
  BY <1>1 DEF Tables, WithFid
<1>4. /\ \A q \in Procs, j \in Fids : q # p => FIDT'[q][j] = FIDT[q][j]
      /\ \A j \in Fids : j # i => FIDT'[p][j] = FIDT[p][j]
  BY <1>1 DEF Tables
<1> QED
  BY <1>2, <1>3, <1>4

LEMMA CallCounts ==
  ASSUME IInv, NEW t \in Threads, NEW v \in FT \cup {NULL},
         call' = [call EXCEPT ![t] = v], FIDT' = FIDT
  PROVE  /\ call' \in [Threads -> FT \cup {NULL}]
         /\ \A g \in FT : Users(FIDT', call', g)
                        = Users(FIDT, call, g) + Same(v, g) - Same(call[t], g)
<1>1. call \in [Threads -> FT \cup {NULL}] /\ call' = WithCall(call, t, v)
  BY Typed DEF WithCall
<1>2. ASSUME NEW g \in FT
      PROVE  Users(FIDT', call', g)
               = Users(FIDT, call, g) + Same(v, g) - Same(call[t], g)
  <2> DEFINE C == WithCall(call, t, v)
  <2>1. Cardinality(On(call', g))
          = Cardinality(On(call, g)) + Same(v, g) - Same(call[t], g)
    <3>1. Cardinality(On(C, g)) = Cardinality(On(call, g)) + Same(v, g) - Same(call[t], g)
      BY <1>1, SetCall
    <3> QED
      BY <3>1, <1>1, Zenon
  <2>2. /\ Cardinality(In(FIDT, g)) \in Nat /\ Cardinality(On(call, g)) \in Nat
        /\ Same(v, g) \in Nat /\ Same(call[t], g) \in Nat
    BY CountsAreNatural DEF Same
  <2> QED
    BY <2>1, <2>2 DEF Users
<1>3. call' \in [Threads -> FT \cup {NULL}]
  BY <1>1 DEF WithCall
<1> QED
  BY <1>2, <1>3

LEMMA FallsAsleepStep ==
  ASSUME IInv, NEW p \in Procs, NEW i \in Fids, NEW t \in Threads, FallsAsleep(p, i, t)
  PROVE  IInv'
<1> DEFINE f == FIDT[p][i]
<1>1. /\ call[t] = NULL /\ f # NULL
      /\ UNCHANGED <<FCB_freelist, stream, leftover, FIDT, alive, ending>>
      /\ \/ /\ stream[f] = "open"
            /\ refcount' = [refcount EXCEPT ![f] = @ + 1]
            /\ call' = [call EXCEPT ![t] = f]
            /\ caller' = [caller EXCEPT ![t] = p]
            /\ astray' = astray
         \/ /\ astray' = TRUE
            /\ UNCHANGED <<refcount, caller, call>>
  BY DEF FallsAsleep, OneMoreReference, proc_vars, call_vars
<1>2. f \in FT /\ f \notin Free
  BY <1>1, ReferredIsUsed
<1> HIDE DEF f
<1>3. Free' = Free
  BY <1>1 DEF Free
<1>4. CASE /\ stream[f] = "open"
           /\ refcount' = [refcount EXCEPT ![f] = @ + 1]
           /\ call' = [call EXCEPT ![t] = f]
           /\ caller' = [caller EXCEPT ![t] = p]
           /\ astray' = astray
  <2>1. /\ call' \in [Threads -> FT \cup {NULL}]
        /\ \A g \in FT : Users(FIDT', call', g)
                       = Users(FIDT, call, g) + Same(f, g) - Same(call[t], g)
    BY <1>1, <1>2, <1>4, CallCounts
  <2>2. \A g \in FT : Same(call[t], g) = 0 /\ Users(FIDT, call, g) \in Nat
    BY <1>1, ConstantsTyped, UsersAreCounted DEF Same
  <2>3. TypeOK'
    BY <1>1, <1>4, <2>1, Typed DEF TypeOK, Tables
  <2>4. FcbsExact'
    <3>1. ASSUME NEW g \in FT
          PROVE  IF g \in Free' THEN Users(FIDT', call', g) = 0
                 ELSE refcount'[g] = Users(FIDT', call', g) /\ Users(FIDT', call', g) > 0
      <4>1. /\ IF g \in Free THEN Users(FIDT, call, g) = 0
               ELSE refcount[g] = Users(FIDT, call, g) /\ Users(FIDT, call, g) > 0
            /\ refcount'[g] = IF g = f THEN refcount[g] + 1 ELSE refcount[g]
        BY <1>4, Typed
      <4>2. Users(FIDT', call', g) = Users(FIDT, call, g) + IF g = f THEN 1 ELSE 0
        BY <2>1, <2>2 DEF Same
      <4> QED
        BY <4>1, <4>2, <1>2, <1>3, <2>2
    <3> QED
      BY <3>1, <1>1, Typed, ExactByUsersNext
  <2>5. StreamsExact'
    <3>1. \A g \in FT : stream'[g] = "open" <=> g \notin Free' \cup leftover'
      BY <1>1, <1>3, Typed
    <3>2. ASSUME NEW u \in Threads, call'[u] # NULL
          PROVE  stream'[call'[u]] = "open"
      BY <3>2, <1>1, <1>4, Typed
    <3> QED
      BY <3>1, <3>2 DEF StreamsExact, Free
  <2> QED
    BY <1>1, <1>3, <2>3, <2>4, <2>5, Typed DEF IInv, DeadHoldNothing
<1>5. CASE /\ astray' = TRUE
           /\ UNCHANGED <<refcount, caller, call>>
  <2>1. TypeOK' /\ FcbsExact' /\ StreamsExact'
    BY <1>1, <1>5 DEF IInv, TypeOK, FcbsExact, StreamsExact, Descriptors, Calls
  <2> QED
    BY <1>1, <1>3, <2>1, Typed DEF IInv, DeadHoldNothing
<1> QED
  BY <1>1, <1>4, <1>5

LEMMA ReturnsStep == ASSUME IInv, NEW t \in Threads, Returns(t) PROVE IInv'
<1> DEFINE f == call[t]
<1>1. /\ f # NULL
      /\ Decref({f}, refcount)
      /\ call' = [call EXCEPT ![t] = NULL]
      /\ caller' = [caller EXCEPT ![t] = NULL]
      /\ FIDT' = FIDT /\ alive' = alive /\ ending' = ending
  BY DEF Returns, proc_vars
<1>2. f \in FT /\ f \notin Free
  BY <1>1, ReferredIsUsed
<1>3. /\ call' \in [Threads -> FT \cup {NULL}]
      /\ \A g \in FT : Users(FIDT', call', g)
                     = Users(FIDT, call, g) + Same(NULL, g) - Same(f, g)
  BY <1>1, CallCounts
<1>4. \A u \in Threads : call'[u] # NULL => call'[u] = call[u]
  BY <1>1, Typed
<1>5. caller' \in [Threads -> Procs \cup {NULL}]
  BY <1>1, Typed
<1> HIDE DEF f
<1>6. ASSUME NEW g \in FT
      PROVE  IF g \in Free THEN Users(FIDT', call', g) = 0 /\ g \notin {f}
             ELSE /\ refcount[g] = Users(FIDT', call', g) + (IF g \in {f} THEN 1 ELSE 0)
                  /\ refcount[g] > 0
  <2>1. /\ IF g \in Free THEN Users(FIDT, call, g) = 0
           ELSE refcount[g] = Users(FIDT, call, g) /\ Users(FIDT, call, g) > 0
        /\ Users(FIDT, call, g) \in Nat
    BY Typed, UsersAreCounted
  <2>2. Users(FIDT', call', g) = Users(FIDT, call, g) - IF g = f THEN 1 ELSE 0
    BY <1>3, <2>1, ConstantsTyped DEF Same
  <2> QED
    BY <2>1, <2>2, <1>2
<1>7. DeadHoldNothing'
  BY <1>1, Typed DEF DeadHoldNothing
<1>8. {f} \in SUBSET FT /\ \A g, h \in {f} : g = h
  BY <1>2
<1> QED
  BY <1>1, <1>3, <1>4, <1>5, <1>6, <1>7, <1>8, Typed, DecrefKeeps

\* One descriptor of process p closes, in Close() or at the end of p.
LEMMA DescriptorCloses ==
  ASSUME IInv, NEW p \in Procs, NEW i \in Fids, FIDT[p][i] # NULL,
         FIDT' = [FIDT EXCEPT ![p][i] = NULL],
         Decref(FcbsAt(p, i), refcount),
         UNCHANGED <<alive, ending, caller, call>>
  PROVE  IInv'
<1> DEFINE f == FIDT[p][i]
<1>1. f \in FT /\ f \notin Free
  BY ReferredIsUsed
<1>2. Decref({f}, refcount)
  <2>1. FcbsAt(p, i) = {f}
    BY DEF FcbsAt
  <2> QED
    BY <2>1
<1>3. /\ FIDT' \in Tables
      /\ \A g \in FT : Users(FIDT', call', g)
                     = Users(FIDT, call, g) + Same(NULL, g) - Same(f, g)
      /\ \A q \in Procs, j \in Fids : q # p => FIDT'[q][j] = FIDT[q][j]
      /\ \A j \in Fids : j # i => FIDT'[p][j] = FIDT[p][j]
  BY DescriptorCounts
<1>4. FIDT'[p][i] = NULL
  BY Typed DEF Tables
<1> HIDE DEF f
<1>5. ASSUME NEW g \in FT
      PROVE  IF g \in Free THEN Users(FIDT', call', g) = 0 /\ g \notin {f}
             ELSE /\ refcount[g] = Users(FIDT', call', g) + (IF g \in {f} THEN 1 ELSE 0)
                  /\ refcount[g] > 0
  <2>1. /\ IF g \in Free THEN Users(FIDT, call, g) = 0
           ELSE refcount[g] = Users(FIDT, call, g) /\ Users(FIDT, call, g) > 0
        /\ Users(FIDT, call, g) \in Nat
    BY Typed, UsersAreCounted
  <2>2. Users(FIDT', call', g) = Users(FIDT, call, g) - IF g = f THEN 1 ELSE 0
    <3>1. Users(FIDT', call', g) = Users(FIDT, call, g) + Same(NULL, g) - Same(f, g)
      BY <1>3
    <3>2. Same(NULL, g) = 0 /\ Same(f, g) = IF g = f THEN 1 ELSE 0
      BY ConstantsTyped DEF Same
    <3> QED
      BY <3>1, <3>2, <2>1
  <2> QED
    BY <2>1, <2>2, <1>1
<1>6. DeadHoldNothing'
  <2>1. ASSUME NEW q \in Procs \ alive, NEW j \in Fids
        PROVE  FIDT'[q][j] = NULL
    <3>1. FIDT[q][j] = NULL
      BY Typed DEF DeadHoldNothing
    <3> QED
      BY <3>1, <1>3, <1>4
  <2> QED
    BY <2>1 DEF DeadHoldNothing
<1>7. {f} \in SUBSET FT /\ \A g, h \in {f} : g = h
  BY <1>1
<1>8. /\ call' = call /\ caller' = caller /\ alive' = alive /\ ending' = ending
      /\ \A t \in Threads : call'[t] # NULL => call'[t] = call[t]
  OBVIOUS
<1>9. /\ alive' \subseteq Procs /\ ending' \in Procs \cup {NULL}
      /\ caller' \in [Threads -> Procs \cup {NULL}]
      /\ call' \in [Threads -> FT \cup {NULL}]
      /\ refcount \in [FT -> Nat] /\ FIDT' \in Tables
  BY <1>3, <1>8, Typed
<1> QED
  BY <1>2, <1>5, <1>6, <1>7, <1>8, <1>9, DecrefKeeps

LEMMA Dup2Step ==
  ASSUME IInv, NEW p \in Procs, NEW oldfd \in Fids, NEW newfd \in Fids, Dup2(p, oldfd, newfd)
  PROVE  IInv'
<1> DEFINE f == FIDT[p][oldfd]
           h == FIDT[p][newfd]
           fs == FcbsAt(p, newfd)
           count == OneMoreReference(f)
<1>1. /\ p \in alive /\ f # NULL /\ h # f
      /\ FIDT' = [FIDT EXCEPT ![p][newfd] = f]
      /\ Decref(fs, count)
      /\ alive' = alive /\ ending' = ending /\ caller' = caller /\ call' = call
  BY DEF Dup2, Runs, call_vars
<1>2. f \in FT /\ f \notin Free /\ (h # NULL => h \in FT /\ h \notin Free)
  BY <1>1, ReferredIsUsed
<1>3. /\ fs \in SUBSET FT /\ (\A g, k \in fs : g = k)
      /\ \A g \in FT : g \in fs <=> g = h
  BY <1>2, ConstantsTyped DEF FcbsAt
<1>4. /\ FIDT' \in Tables
      /\ \A g \in FT : Users(FIDT', call', g)
                     = Users(FIDT, call, g) + Same(f, g) - Same(h, g)
      /\ \A q \in Procs, j \in Fids : q # p => FIDT'[q][j] = FIDT[q][j]
  <2>1. f \in FT \cup {NULL}
    BY <1>2
  <2> QED
    BY <2>1, <1>1, DescriptorCounts
<1>5. /\ count \in [FT -> Nat]
      /\ \A g \in FT : count[g] = IF g = f THEN refcount[g] + 1 ELSE refcount[g]
  BY <1>2, Typed DEF OneMoreReference
<1> HIDE DEF f, h, fs, count
<1>6. ASSUME NEW g \in FT
      PROVE  IF g \in Free THEN Users(FIDT', call', g) = 0 /\ g \notin fs
             ELSE /\ count[g] = Users(FIDT', call', g) + (IF g \in fs THEN 1 ELSE 0)
                  /\ count[g] > 0
  <2>1. /\ IF g \in Free THEN Users(FIDT, call, g) = 0
           ELSE refcount[g] = Users(FIDT, call, g) /\ Users(FIDT, call, g) > 0
        /\ Users(FIDT, call, g) \in Nat
    BY Typed, UsersAreCounted
  <2>2. Users(FIDT', call', g)
          = Users(FIDT, call, g) + (IF g = f THEN 1 ELSE 0) - (IF g \in fs THEN 1 ELSE 0)
    <3>1. Users(FIDT', call', g) = Users(FIDT, call, g) + Same(f, g) - Same(h, g)
      BY <1>4
    <3>2. /\ Same(f, g) = IF g = f THEN 1 ELSE 0
          /\ Same(h, g) = IF g \in fs THEN 1 ELSE 0
      BY <1>3 DEF Same
    <3> QED
      BY <3>1, <3>2
  <2>3. CASE g = f
    <3>1. g \notin fs /\ g \notin Free
      BY <2>3, <1>1, <1>2, <1>3
    <3> QED
      BY <2>1, <2>2, <2>3, <3>1, <1>5
  <2>4. CASE g # f /\ g \in fs
    <3>1. g \notin Free
      BY <2>4, <1>2, <1>3, ConstantsTyped
    <3> QED
      BY <2>1, <2>2, <2>4, <3>1, <1>5
  <2>5. CASE g # f /\ g \notin fs
    BY <2>1, <2>2, <2>5, <1>5
  <2> QED
    BY <2>3, <2>4, <2>5
<1>7. DeadHoldNothing'
  <2>1. ASSUME NEW q \in Procs \ alive, NEW j \in Fids
        PROVE  FIDT'[q][j] = NULL
    <3>1. FIDT[q][j] = NULL /\ q # p
      BY <1>1, Typed DEF DeadHoldNothing
    <3> QED
      BY <3>1, <1>4
  <2> QED
    BY <2>1, <1>1 DEF DeadHoldNothing
<1>8. /\ alive' \subseteq Procs /\ ending' \in Procs \cup {NULL}
      /\ caller' \in [Threads -> Procs \cup {NULL}]
      /\ call' \in [Threads -> FT \cup {NULL}]
      /\ \A t \in Threads : call'[t] # NULL => call'[t] = call[t]
  BY <1>1, Typed
<1> QED
  BY <1>1, <1>3, <1>4, <1>5, <1>6, <1>7, <1>8, DecrefKeeps

LEMMA ExecStep ==
  ASSUME IInv, NEW p \in Procs, NEW child \in Procs, Exec(p, child)
  PROVE  IInv'
<1>1. /\ p \in alive /\ child \notin alive
      /\ alive' = alive \cup {child}
      /\ FIDT' = WithRow(FIDT, child, p)
      /\ refcount' = [f \in FT |-> refcount[f] + Inherited(p, f)]
      /\ UNCHANGED <<FCB_freelist, stream, leftover, ending, caller, call, astray>>
  BY DEF Exec, Runs, call_vars, WithRow
<1>2. p # child /\ FIDT \in Tables /\ (\A i \in Fids : FIDT[child][i] = NULL)
  BY <1>1, Typed DEF DeadHoldNothing
<1>3. Free' = Free
  BY <1>1 DEF Free
<1>4. ASSUME NEW g \in FT
      PROVE  /\ Inherited(p, g) \in Nat
             /\ Users(FIDT', call', g) = Users(FIDT, call, g) + Inherited(p, g)
             /\ Users(FIDT, call, g) \in Nat
             /\ g \in Free => Inherited(p, g) = 0
  <2> DEFINE T == WithRow(FIDT, child, p)
  <2>1. /\ Inherited(p, g) \in Nat
        /\ Cardinality(In(T, g)) = Cardinality(In(FIDT, g)) + Inherited(p, g)
    BY <1>2, CopyRow DEF Inherited
  <2>2. Cardinality(In(FIDT, g)) \in Nat /\ Cardinality(On(call, g)) \in Nat
    BY CountsAreNatural
  <2>3. Users(T, call, g) = Users(FIDT, call, g) + Inherited(p, g)
    BY <2>1, <2>2 DEF Users
  <2>4. Users(FIDT', call', g) = Users(T, call, g)
    BY <1>1, Zenon
  <2>5. ASSUME g \in Free
        PROVE  Inherited(p, g) = 0
    <3>1. Users(FIDT, call, g) = 0
      BY <2>5, Typed
    <3>2. {i \in Fids : FIDT[p][i] = g} = {}
      BY <3>1, UsersAreCounted
    <3>3. Cardinality({}) = 0
      BY FS_EmptySet
    <3> QED
      BY <3>2, <3>3, Zenon DEF Inherited
  <2>6. Users(FIDT, call, g) \in Nat
    BY UsersAreCounted
  <2> QED
    BY <2>1, <2>3, <2>4, <2>5, <2>6
<1>5. /\ FIDT' \in Tables
      /\ \A q \in Procs, j \in Fids : q # child => FIDT'[q][j] = FIDT[q][j]
  BY <1>1, <1>2 DEF WithRow, Tables
<1>6. TypeOK'
  <2>1. refcount' \in [FT -> Nat]
    BY <1>1, <1>4, Typed
  <2> QED
    BY <2>1, <1>1, <1>5, Typed DEF TypeOK, Tables
<1>7. FcbsExact'
  <2>1. ASSUME NEW g \in FT
        PROVE  IF g \in Free' THEN Users(FIDT', call', g) = 0
               ELSE refcount'[g] = Users(FIDT', call', g) /\ Users(FIDT', call', g) > 0
    <3>1. /\ IF g \in Free THEN Users(FIDT, call, g) = 0
             ELSE refcount[g] = Users(FIDT, call, g) /\ Users(FIDT, call, g) > 0
          /\ refcount'[g] = refcount[g] + Inherited(p, g)
      BY <1>1, Typed
    <3> QED
      BY <3>1, <1>3, <1>4
  <2> QED
    BY <2>1, <1>1, Typed, ExactByUsersNext
<1>8. StreamsExact'
  BY <1>1 DEF IInv, StreamsExact
<1>9. DeadHoldNothing'
  <2>1. ASSUME NEW q \in Procs \ alive', NEW j \in Fids
        PROVE  FIDT'[q][j] = NULL
    <3>1. q # child /\ FIDT[q][j] = NULL
      BY <1>1, Typed DEF DeadHoldNothing
    <3> QED
      BY <3>1, <1>5
  <2> QED
    BY <2>1 DEF DeadHoldNothing
<1> QED
  BY <1>1, <1>3, <1>6, <1>7, <1>8, <1>9, Typed DEF IInv

\* What counts no references and only ends a process, or begins to.
LEMMA ProcessesChange ==
  ASSUME IInv, UNCHANGED <<fcb_vars, FIDT, call_vars, astray>>,
         alive' \subseteq Procs, ending' \in Procs \cup {NULL},
         \A p \in alive \ alive' : \A i \in Fids : FIDT[p][i] = NULL
  PROVE  IInv'
<1>1. UNCHANGED <<FCB_freelist, refcount, stream, leftover, FIDT, caller, call, astray>>
  BY DEF fcb_vars, call_vars
<1>2. TypeOK'
  BY <1>1 DEF IInv, TypeOK
<1>3. FcbsExact' /\ StreamsExact' /\ (Free \cap leftover = {})'
  BY <1>1 DEF IInv, FcbsExact, StreamsExact, Descriptors, Calls, Free
<1>4. DeadHoldNothing'
  BY <1>1 DEF IInv, DeadHoldNothing
<1> QED
  BY <1>2, <1>3, <1>4 DEF IInv

LEMMA NextKeeps == IInv /\ [Next]_vars => IInv'
<1> SUFFICES ASSUME IInv, [Next]_vars PROVE IInv'
  OBVIOUS
<1>1. CASE UNCHANGED vars
  <2>1. UNCHANGED <<fcb_vars, FIDT, alive, ending, call_vars, astray>>
    BY <1>1 DEF vars, proc_vars
  <2> QED
    BY <2>1, Typed, ProcessesChange
<1>2. ASSUME NEW p \in Procs, Open(p)
      PROVE  IInv'
  BY <1>2, OpenStep
<1>3. ASSUME NEW p \in Procs, OpenFails(p)
      PROVE  IInv'
  BY <1>3, OpenFailsStep
<1>4. ASSUME NEW p \in Procs, Pipe(p)
      PROVE  IInv'
  BY <1>4, PipeStep
<1>5. ASSUME NEW p \in Procs, Exit(p)
      PROVE  IInv'
  <2>1. /\ UNCHANGED <<fcb_vars, FIDT, call_vars, astray>>
        /\ alive' = alive /\ ending' \in Procs \cup {NULL}
    BY <1>5 DEF Exit
  <2> QED
    BY <2>1, Typed, ProcessesChange
<1>6. ASSUME NEW p \in Procs, NEW i \in Fids, Close(p, i)
      PROVE  IInv'
  <2>1. /\ FIDT[p][i] # NULL
        /\ FIDT' = [FIDT EXCEPT ![p][i] = NULL]
        /\ Decref(FcbsAt(p, i), refcount)
        /\ UNCHANGED <<alive, ending, caller, call>>
    BY <1>6 DEF Close, call_vars
  <2> QED
    BY <2>1, DescriptorCloses
<1>7. ASSUME NEW p \in Procs, NEW i \in Fids, NEW t \in Threads, FallsAsleep(p, i, t)
      PROVE  IInv'
  BY <1>7, FallsAsleepStep
<1>8. ASSUME NEW p \in Procs, NEW oldfd \in Fids, NEW newfd \in Fids, Dup2(p, oldfd, newfd)
      PROVE  IInv'
  BY <1>8, Dup2Step
<1>9. ASSUME NEW p \in Procs, NEW child \in Procs, Exec(p, child)
      PROVE  IInv'
  BY <1>9, ExecStep
<1>10. ASSUME NEW t \in Threads, Returns(t)
       PROVE  IInv'
  BY <1>10, ReturnsStep
<1>11. ASSUME NEW i \in Fids, ClosesNext(i)
       PROVE  IInv'
  <2>1. /\ ending \in Procs
        /\ FIDT[ending][i] # NULL
        /\ FIDT' = [FIDT EXCEPT ![ending][i] = NULL]
        /\ Decref(FcbsAt(ending, i), refcount)
        /\ UNCHANGED <<alive, ending, caller, call>>
    BY <1>11, Typed DEF ClosesNext, call_vars
  <2>2. ASSUME NEW p \in Procs, p = ending
        PROVE  IInv'
    BY <2>1, <2>2, DescriptorCloses
  <2> QED
    BY <2>1, <2>2
<1>12. CASE Ends
  <2>1. /\ UNCHANGED <<fcb_vars, FIDT, call_vars, astray>>
        /\ alive' = alive \ {ending} /\ ending' = NULL
        /\ \A i \in Fids : FIDT[ending][i] = NULL
    BY <1>12 DEF Ends
  <2>2. \A p \in alive \ alive' : \A i \in Fids : FIDT[p][i] = NULL
    BY <2>1
  <2>3. alive' \subseteq Procs /\ ending' \in Procs \cup {NULL}
    BY <2>1, Typed
  <2> QED
    BY <2>1, <2>2, <2>3, ProcessesChange
<1>13. CASE Over
  BY <1>13, <1>1 DEF Over
<1> QED
  BY <1>1, <1>2, <1>3, <1>4, <1>5, <1>6, <1>7, <1>8, <1>9, <1>10, <1>11, <1>12, <1>13 DEF Next

-----------------------------------------------------------------------------
\* The parts of the invariant, in every reachable state.
THEOREM InvariantHolds == Spec => []IInv
<1>1. Init => IInv
  BY InitEstablishes
<1> QED
  BY <1>1, NextKeeps, PTL DEF Spec

\* The variables keep their types, whatever the processes do.
THEOREM TypeCorrect == Spec => []TypeOK
<1>1. IInv => TypeOK
  BY DEF IInv
<1> QED
  BY <1>1, InvariantHolds, PTL

(***************************************************************************)
(* No FCB is leaked, released while a descriptor or a sleeping call refers *)
(* to it, or released twice, in any order of Open, Close, Dup2, Exec and   *)
(* the ends of processes: FCB_incref() and FCB_decref() of                 *)
(* kernel_streams.c balance.                                               *)
(***************************************************************************)
THEOREM FcbsAreExact == Spec => []FcbsExact
<1>1. IInv => FcbsExact
  BY DEF IInv
<1> QED
  BY <1>1, InvariantHolds, PTL

(***************************************************************************)
(* A stream is open as long as anybody refers to its FCB, and no longer,   *)
(* but for the descriptor that a failed Pipe() leaves; a call that sleeps  *)
(* in it never finds it closed.                                            *)
(***************************************************************************)
THEOREM StreamsAreExact == Spec => []StreamsExact
<1>1. IInv => StreamsExact
  BY DEF IInv
<1> QED
  BY <1>1, InvariantHolds, PTL

=============================================================================
