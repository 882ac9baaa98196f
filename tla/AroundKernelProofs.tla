------------------------- MODULE AroundKernelProofs -------------------------
(***************************************************************************)
(* What surrounds the kernel: two programs above it, the symposium and the *)
(* remote server, and the machine below it with its serial driver.  Each   *)
(* is safe for any number of philosophers, of connections, of cores and    *)
(* threads.                                                                *)
(***************************************************************************)
EXTENDS Symposium, RemoteServer, SerialDriver, FiniteSetTheorems, TLAPS

-----------------------------------------------------------------------------
(***************************************************************************)
(* The symposium.                                                          *)
(***************************************************************************)

\* Where one sits at the round table.
LEMMA Seats ==
  ASSUME NEW i \in Phils
  PROVE  /\ LEFT(i) = IF i = N - 1 THEN 0 ELSE i + 1
         /\ RIGHT(i) = IF i = 0 THEN N - 1 ELSE i - 1
<1>1. N \in Nat /\ N >= 2 /\ i \in Nat /\ i < N
  BY SymposiumAssumption DEF Phils
<1>2. LEFT(i) = IF i = N - 1 THEN 0 ELSE i + 1
  <2>1. CASE i = N - 1
    BY <1>1, <2>1 DEF LEFT
  <2>2. CASE i # N - 1
    BY <1>1, <2>2 DEF LEFT
  <2> QED BY <2>1, <2>2
<1>3. RIGHT(i) = IF i = 0 THEN N - 1 ELSE i - 1
  <2>1. CASE i = 0
    BY <1>1, <2>1 DEF RIGHT
  <2>2. CASE i # 0
    BY <1>1, <2>2 DEF RIGHT
  <2> QED BY <2>1, <2>2
<1> QED BY <1>2, <1>3

\* The neighbour's neighbour, and nobody is a neighbour of itself.
LEMMA Neighbours ==
  ASSUME NEW i \in Phils
  PROVE  /\ LEFT(i) \in Phils /\ RIGHT(i) \in Phils
         /\ LEFT(i) # i /\ RIGHT(i) # i
         /\ \A k \in Phils : LEFT(k) = i <=> k = RIGHT(i)
         /\ \A k \in Phils : RIGHT(k) = i <=> k = LEFT(i)
BY Seats, SymposiumAssumption DEF Phils

-----------------------------------------------------------------------------
(***************************************************************************)
(* Tables.                                                                 *)
(***************************************************************************)
Tables == [Phils -> PHIL]

\* Neighbours do not eat together.
Apart(s) ==
  \A i \in Phils : s[i] = "EATING" => s[LEFT(i)] # "EATING" /\ s[RIGHT(i)] # "EATING"

\* Who is hungry has a neighbour that eats.
HasReason(s, i) ==
  s[i] = "HUNGRY" => s[LEFT(i)] = "EATING" \/ s[RIGHT(i)] = "EATING"

\* trytoeat(i) lets i eat if it is hungry and no neighbour eats, and does
\* nothing to anybody else.
LEMMA TryToEat ==
  ASSUME NEW s \in Tables, Apart(s), NEW i \in Phils
  PROVE  /\ trytoeat(s, i) \in Tables
         /\ Apart(trytoeat(s, i))
         /\ HasReason(trytoeat(s, i), i)
         /\ \A k \in Phils : \/ trytoeat(s, i)[k] = s[k]
                             \/ k = i /\ s[k] = "HUNGRY" /\ trytoeat(s, i)[k] = "EATING"
<1> DEFINE t == trytoeat(s, i)
<1>1. CASE ~ CanEat(s, i)
  <2>1. t = s
    BY <1>1 DEF trytoeat
  <2>2. s[i] \in PHIL /\ HasReason(s, i)
    BY <1>1 DEF CanEat, HasReason, Tables
  <2> QED BY <2>1, <2>2
<1>2. CASE CanEat(s, i)
  <2>1. t = [s EXCEPT ![i] = "EATING"]
    BY <1>2 DEF trytoeat
  <2>2. /\ s[i] = "HUNGRY" /\ s[LEFT(i)] # "EATING" /\ s[RIGHT(i)] # "EATING"
    BY <1>2 DEF CanEat
  <2> HIDE DEF t
  <2>3. t \in Tables
    BY <2>1 DEF Tables, PHIL
  <2>4. \A k \in Phils : t[k] = IF k = i THEN "EATING" ELSE s[k]
    BY <2>1 DEF Tables
  <2>5. Apart(t)
    <3> SUFFICES ASSUME NEW k \in Phils, t[k] = "EATING"
                 PROVE  t[LEFT(k)] # "EATING" /\ t[RIGHT(k)] # "EATING"
      BY DEF Apart
    <3>1. LEFT(k) \in Phils /\ RIGHT(k) \in Phils /\ LEFT(k) # k /\ RIGHT(k) # k
      BY Neighbours
    <3>2. CASE k = i
      BY <3>1, <3>2, <2>2, <2>4
    <3>3. CASE k # i
      <4>1. s[k] = "EATING" /\ s[LEFT(k)] # "EATING" /\ s[RIGHT(k)] # "EATING"
        BY <3>3, <2>4 DEF Apart
      <4>2. LEFT(k) # i /\ RIGHT(k) # i
        BY <4>1, <2>2, Neighbours
      <4> QED BY <4>1, <4>2, <3>1, <2>4
    <3> QED BY <3>2, <3>3
  <2>6. HasReason(t, i)
    BY <2>4 DEF HasReason
  <2> QED BY <2>2, <2>3, <2>4, <2>5, <2>6 DEF t
<1> QED BY <1>1, <1>2

-----------------------------------------------------------------------------
(***************************************************************************)
(* The inductive invariant: pc and state go together, and the two parts of *)
(* the table that depend on one another.                                   *)
(***************************************************************************)
StateAt(p) ==
  CASE p \in {"none", "arrives", "gone"} -> "NOTHERE"
    [] p = "thinks" -> "THINKING"
    [] p = "asleep" -> "HUNGRY"
    [] p \in {"woken", "eats"} -> "EATING"

Agree == \A i \in Phils : state[i] = StateAt(pc[i])

BitesLeft == \A i \in Phils : pc[i] \in {"asleep", "woken", "eats"} => j[i] < bites

NotCreated == \A i \in Phils : i >= created => pc[i] = "none"

Fed == \A i \in Phils : HasReason(state, i)

IInv == TypeOK /\ Agree /\ BitesLeft /\ NotCreated /\ Apart(state) /\ Fed

LEMMA InitInv == Init => IInv
<1> SUFFICES ASSUME Init PROVE IInv
  OBVIOUS
<1>1. N \in Nat /\ bites \in Nat
  BY SymposiumAssumption
<1>2. TypeOK
  <2>1. created \in 0..N /\ freed \in BOOLEAN
    <3>1. created = 0 /\ freed = FALSE
      BY DEF Init
    <3>2. created \in 0..N
      BY <1>1, <3>1
    <3> QED BY <3>1, <3>2
  <2>2. /\ state \in [Phils -> PHIL] /\ j \in [Phils -> 0..bites]
        /\ pc \in [Phils -> {"none", "arrives", "thinks", "asleep", "woken", "eats", "gone"}]
    BY <1>1 DEF Init, PHIL
  <2> QED BY <2>1, <2>2 DEF TypeOK
<1>3. Agree /\ BitesLeft /\ NotCreated
  BY DEF Init, Agree, StateAt, BitesLeft, NotCreated
<1>4. Apart(state) /\ Fed
  BY Neighbours DEF Init, Apart, Fed, HasReason
<1> QED BY <1>2, <1>3, <1>4 DEF IInv

\* A philosopher who does not eat may become anything that does not eat, and
\* who depends on it depends on it no more than before.
LEMMA SetsState ==
  ASSUME IInv, NEW i \in Phils, state[i] # "EATING",
         NEW v \in {"NOTHERE", "THINKING", "HUNGRY"}
  PROVE  LET s == [state EXCEPT ![i] = v]
         IN  s \in Tables /\ Apart(s) /\ \A k \in Phils \ {i} : HasReason(s, k)
<1> DEFINE s == [state EXCEPT ![i] = v]
<1>1. state \in Tables /\ Apart(state) /\ Fed
  BY DEF IInv, TypeOK, Tables
<1>2. s \in Tables
  BY <1>1 DEF Tables, PHIL
<1>3. \A k \in Phils : s[k] = IF k = i THEN v ELSE state[k]
  BY <1>1 DEF Tables
<1> HIDE DEF s
<1>4. \A k \in Phils : s[k] = "EATING" <=> state[k] = "EATING"
  BY <1>3
<1>5. Apart(s)
  BY <1>1, <1>4, Neighbours DEF Apart
<1>6. ASSUME NEW k \in Phils \ {i} PROVE HasReason(s, k)
  <2>1. s[k] = state[k] /\ HasReason(state, k)
    BY <1>1, <1>3 DEF Fed
  <2> QED BY <2>1, <1>4, Neighbours DEF HasReason
<1> QED BY <1>2, <1>5, <1>6 DEF s

LEMMA ArrivesInv == ASSUME IInv, NEW i \in Phils, Arrives(i) PROVE IInv'
<1>1. /\ pc[i] = "arrives" /\ pc' = [pc EXCEPT ![i] = "thinks"]
      /\ state' = [state EXCEPT ![i] = "THINKING"]
      /\ UNCHANGED <<j, created, freed>>
  BY DEF Arrives
<1>2. TypeOK /\ Agree /\ BitesLeft /\ NotCreated
  BY DEF IInv
<1>3. state[i] = "NOTHERE"
  BY <1>1, <1>2 DEF Agree, StateAt
<1>4. state' \in Tables /\ Apart(state') /\ \A k \in Phils \ {i} : HasReason(state', k)
  BY <1>1, <1>3, SetsState
<1>5. \A k \in Phils : /\ pc'[k] = IF k = i THEN "thinks" ELSE pc[k]
                       /\ state'[k] = IF k = i THEN "THINKING" ELSE state[k]
  BY <1>1, <1>2 DEF TypeOK
<1>6. TypeOK'
  BY <1>1, <1>2, <1>4 DEF TypeOK, Tables
<1>7. Agree' /\ BitesLeft' /\ NotCreated'
  <2>1. Agree'
    BY <1>2, <1>5 DEF Agree, StateAt
  <2>2. BitesLeft'
    BY <1>1, <1>2, <1>5 DEF BitesLeft
  <2>3. NotCreated'
    BY <1>1, <1>2, <1>5 DEF NotCreated
  <2> QED BY <2>1, <2>2, <2>3
<1>8. Fed'
  BY <1>4, <1>5 DEF Fed, HasReason
<1> QED BY <1>4, <1>6, <1>7, <1>8 DEF IInv

LEMMA GetsHungryInv == ASSUME IInv, NEW i \in Phils, GetsHungry(i) PROVE IInv'
<1> DEFINE s == [state EXCEPT ![i] = "HUNGRY"]
<1>1. /\ pc[i] = "thinks" /\ j[i] < bites
      /\ state' = trytoeat(s, i)
      /\ pc' = [pc EXCEPT ![i] = IF state'[i] = "HUNGRY" THEN "asleep" ELSE "eats"]
      /\ UNCHANGED <<j, created, freed>>
  BY DEF GetsHungry
<1>2. TypeOK /\ Agree /\ BitesLeft /\ NotCreated
  BY DEF IInv
<1>3. state[i] = "THINKING"
  BY <1>1, <1>2 DEF Agree, StateAt
<1>4. s \in Tables /\ Apart(s) /\ \A k \in Phils \ {i} : HasReason(s, k)
  BY <1>3, SetsState
<1>5. \A k \in Phils : s[k] = IF k = i THEN "HUNGRY" ELSE state[k]
  BY <1>2 DEF TypeOK
<1> HIDE DEF s
<1>6. /\ state' \in Tables /\ Apart(state') /\ HasReason(state', i)
      /\ \A k \in Phils : \/ state'[k] = s[k]
                          \/ k = i /\ s[k] = "HUNGRY" /\ state'[k] = "EATING"
  BY <1>1, <1>4, TryToEat
<1>7. /\ state'[i] \in {"HUNGRY", "EATING"}
      /\ \A k \in Phils \ {i} : state'[k] = state[k]
  BY <1>5, <1>6
<1>8. \A k \in Phils : pc'[k] = IF k # i THEN pc[k]
                                ELSE IF state'[i] = "HUNGRY" THEN "asleep" ELSE "eats"
  BY <1>1, <1>2 DEF TypeOK
<1>9. TypeOK'
  BY <1>1, <1>2, <1>6 DEF TypeOK, Tables
<1>10. Agree' /\ BitesLeft' /\ NotCreated'
  <2>1. Agree'
    BY <1>2, <1>7, <1>8 DEF Agree, StateAt
  <2>2. BitesLeft'
    BY <1>1, <1>2, <1>8 DEF BitesLeft
  <2>3. NotCreated'
    BY <1>1, <1>2, <1>8 DEF NotCreated
  <2> QED BY <2>1, <2>2, <2>3
<1>11. Fed'
  <2> SUFFICES ASSUME NEW k \in Phils PROVE HasReason(state', k)
    BY DEF Fed
  <2>1. CASE k = i
    BY <2>1, <1>6
  <2>2. CASE k # i
    <3>1. s[k] = state'[k] /\ HasReason(s, k)
      BY <2>2, <1>4, <1>6
    <3>2. \A l \in Phils : s[l] = "EATING" => state'[l] = "EATING"
      BY <1>6
    <3> QED BY <3>1, <3>2, Neighbours DEF HasReason
  <2> QED BY <2>1, <2>2
<1> QED BY <1>6, <1>9, <1>10, <1>11 DEF IInv

LEMMA WakesUpInv == ASSUME IInv, NEW i \in Phils, WakesUp(i) PROVE IInv'
<1>1. /\ pc[i] = "woken"
      /\ pc' = [pc EXCEPT ![i] = IF state[i] = "HUNGRY" THEN "asleep" ELSE "eats"]
      /\ UNCHANGED <<state, j, created, freed>>
  BY DEF WakesUp
<1>2. TypeOK /\ Agree /\ BitesLeft /\ NotCreated /\ Apart(state) /\ Fed
  BY DEF IInv
<1>3. state[i] = "EATING"
  BY <1>1, <1>2 DEF Agree, StateAt
<1>4. \A k \in Phils : pc'[k] = IF k = i THEN "eats" ELSE pc[k]
  BY <1>1, <1>2, <1>3 DEF TypeOK
<1>5. TypeOK'
  BY <1>1, <1>2 DEF TypeOK
<1>6. Agree'
  <2>1. \A k \in Phils : StateAt(pc'[k]) = StateAt(pc[k])
    <3>1. StateAt("woken") = "EATING" /\ StateAt("eats") = "EATING"
      BY DEF StateAt
    <3>2. pc[i] = "woken"
      BY <1>1
    <3> QED BY <3>1, <3>2, <1>4
  <2> QED BY <2>1, <1>1, <1>2 DEF Agree
<1>7. BitesLeft' /\ NotCreated'
  BY <1>1, <1>2, <1>4 DEF BitesLeft, NotCreated
<1>8. Apart(state') /\ Fed'
  BY <1>1, <1>2 DEF Fed
<1> QED BY <1>5, <1>6, <1>7, <1>8 DEF IInv

LEMMA StopsEatingInv == ASSUME IInv, NEW i \in Phils, StopsEating(i) PROVE IInv'
<1> DEFINE s == [state EXCEPT ![i] = "THINKING"]
           t == trytoeat(s, LEFT(i))
<1>1. /\ pc[i] = "eats"
      /\ state' = trytoeat(t, RIGHT(i))
      /\ pc' = [k \in Phils |->
                  IF k = i THEN "thinks"
                  ELSE IF pc[k] = "asleep" /\ state[k] # state'[k] THEN "woken" ELSE pc[k]]
      /\ j' = [j EXCEPT ![i] = @ + 1]
      /\ UNCHANGED <<created, freed>>
  BY DEF StopsEating, NeighboursTry
<1>2. /\ TypeOK /\ Agree /\ BitesLeft /\ NotCreated /\ Apart(state) /\ Fed
      /\ state \in Tables
  BY DEF IInv, TypeOK, Tables
<1>3. s \in Tables /\ \A k \in Phils : s[k] = IF k = i THEN "THINKING" ELSE state[k]
  BY <1>2 DEF Tables, PHIL
<1> HIDE DEF s
<1>4. Apart(s)
  BY <1>2, <1>3, Neighbours DEF Apart
<1>5. LEFT(i) \in Phils /\ RIGHT(i) \in Phils /\ LEFT(i) # i /\ RIGHT(i) # i
  BY Neighbours
<1>6. /\ t \in Tables /\ Apart(t) /\ HasReason(t, LEFT(i))
      /\ \A k \in Phils : \/ t[k] = s[k]
                          \/ k = LEFT(i) /\ s[k] = "HUNGRY" /\ t[k] = "EATING"
  BY <1>3, <1>4, <1>5, TryToEat
<1> HIDE DEF t
<1>7. /\ state' \in Tables /\ Apart(state') /\ HasReason(state', RIGHT(i))
      /\ \A k \in Phils : \/ state'[k] = t[k]
                          \/ k = RIGHT(i) /\ t[k] = "HUNGRY" /\ state'[k] = "EATING"
  <2>1. t \in Tables /\ Apart(t) /\ RIGHT(i) \in Phils
    BY <1>5, <1>6
  <2>2. state' = trytoeat(t, RIGHT(i))
    BY <1>1
  <2> QED BY <2>1, <2>2, TryToEat
<1>8. /\ state'[i] = "THINKING"
      /\ \A k \in Phils \ {i} : \/ state'[k] = state[k]
                                \/ state[k] = "HUNGRY" /\ state'[k] = "EATING"
  BY <1>3, <1>5, <1>6, <1>7
<1>9. \A k \in Phils : s[k] = "EATING" => t[k] = "EATING" /\ state'[k] = "EATING"
  BY <1>6, <1>7
<1>10. TypeOK'
  <2>1. bites \in Nat /\ j[i] \in 0..bites /\ j[i] < bites
    BY <1>1, <1>2, SymposiumAssumption DEF TypeOK, BitesLeft
  <2>2. j' \in [Phils -> 0..bites]
    BY <2>1, <1>1, <1>2 DEF TypeOK
  <2>3. pc' \in [Phils -> {"none", "arrives", "thinks", "asleep", "woken", "eats", "gone"}]
    BY <1>1, <1>2 DEF TypeOK
  <2> QED BY <2>2, <2>3, <1>1, <1>2, <1>7 DEF TypeOK, Tables
<1>11. \A k \in Phils \ {i} :
         \/ pc'[k] = pc[k] /\ state'[k] = state[k]
         \/ pc[k] = "asleep" /\ pc'[k] = "woken" /\ state'[k] = "EATING"
  <2> SUFFICES ASSUME NEW k \in Phils \ {i}
               PROVE  \/ pc'[k] = pc[k] /\ state'[k] = state[k]
                      \/ pc[k] = "asleep" /\ pc'[k] = "woken" /\ state'[k] = "EATING"
    OBVIOUS
  <2>1. pc'[k] = IF pc[k] = "asleep" /\ state[k] # state'[k] THEN "woken" ELSE pc[k]
    BY <1>1
  <2>2. state[k] = "HUNGRY" => pc[k] = "asleep"
    BY <1>2 DEF Agree, StateAt, TypeOK
  <2> QED BY <2>1, <2>2, <1>8
<1>12. pc'[i] = "thinks"
  BY <1>1
<1>13. Agree'
  BY <1>2, <1>8, <1>11, <1>12 DEF Agree, StateAt
<1>14. BitesLeft'
  <2>1. \A k \in Phils \ {i} : j'[k] = j[k]
    BY <1>1, <1>2 DEF TypeOK
  <2> QED BY <2>1, <1>2, <1>11, <1>12 DEF BitesLeft
<1>15. NotCreated'
  BY <1>1, <1>2, <1>11 DEF NotCreated
<1>16. Fed'
  <2> SUFFICES ASSUME NEW k \in Phils, state'[k] = "HUNGRY"
               PROVE  state'[LEFT(k)] = "EATING" \/ state'[RIGHT(k)] = "EATING"
    BY DEF Fed, HasReason
  <2>1. LEFT(k) \in Phils /\ RIGHT(k) \in Phils
    BY Neighbours
  <2>2. CASE k = RIGHT(i)
    BY <2>2, <1>7 DEF HasReason
  <2>3. CASE k = LEFT(i)
    <3>1. t[k] = "HUNGRY" => t[LEFT(k)] = "EATING" \/ t[RIGHT(k)] = "EATING"
      BY <2>3, <1>6 DEF HasReason
    <3>2. t[k] = "HUNGRY"
      BY <1>7
    <3> QED BY <3>1, <3>2, <2>1, <1>7
  <2>4. CASE k # LEFT(i) /\ k # RIGHT(i)
    <3>1. LEFT(k) # i /\ RIGHT(k) # i
      BY <2>4, Neighbours
    <3>2. state[k] = "HUNGRY"
      BY <1>8
    <3>3. state[LEFT(k)] = "EATING" \/ state[RIGHT(k)] = "EATING"
      BY <3>2, <1>2 DEF Fed, HasReason
    <3> QED BY <3>1, <3>3, <2>1, <1>3, <1>9
  <2> QED BY <2>2, <2>3, <2>4
<1> QED BY <1>7, <1>10, <1>13, <1>14, <1>15, <1>16 DEF IInv

LEMMA LeavesInv == ASSUME IInv, NEW i \in Phils, Leaves(i) PROVE IInv'
<1>1. /\ pc[i] = "thinks" /\ pc' = [pc EXCEPT ![i] = "gone"]
      /\ state' = [state EXCEPT ![i] = "NOTHERE"]
      /\ UNCHANGED <<j, created, freed>>
  BY DEF Leaves
<1>2. TypeOK /\ Agree /\ BitesLeft /\ NotCreated
  BY DEF IInv
<1>3. state[i] = "THINKING"
  BY <1>1, <1>2 DEF Agree, StateAt
<1>4. state' \in Tables /\ Apart(state') /\ \A k \in Phils \ {i} : HasReason(state', k)
  BY <1>1, <1>3, SetsState
<1>5. \A k \in Phils : /\ pc'[k] = IF k = i THEN "gone" ELSE pc[k]
                       /\ state'[k] = IF k = i THEN "NOTHERE" ELSE state[k]
  BY <1>1, <1>2 DEF TypeOK
<1>6. TypeOK'
  BY <1>1, <1>2, <1>4 DEF TypeOK, Tables
<1>7. Agree' /\ BitesLeft' /\ NotCreated'
  <2>1. Agree'
    BY <1>2, <1>5 DEF Agree, StateAt
  <2>2. BitesLeft'
    BY <1>1, <1>2, <1>5 DEF BitesLeft
  <2>3. NotCreated'
    BY <1>1, <1>2, <1>5 DEF NotCreated
  <2> QED BY <2>1, <2>2, <2>3
<1>8. Fed'
  BY <1>4, <1>5 DEF Fed, HasReason
<1> QED BY <1>4, <1>6, <1>7, <1>8 DEF IInv

LEMMA CreatesInv == ASSUME IInv, Creates PROVE IInv'
<1>1. /\ created < N /\ created' = created + 1
      /\ pc' = [pc EXCEPT ![created] = "arrives"]
      /\ UNCHANGED <<state, j, freed>>
  BY DEF Creates
<1>2. TypeOK /\ Agree /\ BitesLeft /\ NotCreated /\ Apart(state) /\ Fed
  BY DEF IInv
<1>3. N \in Nat /\ created \in Phils /\ created \in Nat
  BY <1>1, <1>2, SymposiumAssumption DEF TypeOK, Phils
<1>4. pc[created] = "none"
  BY <1>2, <1>3 DEF NotCreated
<1>5. \A k \in Phils : pc'[k] = IF k = created THEN "arrives" ELSE pc[k]
  BY <1>1, <1>2 DEF TypeOK
<1>6. TypeOK'
  BY <1>1, <1>2, <1>3 DEF TypeOK
<1>7. Agree'
  <2>1. \A k \in Phils : StateAt(pc'[k]) = StateAt(pc[k])
    BY <1>4, <1>5 DEF StateAt
  <2> QED BY <2>1, <1>1, <1>2 DEF Agree
<1>8. BitesLeft'
  BY <1>1, <1>2, <1>5 DEF BitesLeft
<1>9. NotCreated'
  <2> SUFFICES ASSUME NEW k \in Phils, k >= created + 1 PROVE pc'[k] = "none"
    BY <1>1 DEF NotCreated
  <2>1. k \in Nat /\ k >= created /\ k # created
    BY <1>3 DEF Phils
  <2> QED BY <2>1, <1>2, <1>5 DEF NotCreated
<1>10. Apart(state') /\ Fed'
  BY <1>1, <1>2 DEF Fed
<1> QED BY <1>6, <1>7, <1>8, <1>9, <1>10 DEF IInv

LEMMA NextInv == IInv /\ [Next]_vars => IInv'
<1> SUFFICES ASSUME IInv, [Next]_vars PROVE IInv'
  OBVIOUS
<1>1. CASE Creates
  BY <1>1, CreatesInv
<1>2. CASE Frees
  <2>1. UNCHANGED <<state, pc, j, created>> /\ freed' \in BOOLEAN
    BY <1>2 DEF Frees
  <2> QED BY <2>1 DEF IInv, TypeOK, Agree, StateAt, BitesLeft, NotCreated, Fed
<1>3. ASSUME NEW i \in Phils, Philosopher(i) PROVE IInv'
  BY <1>3, ArrivesInv, GetsHungryInv, WakesUpInv, StopsEatingInv, LeavesInv DEF Philosopher
<1>4. CASE UNCHANGED vars
  BY <1>4 DEF IInv, TypeOK, Agree, StateAt, BitesLeft, NotCreated, Fed, vars
<1> QED BY <1>1, <1>2, <1>3, <1>4 DEF Next

LEMMA Invariance == Spec => []IInv
<1>1. Init => IInv
  BY InitInv
<1>2. IInv /\ [Next]_vars => IInv'
  BY NextInv
<1> QED BY <1>1, <1>2, PTL DEF Spec

-----------------------------------------------------------------------------
\* The types of the variables of the symposium, for any N and bites.
THEOREM TypeCorrect == Spec => []TypeOK
<1>1. IInv => TypeOK
  BY DEF IInv
<1> QED BY <1>1, Invariance, PTL

LEMMA InvImpliesExact == IInv => TableExact
<1> SUFFICES ASSUME IInv PROVE TableExact
  OBVIOUS
<1>1. TypeOK /\ Agree /\ Apart(state) /\ Fed
  BY DEF IInv
<1>2. NeighboursApart
  BY <1>1 DEF NeighboursApart, Apart
<1>3. EatersMay
  BY <1>1 DEF EatersMay, Agree, StateAt
<1>4. HungryWaitForNeighbours
  <2> SUFFICES ASSUME NEW i \in Phils, pc[i] = "asleep"
               PROVE  /\ state[i] = "HUNGRY"
                      /\ \E k \in {LEFT(i), RIGHT(i)} :
                           state[k] = "EATING" /\ pc[k] \in {"eats", "woken"}
    BY DEF HungryWaitForNeighbours
  <2>1. state[i] = "HUNGRY"
    BY <1>1 DEF Agree, StateAt
  <2>2. state[LEFT(i)] = "EATING" \/ state[RIGHT(i)] = "EATING"
    BY <1>1, <2>1 DEF Fed, HasReason
  <2>3. ASSUME NEW k \in Phils, state[k] = "EATING" PROVE pc[k] \in {"eats", "woken"}
    BY <1>1, <2>3 DEF Agree, StateAt, TypeOK
  <2> QED BY <2>1, <2>2, <2>3, Neighbours
<1> QED BY <1>2, <1>3, <1>4 DEF TableExact, ForksExact

\* At any table neighbours never eat together, who goes on to eat may, and
\* who sleeps has a neighbour that eats.
THEOREM TableIsExact == Spec => []TableExact
<1>1. IInv => TableExact
  BY InvImpliesExact
<1> QED BY <1>1, Invariance, PTL


-----------------------------------------------------------------------------
(***************************************************************************)
(* The remote server, for any number of connections.                       *)
(***************************************************************************)
(***************************************************************************)
(* The strengthening.  While no update of active_conn was lost it counts   *)
(* the connections that are served, and the one that the listener has      *)
(* counted but has no thread yet.  Before that one is counted, there is a  *)
(* thread to serve it, so that the count does not wrap.                    *)
(***************************************************************************)
Numbered == {c \in Clients : client[c] \notin {"none", "numbers"}}

Promised == IF listener = "creates" THEN 1 ELSE 0

ListenerInv ==
  listener \in {"loads", "stores", "creates"} => \E c \in Clients : client[c] = "none"

SectionInv ==
  \A c, d \in Clients : client[c] = "stores" /\ client[d] = "stores" => c = d

ConsoleInv ==
  /\ console \in {"counts", "sleeps", "truncates", "left"} => listener = "returned"
  /\ console = "sleeps" => active_conn > 0

CountInv ==
  ~ raced => /\ active_conn = Cardinality(Served) + Promised
             /\ console \in {"truncates", "left"} => Served = {}

Places == {"none", "numbers", "greets", "serves", "reports", "finishes", "stores", "done"}

ServerTypes ==
  /\ quit \in BOOLEAN /\ listener_socket \in BOOLEAN
  /\ active_conn \in 0..SIZE_MAX /\ loaded \in [{"listener", "client"} -> 0..SIZE_MAX]
  /\ console \in {"reads", "closes", "joins", "counts", "sleeps", "truncates",
                  "left", "left at end of file"}
  /\ listener \in {"opens", "listens", "tells", "accepts", "tests", "logs",
                   "loads", "stores", "creates", "returned"}
  /\ client \in [Clients -> Places]
  /\ lsock \in {"none", "open", "listens", "closed"}
  /\ raced \in BOOLEAN

LogTypes == log \in Seq(1..MaxLog) /\ logcount \in 0..MaxLog

ServerIInv ==
  /\ ServerTypes
  /\ LogTypes
  /\ conn_id_counter = Cardinality(Numbered)
  /\ ListenerInv
  /\ SectionInv
  /\ ConsoleInv
  /\ CountInv

LEMMA ServerConstants ==
  /\ IsFiniteSet(Clients) /\ Cardinality(Clients) \in Nat
  /\ SIZE_MAX \in Nat /\ Cardinality(Clients) <= SIZE_MAX
  /\ MaxLog \in Nat
BY ServerAssumption, FS_CardinalityType

\* Sets of clients, and what one client more or less does to their number.
LEMMA ClientSets ==
  ASSUME NEW S \in SUBSET Clients
  PROVE  /\ Cardinality(S) \in Nat
         /\ Cardinality(S) <= Cardinality(Clients)
         /\ Cardinality(S) = 0 <=> S = {}
         /\ \A c \in Clients \ S : Cardinality(S \cup {c}) = Cardinality(S) + 1
         /\ \A c \in S : Cardinality(S \ {c}) = Cardinality(S) - 1
         /\ S # Clients => Cardinality(S) < Cardinality(Clients)
<1>1. IsFiniteSet(Clients) /\ IsFiniteSet(S)
  BY ServerConstants, FS_Subset
<1>2. Cardinality(S) \in Nat /\ Cardinality(S) <= Cardinality(Clients)
  BY <1>1, FS_CardinalityType, FS_Subset
<1>3. Cardinality(S) = 0 <=> S = {}
  BY <1>1, FS_EmptySet
<1>4. \A c \in Clients \ S : Cardinality(S \cup {c}) = Cardinality(S) + 1
  BY <1>1, FS_AddElement
<1>5. \A c \in S : Cardinality(S \ {c}) = Cardinality(S) - 1
  BY <1>1, FS_RemoveElement
<1>6. S # Clients => Cardinality(S) < Cardinality(Clients)
  <2>1. SUFFICES ASSUME S # Clients PROVE Cardinality(S) < Cardinality(Clients)
    OBVIOUS
  <2>2. PICK c \in Clients : c \notin S
    BY <2>1
  <2>3. S \cup {c} \in SUBSET Clients
    OBVIOUS
  <2>4. IsFiniteSet(S \cup {c}) /\ Cardinality(S \cup {c}) <= Cardinality(Clients)
    BY <1>1, <2>3, FS_Subset
  <2>5. Cardinality(S \cup {c}) = Cardinality(S) + 1
    BY <1>4, <2>2
  <2>6. Cardinality(Clients) \in Nat
    BY ServerConstants
  <2> QED
    BY <2>4, <2>5, <2>6, <1>2
<1> QED
  BY <1>2, <1>3, <1>4, <1>5, <1>6

\* A client that goes on, within what it does while it is served or to its
\* end.
LEMMA ClientGoesOn ==
  ASSUME ServerIInv, NEW c \in Clients, NEW from \in Places \ {"none", "done"},
         NEW to \in Places \ {"none", "numbers"}, Goes(c, from, to)
  PROVE  /\ client' \in [Clients -> Places]
         /\ client[c] = from
         /\ \A d \in Clients : client'[d] = IF d = c THEN to ELSE client[d]
         /\ listener' = listener => ListenerInv'
         /\ to # "stores" => SectionInv'
         /\ to # "done" => Served' = Served
         /\ to = "done" => Served' = Served \ {c}
         /\ from # "numbers" => Numbered' = Numbered
         /\ from = "numbers" => Numbered' = Numbered \cup {c}
<1>1. client \in [Clients -> Places]
  BY DEF ServerIInv, ServerTypes
<1>2. client[c] = from /\ client' = [client EXCEPT ![c] = to]
  BY DEF Goes
<1>3. \A d \in Clients : client'[d] = IF d = c THEN to ELSE client[d]
  BY <1>1, <1>2
<1>4. client' \in [Clients -> Places]
  BY <1>1, <1>2
<1>5. listener' = listener => ListenerInv'
  <2>1. ListenerInv
    BY DEF ServerIInv
  <2>2. \A d \in Clients : client[d] = "none" => client'[d] = "none"
    BY <1>2, <1>3
  <2> QED
    BY <2>1, <2>2 DEF ListenerInv
<1>6. to # "stores" => SectionInv'
  BY <1>3 DEF ServerIInv, SectionInv
<1>7. to # "done" => Served' = Served
  BY <1>2, <1>3 DEF Served
<1>8. to = "done" => Served' = Served \ {c}
  BY <1>2, <1>3 DEF Served
<1>9. from # "numbers" => Numbered' = Numbered
  BY <1>2, <1>3 DEF Numbered
<1>10. from = "numbers" => Numbered' = Numbered \cup {c}
  BY <1>2, <1>3 DEF Numbered
<1> QED
  BY <1>2, <1>3, <1>4, <1>5, <1>6, <1>7, <1>8, <1>9, <1>10

\* A step that leaves the clients, the count and the listener alone.
LEMMA CountStays ==
  ASSUME ServerIInv, UNCHANGED <<client, listener>>
  PROVE  /\ Numbered' = Numbered /\ Served' = Served
         /\ Promised' = Promised /\ ListenerInv' /\ SectionInv'
BY DEF ServerIInv, Numbered, Served, Promised, ListenerInv, SectionInv

\* size_t: one more, and one less.
LEMMA PlusModulo ==
  ASSUME NEW m \in Nat, NEW x \in 0..m
  PROVE  /\ (x + 1) % (m + 1) = IF x = m THEN 0 ELSE x + 1
         /\ (x + m) % (m + 1) = IF x = 0 THEN m ELSE x - 1
OBVIOUS

\* Records of the log.
LEMMA EmptyLog == \A S : << >> \in Seq(S)
OBVIOUS

LEMMA LongerLog == \A S : \A l \in Seq(S), k \in S : Append(l, k) \in Seq(S)
OBVIOUS

LEMMA ServerInit ==
  ASSUME RsrvInit
  PROVE  ServerIInv
<1>1. Numbered = {} /\ Served = {}
  BY DEF RsrvInit, Numbered, Served
<1>2. Cardinality({}) = 0
  BY FS_EmptySet
<1>3. LogTypes
  BY ServerConstants, EmptyLog DEF RsrvInit, LogTypes
<1>4. ServerTypes
  <2>1. 0 \in 0..SIZE_MAX
    BY ServerConstants
  <2>2. client \in [Clients -> Places] /\ loaded \in [{"listener", "client"} -> 0..SIZE_MAX]
    BY <2>1 DEF RsrvInit, Places
  <2> QED
    BY <2>1, <2>2 DEF RsrvInit, ServerTypes
<1>5. ListenerInv /\ SectionInv /\ ConsoleInv
  BY DEF RsrvInit, ListenerInv, SectionInv, ConsoleInv
<1>6. conn_id_counter = Cardinality(Numbered)
  BY <1>1, <1>2 DEF RsrvInit
<1>7. CountInv
  BY <1>1, <1>2 DEF RsrvInit, CountInv, Promised
<1> QED
  BY <1>3, <1>4, <1>5, <1>6, <1>7 DEF ServerIInv

\* The console.
LEMMA ConsoleKeeps ==
  ASSUME ServerIInv, Console
  PROVE  ServerIInv'
<1>1. UNCHANGED <<client, listener, active_conn, loaded, raced, conn_id_counter>>
  BY DEF Console, ReadsQ, ReadsEndOfFile, Closes, Joins,
     Counts, Truncates, conn_vars
<1>2. Numbered' = Numbered /\ Served' = Served
      /\ Promised' = Promised /\ ListenerInv' /\ SectionInv'
  BY <1>1, CountStays
<1>3. ServerTypes'
  BY <1>1 DEF ServerIInv, ServerTypes, Console, ReadsQ,
     ReadsEndOfFile, Closes, Joins, Counts, Truncates
<1>6. LogTypes'
  <2>1. logcount' = logcount /\ log' \in {log, << >>}
    BY DEF Console, ReadsQ, ReadsEndOfFile, Closes,
       Joins, Counts, Truncates, log_vars
  <2> QED
    BY <2>1, EmptyLog DEF ServerIInv, LogTypes
<1>4. ConsoleInv'
  BY <1>1 DEF ServerIInv, ConsoleInv, Console, ReadsQ,
     ReadsEndOfFile, Closes, Joins, Counts, Truncates
<1>5. CountInv'
  <2>1. SUFFICES ASSUME ~ raced', console' \in {"truncates", "left"}
                 PROVE  Served = {}
    BY <1>1, <1>2 DEF ServerIInv, CountInv
  <2>2. ~ raced /\ active_conn = Cardinality(Served) + Promised
    BY <1>1, <2>1 DEF ServerIInv, CountInv
  <2>3. CASE console \in {"truncates", "left"}
    BY <2>2, <2>3 DEF ServerIInv, CountInv
  <2>4. CASE Counts
    <3>1. active_conn = 0
      BY <2>1, <2>4 DEF Counts, ServerIInv, ServerTypes
    <3>2. Promised = 0
      BY <2>4 DEF Counts, ServerIInv, ConsoleInv, Promised
    <3>3. Served \in SUBSET Clients
      BY DEF Served
    <3> QED
      BY <2>2, <3>1, <3>2, <3>3, ClientSets
  <2> QED
    BY <2>1, <2>3, <2>4 DEF Console, ReadsQ, ReadsEndOfFile,
       Closes, Joins, Truncates
<1> QED
  BY <1>1, <1>2, <1>3, <1>4, <1>5, <1>6 DEF ServerIInv

\* The listener.
LEMMA ListenerKeeps ==
  ASSUME ServerIInv, Listener
  PROVE  ServerIInv'
<1> USE DEF conn_vars, log_vars
<1>1. listener # "returned" /\ console' = console /\ conn_id_counter' = conn_id_counter
  BY DEF Listener, Opens, Listens, Tells, Accepts,
     TestsQuit, LogsFailure, CountsConnection, CreatesClient
<1>2. ConsoleInv' /\ console' \notin {"truncates", "left"}
  BY <1>1 DEF ServerIInv, ConsoleInv
<1>3. LogTypes'
  <2>1. CASE UNCHANGED <<log, logcount>>
    BY <2>1 DEF ServerIInv, LogTypes
  <2>2. CASE log_message
    <3>1. logcount' \in 1..MaxLog
      BY <2>2, ServerConstants DEF ServerIInv, LogTypes, log_message
    <3>2. log' \in Seq(1..MaxLog)
      BY <2>2, <3>1, LongerLog DEF ServerIInv, LogTypes, log_message
    <3> QED
      BY <3>1, <3>2, ServerConstants DEF LogTypes
  <2> QED
    BY <2>1, <2>2 DEF Listener, Opens, Listens, Tells,
       Accepts, TestsQuit, LogsFailure, CountsConnection,
       CreatesClient
<1>4. ASSUME UNCHANGED client
      PROVE  Numbered' = Numbered /\ Served' = Served /\ SectionInv'
  BY <1>4 DEF ServerIInv, Numbered, Served, SectionInv
<1> DEFINE n == Cardinality(Served)
<1>5. n \in Nat /\ n <= Cardinality(Clients)
  BY ClientSets DEF Served
<1> HIDE DEF n
<1>6. ASSUME UNCHANGED <<client, active_conn, loaded, raced>>,
             listener # "creates", listener' # "creates", ServerTypes',
             listener' \in {"loads", "stores"} => \E c \in Clients : client[c] = "none"
      PROVE  ServerIInv'
  <2>1. CountInv'
    BY <1>2, <1>4, <1>6 DEF ServerIInv, CountInv, Promised
  <2>2. ListenerInv'
    BY <1>6 DEF ListenerInv
  <2> QED
    BY <1>1, <1>2, <1>3, <1>4, <1>6, <2>1, <2>2 DEF ServerIInv
<1>7. CASE Opens \/ Listens \/ Tells \/ Accepts
           \/ TestsQuit \/ LogsFailure
  <2>1. /\ UNCHANGED <<client, active_conn, loaded, raced>>
        /\ listener # "creates" /\ listener' # "creates"
        /\ listener' \in {"loads", "stores"} => \E c \in Clients : client[c] = "none"
    BY <1>7 DEF Opens, Listens, Tells, Accepts,
       TestsQuit, LogsFailure
  <2>2. /\ quit' = quit /\ listener_socket' \in {listener_socket, TRUE}
        /\ lsock' \in {lsock, "open", "closed", "listens"}
        /\ listener' \in {"listens", "returned", "tells", "accepts", "tests", "loads", "logs"}
    BY <1>7 DEF Opens, Listens, Tells, Accepts,
       TestsQuit, LogsFailure
  <2>3. ServerTypes'
    BY <1>1, <2>1, <2>2 DEF ServerIInv, ServerTypes
  <2> QED
    BY <2>1, <2>3, <1>6
<1>8. CASE CountsConnection /\ listener = "loads"
  <2>1. /\ UNCHANGED <<client, active_conn, raced, quit, listener_socket, lsock>>
        /\ listener' = "stores" /\ loaded' = [loaded EXCEPT !["listener"] = active_conn]
    BY <1>8 DEF CountsConnection, Loads
  <2>2. ServerTypes'
    BY <1>1, <2>1 DEF ServerIInv, ServerTypes
  <2>3. CountInv'
    BY <1>2, <1>4, <1>8, <2>1 DEF ServerIInv, CountInv, Promised
  <2>4. ListenerInv'
    BY <1>8, <2>1 DEF ServerIInv, ListenerInv
  <2> QED
    BY <1>1, <1>2, <1>3, <1>4, <2>1, <2>2, <2>3, <2>4 DEF ServerIInv
<1>9. CASE CountsConnection /\ listener = "stores"
  <2>1. /\ UNCHANGED <<client, loaded, quit, listener_socket, lsock>> /\ listener' = "creates"
        /\ active_conn' = (loaded["listener"] + 1) % (SIZE_MAX + 1)
        /\ raced' = (raced \/ active_conn # loaded["listener"])
    BY <1>9 DEF CountsConnection, Stores
  <2>2. active_conn' \in 0..SIZE_MAX
    <3>1. loaded["listener"] \in 0..SIZE_MAX
      BY DEF ServerIInv, ServerTypes
    <3> QED
      BY <2>1, <3>1, ServerConstants, PlusModulo
  <2>3. ServerTypes'
    BY <1>1, <2>1, <2>2 DEF ServerIInv, ServerTypes
  <2>4. ASSUME ~ raced' PROVE active_conn' = n + 1
    <3>1. ~ raced /\ loaded["listener"] = active_conn
      BY <2>1, <2>4 DEF ServerIInv, ServerTypes
    <3>2. active_conn = n
      <4>1. Promised = 0
        BY <1>9 DEF Promised
      <4> QED
        BY <3>1, <4>1, <1>5 DEF ServerIInv, CountInv, n
    <3>3. Served # Clients
      BY <1>9 DEF ServerIInv, ListenerInv, Served
    <3>4. n < Cardinality(Clients)
      BY <3>3, ClientSets DEF Served, n
    <3>5. n + 1 <= SIZE_MAX
      BY <3>4, <1>5, ServerConstants
    <3> QED
      BY <2>1, <3>1, <3>2, <3>5, <1>5, ServerConstants, PlusModulo
  <2>5. CountInv'
    BY <1>2, <1>4, <2>1, <2>4 DEF CountInv, Promised, n
  <2>6. ListenerInv'
    BY <1>9, <2>1 DEF ServerIInv, ListenerInv
  <2> QED
    BY <1>1, <1>2, <1>3, <1>4, <2>1, <2>3, <2>5, <2>6 DEF ServerIInv
<1>10. CASE CreatesClient
  <2>1. /\ UNCHANGED <<active_conn, loaded, raced, quit, listener_socket, lsock>>
        /\ listener = "creates" /\ listener' = "accepts"
    BY <1>10 DEF CreatesClient
  <2>2. PICK c \in Clients : client[c] = "none" /\ client' = [client EXCEPT ![c] = "numbers"]
    BY <1>10 DEF CreatesClient
  <2>3. client \in [Clients -> Places]
    BY DEF ServerIInv, ServerTypes
  <2>4. ServerTypes'
    BY <1>1, <2>1, <2>2, <2>3 DEF ServerIInv, ServerTypes, Places
  <2>5. \A d \in Clients : client'[d] = IF d = c THEN "numbers" ELSE client[d]
    BY <2>2, <2>3
  <2>6. Numbered' = Numbered
    BY <2>2, <2>5 DEF Numbered
  <2>7. Served' = Served \cup {c} /\ c \notin Served
    BY <2>2, <2>5 DEF Served
  <2>8. Cardinality(Served') = n + 1
    BY <2>7, ClientSets DEF Served, n
  <2>9. CountInv'
    BY <1>2, <2>1, <2>8, <1>5 DEF ServerIInv, CountInv, Promised, n
  <2>10. ListenerInv' /\ SectionInv'
    BY <2>1, <2>5 DEF ServerIInv, ListenerInv, SectionInv
  <2> QED
    BY <1>1, <1>2, <1>3, <2>4, <2>6, <2>9, <2>10 DEF ServerIInv
<1> QED
  BY <1>7, <1>8, <1>9, <1>10 DEF Listener, CountsConnection

\* A client that goes on without a look at the count.
LEMMA ClientWorks ==
  ASSUME ServerIInv, NEW c \in Clients,
         Numbers(c) \/ Logs(c) \/ Serves(c) \/ LoadsCount(c)
  PROVE  ServerIInv'
<1> USE DEF conn_vars, log_vars
<1>1. PICK from \in Places \ {"none", "done"}, to \in Places \ {"none", "numbers", "done"} :
        /\ Goes(c, from, to)
        /\ from = "numbers" => Numbers(c)
        /\ from # "numbers" => conn_id_counter' = conn_id_counter
        /\ to = "stores" => mx_free
  BY DEF Numbers, Logs, Serves, LoadsCount, Goes, Places
<1>2. UNCHANGED <<quit, listener_socket, active_conn, raced, console, listener, lsock>>
  BY DEF Numbers, Logs, Serves, LoadsCount, Loads
<1>3. /\ client' \in [Clients -> Places]
      /\ client[c] = from
      /\ \A d \in Clients : client'[d] = IF d = c THEN to ELSE client[d]
      /\ ListenerInv'
      /\ to # "stores" => SectionInv'
      /\ Served' = Served
      /\ from # "numbers" => Numbered' = Numbered
      /\ from = "numbers" => Numbered' = Numbered \cup {c}
  BY <1>1, <1>2, ClientGoesOn
<1>4. SectionInv'
  BY <1>1, <1>3 DEF SectionInv, mx_free
<1>5. loaded' \in [{"listener", "client"} -> 0..SIZE_MAX]
  BY DEF ServerIInv, ServerTypes, Numbers, Logs, Serves,
     LoadsCount, Loads
<1>6. ServerTypes'
  BY <1>2, <1>3, <1>5 DEF ServerIInv, ServerTypes
<1>7. LogTypes'
  <2>1. CASE UNCHANGED <<log, logcount>>
    BY <2>1 DEF ServerIInv, LogTypes
  <2>2. CASE log_message
    <3>1. logcount' \in 1..MaxLog
      BY <2>2, ServerConstants DEF ServerIInv, LogTypes, log_message
    <3>2. log' \in Seq(1..MaxLog)
      BY <2>2, <3>1, LongerLog DEF ServerIInv, LogTypes, log_message
    <3> QED
      BY <3>1, <3>2, ServerConstants DEF LogTypes
  <2> QED
    BY <2>1, <2>2 DEF Numbers, Logs, Serves, LoadsCount
<1>8. conn_id_counter' = Cardinality(Numbered')
  <2>1. CASE from = "numbers"
    <3>1. conn_id_counter' = conn_id_counter + 1
      BY <2>1, <1>1 DEF Numbers
    <3>2. c \notin Numbered
      BY <2>1, <1>3 DEF Numbered
    <3>3. Cardinality(Numbered \cup {c}) = Cardinality(Numbered) + 1
      BY <3>2, ClientSets DEF Numbered
    <3> QED
      BY <2>1, <1>3, <3>1, <3>3 DEF ServerIInv
  <2>2. CASE from # "numbers"
    BY <2>2, <1>1, <1>3 DEF ServerIInv
  <2> QED
    BY <2>1, <2>2
<1>9. ConsoleInv' /\ CountInv'
  BY <1>2, <1>3 DEF ServerIInv, ConsoleInv, CountInv, Promised
<1> QED
  BY <1>3, <1>4, <1>6, <1>7, <1>8, <1>9 DEF ServerIInv

\* The end of a client: it stores the count and wakes the console.
LEMMA StoresCountKeeps ==
  ASSUME ServerIInv, NEW c \in Clients, StoresCount(c)
  PROVE  ServerIInv'
<1>1. /\ Goes(c, "stores", "done")
      /\ active_conn' = (loaded["client"] + SIZE_MAX) % (SIZE_MAX + 1)
      /\ raced' = (raced \/ active_conn # loaded["client"])
      /\ console' = IF console = "sleeps" THEN "counts" ELSE console
      /\ UNCHANGED <<loaded, quit, listener_socket, conn_id_counter, log, logcount,
                     listener, lsock>>
  BY DEF StoresCount, Stores, Wakes, log_vars
<1>2. /\ client' \in [Clients -> Places] /\ client[c] = "stores"
      /\ ListenerInv' /\ SectionInv'
      /\ Served' = Served \ {c}
      /\ Numbered' = Numbered
  BY <1>1, ClientGoesOn DEF Places
<1>3. loaded["client"] \in 0..SIZE_MAX /\ SIZE_MAX \in Nat
  BY ServerConstants DEF ServerIInv, ServerTypes
<1>4. active_conn' = IF loaded["client"] = 0 THEN SIZE_MAX ELSE loaded["client"] - 1
  BY <1>1, <1>3, PlusModulo
<1>5. active_conn' \in 0..SIZE_MAX
  BY <1>3, <1>4
<1>6. ServerTypes' /\ LogTypes'
  BY <1>1, <1>2, <1>5 DEF ServerIInv, ServerTypes, LogTypes
<1>7. ConsoleInv'
  BY <1>1 DEF ServerIInv, ConsoleInv
<1>8. CountInv'
  <2>1. SUFFICES ASSUME ~ raced'
                 PROVE  /\ active_conn' = Cardinality(Served \ {c}) + Promised
                        /\ console \in {"truncates", "left"} => Served = {}
    BY <1>1, <1>2 DEF CountInv, Promised
  <2>2. /\ active_conn = Cardinality(Served) + Promised
        /\ console \in {"truncates", "left"} => Served = {}
        /\ active_conn = loaded["client"]
    BY <1>1, <2>1 DEF ServerIInv, CountInv, ServerTypes
  <2>3. c \in Served /\ Served \in SUBSET Clients
    BY <1>2 DEF Served
  <2>4. /\ Cardinality(Served) \in Nat
        /\ Cardinality(Served) # 0
        /\ Cardinality(Served \ {c}) = Cardinality(Served) - 1
    BY <2>3, ClientSets
  <2>5. Promised \in Nat
    BY DEF Promised
  <2> QED
    BY <2>2, <2>4, <2>5, <1>4
<1> QED
  BY <1>1, <1>2, <1>6, <1>7, <1>8 DEF ServerIInv

LEMMA ServerKeeps ==
  ASSUME ServerIInv, [RsrvNext]_rsrv_vars
  PROVE  ServerIInv'
<1>1. CASE RsrvNext
  BY <1>1, ConsoleKeeps, ListenerKeeps, ClientWorks, StoresCountKeeps
  DEF RsrvNext, Client
<1>2. CASE UNCHANGED rsrv_vars
  <2>1. UNCHANGED <<quit, listener_socket, active_conn, loaded, raced, conn_id_counter,
                    log, logcount, console, listener, client, lsock>>
    BY <1>2 DEF rsrv_vars, conn_vars, log_vars
  <2>2. Numbered' = Numbered /\ Served' = Served /\ Promised' = Promised
        /\ ListenerInv' /\ SectionInv'
    BY <2>1, CountStays
  <2>3. ServerTypes' /\ LogTypes' /\ ConsoleInv'
    BY <2>1 DEF ServerIInv, ServerTypes, LogTypes, ConsoleInv
  <2>4. CountInv'
    BY <2>1, <2>2 DEF ServerIInv, CountInv
  <2> QED
    BY <2>1, <2>2, <2>3, <2>4 DEF ServerIInv
<1> QED
  BY <1>1, <1>2

\* The strengthened invariant holds in every reachable state of the server.
THEOREM ServerInvariantHolds ==
  RsrvSpec => []ServerIInv
<1>1. RsrvInit => ServerIInv
  BY ServerInit
<1>2. ServerIInv /\ [RsrvNext]_rsrv_vars => ServerIInv'
  BY ServerKeeps
<1> QED
  BY <1>1, <1>2, PTL DEF RsrvSpec

\* Every global of the server keeps its type, and conn_id_counter is the number
\* of connections that have taken a number: none of them raised it twice.
THEOREM ServerTypeCorrect ==
  RsrvSpec => [](RsrvTypeOK /\ conn_id_counter = Cardinality(Numbered))
<1>1. ServerIInv => RsrvTypeOK /\ conn_id_counter = Cardinality(Numbered)
  <2> SUFFICES ASSUME ServerIInv
               PROVE  RsrvTypeOK /\ conn_id_counter = Cardinality(Numbered)
    OBVIOUS
  <2>1. Cardinality(Numbered) \in 0..Cardinality(Clients)
    BY ClientSets, ServerConstants DEF Numbered
  <2>2. conn_id_counter \in 0..Cardinality(Clients)
    BY <2>1 DEF ServerIInv
  <2>3. RsrvTypeOK
    BY <2>2 DEF ServerIInv, ServerTypes, LogTypes, Places, RsrvTypeOK
  <2> QED
    BY <2>3 DEF ServerIInv
<1> QED
  BY <1>1, ServerInvariantHolds, PTL

\* RemoteServer() returns after "q" only when the listener and all clients are
\* done with its globals, as long as no update of active_conn was lost.
THEOREM ServerLeavesNobody ==
  RsrvSpec => []LeavesNobodyBehind
<1>1. ServerIInv => LeavesNobodyBehind
  BY DEF ServerIInv, ConsoleInv, CountInv, LeavesNobodyBehind
<1> QED
  BY <1>1, ServerInvariantHolds, PTL

\* The main thread sleeps in its loop only while active_conn is not zero,
\* whatever the race makes of the count: whoever lowers it broadcasts.  Unless
\* an update was lost, a connection is left that will do so.
THEOREM ServerConsoleIsWoken ==
  RsrvSpec => []ConsoleIsWoken
<1>1. ServerIInv => ConsoleIsWoken
  <2> SUFFICES ASSUME ServerIInv, console = "sleeps"
               PROVE  active_conn > 0 /\ (~ raced => Served # {})
    BY DEF ConsoleIsWoken
  <2>1. active_conn > 0 /\ listener = "returned"
    BY DEF ServerIInv, ConsoleInv
  <2>2. ASSUME ~ raced
        PROVE  Served # {}
    <3>1. active_conn = Cardinality(Served) + 0
      BY <2>1, <2>2 DEF ServerIInv, CountInv, Promised
    <3>2. Served = {} => Cardinality(Served) = 0
      BY FS_EmptySet, Zenon
    <3>3. Served = {} => active_conn = 0
      BY <3>1, <3>2
    <3> QED
      BY <2>1, <3>3
  <2> QED
    BY <2>1, <2>2
<1> QED
  BY <1>1, ServerInvariantHolds, PTL

-----------------------------------------------------------------------------
(***************************************************************************)
(* The serial driver and the interrupts of the machine, for any number of  *)
(* cores, threads and readers.                                             *)
(***************************************************************************)
(***************************************************************************)
(* The strengthening.  A context knows whose interrupts it dispatches      *)
(* exactly while it does; only readers are in serial_read(), and have not  *)
(* got all their bytes.                                                    *)
(***************************************************************************)
DispatchInv == \A u \in Contexts : dispatches[u] # NONE <=> at[u] = "dispatch"

ReadersInv ==
  \A t \in Threads : prog[t] \in {"polls", "waits", "asleep"} =>
    t \in Readers /\ count[t] < size

PicTypes ==
  /\ PIC_active \in BOOLEAN /\ off \in BOOLEAN /\ notified \in BOOLEAN
  /\ monitored \in BOOLEAN /\ fifo \in Nat /\ ready \in BOOLEAN

CoreTypes ==
  /\ intr_pending \in [Cores -> SUBSET Interrupts]
  /\ usr1 \in [Cores -> BOOLEAN]
  /\ timer \in [Cores -> BOOLEAN]
  /\ current \in [Cores -> Contexts]
  /\ halt_vector \subseteq Cores /\ down \subseteq Cores

ContextTypes ==
  /\ at \in [Contexts -> {"runs", "masked", "dispatch", "halts"}]
  /\ dispatches \in [Contexts -> Cores \cup {NONE}]

ThreadTypes ==
  /\ prog \in [Threads -> {"user", "polls", "waits", "asleep", "exited"}]
  /\ count \in [Threads -> 0..size]
  /\ holder \in Readers \cup {NONE}
  /\ idle \in [Cores -> {"yield", "test", "halt"}]

DriverIInv ==
  /\ PicTypes /\ CoreTypes /\ ContextTypes /\ ThreadTypes
  /\ SCHED \in Seq(Threads)
  /\ DispatchInv /\ ReadersInv

LEMMA DriverConstants ==
  /\ size \in Nat /\ size > 0
  /\ Readers \subseteq Threads /\ Mortals \subseteq Threads
  /\ Contexts = Threads \cup Cores /\ NONE \notin Contexts
  /\ IsFiniteSet(Threads) /\ Threads \cap Cores = {}
BY MachineAssumption, DriverAssumption DEF Contexts

LEMMA DriverInit ==
  ASSUME SerialInit
  PROVE  DriverIInv
<1>1. Cardinality(Threads) \in Nat
  BY DriverConstants, FS_CardinalityType
<1>2. SCHED \in Seq(Threads)
  BY <1>1 DEF SerialInit
<1>3. /\ intr_pending = [c \in Cores |-> {}]
      /\ usr1 = [c \in Cores |-> FALSE]
      /\ timer = [c \in Cores |-> FALSE]
      /\ current = [c \in Cores |-> c]
      /\ halt_vector = {} /\ down = {}
      /\ at = [u \in Contexts |-> "runs"]
      /\ dispatches = [u \in Contexts |-> NONE]
      /\ PIC_active = TRUE /\ off = FALSE
      /\ notified = FALSE /\ monitored = TRUE
      /\ fifo = 0 /\ ready = FALSE
  BY DEF SerialInit, MachineInit
<1>4. /\ prog = [t \in Threads |-> "user"]
      /\ count = [t \in Threads |-> 0]
      /\ holder = NONE
      /\ idle = [c \in Cores |-> "yield"]
  BY DEF SerialInit
<1>5. PicTypes
  BY <1>3 DEF PicTypes
<1>6. CoreTypes /\ ContextTypes
  BY <1>3, DriverConstants DEF CoreTypes, ContextTypes
<1>7. ThreadTypes
  BY <1>4, DriverConstants DEF ThreadTypes
<1>8. DispatchInv /\ ReadersInv
  BY <1>3, <1>4 DEF DispatchInv, ReadersInv
<1> QED
  BY <1>2, <1>5, <1>6, <1>7, <1>8 DEF DriverIInv

-----------------------------------------------------------------------------
\* What the interrupts of a core may do in a step that does not touch the
\* context that dispatches them: a new one comes with a signal.
SignalsKept ==
  /\ dispatches' = dispatches
  /\ \A c \in Cores : /\ usr1[c] => usr1'[c]
                      /\ intr_pending'[c] \subseteq intr_pending[c] \/ usr1'[c]

LEMMA YieldTyped ==
  ASSUME DriverIInv, NEW c \in Cores, NEW stays \in BOOLEAN,
         Yield(c, SCHED, stays)
  PROVE  /\ current' \in [Cores -> Contexts]
         /\ SCHED' \in Seq(Threads)
         /\ timer' \in [Cores -> BOOLEAN]
         /\ halt_vector' \subseteq Cores
         /\ usr1' \in [Cores -> BOOLEAN]
         /\ \A d \in Cores : usr1[d] => usr1'[d]
<1> DEFINE retired == stays /\ current[c] \in Threads /\ Chosen(c, SCHED, stays) # current[c]
<1>1. /\ current' = [current EXCEPT ![c] = Chosen(c, SCHED, stays)]
      /\ SCHED' = (IF SCHED = << >> THEN SCHED ELSE Tail(SCHED)) \o
                  (IF retired THEN <<current[c]>> ELSE << >>)
      /\ timer' = [timer EXCEPT ![c] = TRUE]
      /\ Restarts(IF retired THEN RestartedOne ELSE {})
  BY DEF Yield, SetsTimer
<1>2. SCHED \in Seq(Threads) /\ current \in [Cores -> Contexts] /\ timer \in [Cores -> BOOLEAN]
      /\ usr1 \in [Cores -> BOOLEAN] /\ halt_vector \subseteq Cores
  BY DEF DriverIInv, CoreTypes
<1>3. Chosen(c, SCHED, stays) \in Contexts
  <2>1. CASE SCHED = << >>
    BY <2>1, <1>2, DriverConstants DEF Chosen
  <2>2. CASE SCHED # << >>
    <3>1. Head(SCHED) \in Threads
      BY <2>2, <1>2
    <3> QED
      BY <2>2, <3>1, DriverConstants DEF Chosen
  <2> QED
    BY <2>1, <2>2
<1>4. current' \in [Cores -> Contexts] /\ timer' \in [Cores -> BOOLEAN]
  BY <1>1, <1>2, <1>3
<1>5. SCHED' \in Seq(Threads)
  <2>1. (IF SCHED = << >> THEN SCHED ELSE Tail(SCHED)) \in Seq(Threads)
    BY <1>2
  <2>2. (IF retired THEN <<current[c]>> ELSE << >>) \in Seq(Threads)
    OBVIOUS
  <2> QED
    BY <1>1, <2>1, <2>2
<1>6. /\ halt_vector' \subseteq Cores /\ usr1' \in [Cores -> BOOLEAN]
      /\ \A d \in Cores : usr1[d] => usr1'[d]
  BY <1>1, <1>2 DEF Restarts
<1> QED
  BY <1>4, <1>5, <1>6

LEMMA FetchesTyped ==
  ASSUME DriverIInv, NEW c \in Cores, NEW i, Fetches(c, i)
  PROVE  /\ intr_pending' \in [Cores -> SUBSET Interrupts]
         /\ \A d \in Cores : intr_pending'[d] \subseteq intr_pending[d]
BY DEF DriverIInv, CoreTypes, Fetches

LEMMA PicKeeps ==
  ASSUME DriverIInv, PicStep, UNCHANGED kernel_vars
  PROVE  DriverIInv' /\ SignalsKept
<1>1. PICK cs \in SUBSET Cores, late \in BOOLEAN : PicRound(cs, late)
  BY DEF PicStep
<1> DEFINE is == [c \in Cores |->
                    (IF c \in cs THEN {"ALARM"} ELSE {}) \cup
                    (IF c = 0 /\ IsDue(late) THEN {"SERIAL_RX_READY"} ELSE {})]
<1>2. /\ intr_pending' = [c \in Cores |-> intr_pending[c] \cup is[c]]
      /\ usr1' = [c \in Cores |-> usr1[c] \/ is[c] \ intr_pending[c] # {}]
      /\ timer' = [c \in Cores |-> timer[c] /\ c \notin cs]
  BY <1>1 DEF PicRound, Signalled
<1>3. /\ ready' = (ready \/ IsDue(late))
      /\ notified' = FALSE /\ monitored' = ~ ready' /\ off' = ~ PIC_active
      /\ UNCHANGED <<current, halt_vector, down, at, dispatches, PIC_active, fifo,
                     SCHED, prog, count, holder, idle>>
  BY <1>1 DEF PicRound, context_vars, kernel_vars
<1>4. \A c \in Cores : is[c] \in SUBSET Interrupts
  BY DEF Interrupts
<1> HIDE DEF is
<1>5. intr_pending' \in [Cores -> SUBSET Interrupts]
  BY <1>2, <1>4 DEF DriverIInv, CoreTypes
<1>6. CoreTypes'
  BY <1>2, <1>3, <1>5 DEF DriverIInv, CoreTypes
<1>7. PicTypes'
  BY <1>3 DEF DriverIInv, PicTypes, IsDue
<1>8. ContextTypes' /\ ThreadTypes' /\ SCHED' \in Seq(Threads) /\ DispatchInv' /\ ReadersInv'
  BY <1>3 DEF DriverIInv, ContextTypes, ThreadTypes, DispatchInv, ReadersInv
<1>9. SignalsKept
  BY <1>2, <1>3 DEF SignalsKept
<1> QED
  BY <1>6, <1>7, <1>8, <1>9 DEF DriverIInv

\* The context that takes the signal is the one that dispatches.
LEMMA TakesSignalKeeps ==
  ASSUME DriverIInv, NEW c \in Cores, TakesSignal(c),
         UNCHANGED kernel_vars
  PROVE  DriverIInv'
<1>1. /\ at' = [at EXCEPT ![current[c]] = "dispatch"]
      /\ dispatches' = [dispatches EXCEPT ![current[c]] = c]
      /\ usr1' = [usr1 EXCEPT ![c] = FALSE]
      /\ UNCHANGED <<intr_pending, timer, current, halt_vector, down,
                     PIC_active, off, notified, monitored, fifo, ready,
                     SCHED, prog, count, holder, idle>>
  BY DEF TakesSignal, pic_vars, device_vars, kernel_vars
<1>2. PicTypes' /\ CoreTypes' /\ ThreadTypes' /\ SCHED' \in Seq(Threads) /\ ReadersInv'
  BY <1>1 DEF DriverIInv, PicTypes, CoreTypes, ThreadTypes, ReadersInv
<1>3. ContextTypes'
  BY <1>1 DEF DriverIInv, ContextTypes
<1>4. c # NONE
  BY DriverConstants
<1>5. DispatchInv'
  BY <1>1, <1>4 DEF DriverIInv, ContextTypes, DispatchInv
<1> QED
  BY <1>2, <1>3, <1>5 DEF DriverIInv

LEMMA ReturnsKeeps ==
  ASSUME DriverIInv, NEW c \in Cores, Returns(c), UNCHANGED kernel_vars
  PROVE  DriverIInv'
<1>1. /\ at' = [at EXCEPT ![current[c]] = "runs"]
      /\ dispatches' = [dispatches EXCEPT ![current[c]] = NONE]
      /\ halt_vector' = halt_vector \ {current[c]}
      /\ UNCHANGED <<intr_pending, usr1, timer, current, down,
                     PIC_active, off, notified, monitored, fifo, ready,
                     SCHED, prog, count, holder, idle>>
  BY DEF Returns, pic_vars, device_vars, kernel_vars
<1>2. PicTypes' /\ CoreTypes' /\ ThreadTypes' /\ SCHED' \in Seq(Threads) /\ ReadersInv'
  BY <1>1 DEF DriverIInv, PicTypes, CoreTypes, ThreadTypes, ReadersInv
<1>3. ContextTypes'
  BY <1>1 DEF DriverIInv, ContextTypes
<1>4. DispatchInv'
  BY <1>1 DEF DriverIInv, ContextTypes, DispatchInv
<1> QED
  BY <1>2, <1>3, <1>4 DEF DriverIInv

LEMMA IgnoresKeeps ==
  ASSUME DriverIInv, NEW c \in Cores, Ignores(c), UNCHANGED kernel_vars
  PROVE  DriverIInv' /\ SignalsKept
<1>1. /\ intr_pending' \in [Cores -> SUBSET Interrupts]
      /\ \A d \in Cores : intr_pending'[d] \subseteq intr_pending[d]
  BY FetchesTyped DEF Ignores
<1>2. UNCHANGED <<usr1, timer, current, halt_vector, down, at, dispatches,
                  PIC_active, off, notified, monitored, fifo, ready,
                  SCHED, prog, count, holder, idle>>
  BY DEF Ignores, context_vars, pic_vars, device_vars,
     kernel_vars
<1>3. SignalsKept
  BY <1>1, <1>2 DEF SignalsKept
<1> QED
  BY <1>1, <1>2, <1>3 DEF DriverIInv, PicTypes, CoreTypes, ContextTypes, ThreadTypes,
     DispatchInv, ReadersInv

LEMMA HandlesAlarmKeeps ==
  ASSUME DriverIInv, NEW c \in Cores, HandlesAlarm(c)
  PROVE  DriverIInv' /\ SignalsKept
<1>1. Fetches(c, "ALARM") /\ Yield(c, SCHED, TRUE)
  BY DEF HandlesAlarm
<1>2. UNCHANGED <<down, at, dispatches, PIC_active, off, notified, monitored,
                  fifo, ready, prog, count, holder, idle>>
  BY DEF HandlesAlarm, context_vars, pic_vars, device_vars
<1>3. /\ intr_pending' \in [Cores -> SUBSET Interrupts]
      /\ \A d \in Cores : intr_pending'[d] \subseteq intr_pending[d]
  BY <1>1, FetchesTyped
<1>4. /\ current' \in [Cores -> Contexts] /\ SCHED' \in Seq(Threads)
      /\ timer' \in [Cores -> BOOLEAN] /\ halt_vector' \subseteq Cores
      /\ usr1' \in [Cores -> BOOLEAN] /\ \A d \in Cores : usr1[d] => usr1'[d]
  BY <1>1, YieldTyped
<1>5. SignalsKept
  BY <1>2, <1>3, <1>4 DEF SignalsKept
<1> QED
  BY <1>2, <1>3, <1>4, <1>5 DEF DriverIInv, PicTypes, CoreTypes, ContextTypes,
     ThreadTypes, DispatchInv, ReadersInv

LEMMA HandlesRxKeeps ==
  ASSUME DriverIInv, NEW c \in Cores, HandlesRx(c)
  PROVE  DriverIInv' /\ SignalsKept
<1>1. UNCHANGED <<timer, current, down, at, dispatches, PIC_active, off, notified,
                  monitored, fifo, ready, count, holder, idle>>
  BY DEF HandlesRx, context_vars, pic_vars, device_vars
<1>2. /\ intr_pending' \in [Cores -> SUBSET Interrupts]
      /\ \A d \in Cores : intr_pending'[d] \subseteq intr_pending[d]
  BY FetchesTyped DEF HandlesRx
<1>3. /\ halt_vector' \subseteq Cores /\ usr1' \in [Cores -> BOOLEAN]
      /\ \A d \in Cores : usr1[d] => usr1'[d]
  BY DEF HandlesRx, Restarts, DriverIInv, CoreTypes
<1>4. prog' = [t \in Threads |-> IF t \in Asleep THEN "polls" ELSE prog[t]]
  BY DEF HandlesRx
<1>5. ThreadTypes' /\ ReadersInv'
  BY <1>1, <1>4 DEF DriverIInv, ThreadTypes, ReadersInv, Asleep
<1>6. SCHED' \in Seq(Threads)
  <2>1. PICK s \in SetToSeqs(Asleep) : SCHED' = SCHED \o s
    BY DEF HandlesRx
  <2>2. Asleep \subseteq Threads
    BY DEF Asleep
  <2>3. IsFiniteSet(Asleep)
    BY <2>2, DriverConstants, FS_Subset
  <2>4. Cardinality(Asleep) \in Nat
    BY <2>3, FS_CardinalityType
  <2>5. s \in [1..Cardinality(Asleep) -> Asleep]
    BY <2>1 DEF SetToSeqs
  <2>6. s \in Seq(Threads)
    BY <2>2, <2>4, <2>5
  <2> QED
    BY <2>1, <2>6 DEF DriverIInv
<1>7. SignalsKept
  BY <1>1, <1>2, <1>3 DEF SignalsKept
<1> QED
  BY <1>1, <1>2, <1>3, <1>5, <1>6, <1>7 DEF DriverIInv, PicTypes, CoreTypes, ContextTypes,
     DispatchInv

\* The steps of a thread by which it does not leave its core.
LEMMA CallsKeeps ==
  ASSUME DriverIInv, NEW c \in Cores, Calls(c)
  PROVE  DriverIInv' /\ SignalsKept
<1> DEFINE t == current[c]
<1>1. /\ t \in Readers /\ at[t] = "runs"
      /\ at' = [at EXCEPT ![t] = "masked"]
      /\ prog' = [prog EXCEPT ![t] = "polls"]
      /\ count' = [count EXCEPT ![t] = 0]
      /\ holder' = t
      /\ UNCHANGED <<intr_pending, usr1, timer, current, halt_vector, down, dispatches,
                     PIC_active, off, notified, monitored, fifo, ready, SCHED, idle>>
  BY DEF Calls, core_vars, pic_vars, device_vars
<1>2. t \in Threads /\ t \in Contexts /\ size \in Nat /\ size > 0
  BY <1>1, DriverConstants
<1> HIDE DEF t
<1>3. ContextTypes' /\ DispatchInv'
  BY <1>1, <1>2 DEF DriverIInv, ContextTypes, DispatchInv
<1>4. ThreadTypes'
  BY <1>1, <1>2 DEF DriverIInv, ThreadTypes
<1>5. ReadersInv'
  BY <1>1, <1>2 DEF DriverIInv, ThreadTypes, ReadersInv
<1>6. SignalsKept
  BY <1>1 DEF SignalsKept
<1> QED
  BY <1>1, <1>3, <1>4, <1>5, <1>6 DEF DriverIInv, PicTypes, CoreTypes

LEMMA PollsKeeps ==
  ASSUME DriverIInv, NEW c \in Cores, Polls(c)
  PROVE  DriverIInv' /\ SignalsKept
<1> DEFINE t == current[c]
<1>1. /\ t \in Threads /\ at[t] = "masked" /\ prog[t] = "polls"
      /\ UNCHANGED <<intr_pending, usr1, timer, current, halt_vector, down, dispatches,
                     PIC_active, off, monitored, SCHED, idle>>
      /\ \/ ReadsByte /\ count' = [count EXCEPT ![t] = @ + 1]
         \/ ReadsNothing /\ count' = count
  BY DEF Polls, core_vars
<1>2. \/ /\ at' = [at EXCEPT ![t] = "runs"]
         /\ prog' = [prog EXCEPT ![t] = "user"]
         /\ holder' = NONE
      \/ /\ at' = at /\ prog' = prog /\ holder' = t /\ count'[t] < size
      \/ /\ at' = at /\ prog' = [prog EXCEPT ![t] = "waits"] /\ holder' = t
         /\ count' = count
  BY DEF Polls
<1>3. /\ t \in Readers /\ count[t] < size /\ t \in Contexts
      /\ size \in Nat /\ count[t] \in Nat /\ count \in [Threads -> 0..size]
  BY <1>1, DriverConstants DEF DriverIInv, ReadersInv, ThreadTypes
<1> HIDE DEF t
<1>4. count' \in [Threads -> 0..size] /\ \A u \in Threads : u # t => count'[u] = count[u]
  BY <1>1, <1>3
<1>5. ContextTypes' /\ DispatchInv'
  BY <1>1, <1>2, <1>3 DEF DriverIInv, ContextTypes, DispatchInv
<1>6. ThreadTypes'
  BY <1>1, <1>2, <1>3, <1>4 DEF DriverIInv, ThreadTypes
<1>7. ReadersInv'
  <2>1. prog \in [Threads -> {"user", "polls", "waits", "asleep", "exited"}]
    BY DEF DriverIInv, ThreadTypes
  <2> QED
    BY <1>1, <1>2, <1>3, <1>4, <2>1 DEF DriverIInv, ReadersInv
<1>8. PicTypes'
  <2>1. fifo' \in Nat
    BY <1>1 DEF DriverIInv, PicTypes, ReadsByte, ReadsNothing
  <2>2. ready' \in BOOLEAN /\ notified' \in BOOLEAN
    BY <1>1, Zenon DEF DriverIInv, PicTypes, ReadsByte, ReadsNothing
  <2> QED
    BY <1>1, <2>1, <2>2 DEF DriverIInv, PicTypes
<1>9. SignalsKept
  BY <1>1 DEF SignalsKept
<1> QED
  BY <1>1, <1>5, <1>6, <1>7, <1>8, <1>9 DEF DriverIInv, CoreTypes

\* The steps by which a thread, or the idle context, goes to the scheduler.
LEMMA YieldingKeeps ==
  ASSUME DriverIInv, NEW c \in Cores,
         FallsAsleep(c) \/ Exits(c) \/ IdleYields(c)
  PROVE  DriverIInv' /\ SignalsKept
<1>1. /\ UNCHANGED <<intr_pending, down, at, dispatches, PIC_active, off, notified,
                     monitored, fifo, ready, count>>
      /\ \E stays \in BOOLEAN : Yield(c, SCHED, stays)
  BY DEF FallsAsleep, Exits, IdleYields, context_vars,
     pic_vars, device_vars
<1>2. /\ current' \in [Cores -> Contexts] /\ SCHED' \in Seq(Threads)
      /\ timer' \in [Cores -> BOOLEAN] /\ halt_vector' \subseteq Cores
      /\ usr1' \in [Cores -> BOOLEAN] /\ \A d \in Cores : usr1[d] => usr1'[d]
  BY <1>1, YieldTyped
<1>3. \/ /\ current[c] \in Threads /\ prog[current[c]] = "waits"
         /\ prog' = [prog EXCEPT ![current[c]] = "asleep"]
         /\ holder' = NONE /\ idle' = idle
      \/ /\ current[c] \in Threads
         /\ prog' = [prog EXCEPT ![current[c]] = "exited"]
         /\ holder' = holder /\ idle' = idle
      \/ /\ prog' = prog /\ holder' = holder
         /\ idle' = [idle EXCEPT ![c] = "test"]
  BY DriverConstants DEF FallsAsleep, Exits, IdleYields
<1>4. ThreadTypes'
  BY <1>1, <1>3 DEF DriverIInv, ThreadTypes
<1>5. ReadersInv'
  BY <1>1, <1>3 DEF DriverIInv, ThreadTypes, ReadersInv
<1>6. SignalsKept
  BY <1>1, <1>2 DEF SignalsKept
<1> QED
  BY <1>1, <1>2, <1>4, <1>5, <1>6 DEF DriverIInv, PicTypes, CoreTypes, ContextTypes,
     DispatchInv

LEMMA IdleTestsKeeps ==
  ASSUME DriverIInv, NEW c \in Cores, IdleTests(c)
  PROVE  DriverIInv' /\ SignalsKept
<1>1. UNCHANGED <<SCHED, prog, count, holder, intr_pending, current, at, dispatches,
                  fifo, ready, off, monitored>>
  BY DEF IdleTests, ShutsDown, machine_vars, core_vars,
     context_vars, pic_vars, device_vars
<1>2. CASE UNCHANGED machine_vars /\ idle' = [idle EXCEPT ![c] = "halt"]
  <2>1. UNCHANGED <<usr1, timer, halt_vector, down, PIC_active, notified>>
    BY <1>2 DEF machine_vars, core_vars, pic_vars
  <2> QED
    BY <1>1, <1>2, <2>1 DEF DriverIInv, PicTypes, CoreTypes, ContextTypes, ThreadTypes,
       DispatchInv, ReadersInv, SignalsKept
<1>3. CASE ShutsDown(c) /\ idle' = idle
  <2>1. /\ timer' = [timer EXCEPT ![c] = FALSE]
        /\ halt_vector' = halt_vector \ halt_vector
        /\ usr1' = [d \in Cores |-> usr1[d] \/ d \in halt_vector]
        /\ down' = down \cup {c}
        /\ PIC_active' = (down' # Cores)
        /\ notified' = (notified \/ down' = Cores)
    BY <1>3 DEF ShutsDown, Restarts
  <2>2. CoreTypes'
    BY <1>1, <2>1 DEF DriverIInv, CoreTypes
  <2>3. PicTypes'
    BY <1>1, <2>1 DEF DriverIInv, PicTypes
  <2>4. SignalsKept
    BY <1>1, <2>1 DEF SignalsKept
  <2> QED
    BY <1>1, <1>3, <2>2, <2>3, <2>4 DEF DriverIInv, ContextTypes, ThreadTypes,
       DispatchInv, ReadersInv
<1> QED
  BY <1>2, <1>3 DEF IdleTests

LEMMA IdleHaltsKeeps ==
  ASSUME DriverIInv, NEW c \in Cores, IdleHalts(c)
  PROVE  DriverIInv' /\ SignalsKept
<1>1. /\ at[c] = "runs" /\ at' = [at EXCEPT ![c] = "halts"]
      /\ halt_vector' = halt_vector \cup {c}
      /\ idle' = [idle EXCEPT ![c] = "yield"]
      /\ UNCHANGED <<SCHED, prog, count, holder, intr_pending, usr1, timer, current, down,
                     dispatches, PIC_active, off, notified, monitored, fifo, ready>>
  BY DEF IdleHalts, Halts, Idles, pic_vars, device_vars
<1>2. ContextTypes' /\ DispatchInv'
  BY <1>1 DEF DriverIInv, ContextTypes, DispatchInv
<1> QED
  BY <1>1, <1>2 DEF DriverIInv, PicTypes, CoreTypes, ThreadTypes, ReadersInv, SignalsKept

LEMMA TypesKeeps ==
  ASSUME DriverIInv, Types
  PROVE  DriverIInv' /\ SignalsKept
<1>1. /\ fifo' = fifo + 1
      /\ UNCHANGED <<SCHED, prog, count, holder, idle, intr_pending, usr1, timer, current,
                     halt_vector, down, at, dispatches, PIC_active, off, notified,
                     monitored, ready>>
  BY DEF Types, core_vars, context_vars, pic_vars,
     kernel_vars
<1> QED
  BY <1>1 DEF DriverIInv, PicTypes, CoreTypes, ContextTypes, ThreadTypes,
     DispatchInv, ReadersInv, SignalsKept

-----------------------------------------------------------------------------
\* A core begins or ends to dispatch, or signals are kept.
LEMMA DriverKeeps ==
  ASSUME DriverIInv, [Step]_serial_vars
  PROVE  /\ DriverIInv'
         /\ \/ SignalsKept
            \/ \E c \in Cores : TakesSignal(c) \/ Returns(c)
<1>1. CASE PicStep /\ UNCHANGED kernel_vars
  BY <1>1, PicKeeps
<1>2. ASSUME NEW c \in Cores, CoreStep(c)
      PROVE  /\ DriverIInv'
             /\ SignalsKept \/ TakesSignal(c) \/ Returns(c)
  BY <1>2, TakesSignalKeeps, ReturnsKeeps, IgnoresKeeps, HandlesAlarmKeeps, HandlesRxKeeps,
     PollsKeeps, YieldingKeeps DEF CoreStep
<1>3. ASSUME NEW c \in Cores, IdleStep(c) \/ Calls(c) \/ Exits(c)
      PROVE  DriverIInv' /\ SignalsKept
  BY <1>3, YieldingKeeps, IdleTestsKeeps, IdleHaltsKeeps, CallsKeeps DEF IdleStep
<1>4. CASE Types
  BY <1>4, TypesKeeps
<1>5. CASE UNCHANGED serial_vars
  <2>1. UNCHANGED <<SCHED, prog, count, holder, idle, intr_pending, usr1, timer, current,
                    halt_vector, down, at, dispatches, PIC_active, off, notified,
                    monitored, fifo, ready>>
    BY <1>5 DEF serial_vars, machine_vars, core_vars, context_vars,
       pic_vars, device_vars, kernel_vars
  <2> QED
    BY <2>1 DEF DriverIInv, PicTypes, CoreTypes, ContextTypes, ThreadTypes,
       DispatchInv, ReadersInv, SignalsKept
<1>6. ASSUME Step
      PROVE  \/ PicStep /\ UNCHANGED kernel_vars
             \/ \E c \in Cores : CoreStep(c) \/ IdleStep(c) \/ Calls(c) \/ Exits(c)
             \/ Types
  BY <1>6 DEF Step
<1> QED
  BY <1>1, <1>2, <1>3, <1>4, <1>5, <1>6

\* What an interrupt needs in order not to be lost.
LEMMA CoverIsKept ==
  ASSUME DriverIInv, [Step]_serial_vars, NEW c \in Cores,
         Covered(c), ~ Covered(c)'
  PROVE  \E d \in Cores \ {c} : dispatches[current[d]] = c
<1>1. ~ SignalsKept
  BY DEF SignalsKept, Covered
<1>2. PICK d \in Cores : TakesSignal(d) \/ Returns(d)
  BY <1>1, DriverKeeps
<1>3. current[d] \in Contexts /\ dispatches \in [Contexts -> Cores \cup {NONE}]
      /\ usr1 \in [Cores -> BOOLEAN] /\ c # NONE
  BY DriverConstants DEF DriverIInv, CoreTypes, ContextTypes
<1>4. CASE TakesSignal(d)
  <2>1. /\ at[current[d]] \in {"runs", "halts"}
        /\ dispatches' = [dispatches EXCEPT ![current[d]] = d]
        /\ usr1' = [usr1 EXCEPT ![d] = FALSE]
        /\ intr_pending' = intr_pending
    BY <1>4 DEF TakesSignal
  <2>2. dispatches[current[d]] = NONE
    BY <1>3, <2>1 DEF DriverIInv, DispatchInv
  <2>3. CASE d = c
    BY <1>3, <2>1, <2>3 DEF Covered
  <2>4. CASE d # c
    BY <1>3, <2>1, <2>2, <2>4 DEF Covered
  <2> QED
    BY <2>3, <2>4
<1>5. CASE Returns(d)
  <2>1. /\ at[current[d]] = "dispatch" /\ ~ GoesOn(d)
        /\ dispatches' = [dispatches EXCEPT ![current[d]] = NONE]
        /\ UNCHANGED <<intr_pending, usr1>>
    BY <1>5 DEF Returns
  <2>2. dispatches[current[d]] = c
    BY <1>3, <2>1 DEF Covered
  <2>3. d # c
    BY <2>1, <2>2 DEF GoesOn, Covered
  <2> QED
    BY <2>2, <2>3
<1> QED
  BY <1>2, <1>4, <1>5

\* The strengthened invariant holds in every reachable state of the machine.
THEOREM DriverInvariantHolds ==
  SerialSpec => []DriverIInv
<1>1. SerialInit => DriverIInv
  BY DriverInit
<1>2. DriverIInv /\ [Step]_serial_vars => DriverIInv'
  BY DriverKeeps
<1> QED
  BY <1>1, <1>2, PTL DEF SerialSpec

\* The variables of machine and driver keep their types, whatever interrupts
\* come: a core always runs a context, the queue holds threads only, and no
\* Read gets more bytes than it asked for.
THEOREM DriverTypeCorrect ==
  SerialSpec => []SerialTypeOK
<1>1. DriverIInv => SerialTypeOK
  BY DEF DriverIInv, PicTypes, CoreTypes, ContextTypes, ThreadTypes,
     SerialTypeOK, MachineTypeOK
<1> QED
  BY <1>1, DriverInvariantHolds, PTL

\* A pending interrupt loses its signal, and the context that would come to
\* it, in one way only: dispatch_interrupts() of bios.c returns on another
\* core than the one it began on.
THEOREM InterruptsStayCovered ==
  SerialSpec => InterruptsAreCovered
<1>1. ASSUME DriverIInv, [Step]_serial_vars
      PROVE  [\A c \in Cores : Covered(c) /\ ~ Covered(c)' =>
                \E d \in Cores \ {c} : dispatches[current[d]] = c]_serial_vars
  BY <1>1, CoverIsKept
<1> QED
  BY <1>1, DriverInvariantHolds, PTL DEF SerialSpec, InterruptsAreCovered
=============================================================================
