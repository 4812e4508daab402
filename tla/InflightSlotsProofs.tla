------------------------ MODULE InflightSlotsProofs ------------------------
(***************************************************************************)
(* What InflightSlots guarantees for every finite set of processes, every  *)
(* cap and every bound on faults.  The argument counts: each command moves *)
(* the key and the set of processes it counts by the same amount, so what  *)
(* separates the two is only what a reset of the key or a killed process   *)
(* has left behind.                                                        *)
(***************************************************************************)
EXTENDS InflightSlots, FiniteSetTheorems, TLAPS

----------------------------------------------------------------------------
(* Counting processes                                                      *)

LEMMA SubsetsAreFinite ==
    ASSUME NEW S, S \subseteq Processes
    PROVE  IsFiniteSet(S) /\ Cardinality(S) \in Nat
  BY SlotsAssumption, FS_Subset, FS_CardinalityType

LEMMA CountsOneMore ==
    ASSUME NEW S, S \subseteq Processes, NEW p \in Processes, p \notin S
    PROVE  Cardinality(S \cup {p}) = Cardinality(S) + 1
  BY SubsetsAreFinite, FS_AddElement

LEMMA CountsOneLess ==
    ASSUME NEW S, S \subseteq Processes, NEW p \in S
    PROVE  Cardinality(S \ {p}) = Cardinality(S) - 1
  BY SubsetsAreFinite, FS_RemoveElement

LEMMA CountsNoMore ==
    ASSUME NEW S, NEW T, S \subseteq T, T \subseteq Processes
    PROVE  Cardinality(S) <= Cardinality(T)
  BY SubsetsAreFinite, FS_Subset

\* What a move of one process does to the sets the properties count.
LEMMA OneMoves ==
    ASSUME TypeOK, NEW p \in Processes,
           NEW place \in {"off", "trying", "counted", "backing", "holding", "clearing"},
           pc' = [pc EXCEPT ![p] = place]
    PROVE  /\ pc' \in [Processes -> {"off", "trying", "counted", "backing", "holding",
                                     "clearing"}]
           /\ Counted \ {p} = Counted' \ {p} /\ Admitted \ {p} = Admitted' \ {p}
           /\ p \in Counted' <=> place \in {"counted", "backing", "holding"}
           /\ p \in Admitted' <=> (place = "holding" \/ (place = "counted" /\ 1 <= Cap))
           /\ Counted \subseteq Processes /\ Counted' \subseteq Processes
           /\ Admitted \subseteq Counted /\ Admitted' \subseteq Counted'
  BY DEF TypeOK, Counted, Admitted

\* A process leaves the two sets, enters them, or moves within them.
LEMMA Leaves ==
    ASSUME NEW S, NEW T, S \subseteq Processes, T \subseteq Processes,
           NEW p \in S, p \notin T, S \ {p} = T \ {p}
    PROVE  Cardinality(T) = Cardinality(S) - 1
  <1>1. T = S \ {p}
    OBVIOUS
  <1>2. QED
    BY <1>1, CountsOneLess

LEMMA Enters ==
    ASSUME NEW S, NEW T, S \subseteq Processes, T \subseteq Processes,
           NEW p \in T, p \notin S, S \ {p} = T \ {p}
    PROVE  Cardinality(T) = Cardinality(S) + 1
  <1>1. S = T \ {p} /\ Cardinality(T) \in Nat
    BY SubsetsAreFinite
  <1>2. QED
    BY <1>1, CountsOneLess

LEMMA Stays ==
    ASSUME NEW S, NEW T, NEW p, p \in S <=> p \in T, S \ {p} = T \ {p}
    PROVE  T = S
  OBVIOUS

LEMMA Numbers ==
    ASSUME TypeOK
    PROVE  /\ Count \in Int /\ Cap \in Nat /\ faults \in Nat
           /\ Cardinality(Counted) \in Nat /\ Cardinality(Admitted) \in Nat
           /\ Cardinality(Admitted) <= Cardinality(Counted)
           /\ Counted \subseteq Processes /\ Admitted \subseteq Processes
  <1>1. Counted \subseteq Processes /\ Admitted \subseteq Counted
    BY DEF Counted, Admitted
  <1>2. QED
    BY <1>1, SubsetsAreFinite, CountsNoMore, SlotsAssumption DEF TypeOK, Count

----------------------------------------------------------------------------
(* The initial state and the steps                                         *)

LEMMA InitIInv == Init => IInv
  <1> SUFFICES ASSUME Init PROVE IInv
    OBVIOUS
  <1>1. TypeOK
    BY DEF Init, TypeOK
  <1>2. Counted = {} /\ Admitted = {} /\ Count = 0 /\ faults = 0
    BY DEF Init, Counted, Admitted, Count
  <1>3. Cardinality({}) = 0
    BY FS_EmptySet
  <1>4. QED
    BY <1>1, <1>2, <1>3, SlotsAssumption
    DEF IInv, KeyNeverOvercounts, AdmittedWithinCap, Forgotten, ExpiryArmed

\* An INCR whose result is within the cap admits the process, any other only
\* counts it.
LEMMA IncrStep ==
    ASSUME IInv, NEW p \in Processes, Incr(p)
    PROVE  IInv'
  <1> DEFINE place == IF SetsExpiry(Count + 1) THEN "counted" ELSE Judged(Count + 1)
  <1>1. /\ pc[p] = "trying" /\ key' = Count + 1
        /\ pc' = [pc EXCEPT ![p] = place]
        /\ older' \in {older, older \ {p}}
        /\ UNCHANGED <<expires, faults>>
    BY DEF Incr, Goto
  <1>2. place \in {"counted", "backing", "holding"}
    BY DEF Judged
  <1>3. Count \in Int /\ key' # NoKey /\ Count' = Count + 1
    BY <1>1, Numbers, SlotsAssumption DEF Count, IInv
  <1>4. TypeOK'
    BY <1>1, <1>2, <1>3 DEF IInv, TypeOK
  <1>5. p \notin Counted /\ p \notin Admitted
    BY <1>1 DEF Counted, Admitted
  <1>6. /\ Counted \ {p} = Counted' \ {p} /\ Admitted \ {p} = Admitted' \ {p}
        /\ p \in Counted'
        /\ p \in Admitted' <=> (place = "holding" \/ (place = "counted" /\ 1 <= Cap))
    BY <1>1, <1>2, OneMoves DEF IInv
  <1>7. Cardinality(Counted') = Cardinality(Counted) + 1
    BY <1>4, <1>5, <1>6, Enters, Numbers DEF IInv, Counted
  <1>8. KeyNeverOvercounts' /\ Forgotten' = Forgotten
    BY <1>1, <1>3, <1>4, <1>7, Numbers DEF IInv, KeyNeverOvercounts, Forgotten
  <1>9. AdmittedWithinCap'
    <2>1. CASE p \in Admitted'
      <3>1. Count + 1 <= Cap
        BY <1>3, <1>6, <2>1, Numbers DEF Judged, SetsExpiry, IInv
      <3>2. Cardinality(Admitted)' <= Cardinality(Counted)' /\ Count' <= Cap
            /\ Cardinality(Admitted)' \in Nat /\ Cardinality(Counted)' \in Nat
        <4>1. Admitted' \subseteq Counted' /\ Counted' \subseteq Processes
          BY <1>1, <1>2, OneMoves DEF IInv
        <4>2. QED
          BY <1>3, <3>1, <4>1, CountsNoMore, SubsetsAreFinite
      <3>3. QED
        BY <1>1, <1>3, <3>2, Numbers DEF AdmittedWithinCap, Forgotten, IInv
    <2>2. CASE p \notin Admitted'
      <3>1. Admitted' = Admitted
        BY <1>5, <1>6, <2>2, Stays
      <3>2. QED
        BY <1>8, <3>1 DEF AdmittedWithinCap, IInv
    <2>3. QED
      BY <2>1, <2>2
  <1>10. ExpiryArmed'
    <2>1. CASE Count > 0 /\ ~expires
      <3>1. faults > 0 \/ \E q \in Processes : pc[q] = "counted"
        BY <2>1 DEF IInv, ExpiryArmed
      <3>2. \A q \in Processes : pc[q] = "counted" => pc'[q] = "counted"
        BY <1>1 DEF IInv, TypeOK
      <3>3. QED
        BY <1>1, <3>1, <3>2 DEF ExpiryArmed
    <2>2. CASE Count = 0
      <3>1. pc'[p] = "counted"
        BY <1>1, <2>2 DEF IInv, TypeOK, SetsExpiry
      <3>2. QED
        BY <3>1 DEF ExpiryArmed
    <2>3. CASE expires
      BY <1>1, <2>3 DEF ExpiryArmed
    <2>4. CASE Count < 0
      BY <1>3, <2>4 DEF ExpiryArmed
    <2>5. QED
      BY <1>3, <2>1, <2>2, <2>3, <2>4
  <1>11. QED
    BY <1>4, <1>8, <1>9, <1>10 DEF IInv

\* EXPIRE changes neither the count nor who is counted.
LEMMA ExpireStep ==
    ASSUME IInv, NEW p \in Processes, Expire(p)
    PROVE  IInv'
  <1>1. /\ pc[p] = "counted" /\ pc' = [pc EXCEPT ![p] = Judged(1)]
        /\ UNCHANGED <<key, faults>>
        /\ key = NoKey \/ expires'
        /\ expires' \in BOOLEAN /\ older' \in SUBSET Processes
    BY DEF Expire, IInv, TypeOK
  <1>2. Judged(1) \in {"backing", "holding"} /\ (Judged(1) = "holding" <=> 1 <= Cap)
    BY SlotsAssumption DEF Judged
  <1>3. TypeOK'
    BY <1>1, <1>2 DEF IInv, TypeOK
  <1>4. Counted' = Counted /\ Admitted' = Admitted /\ Count' = Count
    BY <1>1, <1>2 DEF Counted, Admitted, Count, IInv, TypeOK
  <1>5. KeyNeverOvercounts' /\ AdmittedWithinCap'
    BY <1>1, <1>4 DEF IInv, KeyNeverOvercounts, AdmittedWithinCap, Forgotten
  <1>6. ExpiryArmed'
    BY <1>1, SlotsAssumption DEF ExpiryArmed, Count
  <1>7. QED
    BY <1>3, <1>5, <1>6 DEF IInv

\* DECR takes back one increment and the process it was counted for.
LEMMA DecrStep ==
    ASSUME IInv, NEW p \in Processes, BackOff(p) \/ Release(p)
    PROVE  IInv'
  <1>1. PICK place \in {"trying", "clearing", "off"} :
            /\ pc[p] \in {"backing", "holding"} /\ key' = Count - 1
            /\ pc' = [pc EXCEPT ![p] = place]
            /\ older' \in {older, older \ {p}}
            /\ UNCHANGED <<expires, faults>>
    BY DEF BackOff, Release, Goto
  <1>2. Count \in Int /\ key' # NoKey /\ Count' = Count - 1
    BY <1>1, Numbers, SlotsAssumption DEF Count, IInv
  <1>3. TypeOK'
    BY <1>1, <1>2 DEF IInv, TypeOK
  <1>4. /\ Counted \ {p} = Counted' \ {p} /\ Admitted \ {p} = Admitted' \ {p}
        /\ p \notin Counted' /\ p \notin Admitted'
    BY <1>1, OneMoves DEF IInv
  <1>5. p \in Counted
    BY <1>1 DEF Counted
  <1>6. Cardinality(Counted') = Cardinality(Counted) - 1
    BY <1>3, <1>4, <1>5, Leaves, Numbers DEF IInv, Counted
  <1>7. KeyNeverOvercounts' /\ Forgotten' = Forgotten
    BY <1>1, <1>2, <1>3, <1>6, Numbers DEF IInv, KeyNeverOvercounts, Forgotten
  <1>8. Cardinality(Admitted') <= Cardinality(Admitted)
    <2>1. Admitted' \subseteq Admitted /\ Admitted \subseteq Processes
      BY <1>4, Numbers DEF IInv
    <2>2. QED
      BY <2>1, CountsNoMore
  <1>9. AdmittedWithinCap'
    <2>1. Cardinality(Admitted') \in Nat
      BY <1>4, Numbers, SubsetsAreFinite DEF IInv
    <2>2. QED
      BY <1>7, <1>8, <2>1, Numbers DEF IInv, AdmittedWithinCap, Forgotten
  <1>10. ExpiryArmed'
    <2>1. \A q \in Processes : pc[q] = "counted" => pc'[q] = "counted"
      BY <1>1 DEF IInv, TypeOK
    <2>2. QED
      BY <1>1, <1>2, <2>1 DEF IInv, ExpiryArmed
  <1>11. QED
    BY <1>3, <1>7, <1>9, <1>10 DEF IInv

\* A reset of the key forgets everybody, which only weakens the claims.
LEMMA ResetStep ==
    ASSUME IInv, DeleteKey, UNCHANGED faults, older' \in SUBSET Processes,
           \/ UNCHANGED pc
           \/ \E p \in Processes : pc[p] = "clearing" /\ pc' = [pc EXCEPT ![p] = "off"]
    PROVE  IInv'
  <1>1. TypeOK' /\ Count' = 0
    BY DEF DeleteKey, IInv, TypeOK, Count
  <1>2. Counted' = Counted /\ Admitted' = Admitted
    BY DEF Counted, Admitted, IInv, TypeOK
  <1>3. QED
    BY <1>1, <1>2, Numbers
    DEF IInv, KeyNeverOvercounts, AdmittedWithinCap, Forgotten, ExpiryArmed

\* Begin, TimesOut and Dies leave the key alone.
LEMMA LeaveKeyStep ==
    ASSUME IInv, NEW p \in Processes, Begin(p) \/ TimesOut(p) \/ Dies(p)
    PROVE  IInv'
  <1>1. PICK place \in {"off", "trying"} :
            /\ pc' = [pc EXCEPT ![p] = place]
            /\ older' \in {older, older \ {p}}
            /\ UNCHANGED <<key, expires>>
    BY DEF Begin, TimesOut, Dies, Goto
  <1>2. /\ \/ pc[p] \in {"off", "trying"} /\ faults' = faults
           \/ faults' = faults + 1
        /\ faults' \in Nat
    BY DEF Begin, TimesOut, Dies, IInv, TypeOK
  <1>3. TypeOK' /\ Count' = Count
    BY <1>1, <1>2 DEF IInv, TypeOK, Count
  <1>4. /\ Counted \ {p} = Counted' \ {p} /\ Admitted \ {p} = Admitted' \ {p}
        /\ p \notin Counted' /\ p \notin Admitted'
    BY <1>1, OneMoves DEF IInv
  <1>5. Cardinality(Counted') + faults' >= Cardinality(Counted) + faults
    <2>1. CASE p \in Counted
      <3>1. faults' = faults + 1
        BY <1>2, <2>1 DEF Counted
      <3>2. Cardinality(Counted') = Cardinality(Counted) - 1
        BY <1>3, <1>4, <2>1, Leaves, Numbers DEF IInv, Counted
      <3>3. QED
        BY <3>1, <3>2, Numbers DEF IInv
    <2>2. CASE p \notin Counted
      <3>1. Counted' = Counted
        BY <1>4, <2>2, Stays
      <3>2. QED
        BY <1>2, <3>1, Numbers DEF IInv
    <2>3. QED
      BY <2>1, <2>2
  <1>6. Cardinality(Admitted') <= Cardinality(Admitted)
    <2>1. Admitted' \subseteq Admitted /\ Admitted \subseteq Processes
      BY <1>4, Numbers DEF IInv
    <2>2. QED
      BY <2>1, CountsNoMore
  <1>7. KeyNeverOvercounts' /\ AdmittedWithinCap'
    <2>1. /\ Cardinality(Admitted') \in Nat /\ Cardinality(Counted') \in Nat
          /\ faults' \in Nat
      BY <1>2, <1>4, Numbers, SubsetsAreFinite DEF IInv
    <2>2. QED
      BY <1>3, <1>5, <1>6, <2>1, Numbers
      DEF IInv, KeyNeverOvercounts, AdmittedWithinCap, Forgotten
  <1>8. ExpiryArmed'
    <2>1. CASE faults' = faults + 1
      BY <2>1, Numbers DEF ExpiryArmed, IInv
    <2>2. CASE faults' = faults /\ pc[p] \in {"off", "trying"}
      <3>1. \A q \in Processes : pc[q] = "counted" => pc'[q] = "counted"
        BY <1>1, <2>2 DEF IInv, TypeOK
      <3>2. QED
        BY <1>1, <1>3, <2>2, <3>1 DEF IInv, ExpiryArmed
    <2>3. QED
      BY <1>2, <2>1, <2>2
  <1>9. QED
    BY <1>3, <1>7, <1>8 DEF IInv

LEMMA IInvStep == IInv /\ [Next]_vars => IInv'
  <1> SUFFICES ASSUME IInv, [Next]_vars PROVE IInv'
    OBVIOUS
  <1>1. CASE KeyExpires
    BY <1>1, ResetStep DEF KeyExpires, IInv, TypeOK
  <1>2. ASSUME NEW p \in Processes, Begin(p) \/ TimesOut(p) \/ Dies(p)
        PROVE  IInv'
    BY <1>2, LeaveKeyStep
  <1>3. ASSUME NEW p \in Processes, Command(p)
        PROVE  IInv'
    <2>1. CASE Incr(p)
      BY <2>1, IncrStep
    <2>2. CASE Expire(p)
      BY <2>2, ExpireStep
    <2>3. CASE BackOff(p) \/ Release(p)
      BY <2>3, DecrStep
    <2>4. CASE Clear(p)
      BY <2>4, ResetStep DEF Clear, Goto, IInv, TypeOK
    <2>5. QED
      BY <1>3, <2>1, <2>2, <2>3, <2>4 DEF Command
  <1>4. CASE UNCHANGED vars
    BY <1>4
    DEF vars, IInv, TypeOK, KeyNeverOvercounts, AdmittedWithinCap, Forgotten,
        ExpiryArmed, Counted, Admitted, Count
  <1>5. QED
    BY <1>1, <1>2, <1>3, <1>4 DEF Next

----------------------------------------------------------------------------
(* Theorems                                                                *)

\* The inductive invariant holds for any number of processes and any cap.
THEOREM SlotsInvariance == Spec => []IInv
  BY InitIInv, IInvStep, PTL DEF Spec

\* The key never counts an increment twice: what it shows is at most what living
\* and killed processes have added.
THEOREM NeverOvercounts == Spec => []KeyNeverOvercounts
  <1>1. IInv => KeyNeverOvercounts
    BY DEF IInv
  <1>2. QED
    BY <1>1, SlotsInvariance, PTL

\* The cap is exceeded by no more than the key has forgotten.
THEOREM CapUpToForgotten == Spec => []ExcessIsForgotten
  <1>1. ASSUME IInv PROVE ExcessIsForgotten
    <2>1. Holding \subseteq Admitted /\ Admitted \subseteq Processes
      BY DEF Holding, Admitted
    <2>2. Cardinality(Holding) <= Cardinality(Admitted) /\ Cardinality(Holding) \in Nat
      BY <2>1, CountsNoMore, SubsetsAreFinite
    <2>3. QED
      BY <1>1, <2>2, Numbers DEF IInv, AdmittedWithinCap, ExcessIsForgotten, Forgotten
  <1>2. QED
    BY <1>1, SlotsInvariance, PTL

\* While nobody is killed, a positive count is always on its way to expire.
THEOREM PositiveCountExpires == Spec => []ExpiryArmed
  <1>1. IInv => ExpiryArmed
    BY DEF IInv
  <1>2. QED
    BY <1>1, SlotsInvariance, PTL
=============================================================================
