--------------------------- MODULE OutboxRelayProofs ---------------------------
(***************************************************************************)
(* The safety of OutboxRelay for any events and consumers and any number   *)
(* of faults.  That duplicates need faults is a matter of counting: every  *)
(* copy whose attempt ended without its mark is charged to the fault that  *)
(* ended it (Lost), and only one copy of an event, the one that is being   *)
(* marked or was, is charged to nothing.                                   *)
(***************************************************************************)
EXTENDS OutboxRelay, FiniteSetTheorems, TLAPS

\* A held row is committed and unmarked, a consumer holds one row only, and who
\* has worked holds one.
LocksAreClaims ==
    /\ \A e \in Events : lock[e] # Nobody => e \in created \ marked
    /\ \A e, f \in Events : lock[e] = lock[f] /\ lock[e] # Nobody => e = f
    /\ \A c \in worked : ~Free(c)

\* Who is about to mark an event has copied or executed it.
WorkedMeansHandled ==
    \A e \in Events : lock[e] \in worked => copies[e] > 0 \/ e \in executed

\* The attempt at e that counts: it is marked, or its holder is about to mark.
Live(e) == e \in marked \/ lock[e] \in worked

\* The copies of e that belong to attempts which came to nothing.
LostCopies(e) == IF Live(e) THEN copies[e] - 1 ELSE copies[e]

Lost == UNION {{<<e, n>> : n \in 1..LostCopies(e)} : e \in Events}

LostNeedFaults == IsFiniteSet(Lost) /\ Cardinality(Lost) <= faults

IInv ==
    /\ TypeOK
    /\ LocksAreClaims
    /\ WorkedMeansHandled
    /\ MarkedMeansHandled
    /\ LostNeedFaults
LEMMA InitIInv == Init => IInv
  <1> SUFFICES ASSUME Init
               PROVE  IInv
    OBVIOUS
  <1>1. TypeOK /\ LocksAreClaims /\ WorkedMeansHandled /\ MarkedMeansHandled
    BY RelayAssumption DEF Init, TypeOK, LocksAreClaims, WorkedMeansHandled, MarkedMeansHandled
  <1>2. Lost = {}
    BY DEF Init, Lost, LostCopies
  <1> QED
    BY <1>1, <1>2, FS_EmptySet DEF IInv, LostNeedFaults, Init
------------------------------------------------------------------------------
(***************************************************************************)
(* Counting.                                                               *)
(***************************************************************************)
\* A step after which no event has more lost copies adds none.
LEMMA NothingLost ==
    ASSUME TypeOK, TypeOK', LostNeedFaults, faults' = faults,
           \A e \in Events : LostCopies(e)' <= LostCopies(e)
    PROVE  LostNeedFaults'
  <1>1. Lost' \in SUBSET Lost
    BY DEF Lost, TypeOK, LostCopies
  <1>2. faults \in Int
    BY RelayAssumption DEF TypeOK
  <1> QED
    BY <1>1, <1>2, FS_Subset, FS_CardinalityType DEF LostNeedFaults

\* A step that loses one more copy of one event adds one at most.
LEMMA OneLost ==
    ASSUME TypeOK, TypeOK', LostNeedFaults, faults' = faults + 1, NEW e \in Events,
           LostCopies(e)' <= LostCopies(e) + 1,
           \A f \in Events \ {e} : LostCopies(f)' <= LostCopies(f)
    PROVE  LostNeedFaults'
  <1> DEFINE more == Lost \cup {<<e, LostCopies(e) + 1>>}
  <1>1. \A f \in Events : LostCopies(f) \in Int /\ LostCopies(f)' \in Int
    BY DEF TypeOK, LostCopies
  <1>2. Lost' \in SUBSET more
    BY <1>1 DEF Lost
  <1>3. IsFiniteSet(more) /\ Cardinality(more) <= Cardinality(Lost) + 1
    <2> HIDE DEF Lost
    <2>1. IsFiniteSet(Lost) /\ Cardinality(Lost) \in Int
      BY FS_CardinalityType DEF LostNeedFaults
    <2>2. /\ IsFiniteSet(more)
          /\ Cardinality(more) = IF <<e, LostCopies(e) + 1>> \in Lost
                                 THEN Cardinality(Lost) ELSE Cardinality(Lost) + 1
      BY <2>1, FS_AddElement
    <2> QED
      BY <2>1, <2>2
  <1>4. faults \in Int /\ Cardinality(Lost) \in Int /\ Cardinality(more) \in Int
    BY <1>3, FS_CardinalityType, RelayAssumption DEF TypeOK, LostNeedFaults
  <1>5. IsFiniteSet(Lost') /\ Cardinality(Lost') <= Cardinality(more) /\ Cardinality(Lost') \in Int
    BY <1>2, <1>3, FS_Subset, FS_CardinalityType
  <1> QED
    BY <1>3, <1>4, <1>5 DEF LostNeedFaults

\* Every duplicate stands for a lost copy.
LEMMA DuplicatesAreLost ==
    ASSUME TypeOK, LostNeedFaults
    PROVE  DuplicatesNeedFaults
  <1> DEFINE Earlier == [d \in Duplicates |-> <<d[1], d[2] - 1>>]
  <1>1. Earlier \in Injection(Duplicates, Lost)
    BY DEF Duplicates, Lost, LostCopies, TypeOK, Injection, IsInjective
  <1>2. Cardinality(Duplicates) <= Cardinality(Lost) /\ IsFiniteSet(Duplicates)
    BY <1>1, FS_Injection DEF LostNeedFaults
  <1>3. faults \in Int /\ Cardinality(Lost) \in Int /\ Cardinality(Duplicates) \in Int
    BY <1>2, FS_CardinalityType, RelayAssumption DEF TypeOK, LostNeedFaults
  <1> QED
    BY <1>2, <1>3 DEF LostNeedFaults, DuplicatesNeedFaults
------------------------------------------------------------------------------
(***************************************************************************)
(* The steps.                                                              *)
(***************************************************************************)
LEMMA EffectTypes ==
    ASSUME TypeOK, NEW c \in Consumers, NEW e \in Events, Effect(c, e)
    PROVE  copies' \in [Events -> Nat] /\ executed' \subseteq Events
  BY DEF Effect, TypeOK

LEMMA TypeStep == TypeOK /\ [Next]_vars => TypeOK'
  <1> SUFFICES ASSUME TypeOK, [Next]_vars
               PROVE  TypeOK'
    OBVIOUS
  <1> USE RelayAssumption DEF TypeOK, Consumers, Free, Held
  <1>1. ASSUME NEW e \in Events, Create(e)
        PROVE  TypeOK'
    BY <1>1 DEF Create
  <1>2. ASSUME NEW c \in Consumers, Claim(c)
        PROVE  TypeOK'
    BY <1>2 DEF Claim, Claimable
  <1>3. ASSUME NEW c \in Consumers, Work(c)
        PROVE  TypeOK'
    BY <1>3, EffectTypes DEF Work
  <1>4. ASSUME NEW c \in Consumers, MarkPublished(c)
        PROVE  TypeOK'
    BY <1>4 DEF MarkPublished
  <1>5. ASSUME NEW c \in Consumers, Fail(c)
        PROVE  TypeOK'
    <2>1. copies' \in [Events -> Nat] /\ executed' \subseteq Events
      BY <1>5, EffectTypes DEF Fail
    <2> QED
      BY <1>5, <2>1 DEF Fail
  <1>6. CASE UNCHANGED vars
    BY <1>6 DEF vars
  <1> QED
    BY <1>1, <1>2, <1>3, <1>4, <1>5, <1>6 DEF Next

LEMMA LocksStep ==
    ASSUME TypeOK, LocksAreClaims, [Next]_vars
    PROVE  LocksAreClaims'
  <1> USE RelayAssumption DEF TypeOK, LocksAreClaims, Consumers, Free, Held
  <1>1. ASSUME NEW e \in Events, Create(e)
        PROVE  LocksAreClaims'
    BY <1>1 DEF Create
  <1>2. ASSUME NEW c \in Consumers, Claim(c)
        PROVE  LocksAreClaims'
    BY <1>2 DEF Claim, Claimable
  <1>3. ASSUME NEW c \in Consumers, Work(c)
        PROVE  LocksAreClaims'
    BY <1>3 DEF Work
  <1>4. ASSUME NEW c \in Consumers, MarkPublished(c)
        PROVE  LocksAreClaims'
    BY <1>4 DEF MarkPublished
  <1>5. ASSUME NEW c \in Consumers, Fail(c)
        PROVE  LocksAreClaims'
    BY <1>5 DEF Fail
  <1>6. CASE UNCHANGED vars
    BY <1>6 DEF vars
  <1> QED
    BY <1>1, <1>2, <1>3, <1>4, <1>5, <1>6 DEF Next

LEMMA HandledStep ==
    ASSUME TypeOK, LocksAreClaims, WorkedMeansHandled, MarkedMeansHandled, [Next]_vars
    PROVE  (WorkedMeansHandled /\ MarkedMeansHandled)'
  <1> USE RelayAssumption DEF TypeOK, LocksAreClaims, WorkedMeansHandled, MarkedMeansHandled,
                              Consumers, Free, Held
  <1>1. ASSUME NEW e \in Events, Create(e)
        PROVE  (WorkedMeansHandled /\ MarkedMeansHandled)'
    BY <1>1 DEF Create
  <1>2. ASSUME NEW c \in Consumers, Claim(c)
        PROVE  (WorkedMeansHandled /\ MarkedMeansHandled)'
    BY <1>2 DEF Claim, Claimable
  <1>3. ASSUME NEW c \in Consumers, Work(c)
        PROVE  (WorkedMeansHandled /\ MarkedMeansHandled)'
    BY <1>3 DEF Work, Effect
  <1>4. ASSUME NEW c \in Consumers, MarkPublished(c)
        PROVE  (WorkedMeansHandled /\ MarkedMeansHandled)'
    BY <1>4 DEF MarkPublished
  <1>5. ASSUME NEW c \in Consumers, Fail(c)
        PROVE  (WorkedMeansHandled /\ MarkedMeansHandled)'
    BY <1>5 DEF Fail, Effect
  <1>6. CASE UNCHANGED vars
    BY <1>6 DEF vars
  <1> QED
    BY <1>1, <1>2, <1>3, <1>4, <1>5, <1>6 DEF Next

LEMMA LostStep ==
    ASSUME TypeOK, TypeOK', LocksAreClaims, LostNeedFaults, [Next]_vars
    PROVE  LostNeedFaults'
  <1> USE RelayAssumption DEF TypeOK, LocksAreClaims, LostCopies, Live, Consumers, Free, Held
  <1>1. ASSUME NEW e \in Events, Create(e)
        PROVE  LostNeedFaults'
    BY <1>1, NothingLost DEF Create
  <1>2. ASSUME NEW c \in Consumers, Claim(c)
        PROVE  LostNeedFaults'
    BY <1>2, NothingLost DEF Claim, Claimable
  <1>3. ASSUME NEW c \in Consumers, Work(c)
        PROVE  LostNeedFaults'
    BY <1>3, NothingLost DEF Work, Effect
  <1>4. ASSUME NEW c \in Consumers, MarkPublished(c)
        PROVE  LostNeedFaults'
    BY <1>4, NothingLost DEF MarkPublished
  <1>5. ASSUME NEW c \in Consumers, Fail(c)
        PROVE  LostNeedFaults'
    <2> PICK e \in Held(c) : TRUE
      BY <1>5 DEF Fail
    <2>1. LostCopies(e)' <= LostCopies(e) + 1
      BY <1>5 DEF Fail, Effect
    <2>2. \A f \in Events \ {e} : LostCopies(f)' <= LostCopies(f)
      BY <1>5 DEF Fail, Effect
    <2> QED
      BY <1>5, <2>1, <2>2, OneLost DEF Fail
  <1>6. CASE UNCHANGED vars
    BY <1>6, NothingLost DEF vars
  <1> QED
    BY <1>1, <1>2, <1>3, <1>4, <1>5, <1>6 DEF Next
------------------------------------------------------------------------------
\* The inductive invariant of the relay.
THEOREM InductiveInvariant == Spec => []IInv
  <1>1. IInv /\ [Next]_vars => IInv'
    BY TypeStep, LocksStep, HandledStep, LostStep DEF IInv
  <1> QED
    BY InitIInv, <1>1, PTL DEF Spec

\* dispatch_batch marks an event only once it is in its stream or its intent has
\* been executed, whatever fails and however many consumers there are.
THEOREM MarkedMeansHandledHolds == Spec => []MarkedMeansHandled
  <1>1. IInv => MarkedMeansHandled
    BY DEF IInv
  <1> QED
    BY InductiveInvariant, <1>1, PTL

\* An event is copied to its stream again at most as often as something failed.
THEOREM DuplicatesNeedFaultsHolds == Spec => []DuplicatesNeedFaults
  <1>1. IInv => DuplicatesNeedFaults
    BY DuplicatesAreLost DEF IInv
  <1> QED
    BY InductiveInvariant, <1>1, PTL
==============================================================================
