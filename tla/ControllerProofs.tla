-------------------------- MODULE ControllerProofs --------------------------
(***************************************************************************)
(* Proofs about the controller's two sides: ControllerEnrollment, for any  *)
(* number of enrollments and calls and any limit, lifetime and cooldown,   *)
(* and FleetReports, for any number of streams, devices, changes, events   *)
(* and faults.                                                             *)
(*                                                                         *)
(* Enrollment: type correctness, the bound on device authorizations in     *)
(* flight and the release of failed ones, that an enrollment is used once  *)
(* and in time, and the spacing of key fetches.  Reports: no change of the *)
(* inventory the watch has seen is forgotten, no report makes the          *)
(* controller stop reading, and a deleted device has no rows.              *)
(***************************************************************************)
EXTENDS ControllerEnrollment, FleetReports, FiniteSetTheorems, TLAPS

-----------------------------------------------------------------------------
(* Enrollment *)


(* A call of begin_device holds its place until the lifetime has passed.   *)
GrantReserved ==
  \A e \in Enrollments :
    begun[e] = "grant" /\ now < since[e] + ENROLLMENT_LIFETIME
      => pending[e] = since[e] + ENROLLMENT_LIFETIME

(* The map of pending enrollments is within its limit.                     *)
PendingBounded == Cardinality(Occupied(pending)) <= MAX_PENDING_ENROLLMENTS

Active == {"key", "gate", "fetch", "verify", "enroll"}
Works(c, e) == pc[c] \in Active /\ e \in call[c].enrollment

(* An enrollment is pending, or in the hands of one call, or used.         *)
UsedOnce ==
  /\ \A e \in Enrollments : enrolled[e] <= 1
  /\ \A e \in Enrollments :
       enrolled[e] = 1 => begun[e] = "answered" /\ pending[e] = 0 /\ \A c \in Calls : ~Works(c, e)
  /\ \A e \in Enrollments, c \in Calls : Works(c, e) => begun[e] = "answered" /\ pending[e] = 0
  /\ \A e \in Enrollments, c, d \in Calls : Works(c, e) /\ Works(d, e) => c = d

(* The inductive invariant.                                                *)
IInv == TypeOK /\ GrantReserved /\ PendingBounded /\ UsedOnce

USE DEF enrollments, jwks

(* An element adds at most one.                                            *)
LEMMA AddOne ==
  ASSUME NEW S, IsFiniteSet(S), NEW x
  PROVE  IsFiniteSet(S \cup {x}) /\ Cardinality(S \cup {x}) <= Cardinality(S) + 1
<1>1. Cardinality(S) \in Nat
  BY FS_CardinalityType, Zenon
<1>2. CASE x \in S
  <2>1. S \cup {x} = S
    BY <1>2, Zenon
  <2>2. Cardinality(S) <= Cardinality(S) + 1
    BY <1>1
  <2> QED BY <2>1, <2>2, Zenon
<1>3. CASE x \notin S
  <2>1. IsFiniteSet(S \cup {x}) /\ Cardinality(S \cup {x}) = Cardinality(S) + 1
    BY <1>3, FS_AddElement, Zenon
  <2> QED BY <1>1, <2>1
<1> QED BY <1>2, <1>3, Zenon

(* Fewer occupied places are within the limit as well.                     *)
LEMMA FewerOccupied ==
  ASSUME NEW p, NEW q, Occupied(q) \subseteq Occupied(p),
         Cardinality(Occupied(p)) <= MAX_PENDING_ENROLLMENTS
  PROVE  Cardinality(Occupied(q)) <= MAX_PENDING_ENROLLMENTS
<1>1. IsFiniteSet(Occupied(p))
  BY EnrollmentAssumption, FS_Subset, Occupied(p) \subseteq Enrollments, Zenon DEF Occupied
<1>2. Cardinality(Occupied(q)) <= Cardinality(Occupied(p)) /\ IsFiniteSet(Occupied(q))
  BY <1>1, FS_Subset, Zenon
<1> QED BY <1>1, <1>2, FS_CardinalityType, EnrollmentAssumption

(* Pruning frees places and takes none.                                    *)
LEMMA PruneFrees ==
  ASSUME TypeOK
  PROVE  /\ Pruned \in [Enrollments -> Nat] /\ Occupied(Pruned) \subseteq Occupied(pending)
         /\ \A e \in Enrollments : Pruned[e] = pending[e] \/ (Pruned[e] = 0 /\ pending[e] <= now)
BY DEF TypeOK, Pruned, Occupied

(* insert_pending keeps the invariant, whichever flow calls it.            *)
LEMMA InsertKeeps ==
  ASSUME IInv, NEW e \in Enrollments, NEW state \in {"answered", "grant"}, InsertPending(e, state)
  PROVE  IInv'
<1>1. TypeOK'
  BY PruneFrees, EnrollmentAssumption DEF IInv, TypeOK, InsertPending
<1>2. GrantReserved'
  BY PruneFrees, EnrollmentAssumption DEF IInv, TypeOK, GrantReserved, InsertPending
<1>3. PendingBounded'
  <2>1. CASE HasRoom
    <3>1. IsFiniteSet(Occupied(Pruned)) /\ Cardinality(Occupied(Pruned)) \in Nat
      <4>1. IsFiniteSet(Occupied(Pruned))
        BY EnrollmentAssumption, FS_Subset, Occupied(Pruned) \subseteq Enrollments, Zenon DEF Occupied
      <4> QED BY <4>1, FS_CardinalityType, Zenon
    <3>2. Occupied(pending') \subseteq Occupied(Pruned) \cup {e}
      BY <2>1, PruneFrees, Zenon DEF IInv, InsertPending, Occupied
    <3>3. /\ IsFiniteSet(Occupied(Pruned) \cup {e})
          /\ Cardinality(Occupied(Pruned) \cup {e}) <= Cardinality(Occupied(Pruned)) + 1
      BY <3>1, AddOne, Zenon
    <3>4. Cardinality(Occupied(pending')) <= Cardinality(Occupied(Pruned) \cup {e})
      BY <3>2, <3>3, FS_Subset, Zenon
    <3>5. IsFiniteSet(Occupied(pending'))
      BY <3>2, <3>3, FS_Subset, Zenon
    <3> QED BY <2>1, <3>1, <3>3, <3>4, <3>5, FS_CardinalityType, EnrollmentAssumption
          DEF PendingBounded, HasRoom
  <2>2. CASE ~HasRoom
    <3>1. pending' = Pruned
      BY <2>2, Zenon DEF InsertPending
    <3> QED BY <3>1, PruneFrees, FewerOccupied, Zenon DEF IInv, PendingBounded
  <2> QED BY <2>1, <2>2, Zenon
<1>4. UsedOnce'
  BY PruneFrees DEF IInv, TypeOK, UsedOnce, Works, InsertPending
<1> QED BY <1>1, <1>2, <1>3, <1>4, Zenon DEF IInv

(* The answer, the failure and the end of a call of begin_device.          *)
LEMMA GrantKeeps ==
  ASSUME IInv, NEW e \in Enrollments,
         GrantAnswered(e) \/ GrantFails(e) \/ GrantDropped(e)
  PROVE  IInv'
<1>1. CASE GrantAnswered(e)
  <2>1. TypeOK'
    BY <1>1, EnrollmentAssumption DEF IInv, TypeOK, GrantAnswered
  <2>2. GrantReserved'
    BY <1>1, Zenon DEF IInv, TypeOK, GrantReserved, GrantAnswered
  <2>3. PendingBounded'
    <3>1. Occupied(pending') \subseteq Occupied(pending)
      BY <1>1, Zenon DEF IInv, TypeOK, Occupied, GrantAnswered
    <3> QED BY <3>1, FewerOccupied, Zenon DEF IInv, PendingBounded
  <2>4. UsedOnce'
    BY <1>1, ZenonT(30) DEF IInv, TypeOK, UsedOnce, Works, Active, GrantAnswered
  <2> QED BY <2>1, <2>2, <2>3, <2>4, Zenon DEF IInv
<1>2. CASE GrantFails(e)
  <2>1. TypeOK'
    BY <1>2, Zenon DEF IInv, TypeOK, GrantFails
  <2>2. GrantReserved'
    BY <1>2, Zenon DEF IInv, TypeOK, GrantReserved, GrantFails
  <2>3. PendingBounded'
    <3>1. Occupied(pending') \subseteq Occupied(pending)
      BY <1>2, Zenon DEF IInv, TypeOK, Occupied, GrantFails
    <3> QED BY <3>1, FewerOccupied, Zenon DEF IInv, PendingBounded
  <2>4. UsedOnce'
    BY <1>2, Zenon DEF IInv, TypeOK, UsedOnce, Works, Active, GrantFails
  <2> QED BY <2>1, <2>2, <2>3, <2>4, Zenon DEF IInv
<1>3. CASE GrantDropped(e)
  <2>1. TypeOK'
    BY <1>3, Zenon DEF IInv, TypeOK, GrantDropped
  <2>2. GrantReserved'
    BY <1>3, Zenon DEF IInv, TypeOK, GrantReserved, GrantDropped
  <2>3. PendingBounded'
    BY <1>3, Zenon DEF IInv, TypeOK, PendingBounded, GrantDropped
  <2>4. UsedOnce'
    BY <1>3, Zenon DEF IInv, TypeOK, UsedOnce, Works, Active, GrantDropped
  <2> QED BY <2>1, <2>2, <2>3, <2>4, Zenon DEF IInv
<1> QED BY <1>1, <1>2, <1>3, Zenon

(* The steps of a call of complete.                                        *)
LEMMA CallKeeps ==
  ASSUME IInv, NEW c \in Calls,
         FindKey(c) \/ KeyStep(c) \/ FetchAnswered(c) \/ FetchFails(c)
           \/ Verified(c) \/ EnrollDevice(c) \/ CallFails(c)
  PROVE  IInv'
<1>1. CASE FindKey(c)
  <2>1. TypeOK'
    BY <1>1, Zenon DEF IInv, TypeOK, FindKey, Labels, Goto
  <2>2. GrantReserved'
    BY <1>1, Zenon DEF IInv, TypeOK, GrantReserved, FindKey, Goto
  <2>3. PendingBounded'
    BY <1>1, Zenon DEF IInv, TypeOK, PendingBounded, FindKey, Goto
  <2>4. UsedOnce'
    BY <1>1 DEF IInv, TypeOK, UsedOnce, Works, Active, FindKey, Goto
  <2> QED BY <2>1, <2>2, <2>3, <2>4, Zenon DEF IInv
<1>2. CASE FindKeyAgain(c)
  <2>1. TypeOK'
    BY <1>2, Zenon DEF IInv, TypeOK, FindKeyAgain, Labels, Goto
  <2>2. GrantReserved'
    BY <1>2, Zenon DEF IInv, TypeOK, GrantReserved, FindKeyAgain, Goto
  <2>3. PendingBounded'
    BY <1>2, Zenon DEF IInv, TypeOK, PendingBounded, FindKeyAgain, Goto
  <2>4. UsedOnce'
    BY <1>2 DEF IInv, TypeOK, UsedOnce, Works, Active, FindKeyAgain, Goto
  <2> QED BY <2>1, <2>2, <2>3, <2>4, Zenon DEF IInv
<1>3. CASE RateLimited(c)
  <2>1. TypeOK'
    BY <1>3, Zenon DEF IInv, TypeOK, RateLimited, Labels, Goto, Refuse
  <2>2. GrantReserved'
    BY <1>3, Zenon DEF IInv, TypeOK, GrantReserved, RateLimited, Goto, Refuse
  <2>3. PendingBounded'
    BY <1>3, Zenon DEF IInv, TypeOK, PendingBounded, RateLimited, Goto, Refuse
  <2>4. UsedOnce'
    BY <1>3 DEF IInv, TypeOK, UsedOnce, Works, Active, RateLimited, Goto, Refuse
  <2> QED BY <2>1, <2>2, <2>3, <2>4, Zenon DEF IInv
<1>4. CASE StartFetch(c)
  <2>1. TypeOK'
    BY <1>4, Zenon DEF IInv, TypeOK, StartFetch, Labels, Goto
  <2>2. GrantReserved'
    BY <1>4, Zenon DEF IInv, TypeOK, GrantReserved, StartFetch, Goto
  <2>3. PendingBounded'
    BY <1>4, Zenon DEF IInv, TypeOK, PendingBounded, StartFetch, Goto
  <2>4. UsedOnce'
    BY <1>4 DEF IInv, TypeOK, UsedOnce, Works, Active, StartFetch, Goto
  <2> QED BY <2>1, <2>2, <2>3, <2>4, Zenon DEF IInv
<1>5. CASE FetchAnswered(c)
  <2>1. TypeOK'
    BY <1>5, Zenon DEF IInv, TypeOK, FetchAnswered, Labels, Goto, Refuse
  <2>2. GrantReserved'
    BY <1>5, Zenon DEF IInv, TypeOK, GrantReserved, FetchAnswered, Goto, Refuse
  <2>3. PendingBounded'
    BY <1>5, Zenon DEF IInv, TypeOK, PendingBounded, FetchAnswered, Goto, Refuse
  <2>4. UsedOnce'
    <3>1. call' = call /\ pc[c] = "fetch" /\ UNCHANGED <<pending, begun, enrolled>>
      BY <1>5, Zenon DEF FetchAnswered, Refuse
    <3>2. \A d \in Calls, e \in Enrollments : Works(d, e)' => Works(d, e)
      BY <1>5, <3>1, Zenon DEF IInv, TypeOK, Works, Active, FetchAnswered, Goto, Refuse
    <3> QED BY <3>1, <3>2, Zenon DEF IInv, UsedOnce
  <2> QED BY <2>1, <2>2, <2>3, <2>4, Zenon DEF IInv
<1>6. CASE FetchFails(c)
  <2>1. TypeOK'
    BY <1>6, Zenon DEF IInv, TypeOK, FetchFails, Labels, Goto, Finish, NoCall
  <2>2. GrantReserved'
    BY <1>6, Zenon DEF IInv, TypeOK, GrantReserved, FetchFails, Goto, Finish, NoCall
  <2>3. PendingBounded'
    BY <1>6, Zenon DEF IInv, TypeOK, PendingBounded, FetchFails, Goto, Finish, NoCall
  <2>4. UsedOnce'
    BY <1>6 DEF IInv, TypeOK, UsedOnce, Works, Active, FetchFails, Goto, Finish, NoCall
  <2> QED BY <2>1, <2>2, <2>3, <2>4, Zenon DEF IInv
<1>7. CASE Verified(c)
  <2>1. TypeOK'
    BY <1>7, Zenon DEF IInv, TypeOK, Verified, Labels, Goto
  <2>2. GrantReserved'
    BY <1>7, Zenon DEF IInv, TypeOK, GrantReserved, Verified, Goto
  <2>3. PendingBounded'
    BY <1>7, Zenon DEF IInv, TypeOK, PendingBounded, Verified, Goto
  <2>4. UsedOnce'
    BY <1>7, SMTT(30) DEF IInv, TypeOK, UsedOnce, Works, Active, Verified, Goto
  <2> QED BY <2>1, <2>2, <2>3, <2>4, Zenon DEF IInv
<1>8. CASE EnrollDevice(c)
  <2>1. TypeOK'
    BY <1>8 DEF IInv, TypeOK, EnrollDevice, Labels, Goto, Finish, NoCall
  <2>2. GrantReserved'
    BY <1>8, Zenon DEF IInv, TypeOK, GrantReserved, EnrollDevice, Goto, Finish, NoCall
  <2>3. PendingBounded'
    BY <1>8, Zenon DEF IInv, TypeOK, PendingBounded, EnrollDevice, Goto, Finish, NoCall
  <2>4. UsedOnce'
    <3>1. \A d \in Calls, e \in Enrollments : Works(d, e)' => d # c /\ Works(d, e)
      BY <1>8, Zenon DEF IInv, TypeOK, Works, Active, EnrollDevice, Goto, Finish, NoCall
    <3>2. UNCHANGED <<pending, begun>>
      BY <1>8, Zenon DEF EnrollDevice
    <3>3. \A e \in Enrollments : enrolled'[e] = IF Works(c, e) THEN enrolled[e] + 1 ELSE enrolled[e]
      BY <1>8, Zenon DEF EnrollDevice, Works, Active
    <3>4. \A e \in Enrollments : Works(c, e) => enrolled[e] = 0
      BY SMTT(30) DEF IInv, TypeOK, UsedOnce
    <3> QED BY <3>1, <3>2, <3>3, <3>4 DEF IInv, TypeOK, UsedOnce
  <2> QED BY <2>1, <2>2, <2>3, <2>4, Zenon DEF IInv
<1>9. CASE CallFails(c)
  <2>1. TypeOK'
    BY <1>9, Zenon DEF IInv, TypeOK, CallFails, Labels, Goto, Finish, NoCall
  <2>2. GrantReserved'
    BY <1>9, Zenon DEF IInv, TypeOK, GrantReserved, CallFails, Goto, Finish, NoCall
  <2>3. PendingBounded'
    BY <1>9, Zenon DEF IInv, TypeOK, PendingBounded, CallFails, Goto, Finish, NoCall
  <2>4. UsedOnce'
    BY <1>9 DEF IInv, TypeOK, UsedOnce, Works, Active, CallFails, Goto, Finish, NoCall
  <2> QED BY <2>1, <2>2, <2>3, <2>4, Zenon DEF IInv
<1> QED BY <1>1, <1>2, <1>3, <1>4, <1>5, <1>6, <1>7, <1>8, <1>9, Zenon DEF KeyStep

(* The enrollment passes from the map to the call.                         *)
LEMMA CompleteKeeps ==
  ASSUME IInv, NEW c \in Calls, NEW e \in Enrollments, NEW kid \in 0 .. signing,
         Complete(c, e, kid)
  PROVE  IInv'
<1>1. PICK used \in BOOLEAN :
        /\ pc' = [pc EXCEPT ![c] = IF used THEN "key" ELSE pc[c]]
        /\ call' = [call EXCEPT ![c] = IF used THEN [enrollment |-> {e}, kid |-> kid] ELSE call[c]]
  <2>1. CASE pending[e] <= now
    BY <2>1, Zenon DEF IInv, TypeOK, Complete
  <2>2. CASE ~(pending[e] <= now)
    BY <2>2, Zenon DEF Complete, Goto
  <2> QED BY <2>1, <2>2, Zenon
<1>2. /\ pc[c] \in {"idle", "refused"} /\ begun[e] = "answered" /\ pending[e] # 0
      /\ pending' = [pending EXCEPT ![e] = 0]
      /\ UNCHANGED <<now, begun, since, signing, jwks, enrolled>>
  BY Zenon DEF Complete
<1>3. TypeOK'
  <2>1. kid \in Nat
    BY DEF IInv, TypeOK
  <2> QED BY <1>1, <1>2, <2>1, Zenon DEF IInv, TypeOK, Labels
<1>4. GrantReserved'
  BY <1>2, Zenon DEF IInv, TypeOK, GrantReserved
<1>5. PendingBounded'
  <2>1. Occupied(pending') \subseteq Occupied(pending)
    BY <1>2, Zenon DEF IInv, TypeOK, Occupied
  <2> QED BY <2>1, FewerOccupied, Zenon DEF IInv, PendingBounded
<1>6. UsedOnce'
  BY <1>1, <1>2 DEF IInv, TypeOK, UsedOnce, Works, Active
<1> QED BY <1>3, <1>4, <1>5, <1>6, Zenon DEF IInv

(* Time and the identity provider.                                         *)
LEMMA WorldKeeps ==
  ASSUME IInv, RotateKey \/ Tick
  PROVE  IInv'
<1>1. CASE RotateKey
  <2>1. TypeOK'
    BY <1>1 DEF IInv, TypeOK, RotateKey
  <2>2. GrantReserved'
    BY <1>1, Zenon DEF IInv, TypeOK, GrantReserved, RotateKey
  <2>3. PendingBounded'
    BY <1>1, Zenon DEF IInv, TypeOK, PendingBounded, RotateKey
  <2>4. UsedOnce'
    BY <1>1, Zenon DEF IInv, TypeOK, UsedOnce, Works, Active, RotateKey
  <2> QED BY <2>1, <2>2, <2>3, <2>4, Zenon DEF IInv
<1>2. CASE Tick
  <2>1. TypeOK'
    BY <1>2 DEF IInv, TypeOK, Tick
  <2>2. GrantReserved'
    BY <1>2, EnrollmentAssumption DEF IInv, TypeOK, GrantReserved, Tick
  <2>3. PendingBounded'
    BY <1>2, Zenon DEF IInv, TypeOK, PendingBounded, Tick
  <2>4. UsedOnce'
    BY <1>2, Zenon DEF IInv, TypeOK, UsedOnce, Works, Active, Tick
  <2> QED BY <2>1, <2>2, <2>3, <2>4, Zenon DEF IInv
<1> QED BY <1>1, <1>2, Zenon

(* Every step keeps the inductive invariant.                               *)
LEMMA StepKeeps ==
  ASSUME IInv, [Next]_vars
  PROVE  IInv'
<1>1. ASSUME NEW e \in Enrollments, BeginStep(e) PROVE IInv'
  BY <1>1, InsertKeeps, GrantKeeps, Zenon DEF BeginStep, Begin, BeginDevice
<1>2. ASSUME NEW c \in Calls, CallStep(c) PROVE IInv'
  BY <1>2, CallKeeps, CompleteKeeps, Zenon DEF CallStep
<1>3. CASE RotateKey \/ Tick
  BY <1>3, WorldKeeps, Zenon
<1>4. CASE UNCHANGED vars
  BY <1>4, Zenon DEF vars, IInv, TypeOK, GrantReserved, PendingBounded, Occupied, UsedOnce, Works
<1> QED BY <1>1, <1>2, <1>3, <1>4, Zenon DEF Next

(* The inductive invariant holds in every reachable state.                 *)
THEOREM Invariance == Spec => []IInv
<1>1. ASSUME Init PROVE IInv
  <2>1. TypeOK
    BY <1>1, Zenon DEF Init, TypeOK, Labels, NoCall
  <2>2. GrantReserved
    BY <1>1, Zenon DEF Init, GrantReserved
  <2>3. PendingBounded
    <3>1. Occupied(pending) = {}
      BY <1>1, Zenon DEF Init, Occupied
    <3> QED BY <3>1, FS_EmptySet, EnrollmentAssumption DEF PendingBounded
  <2>4. UsedOnce
    BY <1>1 DEF Init, UsedOnce, Works, Active
  <2> QED BY <2>1, <2>2, <2>3, <2>4, Zenon DEF IInv
<1>2. IInv /\ [Next]_vars => IInv'
  BY StepKeeps, Zenon
<1> QED BY <1>1, <1>2, PTL DEF Spec

(* The enrollment state of the controller is type correct.                 *)
THEOREM TypeCorrect == Spec => []TypeOK
<1>1. IInv => TypeOK
  BY Zenon DEF IInv
<1> QED BY <1>1, Invariance, PTL

(* begin_device reserves before it asks: the device authorizations that    *)
(* wait for the identity provider and are younger than their reservation   *)
(* never exceed MAX_PENDING_ENROLLMENTS.                                   *)
THEOREM DeviceGrantsBounded == Spec => []GrantsBounded
<1>1. ASSUME IInv PROVE GrantsBounded
  <2>1. InFlight \subseteq Occupied(pending)
    BY <1>1, EnrollmentAssumption DEF IInv, TypeOK, GrantReserved, InFlight, Occupied
  <2>2. IsFiniteSet(Occupied(pending))
    BY EnrollmentAssumption, FS_Subset, Occupied(pending) \subseteq Enrollments, Zenon DEF Occupied
  <2>3. Cardinality(InFlight) <= Cardinality(Occupied(pending)) /\ IsFiniteSet(InFlight)
    BY <2>1, <2>2, FS_Subset, Zenon
  <2> QED BY <1>1, <2>2, <2>3, FS_CardinalityType, EnrollmentAssumption
        DEF IInv, PendingBounded, GrantsBounded
<1> QED BY <1>1, Invariance, PTL

(* No step leaves a place to an enrollment whose authorization failed.     *)
LEMMA StepReleases ==
  ASSUME TypeOK, FailuresReleased, [Next]_vars
  PROVE  FailuresReleased'
<1>1. ASSUME NEW e \in Enrollments, BeginStep(e) PROVE FailuresReleased'
  <2>1. ASSUME NEW state \in {"answered", "grant"}, InsertPending(e, state)
        PROVE  FailuresReleased'
    BY <2>1, PruneFrees, Zenon DEF TypeOK, FailuresReleased, InsertPending, Occupied
  <2>2. CASE GrantAnswered(e) \/ GrantFails(e) \/ GrantDropped(e)
    BY <2>2 DEF TypeOK, FailuresReleased, GrantAnswered, GrantFails, GrantDropped, Occupied
  <2> QED BY <1>1, <2>1, <2>2, Zenon DEF BeginStep, Begin, BeginDevice
<1>2. ASSUME NEW c \in Calls, NEW e \in Enrollments, NEW kid \in 0 .. signing, Complete(c, e, kid)
      PROVE  FailuresReleased'
  BY <1>2, Zenon DEF TypeOK, FailuresReleased, Complete, Occupied
<1>3. CASE UNCHANGED <<pending, begun>>
  BY <1>3, Zenon DEF FailuresReleased, Occupied
<1>4. ASSUME NEW c \in Calls,
             \/ FindKey(c) \/ KeyStep(c) \/ FetchAnswered(c) \/ FetchFails(c)
             \/ Verified(c) \/ EnrollDevice(c) \/ CallFails(c)
      PROVE  UNCHANGED <<pending, begun>>
  BY <1>4, Zenon DEF FindKey, KeyStep, FindKeyAgain, RateLimited, StartFetch, FetchAnswered, FetchFails,
                     Verified, EnrollDevice, CallFails
<1>5. CASE RotateKey \/ Tick \/ UNCHANGED vars
  BY <1>3, <1>5, Zenon DEF RotateKey, Tick, vars
<1> QED BY <1>1, <1>2, <1>3, <1>4, <1>5, Zenon DEF Next, CallStep

(* begin_device reserves before it asks and releases when that fails: the  *)
(* device authorizations in flight are within MAX_PENDING_ENROLLMENTS, and *)
(* no failed one keeps a place.                                            *)
THEOREM EnrollmentPlacesKept == Spec => []PlacesKept
<1>1. Init => FailuresReleased
  BY Zenon DEF Init, FailuresReleased, Occupied
<1>2. TypeOK /\ FailuresReleased /\ [Next]_vars => FailuresReleased'
  BY StepReleases, Zenon
<1>3. Spec => []FailuresReleased
  BY <1>1, <1>2, TypeCorrect, PTL DEF Spec
<1> QED BY <1>3, DeviceGrantsBounded, PTL DEF PlacesKept

(* complete removes the enrollment before anything else: no interleaving   *)
(* of calls for one enrollment creates two devices.                        *)
THEOREM EnrollmentUsedOnce == Spec => []OneDevice
<1>1. IInv => OneDevice
  BY Zenon DEF IInv, UsedOnce, OneDevice
<1> QED BY <1>1, Invariance, PTL

(* An enrollment expires within its lifetime of the answer that began it.  *)
Deadlines ==
  \A e \in Enrollments : since[e] <= now /\ pending[e] <= since[e] + ENROLLMENT_LIFETIME

(* Only the holder of the gate fetches, and not for longer than a timeout. *)
Gated ==
  /\ fetched = refresh
  /\ \A c \in Calls : pc[c] = "fetch" => gate = {c}
  /\ gate # {} => now <= fetched + 1

(* Every step keeps the deadlines of the pending enrollments.              *)
LEMMA StepKeepsDeadlines ==
  ASSUME TypeOK, Deadlines, [Next]_vars
  PROVE  Deadlines'
<1>1. ASSUME NEW e \in Enrollments, NEW state \in {"answered", "grant"}, InsertPending(e, state)
      PROVE  Deadlines'
  <2>1. /\ now' = now /\ since' = [since EXCEPT ![e] = now]
        /\ pending' = Pruned \/ pending' = [Pruned EXCEPT ![e] = now + ENROLLMENT_LIFETIME]
    BY <1>1, Zenon DEF InsertPending
  <2>2. Pruned \in [Enrollments -> Nat] /\ \A d \in Enrollments : Pruned[d] <= pending[d]
    BY DEF TypeOK, Pruned
  <2>3. ASSUME NEW d \in Enrollments
        PROVE  since'[d] <= now /\ pending'[d] <= since'[d] + ENROLLMENT_LIFETIME
    <3>1. /\ now \in Nat /\ since[d] \in Nat /\ pending[d] \in Nat /\ Pruned[d] \in Nat
          /\ since[d] <= now /\ pending[d] <= since[d] + ENROLLMENT_LIFETIME /\ Pruned[d] <= pending[d]
          /\ ENROLLMENT_LIFETIME \in Nat
      BY <2>2, EnrollmentAssumption, Zenon DEF TypeOK, Deadlines
    <3>2. CASE d # e
      <4>1. since'[d] = since[d] /\ pending'[d] = Pruned[d]
        BY <2>1, <2>2, <3>2, Zenon DEF TypeOK
      <4> QED BY <3>1, <4>1
    <3>3. CASE d = e
      <4>1. /\ since'[d] = now
            /\ pending'[d] = Pruned[d] \/ pending'[d] = now + ENROLLMENT_LIFETIME
        BY <2>1, <2>2, <3>3, Zenon DEF TypeOK
      <4> QED BY <3>1, <4>1
    <3> QED BY <3>2, <3>3, Zenon
  <2> QED BY <2>1, <2>3, Zenon DEF Deadlines
<1>2. ASSUME NEW e \in Enrollments, GrantAnswered(e) PROVE Deadlines'
  <2>1. PICK life \in GrantLifetimes \ {0} :
          LET lifetime == IF life < ENROLLMENT_LIFETIME THEN life ELSE ENROLLMENT_LIFETIME
          IN  pending' = IF pending[e] # 0 THEN [pending EXCEPT ![e] = now + lifetime] ELSE pending
    BY <1>2, Zenon DEF GrantAnswered
  <2>2. now' = now /\ since' = [since EXCEPT ![e] = now]
    BY <1>2, Zenon DEF GrantAnswered
  <2>3. life \in Nat
    BY EnrollmentAssumption, Zenon
  <2> QED BY <2>1, <2>2, <2>3, EnrollmentAssumption DEF TypeOK, Deadlines
<1>3. ASSUME NEW e \in Enrollments, GrantFails(e) PROVE Deadlines'
  BY <1>3, EnrollmentAssumption DEF GrantFails, TypeOK, Deadlines
<1>4. ASSUME NEW c \in Calls, NEW e \in Enrollments, NEW kid \in 0 .. signing, Complete(c, e, kid)
      PROVE  Deadlines'
  BY <1>4, EnrollmentAssumption DEF Complete, TypeOK, Deadlines
<1>5. CASE UNCHANGED <<now, pending, since>>
  BY <1>5, Zenon DEF Deadlines
<1>6. ASSUME NEW c \in Calls,
             \/ FindKey(c) \/ KeyStep(c) \/ FetchAnswered(c) \/ FetchFails(c)
             \/ Verified(c) \/ EnrollDevice(c) \/ CallFails(c)
      PROVE  UNCHANGED <<now, pending, since>>
  BY <1>6, Zenon DEF FindKey, KeyStep, FindKeyAgain, RateLimited, StartFetch, FetchAnswered, FetchFails,
                     Verified, EnrollDevice, CallFails
<1>7. ASSUME NEW e \in Enrollments, GrantDropped(e) PROVE Deadlines'
  BY <1>5, <1>7, Zenon DEF GrantDropped
<1>8. CASE Tick
  BY <1>8, EnrollmentAssumption DEF Tick, TypeOK, Deadlines
<1>9. CASE RotateKey \/ UNCHANGED vars
  BY <1>5, <1>9, Zenon DEF RotateKey, vars
<1>10. ASSUME NEW e \in Enrollments, BeginStep(e) PROVE Deadlines'
  BY <1>1, <1>2, <1>3, <1>7, <1>10, Zenon DEF BeginStep, Begin, BeginDevice
<1>11. ASSUME NEW c \in Calls, CallStep(c) PROVE Deadlines'
  BY <1>4, <1>5, <1>6, <1>11, Zenon DEF CallStep
<1> QED BY <1>8, <1>9, <1>10, <1>11, Zenon DEF Next

(* A step that gives a call an enrollment is Complete, before the expiry.  *)
LEMMA StepAcceptsInTime ==
  ASSUME TypeOK, Deadlines, [Next]_vars, NEW c \in Calls, NEW e \in Enrollments,
         e \in call'[c].enrollment \ call[c].enrollment
  PROVE  now < since[e] + ENROLLMENT_LIFETIME
<1>1. call \in [Calls -> [enrollment : SUBSET Enrollments, kid : Nat]]
  BY Zenon DEF TypeOK
<1>2. ASSUME NEW d \in Calls, Finish(d) PROVE FALSE
  BY <1>1, <1>2, Zenon DEF Finish, NoCall
<1>3. ASSUME NEW d \in Calls,
             \/ FindKey(d) \/ KeyStep(d) \/ FetchAnswered(d) \/ FetchFails(d)
             \/ Verified(d) \/ EnrollDevice(d) \/ CallFails(d)
      PROVE  call' = call \/ Finish(d)
  BY <1>3, Zenon DEF FindKey, KeyStep, FindKeyAgain, RateLimited, StartFetch, FetchAnswered, FetchFails,
                     Verified, EnrollDevice, CallFails, Refuse
<1>4. ASSUME NEW d \in Enrollments, BeginStep(d) PROVE call' = call
  BY <1>4, Zenon DEF BeginStep, Begin, BeginDevice, InsertPending, GrantAnswered, GrantFails, GrantDropped
<1>5. ASSUME RotateKey \/ Tick \/ UNCHANGED vars PROVE call' = call
  BY <1>5, Zenon DEF RotateKey, Tick, vars
<1>6. call' # call
  BY Zenon
<1>7. PICK d \in Calls, f \in Enrollments, kid \in 0 .. signing : Complete(d, f, kid)
  <2>1. \E d \in Calls : CallStep(d)
    BY <1>4, <1>5, <1>6, Zenon DEF Next
  <2> QED BY <1>2, <1>3, <1>6, <2>1, Zenon DEF CallStep
<1>8. CASE pending[f] <= now
  BY <1>6, <1>7, <1>8, Zenon DEF Complete
<1>9. CASE ~(pending[f] <= now)
  <2>1. call' = [call EXCEPT ![d] = [enrollment |-> {f}, kid |-> kid]]
    BY <1>7, <1>9, Zenon DEF Complete
  <2>2. e = f
    BY <1>1, <2>1, Zenon
  <2> QED BY <1>9, <2>2, EnrollmentAssumption DEF TypeOK, Deadlines
<1> QED BY <1>8, <1>9, Zenon

(* complete accepts an enrollment only within its lifetime of the answer   *)
(* to the call that began it, whatever lifetime the identity provider      *)
(* gives the device code and however long expired ones stay in the map.    *)
THEOREM EnrollmentAcceptedInTime == Spec => AcceptedInTime
<1>1. Init => Deadlines
  BY EnrollmentAssumption DEF Init, Deadlines
<1>2. TypeOK /\ Deadlines /\ [Next]_vars => Deadlines'
  BY StepKeepsDeadlines, Zenon
<1>3. TypeOK /\ Deadlines /\ [Next]_vars
        => [\A c \in Calls, e \in Enrollments :
              e \in call'[c].enrollment \ call[c].enrollment
                => now < since[e] + ENROLLMENT_LIFETIME]_vars
  BY StepAcceptsInTime, Zenon
<1> QED BY <1>1, <1>2, <1>3, TypeCorrect, PTL DEF Spec, AcceptedInTime

(* Every step keeps the gate.                                              *)
LEMMA StepKeepsGate ==
  ASSUME TypeOK, Gated, [Next]_vars
  PROVE  Gated'
<1>1. pc \in [Calls -> Labels] /\ now \in Nat /\ fetched \in Nat \cup {-1}
  BY Zenon DEF TypeOK
<1>2. ASSUME NEW c \in Calls, UNCHANGED <<now, jwks>>, NEW l, l # "fetch",
             pc' = [pc EXCEPT ![c] = l] \/ pc' = pc
      PROVE  Gated'
  <2>1. \A d \in Calls : pc'[d] = "fetch" => pc[d] = "fetch"
    BY <1>1, <1>2, Zenon
  <2> QED BY <1>2, <2>1, Zenon DEF Gated
<1>3. ASSUME NEW c \in Calls,
             \/ \E e \in Enrollments, kid \in 0 .. signing : Complete(c, e, kid)
             \/ FindKey(c) \/ FindKeyAgain(c) \/ RateLimited(c)
             \/ Verified(c) \/ EnrollDevice(c) \/ CallFails(c)
      PROVE  /\ UNCHANGED <<now, jwks>>
             /\ \E l : l # "fetch" /\ (pc' = [pc EXCEPT ![c] = l] \/ pc' = pc)
  <2>1. CASE FindKey(c)
    BY <2>1, Zenon DEF FindKey, Goto
  <2>2. CASE ~FindKey(c)
    BY <1>3, <2>2, Zenon DEF Complete, FindKeyAgain, RateLimited, Verified, EnrollDevice, CallFails,
                             Refuse, Finish, Goto
  <2> QED BY <2>1, <2>2, Zenon
<1>4. ASSUME NEW c \in Calls, StartFetch(c) PROVE Gated'
  <2>1. /\ gate = {} /\ gate' = {c} /\ refresh' = now /\ fetched' = now /\ now' = now
        /\ pc' = [pc EXCEPT ![c] = "fetch"]
    BY <1>4, Zenon DEF StartFetch, Goto
  <2>2. \A d \in Calls : pc'[d] = "fetch" => d = c
    BY <1>1, <2>1, Zenon DEF Gated
  <2>3. now <= now + 1
    BY <1>1
  <2> QED BY <2>1, <2>2, <2>3, Zenon DEF Gated
<1>5. ASSUME NEW c \in Calls, FetchAnswered(c) \/ FetchFails(c) PROVE Gated'
  <2>1. /\ pc[c] = "fetch" /\ gate' = {} /\ UNCHANGED <<now, refresh, fetched>>
        /\ \E l : l # "fetch" /\ pc' = [pc EXCEPT ![c] = l]
    BY <1>5, Zenon DEF FetchAnswered, FetchFails, Refuse, Finish, Goto
  <2>2. gate = {c} /\ \A d \in Calls : pc[d] = "fetch" => d = c
    <3>1. \A d \in Calls : {d} = {c} => d = c
      BY Zenon
    <3> QED BY <2>1, <3>1, Zenon DEF Gated
  <2>3. \A d \in Calls : pc'[d] # "fetch"
    BY <1>1, <2>1, <2>2, Zenon
  <2> QED BY <2>1, <2>3, Zenon DEF Gated
<1>6. CASE Tick
  <2>1. /\ gate = {} \/ fetched = now
        /\ now' = now + 1 /\ UNCHANGED <<pc, gate, refresh, fetched>>
    BY <1>6, Zenon DEF Tick
  <2>2. fetched = now => now' <= fetched + 1
    BY <1>1, <2>1
  <2> QED BY <2>1, <2>2, Zenon DEF Gated
<1>7. CASE UNCHANGED <<now, pc, gate, refresh, fetched>>
  BY <1>7, Zenon DEF Gated
<1>8. ASSUME RotateKey \/ (\E e \in Enrollments : BeginStep(e)) \/ UNCHANGED vars
      PROVE  UNCHANGED <<now, pc, gate, refresh, fetched>>
  BY <1>8, Zenon DEF RotateKey, vars, BeginStep, Begin, BeginDevice, InsertPending, GrantAnswered,
                     GrantFails, GrantDropped
<1>9. ASSUME NEW c \in Calls, CallStep(c) PROVE Gated'
  BY <1>2, <1>3, <1>4, <1>5, <1>9, Zenon DEF CallStep, KeyStep
<1> QED BY <1>6, <1>7, <1>8, <1>9, Zenon DEF Next

(* A fetch begins after the cooldown of the one before.                    *)
LEMMA StepSpaces ==
  ASSUME TypeOK, Gated, [Next]_vars, fetched' # fetched
  PROVE  fetched = -1 \/ fetched' - fetched >= JWKS_REFRESH_COOLDOWN
<1>1. ASSUME RotateKey \/ Tick \/ (\E e \in Enrollments : BeginStep(e)) \/ UNCHANGED vars
      PROVE  FALSE
  BY <1>1, Zenon DEF RotateKey, Tick, vars, BeginStep, Begin, BeginDevice, InsertPending,
                     GrantAnswered, GrantFails, GrantDropped
<1>2. PICK c \in Calls : CallStep(c)
  BY <1>1, Zenon DEF Next
<1>3. StartFetch(c)
  BY <1>2, Zenon DEF CallStep, Complete, FindKey, KeyStep, FindKeyAgain, RateLimited, FetchAnswered,
                     FetchFails, Verified, EnrollDevice, CallFails
<1>4. fetched' = now /\ ~CoolingDown /\ fetched = refresh
  BY <1>3, Zenon DEF StartFetch, Gated
<1> QED BY <1>4, EnrollmentAssumption DEF CoolingDown, TypeOK

(* A call is refused with a look at the cache that misses its key, in the  *)
(* cooldown of a fetch.                                                    *)
LEMMA StepRefuses ==
  ASSUME TypeOK, Gated, [Next]_vars, NEW c \in Calls, pc[c] # "refused", pc'[c] = "refused"
  PROVE  ~InKeySet(call[c].kid, keys') /\ now - fetched < JWKS_REFRESH_COOLDOWN
<1>1. pc \in [Calls -> Labels]
  BY Zenon DEF TypeOK
<1>2. ASSUME RotateKey \/ Tick \/ (\E e \in Enrollments : BeginStep(e)) \/ UNCHANGED vars
      PROVE  FALSE
  BY <1>2, Zenon DEF RotateKey, Tick, vars, BeginStep, Begin, BeginDevice, InsertPending,
                     GrantAnswered, GrantFails, GrantDropped
<1>3. PICK d \in Calls : CallStep(d)
  BY <1>2, Zenon DEF Next
<1>4. ASSUME NEW l, l # "refused", pc' = [pc EXCEPT ![d] = l] \/ pc' = pc
      PROVE  FALSE
  BY <1>1, <1>4, Zenon
<1>5. ASSUME \/ \E e \in Enrollments, kid \in 0 .. signing : Complete(d, e, kid)
             \/ FindKey(d) \/ FindKeyAgain(d) \/ StartFetch(d) \/ FetchFails(d)
             \/ Verified(d) \/ EnrollDevice(d) \/ CallFails(d)
      PROVE  \E l : l # "refused" /\ (pc' = [pc EXCEPT ![d] = l] \/ pc' = pc)
  <2>1. CASE FindKey(d)
    BY <2>1, Zenon DEF FindKey, Goto
  <2>2. CASE ~FindKey(d)
    BY <1>5, <2>2, Zenon DEF Complete, FindKeyAgain, StartFetch, FetchFails, Verified, EnrollDevice,
                             CallFails, Finish, Goto
  <2> QED BY <2>1, <2>2, Zenon
<1>6. RateLimited(d) \/ FetchAnswered(d)
  BY <1>3, <1>4, <1>5, Zenon DEF CallStep, KeyStep
<1>7. CASE RateLimited(d)
  <2>1. /\ pc' = [pc EXCEPT ![d] = "refused"] /\ ~Cached(call[d].kid) /\ CoolingDown /\ keys' = keys
    BY <1>7, Zenon DEF RateLimited, Refuse, Goto
  <2>2. c = d
    BY <1>1, <2>1, Zenon
  <2> QED BY <2>1, <2>2, Zenon DEF Gated, CoolingDown, Cached
<1>8. CASE FetchAnswered(d)
  <2>1. pc[d] = "fetch" /\ keys' = signing
    BY <1>8, Zenon DEF FetchAnswered
  <2>2. ~InKeySet(call[d].kid, signing) /\ pc' = [pc EXCEPT ![d] = "refused"]
    BY <1>4, <1>8, Zenon DEF FetchAnswered, Refuse, Goto
  <2>3. c = d
    BY <1>1, <2>2, Zenon
  <2>4. now <= fetched + 1
    BY <2>1, Zenon DEF Gated
  <2>5. now - fetched < JWKS_REFRESH_COOLDOWN
    BY <2>4, EnrollmentAssumption DEF TypeOK
  <2> QED BY <2>1, <2>2, <2>3, <2>5, Zenon
<1> QED BY <1>6, <1>7, <1>8, Zenon

(* JwksCache asks for the keys at most once per cooldown, also after a     *)
(* failed or dropped fetch, and refuses a call only for a key that is not  *)
(* in the cache at that moment and only in the cooldown of a fetch: the    *)
(* two safety conjuncts of KeysRefreshed.                                  *)
THEOREM KeysRefreshedSafely == Spec => RefreshSpaced /\ RefusedOnlyUnknown
<1>1. Init => Gated
  BY Zenon DEF Init, Gated
<1>2. TypeOK /\ Gated /\ [Next]_vars => Gated'
  BY StepKeepsGate, Zenon
<1>3. TypeOK /\ Gated /\ [Next]_vars
        => [fetched' # fetched => fetched = -1 \/ fetched' - fetched >= JWKS_REFRESH_COOLDOWN]_vars
  BY StepSpaces, Zenon
<1>4. TypeOK /\ Gated /\ [Next]_vars
        => [\A c \in Calls :
              pc[c] # "refused" /\ pc'[c] = "refused" =>
                ~InKeySet(call[c].kid, keys') /\ now - fetched < JWKS_REFRESH_COOLDOWN]_vars
  BY StepRefuses, Zenon
<1> QED BY <1>1, <1>2, <1>3, <1>4, TypeCorrect, PTL DEF Spec, RefreshSpaced, RefusedOnlyUnknown

-----------------------------------------------------------------------------
(* Reports *)

(* The queues of events and messages.                                      *)
LEMMA HeadTail ==
  ASSUME NEW S, NEW s \in Seq(S), s # << >>
  PROVE  Head(s) \in S /\ Tail(s) \in Seq(S)
OBVIOUS

LEMMA AppendType ==
  ASSUME NEW S, NEW s \in Seq(S), NEW e \in S
  PROVE  Append(s, e) \in Seq(S)
OBVIOUS

LEMMA PrefixType ==
  ASSUME NEW S, NEW s \in Seq(S), NEW n \in 0 .. Len(s)
  PROVE  SubSeq(s, 1, n) \in Seq(S)
OBVIOUS


Ids       == Devices \cup {NoDevice}
Tokens    == {"ok", "rejected", "other"}
Responses == {"open", "closed", "unauthenticated", "denied"}
Rows      == [known : BOOLEAN, inventory : Versions \cup {Idle}, reports : BOOLEAN]

(* The events the local API lets through, and the messages an agent sends  *)
(* as device d.                                                            *)
Valid       == {e \in Events : validate_telemetry(e)}
Messages(d) == [type : {"hello"}, device : {d}] \cup [type : {"inventory"}, version : Versions]
               \cup [type : {"telemetry"}, event : Valid] \cup [type : {"status"}]

(* A stream of device d, none of whose reports was refused.                *)
StreamOf(d) == [device : {d}, token : Tokens, task : {"starting", "running", "ended"},
                why : {"none", "left", "unknown", "token", "database"},
                response : Responses, net : Seq(Messages(d))]

StreamsOK ==
    /\ streams \in [Streams -> UNION {StreamOf(d) : d \in Ids}]
    /\ \A s \in Streams : streams[s].task # "ended" => streams[s].device \in Devices

ReportsOK ==
    /\ disk \in Versions /\ noticed \in Versions /\ published \in Versions /\ seen \in Versions
    /\ event \in BOOLEAN /\ signal \in BOOLEAN /\ scan \in Versions \cup {Reading, Idle}
    /\ pipe \in Seq(Valid) /\ device \in Ids /\ token \in Tokens
    /\ current \in Streams \cup {NoStream}
    /\ StreamsOK
    /\ rows \in [Devices -> Rows] /\ deleted \subseteq Devices

(* What was seen, scanned and published is no newer than the files, and a  *)
(* scan is no older than the snapshot it will replace.                     *)
InOrder ==
    /\ noticed <= disk /\ published <= disk
    /\ scan \in Versions => published <= scan /\ scan <= disk

(* The inductive invariant. *)
FleetInv == ReportsOK /\ InOrder /\ NoLostWakeup /\ DeletedHasNoRows

----------------------------------------------------------------------------
(* The streams *)

(* What the local API accepts, the controller's insert accepts.            *)
LEMMA ValidStored ==
  ASSUME NEW e \in Valid
  PROVE  insert_telemetry(e)
<1>1. e \in [kind : {"session", "tool"}, client : Nat, name : Nat, use : Nat, input : Nat]
  BY EventsAssumption, Zenon DEF Valid
<1> QED
  BY <1>1 DEF Valid, validate_telemetry, insert_telemetry

(* A stream is of one device, and the messages in flight are that          *)
(* device's.                                                               *)
LEMMA StreamType ==
  ASSUME StreamsOK, NEW s \in Streams
  PROVE  /\ streams[s].device \in Ids /\ streams[s] \in StreamOf(streams[s].device)
         /\ streams[s].net \in Seq(Messages(streams[s].device))
<1>1. PICK d \in Ids : streams[s] \in StreamOf(d)
  BY Zenon DEF StreamsOK
<1>2. streams[s].device = d
  BY <1>1, Zenon DEF StreamOf
<1>3. streams[s].net \in Seq(Messages(d))
  BY <1>1, Zenon DEF StreamOf
<1> QED
  BY <1>1, <1>2, <1>3, Zenon

(* A step that replaces one stream by a well-formed one keeps all of them  *)
(* well formed.                                                            *)
LEMMA StreamUpdate ==
  ASSUME StreamsOK, NEW s \in Streams, NEW d \in Ids, NEW x \in StreamOf(d),
         x.task # "ended" => d \in Devices,
         streams' = [streams EXCEPT ![s] = x]
  PROVE  StreamsOK'
<1>1. x \in UNION {StreamOf(i) : i \in Ids}
  BY Zenon
<1>2. x.device = d
  BY Zenon DEF StreamOf
<1>3. streams \in [Streams -> UNION {StreamOf(i) : i \in Ids}]
  BY Zenon DEF StreamsOK
<1>4. streams' \in [Streams -> UNION {StreamOf(i) : i \in Ids}]
  BY <1>1, <1>3, Zenon
<1>5. \A t \in Streams : streams'[t] = IF t = s THEN x ELSE streams[t]
  BY <1>3, Zenon
<1> QED
  BY <1>2, <1>4, <1>5, Zenon DEF StreamsOK

(* A message is sent, read or lost.                                        *)
LEMMA NetUpdate ==
  ASSUME StreamsOK, NEW s \in Streams, NEW n \in Seq(Messages(streams[s].device)),
         streams' = [streams EXCEPT ![s].net = n]
  PROVE  StreamsOK'
<1> DEFINE d == streams[s].device
           x == [streams[s] EXCEPT !.net = n]
<1>1. d \in Ids /\ streams[s] \in StreamOf(d)
  BY StreamType, Zenon
<1>2. x \in StreamOf(d) /\ x.task = streams[s].task
  BY <1>1, Zenon DEF StreamOf
<1>3. streams' = [streams EXCEPT ![s] = x]
  BY Zenon DEF StreamsOK
<1>4. x.task # "ended" => d \in Devices
  BY <1>2, Zenon DEF StreamsOK
<1> HIDE DEF x, d
<1> QED
  BY <1>1, <1>2, <1>3, <1>4, StreamUpdate, Zenon

(* The reading task ends.                                                  *)
LEMMA EndUpdate ==
  ASSUME StreamsOK, NEW s \in Streams,
         NEW why \in {"none", "left", "unknown", "token", "database"}, NEW r \in Responses,
         End(s, why, r)
  PROVE  StreamsOK'
<1> DEFINE x == Ended(why, IF streams[s].response = "open" THEN r ELSE "closed")
<1>1. x \in StreamOf(NoDevice) /\ x.task = "ended"
  BY DEF Ended, StreamOf, Tokens, Responses
<1>2. streams' = [streams EXCEPT ![s] = x]
  BY Zenon DEF End
<1>3. NoDevice \in Ids
  BY Zenon DEF Ids
<1> HIDE DEF x
<1> QED
  BY <1>1, <1>2, <1>3, StreamUpdate, Zenon

(* The agent leaves its stream.                                            *)
LEMMA LeaveUpdate ==
  ASSUME ReportsOK, Attached, NEW n \in Seq(Messages(streams[current].device)), Leave(n)
  PROVE  StreamsOK' /\ current' = NoStream
<1> DEFINE d == streams[current].device
           x == [streams[current] EXCEPT !.response = "closed", !.net = n]
<1>1. current \in Streams /\ StreamsOK
  BY Zenon DEF ReportsOK, Attached
<1>2. d \in Ids /\ streams[current] \in StreamOf(d)
  BY <1>1, StreamType, Zenon
<1>3. x \in StreamOf(d) /\ x.task = streams[current].task
  BY <1>2, Zenon DEF StreamOf, Responses
<1>4. streams' = [streams EXCEPT ![current] = x] /\ current' = NoStream
  BY <1>1, Zenon DEF StreamsOK, Leave
<1>5. x.task # "ended" => d \in Devices
  BY <1>1, <1>3, Zenon DEF StreamsOK
<1> HIDE DEF x, d
<1> QED
  BY <1>1, <1>2, <1>3, <1>4, <1>5, StreamUpdate, Zenon

(* The agent sends a message.                                              *)
LEMMA SendUpdate ==
  ASSUME ReportsOK, Attached, NEW m \in Messages(streams[current].device), send(m)
  PROVE  StreamsOK'
<1>1. current \in Streams /\ StreamsOK
  BY Zenon DEF ReportsOK, Attached
<1>2. streams[current].net \in Seq(Messages(streams[current].device))
  BY <1>1, StreamType, Zenon
<1>3. Append(streams[current].net, m) \in Seq(Messages(streams[current].device))
  BY <1>2
<1>4. PICK n \in Seq(Messages(streams[current].device)) : streams' = [streams EXCEPT ![current].net = n]
  BY <1>2, <1>3, Zenon DEF send
<1> QED
  BY <1>1, <1>4, NetUpdate, Zenon

(* The reading task stores a message of a device whose row it finds, and   *)
(* otherwise ends for an unknown device: no message that a device of this  *)
(* code sends is refused as malformed.                                     *)
LEMMA HandleUpdate ==
  ASSUME ReportsOK, NEW s \in Streams, streams[s].task = "running", streams[s].net # <<>>,
         NEW m, m = Head(streams[s].net)
  PROVE  /\ Outcome(s, m) \in {"stored", "unknown"}
         /\ Outcome(s, m) = "stored" => m.type = "hello" \/ rows[streams[s].device].known
         /\ m \in Messages(streams[s].device) /\ streams[s].device \in Devices
         /\ Tail(streams[s].net) \in Seq(Messages(streams[s].device))
<1> DEFINE d == streams[s].device
<1>1. d \in Devices /\ streams[s].net \in Seq(Messages(d))
  BY StreamType, Zenon DEF ReportsOK, StreamsOK
<1>2. m \in Messages(d) /\ Tail(streams[s].net) \in Seq(Messages(d))
  BY <1>1, HeadTail, Zenon
<1>3. CASE m \in [type : {"hello"}, device : {d}]
  BY <1>1, <1>2, <1>3, Zenon DEF Outcome
<1>4. CASE m \in [type : {"telemetry"}, event : Valid]
  <2>1. m.type = "telemetry" /\ insert_telemetry(m.event)
    BY <1>4, ValidStored, Zenon
  <2> QED
    BY <1>1, <1>2, <2>1, Zenon DEF Outcome
<1>5. CASE m \in [type : {"inventory"}, version : Versions] \cup [type : {"status"}]
  <2>1. m.type \in {"inventory", "status"}
    BY <1>5, Zenon
  <2> QED
    BY <1>1, <1>2, <2>1, Zenon DEF Outcome
<1> QED
  BY <1>2, <1>3, <1>4, <1>5, Zenon DEF Messages

----------------------------------------------------------------------------
(* Types *)

(* Everything but the streams.                                             *)
OthersOK ==
    /\ disk \in Versions /\ noticed \in Versions /\ published \in Versions /\ seen \in Versions
    /\ event \in BOOLEAN /\ signal \in BOOLEAN /\ scan \in Versions \cup {Reading, Idle}
    /\ pipe \in Seq(Valid) /\ device \in Ids /\ token \in Tokens
    /\ current \in Streams \cup {NoStream}
    /\ rows \in [Devices -> Rows] /\ deleted \subseteq Devices

(* The types of the streams and of all the rest, apart.                    *)
LEMMA TypeSplit == ReportsOK <=> StreamsOK /\ OthersOK
  BY Zenon DEF ReportsOK, OthersOK

(* The same of the next state.                                             *)
LEMMA TypeSplitNext == ReportsOK' <=> StreamsOK' /\ OthersOK'
  BY Zenon DEF ReportsOK, OthersOK

(* A step that leaves the streams alone.                                   *)
LEMMA StreamsFrame ==
  ASSUME StreamsOK, streams' = streams
  PROVE  StreamsOK'
  BY Zenon DEF StreamsOK

(* Every step keeps the streams well formed.                               *)
LEMMA StreamsKeep ==
  ASSUME ReportsOK, [FleetNext]_fleet
  PROVE  StreamsOK'
<1>a. StreamsOK /\ OthersOK
  BY TypeSplit, Zenon
<1>b. ASSUME Attached PROVE current \in Streams
  BY <1>a, <1>b, Zenon DEF OthersOK, Attached
<1>1. CASE SendInventory
  <2>1. snapshot(published) \in Messages(streams[current].device)
    BY <1>a, Zenon DEF OthersOK, snapshot, Messages
  <2> QED
    BY <1>1, <2>1, SendUpdate, Zenon DEF SendInventory
<1>2. CASE SendTelemetry
  <2>1. Head(pipe) \in Valid
    BY <1>2, <1>a, HeadTail, Zenon DEF OthersOK, SendTelemetry
  <2>2. use(Head(pipe)) \in Messages(streams[current].device)
    BY <2>1, Zenon DEF use, Messages
  <2> QED
    BY <1>2, <2>2, SendUpdate, Zenon DEF SendTelemetry
<1>3. CASE SendStatus
  <2>1. status \in Messages(streams[current].device)
    BY Zenon DEF status, Messages
  <2> QED
    BY <1>3, <2>1, SendUpdate, Zenon DEF SendStatus
<1>4. CASE OauthReconnect
  <2>1. Attached /\ Leave(streams[current].net)
    BY <1>4, Zenon DEF OauthReconnect
  <2>2. streams[current].net \in Seq(Messages(streams[current].device))
    BY <2>1, <1>a, <1>b, StreamType, Zenon
  <2> QED
    BY <2>1, <2>2, LeaveUpdate, Zenon
<1>5. CASE StreamLost
  <2>1. PICK n \in 0 .. Len(streams[current].net) : Leave(SubSeq(streams[current].net, 1, n))
    BY <1>5, Zenon DEF StreamLost
  <2>2. Attached
    BY <1>5, Zenon DEF StreamLost
  <2>3. streams[current].net \in Seq(Messages(streams[current].device))
    BY <2>2, <1>a, <1>b, StreamType, Zenon
  <2>4. SubSeq(streams[current].net, 1, n) \in Seq(Messages(streams[current].device))
    BY <2>3, PrefixType, Zenon
  <2> QED
    BY <2>1, <2>2, <2>4, LeaveUpdate, Zenon
<1>6. CASE ReadStatus
  <2>1. Attached /\ Leave(<<>>)
    BY <1>6, Zenon DEF ReadStatus
  <2>2. <<>> \in Seq(Messages(streams[current].device))
    OBVIOUS
  <2> QED
    BY <2>1, <2>2, LeaveUpdate, Zenon
<1>7. CASE TokenChanges
  <2>1. PICK t \in {"rejected", "other"} :
          streams' = [s \in Streams |-> IF s = current THEN [streams[s] EXCEPT !.token = t]
                                                       ELSE streams[s]]
    BY <1>7, Zenon DEF TokenChanges
  <2>2. ASSUME NEW s \in Streams
        PROVE  /\ streams'[s] \in UNION {StreamOf(d) : d \in Ids}
               /\ streams'[s].task = streams[s].task /\ streams'[s].device = streams[s].device
    <3> DEFINE x == [streams[s] EXCEPT !.token = t]
               d == streams[s].device
    <3>1. d \in Ids /\ streams[s] \in StreamOf(d)
      BY <1>a, StreamType, Zenon
    <3>2. x \in StreamOf(d) /\ x.task = streams[s].task /\ x.device = d
      BY <3>1, Zenon DEF StreamOf, Tokens
    <3>3. streams'[s] = x \/ streams'[s] = streams[s]
      BY <2>1, Zenon
    <3> HIDE DEF x
    <3> QED
      BY <3>1, <3>2, <3>3, Zenon
  <2>3. streams' \in [Streams -> UNION {StreamOf(d) : d \in Ids}]
    BY <2>1, <2>2, Zenon
  <2> QED
    BY <1>a, <2>2, <2>3, Zenon DEF StreamsOK
<1>8. ASSUME NEW s \in Streams, Connect(s)
      PROVE  StreamsOK'
  <2> DEFINE x == [device |-> device, token |-> token, task |-> "starting", why |-> "none",
                   response |-> "open", net |-> <<hello(device), snapshot(published)>>]
  <2>1. streams' = [streams EXCEPT ![s] = x] /\ device \in Devices
    BY <1>8, <1>a, Zenon DEF Connect, OthersOK, Ids
  <2>2. hello(device) \in Messages(device) /\ snapshot(published) \in Messages(device)
    BY <1>a, Zenon DEF OthersOK, hello, snapshot, Messages
  <2>3. <<hello(device), snapshot(published)>> \in Seq(Messages(device))
    BY <2>2
  <2>4. x \in StreamOf(device)
    BY <1>a, <2>3, Zenon DEF OthersOK, StreamOf, Responses
  <2> HIDE DEF x
  <2>5. device \in Ids
    BY <2>1, Zenon DEF Ids
  <2> QED
    BY <1>a, <2>1, <2>4, <2>5, StreamUpdate, Zenon
<1>9. ASSUME NEW s \in Streams, device_principal(s)
      PROVE  StreamsOK'
  <2>1. CASE End(s, "unknown", "open")
    BY <1>a, <2>1, EndUpdate, Zenon DEF Responses
  <2>2. CASE streams' = [streams EXCEPT ![s].task = "running"] /\ streams[s].task = "starting"
    <3> DEFINE d == streams[s].device
               x == [streams[s] EXCEPT !.task = "running"]
    <3>1. d \in Ids /\ streams[s] \in StreamOf(d) /\ d \in Devices
      BY <1>a, <2>2, StreamType, Zenon DEF StreamsOK
    <3>2. x \in StreamOf(d)
      BY <3>1, Zenon DEF StreamOf
    <3>3. streams' = [streams EXCEPT ![s] = x]
      BY <1>a, <2>2, Zenon DEF StreamsOK
    <3> HIDE DEF x, d
    <3> QED
      BY <1>a, <3>1, <3>2, <3>3, StreamUpdate, ZenonT(30)
  <2> QED
    BY <1>9, <2>1, <2>2, Zenon DEF device_principal
<1>10. ASSUME NEW s \in Streams, Revalidate(s)
       PROVE  StreamsOK'
  <2>1. End(s, "token", IF streams[s].token = "other" THEN "denied" ELSE "unauthenticated")
    BY <1>10, Zenon DEF Revalidate
  <2> QED
    BY <1>a, <2>1, EndUpdate, Zenon DEF Responses
<1>11. ASSUME NEW s \in Streams, handle_agent_message(s)
       PROVE  StreamsOK'
  <2> DEFINE m == Head(streams[s].net)
  <2>1. streams[s].task = "running" /\ streams[s].net # <<>>
    BY <1>11, Zenon DEF handle_agent_message
  <2>2. /\ Outcome(s, m) \in {"stored", "unknown"}
        /\ Tail(streams[s].net) \in Seq(Messages(streams[s].device))
    BY <2>1, HandleUpdate, Zenon
  <2>3. CASE Outcome(s, m) # "stored"
    <3>1. End(s, "unknown", "open")
      BY <1>11, <2>2, <2>3, Zenon DEF handle_agent_message
    <3> QED
      BY <1>a, <3>1, EndUpdate, Zenon DEF Responses
  <2>4. CASE Outcome(s, m) = "stored"
    <3>1. streams' = [streams EXCEPT ![s].net = Tail(streams[s].net)]
      BY <1>a, <1>11, <2>4, Zenon DEF handle_agent_message, StreamsOK
    <3> QED
      BY <1>a, <2>2, <3>1, NetUpdate, Zenon
  <2> QED
    BY <2>3, <2>4, Zenon
<1>12. ASSUME NEW s \in Streams, DatabaseFails(s)
       PROVE  StreamsOK'
  BY <1>a, <1>12, EndUpdate, Zenon DEF DatabaseFails, Responses
<1>13. ASSUME NEW s \in Streams, EndOfStream(s)
       PROVE  StreamsOK'
  BY <1>a, <1>13, EndUpdate, Zenon DEF EndOfStream, Responses
<1>14. CASE streams' = streams
  BY <1>a, <1>14, StreamsFrame, Zenon
<1>15. ASSUME FleetNext
       PROVE  \/ streams' = streams
              \/ SendInventory \/ SendTelemetry \/ SendStatus \/ OauthReconnect \/ StreamLost
              \/ ReadStatus \/ TokenChanges
              \/ \E s \in Streams : \/ Connect(s) \/ device_principal(s) \/ Revalidate(s)
                                    \/ handle_agent_message(s) \/ DatabaseFails(s) \/ EndOfStream(s)
  BY <1>15, Zenon DEF FleetNext, Refresher, Session, Reader, Change, Debounced, Wake, Scan, Publish,
     PostTelemetry, ConnectRejected, ConnectDatabaseFails, Rejected, Refresh, enroll_device,
     delete_device, service
<1>16. CASE UNCHANGED fleet
  BY <1>16, <1>14, Zenon DEF fleet, service
<1> QED
  BY <1>1, <1>2, <1>3, <1>4, <1>5, <1>6, <1>7, <1>8, <1>9, <1>10, <1>11, <1>12, <1>13, <1>14,
     <1>15, <1>16, ZenonT(30)

(* The rows stay rows, whatever message is stored.                         *)
LEMMA StoredType ==
  ASSUME NEW r \in Rows, NEW d, NEW m \in Messages(d)
  PROVE  Stored(r, m) \in Rows /\ (m.type = "hello" => Stored(r, m) = r)
<1>1. CASE m.type = "hello"
  BY <1>1, Zenon DEF Stored
<1>2. CASE m.type = "inventory"
  <2>1. m.version \in Versions
    BY <1>2, Zenon DEF Messages
  <2> QED
    BY <1>2, <2>1, Zenon DEF Stored, Rows
<1>3. CASE m.type \notin {"hello", "inventory"}
  BY <1>3, Zenon DEF Stored, Rows
<1> QED
  BY <1>1, <1>2, <1>3, Zenon

(* A missing row and a new one are rows.                                   *)
LEMMA RowConstants == NoRow \in Rows /\ FreshRow \in Rows /\ NoRow.known = FALSE
  BY Zenon DEF NoRow, FreshRow, Rows

(* Every step keeps the types of the device's state and of the tables.     *)
LEMMA OthersKeep ==
  ASSUME ReportsOK, [FleetNext]_fleet
  PROVE  OthersOK'
<1> USE DEF inventory, agent, service, counters
<1>a. StreamsOK /\ OthersOK
  BY TypeSplit, Zenon
<1>1. CASE Change
  <2>1. disk' \in Versions
    BY <1>1, <1>a, BoundsAssumption DEF OthersOK, Change, Versions
  <2>2. noticed' \in Versions /\ event' \in BOOLEAN
    BY <1>1, <1>a, <2>1, Zenon DEF OthersOK, Change
  <2> QED
    BY <1>1, <1>a, <2>1, <2>2, Zenon DEF OthersOK, Change
<1>2. CASE Refresher
  <2>1. signal' \in BOOLEAN /\ event' \in BOOLEAN
    BY <1>2, <1>a, Zenon DEF OthersOK, Refresher, Debounced, Wake, Scan, Publish
  <2>2. scan' \in Versions \cup {Reading, Idle} /\ published' \in Versions
    BY <1>2, <1>a, Zenon DEF OthersOK, Refresher, Debounced, Wake, Scan, Publish
  <2> QED
    BY <1>2, <1>a, <2>1, <2>2, Zenon DEF OthersOK, Refresher, Debounced, Wake, Scan, Publish
<1>3. ASSUME NEW e \in Events, PostTelemetry(e)
      PROVE  OthersOK'
  <2>1. pipe' \in Seq(Valid)
    <3>1. pipe \in Seq(Valid)
      BY <1>a, Zenon DEF OthersOK
    <3>2. validate_telemetry(e) => Append(pipe, e) \in Seq(Valid)
      BY <3>1, AppendType, Zenon DEF Valid
    <3> QED
      BY <1>3, <3>1, <3>2, Zenon DEF PostTelemetry
  <2> QED
    BY <1>3, <1>a, <2>1, Zenon DEF OthersOK, PostTelemetry
<1>4. CASE ConnectRejected \/ ConnectDatabaseFails \/ Refresh
  BY <1>4, <1>a, Zenon DEF OthersOK, ConnectRejected, ConnectDatabaseFails, Rejected, Refresh, Ids,
     Tokens
<1>5. CASE enroll_device
  <2>1. device' \in FreshIds
    BY <1>5, Zenon DEF enroll_device
  <2>2. device' \in Devices
    BY <2>1, Zenon DEF FreshIds
  <2>3. rows' \in [Devices -> Rows]
    BY <1>5, <1>a, <2>2, RowConstants, Zenon DEF OthersOK, enroll_device
  <2> QED
    BY <1>5, <1>a, <2>2, <2>3, Zenon DEF OthersOK, enroll_device, Ids, Tokens
<1>6. CASE ReadStatus
  <2>1. current' = NoStream
    BY <1>6, Zenon DEF ReadStatus, Leave
  <2> QED
    BY <1>6, <1>a, <2>1, Zenon DEF OthersOK, ReadStatus, Ids
<1>7. CASE OauthReconnect
  BY <1>7, <1>a, Zenon DEF OthersOK, OauthReconnect, Leave, Tokens
<1>8. CASE SendInventory
  BY <1>8, <1>a, Zenon DEF OthersOK, SendInventory
<1>9. CASE SendTelemetry
  <2>1. pipe' \in Seq(Valid)
    BY <1>9, <1>a, HeadTail, Zenon DEF OthersOK, SendTelemetry
  <2> QED
    BY <1>9, <1>a, <2>1, Zenon DEF OthersOK, SendTelemetry
<1>10. CASE SendStatus
  BY <1>10, <1>a, Zenon DEF OthersOK, SendStatus
<1>11. CASE StreamLost
  BY <1>11, <1>a, Zenon DEF OthersOK, StreamLost, Leave
<1>12. CASE TokenChanges
  BY <1>12, <1>a, Zenon DEF OthersOK, TokenChanges, Tokens
<1>13. ASSUME NEW s \in Streams, Connect(s)
       PROVE  OthersOK'
  BY <1>13, <1>a, Zenon DEF OthersOK, Connect
<1>14. ASSUME NEW s \in Streams, \/ device_principal(s) \/ Revalidate(s)
                                 \/ EndOfStream(s) \/ DatabaseFails(s)
       PROVE  OthersOK'
  BY <1>14, <1>a, Zenon DEF OthersOK, device_principal, Revalidate, EndOfStream, DatabaseFails
<1>15. ASSUME NEW s \in Streams, handle_agent_message(s)
       PROVE  OthersOK'
  <2> DEFINE m == Head(streams[s].net)
             d == streams[s].device
  <2>1. streams[s].task = "running" /\ streams[s].net # <<>>
    BY <1>15, Zenon DEF handle_agent_message
  <2>2. m \in Messages(d) /\ d \in Devices
    BY <2>1, HandleUpdate, Zenon
  <2>3. rows' = rows \/ rows' = [rows EXCEPT ![d] = Stored(rows[d], m)]
    BY <1>15, Zenon DEF handle_agent_message
  <2>4. rows \in [Devices -> Rows]
    BY <1>a, Zenon DEF OthersOK
  <2>5. Stored(rows[d], m) \in Rows
    BY <2>2, <2>4, StoredType, Zenon
  <2> HIDE DEF m, d
  <2>6. rows' \in [Devices -> Rows]
    BY <2>2, <2>3, <2>4, <2>5, Zenon
  <2> QED
    BY <1>15, <1>a, <2>6, Zenon DEF OthersOK, handle_agent_message
<1>16. ASSUME NEW d \in Devices, delete_device(d)
       PROVE  OthersOK'
  <2>1. rows' \in [Devices -> Rows] /\ deleted' \subseteq Devices
    BY <1>16, <1>a, RowConstants, Zenon DEF OthersOK, delete_device
  <2> QED
    BY <1>16, <1>a, <2>1, Zenon DEF OthersOK, delete_device
<1>17. CASE UNCHANGED fleet
  BY <1>17, <1>a, Zenon DEF OthersOK, fleet
<1> QED
  BY <1>1, <1>2, <1>3, <1>4, <1>5, <1>6, <1>7, <1>8, <1>9, <1>10, <1>11, <1>12, <1>13, <1>14,
     <1>15, <1>16, <1>17, ZenonT(30) DEF FleetNext, Session, Reader

----------------------------------------------------------------------------
(* The inventory and the deleted devices *)

(* Watch, debouncer, change channel, scan and snapshot keep their order,   *)
(* and a noticed change stays signalled until a scan begins after it.      *)
LEMMA InventoryKeeps ==
  ASSUME ReportsOK, InOrder, NoLostWakeup, [FleetNext]_fleet
  PROVE  InOrder' /\ NoLostWakeup'
<1>a. /\ disk \in Int /\ noticed \in Int /\ published \in Int
      /\ Reading \notin Versions /\ Idle \notin Versions /\ Versions \subseteq Int
      /\ Reading # Idle
  BY BoundsAssumption DEF ReportsOK, Versions, Reading, Idle
<1> USE DEF InOrder, NoLostWakeup
<1>1. CASE Change
  <2>1. /\ disk' = disk + 1 /\ scan' = scan /\ published' = published /\ signal' = signal
        /\ (event' /\ noticed' = disk') \/ (event' = event /\ noticed' = noticed)
    BY <1>1, Zenon DEF Change
  <2>2. scan \in Versions => scan \in Int
    BY <1>a, Zenon
  <2> HIDE DEF NoLostWakeup
  <2>3. InOrder'
    BY <1>a, <2>1, <2>2
  <2>4. NoLostWakeup'
    BY <2>1, Zenon DEF NoLostWakeup
  <2> QED
    BY <2>3, <2>4, Zenon
<1>2. CASE Debounced
  BY <1>2, <1>a, Zenon DEF Debounced
<1>3. CASE Wake
  BY <1>3, <1>a, Zenon DEF Wake
<1>4. CASE Scan
  <2>1. /\ scan' = disk /\ disk \in Versions /\ UNCHANGED <<disk, noticed, published, event, signal>>
    BY <1>4, Zenon DEF ReportsOK, Scan
  <2> QED
    BY <2>1, <1>a
<1>5. CASE Publish
  <2>1. /\ scan \in Versions /\ published' = scan /\ scan' = Idle
        /\ UNCHANGED <<disk, noticed, event, signal>>
    BY <1>5, Zenon DEF Publish
  <2>2. scan \in Int /\ scan # Reading
    BY <2>1, <1>a, Zenon
  <2> QED
    BY <2>1, <2>2, <1>a
<1>6. CASE UNCHANGED inventory
  BY <1>6, Zenon DEF inventory
<1>7. \/ Change \/ Debounced \/ Wake \/ Scan \/ Publish \/ UNCHANGED inventory
  BY Zenon DEF FleetNext, fleet, Refresher, Session, Reader, PostTelemetry, ConnectRejected,
     ConnectDatabaseFails, Rejected, Refresh, enroll_device, ReadStatus, OauthReconnect, SendInventory, SendTelemetry, SendStatus, StreamLost,
     TokenChanges, Connect, device_principal, Revalidate, handle_agent_message, EndOfStream,
     DatabaseFails, delete_device
<1> QED
  BY <1>1, <1>2, <1>3, <1>4, <1>5, <1>6, <1>7, ZenonT(30)

(* delete_device removes every row of the device in one transaction, and   *)
(* no task that still reads a stream of it puts one back.                  *)
LEMMA DeletedKeeps ==
  ASSUME ReportsOK, DeletedHasNoRows, [FleetNext]_fleet
  PROVE  DeletedHasNoRows'
<1>a. rows \in [Devices -> Rows] /\ deleted \subseteq Devices
  BY Zenon DEF ReportsOK
<1>1. CASE enroll_device
  <2>1. device' \in FreshIds /\ rows' = [rows EXCEPT ![device'] = FreshRow] /\ deleted' = deleted
    BY <1>1, Zenon DEF enroll_device
  <2>2. device' \notin deleted
    BY <2>1, Zenon DEF FreshIds
  <2> QED
    BY <1>a, <2>1, <2>2, Zenon DEF DeletedHasNoRows
<1>2. ASSUME NEW s \in Streams, handle_agent_message(s)
      PROVE  DeletedHasNoRows'
  <2> DEFINE m == Head(streams[s].net)
             d == streams[s].device
  <2>1. streams[s].task = "running" /\ streams[s].net # <<>>
    BY <1>2, Zenon DEF handle_agent_message
  <2>2. /\ Outcome(s, m) = "stored" => m.type = "hello" \/ rows[d].known
        /\ m \in Messages(d) /\ d \in Devices
    BY <2>1, HandleUpdate, Zenon
  <2>3. \/ rows' = rows
        \/ rows' = [rows EXCEPT ![d] = Stored(rows[d], m)] /\ Outcome(s, m) = "stored"
    BY <1>2, Zenon DEF handle_agent_message
  <2>4. d \in deleted /\ Outcome(s, m) = "stored" => Stored(rows[d], m) = rows[d]
    <3>1. d \in deleted => ~ rows[d].known
      BY RowConstants, Zenon DEF DeletedHasNoRows
    <3>2. m.type = "hello" => Stored(rows[d], m) = rows[d]
      BY <1>a, <2>2, StoredType, Zenon
    <3> QED
      BY <2>2, <3>1, <3>2, Zenon
  <2>5. deleted' = deleted
    BY <1>2, Zenon DEF handle_agent_message
  <2> HIDE DEF m, d
  <2> QED
    BY <1>a, <2>2, <2>3, <2>4, <2>5, Zenon DEF DeletedHasNoRows
<1>3. ASSUME NEW d \in Devices, delete_device(d)
      PROVE  DeletedHasNoRows'
  BY <1>3, <1>a, Zenon DEF delete_device, DeletedHasNoRows
<1>4. CASE rows' = rows /\ deleted' = deleted
  BY <1>4, Zenon DEF DeletedHasNoRows
<1>5. \/ enroll_device \/ \E s \in Streams : handle_agent_message(s)
      \/ \E d \in Devices : delete_device(d)
      \/ rows' = rows /\ deleted' = deleted
  BY Zenon DEF FleetNext, fleet, service, Refresher, Session, Reader, Change, Debounced, Wake, Scan, Publish,
     PostTelemetry, ConnectRejected, ConnectDatabaseFails, Rejected, Refresh,
     ReadStatus, OauthReconnect, SendInventory, SendTelemetry, SendStatus, StreamLost,
     TokenChanges, Connect, device_principal, Revalidate, EndOfStream, DatabaseFails
<1> QED
  BY <1>1, <1>2, <1>3, <1>4, <1>5, Zenon

----------------------------------------------------------------------------
(* The theorems *)

(* The invariant holds when device and controller start.                   *)
LEMMA InitFleetInv ==
  ASSUME FleetInit
  PROVE  FleetInv
<1>1. 0 \in Versions /\ NoDevice \in Ids
  BY BoundsAssumption DEF Versions, Ids
<1>2. StreamsOK
  <2>1. Ended("left", "closed") \in StreamOf(NoDevice) /\ Ended("left", "closed").task = "ended"
    BY DEF Ended, StreamOf, Tokens, Responses
  <2> QED
    BY <1>1, <2>1, Zenon DEF FleetInit, StreamsOK
<1>3. OthersOK
  <2>1. pipe \in Seq(Valid) /\ rows \in [Devices -> Rows]
    BY RowConstants DEF FleetInit
  <2> QED
    BY <1>1, <2>1, Zenon DEF FleetInit, OthersOK, Tokens
<1>4. ReportsOK
  BY <1>2, <1>3, TypeSplit, Zenon
<1>5. Idle \notin Versions
  BY BoundsAssumption DEF Versions, Idle
<1>6. InOrder /\ NoLostWakeup /\ DeletedHasNoRows
  BY <1>5 DEF FleetInit, InOrder, NoLostWakeup, DeletedHasNoRows
<1> QED
  BY <1>4, <1>6, Zenon DEF FleetInv

(* The inductive invariant holds in every reachable state.                 *)
THEOREM FleetInvariance == FleetSpec => []FleetInv
<1>1. FleetInit => FleetInv
  BY InitFleetInv, Zenon
<1>2. FleetInv /\ [FleetNext]_fleet => FleetInv'
  <2> SUFFICES ASSUME FleetInv, [FleetNext]_fleet PROVE FleetInv'
    BY Zenon
  <2>1. ReportsOK'
    BY StreamsKeep, OthersKeep, TypeSplitNext, Zenon DEF FleetInv
  <2>2. InOrder' /\ NoLostWakeup' /\ DeletedHasNoRows'
    BY InventoryKeeps, DeletedKeeps, Zenon DEF FleetInv
  <2> QED
    BY <2>1, <2>2, Zenon DEF FleetInv
<1> QED
  BY <1>1, <1>2, PTL DEF FleetSpec

(* A change the file watch has seen is never forgotten by the refresher,   *)
(* however changes, debounced signals, wake-ups and scans interleave       *)
(* (refresh_inventory_with).                                               *)
THEOREM WakeupKept == FleetSpec => []NoLostWakeup
<1>1. FleetInv => NoLostWakeup
  BY Zenon DEF FleetInv
<1> QED
  BY <1>1, FleetInvariance, PTL

(* What the local API lets through and the agent sends never ends the      *)
(* controller's reading task: validate_telemetry refuses what the insert   *)
(* refuses, and a hello names the device of its stream.                    *)
THEOREM ReportsAccepted == FleetSpec => []ReportsNeverBreak
<1>1. FleetInv => ReportsNeverBreak
  <2> SUFFICES ASSUME FleetInv, NEW s \in Streams
               PROVE  streams[s].why \notin {"refused", "mismatch"}
    BY Zenon DEF ReportsNeverBreak
  <2>1. streams[s] \in StreamOf(streams[s].device)
    BY StreamType, Zenon DEF FleetInv, ReportsOK
  <2> QED
    BY <2>1, Zenon DEF StreamOf
<1> QED
  BY <1>1, FleetInvariance, PTL

(* A deleted device has no rows in any table, whatever its open streams    *)
(* still deliver: the foreign keys refuse them, a hello updates no row,    *)
(* and no later enrollment gets its id.                                    *)
THEOREM DeletedGone == FleetSpec => []DeletedHasNoRows
<1>1. FleetInv => DeletedHasNoRows
  BY Zenon DEF FleetInv
<1> QED
  BY <1>1, FleetInvariance, PTL
=============================================================================
