-------------------------- MODULE MatchStoreProofs --------------------------
(***************************************************************************)
(* What is proved of MatchStore for any users, matches, rounds, sizes of   *)
(* the pool and of a page, and any number of crashes.                      *)
(***************************************************************************)
EXTENDS MatchStore, FiniteSetTheorems, TLAPS

-----------------------------------------------------------------------------
(* The invariant.                                                          *)

Stamped == {m \in Match : stamp[m] > 0}

(* A transaction is its session's, which makes one at most.                *)
SessionFits ==
  \A m \in Match :
    /\ status[m] = "none" => session[m] = "none"
    /\ tx[m] # "none" => session[m] = "completing" /\ stamp[m] > 0
    /\ session[m] # "over" => status[m] # "completed"
    /\ status[m] = "completed" => stamp[m] > 0
    /\ tx[m] = "none" /\ session[m] # "over" => stamp[m] = 0

(* No two transactions began at the same time.                             *)
StampsDiffer ==
  /\ \A m \in Stamped : stamp[m] <= Cardinality(Stamped)
  /\ \A m, n \in Stamped : m # n => stamp[m] # stamp[n]

(* A match that was read as completed is completed.                        *)
DetailFits ==
  detail.pc # "idle" =>
    /\ detail.status = "completed" => status[detail.match] = "completed"
    /\ detail.pc = "shown" /\ detail.status = "completed" => detail.rows = rows[detail.match]

(* What the app has still to see is not before what it asks for next.      *)
PagingFits ==
  paging.pc # "idle" =>
    /\ paging.due \subseteq Listed(paging.user)
    /\ paging.pc = "reading" =>
         \A m \in paging.due \ paging.seen : Newer(paging.user, m) >= paging.shown
    /\ paging.pc = "done" => paging.due \subseteq paging.seen

IInv == TypeOK /\ SessionFits /\ StampsDiffer /\ DetailFits /\ PagingFits

-----------------------------------------------------------------------------
(* Places in a list.                                                       *)

LEMMA NewerType ==
  ASSUME TypeOK, NEW u \in User, NEW m \in Listed(u)
  PROVE  /\ IsFiniteSet(Listed(u))
         /\ Cardinality(Listed(u)) \in Nat
         /\ Newer(u, m) \in Nat
         /\ Newer(u, m) < Cardinality(Listed(u))
<1> DEFINE N == {n \in Listed(u) : stamp[n] > stamp[m]}
<1>1. IsFiniteSet(Listed(u))
  BY FS_Subset, StoreAssumption DEF Listed
<1>2. Cardinality(Listed(u)) \in Nat
  BY <1>1, FS_CardinalityType
<1>3. IsFiniteSet(Listed(u) \ {m}) /\ Cardinality(Listed(u) \ {m}) = Cardinality(Listed(u)) - 1
  BY <1>1, FS_RemoveElement
<1>4. N \in SUBSET (Listed(u) \ {m})
  BY DEF TypeOK, Listed
<1>5. IsFiniteSet(N) /\ Cardinality(N) <= Cardinality(Listed(u) \ {m})
  BY <1>3, <1>4, FS_Subset
<1>6. Cardinality(N) \in Nat
  BY <1>5, FS_CardinalityType
<1> QED
  BY <1>1, <1>2, <1>3, <1>5, <1>6 DEF Newer

(* Of two matches the older one comes after the newer one and all that are *)
(* before it.                                                              *)
LEMMA OlderIsFurther ==
  ASSUME TypeOK, NEW u \in User, NEW m \in Listed(u), NEW n \in Listed(u),
         stamp[m] > stamp[n]
  PROVE  Newer(u, n) >= Newer(u, m) + 1
<1> DEFINE M == {k \in Listed(u) : stamp[k] > stamp[m]}
<1> DEFINE N == {k \in Listed(u) : stamp[k] > stamp[n]}
<1>1. IsFiniteSet(Listed(u))
  BY NewerType
<1>2. IsFiniteSet(M) /\ IsFiniteSet(N)
  BY <1>1, FS_Subset
<1>3. Cardinality(M \cup {m}) = Cardinality(M) + 1 /\ Cardinality(M) \in Nat
  <2>1. m \notin M
    BY DEF TypeOK, Listed
  <2> QED
    BY <1>2, <2>1, FS_AddElement, FS_CardinalityType
<1>4. M \cup {m} \in SUBSET N
  BY DEF TypeOK, Listed
<1>5. Cardinality(M \cup {m}) <= Cardinality(N)
  BY <1>2, <1>4, FS_Subset
<1>6. Cardinality(N) \in Nat
  BY <1>2, FS_CardinalityType
<1> HIDE DEF M, N
<1>7. Cardinality(N) >= Cardinality(M) + 1
  BY <1>3, <1>5, <1>6
<1> QED
  BY <1>7 DEF Newer, M, N

(* Two matches never have the same place.                                  *)
LEMMA PlacesDiffer ==
  ASSUME TypeOK, SessionFits, StampsDiffer, NEW u \in User,
         NEW m \in Listed(u), NEW n \in Listed(u), m # n
  PROVE  Newer(u, m) # Newer(u, n)
<1>1. m \in Stamped /\ n \in Stamped
  BY DEF Listed, SessionFits, Stamped
<1>2. stamp[m] \in Nat /\ stamp[n] \in Nat /\ stamp[m] # stamp[n]
  BY <1>1 DEF StampsDiffer, TypeOK, Stamped
<1>3. Newer(u, m) \in Nat /\ Newer(u, n) \in Nat
  BY NewerType
<1>4. CASE stamp[m] > stamp[n]
  BY <1>3, <1>4, OlderIsFurther
<1>5. CASE stamp[n] > stamp[m]
  BY <1>3, <1>5, OlderIsFurther
<1> QED
  BY <1>2, <1>4, <1>5

(* There is a match at every place there are matches after.                *)
LEMMA NoPlaceIsEmpty ==
  ASSUME TypeOK, SessionFits, StampsDiffer, NEW u \in User, NEW m \in Listed(u),
         NEW k \in Nat, k <= Newer(u, m)
  PROVE  \E n \in Listed(u) : Newer(u, n) = k
<1> DEFINE size == Cardinality(Listed(u))
           places == 0..(size - 1)
           place == [n \in Listed(u) |-> Newer(u, n)]
<1>1. IsFiniteSet(Listed(u)) /\ size \in Nat /\ Newer(u, m) \in Nat /\ Newer(u, m) < size
  BY NewerType
<1>2. IsFiniteSet(places) /\ Cardinality(places) = size
  <2>1. 0 \in Int /\ size - 1 \in Int
    BY <1>1
  <2>2. IsFiniteSet(places) /\ Cardinality(places) = IF 0 > size - 1 THEN 0 ELSE size - 1 - 0 + 1
    BY <2>1, FS_Interval
  <2> QED
    BY <1>1, <2>2
<1>3. place \in Injection(Listed(u), places)
  <2>1. \A n \in Listed(u) : Newer(u, n) \in places
    BY NewerType
  <2>2. \A n1, n2 \in Listed(u) : Newer(u, n1) = Newer(u, n2) => n1 = n2
    BY PlacesDiffer
  <2> QED
    BY <2>1, <2>2 DEF Injection, IsInjective
<1>4. place \in Surjection(Listed(u), places)
  BY <1>2, <1>3, FS_Injection
<1>5. k \in places
  BY <1>1
<1> QED
  BY <1>4, <1>5 DEF Surjection

(* A page is no larger than its limit.                                     *)
LEMMA PageFits ==
  ASSUME TypeOK, SessionFits, StampsDiffer, NEW u \in User, NEW k \in Nat
  PROVE  /\ Page(u, k) \subseteq Listed(u)
         /\ Cardinality(Page(u, k)) \in 0..PageLimit
<1> DEFINE places == k..(k + PageLimit - 1)
           place == [n \in Page(u, k) |-> Newer(u, n)]
<1>1. PageLimit \in Nat \ {0}
  BY StoreAssumption
<1>2. IsFiniteSet(places) /\ Cardinality(places) = PageLimit
  <2> DEFINE last == k + PageLimit - 1
  <2>1. k \in Int /\ last \in Int
    BY <1>1
  <2> HIDE DEF last
  <2>2. IsFiniteSet(k..last) /\ Cardinality(k..last) = IF k > last THEN 0 ELSE last - k + 1
    BY <2>1, FS_Interval
  <2> QED
    BY <1>1, <2>2 DEF last
<1>3. Page(u, k) \subseteq Listed(u)
  BY DEF Page
<1>4. place \in Injection(Page(u, k), places)
  <2>1. \A n \in Page(u, k) : Newer(u, n) \in places
    BY DEF Page
  <2>2. \A n1, n2 \in Page(u, k) : Newer(u, n1) = Newer(u, n2) => n1 = n2
    BY <1>3, PlacesDiffer
  <2> QED
    BY <2>1, <2>2 DEF Injection, IsInjective
<1>5. IsFiniteSet(Page(u, k)) /\ Cardinality(Page(u, k)) <= PageLimit
  BY <1>2, <1>4, FS_Injection
<1>6. Cardinality(Page(u, k)) \in Nat
  BY <1>5, FS_CardinalityType
<1> QED
  BY <1>1, <1>3, <1>5, <1>6

(* A match that is not before a page is in it or after it, and after it    *)
(* only if the page is not empty.                                          *)
LEMMA PageAdvances ==
  ASSUME TypeOK, SessionFits, StampsDiffer, NEW u \in User, NEW k \in Nat,
         NEW m \in Listed(u), Newer(u, m) >= k, m \notin Page(u, k)
  PROVE  /\ Newer(u, m) >= k + Cardinality(Page(u, k))
         /\ Page(u, k) # {}
<1>1. PageLimit \in Nat \ {0} /\ Newer(u, m) \in Nat
  BY StoreAssumption, NewerType
<1>2. Newer(u, m) >= k + PageLimit
  BY <1>1 DEF Page
<1>3. Cardinality(Page(u, k)) \in 0..PageLimit
  BY PageFits
<1>4. PICK n \in Listed(u) : Newer(u, n) = k
  BY <1>1, NoPlaceIsEmpty
<1>5. n \in Page(u, k)
  BY <1>1, <1>4 DEF Page
<1> QED
  BY <1>1, <1>2, <1>3, <1>5

(* Matches that are completed meanwhile push the others further back only. *)
LEMMA PagingKept ==
  ASSUME TypeOK, TypeOK', PagingFits, UNCHANGED paging,
         \A m \in Match : status[m] = "completed" =>
                            status'[m] = "completed" /\ stamp'[m] = stamp[m]
  PROVE  PagingFits'
<1>1. SUFFICES ASSUME paging.pc # "idle"
               PROVE  /\ paging.due \subseteq Listed(paging.user)'
                      /\ paging.pc = "reading" =>
                           \A m \in paging.due \ paging.seen :
                             Newer(paging.user, m)' >= paging.shown
                      /\ paging.pc = "done" => paging.due \subseteq paging.seen
  BY DEF PagingFits
<1> DEFINE u == paging.user
<1>2. u \in User /\ paging.shown \in Nat
  BY <1>1 DEF TypeOK, NoPaging
<1>3. Listed(u) \subseteq Listed(u)'
  BY DEF Listed
<1>4. paging.due \subseteq Listed(u)
  BY <1>1 DEF PagingFits
<1>5. ASSUME NEW m \in Listed(u) PROVE Newer(u, m)' >= Newer(u, m)
  <2> DEFINE N == {n \in Listed(u) : stamp[n] > stamp[m]}
             NN == {n \in Listed(u)' : stamp'[n] > stamp'[m]}
  <2>1. N \in SUBSET NN
    BY <1>3 DEF Listed
  <2>2. IsFiniteSet(NN)
    <3>1. NN \in SUBSET Match
      BY DEF Listed
    <3> QED
      BY <3>1, FS_Subset, StoreAssumption
  <2>3. Cardinality(N) <= Cardinality(NN)
    BY <2>1, <2>2, FS_Subset
  <2>4. IsFiniteSet(N) /\ Cardinality(N) \in Nat /\ Cardinality(NN) \in Nat
    BY <2>1, <2>2, FS_Subset, FS_CardinalityType
  <2>5. Newer(u, m) = Cardinality(N) /\ Newer(u, m)' = Cardinality(NN)
    BY DEF Newer
  <2> QED
    BY <2>3, <2>4, <2>5
<1>6. ASSUME paging.pc = "reading", NEW m \in paging.due \ paging.seen
      PROVE  Newer(u, m)' >= paging.shown
  <2>1. m \in Listed(u) /\ Newer(u, m) >= paging.shown
    BY <1>1, <1>4, <1>6 DEF PagingFits
  <2>2. Newer(u, m) \in Nat
    BY <1>2, <2>1, NewerType
  <2>3. m \in Listed(u)'
    BY <1>3, <2>1
  <2>4. Newer(u, m)' \in Nat
    <3>1. IsFiniteSet({n \in Listed(u)' : stamp'[n] > stamp'[m]})
      <4>1. {n \in Listed(u)' : stamp'[n] > stamp'[m]} \in SUBSET Match
        BY DEF Listed
      <4> QED
        BY <4>1, FS_Subset, StoreAssumption
    <3> QED
      BY <3>1, FS_CardinalityType DEF Newer
  <2> QED
    BY <1>2, <1>5, <2>1, <2>2, <2>4
<1> QED
  BY <1>1, <1>3, <1>4, <1>6 DEF PagingFits

-----------------------------------------------------------------------------
(* The invariant is kept.                                                  *)

LEMMA InitEstablishes == Init => IInv
<1> SUFFICES ASSUME Init PROVE IInv
  OBVIOUS
<1>1. TypeOK
  BY StoreAssumption DEF Init, TypeOK
<1> QED
  BY <1>1 DEF Init, IInv, SessionFits, StampsDiffer, Stamped, DetailFits, PagingFits,
              NoDetail, NoPaging

(* Steps that change neither the tables nor the readers nor, but in ending *)
(* them, the sessions.                                                     *)
LEMMA SessionStepKeeps ==
  ASSUME IInv, TypeOK', SessionFits', UNCHANGED <<status, stamp, paging>>,
         detail' \in {detail, NoDetail},
         \A m \in Match : status[m] = "completed" => rows'[m] = rows[m]
  PROVE  IInv'
<1>1. StampsDiffer'
  BY DEF IInv, StampsDiffer, Stamped
<1>2. DetailFits'
  BY DEF IInv, DetailFits, NoDetail, TypeOK
<1>3. PagingFits'
  BY PagingKept DEF IInv
<1> QED
  BY <1>1, <1>2, <1>3 DEF IInv

LEMMA NextPreserves == IInv /\ [Next]_vars => IInv'
<1> SUFFICES ASSUME IInv, [Next]_vars PROVE IInv'
  OBVIOUS
<1>0. /\ IsFiniteSet(Match) /\ Rounds \in Nat
      /\ TypeOK /\ SessionFits /\ StampsDiffer /\ DetailFits /\ PagingFits
  BY StoreAssumption DEF IInv
<1> USE DEF games, tables, readers
<1>1. ASSUME NEW m \in Match, CreateMatch(m) PROVE IInv'
  <2>1. TypeOK'
    BY <1>0, <1>1 DEF CreateMatch, TypeOK
  <2>2. SessionFits'
    BY <1>0, <1>1 DEF CreateMatch, SessionFits, TypeOK
  <2>3. StampsDiffer'
    BY <1>0, <1>1 DEF CreateMatch, StampsDiffer, Stamped
  <2>4. DetailFits'
    BY <1>0, <1>1 DEF CreateMatch, DetailFits, TypeOK
  <2>5. PagingFits'
    BY <1>0, <1>1, <2>1, PagingKept DEF CreateMatch, TypeOK
  <2> QED
    BY <2>1, <2>2, <2>3, <2>4, <2>5 DEF IInv
<1>2. ASSUME NEW m \in Match, PlayRound(m) PROVE IInv'
  <2>1. TypeOK'
    BY <1>0, <1>2 DEF PlayRound, RoundsLeft, TypeOK
  <2>2. SessionFits'
    BY <1>0, <1>2 DEF PlayRound, RoundsLeft, SessionFits, TypeOK
  <2>3. \A n \in Match : status[n] = "completed" => rows'[n] = rows[n]
    BY <1>0, <1>2 DEF PlayRound, RoundsLeft, SessionFits, TypeOK
  <2> QED
    BY <1>2, <2>1, <2>2, <2>3, SessionStepKeeps DEF PlayRound, RoundsLeft
<1>3. ASSUME NEW m \in Match, Abandon(m) \/ FinishGame(m) PROVE IInv'
  <2>1. /\ session[m] = "playing"
        /\ \/ session' = [session EXCEPT ![m] = "over"]
           \/ session' = [session EXCEPT ![m] = "completing"]
        /\ UNCHANGED <<server, starts, round, tx, tables, readers>>
    BY <1>3 DEF Abandon, RoundsLeft, FinishGame
  <2>2. TypeOK'
    BY <1>0, <2>1 DEF TypeOK
  <2>3. SessionFits'
    BY <1>0, <2>1 DEF SessionFits, TypeOK
  <2> QED
    BY <2>1, <2>2, <2>3, SessionStepKeeps
<1>4. ASSUME NEW m \in Match, Begin(m) PROVE IInv'
  <2> DEFINE before == Cardinality(Stamped)
  <2>1. IsFiniteSet(Stamped) /\ before \in Nat
    BY <1>0, FS_Subset, FS_CardinalityType DEF Stamped
  <2>2. StampOf(m) = before + 1
    BY <2>1 DEF StampOf, Stamped
  <2>3. stamp' = [stamp EXCEPT ![m] = before + 1]
    BY <1>4, <2>2 DEF Begin
  <2>4. stamp[m] = 0 /\ m \notin Stamped
    BY <1>0, <1>4 DEF Begin, SessionFits, TypeOK, Stamped
  <2>5. Stamped' = Stamped \cup {m}
    <3>1. \A n \in Match : stamp'[n] = IF n = m THEN before + 1 ELSE stamp[n]
      BY <1>0, <2>3 DEF TypeOK
    <3> HIDE DEF before
    <3> QED
      BY <2>1, <3>1 DEF Stamped
  <2>6. Cardinality(Stamped') = before + 1
    BY <2>1, <2>4, <2>5, FS_AddElement
  <2>7. TypeOK'
    BY <1>0, <1>4, <2>1, <2>3 DEF Begin, TypeOK
  <2>8. SessionFits'
    BY <1>0, <1>4, <2>1, <2>3 DEF Begin, SessionFits, TypeOK
  <2>9. StampsDiffer'
    <3>1. \A n \in Stamped : stamp[n] <= before /\ stamp'[n] = stamp[n] /\ stamp[n] \in Nat
      BY <1>0, <2>3, <2>4 DEF StampsDiffer, Stamped, TypeOK
    <3>2. stamp'[m] = before + 1
      BY <1>0, <2>3 DEF TypeOK
    <3> HIDE DEF before
    <3> QED
      BY <1>0, <2>1, <2>5, <2>6, <3>1, <3>2 DEF StampsDiffer
  <2>10. DetailFits'
    BY <1>0, <1>4 DEF Begin, DetailFits
  <2>11. PagingFits'
    <3>1. \A n \in Match : status[n] = "completed" =>
                            status'[n] = "completed" /\ stamp'[n] = stamp[n]
      BY <1>0, <1>4, <2>3 DEF Begin, SessionFits, TypeOK
    <3> QED
      BY <1>0, <1>4, <2>7, <3>1, PagingKept DEF Begin
  <2> QED
    BY <2>7, <2>8, <2>9, <2>10, <2>11 DEF IInv
<1>5. ASSUME NEW m \in Match, CompleteMatch(m) \/ UpdateBothRatings(m) PROVE IInv'
  <2>1. /\ tx[m] # "none"
        /\ \/ tx' = [tx EXCEPT ![m] = "completed"]
           \/ tx' = [tx EXCEPT ![m] = "rated"]
        /\ UNCHANGED <<server, starts, session, round, tables, readers>>
    BY <1>5 DEF CompleteMatch, UpdateBothRatings, Written
  <2>2. TypeOK'
    BY <1>0, <2>1 DEF TypeOK
  <2>3. SessionFits'
    BY <1>0, <2>1 DEF SessionFits, TypeOK
  <2> QED
    BY <2>1, <2>2, <2>3, SessionStepKeeps
<1>6. ASSUME NEW m \in Match, Commit(m) PROVE IInv'
  <2>1. TypeOK'
    <3>1. ratedBy' \in [User -> Match \cup {NoMatch}]
      BY <1>0, <1>6 DEF Commit, TypeOK
    <3> QED
      BY <1>0, <1>6, <3>1 DEF Commit, TypeOK
  <2>2. SessionFits'
    BY <1>0, <1>6 DEF Commit, SessionFits, TypeOK
  <2>3. StampsDiffer'
    BY <1>0, <1>6 DEF Commit, StampsDiffer, Stamped
  <2>4. DetailFits'
    BY <1>0, <1>6 DEF Commit, DetailFits, TypeOK
  <2>5. PagingFits'
    <3>1. \A n \in Match : status[n] = "completed" =>
                            status'[n] = "completed" /\ stamp'[n] = stamp[n]
      BY <1>0, <1>6 DEF Commit, TypeOK
    <3> QED
      BY <1>0, <1>6, <2>1, <3>1, PagingKept DEF Commit
  <2> QED
    BY <2>1, <2>2, <2>3, <2>4, <2>5 DEF IInv
<1>7. ASSUME NEW m \in Match, Fail(m) PROVE IInv'
  <2>1. TypeOK'
    BY <1>0, <1>7 DEF Fail, RolledBack, TypeOK
  <2>2. SessionFits'
    BY <1>0, <1>7 DEF Fail, RolledBack, SessionFits, TypeOK
  <2> QED
    BY <1>7, <2>1, <2>2, SessionStepKeeps DEF Fail
<1>8. CASE Crash \/ Exit
  <2>1. Lost
    BY <1>8 DEF Crash, Exit
  <2>2. TypeOK'
    <3>1. others' \in 0..MaxOthers
      BY <2>1, StoreAssumption DEF Lost
    <3> QED
      BY <1>0, <2>1, <3>1 DEF Lost, TypeOK
  <2>3. SessionFits'
    BY <1>0, <2>1 DEF Lost, SessionFits, TypeOK
  <2> QED
    BY <2>1, <2>2, <2>3, SessionStepKeeps DEF Lost
<1>9. CASE ClosePool \/ Start
  <2>1. /\ UNCHANGED <<games, tables, readers>>
        /\ server' \in {"up", "closing"} /\ starts' \in {starts, starts + 1}
    BY <1>9 DEF ClosePool, Start
  <2>2. TypeOK'
    BY <1>0, <2>1 DEF TypeOK
  <2>3. SessionFits'
    BY <1>0, <2>1 DEF SessionFits
  <2> QED
    BY <2>1, <2>2, <2>3, SessionStepKeeps
<1>10. ASSUME NEW m \in Match, ReadMatch(m) PROVE IInv'
  <2>1. /\ detail' = [pc |-> "half", match |-> m, status |-> status[m], rows |-> {}]
        /\ UNCHANGED <<server, starts, games, tables, paging, others>>
    BY <1>10 DEF ReadMatch, Read, Queries
  <2>2. TypeOK'
    BY <1>0, <2>1 DEF TypeOK
  <2>3. SessionFits' /\ StampsDiffer' /\ DetailFits'
    BY <1>0, <2>1 DEF SessionFits, StampsDiffer, Stamped, DetailFits
  <2>4. PagingFits'
    BY <1>0, <2>1, <2>2, PagingKept
  <2> QED
    BY <2>2, <2>3, <2>4 DEF IInv
<1>11. ASSUME NEW u \in User, ReadRounds(u) PROVE IInv'
  <2>1. /\ \/ detail' = NoDetail
           \/ detail' = [pc |-> "shown", match |-> detail.match, status |-> detail.status,
                         rows |-> rows[detail.match]]
        /\ detail.pc = "half"
        /\ UNCHANGED <<server, starts, games, tables, paging, others>>
    <3>1. detail \in [pc : {"half", "shown"}, match : Match,
                      status : {"none", "active", "completed"}, rows : SUBSET (1..Rounds)]
      BY <1>0, <1>11 DEF ReadRounds, TypeOK, NoDetail
    <3>2. Read(detail, Queries[2]) = [detail EXCEPT !.rows = rows[detail.match]]
      BY DEF Read, Queries
    <3>3. Read(detail, Queries[2]) = [pc |-> detail.pc, match |-> detail.match,
                                      status |-> detail.status, rows |-> rows[detail.match]]
      BY <3>1, <3>2
    <3>4. [Read(detail, Queries[2]) EXCEPT !.pc = "shown"] =
            [pc |-> "shown", match |-> detail.match, status |-> detail.status,
             rows |-> rows[detail.match]]
      BY <3>3
    <3> QED
      BY <1>11, <3>4 DEF ReadRounds
  <2>2. detail.match \in Match /\ detail.status \in {"none", "active", "completed"}
    BY <1>0, <2>1 DEF TypeOK, NoDetail
  <2>3. TypeOK'
    BY <1>0, <2>1, <2>2 DEF TypeOK
  <2>4. SessionFits' /\ StampsDiffer'
    BY <1>0, <2>1 DEF SessionFits, StampsDiffer, Stamped
  <2>5. DetailFits'
    BY <1>0, <2>1 DEF DetailFits, NoDetail
  <2>6. PagingFits'
    BY <1>0, <2>1, <2>3, PagingKept
  <2> QED
    BY <2>3, <2>4, <2>5, <2>6 DEF IInv
<1>12. ASSUME NEW u \in User, StartPaging(u) PROVE IInv'
  <2>1. /\ paging' = [pc |-> "reading", user |-> u, shown |-> 0, seen |-> {},
                      due |-> Listed(u)]
        /\ UNCHANGED <<server, starts, games, tables, detail, others>>
    BY <1>12 DEF StartPaging
  <2>2. Listed(u)' = Listed(u)
    BY <2>1 DEF Listed
  <2>3. TypeOK'
    BY <1>0, <2>1 DEF TypeOK, Listed
  <2>4. SessionFits' /\ StampsDiffer' /\ DetailFits'
    BY <1>0, <2>1 DEF SessionFits, StampsDiffer, Stamped, DetailFits
  <2>5. \A m \in Listed(u) : Newer(u, m)' >= 0
    <3>1. \A m \in Listed(u) : Newer(u, m)' = Newer(u, m)
      BY <2>1 DEF Newer, Listed
    <3> QED
      BY <1>0, <3>1, NewerType
  <2>6. PagingFits'
    BY <2>1, <2>2, <2>5 DEF PagingFits
  <2> QED
    BY <2>3, <2>4, <2>6 DEF IInv
<1>13. CASE NextPage
  <2> DEFINE u == paging.user
             page == Page(u, paging.shown)
  <2>1. /\ paging.pc = "reading"
        /\ paging' = IF page = {} THEN [paging EXCEPT !.pc = "done"]
                     ELSE [paging EXCEPT !.shown = @ + Cardinality(page),
                                         !.seen = @ \cup page]
        /\ UNCHANGED <<server, starts, games, tables, detail, others>>
    BY <1>13 DEF NextPage, Offset
  <2>2. /\ u \in User /\ paging.shown \in Nat
        /\ paging.due \subseteq Match /\ paging.seen \subseteq Match
        /\ paging \in [pc : {"reading", "done"}, user : User, shown : Nat,
                       seen : SUBSET Match, due : SUBSET Match]
    BY <1>0, <2>1 DEF TypeOK, NoPaging
  <2>3. page \subseteq Listed(u) /\ Cardinality(page) \in Nat
    BY <1>0, <2>2, PageFits, StoreAssumption
  <2>4. page \subseteq Match
    BY <2>3 DEF Listed
  <2>5. TypeOK'
    <3>1. paging' \in [pc : {"reading", "done"}, user : User, shown : Nat,
                       seen : SUBSET Match, due : SUBSET Match]
      <4>1. paging.shown + Cardinality(page) \in Nat /\ paging.seen \cup page \subseteq Match
        BY <2>2, <2>3, <2>4
      <4> HIDE DEF page
      <4>2. CASE page = {}
        <5>1. paging' = [paging EXCEPT !.pc = "done"]
          BY <2>1, <4>2
        <5> QED
          BY <2>2, <5>1
      <4>3. CASE page # {}
        <5>1. paging' = [paging EXCEPT !.shown = paging.shown + Cardinality(page),
                                       !.seen = paging.seen \cup page]
          BY <2>1, <4>3
        <5> QED
          BY <2>2, <4>1, <5>1
      <4> QED
        BY <4>2, <4>3
    <3> QED
      BY <1>0, <2>1, <3>1 DEF TypeOK
  <2>6. SessionFits' /\ StampsDiffer' /\ DetailFits'
    BY <1>0, <2>1 DEF SessionFits, StampsDiffer, Stamped, DetailFits
  <2>7. paging.due \subseteq Listed(u)
    BY <1>0, <2>1 DEF PagingFits
  <2>8. ASSUME NEW m \in paging.due \ paging.seen, m \notin page
        PROVE  Newer(u, m) >= paging.shown + Cardinality(page) /\ page # {}
    <3>1. m \in Listed(u) /\ Newer(u, m) >= paging.shown
      BY <1>0, <2>1, <2>7 DEF PagingFits
    <3> QED
      BY <1>0, <2>2, <2>8, <3>1, PageAdvances
  <2>9. Listed(u)' = Listed(u) /\ \A m \in Listed(u) : Newer(u, m)' = Newer(u, m)
    BY <2>1 DEF Newer, Listed
  <2> HIDE DEF page
  <2>10. PagingFits'
    <3>1. CASE page = {}
      <4>1. paging.due \subseteq paging.seen
        BY <2>8, <3>1
      <4>2. /\ paging'.pc = "done" /\ paging'.user = u
            /\ paging'.due = paging.due /\ paging'.seen = paging.seen
        BY <2>1, <2>2, <3>1
      <4> QED
        BY <2>7, <2>9, <4>1, <4>2 DEF PagingFits
    <3>2. CASE page # {}
      <4>1. /\ paging'.pc = "reading" /\ paging'.user = u
            /\ paging'.due = paging.due /\ paging'.seen = paging.seen \cup page
            /\ paging'.shown = paging.shown + Cardinality(page)
        BY <2>1, <2>2, <3>2
      <4>2. \A m \in paging'.due \ paging'.seen : Newer(u, m)' >= paging'.shown
        BY <2>7, <2>8, <2>9, <4>1
      <4> QED
        BY <2>7, <2>9, <4>1, <4>2 DEF PagingFits
    <3> QED
      BY <3>1, <3>2
  <2> QED
    BY <2>5, <2>6, <2>10 DEF IInv
<1>14. CASE UNCHANGED vars
  <2>1. TypeOK'
    BY <1>0, <1>14 DEF vars, TypeOK
  <2>2. SessionFits'
    BY <1>0, <1>14 DEF vars, SessionFits
  <2> QED
    BY <1>14, <2>1, <2>2, SessionStepKeeps DEF vars
<1>15. CASE OtherQuery \/ OtherReturns
  <2>1. /\ UNCHANGED <<server, starts, games, tables, detail, paging>>
        /\ others' \in 0..MaxOthers
    BY <1>0, <1>15, StoreAssumption DEF OtherQuery, OtherReturns, TypeOK
  <2>2. TypeOK'
    BY <1>0, <2>1 DEF TypeOK
  <2>3. SessionFits'
    BY <1>0, <2>1 DEF SessionFits
  <2> QED
    BY <2>1, <2>2, <2>3, SessionStepKeeps
<1> QED
  BY <1>1, <1>2, <1>3, <1>4, <1>5, <1>6, <1>7, <1>8, <1>9, <1>10, <1>11, <1>12, <1>13, <1>14,
     <1>15
     DEF Next, Transact

(* IInv is an invariant of the specification.                              *)
THEOREM Invariance == Spec => []IInv
<1>1. Init => IInv
  BY InitEstablishes
<1>2. IInv /\ [Next]_vars => IInv'
  BY NextPreserves
<1> QED
  BY <1>1, <1>2, PTL DEF Spec

(* The variables keep their types.                                         *)
THEOREM TypeCorrect == Spec => []TypeOK
BY Invariance, PTL DEF IInv

(* A completed match is never shown with only some of its rounds.          *)
THEOREM DetailsAreWhole == Spec => []WholeDetail
<1>1. IInv => WholeDetail
  BY DEF IInv, DetailFits, WholeDetail
<1> QED
  BY <1>1, Invariance, PTL

(* Paging by limit and offset leaves nothing out, for every limit and any  *)
(* number of matches completed meanwhile.                                  *)
THEOREM PagesMissNothing == Spec => []PagingMissesNothing
<1>1. IInv => PagingMissesNothing
  BY DEF IInv, PagingFits, PagingMissesNothing
<1> QED
  BY <1>1, Invariance, PTL

-----------------------------------------------------------------------------
(* The refinement.                                                         *)

(* Only a commit changes what the abstract specification sees.             *)
LEMMA StepRefines == IInv /\ [Next]_vars => [Abstract!Next]_(Abstract!vars)
<1> SUFFICES ASSUME IInv, [Next]_vars PROVE [Abstract!Next]_(Abstract!vars)
  OBVIOUS
<1> DEFINE Completed == {m \in Match : status[m] = "completed"}
<1> USE DEF games, tables, readers
<1>1. ASSUME NEW m \in Match, Commit(m) PROVE Abstract!Next
  <2>1. m \notin Completed
    BY <1>1 DEF Commit, IInv, SessionFits
  <2>2. Completed' = Completed \cup {m}
    BY <1>1 DEF Commit, IInv, TypeOK
  <2>3. ratedBy' = [u \in User |-> IF u \in PlayersOf[m] THEN m ELSE ratedBy[u]]
    BY <1>1 DEF Commit
  <2>4. Abstract!Record(m)
    BY <2>1, <2>2, <2>3 DEF Abstract!Record
  <2> QED
    BY <2>4 DEF Abstract!Next
<1>2. ASSUME Completed' = Completed, UNCHANGED ratedBy PROVE UNCHANGED Abstract!vars
  BY <1>2 DEF Abstract!vars
<1>3. ASSUME NEW m \in Match, CreateMatch(m) PROVE UNCHANGED Abstract!vars
  <2>1. Completed' = Completed
    BY <1>3 DEF CreateMatch, IInv, TypeOK
  <2> QED
    BY <1>2, <1>3, <2>1 DEF CreateMatch
<1>4. ASSUME UNCHANGED <<status, ratedBy>> PROVE UNCHANGED Abstract!vars
  BY <1>2, <1>4
<1>5. ASSUME NEW m \in Match, PlayRound(m) \/ Abandon(m) \/ FinishGame(m) \/ Begin(m)
                              \/ CompleteMatch(m) \/ UpdateBothRatings(m) \/ Fail(m)
                              \/ ReadMatch(m)
      PROVE  UNCHANGED <<status, ratedBy>>
  BY <1>5 DEF PlayRound, RoundsLeft, Abandon, FinishGame, Begin, CompleteMatch, UpdateBothRatings,
              Written, Fail, ReadMatch
<1>6. ASSUME NEW u \in User, ReadRounds(u) \/ StartPaging(u)
      PROVE  UNCHANGED <<status, ratedBy>>
  BY <1>6 DEF ReadRounds, StartPaging
<1>7. NextPage \/ OtherQuery \/ OtherReturns \/ Crash \/ ClosePool \/ Exit \/ Start
        => UNCHANGED <<status, ratedBy>>
  BY DEF NextPage, OtherQuery, OtherReturns, Crash, ClosePool, Exit, Start, Lost
<1>8. UNCHANGED vars => UNCHANGED <<status, ratedBy>>
  BY DEF vars
<1> QED
  BY <1>1, <1>3, <1>4, <1>5, <1>6, <1>7, <1>8 DEF Next, Transact

(* Results and ratings are recorded together and for good, whatever fails. *)
THEOREM StoreImplementsResults == Spec => ImplementsResults
<1>1. Init => Abstract!Init
  BY DEF Init, Abstract!Init
<1> QED
  BY <1>1, StepRefines, Invariance, PTL DEF Spec, ImplementsResults, Abstract!Spec

=============================================================================
