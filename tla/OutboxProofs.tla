---------------------------- MODULE OutboxProofs ----------------------------
(***************************************************************************)
(* Outbox for any rows, handlers, pollers, limits and batch size: its      *)
(* invariants, and that it implements EventDelivery.  Consents for any     *)
(* number of requests, messages and decisions.  WebChat for any number of  *)
(* visitors' turns and operators' requests.                                *)
(***************************************************************************)
EXTENDS WebChat, FiniteSetTheorems, Outbox, Consents, TLAPS

(* Outbox.                                                                  *)

(* The mark of no row is no row.                                            *)
LEMMA NoneIsNoRow == None \notin Events
BY OutboxAssumption DEF None

(* The empty outbox satisfies the inductive invariant.                      *)
LEMMA InitEstablishes == Init => OutboxInv
<1> SUFFICES ASSUME Init PROVE OutboxInv
  OBVIOUS
<1>1. TypeOK
  BY DEF Init, TypeOK, NothingStaged, Updates
<1>2. MAX_ATTEMPTS \in Nat /\ 0 < MAX_ATTEMPTS
  BY OutboxAssumption
<1> QED
  BY <1>1, <1>2 DEF Init, OutboxInv, OneDispatcherPerRow, DoneMeansAllRan, DeadAtTheLimit,
     NothingStaged

(* Steps of writers, of the clock and of pruning touch no locked row's     *)
(* state in a way a poller could notice.                                   *)
LEMMA RowPreserves ==
  ASSUME OutboxInv, NEW e \in Events,
         WriteOutbox(e) \/ BackoffElapses(e) \/ PruneProcessed(e)
  PROVE  OutboxInv'
<1> USE DEF rowVars, pollVars, WriteOutbox, BackoffElapses, PruneProcessed, Prunable
<1>2. UNCHANGED <<attempts, ran, batch, position, index, staged>>
  OBVIOUS
<1>1. TypeOK'
  <2>1. processed' \in [Events -> {"absent", "no", "done", "dead", "pruned"}]
    BY Zenon DEF OutboxInv, TypeOK
  <2>2. due' \in [Events -> BOOLEAN] /\ crashes' \in Nat
    BY Zenon DEF OutboxInv, TypeOK
  <2> HIDE DEF WriteOutbox, BackoffElapses, PruneProcessed
  <2> QED
    BY Zenon, <1>2, <2>1, <2>2 DEF OutboxInv, TypeOK
<1>3. \A f \in Events : processed'[f] # processed[f] =>
        \/ processed[f] = "absent" /\ processed'[f] = "no"
        \/ processed[f] \in {"done", "dead"} /\ processed'[f] = "pruned"
  BY DEF OutboxInv, TypeOK
<1>4. DoneMeansAllRan' /\ OneDispatcherPerRow'
  BY <1>2, <1>3 DEF OutboxInv, DoneMeansAllRan, OneDispatcherPerRow
<1>5. DeadAtTheLimit'
  BY <1>2, <1>3 DEF OutboxInv, DeadAtTheLimit
<1>6. /\ \A f \in Events : ran'[f] \subseteq Handlers(f)
      /\ \A f \in Events : processed'[f] \in {"absent", "done"} => attempts'[f] < MAX_ATTEMPTS
  BY Zenon, <1>2, <1>3 DEF OutboxInv
<1>7. \A p \in Pollers : \A f \in batch'[p] : processed'[f] = "no"
  <2> SUFFICES ASSUME NEW p \in Pollers, NEW f \in batch[p] PROVE processed'[f] = "no"
    BY Zenon, <1>2
  <2>1. f \in Events /\ processed[f] = "no"
    BY Zenon DEF OutboxInv, TypeOK
  <2> QED
    BY Zenon, <2>1, <1>3
<1> QED
  BY <1>1, <1>2, <1>4, <1>5, <1>6, <1>7 DEF OutboxInv, NextAttempts, Handlers

(* A poll claims rows with SKIP LOCKED.                                     *)
LEMMA ClaimPreserves ==
  ASSUME OutboxInv, NEW p \in Pollers, Claim(p)
  PROVE  OutboxInv'
<1> USE DEF rowVars, Claim
<1>1. FirstRows(Claimable) \subseteq Claimable /\ Claimable \subseteq Events
  BY Zenon DEF FirstRows, Claimable
<1>2. TypeOK'
  BY Zenon, <1>1 DEF OutboxInv, TypeOK
<1>3. /\ batch'[p] \subseteq Claimable
      /\ \A q \in Pollers \ {p} : batch'[q] = batch[q]
  BY <1>1 DEF OutboxInv, TypeOK
<1>4. OneDispatcherPerRow'
  <2> SUFFICES ASSUME NEW q \in Pollers, NEW r \in Pollers, q # r,
                      NEW e, e \in batch'[q], e \in batch'[r]
               PROVE  FALSE
    BY Zenon DEF OneDispatcherPerRow
  <2>1. CASE q = p
    BY Zenon, <1>3, <2>1 DEF Claimable, Locked
  <2>2. CASE r = p
    BY <1>3, <2>2 DEF Claimable, Locked
  <2>3. CASE q # p /\ r # p
    BY Zenon, <1>3, <2>3 DEF OutboxInv, OneDispatcherPerRow
  <2> QED
    BY Zenon, <2>1, <2>2, <2>3
<1>5. DoneMeansAllRan' /\ DeadAtTheLimit'
  BY Zenon DEF OutboxInv, DoneMeansAllRan, DeadAtTheLimit
<1>6. \A q \in Pollers : \A e \in batch'[q] : processed'[e] = "no"
  BY Zenon, <1>3 DEF OutboxInv, Claimable
<1>7. \A q \in Pollers : position[q] # None => position[q] \in batch'[q]
  BY Zenon, <1>3 DEF OutboxInv
<1>8. \A q \in Pollers, e \in Events : staged[q][e] # "none" => e \in batch'[q]
  BY Zenon, <1>3 DEF OutboxInv
<1> QED
  BY <1>2, <1>4, <1>5, <1>6, <1>7, <1>8 DEF OutboxInv, NextAttempts, Handlers

(* The dispatch takes up the next row of the batch.                         *)
LEMMA NextRowPreserves ==
  ASSUME OutboxInv, NEW p \in Pollers, NextRow(p)
  PROVE  OutboxInv'
<1> USE DEF rowVars, NextRow
<1>1. PICK e \in batch[p] :
        staged[p][e] = "none" /\ position' = [position EXCEPT ![p] = e]
  BY Zenon DEF Undispatched
<1>2. e \in Events
  BY Zenon DEF OutboxInv, TypeOK
<1>3. TypeOK'
  BY <1>1, <1>2 DEF OutboxInv, TypeOK
<1>4. OneDispatcherPerRow' /\ DoneMeansAllRan' /\ DeadAtTheLimit'
  BY Zenon DEF OutboxInv, OneDispatcherPerRow, DoneMeansAllRan, DeadAtTheLimit
<1>5. \A q \in Pollers : position'[q] # None =>
        position'[q] \in batch[q] /\ staged[q][position'[q]] = "none"
  BY <1>1 DEF OutboxInv, TypeOK
<1>6. \A q \in Pollers : position'[q] # None =>
        \A i \in 1..Len(HandlersFor[position'[q]]) :
          i < index'[q] => HandlersFor[position'[q]][i] \in ran[position'[q]]
  <2> SUFFICES ASSUME NEW q \in Pollers, position'[q] # None,
                      NEW i \in 1..Len(HandlersFor[position'[q]]), i < index'[q]
               PROVE  HandlersFor[position'[q]][i] \in ran[position'[q]]
    OBVIOUS
  <2>1. q # p
    <3>1. index'[p] = 1
      BY DEF OutboxInv, TypeOK
    <3>2. position'[q] \in Events
      BY Zenon, <1>3, NoneIsNoRow DEF TypeOK
    <3> QED
      BY <3>1, <3>2, OutboxAssumption
  <2>2. position'[q] = position[q] /\ index'[q] = index[q]
    BY <1>1, <2>1 DEF OutboxInv, TypeOK
  <2> QED
    BY Zenon, <2>2 DEF OutboxInv
<1>7. UNCHANGED <<processed, attempts, ran, batch, staged>>
  OBVIOUS
<1> HIDE DEF NextRow
<1> QED
  BY <1>3, <1>4, <1>5, <1>6, <1>7 DEF OutboxInv, NextAttempts, Handlers

(* A handler's committed effect only adds to ran.                          *)
LEMMA HandlerSucceedsPreserves ==
  ASSUME OutboxInv, NEW p \in Pollers, HandlerSucceeds(p)
  PROVE  OutboxInv'
<1> USE DEF rowVars, HandlerSucceeds
<1> DEFINE e == position[p]
           h == HandlersFor[e][index[p]]
<1>0. e \in batch[p] /\ e \in Events /\ index[p] \in Nat \ {0}
  BY Zenon DEF OutboxInv, TypeOK
<1>1. e \in Events /\ processed[e] = "no" /\ h \in Handlers(e) /\ index[p] \in Nat \ {0}
  <2>1. index[p] \in 1..Len(HandlersFor[e])
    BY <1>0, OutboxAssumption
  <2> QED
    BY Zenon, <1>0, <2>1 DEF OutboxInv, Handlers
<1>2. TypeOK'
  BY <1>1 DEF OutboxInv, TypeOK
<1>3. /\ ran'[e] = ran[e] \cup {h}
      /\ \A f \in Events : f # e => ran'[f] = ran[f]
      /\ \A f \in Events : ran[f] \subseteq ran'[f] /\ ran'[f] \subseteq Handlers(f)
  BY <1>1 DEF OutboxInv, TypeOK
<1>4. OneDispatcherPerRow' /\ DoneMeansAllRan' /\ DeadAtTheLimit'
  BY <1>3 DEF OutboxInv, OneDispatcherPerRow, DoneMeansAllRan, DeadAtTheLimit
<1>5. \A q \in Pollers : position[q] # None =>
        \A i \in 1..Len(HandlersFor[position[q]]) :
          i < index'[q] => HandlersFor[position[q]][i] \in ran'[position[q]]
  <2> SUFFICES ASSUME NEW q \in Pollers, position[q] # None,
                      NEW i \in 1..Len(HandlersFor[position[q]]), i < index'[q]
               PROVE  HandlersFor[position[q]][i] \in ran'[position[q]]
    OBVIOUS
  <2>1. position[q] \in Events
    BY Zenon DEF OutboxInv, TypeOK
  <2>2. CASE q = p /\ i = index[p]
    BY Zenon, <1>3, <2>2
  <2>3. CASE q = p /\ i # index[p]
    <3>1. i < index[p]
      BY <1>1, <2>3, OutboxAssumption, <2>1 DEF OutboxInv, TypeOK
    <3> QED
      BY Zenon, <1>3, <2>1, <2>3, <3>1 DEF OutboxInv
  <2>4. CASE q # p
    BY SMTT(40), <1>3, <2>1, <2>4 DEF OutboxInv, TypeOK
  <2> QED
    BY Zenon, <2>2, <2>3, <2>4
<1>6. \A q \in Pollers, f \in Events : staged[q][f] = "done" => ran'[f] = Handlers(f)
  BY <1>3 DEF OutboxInv
<1>7. UNCHANGED <<processed, attempts, batch, position, staged>>
  BY SMTT(40)
<1> HIDE DEF HandlerSucceeds
<1> QED
  BY <1>2, <1>3, <1>4, <1>5, <1>6, <1>7 DEF OutboxInv, NextAttempts

(* Staging an earned update ends the dispatch of the row.                  *)
LEMMA StagePreserves ==
  ASSUME OutboxInv, NEW p \in Pollers, NEW u \in Updates \ {"none"},
         position[p] # None, Stage(p, u),
         UNCHANGED <<processed, attempts, due, batch, index, crashes>>,
         ran' \in [Events -> SUBSET UNION {Handlers(e) : e \in Events}],
         \A f \in Events : ran[f] \subseteq ran'[f] /\ ran'[f] \subseteq Handlers(f),
         u = "done" => ran'[position[p]] = Handlers(position[p]),
         u = "retry" => NextAttempts(position[p]) < MAX_ATTEMPTS,
         u = "dead" => NextAttempts(position[p]) = MAX_ATTEMPTS
  PROVE  OutboxInv'
<1> DEFINE e == position[p]
<1>0. \A f \in Events : ran[f] = Handlers(f) => ran'[f] = Handlers(f)
  <2> SUFFICES ASSUME NEW f \in Events, ran[f] = Handlers(f) PROVE ran'[f] = Handlers(f)
    OBVIOUS
  <2>1. ran[f] \subseteq ran'[f] /\ ran'[f] \subseteq Handlers(f)
    OBVIOUS
  <2> QED
    BY Zenon, <2>1
<1>1. e \in batch[p] /\ e \in Events
  BY Zenon DEF OutboxInv, TypeOK
<1>2. TypeOK'
  BY Zenon, <1>1 DEF OutboxInv, TypeOK, Stage, Updates
<1>3. /\ staged'[p][e] = u
      /\ \A q \in Pollers, f \in Events :
           ~(q = p /\ f = e) => staged'[q][f] = staged[q][f]
      /\ position'[p] = None
      /\ \A q \in Pollers : q # p => position'[q] = position[q]
  BY <1>1 DEF OutboxInv, TypeOK, Stage
<1>4. OneDispatcherPerRow' /\ DoneMeansAllRan' /\ DeadAtTheLimit'
  <2>1. DoneMeansAllRan'
    BY Zenon, <1>0 DEF OutboxInv, DoneMeansAllRan
  <2> QED
    BY Zenon, <2>1 DEF OutboxInv, OneDispatcherPerRow, DeadAtTheLimit
<1>5. \A q \in Pollers : position'[q] # None =>
        position'[q] \in batch[q] /\ staged'[q][position'[q]] = "none"
  <2> SUFFICES ASSUME NEW q \in Pollers, position'[q] # None
               PROVE  position'[q] \in batch[q] /\ staged'[q][position'[q]] = "none"
    OBVIOUS
  <2>1. q # p /\ position'[q] = position[q] /\ position[q] \in Events
    BY <1>3 DEF OutboxInv, TypeOK
  <2>2. staged'[q][position[q]] = staged[q][position[q]]
    BY Zenon, <1>3, <2>1
  <2> QED
    BY Zenon, <2>1, <2>2 DEF OutboxInv
<1>6. \A q \in Pollers : position'[q] # None =>
        \A i \in 1..Len(HandlersFor[position'[q]]) :
          i < index[q] => HandlersFor[position'[q]][i] \in ran'[position'[q]]
  <2> SUFFICES ASSUME NEW q \in Pollers, position'[q] # None,
                      NEW i \in 1..Len(HandlersFor[position'[q]]), i < index[q]
               PROVE  HandlersFor[position'[q]][i] \in ran'[position'[q]]
    OBVIOUS
  <2>1. q # p /\ position'[q] = position[q] /\ position[q] \in Events
    BY <1>3 DEF OutboxInv, TypeOK
  <2> QED
    BY Zenon, <2>1 DEF OutboxInv
<1>7. \A q \in Pollers, f \in Events :
        /\ staged'[q][f] # "none" => f \in batch[q]
        /\ staged'[q][f] = "done" => ran'[f] = Handlers(f)
        /\ staged'[q][f] = "retry" => NextAttempts(f) < MAX_ATTEMPTS
        /\ staged'[q][f] = "dead" => NextAttempts(f) = MAX_ATTEMPTS
  <2> TAKE q \in Pollers, f \in Events
  <2>1. CASE q = p /\ f = e
    BY Zenon, <1>1, <1>3, <2>1
  <2>2. CASE ~(q = p /\ f = e)
    BY <1>0, <1>3, <2>2 DEF OutboxInv
  <2> QED
    BY Zenon, <2>1, <2>2
<1> QED
  BY <1>2, <1>4, <1>5, <1>6, <1>7 DEF OutboxInv, NextAttempts, Handlers

(* A handler that fails stages a retry or a dead letter.                    *)
LEMMA HandlerFailsPreserves ==
  ASSUME OutboxInv, NEW p \in Pollers, HandlerFails(p)
  PROVE  OutboxInv'
<1> USE DEF rowVars, HandlerFails
<1> DEFINE e == position[p]
<1>0. e \in batch[p] /\ e \in Events /\ index[p] \in Nat \ {0} /\ attempts[e] \in Nat
  BY Zenon DEF OutboxInv, TypeOK
<1>1. attempts[e] < MAX_ATTEMPTS /\ HandlersFor[e][index[p]] \in Handlers(e)
  <2>1. index[p] \in 1..Len(HandlersFor[e])
    BY <1>0, OutboxAssumption
  <2> QED
    BY Zenon, <1>0, <2>1 DEF OutboxInv, Handlers, DeadAtTheLimit
<1>2. /\ Failure(e) \in Updates \ {"none"} /\ Failure(e) # "done"
      /\ Failure(e) = "retry" => NextAttempts(e) < MAX_ATTEMPTS
      /\ Failure(e) = "dead" => NextAttempts(e) = MAX_ATTEMPTS
  BY <1>0, <1>1, OutboxAssumption DEF Failure, NextAttempts, Updates
<1>3. /\ ran' \in [Events -> SUBSET UNION {Handlers(f) : f \in Events}]
      /\ \A f \in Events : ran[f] \subseteq ran'[f] /\ ran'[f] \subseteq Handlers(f)
  <2>1. CASE UNCHANGED ran
    BY Zenon, <2>1 DEF OutboxInv, TypeOK
  <2>2. CASE ran' = [ran EXCEPT ![e] = @ \cup {HandlersFor[e][index[p]]}]
    BY <1>0, <1>1, <2>2 DEF OutboxInv, TypeOK
  <2> QED
    BY Zenon, <2>1, <2>2
<1> QED
  BY Zenon, <1>2, <1>3, StagePreserves

(* A row all of whose handlers ran is staged as done.                       *)
LEMMA RowProcessedPreserves ==
  ASSUME OutboxInv, NEW p \in Pollers, RowProcessed(p)
  PROVE  OutboxInv'
<1> USE DEF rowVars, RowProcessed
<1> DEFINE e == position[p]
<1>1. e \in Events /\ Len(HandlersFor[e]) \in Nat /\ index[p] \in Nat
  BY Zenon, OutboxAssumption DEF OutboxInv, TypeOK
<1>2. \A i \in 1..Len(HandlersFor[e]) : HandlersFor[e][i] \in ran[e]
  BY <1>1 DEF AllHandlersRan, OutboxInv
<1>3. Handlers(e) \subseteq ran[e]
  BY Zenon, <1>2 DEF Handlers
<1>4. ran[e] = Handlers(e)
  BY Zenon, <1>1, <1>3 DEF OutboxInv
<1> QED
  BY Zenon, <1>4, StagePreserves DEF Updates, OutboxInv, TypeOK

(* The end of a poller's transaction, committed or lost.                   *)
LEMMA ReleaseFacts ==
  ASSUME OutboxInv, NEW p \in Pollers, Release(p)
  PROVE  /\ batch' \in [Pollers -> SUBSET Events]
         /\ position' \in [Pollers -> Events \cup {None}]
         /\ index' \in [Pollers -> Nat \ {0}]
         /\ staged' \in [Pollers -> [Events -> Updates]]
         /\ batch'[p] = {} /\ position'[p] = None
         /\ \A e \in Events : staged'[p][e] = "none"
         /\ \A q \in Pollers : q # p =>
              /\ batch'[q] = batch[q] /\ position'[q] = position[q]
              /\ index'[q] = index[q] /\ staged'[q] = staged[q]
BY DEF Release, OutboxInv, TypeOK, NothingStaged, Updates

(* A poller that lets its locks go shares no row.                           *)
LEMMA ReleaseExcludes ==
  ASSUME OutboxInv, NEW p \in Pollers, Release(p)
  PROVE  OneDispatcherPerRow'
<1>1. \A q \in Pollers : batch'[q] \subseteq batch[q]
  BY Zenon, ReleaseFacts
<1>2. OneDispatcherPerRow
  BY Zenon DEF OutboxInv
<1> QED
  BY Zenon, <1>1, <1>2 DEF OneDispatcherPerRow

(* A poller that lets its locks go leaves the others where they are.        *)
LEMMA ReleaseKeepsPlaces ==
  ASSUME OutboxInv, NEW p \in Pollers, Release(p), NEW q \in Pollers
  PROVE  /\ position'[q] # None =>
              /\ position'[q] \in batch'[q] /\ staged'[q][position'[q]] = "none"
              /\ \A i \in 1..Len(HandlersFor[position'[q]]) :
                   i < index'[q] => HandlersFor[position'[q]][i] \in ran[position'[q]]
         /\ \A e \in Events :
              /\ staged'[q][e] # "none" => e \in batch'[q]
              /\ staged'[q][e] = "done" => ran[e] = Handlers(e)
              /\ staged'[q][e] = "retry" => NextAttempts(e) < MAX_ATTEMPTS
              /\ staged'[q][e] = "dead" => NextAttempts(e) = MAX_ATTEMPTS
<1>1. CASE q = p
  BY Zenon, <1>1, ReleaseFacts
<1>2. CASE q # p
  <2>1. /\ batch'[q] = batch[q] /\ position'[q] = position[q]
        /\ index'[q] = index[q] /\ staged'[q] = staged[q]
    BY Zenon, <1>2, ReleaseFacts
  <2> QED
    BY <2>1 DEF OutboxInv
<1> QED
  BY Zenon, <1>1, <1>2

(* A poller that crashes leaves its rows to be claimed again.               *)
LEMMA CrashPreserves ==
  ASSUME OutboxInv, NEW p \in Pollers, Crash(p)
  PROVE  OutboxInv'
<1> USE DEF rowVars
<1>1. Release(p) /\ UNCHANGED <<processed, attempts, due, ran>> /\ crashes' = crashes + 1
  BY Zenon DEF Crash
<1>2. TypeOK'
  <2>1. /\ batch' \in [Pollers -> SUBSET Events]
        /\ position' \in [Pollers -> Events \cup {None}]
        /\ index' \in [Pollers -> Nat \ {0}]
        /\ staged' \in [Pollers -> [Events -> Updates]]
    BY Zenon, <1>1, ReleaseFacts
  <2>2. TypeOK
    BY Zenon DEF OutboxInv
  <2> QED
    BY <1>1, <2>1, <2>2 DEF TypeOK
<1>3. OneDispatcherPerRow'
  BY Zenon, <1>1, ReleaseExcludes
<1>4. DoneMeansAllRan' /\ DeadAtTheLimit'
  BY Zenon, <1>1 DEF OutboxInv, DoneMeansAllRan, DeadAtTheLimit
<1>5. \A q \in Pollers : \A e \in batch'[q] : processed[e] = "no"
  BY Zenon, <1>1, ReleaseFacts DEF OutboxInv
<1>6. \A q \in Pollers : position'[q] # None =>
        /\ position'[q] \in batch'[q] /\ staged'[q][position'[q]] = "none"
        /\ \A i \in 1..Len(HandlersFor[position'[q]]) :
             i < index'[q] => HandlersFor[position'[q]][i] \in ran[position'[q]]
  BY Zenon, <1>1, ReleaseKeepsPlaces
<1>7. \A q \in Pollers, e \in Events :
        /\ staged'[q][e] # "none" => e \in batch'[q]
        /\ staged'[q][e] = "done" => ran[e] = Handlers(e)
        /\ staged'[q][e] = "retry" => NextAttempts(e) < MAX_ATTEMPTS
        /\ staged'[q][e] = "dead" => NextAttempts(e) = MAX_ATTEMPTS
  BY ZenonT(40), <1>1, ReleaseKeepsPlaces
<1> QED
  BY Zenon, <1>1, <1>2, <1>3, <1>4, <1>5, <1>6, <1>7 DEF OutboxInv, NextAttempts

(* The commit applies the updates of the poller's own rows; other pollers  *)
(* hold none of them.                                                      *)
LEMMA CommitPreserves ==
  ASSUME OutboxInv, NEW p \in Pollers, CommitBatch(p)
  PROVE  OutboxInv'
<1> USE DEF rowVars
<1>1. Release(p) /\ UNCHANGED <<ran, crashes>>
  BY Zenon DEF CommitBatch
<1>2. \A e \in Events :
        /\ processed'[e] = IF staged[p][e] \in {"done", "dead"} THEN staged[p][e]
                           ELSE processed[e]
        /\ attempts'[e] = IF staged[p][e] \in {"retry", "dead"} THEN attempts[e] + 1
                          ELSE attempts[e]
  BY Zenon DEF CommitBatch, NextAttempts
<1>3. TypeOK'
  <2>1. processed' \in [Events -> {"absent", "no", "done", "dead", "pruned"}]
    BY Zenon DEF CommitBatch, OutboxInv, TypeOK
  <2>2. attempts' \in [Events -> Nat]
    BY DEF CommitBatch, OutboxInv, TypeOK, NextAttempts
  <2>3. due' \in [Events -> BOOLEAN]
    BY Zenon DEF CommitBatch
  <2> QED
    BY Zenon, <1>1, <2>1, <2>2, <2>3, ReleaseFacts DEF OutboxInv, TypeOK
<1>4. \A e \in Events : staged[p][e] # "none" =>
        /\ processed[e] = "no" /\ attempts[e] < MAX_ATTEMPTS /\ attempts[e] \in Nat
        /\ \A q \in Pollers : q # p => e \notin batch[q] /\ staged[q][e] = "none"
  BY DEF OutboxInv, OneDispatcherPerRow, DeadAtTheLimit, TypeOK
<1>5. \A q \in Pollers, e \in Events : q # p /\ e \in batch[q] =>
        processed'[e] = processed[e] /\ attempts'[e] = attempts[e]
  BY Zenon, <1>2, <1>4
<1>6. OneDispatcherPerRow'
  BY Zenon, <1>1, ReleaseExcludes
<1>7. DoneMeansAllRan'
  BY Zenon, <1>1, <1>2 DEF OutboxInv, DoneMeansAllRan
<1>8. DeadAtTheLimit'
  <2> SUFFICES ASSUME NEW e \in Events
               PROVE  /\ attempts'[e] <= MAX_ATTEMPTS
                      /\ processed'[e] = "dead" => attempts'[e] = MAX_ATTEMPTS
                      /\ processed'[e] = "no" => attempts'[e] < MAX_ATTEMPTS
    BY Zenon DEF DeadAtTheLimit
  <2>1. attempts[e] \in Nat /\ MAX_ATTEMPTS \in Nat /\ staged[p][e] \in Updates
    BY OutboxAssumption DEF OutboxInv, TypeOK
  <2>2. /\ attempts[e] <= MAX_ATTEMPTS
        /\ processed[e] = "dead" => attempts[e] = MAX_ATTEMPTS
        /\ processed[e] = "no" => attempts[e] < MAX_ATTEMPTS
    BY Zenon DEF OutboxInv, DeadAtTheLimit
  <2>3. /\ staged[p][e] = "retry" => attempts[e] + 1 < MAX_ATTEMPTS
        /\ staged[p][e] = "dead" => attempts[e] + 1 = MAX_ATTEMPTS
    BY Zenon DEF OutboxInv, NextAttempts
  <2>4. staged[p][e] # "none" => processed[e] = "no"
    BY Zenon, <1>4
  <2> QED
    BY <1>2, <2>1, <2>2, <2>3, <2>4 DEF Updates
<1>9. \A e \in Events : processed'[e] \in {"absent", "done"} => attempts'[e] < MAX_ATTEMPTS
  BY Zenon, <1>2, <1>4 DEF OutboxInv
<1>10. \A q \in Pollers : \A e \in batch'[q] : processed'[e] = "no"
  <2> SUFFICES ASSUME NEW q \in Pollers, NEW e \in batch'[q] PROVE processed'[e] = "no"
    BY SMTT(40)
  <2>1. q # p /\ e \in batch[q] /\ e \in Events
    BY <1>1, ReleaseFacts DEF OutboxInv, TypeOK
  <2> QED
    BY Zenon, <1>5, <2>1 DEF OutboxInv
<1>11. \A q \in Pollers : position'[q] # None =>
        /\ position'[q] \in batch'[q] /\ staged'[q][position'[q]] = "none"
        /\ \A i \in 1..Len(HandlersFor[position'[q]]) :
             i < index'[q] => HandlersFor[position'[q]][i] \in ran[position'[q]]
  BY Zenon, <1>1, ReleaseKeepsPlaces
<1>12. \A q \in Pollers, e \in Events :
        /\ staged'[q][e] # "none" => e \in batch'[q]
        /\ staged'[q][e] = "done" => ran[e] = Handlers(e)
        /\ staged'[q][e] = "retry" => attempts'[e] + 1 < MAX_ATTEMPTS
        /\ staged'[q][e] = "dead" => attempts'[e] + 1 = MAX_ATTEMPTS
  <2> TAKE q \in Pollers, e \in Events
  <2>1. CASE q = p
    BY Zenon, <1>1, <2>1, ReleaseFacts
  <2>2. CASE q # p
    <3>1. staged'[q] = staged[q] /\ batch'[q] = batch[q]
      BY Zenon, <1>1, <2>2, ReleaseFacts
    <3>2. staged[q][e] # "none" => attempts'[e] = attempts[e]
      BY <1>5, <2>2 DEF OutboxInv
    <3> QED
      BY <3>1, <3>2 DEF OutboxInv, NextAttempts
  <2> QED
    BY Zenon, <2>1, <2>2
<1> QED
  BY SMTT(40), <1>1, <1>3, <1>6, <1>7, <1>8, <1>9, <1>10, <1>11, <1>12 DEF OutboxInv, NextAttempts

-----------------------------------------------------------------------------
(* The invariant holds in every behaviour, for any rows, handlers and      *)
(* pollers, any limit and batch size and any number of lost transactions.  *)
THEOREM OutboxInvariant == Spec => []OutboxInv
<1>1. OutboxInv /\ [Next]_vars => OutboxInv'
  <2> SUFFICES ASSUME OutboxInv, [Next]_vars PROVE OutboxInv'
    BY SMTT(40)
  <2>1. CASE UNCHANGED vars
    BY <2>1 DEF vars, rowVars, pollVars, OutboxInv, TypeOK, OneDispatcherPerRow,
       DoneMeansAllRan, DeadAtTheLimit, NextAttempts
  <2>2. CASE \E e \in Events : WriteOutbox(e) \/ BackoffElapses(e) \/ PruneProcessed(e)
    BY Zenon, <2>2, RowPreserves
  <2>3. CASE \E p \in Pollers : Poll(p)
    BY Zenon, <2>3, ClaimPreserves, NextRowPreserves, HandlerSucceedsPreserves,
       HandlerFailsPreserves, RowProcessedPreserves, CommitPreserves DEF Poll
  <2>4. CASE \E p \in Pollers : Crash(p)
    BY Zenon, <2>4, CrashPreserves
  <2> QED
    BY Zenon, <2>1, <2>2, <2>3, <2>4 DEF Next
<1> QED
  BY <1>1, InitEstablishes, PTL DEF Spec

(* The outbox rows and pollers keep their types.                           *)
THEOREM TypeCorrect == Spec => []TypeOK
BY OutboxInvariant, PTL DEF OutboxInv

(* SKIP LOCKED claims never put a row into two batches.                    *)
THEOREM RowsAreExclusive == Spec => []OneDispatcherPerRow
BY OutboxInvariant, PTL DEF OutboxInv

(* A row processed by a dispatch had every handler's effect committed.     *)
THEOREM DoneIsTrue == Spec => []DoneMeansAllRan
BY OutboxInvariant, PTL DEF OutboxInv

(* Attempts are bounded, and exactly the rows at the bound are given up.   *)
THEOREM GivenUpAtTheLimit == Spec => []DeadAtTheLimit
BY OutboxInvariant, PTL DEF OutboxInv

-----------------------------------------------------------------------------
(* A handler's effect is a Consume step, or adds nothing.                  *)
LEMMA EffectConsumes ==
  ASSUME OutboxInv, NEW p \in Pollers, position[p] # None,
         index[p] <= Len(HandlersFor[position[p]]),
         ran' = [ran EXCEPT ![position[p]] = @ \cup {HandlersFor[position[p]][index[p]]}],
         UNCHANGED <<processed, attempts>>
  PROVE  Promise!Next
<1> DEFINE e == position[p]
           h == HandlersFor[e][index[p]]
<1>1. e \in batch[p] /\ e \in Events /\ index[p] \in Nat \ {0}
  BY Zenon DEF OutboxInv, TypeOK
<1>2. index[p] \in 1..Len(HandlersFor[e])
  BY <1>1, OutboxAssumption
<1>3. h \in Handlers(e) /\ Phase(e) = "open"
  BY Zenon, <1>1, <1>2 DEF Handlers, Phase, OutboxInv
<1>4. Promise!Consume(e, h)
  BY Zenon, <1>1, <1>3 DEF Promise!Consume, Phase
<1> QED
  BY Zenon, <1>1, <1>3, <1>4 DEF Promise!Next

(* The commit of a batch closes its rows together.                         *)
LEMMA CommitCloses ==
  ASSUME OutboxInv, NEW p \in Pollers, CommitBatch(p)
  PROVE  Promise!Next
<1> DEFINE D == {e \in Events : staged[p][e] = "done"}
           A == {e \in Events : staged[p][e] = "dead"}
<1>1. \A e \in Events : staged[p][e] # "none" =>
        processed[e] = "no" /\ attempts[e] < MAX_ATTEMPTS /\ attempts[e] \in Nat
  BY Zenon DEF OutboxInv, DeadAtTheLimit, TypeOK
<1>2. \A e \in D \cup A : Phase(e) = "open"
  BY Zenon, <1>1 DEF Phase
<1>3. \A e \in D : ran[e] = Handlers(e)
  BY Zenon DEF OutboxInv
<1>4. \A e \in Events : Phase(e)' = IF e \in D THEN "delivered"
                                    ELSE IF e \in A THEN "abandoned" ELSE Phase(e)
  <2> TAKE e \in Events
  <2>0. /\ processed'[e] = IF staged[p][e] \in {"done", "dead"} THEN staged[p][e]
                           ELSE processed[e]
        /\ attempts'[e] = IF staged[p][e] \in {"retry", "dead"} THEN NextAttempts(e)
                          ELSE attempts[e]
        /\ staged[p][e] \in Updates
    BY DEF CommitBatch, OutboxInv, TypeOK
  <2>1. CASE staged[p][e] = "done"
    BY <1>1, <2>0, <2>1, OutboxAssumption DEF Phase
  <2>2. CASE staged[p][e] = "dead"
    BY <1>1, <2>0, <2>2, OutboxAssumption DEF Phase, OutboxInv
  <2>3. CASE staged[p][e] = "retry"
    BY Zenon, <1>1, <2>0, <2>3 DEF Phase
  <2>4. CASE staged[p][e] = "none"
    BY Zenon, <2>0, <2>4 DEF Phase
  <2> QED
    BY Zenon, <2>0, <2>1, <2>2, <2>3, <2>4 DEF Updates
<1>5. Promise!Close(D, A)
  BY Zenon, <1>2, <1>3, <1>4 DEF Promise!Close, CommitBatch
<1>6. D \in SUBSET Events /\ A \in SUBSET Events
  OBVIOUS
<1> QED
  BY Zenon, <1>5, <1>6 DEF Promise!Next

(* The outbox with its concurrent pollers, retries, lost transactions and  *)
(* pruning implements the at-least-once promise of EventDelivery.          *)
THEOREM OutboxImplements == Spec => ImplementsEventDelivery
<1>1. Init => Promise!Init
  BY Zenon DEF Init, Promise!Init, Phase
<1>2. OutboxInv /\ [Next]_vars => [Promise!Next]_(Promise!vars)
  <2> SUFFICES ASSUME OutboxInv, Next PROVE Promise!Next \/ UNCHANGED Promise!vars
    BY Zenon DEF vars, rowVars, Promise!vars, Phase
  <2> USE DEF rowVars, pollVars
  <2>1. CASE \E e \in Events : WriteOutbox(e)
    <3>1. PICK e \in Events : WriteOutbox(e)
      BY Zenon, <2>1
    <3>2. Promise!Publish(e)
      BY ZenonT(30), <3>1 DEF WriteOutbox, Promise!Publish, Phase, OutboxInv, TypeOK
    <3> QED
      BY Zenon, <3>2 DEF Promise!Next
  <2>2. CASE \E e \in Events : BackoffElapses(e) \/ PruneProcessed(e)
    <3>1. UNCHANGED <<attempts, ran>> /\ \A e \in Events : Phase(e)' = Phase(e)
      BY <2>2 DEF BackoffElapses, PruneProcessed, Prunable, Phase, OutboxInv, TypeOK
    <3> QED
      BY Zenon, <3>1 DEF Promise!vars
  <2>3. CASE \E p \in Pollers : HandlerSucceeds(p)
    BY Zenon, <2>3, EffectConsumes DEF HandlerSucceeds
  <2>4. CASE \E p \in Pollers : HandlerFails(p)
    <3>1. PICK p \in Pollers : HandlerFails(p)
      BY Zenon, <2>4
    <3>2. CASE UNCHANGED ran
      BY Zenon, <3>1, <3>2 DEF HandlerFails, Promise!vars, Phase
    <3>3. CASE ~UNCHANGED ran
      BY Zenon, <3>1, <3>3, EffectConsumes DEF HandlerFails
    <3> QED
      BY Zenon, <3>2, <3>3
  <2>5. CASE \E p \in Pollers : CommitBatch(p)
    BY Zenon, <2>5, CommitCloses
  <2>6. CASE \E p \in Pollers : Claim(p) \/ NextRow(p) \/ RowProcessed(p) \/ Crash(p)
    BY Zenon, <2>6 DEF Claim, NextRow, RowProcessed, Crash, Promise!vars, Phase
  <2> QED
    BY Zenon, <2>1, <2>2, <2>3, <2>4, <2>5, <2>6 DEF Next, Poll
<1> QED
  BY <1>1, <1>2, OutboxInvariant, PTL DEF Spec, ImplementsEventDelivery, Promise!Spec

-----------------------------------------------------------------------------
(* Consents.                                                                *)

(* The latest decision is a grant, expired or not.                          *)
LatestGranted(records) ==
  \E m \in DOMAIN records :
    records[m].status = "granted" /\ \A n \in DOMAIN records : n <= m

(* No record withdraws the grant.                                           *)
NotWithdrawn(records, g) == ~\E m \in DOMAIN records : records[m].withdraws = g

(* A request that took a moment has not recorded anything under it; one     *)
(* that is about to commit a withdrawal has found it missing, under lock;   *)
(* a send that looked at the ledger found a grant, or has slipped.          *)
ConsentRequestOK(records, last, slips, r) ==
  \/ r.op = "grant" /\ r.moment \in (1..last) \ DOMAIN records
  \/ /\ r.op = "withdraw" /\ r.moment \in (1..last) \ DOMAIN records
     /\ r.of \in 1..last
  \/ /\ r.op = "commit" /\ r.moment \in (1..last) \ DOMAIN records
     /\ r.of \in 1..last /\ NotWithdrawn(records, r.of)
  \/ /\ r.op = "send" /\ r.message \in QueuedMessages
     /\ r.message \notin slips => LatestGranted(records)

ConsentRecordsInv ==
  /\ moments \in 0..MaxMoments /\ DOMAIN ledger \subseteq 1..moments
  /\ \A m \in DOMAIN ledger : ledger[m] \in ConsentRecord
  /\ \A m \in DOMAIN ledger : ledger[m].status = "granted" <=> ledger[m].withdraws = NoConsent
  /\ queue \in [QueuedMessages -> {"none", "queued", "failed"}]
  /\ \A s \in QueuedMessages \ slipped : queue[s] = "queued" => LatestGranted(ledger)
  /\ \A m, n \in DOMAIN ledger :
       ledger[m].status = "withdrawn" /\ ledger[m].withdraws = ledger[n].withdraws => m = n

Times == {"grant", "withdraw", "commit"}

TwoApart(a, b) ==
  a # NoConsent /\ b # NoConsent /\ a.op \in Times /\ b.op \in Times =>
    /\ a.moment # b.moment
    /\ a.op = "commit" /\ b.op = "commit" => a.of # b.of

Apart(requests) == \A p, q \in ConsentRequests : p # q => TwoApart(requests[p], requests[q])

ConsentRequestInv ==
  /\ DOMAIN consentReq = ConsentRequests
  /\ \A q \in ConsentRequests :
       consentReq[q] # NoConsent => ConsentRequestOK(ledger, moments, slipped, consentReq[q])
  /\ Apart(consentReq)

ConsentInv == ConsentRecordsInv /\ ConsentRequestInv

(* The invariant, after a step.                                             *)
LEMMA ConsentInvNext ==
  ASSUME ConsentRecordsInv', DOMAIN consentReq' = ConsentRequests,
         \A q \in ConsentRequests :
           consentReq'[q] # NoConsent => ConsentRequestOK(ledger', moments', slipped', consentReq'[q]),
         Apart(consentReq')
  PROVE  ConsentInv'
BY Zenon DEF ConsentInv, ConsentRequestInv, ConsentRequestOK, NotWithdrawn, LatestGranted, Apart, TwoApart, Times

(* What the invariant says, fact by fact.                                   *)
LEMMA ConsentFacts ==
  ASSUME ConsentInv
  PROVE  /\ moments \in 0..MaxMoments /\ DOMAIN ledger \subseteq 1..moments
         /\ \A m \in DOMAIN ledger : ledger[m] \in ConsentRecord
         /\ \A m \in DOMAIN ledger : ledger[m].status = "granted" <=> ledger[m].withdraws = NoConsent
         /\ queue \in [QueuedMessages -> {"none", "queued", "failed"}]
         /\ \A s \in QueuedMessages \ slipped : queue[s] = "queued" => LatestGranted(ledger)
         /\ \A m, n \in DOMAIN ledger :
              ledger[m].status = "withdrawn" /\ ledger[m].withdraws = ledger[n].withdraws => m = n
         /\ DOMAIN consentReq = ConsentRequests
         /\ \A q \in ConsentRequests :
              consentReq[q] # NoConsent => ConsentRequestOK(ledger, moments, slipped, consentReq[q])
         /\ Apart(consentReq)
BY Zenon DEF ConsentInv, ConsentRecordsInv, ConsentRequestInv

(* A step that records nothing and queues nothing keeps the invariant of    *)
(* the rows.                                                                *)
LEMMA ConsentRowsSame ==
  ASSUME ConsentInv, ledger' = ledger, queue' = queue, slipped' = slipped,
         moments' \in 0..MaxMoments, DOMAIN ledger \subseteq 1..moments'
  PROVE  ConsentRecordsInv'
BY Zenon DEF ConsentInv, ConsentRecordsInv, ConsentRecord, LatestGranted, Moments

(* One request changes, and stays apart from the others.                    *)
LEMMA ApartChanged ==
  ASSUME Apart(consentReq), NEW q \in ConsentRequests, NEW r, consentReq'[q] = r,
         \A p \in ConsentRequests \ {q} : consentReq'[p] = consentReq[p] /\ TwoApart(r, consentReq[p])
  PROVE  Apart(consentReq')
<1>1. \A a, b : TwoApart(a, b) => TwoApart(b, a)
  BY Zenon DEF TwoApart
<1> SUFFICES ASSUME NEW x \in ConsentRequests, NEW y \in ConsentRequests, x # y
             PROVE  TwoApart(consentReq'[x], consentReq'[y])
  BY Zenon DEF Apart
<1>2. CASE x = q
  BY Zenon, <1>2
<1>3. CASE y = q
  BY Zenon, <1>1, <1>3
<1>4. CASE x # q /\ y # q
  <2>1. consentReq'[x] = consentReq[x] /\ consentReq'[y] = consentReq[y]
    BY Zenon, <1>4
  <2>2. TwoApart(consentReq[x], consentReq[y])
    BY Zenon DEF Apart
  <2> QED
    BY Zenon, <2>1, <2>2
<1> QED
  BY Zenon, <1>2, <1>3, <1>4

(* A request begins, goes on or ends, and the ledger is left alone.         *)
LEMMA ConsentRequestStep ==
  ASSUME ConsentInv, NEW q \in ConsentRequests, NEW r, consentReq' = [consentReq EXCEPT ![q] = r],
         ledger' = ledger, queue' = queue, slipped' = slipped, moments' = moments,
         r # NoConsent => ConsentRequestOK(ledger, moments, slipped, r),
         \A p \in ConsentRequests \ {q} : TwoApart(r, consentReq[p])
  PROVE  ConsentInv'
<1>1. /\ DOMAIN consentReq' = ConsentRequests /\ consentReq'[q] = r
      /\ \A p \in ConsentRequests \ {q} : consentReq'[p] = consentReq[p]
  BY Zenon, ConsentFacts
<1>2. Apart(consentReq')
  BY Zenon, <1>1, ConsentFacts, ApartChanged
<1>3. \A p \in ConsentRequests :
        consentReq'[p] # NoConsent => ConsentRequestOK(ledger', moments', slipped', consentReq'[p])
  BY Zenon, <1>1, ConsentFacts
<1>4. ConsentRecordsInv'
  BY Zenon, ConsentFacts, ConsentRowsSame
<1> QED
  BY Zenon, <1>1, <1>2, <1>3, <1>4, ConsentInvNext

(* grant and withdraw take the time of the decision before they write it.   *)
LEMMA TakeMomentStep ==
  ASSUME ConsentInv, NEW q \in ConsentRequests, NEW op \in {"grant", "withdraw"}, NEW g,
         op = "withdraw" => g \in DOMAIN ledger, TakeMoment(q, op, g)
  PROVE  ConsentInv'
<1> DEFINE r == [op |-> op, moment |-> moments + 1, of |-> g]
<1>1. /\ moments < MaxMoments /\ moments' = moments + 1
      /\ consentReq' = [consentReq EXCEPT ![q] = r]
      /\ ledger' = ledger /\ queue' = queue /\ slipped' = slipped
  BY Zenon DEF TakeMoment, Answer
<1>2. /\ moments' \in 0..MaxMoments /\ moments' \in Nat /\ 1..moments \subseteq 1..moments'
      /\ moments' \in 1..moments' /\ moments' \notin 1..moments
  BY <1>1, ConsentFacts, ConsentAssumption
<1>3. /\ DOMAIN consentReq' = ConsentRequests /\ consentReq'[q] = r
      /\ \A p \in ConsentRequests \ {q} : consentReq'[p] = consentReq[p]
  BY Zenon, <1>1, ConsentFacts
<1>4. r.op = op /\ r.moment = moments' /\ r.of = g
  BY Zenon, <1>1
<1> HIDE DEF r
<1>5. DOMAIN ledger \subseteq 1..moments /\ moments' \notin DOMAIN ledger
  BY Zenon, <1>2, ConsentFacts
<1>6. ConsentRequestOK(ledger, moments', slipped, r)
  BY Zenon, <1>2, <1>4, <1>5 DEF ConsentRequestOK
<1>7. \A p \in ConsentRequests :
        consentReq[p] # NoConsent => /\ ConsentRequestOK(ledger, moments', slipped, consentReq[p])
                                     /\ consentReq[p].op \in Times => consentReq[p].moment \in 1..moments
  <2> SUFFICES ASSUME NEW p \in ConsentRequests, consentReq[p] # NoConsent
               PROVE  /\ ConsentRequestOK(ledger, moments', slipped, consentReq[p])
                      /\ consentReq[p].op \in Times => consentReq[p].moment \in 1..moments
    OBVIOUS
  <2>1. ConsentRequestOK(ledger, moments, slipped, consentReq[p])
    BY Zenon, ConsentFacts
  <2>2. ConsentRequestOK(ledger, moments', slipped, consentReq[p])
    BY Zenon, <1>2, <2>1 DEF ConsentRequestOK
  <2>3. "send" \notin Times
    BY DEF Times
  <2> QED
    BY Zenon, <2>1, <2>2, <2>3 DEF ConsentRequestOK
<1>8. \A p \in ConsentRequests :
        consentReq'[p] # NoConsent => ConsentRequestOK(ledger', moments', slipped', consentReq'[p])
  BY Zenon, <1>1, <1>3, <1>6, <1>7
<1>9. r.op # "commit"
  BY <1>4
<1>10. Apart(consentReq')
  <2>1. \A p \in ConsentRequests \ {q} : TwoApart(r, consentReq[p])
    BY Zenon, <1>2, <1>4, <1>7, <1>9 DEF TwoApart
  <2> QED
    BY ZenonT(40), <1>3, <2>1, ConsentFacts, ApartChanged
<1>11. ConsentRecordsInv'
  BY Zenon, <1>1, <1>2, ConsentFacts, ConsentRowsSame
<1> QED
  BY Zenon, <1>3, <1>8, <1>10, <1>11, ConsentInvNext

(* A withdrawal cancels the messages that are queued.                       *)
LEMMA CancelQueuedStep ==
  ASSUME ConsentInv, NEW q \in ConsentRequests, CancelQueued(q)
  PROVE  ConsentInv'
<1> DEFINE old == consentReq[q]
           r == [op |-> "commit", moment |-> old.moment, of |-> old.of, seen |-> Waiting]
<1>1. /\ old # NoConsent /\ old.op = "withdraw" /\ Lockable(q)
      /\ ledger' = ledger /\ queue' = queue /\ slipped' = slipped /\ moments' = moments
      /\ \/ Unwithdrawn(old.of) /\ consentReq' = [consentReq EXCEPT ![q] = r]
         \/ consentReq' = [consentReq EXCEPT ![q] = NoConsent]
  BY Zenon DEF CancelQueued, Asks, Answer
<1>2. CASE consentReq' = [consentReq EXCEPT ![q] = NoConsent]
  <2>1. \A p \in ConsentRequests : TwoApart(NoConsent, consentReq[p])
    BY Zenon DEF TwoApart
  <2> QED
    BY Zenon, <1>1, <1>2, <2>1, ConsentRequestStep
<1>3. CASE Unwithdrawn(old.of) /\ consentReq' = [consentReq EXCEPT ![q] = r]
  <2>1. r.op = "commit" /\ r.moment = old.moment /\ r.of = old.of
    BY Zenon
  <2>2. ConsentRequestOK(ledger, moments, slipped, old)
    BY Zenon, <1>1, ConsentFacts
  <2>3. old.op # "grant" /\ old.op # "commit" /\ old.op # "send" /\ old.op \in Times
    BY <1>1 DEF Times
  <2>4. ConsentRequestOK(ledger, moments, slipped, r)
    <3>1. old.moment \in (1..moments) \ DOMAIN ledger /\ old.of \in 1..moments
      BY Zenon, <2>2, <2>3 DEF ConsentRequestOK
    <3>2. NotWithdrawn(ledger, old.of)
      BY Zenon, <1>3 DEF NotWithdrawn, Unwithdrawn
    <3> HIDE DEF r, old
    <3> QED
      BY Zenon, <2>1, <3>1, <3>2 DEF ConsentRequestOK
  <2>5. ASSUME NEW p \in ConsentRequests \ {q} PROVE TwoApart(r, consentReq[p])
    <3>1. TwoApart(old, consentReq[p])
      BY Zenon, ConsentFacts DEF Apart
    <3>2. consentReq[p] # NoConsent /\ consentReq[p].op = "commit" => consentReq[p].of # old.of
      BY Zenon, <1>1 DEF Lockable, Asks
    <3> HIDE DEF r, old
    <3> QED
      BY Zenon, <1>1, <2>1, <2>3, <3>1, <3>2 DEF TwoApart
  <2> HIDE DEF r
  <2> QED
    BY Zenon, <1>1, <1>3, <2>4, <2>5, ConsentRequestStep
<1> QED
  BY Zenon, <1>1, <1>2, <1>3

(* A send looks at the ledger before it queues.                             *)
LEMMA CheckConsentStep ==
  ASSUME ConsentInv, NEW q \in ConsentRequests, NEW s \in QueuedMessages, CheckConsent(q, s)
  PROVE  ConsentInv'
<1> DEFINE r == [op |-> "send", message |-> s]
<1>1. /\ contact_has_consent /\ consentReq' = [consentReq EXCEPT ![q] = r]
      /\ ledger' = ledger /\ queue' = queue /\ slipped' = slipped /\ moments' = moments
  BY Zenon DEF CheckConsent, Answer
<1>2. LatestGranted(ledger)
  BY Zenon, <1>1 DEF contact_has_consent, LatestGranted
<1>3. r.op = "send" /\ r.message = s /\ "send" \notin Times
  BY DEF Times
<1> HIDE DEF r
<1>4. ConsentRequestOK(ledger, moments, slipped, r)
  BY Zenon, <1>2, <1>3 DEF ConsentRequestOK
<1>5. \A p \in ConsentRequests : TwoApart(r, consentReq[p])
  BY Zenon, <1>3 DEF TwoApart
<1> QED
  BY Zenon, <1>1, <1>4, <1>5, ConsentRequestStep

(* A message is queued on what the send read.                               *)
LEMMA QueueMessageStep ==
  ASSUME ConsentInv, NEW q \in ConsentRequests, QueueMessage(q)
  PROVE  ConsentInv'
<1> DEFINE s == consentReq[q].message
<1>1. /\ consentReq[q] # NoConsent /\ consentReq[q].op = "send"
      /\ queue' = [queue EXCEPT ![s] = "queued"]
      /\ consentReq' = [consentReq EXCEPT ![q] = NoConsent]
      /\ ledger' = ledger /\ moments' = moments /\ slipped' = slipped
  BY Zenon DEF QueueMessage, Asks, Answer
<1>2. consentReq[q].op # "grant" /\ consentReq[q].op # "withdraw" /\ consentReq[q].op # "commit"
  BY <1>1
<1>3. s \in QueuedMessages /\ (s \notin slipped => LatestGranted(ledger))
  BY Zenon, <1>1, <1>2, ConsentFacts DEF ConsentRequestOK
<1>4. /\ queue' \in [QueuedMessages -> {"none", "queued", "failed"}]
      /\ \A x \in QueuedMessages \ {s} : queue'[x] = queue[x]
  BY <1>1, <1>3, ConsentFacts
<1>5. /\ DOMAIN consentReq' = ConsentRequests /\ consentReq'[q] = NoConsent
      /\ \A p \in ConsentRequests \ {q} : consentReq'[p] = consentReq[p]
  BY Zenon, <1>1, ConsentFacts
<1>6. \A x \in QueuedMessages \ slipped : queue'[x] = "queued" => LatestGranted(ledger)
  BY Zenon, <1>3, <1>4, ConsentFacts
<1>7. ConsentRecordsInv'
  BY Zenon, <1>1, <1>4, <1>6, ConsentFacts DEF ConsentRecordsInv, ConsentRecord, LatestGranted, Moments
<1>8. \A p \in ConsentRequests : TwoApart(NoConsent, consentReq[p])
  BY Zenon DEF TwoApart
<1>9. Apart(consentReq')
  BY ZenonT(40), <1>5, <1>8, ConsentFacts, ApartChanged
<1>10. \A p \in ConsentRequests :
         consentReq'[p] # NoConsent => ConsentRequestOK(ledger', moments', slipped', consentReq'[p])
  BY Zenon, <1>1, <1>5, ConsentFacts
<1> QED
  BY Zenon, <1>5, <1>7, <1>9, <1>10, ConsentInvNext

(* A request that recorded at its moment ends.                              *)
LEMMA RecordStep ==
  ASSUME ConsentInv, NEW q \in ConsentRequests, NEW record \in ConsentRecord,
         consentReq[q] # NoConsent, consentReq[q].op \in {"grant", "commit"},
         consentReq' = [consentReq EXCEPT ![q] = NoConsent], moments' = moments,
         ledger' = Recorded(consentReq[q].moment, record),
         record.status = "granted" <=> record.withdraws = NoConsent,
         record.status # "granted" => /\ record.withdraws = consentReq[q].of
                                      /\ consentReq[q].op = "commit",
         queue' \in [QueuedMessages -> {"none", "queued", "failed"}],
         \A s \in QueuedMessages \ slipped' : queue'[s] = "queued" => LatestGranted(ledger'),
         \A p \in ConsentRequests :
           consentReq[p] # NoConsent /\ consentReq[p].op = "send" /\ consentReq[p].message \notin slipped'
             => LatestGranted(ledger')
  PROVE  ConsentInv'
<1> DEFINE m == consentReq[q].moment
           g == consentReq[q].of
<1>1. ConsentRequestOK(ledger, moments, slipped, consentReq[q])
  BY Zenon, ConsentFacts
<1>2. consentReq[q].op \in Times /\ consentReq[q].op # "send" /\ consentReq[q].op # "withdraw"
  BY DEF Times
<1>3. m \in (1..moments) \ DOMAIN ledger
  BY Zenon, <1>1, <1>2 DEF ConsentRequestOK
<1>4. consentReq[q].op = "commit" => NotWithdrawn(ledger, g)
  <2>1. "commit" # "grant"
    OBVIOUS
  <2> QED
    BY Zenon, <1>1, <1>2, <2>1 DEF ConsentRequestOK
<1>5. /\ DOMAIN ledger' = DOMAIN ledger \cup {m} /\ ledger'[m] = record
      /\ \A n \in DOMAIN ledger : ledger'[n] = ledger[n]
  BY Zenon, <1>3 DEF Recorded
<1>6. DOMAIN ledger' \subseteq 1..moments'
  BY Zenon, <1>3, <1>5, ConsentFacts
<1>7. record.status \in {"granted", "withdrawn"} /\ "granted" # "withdrawn"
  BY Zenon DEF ConsentRecord
<1>8. \A i, j \in DOMAIN ledger' :
        ledger'[i].status = "withdrawn" /\ ledger'[i].withdraws = ledger'[j].withdraws => i = j
  <2> SUFFICES ASSUME NEW i \in DOMAIN ledger', NEW j \in DOMAIN ledger',
                      ledger'[i].status = "withdrawn", ledger'[i].withdraws = ledger'[j].withdraws,
                      i # j
               PROVE  FALSE
    BY Zenon
  <2>1. CASE i # m /\ j # m
    BY Zenon, <1>5, <2>1, ConsentFacts
  <2>2. CASE i = m
    <3>1. record.status # "granted" /\ NotWithdrawn(ledger, g) /\ record.withdraws = g
      BY Zenon, <1>4, <1>5, <1>7, <2>2
    <3>2. j # m
      BY Zenon, <2>2
    <3>3. j \in DOMAIN ledger /\ ledger'[j] = ledger[j]
      BY Zenon, <1>5, <3>2
    <3>4. ledger'[i].withdraws = g
      BY Zenon, <1>5, <2>2, <3>1
    <3> QED
      BY Zenon, <3>1, <3>3, <3>4 DEF NotWithdrawn
  <2>3. CASE j = m
    <3>1. i \in DOMAIN ledger /\ ledger[i].status # "granted" /\ ledger[i].withdraws = record.withdraws
      BY Zenon, <1>5, <1>7, <2>3
    <3>2. record.withdraws # NoConsent
      BY Zenon, <3>1, ConsentFacts
    <3>3. NotWithdrawn(ledger, g) /\ record.withdraws = g
      BY Zenon, <1>4, <3>2
    <3> QED
      BY Zenon, <3>1, <3>3 DEF NotWithdrawn
  <2> QED
    BY Zenon, <2>1, <2>2, <2>3
<1>9. ConsentRecordsInv'
  <2>1. \A n \in DOMAIN ledger' : /\ ledger'[n] \in ConsentRecord
                                  /\ ledger'[n].status = "granted" <=> ledger'[n].withdraws = NoConsent
    BY ZenonT(40), <1>5, ConsentFacts
  <2> QED
    BY Zenon, <1>6, <1>8, <2>1, ConsentFacts DEF ConsentRecordsInv, LatestGranted, ConsentRecord, Moments
<1>10. /\ DOMAIN consentReq' = ConsentRequests /\ consentReq'[q] = NoConsent
       /\ \A p \in ConsentRequests \ {q} : consentReq'[p] = consentReq[p]
  BY Zenon, ConsentFacts
<1>11. \A p \in ConsentRequests : TwoApart(NoConsent, consentReq[p])
  BY Zenon DEF TwoApart
<1>12. Apart(consentReq')
  BY Zenon, <1>10, <1>11, ConsentFacts, ApartChanged
<1>13. ASSUME NEW p \in ConsentRequests \ {q}, consentReq[p] # NoConsent
       PROVE  ConsentRequestOK(ledger', moments, slipped', consentReq[p])
  <2> DEFINE r == consentReq[p]
  <2>1. ConsentRequestOK(ledger, moments, slipped, r) /\ TwoApart(consentReq[q], r)
    BY Zenon, <1>13, ConsentFacts DEF Apart
  <2>2. r.op \in Times => r.moment # m
    BY Zenon, <1>2, <1>13, <2>1 DEF TwoApart
  <2>3. r.op \in Times /\ r.moment \notin DOMAIN ledger => r.moment \notin DOMAIN ledger'
    BY Zenon, <1>5, <2>2
  <2>4. r.op = "commit" /\ r.of \in 1..moments /\ NotWithdrawn(ledger, r.of) => NotWithdrawn(ledger', r.of)
    <3> SUFFICES ASSUME r.op = "commit", r.of \in 1..moments, NotWithdrawn(ledger, r.of)
                 PROVE  record.withdraws # r.of
      BY Zenon, <1>5 DEF NotWithdrawn
    <3>1. NoConsent # r.of
      BY ConsentFacts, ConsentAssumption
    <3>2. CASE record.status = "granted"
      BY Zenon, <3>1, <3>2
    <3>3. CASE record.status # "granted"
      <4>1. r.op \in Times
        BY Zenon DEF Times
      <4> QED
        BY Zenon, <1>2, <1>13, <2>1, <3>3, <4>1 DEF TwoApart
    <3> QED
      BY Zenon, <3>2, <3>3
  <2>5. r.op = "send" /\ r.message \notin slipped' => LatestGranted(ledger')
    BY Zenon, <1>13
  <2>6. "grant" \in Times /\ "withdraw" \in Times /\ "commit" \in Times
    BY DEF Times
  <2> HIDE DEF r
  <2> QED
    BY Zenon, <2>1, <2>3, <2>4, <2>5, <2>6 DEF ConsentRequestOK, r
<1> QED
  BY Zenon, <1>9, <1>10, <1>12, <1>13, ConsentInvNext

(* grant records a decision under the time it took.                         *)
LEMMA grantStep ==
  ASSUME ConsentInv, NEW q \in ConsentRequests, grant(q)
  PROVE  ConsentInv'
<1> DEFINE m == consentReq[q].moment
           record == [status |-> "granted", withdraws |-> NoConsent, expired |-> FALSE]
<1>1. /\ consentReq[q] # NoConsent /\ consentReq[q].op = "grant"
      /\ ledger' = ledger \/ ledger' = Recorded(m, record)
      /\ consentReq' = [consentReq EXCEPT ![q] = NoConsent]
      /\ moments' = moments /\ queue' = queue /\ slipped' = slipped
  BY Zenon DEF grant, Asks, Answer
<1>2. CASE ledger' = ledger
  <2>1. \A p \in ConsentRequests : TwoApart(NoConsent, consentReq[p])
    BY Zenon DEF TwoApart
  <2> QED
    BY Zenon, <1>1, <1>2, <2>1, ConsentRequestStep
<1>3. CASE ledger' = Recorded(m, record)
  <2>1. record \in ConsentRecord /\ record.status = "granted" /\ record.withdraws = NoConsent
    BY Zenon DEF ConsentRecord
  <2> HIDE DEF record
  <2>2. consentReq[q].op # "withdraw" /\ consentReq[q].op # "commit" /\ consentReq[q].op # "send"
    BY <1>1
  <2>3. m \in (1..moments) \ DOMAIN ledger
    BY Zenon, <1>1, <2>2, ConsentFacts DEF ConsentRequestOK
  <2>4. /\ DOMAIN ledger' = DOMAIN ledger \cup {m} /\ ledger'[m] = record
        /\ \A n \in DOMAIN ledger : ledger'[n] = ledger[n]
    BY Zenon, <1>3, <2>3 DEF Recorded
  <2>5. LatestGranted(ledger) => LatestGranted(ledger')
    <3> SUFFICES ASSUME NEW k \in DOMAIN ledger, ledger[k].status = "granted",
                        \A n \in DOMAIN ledger : n <= k
                 PROVE  \E l \in DOMAIN ledger' : /\ ledger'[l].status = "granted"
                                                  /\ \A n \in DOMAIN ledger' : n <= l
      BY Zenon DEF LatestGranted
    <3>1. k \in Nat /\ m \in Nat /\ DOMAIN ledger \subseteq Nat
      BY <2>3, ConsentFacts
    <3>2. CASE m <= k
      BY Zenon, <2>4, <3>2
    <3>3. CASE ~(m <= k)
      <4>1. m <= m /\ \A n \in DOMAIN ledger : n <= m
        BY <3>1, <3>3
      <4> QED
        BY Zenon, <2>1, <2>4, <4>1
    <3> QED
      BY Zenon, <3>2, <3>3
  <2>6. \A p \in ConsentRequests :
          consentReq[p] # NoConsent /\ consentReq[p].op = "send" /\ consentReq[p].message \notin slipped
            => LatestGranted(ledger)
    <3>1. "send" # "grant" /\ "send" # "withdraw" /\ "send" # "commit"
      OBVIOUS
    <3> QED
      BY Zenon, <3>1, ConsentFacts DEF ConsentRequestOK
  <2>7. consentReq[q].op \in {"grant", "commit"}
    BY Zenon, <1>1
  <2> QED
    BY Zenon, <1>1, <1>3, <2>1, <2>5, <2>6, <2>7, ConsentFacts, RecordStep
<1> QED
  BY Zenon, <1>1, <1>2, <1>3

(* withdraw records under the lock, and cancels what is queued if it is the *)
(* latest decision.                                                         *)
LEMMA withdrawStep ==
  ASSUME ConsentInv, NEW q \in ConsentRequests, withdraw(q)
  PROVE  ConsentInv'
<1> DEFINE r == consentReq[q]
           record == [status |-> "withdrawn", withdraws |-> r.of, expired |-> FALSE]
           sending == {s \in QueuedMessages :
                         \E p \in ConsentRequests : Asks(p, "send") /\ consentReq[p].message = s}
<1>1. /\ r # NoConsent /\ r.op = "commit"
      /\ ledger' = Recorded(r.moment, record)
      /\ queue' = Cancelled(r.seen)
      /\ slipped' = slipped \cup (Waiting \ r.seen) \cup sending
      /\ consentReq' = [consentReq EXCEPT ![q] = NoConsent]
      /\ moments' = moments
  BY Zenon DEF withdraw, Asks, Answer
<1>2. r.op # "grant" /\ r.op # "withdraw" /\ r.op # "send"
  BY <1>1
<1>3. r.of \in 1..moments
  BY Zenon, <1>1, <1>2, ConsentFacts DEF ConsentRequestOK
<1>4. r.of \in Moments /\ r.of # NoConsent /\ "withdrawn" # "granted"
  BY <1>3, ConsentFacts, ConsentAssumption DEF Moments
<1>5. record \in ConsentRecord /\ record.status = "withdrawn" /\ record.withdraws = r.of
  BY Zenon, <1>4 DEF ConsentRecord
<1> HIDE DEF record
<1>6. queue' \in [QueuedMessages -> {"none", "queued", "failed"}]
  BY Zenon, <1>1, ConsentFacts DEF Cancelled
<1>7. \A s \in QueuedMessages : queue'[s] = "queued" => s \in slipped'
  <2>1. "failed" # "queued"
    OBVIOUS
  <2>2. ASSUME NEW s \in QueuedMessages, queue'[s] = "queued" PROVE s \in Waiting \ r.seen
    BY Zenon, <1>1, <2>1, <2>2 DEF Cancelled, Waiting
  <2> QED
    BY Zenon, <1>1, <2>2
<1>8. \A p \in ConsentRequests :
        consentReq[p] # NoConsent /\ consentReq[p].op = "send" => consentReq[p].message \in slipped'
  <2> SUFFICES ASSUME NEW p \in ConsentRequests, consentReq[p] # NoConsent, consentReq[p].op = "send"
               PROVE  consentReq[p].message \in sending
    BY Zenon, <1>1
  <2>1. "send" # "grant" /\ "send" # "withdraw" /\ "send" # "commit"
    OBVIOUS
  <2>2. consentReq[p].message \in QueuedMessages
    BY Zenon, <2>1, ConsentFacts DEF ConsentRequestOK
  <2> QED
    BY Zenon, <2>2 DEF Asks
<1>9. r.op \in {"grant", "commit"}
  BY Zenon, <1>1
<1> HIDE DEF sending
<1> QED
  BY Zenon, <1>1, <1>4, <1>5, <1>6, <1>7, <1>8, <1>9, RecordStep

(* A grant that expires is still the latest decision.                       *)
LEMMA GrantExpiresStep ==
  ASSUME ConsentInv, NEW m \in DOMAIN ledger, GrantExpires(m)
  PROVE  ConsentInv'
<1> DEFINE new == [ledger[m] EXCEPT !.expired = TRUE]
<1>1. /\ ledger' = [ledger EXCEPT ![m].expired = TRUE]
      /\ moments' = moments /\ queue' = queue /\ consentReq' = consentReq /\ slipped' = slipped
  BY Zenon DEF GrantExpires
<1>2. new \in ConsentRecord /\ new.status = ledger[m].status /\ new.withdraws = ledger[m].withdraws
  <2>1. ledger[m] \in ConsentRecord
    BY Zenon, ConsentFacts
  <2> QED
    BY Zenon, <2>1 DEF ConsentRecord
<1>3. ledger' = [ledger EXCEPT ![m] = new]
  BY Zenon, <1>1
<1> HIDE DEF new
<1>4. DOMAIN ledger' = DOMAIN ledger
  BY Zenon, <1>3
<1>5. \A n \in DOMAIN ledger : /\ ledger'[n] \in ConsentRecord /\ ledger'[n].status = ledger[n].status
                               /\ ledger'[n].withdraws = ledger[n].withdraws
  BY Zenon, <1>2, <1>3, ConsentFacts
<1>6. /\ LatestGranted(ledger) => LatestGranted(ledger')
      /\ \A g : NotWithdrawn(ledger, g) => NotWithdrawn(ledger', g)
  BY Zenon, <1>4, <1>5 DEF LatestGranted, NotWithdrawn
<1>7. ConsentRecordsInv'
  <2>1. /\ DOMAIN ledger' \subseteq 1..moments
        /\ \A n \in DOMAIN ledger' : ledger'[n] \in ConsentRecord
        /\ \A n \in DOMAIN ledger' : ledger'[n].status = "granted" <=> ledger'[n].withdraws = NoConsent
        /\ \A s \in QueuedMessages \ slipped : queue[s] = "queued" => LatestGranted(ledger')
    BY Zenon, <1>4, <1>5, <1>6, ConsentFacts
  <2>2. \A i, j \in DOMAIN ledger' :
          ledger'[i].status = "withdrawn" /\ ledger'[i].withdraws = ledger'[j].withdraws => i = j
    BY Zenon, <1>4, <1>5, ConsentFacts
  <2> QED
    BY Zenon, <1>1, <2>1, <2>2, ConsentFacts DEF ConsentRecordsInv, LatestGranted, ConsentRecord, Moments
<1>8. \A p \in ConsentRequests :
        consentReq[p] # NoConsent => ConsentRequestOK(ledger', moments, slipped, consentReq[p])
  <2> SUFFICES ASSUME NEW p \in ConsentRequests, consentReq[p] # NoConsent
               PROVE  ConsentRequestOK(ledger', moments, slipped, consentReq[p])
    OBVIOUS
  <2>1. ConsentRequestOK(ledger, moments, slipped, consentReq[p])
    BY Zenon, ConsentFacts
  <2> QED
    BY Zenon, <1>4, <1>6, <2>1 DEF ConsentRequestOK
<1> QED
  BY Zenon, <1>1, <1>7, <1>8, ConsentFacts, ConsentInvNext

(* ConsentInv holds of the empty ledger.                                    *)
LEMMA ConsentInit_Inv == ConsentInit => ConsentInv
<1> SUFFICES ASSUME ConsentInit PROVE ConsentInv
  OBVIOUS
<1>1. /\ ledger = << >> /\ moments = 0 /\ queue = [s \in QueuedMessages |-> "none"]
      /\ consentReq = [q \in ConsentRequests |-> NoConsent]
  BY Zenon DEF ConsentInit
<1>2. DOMAIN ledger = {} /\ moments \in 0..MaxMoments
  BY <1>1, ConsentAssumption
<1>3. "none" # "queued"
  OBVIOUS
<1>4. ConsentRecordsInv
  BY Zenon, <1>1, <1>2, <1>3 DEF ConsentRecordsInv
<1>5. ConsentRequestInv
  BY Zenon, <1>1 DEF ConsentRequestInv, Apart, TwoApart
<1> QED
  BY Zenon, <1>4, <1>5 DEF ConsentInv

(* Every step preserves ConsentInv.                                         *)
LEMMA ConsentNext_Inv == ConsentInv /\ [ConsentNext]_consentVars => ConsentInv'
<1> SUFFICES ASSUME ConsentInv, [ConsentNext]_consentVars PROVE ConsentInv'
  OBVIOUS
<1>1. ASSUME NEW q \in ConsentRequests, ConsentRoutes(q) PROVE ConsentInv'
  <2>1. "grant" \in {"grant", "withdraw"} /\ "withdraw" \in {"grant", "withdraw"} /\ "grant" # "withdraw"
    OBVIOUS
  <2>2. ASSUME TakeMoment(q, "grant", NoConsent) PROVE ConsentInv'
    BY Zenon, <2>1, <2>2, TakeMomentStep
  <2>3. ASSUME NEW g \in DOMAIN ledger, TakeMoment(q, "withdraw", g) PROVE ConsentInv'
    BY Zenon, <2>1, <2>3, TakeMomentStep
  <2> QED
    BY Zenon, <1>1, <2>2, <2>3, grantStep, CancelQueuedStep, withdrawStep DEF ConsentRoutes
<1>2. ASSUME UNCHANGED consentVars PROVE ConsentInv'
  <2>1. /\ ledger' = ledger /\ moments' = moments /\ queue' = queue
        /\ consentReq' = consentReq /\ slipped' = slipped
    BY Zenon, <1>2 DEF consentVars
  <2>2. ConsentRecordsInv'
    BY Zenon, <2>1, ConsentFacts, ConsentRowsSame
  <2> QED
    BY Zenon, <2>1, <2>2, ConsentFacts, ConsentInvNext
<1> QED
  BY Zenon, <1>1, <1>2, QueueMessageStep, CheckConsentStep, GrantExpiresStep DEF ConsentNext

(* ConsentInv holds throughout: no two requests write under one moment or   *)
(* withdraw one grant, and a message is queued only while the latest        *)
(* decision is a grant, unless its send looked too early.                   *)
THEOREM ConsentsInvariant == ConsentSpec => []ConsentInv
<1> QED
  BY ConsentInit_Inv, ConsentNext_Inv, PTL DEF ConsentSpec

(* For any number of requests, messages and decisions: after a withdrawal   *)
(* nothing stays queued but what slipped between the look at the ledger and *)
(* the queueing, and a grant is withdrawn once (withdraw, under its row     *)
(* lock).                                                                   *)
THEOREM WithdrawalsHonoured == ConsentSpec => []WithdrawalIsHonoured
<1>1. ConsentInv => WithdrawalIsHonoured
  BY Zenon, ConsentFacts DEF WithdrawalIsHonoured, LatestGranted
<1> QED
  BY <1>1, ConsentsInvariant, PTL

-----------------------------------------------------------------------------
(* WebChat.  A thread's columns, and what a request of each kind makes of   *)
(* the thread it loaded.                                                    *)
ThreadOps == {"post", "receive", "send", "update", "read"}

ThreadRow == [session : {"none", "live", "ended"}, status : CONVERSATION_STATUSES,
              unread_count : Nat, automation_stopped : BOOLEAN]

Becomes(op, old, new) ==
  /\ new \in ThreadRow /\ new.session = old.session
  /\ op \in {"post", "receive"} => new.unread_count = old.unread_count + 1
  /\ op = "read" => new.unread_count = 0
  /\ op \in {"send", "update"} => new.unread_count = old.unread_count
  /\ op = "receive" => new.status = Reopens(old.status)
  /\ op \in {"post", "send", "read"} => new.status = old.status

OldThread(r) == r.writes[r.chat].old
NewThread(r) == r.writes[r.chat].new

Alike(row, old) == old.status = row.status /\ old.unread_count = row.unread_count

ThreadOK(row, r) ==
  /\ r.op \in ThreadOps /\ r.chat \in Chats
  /\ DOMAIN r.writes = {r.chat} /\ r.stale \subseteq {r.chat}
  /\ OldThread(r) \in ThreadRow /\ Becomes(r.op, OldThread(r), NewThread(r))
  /\ r.stale = {} => Alike(row, OldThread(r))

ChatReqOK(rows, r) ==
  \/ r.op = "widget"
  \/ r.op = "start" /\ r.chat \in Chats
  \/ ThreadOK(rows[r.chat], r)

ChatReqInv ==
  /\ DOMAIN chatReq = ChatRequests
  /\ \A q \in ChatRequests : chatReq[q] # NoChat => ChatReqOK(chatRow, chatReq[q])

ChatRowsInv ==
  /\ chatRow \in [Chats -> ThreadRow] /\ unseen \in [Chats -> Nat]
  /\ posted \in [Chats -> [visitor : Nat, all : Nat]]
  /\ \A c \in Chats : posted[c].visitor <= posted[c].all

Shown(row, n, waits) == row.unread_count = n /\ (waits => row.status \in {"active", "spam"})

ThreadsInv == \A c \in Chats \ chatTaint : Shown(chatRow[c], unseen[c], c \in waiting)

(* Messages of visitors that were admitted and are not yet on record.       *)
Posts(reqs, c) == {q \in ChatRequests : reqs[q] # NoChat /\ reqs[q].op = "post" /\ reqs[q].chat = c}

PostsInv ==
  \A c \in Chats : posted[c].visitor + Cardinality(Posts(chatReq, c))
                     <= MAX_MESSAGES_PER_SESSION - 1 + Cardinality(ChatRequests)

OneWidget == \A v, w \in widgets : v = w

ChatInv == OneWidget /\ ChatRowsInv /\ ChatReqInv /\ ThreadsInv /\ PostsInv

-----------------------------------------------------------------------------
(* Sets of requests are finite, and a smaller one has fewer.                *)
LEMMA RequestsFinite ==
  ASSUME NEW S \in SUBSET ChatRequests
  PROVE  /\ IsFiniteSet(S) /\ Cardinality(S) \in Nat /\ Cardinality(ChatRequests) \in Nat
         /\ Cardinality(S) <= Cardinality(ChatRequests)
  BY Zenon, FS_Subset, FS_CardinalityType, ChatAssumption

(* A session's messages stay within its limit as long as no post is added.  *)
LEMMA FewerPosts ==
  ASSUME ChatInv, NEW c \in Chats, posted'[c].visitor = posted[c].visitor,
         Posts(chatReq', c) \subseteq Posts(chatReq, c)
  PROVE  posted'[c].visitor + Cardinality(Posts(chatReq', c))
           <= MAX_MESSAGES_PER_SESSION - 1 + Cardinality(ChatRequests)
<1>1. Posts(chatReq, c) \in SUBSET ChatRequests /\ Posts(chatReq', c) \in SUBSET Posts(chatReq, c)
  BY Zenon DEF Posts
<1>2. Cardinality(Posts(chatReq', c)) <= Cardinality(Posts(chatReq, c))
  BY Zenon, <1>1, RequestsFinite, FS_Subset
<1>3. /\ Cardinality(Posts(chatReq', c)) \in Nat /\ Cardinality(Posts(chatReq, c)) \in Nat
      /\ Cardinality(ChatRequests) \in Nat
  BY Zenon, <1>1, RequestsFinite
<1>4. posted[c].visitor \in Nat
  BY Zenon DEF ChatInv, ChatRowsInv
<1>5. posted[c].visitor + Cardinality(Posts(chatReq, c))
        <= MAX_MESSAGES_PER_SESSION - 1 + Cardinality(ChatRequests)
  BY Zenon DEF ChatInv, PostsInv
<1> QED
  BY SMTT(40), <1>2, <1>3, <1>4, <1>5, ChatAssumption

(* A request is admitted and loads what it needs.                           *)
LEMMA ChatLoads ==
  ASSUME ChatInv, NEW q \in ChatRequests, NEW r, chatReq[q] = NoChat, Pause(q, r),
         ChatReqOK(chatRow, r), (r.op = "post" => Admitted(r.chat)),
         UNCHANGED <<widgets, chatRow, posted, unseen, waiting, chatTaint>>
  PROVE  ChatInv'
<1>1. DOMAIN chatReq' = ChatRequests /\ chatReq'[q] = r
      /\ \A p \in ChatRequests \ {q} : chatReq'[p] = chatReq[p]
  BY Zenon DEF Pause, ChatInv, ChatReqInv
<1>2. OneWidget' /\ ChatRowsInv' /\ ThreadsInv'
  BY Zenon DEF ChatInv, OneWidget, ChatRowsInv, ThreadsInv
<1>3. ChatReqInv'
  BY Zenon, <1>1 DEF ChatInv, ChatReqInv
<1>4. ASSUME NEW c \in Chats
      PROVE  posted'[c].visitor + Cardinality(Posts(chatReq', c))
               <= MAX_MESSAGES_PER_SESSION - 1 + Cardinality(ChatRequests)
  <2>1. CASE r.op = "post" /\ r.chat = c
    <3>1. posted[c].visitor \in Nat /\ posted[c].all \in Nat /\ posted[c].visitor <= posted[c].all
      BY Zenon DEF ChatInv, ChatRowsInv
    <3>2. posted[c].all < MAX_MESSAGES_PER_SESSION
      BY Zenon, <2>1 DEF Admitted
    <3>3. Posts(chatReq', c) \in SUBSET ChatRequests
      BY Zenon DEF Posts
    <3>4. /\ Cardinality(Posts(chatReq', c)) \in Nat /\ Cardinality(ChatRequests) \in Nat
          /\ Cardinality(Posts(chatReq', c)) <= Cardinality(ChatRequests)
      BY Zenon, <3>3, RequestsFinite
    <3>5. posted' = posted
      BY Zenon
    <3> QED
      BY SMTT(40), <3>1, <3>2, <3>4, <3>5, ChatAssumption
  <2>2. CASE ~(r.op = "post" /\ r.chat = c)
    <3>1. Posts(chatReq', c) \subseteq Posts(chatReq, c)
      BY Zenon, <1>1, <2>2 DEF Posts
    <3> QED
      BY Zenon, <3>1, FewerPosts
  <2> QED
    BY Zenon, <2>1, <2>2
<1> QED
  BY Zenon, <1>2, <1>3, <1>4 DEF ChatInv, PostsInv

(* A step that ends a request, or none, and changes no thread's status or   *)
(* count.                                                                   *)
LEMMA ChatRests ==
  ASSUME ChatInv, DOMAIN chatReq' = ChatRequests,
         \A p \in ChatRequests : chatReq'[p] = chatReq[p] \/ chatReq'[p] = NoChat,
         chatRow' \in [Chats -> ThreadRow], \A c \in Chats : Alike(chatRow[c], chatRow'[c]),
         OneWidget', UNCHANGED <<posted, unseen, waiting, chatTaint>>
  PROVE  ChatInv'
<1>1. ChatRowsInv' /\ ThreadsInv'
  BY Zenon DEF ChatInv, ChatRowsInv, ThreadsInv, Shown, Alike
<1>2. ASSUME NEW p \in ChatRequests, chatReq'[p] # NoChat PROVE ChatReqOK(chatRow', chatReq'[p])
  <2> DEFINE r == chatReq[p]
  <2>1. chatReq'[p] = r /\ ChatReqOK(chatRow, r)
    BY Zenon, <1>2 DEF ChatInv, ChatReqInv
  <2> HIDE DEF r
  <2>2. ThreadOK(chatRow[r.chat], r) => ThreadOK(chatRow'[r.chat], r)
    BY Zenon DEF ThreadOK, Alike
  <2>3. ChatReqOK(chatRow', r)
    BY Zenon, <2>1, <2>2 DEF ChatReqOK
  <2> QED
    BY Zenon, <2>1, <2>3
<1>3. ASSUME NEW c \in Chats
      PROVE  posted'[c].visitor + Cardinality(Posts(chatReq', c))
               <= MAX_MESSAGES_PER_SESSION - 1 + Cardinality(ChatRequests)
  <2>1. Posts(chatReq', c) \subseteq Posts(chatReq, c)
    BY Zenon DEF Posts
  <2> QED
    BY Zenon, <2>1, FewerPosts
<1> QED
  BY Zenon, <1>1, <1>2, <1>3 DEF ChatInv, ChatReqInv, PostsInv

(* What a flush of a thread's changed columns leaves in the row.            *)
LEMMA ThreadFlush ==
  ASSUME NEW row \in ThreadRow, NEW old \in ThreadRow, NEW op \in ThreadOps, NEW new \in ThreadRow,
         Becomes(op, old, new), NEW out, out = Flush(row, old, new)
  PROVE  /\ out \in ThreadRow /\ out.session = row.session
         /\ Alike(row, old) => out.status = new.status /\ out.unread_count = new.unread_count
<1>1. DOMAIN row = {"session", "status", "unread_count", "automation_stopped"}
  BY Zenon DEF ThreadRow
<1>2. new \in ThreadRow /\ new.session = old.session
  BY Zenon DEF Becomes
<1>3. /\ out.session = row.session
      /\ out.status = (IF new.status # old.status THEN new.status ELSE row.status)
      /\ out.unread_count = (IF new.unread_count # old.unread_count THEN new.unread_count ELSE row.unread_count)
      /\ out.automation_stopped = (IF new.automation_stopped # old.automation_stopped
                                     THEN new.automation_stopped ELSE row.automation_stopped)
  BY Zenon, <1>1, <1>2 DEF Flush
<1>4. out = [session |-> out.session, status |-> out.status, unread_count |-> out.unread_count,
             automation_stopped |-> out.automation_stopped]
  BY Zenon, <1>1 DEF Flush
<1>5. /\ out.session \in {"none", "live", "ended"} /\ out.status \in CONVERSATION_STATUSES
      /\ out.unread_count \in Nat /\ out.automation_stopped \in BOOLEAN
  BY Zenon, <1>2, <1>3 DEF ThreadRow
<1>6. out \in ThreadRow
  BY Zenon, <1>4, <1>5 DEF ThreadRow
<1> QED
  BY Zenon, <1>3, <1>6 DEF Alike

(* The commit of a request on a thread.                                     *)
LEMMA CommitThreadStep ==
  ASSUME ChatInv, NEW q \in ChatRequests, CommitThread(q)
  PROVE  ChatInv'
<1> DEFINE r == chatReq[q]
           c == r.chat
           old == OldThread(r)
           new == NewThread(r)
<1>1. r # NoChat /\ r.op \in ThreadOps /\ ThreadOK(chatRow[c], r)
  BY Zenon DEF CommitThread, ThreadOps, ChatInv, ChatReqInv, ChatReqOK
<1> HIDE DEF r
<1>2. /\ c \in Chats /\ Dirty(r) = {c} /\ r.stale \subseteq {c} /\ old \in ThreadRow
      /\ Becomes(r.op, old, new) /\ (r.stale = {} => Alike(chatRow[c], old))
      /\ r.writes[c].old = old /\ r.writes[c].new = new
  BY Zenon, <1>1 DEF ThreadOK, Dirty, OldThread, NewThread
<1> HIDE DEF old, new
<1>3. /\ chatRow' = Commit(chatRow, r) /\ posted' = [posted EXCEPT ![c] = Count(c, r.op)]
      /\ unseen' = [unseen EXCEPT ![c] = CASE r.op \in {"post", "receive"} -> @ + 1
                                            [] r.op = "read" -> 0
                                            [] OTHER -> @]
      /\ waiting' = CASE r.op = "receive" -> waiting \cup {c}
                      [] r.op = "update" -> waiting \ {c}
                      [] OTHER -> waiting
      /\ chatTaint' = chatTaint \cup r.stale
      /\ chatReq' = [p \in ChatRequests |->
           IF p = q THEN NoChat
           ELSE IF chatReq[p] # NoChat /\ chatReq[p].op \notin {"widget", "start"}
                  THEN Outdate(chatReq[p], {c}) ELSE chatReq[p]]
      /\ widgets' = widgets
  BY Zenon DEF CommitThread, r
<1>4. chatRow \in [Chats -> ThreadRow] /\ unseen \in [Chats -> Nat]
      /\ posted \in [Chats -> [visitor : Nat, all : Nat]]
      /\ \A d \in Chats : posted[d].visitor <= posted[d].all
  BY Zenon DEF ChatInv, ChatRowsInv
<1>5. /\ DOMAIN chatRow' = Chats /\ chatRow'[c] = Flush(chatRow[c], old, new)
      /\ \A d \in Chats \ {c} : chatRow'[d] = chatRow[d]
      /\ chatRow' = [d \in Chats |-> chatRow'[d]]
  BY Zenon, <1>2, <1>3, <1>4 DEF Commit
<1>6. chatRow[c] \in ThreadRow
  BY Zenon, <1>2, <1>4
<1>7. /\ chatRow'[c] \in ThreadRow
      /\ Alike(chatRow[c], old) => /\ chatRow'[c].status = new.status
                                   /\ chatRow'[c].unread_count = new.unread_count
  <2> HIDE DEF c
  <2>1. PICK row \in ThreadRow, o \in ThreadRow, op \in ThreadOps, n \in ThreadRow :
          /\ row = chatRow[c] /\ o = old /\ op = r.op /\ n = new
          /\ Becomes(op, o, n) /\ chatRow'[c] = Flush(row, o, n)
    <3>1. new \in ThreadRow
      BY Zenon, <1>2 DEF Becomes
    <3> QED
      BY Zenon, <1>1, <1>2, <1>5, <1>6, <3>1
  <2>a. PICK out : out = chatRow'[c] /\ out = Flush(row, o, n)
    BY Zenon, <2>1
  <2>2. /\ out \in ThreadRow
        /\ Alike(row, o) => out.status = n.status /\ out.unread_count = n.unread_count
    BY <2>1, <2>a, ThreadFlush
  <2> QED
    BY Zenon, <2>1, <2>a, <2>2
<1>8. chatRow' \in [Chats -> ThreadRow]
  <2>1. \A d \in Chats : chatRow'[d] \in ThreadRow
    BY Zenon, <1>4, <1>5, <1>7
  <2> QED
    BY Zenon, <1>5, <2>1
<1>9. /\ posted'[c] = Count(c, r.op) /\ \A d \in Chats \ {c} : posted'[d] = posted[d]
      /\ DOMAIN posted' = Chats /\ posted' = [d \in Chats |-> posted'[d]]
  BY Zenon, <1>2, <1>3, <1>4
<1>10. PICK v \in Nat, a \in Nat : posted[c] = [visitor |-> v, all |-> a] /\ v <= a
  BY Zenon, <1>2, <1>4
<1>11. /\ posted'[c] \in [visitor : Nat, all : Nat] /\ posted'[c].visitor <= posted'[c].all
       /\ posted'[c].visitor = IF r.op = "post" THEN v + 1 ELSE v
  <2>0. PICK x, y : /\ x = [visitor |-> v, all |-> a] /\ y = posted'[c]
                    /\ x = posted[c] /\ y = Count(c, r.op)
    BY Zenon, <1>9, <1>10
  <2>1. CASE r.op = "post"
    <3>1. y = [x EXCEPT !.visitor = @ + 1, !.all = @ + 1]
      BY Zenon, <2>0, <2>1 DEF Count
    <3>2. x = [visitor |-> v, all |-> a]
      BY Zenon, <2>0
    <3>3. y.visitor = v + 1 /\ y.all = a + 1 /\ y = [visitor |-> y.visitor, all |-> y.all]
      BY Zenon, <3>1, <3>2
    <3> QED
      BY SMTT(40), <1>10, <2>0, <2>1, <3>3
  <2>2. CASE r.op \in {"receive", "send"}
    <3>1. y = [x EXCEPT !.all = @ + 1] /\ r.op # "post"
      BY Zenon, <2>0, <2>2 DEF Count
    <3>2. y.visitor = v /\ y.all = a + 1 /\ y = [visitor |-> y.visitor, all |-> y.all]
      BY <2>0, <3>1
    <3> QED
      BY SMTT(40), <1>10, <2>0, <3>1, <3>2
  <2>3. CASE r.op \in {"update", "read"}
    <3>1. y = x /\ r.op # "post"
      BY Zenon, <2>0, <2>3 DEF Count
    <3> QED
      BY <1>10, <2>0, <3>1
  <2> QED
    BY Zenon, <1>1, <2>1, <2>2, <2>3 DEF ThreadOps
<1>12. posted' \in [Chats -> [visitor : Nat, all : Nat]]
       /\ \A d \in Chats : posted'[d].visitor <= posted'[d].all
  <2>1. \A d \in Chats : posted'[d] \in [visitor : Nat, all : Nat] /\ posted'[d].visitor <= posted'[d].all
    BY Zenon, <1>4, <1>9, <1>11
  <2> QED
    BY Zenon, <1>9, <2>1
<1>13. /\ unseen' \in [Chats -> Nat] /\ \A d \in Chats \ {c} : unseen'[d] = unseen[d]
       /\ r.op \in {"post", "receive"} => unseen'[c] = unseen[c] + 1
       /\ r.op = "read" => unseen'[c] = 0
       /\ r.op \in {"send", "update"} => unseen'[c] = unseen[c]
  BY <1>2, <1>3, <1>4
<1>14. ChatRowsInv'
  BY Zenon, <1>8, <1>12, <1>13 DEF ChatRowsInv
<1>15. ASSUME NEW d \in Chats \ chatTaint' PROVE Shown(chatRow'[d], unseen'[d], d \in waiting')
  <2>1. d \notin chatTaint /\ d \notin r.stale /\ Shown(chatRow[d], unseen[d], d \in waiting)
    BY Zenon, <1>3, <1>15 DEF ChatInv, ThreadsInv
  <2>2. CASE d # c
    <3>1. d \in waiting' => d \in waiting
      BY Zenon, <1>3, <2>2
    <3> QED
      BY Zenon, <1>5, <1>13, <2>1, <2>2, <3>1 DEF Shown
  <2>3. CASE d = c
    <3>1. Alike(chatRow[c], old)
      BY Zenon, <1>2, <2>1, <2>3
    <3>2. /\ chatRow'[c].status = new.status /\ chatRow'[c].unread_count = new.unread_count
          /\ old.status = chatRow[c].status /\ old.unread_count = unseen[c]
      BY Zenon, <1>7, <2>1, <2>3, <3>1 DEF Alike, Shown
    <3>3. new.unread_count = unseen'[c]
      BY Zenon, <1>1, <1>2, <1>13, <3>2 DEF Becomes, ThreadOps
    <3>4. CASE r.op = "receive"
      <4>1. new.status = Reopens(old.status) /\ old.status \in CONVERSATION_STATUSES
        BY Zenon, <1>2, <3>4 DEF Becomes, ThreadRow
      <4>2. new.status \in {"active", "spam"}
        BY Zenon, <4>1 DEF Reopens, CONVERSATION_STATUSES
      <4> QED
        BY Zenon, <2>3, <3>2, <3>3, <4>2 DEF Shown
    <3>5. CASE r.op = "update"
      <4>1. c \notin waiting'
        BY Zenon, <1>3, <3>5
      <4> QED
        BY Zenon, <2>3, <3>2, <3>3, <4>1 DEF Shown
    <3>6. CASE r.op \in {"post", "send", "read"}
      <4>1. waiting' = waiting
        BY Zenon, <1>3, <3>6
      <4>2. new.status = old.status
        BY Zenon, <1>2, <3>6 DEF Becomes
      <4> QED
        BY Zenon, <2>1, <2>3, <3>2, <3>3, <4>1, <4>2 DEF Shown
    <3> QED
      BY Zenon, <1>1, <3>4, <3>5, <3>6 DEF ThreadOps
  <2> QED
    BY Zenon, <2>2, <2>3
<1>16. ASSUME NEW p \in ChatRequests, chatReq'[p] # NoChat PROVE ChatReqOK(chatRow', chatReq'[p])
  <2> DEFINE s == chatReq[p]
             t == chatReq'[p]
  <2>1. p # q
    BY Zenon, <1>3, <1>16
  <2>2. CASE s.op \in {"widget", "start"}
    <3>1. t = s /\ s # NoChat
      BY Zenon, <1>3, <1>16, <2>1, <2>2
    <3>2. ChatReqOK(chatRow, s)
      BY Zenon, <3>1 DEF ChatInv, ChatReqInv
    <3>3. s.op \notin ThreadOps
      BY Zenon, <2>2 DEF ThreadOps
    <3> QED
      BY Zenon, <3>1, <3>2, <3>3 DEF ChatReqOK, ThreadOK
  <2>3. CASE s.op \notin {"widget", "start"}
    <3>1. s # NoChat /\ t = Outdate(s, {c})
      BY Zenon, <1>3, <1>16, <2>1, <2>3
    <3>2. ThreadOK(chatRow[s.chat], s)
      BY Zenon, <2>3, <3>1 DEF ChatInv, ChatReqInv, ChatReqOK
    <3>3. /\ t.op = s.op /\ t.chat = s.chat /\ t.writes = s.writes
          /\ t.stale = s.stale \cup ({c} \cap Dirty(s)) 
      BY <3>1 DEF Outdate
    <3>4. /\ t.op \in ThreadOps /\ t.chat \in Chats /\ DOMAIN t.writes = {t.chat}
          /\ t.stale \subseteq {t.chat} /\ (s.chat = c => t.stale # {})
          /\ (t.stale = {} => s.stale = {})
      BY Zenon, <3>2, <3>3 DEF ThreadOK, Dirty
    <3>5. OldThread(t) = OldThread(s) /\ NewThread(t) = NewThread(s)
      BY Zenon, <3>3 DEF OldThread, NewThread
    <3>6. t.stale = {} => Alike(chatRow'[t.chat], OldThread(t))
      BY Zenon, <1>5, <3>2, <3>3, <3>4, <3>5 DEF ThreadOK
    <3>7. ThreadOK(chatRow'[t.chat], t)
      BY Zenon, <3>2, <3>3, <3>4, <3>5, <3>6 DEF ThreadOK
    <3> QED
      BY Zenon, <3>7 DEF ChatReqOK
  <2> QED
    BY Zenon, <2>2, <2>3
<1>17. DOMAIN chatReq' = ChatRequests
  BY Zenon, <1>3
<1>18. ASSUME NEW d \in Chats PROVE Posts(chatReq', d) \subseteq Posts(chatReq, d) \ {q}
  <2> SUFFICES ASSUME NEW p \in Posts(chatReq', d) PROVE p \in Posts(chatReq, d) /\ p # q
    BY Zenon
  <2>1. p \in ChatRequests /\ chatReq'[p] # NoChat /\ chatReq'[p].op = "post" /\ chatReq'[p].chat = d
    BY Zenon DEF Posts
  <2>2. p # q
    BY Zenon, <1>3, <2>1
  <2>3. \/ chatReq'[p] = chatReq[p]
        \/ chatReq'[p] = Outdate(chatReq[p], {c}) /\ chatReq[p] # NoChat
    BY Zenon, <1>3, <2>1, <2>2
  <2>4. chatReq'[p] = Outdate(chatReq[p], {c}) /\ chatReq[p] # NoChat =>
          chatReq'[p].op = chatReq[p].op /\ chatReq'[p].chat = chatReq[p].chat
    BY DEF Outdate
  <2> QED
    BY Zenon, <2>1, <2>2, <2>3, <2>4 DEF Posts
<1>19. ASSUME NEW d \in Chats
      PROVE  posted'[d].visitor + Cardinality(Posts(chatReq', d))
               <= MAX_MESSAGES_PER_SESSION - 1 + Cardinality(ChatRequests)
  <2>1. CASE d = c /\ r.op = "post"
    <3>1. q \in Posts(chatReq, c)
      BY Zenon, <1>1, <2>1 DEF Posts, r
    <3>2. Posts(chatReq, c) \in SUBSET ChatRequests
      BY Zenon DEF Posts
    <3>3. /\ IsFiniteSet(Posts(chatReq, c)) /\ Cardinality(Posts(chatReq, c)) \in Nat
          /\ Cardinality(ChatRequests) \in Nat
      BY Zenon, <3>2, RequestsFinite
    <3>4. /\ Cardinality(Posts(chatReq, c) \ {q}) = Cardinality(Posts(chatReq, c)) - 1
          /\ IsFiniteSet(Posts(chatReq, c) \ {q})
      BY Zenon, <3>1, <3>3, FS_RemoveElement
    <3>5. Posts(chatReq', c) \in SUBSET (Posts(chatReq, c) \ {q})
      BY Zenon, <1>18, <2>1
    <3>6. Cardinality(Posts(chatReq', c)) <= Cardinality(Posts(chatReq, c) \ {q})
          /\ Cardinality(Posts(chatReq', c)) \in Nat
      BY Zenon, <3>4, <3>5, FS_Subset, FS_CardinalityType
    <3>7. v + Cardinality(Posts(chatReq, c)) <= MAX_MESSAGES_PER_SESSION - 1 + Cardinality(ChatRequests)
      <4>1. posted[c].visitor = v
        BY <1>10
      <4> QED
        BY Zenon, <1>2, <4>1 DEF ChatInv, PostsInv
    <3>8. posted'[c].visitor = v + 1
      BY Zenon, <1>11, <2>1
    <3>9. v + 1 + Cardinality(Posts(chatReq', c)) <= MAX_MESSAGES_PER_SESSION - 1 + Cardinality(ChatRequests)
      BY SMTT(40), <3>3, <3>4, <3>6, <3>7, ChatAssumption
    <3> QED
      BY Zenon, <2>1, <3>8, <3>9
  <2>2. CASE ~(d = c /\ r.op = "post")
    <3>1. posted'[d].visitor = posted[d].visitor
      <4>1. CASE d # c
        BY Zenon, <1>9, <4>1
      <4>2. CASE d = c
        BY SMTT(40), <1>10, <1>11, <2>2, <4>2
      <4> QED
        BY Zenon, <4>1, <4>2
    <3>2. Posts(chatReq', d) \subseteq Posts(chatReq, d)
      BY Zenon, <1>18
    <3> QED
      BY Zenon, <3>1, <3>2, FewerPosts
  <2> QED
    BY Zenon, <2>1, <2>2
<1> QED
  BY Zenon, <1>3, <1>14, <1>15, <1>16, <1>17, <1>19
     DEF ChatInv, OneWidget, ChatReqInv, ThreadsInv, PostsInv

(* The loads of the inbox and of the visitor.                               *)
LEMMA LoadThreadStep ==
  ASSUME ChatInv, NEW q \in ChatRequests, NEW c \in Chats, NEW op \in ThreadOps, NEW new,
         LoadThread(q, c, op, new), Becomes(op, chatRow[c], new), op = "post" => Admitted(c)
  PROVE  ChatInv'
<1> DEFINE r == [op |-> op, chat |-> c, writes |-> Write(c, chatRow[c], new), stale |-> {}]
<1>1. /\ chatReq[q] = NoChat /\ Pause(q, r)
      /\ UNCHANGED <<widgets, chatRow, posted, unseen, waiting, chatTaint>>
  BY Zenon DEF LoadThread
<1>2. /\ r.op = op /\ r.chat = c /\ r.stale = {} /\ DOMAIN r.writes = {c}
      /\ OldThread(r) = chatRow[c] /\ NewThread(r) = new
  BY Zenon DEF Write, OldThread, NewThread
<1> HIDE DEF r
<1>3. chatRow[c] \in ThreadRow
  BY Zenon DEF ChatInv, ChatRowsInv
<1>4. ThreadOK(chatRow[c], r)
  BY Zenon, <1>2, <1>3 DEF ThreadOK, Alike
<1>5. ChatReqOK(chatRow, r) /\ (r.op = "post" => Admitted(r.chat))
  BY Zenon, <1>2, <1>4 DEF ChatReqOK
<1> QED
  BY Zenon, <1>1, <1>5, ChatLoads

(* The requests that load a thread: posts, answers, reads and closings.     *)
LEMMA ThreadLoads ==
  ASSUME ChatInv, NEW q \in ChatRequests, NEW c \in Chats,
         post_visitor_message(q, c) \/ receive(q, c) \/ send(q, c) \/ mark_read(q, c)
           \/ \E s \in {"resolved", "spam"} : update_conversation(q, c, s, "current")
  PROVE  ChatInv'
<1>1. chatRow[c] \in ThreadRow
  BY Zenon DEF ChatInv, ChatRowsInv
<1>2. CASE post_visitor_message(q, c)
  <2>1. Becomes("post", chatRow[c], [chatRow[c] EXCEPT !.unread_count = @ + 1])
    BY <1>1 DEF Becomes, ThreadRow
  <2> QED
    BY Zenon, <1>2, <2>1, LoadThreadStep DEF post_visitor_message, ThreadOps
<1>3. CASE receive(q, c)
  <2>1. PICK new : /\ new = [chatRow[c] EXCEPT !.unread_count = @ + 1, !.status = Reopens(@)]
                   /\ LoadThread(q, c, "receive", new)
    BY Zenon, <1>3 DEF receive
  <2>2. PICK t \in CONVERSATION_STATUSES, n \in Nat : t = Reopens(chatRow[c].status) /\ n = chatRow[c].unread_count + 1
    BY <1>1 DEF Reopens, CONVERSATION_STATUSES, ThreadRow
  <2>3. new = [chatRow[c] EXCEPT !.unread_count = n, !.status = t]
    BY Zenon, <1>1, <2>1, <2>2 DEF ThreadRow
  <2>4. Becomes("receive", chatRow[c], new)
    BY Zenon, <1>1, <2>2, <2>3 DEF Becomes, ThreadRow
  <2> QED
    BY Zenon, <2>1, <2>4, LoadThreadStep DEF ThreadOps
<1>4. CASE send(q, c)
  <2>1. Becomes("send", chatRow[c], [chatRow[c] EXCEPT !.automation_stopped = TRUE])
    BY Zenon, <1>1 DEF Becomes, ThreadRow
  <2> QED
    BY Zenon, <1>4, <2>1, LoadThreadStep DEF send, ThreadOps
<1>5. CASE mark_read(q, c)
  <2>1. Becomes("read", chatRow[c], [chatRow[c] EXCEPT !.unread_count = 0])
    BY Zenon, <1>1 DEF Becomes, ThreadRow
  <2> QED
    BY Zenon, <1>5, <2>1, LoadThreadStep DEF mark_read, ThreadOps
<1>6. ASSUME NEW s \in {"resolved", "spam"}, update_conversation(q, c, s, "current") PROVE ChatInv'
  <2> DEFINE new == [chatRow[c] EXCEPT !.status = s]
  <2>1. Becomes("update", chatRow[c], new)
    BY Zenon, <1>1 DEF Becomes, ThreadRow, CONVERSATION_STATUSES
  <2>2. LoadThread(q, c, "update", new)
    BY Zenon, <1>6 DEF update_conversation
  <2> QED
    BY Zenon, <2>1, <2>2, LoadThreadStep DEF ThreadOps
<1> QED
  BY Zenon, <1>2, <1>3, <1>4, <1>5, <1>6

(* The widget's requests, and the beginning and the end of a session.       *)
LEMMA WidgetStep ==
  ASSUME ChatInv, NEW q \in ChatRequests, WidgetRoutes(q)
  PROVE  ChatInv'
<1>1. ASSUME NEW old, NEW new, chatReq[q] = NoChat, Pause(q, [op |-> "widget", old |-> old, new |-> new]),
             UNCHANGED <<widgets, chatRow, posted, unseen, waiting, chatTaint>>
      PROVE  ChatInv'
  <2> DEFINE r == [op |-> "widget", old |-> old, new |-> new]
  <2>1. r.op = "widget" /\ "widget" # "post"
    OBVIOUS
  <2>2. Pause(q, r)
    BY Zenon, <1>1
  <2> HIDE DEF r
  <2>3. ChatReqOK(chatRow, r)
    BY Zenon, <2>1 DEF ChatReqOK
  <2> QED
    BY Zenon, <1>1, <2>1, <2>2, <2>3, ChatLoads
<1>2. CASE configure_widget(q)
  <2>1. OneWidget'
    <3> DEFINE r == chatReq[q]
    <3>1. CASE r.old = NoChat
      BY Zenon, <1>2, <3>1 DEF configure_widget, OneWidget, ChatInv, widget_one_per_tenant
    <3>2. CASE r.old # NoChat
      BY Zenon, <1>2, <3>2 DEF configure_widget, OneWidget, ChatInv
    <3> QED
      BY Zenon, <3>1, <3>2
  <2>2. /\ DOMAIN chatReq' = ChatRequests
        /\ \A p \in ChatRequests : chatReq'[p] = chatReq[p] \/ chatReq'[p] = NoChat
    BY Zenon, <1>2 DEF configure_widget, Pause, ChatInv, ChatReqInv
  <2>3. chatRow' \in [Chats -> ThreadRow] /\ \A c \in Chats : Alike(chatRow[c], chatRow'[c])
    BY Zenon, <1>2 DEF configure_widget, ChatInv, ChatRowsInv, Alike
  <2> QED
    BY Zenon, <1>2, <2>1, <2>2, <2>3, ChatRests DEF configure_widget
<1>3. CASE LoadRotation(q)
  BY Zenon, <1>1, <1>3 DEF LoadRotation
<1>4. ASSUME NEW origins \in BOOLEAN \cup {NoChat}, NEW active \in BOOLEAN \cup {NoChat},
             LoadWidget(q, origins, active)
      PROVE  ChatInv'
  BY Zenon, <1>1, <1>4 DEF LoadWidget
<1> QED
  BY Zenon, <1>2, <1>3, <1>4 DEF WidgetRoutes

(* The start and the end of a session.                                      *)
LEMMA SessionStep ==
  ASSUME ChatInv, NEW q \in ChatRequests
  PROVE  /\ \A c \in Chats, key \in 1..MaxKeys : FindWidget(q, c, key) => ChatInv'
         /\ start_session(q) => ChatInv'
         /\ \A c \in Chats : end_session(c) => ChatInv'
<1>0. DOMAIN chatReq = ChatRequests /\ chatRow \in [Chats -> ThreadRow]
  BY Zenon DEF ChatInv, ChatReqInv, ChatRowsInv
<1>1. ASSUME NEW c \in Chats, NEW key \in 1..MaxKeys, FindWidget(q, c, key) PROVE ChatInv'
  <2> DEFINE r == [op |-> "start", chat |-> c]
  <2>1. r.op = "start" /\ r.chat = c /\ "start" # "post"
    OBVIOUS
  <2>2. Pause(q, r) /\ chatReq[q] = NoChat
    BY Zenon, <1>1 DEF FindWidget
  <2> HIDE DEF r
  <2>3. ChatReqOK(chatRow, r)
    BY Zenon, <2>1 DEF ChatReqOK
  <2> QED
    BY Zenon, <1>1, <2>1, <2>2, <2>3, ChatLoads DEF FindWidget
<1>2. ASSUME NEW c \in Chats, NEW s \in {"live", "ended"}, chatRow' = [chatRow EXCEPT ![c].session = s]
      PROVE  chatRow' \in [Chats -> ThreadRow] /\ \A d \in Chats : Alike(chatRow[d], chatRow'[d])
  <2>1. chatRow[c] \in ThreadRow
    BY Zenon, <1>0
  <2>2. [chatRow[c] EXCEPT !.session = s] \in ThreadRow /\ Alike(chatRow[c], [chatRow[c] EXCEPT !.session = s])
    BY Zenon, <2>1 DEF ThreadRow, Alike
  <2> QED
    BY Zenon, <1>0, <1>2, <2>2 DEF Alike
<1>3. ASSUME start_session(q) PROVE ChatInv'
  <2>1. chatReq[q].chat \in Chats
    <3>1. ChatReqOK(chatRow, chatReq[q]) /\ chatReq[q].op = "start"
      BY Zenon, <1>3 DEF start_session, ChatInv, ChatReqInv
    <3> QED
      BY Zenon, <3>1 DEF ChatReqOK, ThreadOK
  <2>2. PICK c \in Chats : chatRow' = [chatRow EXCEPT ![c].session = "live"]
    BY Zenon, <1>3, <2>1 DEF start_session
  <2>3. chatRow' \in [Chats -> ThreadRow] /\ \A d \in Chats : Alike(chatRow[d], chatRow'[d])
    BY Zenon, <1>2, <2>2
  <2>4. /\ DOMAIN chatReq' = ChatRequests
        /\ \A p \in ChatRequests : chatReq'[p] = chatReq[p] \/ chatReq'[p] = NoChat
    BY Zenon, <1>0, <1>3 DEF start_session, Pause
  <2>5. OneWidget'
    BY Zenon, <1>3 DEF start_session, ChatInv, OneWidget
  <2> QED
    BY Zenon, <1>3, <2>3, <2>4, <2>5, ChatRests DEF start_session
<1>4. ASSUME NEW c \in Chats, end_session(c) PROVE ChatInv'
  <2>1. chatRow' \in [Chats -> ThreadRow] /\ \A d \in Chats : Alike(chatRow[d], chatRow'[d])
    BY Zenon, <1>2, <1>4 DEF end_session
  <2>2. OneWidget' /\ chatReq' = chatReq
    BY Zenon, <1>4 DEF end_session, ChatInv, OneWidget
  <2> QED
    BY Zenon, <1>0, <1>4, <2>1, <2>2, ChatRests DEF end_session
<1> QED
  BY Zenon, <1>1, <1>3, <1>4

(* ChatInv holds throughout.                                                *)
THEOREM ChatInvariant == ChatSpec => []ChatInv
<1>1. ChatInit => ChatInv
  <2> SUFFICES ASSUME ChatInit PROVE ChatInv
    OBVIOUS
  <2>1. OneWidget /\ ThreadsInv /\ ChatReqInv
    BY Zenon DEF ChatInit, OneWidget, ThreadsInv, ChatReqInv, Shown
  <2>2. ChatRowsInv
    BY DEF ChatInit, ChatRowsInv, ThreadRow, CONVERSATION_STATUSES
  <2>3. ASSUME NEW c \in Chats
        PROVE  posted[c].visitor + Cardinality(Posts(chatReq, c))
                 <= MAX_MESSAGES_PER_SESSION - 1 + Cardinality(ChatRequests)
    <3>1. Posts(chatReq, c) = {} /\ posted[c].visitor = 0
      BY Zenon DEF ChatInit, Posts
    <3>2. Cardinality(ChatRequests) \in Nat
      BY Zenon, FS_CardinalityType, ChatAssumption
    <3>3. 0 + 0 <= MAX_MESSAGES_PER_SESSION - 1 + Cardinality(ChatRequests)
      BY <3>2, ChatAssumption
    <3> QED
      BY Zenon, <3>1, <3>3, FS_EmptySet
  <2> QED
    BY Zenon, <2>1, <2>2, <2>3 DEF ChatInv, PostsInv
<1>2. ChatInv /\ [ChatNext]_chatVars => ChatInv'
  <2>1. ASSUME ChatInv, UNCHANGED chatVars PROVE ChatInv'
    BY Zenon, <2>1 DEF chatVars, ChatInv, OneWidget, ChatRowsInv, ChatReqInv, ThreadsInv, PostsInv
  <2>2. ASSUME ChatInv, NEW q \in ChatRequests,
               WidgetRoutes(q) \/ VisitorRoutes(q) \/ InboxRoutes(q) \/ CommitThread(q)
        PROVE  ChatInv'
    BY Zenon, <2>2, WidgetStep, SessionStep, ThreadLoads, CommitThreadStep DEF VisitorRoutes, InboxRoutes
  <2> QED
    BY Zenon, <2>1, <2>2 DEF ChatNext
<1> QED
  BY <1>1, <1>2, PTL DEF ChatSpec

(* For any number of threads and requests: one widget, visitors within the  *)
(* limit and the requests in flight, unread counts and statuses that fit    *)
(* what came in, for threads not written from an outdated load              *)
(* (post_visitor_message, receive, mark_read).                              *)
THEOREM ChatsAreKept == ChatSpec => []ChatIsKept
<1>1. ChatInv => ChatIsKept
  <2> SUFFICES ASSUME ChatInv PROVE ChatIsKept
    OBVIOUS
  <2>1. Cardinality(widgets) <= 1
    <3>1. CASE widgets = {}
      <4>1. Cardinality(widgets) = 0
        BY Zenon, <3>1, FS_EmptySet
      <4> QED
        BY <4>1
    <3>2. CASE widgets # {}
      <4>0. PICK w \in widgets : TRUE
        BY Zenon, <3>2
      <4>1. widgets = {w}
        BY Zenon, <4>0 DEF ChatInv, OneWidget
      <4>2. Cardinality(widgets) = 1
        BY Zenon, <4>1, FS_Singleton
      <4> QED
        BY <4>2
    <3> QED
      BY Zenon, <3>1, <3>2
  <2>2. ASSUME NEW c \in Chats
        PROVE  posted[c].visitor <= MAX_MESSAGES_PER_SESSION + Cardinality(ChatRequests) - 1
    <3>1. Posts(chatReq, c) \in SUBSET ChatRequests
      BY Zenon DEF Posts
    <3>2. Cardinality(Posts(chatReq, c)) \in Nat /\ Cardinality(ChatRequests) \in Nat
      BY Zenon, <3>1, RequestsFinite
    <3>3. /\ posted[c].visitor \in Nat
          /\ posted[c].visitor + Cardinality(Posts(chatReq, c))
               <= MAX_MESSAGES_PER_SESSION - 1 + Cardinality(ChatRequests)
      BY Zenon DEF ChatInv, ChatRowsInv, PostsInv
    <3> QED
      BY <3>2, <3>3, ChatAssumption
  <2> QED
    BY Zenon, <2>1, <2>2 DEF ChatInv, ThreadsInv, Shown, ChatIsKept
<1> QED
  BY <1>1, ChatInvariant, PTL
=============================================================================
