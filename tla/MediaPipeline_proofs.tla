------------------------ MODULE MediaPipeline_proofs ------------------------
(***************************************************************************)
(* Theorems about MediaPipeline, for every set of uploads, contents,       *)
(* workers, callers and products.                                          *)
(***************************************************************************)
EXTENDS MediaPipeline, TLAPS

-----------------------------------------------------------------------------
(* What holds under every fault.                                           *)

\* A task that has begun works for an existing primary key.
TaskHasUpload ==
    \A w \in Worker : worker[w].pc # "idle" => worker[w].upload \in Upload

\* A row is locked only while it is pending, so a task whose transaction is
\* alive always settles a pending row.
LockedIsPending ==
    \A u \in Upload : lock[u] # NoWorker => status[u] = "pending"

\* The snapshot a caller attaches from is not stale: ready is for ever.
CallerIsRight ==
    \A a \in Caller : caller[a].status = "ready" =>
        /\ caller[a].upload \in Upload
        /\ status[caller[a].upload] = "ready"

BasicInv ==
    /\ TypeOK
    /\ TaskHasUpload
    /\ LockedIsPending
    /\ CallerIsRight
    /\ AttachedIsReady

LEMMA BasicInit == Init => BasicInv
BY MediaAssumption
DEF Init, BasicInv, TypeOK, TaskHasUpload, LockedIsPending, CallerIsRight,
    AttachedIsReady, Idle, NotLoaded, Status

\* Moving a task that has begun to another point of its transaction.
LEMMA TaskMoves ==
    ASSUME TypeOK, TaskHasUpload, NEW w \in Worker, worker[w].pc # "idle",
           NEW pc \in PastGuard, GoTo(w, pc)
    PROVE  /\ TaskHasUpload'
           /\ worker' \in [Worker -> [pc : {"idle", "locking"} \cup PastGuard,
                                     upload : Upload \cup {NoUpload},
                                     data : Content \cup {NoContent}]]
<1>1. \A v \in Worker : /\ worker'[v].upload = worker[v].upload
                        /\ worker'[v].data = worker[v].data
                        /\ worker'[v].pc = IF v = w THEN pc ELSE worker[v].pc
    BY DEF TypeOK, GoTo
<1>2. QED
    BY <1>1 DEF TypeOK, TaskHasUpload, GoTo

\* A task that ends frees its locks and forgets its upload, whatever it does
\* to the status of the row it held.
LEMMA EndOfTask ==
    ASSUME BasicInv, NEW w \in Worker, worker[w].pc # "idle",
           ReleaseLock(w), Finish(w), NEW s \in {"ready", "rejected"},
           \/ UNCHANGED status
           \/ InTransaction(w) /\ status' = [status EXCEPT ![worker[w].upload] = s],
           UNCHANGED <<product, storage, caller>>
    PROVE  BasicInv'
<1> USE DEF BasicInv
<1>1. worker[w].upload \in Upload
    BY DEF TaskHasUpload
<1>2. TypeOK'
    BY <1>1 DEF TypeOK, ReleaseLock, Finish, Idle, storage, Status
<1>3. TaskHasUpload'
    BY DEF TypeOK, TaskHasUpload, Finish, Idle
<1>4. LockedIsPending'
    BY <1>1, MediaAssumption
    DEF TypeOK, LockedIsPending, ReleaseLock, InTransaction
<1>5. \A u \in Upload : status[u] = "ready" => status'[u] = "ready"
    BY <1>1, MediaAssumption DEF TypeOK, LockedIsPending, InTransaction
<1>6. CallerIsRight' /\ AttachedIsReady'
    BY <1>5 DEF CallerIsRight, AttachedIsReady
<1>7. QED
    BY <1>2, <1>3, <1>4, <1>6

LEMMA BasicStep == BasicInv /\ [Next]_vars => BasicInv'
<1> SUFFICES ASSUME BasicInv, [Next]_vars PROVE BasicInv'
    OBVIOUS
<1> USE DEF BasicInv
<1>1. ASSUME NEW u \in Upload, RequestUpload(u) PROVE BasicInv'
    BY <1>1 DEF RequestUpload, TypeOK, TaskHasUpload, LockedIsPending,
                CallerIsRight, AttachedIsReady, Status
<1>2. ASSUME NEW u \in Upload, NEW c \in Content, PostObject(u, c)
      PROVE  BasicInv'
    BY <1>2, MediaAssumption
    DEF PostObject, db, TypeOK, TaskHasUpload, LockedIsPending, CallerIsRight,
        AttachedIsReady
<1>3. ASSUME NEW u \in Upload, ExpireCredential(u) PROVE BasicInv'
    BY <1>3 DEF ExpireCredential, db, TypeOK, TaskHasUpload, LockedIsPending,
                CallerIsRight, AttachedIsReady
<1>4. ASSUME NEW u \in Upload, RepeatEvent(u) PROVE BasicInv'
    BY <1>4, MediaAssumption
    DEF RepeatEvent, db, TypeOK, TaskHasUpload, LockedIsPending, CallerIsRight,
        AttachedIsReady
<1>5. ASSUME NEW w \in Worker, NEW u \in Upload, Deliver(w, u)
      PROVE  BasicInv'
    BY <1>5, MediaAssumption
    DEF Deliver, TaskAt, db, TypeOK, TaskHasUpload, LockedIsPending,
        CallerIsRight, AttachedIsReady
<1>6. ASSUME NEW a \in Caller, NEW u \in Upload, LoadUpload(a, u)
      PROVE  BasicInv'
    BY <1>6 DEF LoadUpload, db, storage, TypeOK, TaskHasUpload,
                LockedIsPending, CallerIsRight, AttachedIsReady
<1>7. ASSUME NEW a \in Caller, NEW p \in Product, AttachMedia(a, p)
      PROVE  BasicInv'
    BY <1>7 DEF AttachMedia, storage, TypeOK, TaskHasUpload, LockedIsPending,
                CallerIsRight, AttachedIsReady, NotLoaded, Status
<1>8. ASSUME NEW w \in Worker, LockRow(w) PROVE BasicInv'
  <2>1. CASE status[worker[w].upload] = "pending"
    <3>1. /\ GoTo(w, "reading")
          /\ "reading" \in PastGuard
          /\ worker[w].pc # "idle"
          /\ worker[w].upload \in Upload
        BY <1>8, <2>1 DEF LockRow, TaskAt, PastGuard, TaskHasUpload
    <3>2. QED
        BY <1>8, <2>1, <3>1, TaskMoves
        DEF LockRow, storage, TypeOK, LockedIsPending, CallerIsRight,
            AttachedIsReady
  <2>2. CASE status[worker[w].upload] # "pending"
      BY <1>8, <2>2
      DEF LockRow, TaskAt, Finish, Idle, storage, TypeOK, TaskHasUpload,
          LockedIsPending, CallerIsRight, AttachedIsReady
  <2>3. QED
      BY <2>1, <2>2
<1>9. ASSUME NEW w \in Worker, ReadObject(w) PROVE BasicInv'
  <2>1. worker[w].upload \in Upload /\ "validating" \in PastGuard
      BY <1>9 DEF ReadObject, TaskAt, TaskHasUpload, PastGuard
  <2>2. QED
      BY <1>9, <2>1
      DEF ReadObject, TaskAt, db, storage, TypeOK, TaskHasUpload,
          LockedIsPending, CallerIsRight, AttachedIsReady
<1>10. ASSUME NEW w \in Worker, NEW pc \in PastGuard,
              worker[w].pc # "idle", GoTo(w, pc),
              UNCHANGED <<db, storage, caller>>
       PROVE  BasicInv'
    BY <1>10, TaskMoves
    DEF db, storage, TypeOK, LockedIsPending, CallerIsRight, AttachedIsReady
<1>11. ASSUME NEW w \in Worker, worker[w].pc # "idle", RejectUpload(w)
       PROVE  BasicInv'
    BY <1>11, EndOfTask DEF RejectUpload
<1>12. ASSUME NEW w \in Worker, worker[w].pc # "idle", Rollback(w)
       PROVE  BasicInv'
    BY <1>12, EndOfTask DEF Rollback
<1>13. ASSUME NEW w \in Worker, Validate(w) PROVE BasicInv'
    BY <1>13, <1>10, <1>11, <1>12 DEF Validate, TaskAt, PastGuard
<1>14. ASSUME NEW w \in Worker, Scan(w) PROVE BasicInv'
    BY <1>14, <1>10, <1>11 DEF Scan, TaskAt, PastGuard
<1>15. ASSUME NEW w \in Worker, Derive(w) PROVE BasicInv'
    BY <1>15, <1>10, <1>12 DEF Derive, TaskAt, PastGuard, Derivative
<1>16. ASSUME NEW w \in Worker, NEW k \in Derivative, SaveDerivative(w, k)
       PROVE  BasicInv'
  <2>1. AfterSaving[k] \in PastGuard
      BY DEF AfterSaving, PastGuard, Derivative
  <2>2. worker[w].pc # "idle" /\ worker[w].upload \in Upload
      BY <1>16 DEF SaveDerivative, TaskAt, Derivative, TaskHasUpload
  <2>3. derived' \in [Upload -> [Derivative -> Content \cup {NoContent}]]
      BY <1>16, <2>2 DEF SaveDerivative, TypeOK
  <2>4. QED
      BY <1>16, <2>1, <2>2, <2>3, TaskMoves
      DEF SaveDerivative, db, TypeOK, LockedIsPending, CallerIsRight,
          AttachedIsReady
<1>17. ASSUME NEW w \in Worker, CommitReady(w) PROVE BasicInv'
    BY <1>17, EndOfTask DEF CommitReady, TaskAt
<1>18. ASSUME NEW w \in Worker, TaskDies(w) PROVE BasicInv'
    BY <1>18, <1>12 DEF TaskDies
<1>19. ASSUME NEW w \in Worker, LoseConnection(w) PROVE BasicInv'
    BY <1>19, MediaAssumption
    DEF LoseConnection, ReleaseLock, storage, TypeOK, TaskHasUpload,
        LockedIsPending, CallerIsRight, AttachedIsReady
<1>20. CASE UNCHANGED vars
    BY <1>20 DEF vars, TypeOK, TaskHasUpload, LockedIsPending, CallerIsRight,
                 AttachedIsReady
<1>21. QED
    BY <1>1, <1>2, <1>3, <1>4, <1>5, <1>6, <1>7, <1>8, <1>9, <1>13, <1>14,
       <1>15, <1>16, <1>17, <1>18, <1>19, <1>20
    DEF Next, Task

LEMMA BasicCorrect == Spec => []BasicInv
BY BasicInit, BasicStep, PTL DEF Spec

\* Every state is well typed; in particular locks are held by workers and no
\* more events wait than the bound allows.
THEOREM MediaTypeCorrect == Spec => []TypeOK
<1>1. BasicInv => TypeOK
    BY DEF BasicInv
<1>2. QED
    BY <1>1, BasicCorrect, PTL

\* attach_media_to_product only ever attaches ready uploads, from however old a
\* snapshot its caller works, and under every fault.
THEOREM MediaAttachedIsReady == Spec => []AttachedIsReady
<1>1. BasicInv => AttachedIsReady
    BY DEF BasicInv
<1>2. QED
    BY <1>1, BasicCorrect, PTL

\* The status guard under the row lock makes ready and rejected final, under
\* every fault.
THEOREM MediaSettledIsFinal == Spec => SettledIsFinal
<1> DEFINE Final == \A u \in Upload : status[u] \in Settled => status'[u] = status[u]
<1>1. BasicInv /\ [Next]_vars => [Final]_vars
  <2> SUFFICES ASSUME BasicInv, [Next]_vars, NEW u \in Upload,
                      status[u] \in Settled
               PROVE  status'[u] = status[u]
      OBVIOUS
  <2> USE DEF BasicInv
  <2>1. ASSUME NEW w \in Worker, NEW s \in Status, worker[w].pc # "idle",
               InTransaction(w),
               status' = [status EXCEPT ![worker[w].upload] = s]
        PROVE  status'[u] = status[u]
    <3>1. worker[w].upload \in Upload /\ status[worker[w].upload] = "pending"
        BY <2>1, MediaAssumption
        DEF InTransaction, TaskHasUpload, LockedIsPending
    <3>2. QED
        BY <2>1, <3>1 DEF TypeOK, Settled
  <2>2. ASSUME NEW w \in Worker, RejectUpload(w), worker[w].pc # "idle"
        PROVE  status'[u] = status[u]
      BY <2>1, <2>2 DEF RejectUpload, Status
  <2>3. ASSUME NEW w \in Worker, Task(w) PROVE status'[u] = status[u]
      BY <2>1, <2>2, <2>3
      DEF Task, TaskAt, Status, LockRow, ReadObject, Validate, Scan, Derive,
          Rollback, SaveDerivative, CommitReady, db
  <2>4. ASSUME NEW v \in Upload, RequestUpload(v) PROVE status'[u] = status[u]
      BY <2>4 DEF RequestUpload, TypeOK, Settled
  <2>5. QED
      BY <2>3, <2>4
      DEF Next, PostObject, ExpireCredential, RepeatEvent, Deliver, LoadUpload,
          AttachMedia, TaskDies, Rollback, LoseConnection, db, vars
<1>2. QED
    BY <1>1, BasicCorrect, PTL DEF Spec, SettledIsFinal

-----------------------------------------------------------------------------
(* What holds while connections last and ClamAV's scans complete.          *)

NoSuchFault == {"lost_connection", "scan_error"} \cap Faults = {}

Scanned == Derivative \cup {"deriving", "saving"}
Validated == Scanned \cup {"scanning"}

\* Where a task is says which row it holds and what its bytes have passed.
TaskKnows(w) ==
    LET t == worker[w] IN
    /\ t.pc \in PastGuard => lock[t.upload] = w
    /\ t.pc \in Validated => <<t.upload, t.data>> \in Matches
    /\ t.pc \in Scanned => t.data \notin Infected
    /\ t.pc \in Derivative \cup {"saving"} => t.data \notin Undecodable
    /\ t.pc \in {"avif", "thumbnail", "saving"} => derived[t.upload]["webp"] = t.data
    /\ t.pc \in {"thumbnail", "saving"} => derived[t.upload]["avif"] = t.data
    /\ t.pc = "saving" => derived[t.upload]["thumbnail"] = t.data

\* The strengthening of ReadyIsVetted: a row lock is held by the one task that
\* is past the guard for it, and each point of that task vouches for the part
\* of the work before it.
VettedInv ==
    /\ BasicInv
    /\ \A w \in Worker : TaskKnows(w)
    /\ ReadyIsVetted

LEMMA VettedInit == Init => VettedInv
<1> SUFFICES ASSUME Init PROVE VettedInv
    OBVIOUS
<1>1. BasicInv
    BY BasicInit
<1>2. \A w \in Worker : TaskKnows(w)
    BY DEF Init, Idle, TaskKnows, PastGuard, Validated, Scanned, Derivative
<1>3. ReadyIsVetted
    BY DEF Init, ReadyIsVetted
<1>4. QED
    BY <1>1, <1>2, <1>3 DEF VettedInv

\* What a task knows stays true while it stands still and its row's lock and
\* derivatives are left alone.
LEMMA KnowledgeKept ==
    ASSUME NEW w \in Worker, TaskKnows(w), worker'[w] = worker[w],
           worker[w].pc \in PastGuard => lock'[worker[w].upload] = w,
           worker[w].pc \in PastGuard =>
               derived'[worker[w].upload] = derived[worker[w].upload]
    PROVE  TaskKnows(w)'
BY DEF TaskKnows, PastGuard, Validated, Scanned, Derivative

\* A task not in its transaction knows nothing.
LEMMA NothingKnown ==
    ASSUME NEW w \in Worker, worker'[w].pc \notin PastGuard
    PROVE  TaskKnows(w)'
BY DEF TaskKnows, PastGuard, Validated, Scanned, Derivative

\* Nothing changes the derivatives of a ready upload: they are only written by
\* the task holding the row's lock, and the row is then pending.
LEMMA VettedKept ==
    ASSUME BasicInv, ReadyIsVetted,
           \A u \in Upload : status'[u] = "ready" =>
               status[u] = "ready" /\ derived'[u] = derived[u]
    PROVE  ReadyIsVetted'
BY DEF ReadyIsVetted
\* While w acts, every other task keeps what it knows: its row is locked by it,
\* so w can neither lock it nor write derivatives of its upload.
LEMMA OthersKnow ==
    ASSUME VettedInv, NEW w \in Worker,
           \A v \in Worker \ {w} : worker'[v] = worker[v],
           \A u \in Upload : lock'[u] = lock[u] \/ lock[u] \in {w, NoWorker},
           \A u \in Upload : derived'[u] = derived[u] \/ lock[u] = w
    PROVE  \A v \in Worker \ {w} : TaskKnows(v)'
<1> SUFFICES ASSUME NEW v \in Worker \ {w} PROVE TaskKnows(v)'
    OBVIOUS
<1>1. TaskKnows(v)
    BY DEF VettedInv
<1>2. worker[v].pc \in PastGuard =>
        worker[v].upload \in Upload /\ lock[worker[v].upload] = v
    BY <1>1 DEF VettedInv, BasicInv, TaskHasUpload, TaskKnows, PastGuard,
                Derivative
<1>3. v # NoWorker
    BY MediaAssumption
<1>4. QED
    BY <1>1, <1>2, <1>3, KnowledgeKept

\* A step that ends w's task without making its row ready.
LEMMA TaskEnds ==
    ASSUME VettedInv, NEW w \in Worker, worker[w].pc # "idle",
           ReleaseLock(w), Finish(w), UNCHANGED derived,
           \A u \in Upload : status'[u] = "ready" => status[u] = "ready"
    PROVE  (\A v \in Worker : TaskKnows(v)') /\ ReadyIsVetted'
<1>1. /\ worker'[w].pc \notin PastGuard
      /\ \A v \in Worker \ {w} : worker'[v] = worker[v]
    BY DEF Finish, Idle, PastGuard, Derivative, VettedInv, BasicInv, TypeOK
<1>2. \A u \in Upload : lock'[u] = lock[u] \/ lock[u] \in {w, NoWorker}
    BY DEF ReleaseLock
<1>3. TaskKnows(w)'
    BY <1>1, NothingKnown
<1>4. \A v \in Worker \ {w} : TaskKnows(v)'
    BY <1>1, <1>2, OthersKnow
<1>5. ReadyIsVetted'
    BY VettedKept DEF VettedInv
<1>6. QED
    BY <1>3, <1>4, <1>5

\* A step of w's task inside its transaction.
LEMMA TaskProceeds ==
    ASSUME VettedInv, NEW w \in Worker, worker[w].pc \in PastGuard,
           NEW pc \in PastGuard, GoTo(w, pc), UNCHANGED <<status, lock>>,
           \A u \in Upload : derived'[u] = derived[u] \/ lock[u] = w,
           TaskKnows(w)'
    PROVE  (\A v \in Worker : TaskKnows(v)') /\ ReadyIsVetted'
<1>1. \A v \in Worker \ {w} : worker'[v] = worker[v]
    BY DEF GoTo, VettedInv, BasicInv, TypeOK
<1>2. \A v \in Worker \ {w} : TaskKnows(v)'
    BY <1>1, OthersKnow
<1>3. \A u \in Upload : status[u] = "ready" => lock[u] # w
    BY MediaAssumption DEF VettedInv, BasicInv, LockedIsPending
<1>4. ReadyIsVetted'
    BY <1>3, VettedKept DEF VettedInv
<1>5. QED
    BY <1>2, <1>4

LEMMA VettedStep ==
    ASSUME NoSuchFault PROVE VettedInv /\ [Next]_vars => VettedInv'
<1> SUFFICES ASSUME VettedInv, [Next]_vars PROVE VettedInv'
    OBVIOUS
<1> DEFINE Goal == (\A v \in Worker : TaskKnows(v)') /\ ReadyIsVetted'
<1>1. BasicInv /\ BasicInv' /\ TypeOK
    BY BasicStep DEF VettedInv, BasicInv
<1>2. ASSUME UNCHANGED <<lock, worker, derived>>,
             \A u \in Upload : status'[u] = "ready" => status[u] = "ready"
      PROVE  Goal
  <2>1. \A v \in Worker : TaskKnows(v)'
      BY <1>2, KnowledgeKept DEF VettedInv, TaskKnows
  <2>2. ReadyIsVetted'
      BY <1>2, VettedKept DEF VettedInv
  <2>3. QED
      BY <2>1, <2>2
<1>3. ASSUME NEW u \in Upload, RequestUpload(u) PROVE Goal
    BY <1>1, <1>2, <1>3 DEF RequestUpload, TypeOK
<1>4. ASSUME NEW w \in Worker, NEW u \in Upload, Deliver(w, u) PROVE Goal
  <2>1. /\ worker'[w].pc \notin PastGuard
        /\ \A v \in Worker \ {w} : worker'[v] = worker[v]
      BY <1>1, <1>4 DEF Deliver, TypeOK, PastGuard, Derivative
  <2>2. TaskKnows(w)'
      BY <2>1, NothingKnown
  <2>3. \A v \in Worker \ {w} : TaskKnows(v)'
      BY <1>4, <2>1, OthersKnow DEF Deliver, db
  <2>4. ReadyIsVetted'
      BY <1>4, VettedKept DEF VettedInv, Deliver, db
  <2>5. QED
      BY <2>2, <2>3, <2>4
<1>5. ASSUME NEW w \in Worker, LockRow(w) PROVE Goal
  <2> DEFINE u == worker[w].upload
  <2>1. u \in Upload
      BY <1>1, <1>5 DEF LockRow, TaskAt, BasicInv, TaskHasUpload
  <2>2. \/ worker'[w].pc = "idle"
        \/ worker'[w].pc = "reading" /\ worker'[w].upload = u /\ lock'[u] = w
      BY <1>1, <1>5, <2>1 DEF LockRow, GoTo, Finish, Idle, TypeOK
  <2>3. TaskKnows(w)'
      BY <2>2 DEF TaskKnows, PastGuard, Validated, Scanned, Derivative
  <2>4. /\ \A v \in Worker \ {w} : worker'[v] = worker[v]
        /\ \A x \in Upload : lock'[x] = lock[x] \/ lock[x] \in {w, NoWorker}
      BY <1>1, <1>5, <2>1 DEF LockRow, GoTo, Finish, TypeOK
  <2>5. UNCHANGED <<status, derived>>
      BY <1>5 DEF LockRow, storage
  <2>6. \A v \in Worker \ {w} : TaskKnows(v)'
      BY <2>4, <2>5, OthersKnow
  <2>7. ReadyIsVetted'
      BY <2>5, VettedKept DEF VettedInv
  <2>8. QED
      BY <2>3, <2>6, <2>7
<1>6. ASSUME NEW w \in Worker, ReadObject(w) PROVE Goal
  <2>1. /\ worker'[w].pc = "validating"
        /\ worker'[w].upload = worker[w].upload
        /\ \A v \in Worker \ {w} : worker'[v] = worker[v]
      BY <1>1, <1>6 DEF ReadObject, TypeOK
  <2>2. lock[worker[w].upload] = w
      BY <1>6 DEF ReadObject, TaskAt, VettedInv, TaskKnows, PastGuard
  <2>3. UNCHANGED <<status, lock, derived>>
      BY <1>6 DEF ReadObject, db, storage
  <2>4. TaskKnows(w)'
      BY <2>1, <2>2, <2>3
      DEF TaskKnows, PastGuard, Validated, Scanned, Derivative
  <2>5. \A v \in Worker \ {w} : TaskKnows(v)'
      BY <2>1, <2>3, OthersKnow
  <2>6. ReadyIsVetted'
      BY <2>3, VettedKept DEF VettedInv
  <2>7. QED
      BY <2>4, <2>5, <2>6
<1>7. ASSUME NEW w \in Worker, worker[w].pc \in PastGuard, RejectUpload(w)
      PROVE  Goal
  <2>1. \A u \in Upload : status'[u] = "ready" => status[u] = "ready"
      BY <1>1, <1>7 DEF RejectUpload, TypeOK
  <2>2. worker[w].pc # "idle"
      BY <1>7 DEF PastGuard, Derivative
  <2>3. QED
      BY <1>7, <2>1, <2>2, TaskEnds DEF RejectUpload, storage
<1>8. ASSUME NEW w \in Worker, worker[w].pc # "idle", Rollback(w) PROVE Goal
    BY <1>8, TaskEnds DEF Rollback, storage
<1>9. ASSUME NEW w \in Worker, NEW from \in PastGuard, NEW pc \in PastGuard,
             TaskAt(w, from), GoTo(w, pc)
      PROVE  /\ worker'[w].pc = pc
             /\ worker'[w].upload = worker[w].upload
             /\ worker'[w].data = worker[w].data
    BY <1>1, <1>9 DEF GoTo, TypeOK
<1>10. ASSUME NEW w \in Worker, Validate(w) PROVE Goal
  <2>1. CASE /\ <<worker[w].upload, worker[w].data>> \in Matches
             /\ GoTo(w, "scanning")
             /\ UNCHANGED <<db, storage, caller>>
    <3>1. TaskAt(w, "validating") /\ GoTo(w, "scanning")
        BY <1>10, <2>1 DEF Validate
    <3>2. UNCHANGED <<status, lock, derived>>
        BY <2>1 DEF db, storage
    <3>3. "validating" \in PastGuard /\ "scanning" \in PastGuard
        BY DEF PastGuard
    <3>4. TaskKnows(w)
        BY DEF VettedInv
    <3>5. TaskKnows(w)'
        BY <1>9, <2>1, <3>1, <3>2, <3>3, <3>4
        DEF TaskKnows, TaskAt, PastGuard, Validated, Scanned, Derivative
    <3>6. QED
        BY <3>1, <3>2, <3>3, <3>5, TaskProceeds DEF TaskAt
  <2>2. CASE RejectUpload(w)
      BY <1>7, <1>10, <2>2 DEF Validate, TaskAt, PastGuard
  <2>3. CASE Rollback(w)
      BY <1>8, <1>10, <2>3 DEF Validate, TaskAt
  <2>4. QED
      BY <1>10, <2>1, <2>2, <2>3 DEF Validate
<1>11. ASSUME NEW w \in Worker, Scan(w) PROVE Goal
  <2>1. TaskAt(w, "scanning") /\ worker[w].pc \in PastGuard
      BY <1>11 DEF Scan, TaskAt, PastGuard
  <2>2. CASE RejectUpload(w)
      BY <1>7, <2>1, <2>2
  <2>3. CASE /\ worker[w].data \notin Infected
             /\ GoTo(w, "deriving")
             /\ UNCHANGED <<db, storage, caller>>
    <3>1. UNCHANGED <<status, lock, derived>>
        BY <2>3 DEF db, storage
    <3>2. "scanning" \in PastGuard /\ "deriving" \in PastGuard
        BY DEF PastGuard
    <3>3. TaskKnows(w)
        BY DEF VettedInv
    <3>4. TaskKnows(w)'
        BY <1>9, <2>1, <2>3, <3>1, <3>2, <3>3
        DEF TaskKnows, TaskAt, PastGuard, Validated, Scanned, Derivative
    <3>5. QED
        BY <2>1, <2>3, <3>1, <3>2, <3>4, TaskProceeds
  <2>4. QED
      BY <1>11, <2>2, <2>3 DEF Scan, ScanReplies, NoSuchFault
<1>12. ASSUME NEW w \in Worker, Derive(w) PROVE Goal
  <2>1. TaskAt(w, "deriving") /\ worker[w].pc \in PastGuard
      BY <1>12 DEF Derive, TaskAt, PastGuard
  <2>2. CASE worker[w].data \in Undecodable
      BY <1>8, <1>12, <2>1, <2>2 DEF Derive, PastGuard, Derivative
  <2>3. CASE worker[w].data \notin Undecodable
    <3>1. GoTo(w, "webp") /\ UNCHANGED <<status, lock, derived>>
        BY <1>12, <2>3 DEF Derive, db, storage
    <3>2. "deriving" \in PastGuard /\ "webp" \in PastGuard
        BY DEF PastGuard, Derivative
    <3>3. TaskKnows(w)
        BY DEF VettedInv
    <3>4. TaskKnows(w)'
        BY <1>9, <2>1, <2>3, <3>1, <3>2, <3>3
        DEF TaskKnows, TaskAt, PastGuard, Validated, Scanned, Derivative
    <3>5. QED
        BY <2>1, <3>1, <3>2, <3>4, TaskProceeds
  <2>4. QED
      BY <2>2, <2>3
<1>13. ASSUME NEW w \in Worker, NEW k \in Derivative, SaveDerivative(w, k)
       PROVE  Goal
  <2> DEFINE u == worker[w].upload
  <2>1. /\ TaskAt(w, k)
        /\ k \in PastGuard
        /\ AfterSaving[k] \in PastGuard
        /\ GoTo(w, AfterSaving[k])
        /\ UNCHANGED <<status, lock>>
      BY <1>13 DEF SaveDerivative, AfterSaving, PastGuard, Derivative, db
  <2>2. TaskKnows(w) /\ u \in Upload /\ lock[u] = w
      BY <2>1 DEF VettedInv, BasicInv, TaskHasUpload, TaskAt, TaskKnows,
                  PastGuard, Derivative
  <2>3. /\ derived'[u][k] = worker[w].data
        /\ \A j \in Derivative \ {k} : derived'[u][j] = derived[u][j]
        /\ \A x \in Upload \ {u} : derived'[x] = derived[x]
      BY <1>1, <1>13, <2>2 DEF SaveDerivative, TypeOK
  <2>4. /\ worker'[w].pc = AfterSaving[k]
        /\ worker'[w].upload = u
        /\ worker'[w].data = worker[w].data
      BY <1>9, <2>1
  <2>5. TaskKnows(w)'
    <3>1. CASE k = "webp"
        BY <2>1, <2>2, <2>3, <2>4, <3>1
        DEF TaskKnows, TaskAt, AfterSaving, PastGuard, Validated, Scanned,
            Derivative
    <3>2. CASE k = "avif"
        BY <2>1, <2>2, <2>3, <2>4, <3>2
        DEF TaskKnows, TaskAt, AfterSaving, PastGuard, Validated, Scanned,
            Derivative
    <3>3. CASE k = "thumbnail"
        BY <2>1, <2>2, <2>3, <2>4, <3>3
        DEF TaskKnows, TaskAt, AfterSaving, PastGuard, Validated, Scanned,
            Derivative
    <3>4. QED
        BY <3>1, <3>2, <3>3 DEF Derivative
  <2>6. \A x \in Upload : derived'[x] = derived[x] \/ lock[x] = w
      BY <2>2, <2>3
  <2>7. worker[w].pc \in PastGuard
      BY <2>1 DEF TaskAt
  <2>8. QED
      BY <2>1, <2>5, <2>6, <2>7, TaskProceeds
<1>14. ASSUME NEW w \in Worker, CommitReady(w) PROVE Goal
  <2> DEFINE u == worker[w].upload
              c == worker[w].data
  <2>1. worker[w].pc = "saving"
      BY <1>14 DEF CommitReady, TaskAt
  <2>2. u \in Upload /\ lock[u] = w
      BY <2>1 DEF VettedInv, BasicInv, TaskHasUpload, TaskKnows, PastGuard
  <2>3. /\ <<u, c>> \in Acceptable
        /\ \A k \in Derivative : derived[u][k] = c
      BY <2>1 DEF VettedInv, TaskKnows, Validated, Scanned, Derivative,
                  Acceptable
  <2>4. c \in Content /\ derived[u] = [k \in Derivative |-> c]
      BY <1>1, <2>2, <2>3, MediaAssumption DEF TypeOK, Acceptable
  <2>5. /\ ReleaseLock(w)
        /\ Finish(w)
        /\ status' = [status EXCEPT ![u] = "ready"]
        /\ UNCHANGED derived
      BY <1>14, <2>2 DEF CommitReady, InTransaction, storage
  <2>6. ReadyIsVetted'
      BY <1>1, <2>2, <2>3, <2>4, <2>5
      DEF VettedInv, ReadyIsVetted, TypeOK
  <2>7. /\ worker'[w].pc \notin PastGuard
        /\ \A v \in Worker \ {w} : worker'[v] = worker[v]
      BY <1>1, <2>5 DEF Finish, Idle, PastGuard, Derivative, TypeOK
  <2>8. \A x \in Upload : lock'[x] = lock[x] \/ lock[x] \in {w, NoWorker}
      BY <2>5 DEF ReleaseLock
  <2>9. \A v \in Worker : TaskKnows(v)'
      BY <2>5, <2>7, <2>8, NothingKnown, OthersKnow
  <2>10. QED
      BY <2>6, <2>9
<1>15. ASSUME NEW w \in Worker, TaskDies(w) PROVE Goal
    BY <1>8, <1>15 DEF TaskDies
<1>16. ASSUME NEW w \in Worker, LoseConnection(w) PROVE Goal
    BY <1>16 DEF LoseConnection, NoSuchFault
<1>17. Goal
  <2>1. CASE \E u \in Upload : \/ \E c \in Content : PostObject(u, c)
                             \/ ExpireCredential(u)
                             \/ RepeatEvent(u)
                             \/ \E a \in Caller : LoadUpload(a, u)
      BY <1>2, <2>1
      DEF PostObject, ExpireCredential, RepeatEvent, LoadUpload, db, storage
  <2>2. CASE \E a \in Caller, p \in Product : AttachMedia(a, p)
      BY <1>2, <2>2 DEF AttachMedia, storage
  <2>3. CASE UNCHANGED vars
      BY <1>2, <2>3 DEF vars
  <2>4. QED
      BY <1>3, <1>4, <1>5, <1>6, <1>10, <1>11, <1>12, <1>13, <1>14, <1>15,
         <1>16, <2>1, <2>2, <2>3
      DEF Next, Task
<1>18. QED
    BY <1>1, <1>17 DEF VettedInv

LEMMA VettedCorrect == ASSUME NoSuchFault PROVE Spec => []VettedInv
BY VettedInit, VettedStep, PTL DEF Spec

\* Whatever is served as a ready upload was vetted as a whole: the row lock
\* keeps other tasks out between the one reading of the object and the commit.
THEOREM MediaReadyIsVetted ==
    ASSUME NoSuchFault PROVE Spec => []ReadyIsVetted
<1>1. VettedInv => ReadyIsVetted
    BY DEF VettedInv
<1>2. QED
    BY <1>1, VettedCorrect, PTL

\* The claim of validate_upload's docstring, for as long as no transaction
\* loses its connection.
THEOREM MediaNoDoubleProcessing ==
    ASSUME NoSuchFault PROVE Spec => []NoDoubleProcessing
<1>1. VettedInv => NoDoubleProcessing
    BY DEF VettedInv, TaskKnows, NoDoubleProcessing
<1>2. QED
    BY <1>1, VettedCorrect, PTL

-----------------------------------------------------------------------------
(* The refinement.                                                         *)

LEMMA LifecycleInit == Init => Lifecycle!Init
BY DEF Init, Served, Lifecycle!Init, Lifecycle!Nothing

\* A step that changes neither a status, nor an attachment, nor the derivatives
\* of a ready upload is not visible in the lifecycle.
LEMMA Invisible ==
    ASSUME UNCHANGED <<status, product>>,
           \A u \in Upload : status[u] = "ready" => derived'[u] = derived[u]
    PROVE  UNCHANGED Lifecycle!vars
<1>1. Served' = Served
    BY DEF Served
<1>2. QED
    BY <1>1 DEF Lifecycle!vars

LEMMA LifecycleStep ==
    ASSUME NoSuchFault
    PROVE  VettedInv /\ [Next]_vars => [Lifecycle!Next]_(Lifecycle!vars)
<1> SUFFICES ASSUME VettedInv, [Next]_vars
             PROVE  [Lifecycle!Next]_(Lifecycle!vars)
    OBVIOUS
<1>1. TypeOK /\ \A w \in Worker : TaskKnows(w)
    BY DEF VettedInv, BasicInv
<1>2. ASSUME NEW u \in Upload, RequestUpload(u) PROVE Lifecycle!Create(u)
  <2>1. Served' = Served
      BY <1>1, <1>2 DEF RequestUpload, Served, TypeOK
  <2>2. QED
      BY <1>2, <2>1 DEF RequestUpload, Lifecycle!Create
<1>3. ASSUME NEW w \in Worker, worker[w].pc \in PastGuard, RejectUpload(w)
      PROVE  Lifecycle!Reject(worker[w].upload)
  <2> DEFINE u == worker[w].upload
  <2>1. u \in Upload /\ lock[u] = w /\ status[u] = "pending"
      BY <1>1, <1>3, MediaAssumption
      DEF VettedInv, BasicInv, TaskHasUpload, LockedIsPending, TaskKnows,
          PastGuard, Derivative
  <2>2. /\ status' = [status EXCEPT ![u] = "rejected"]
        /\ UNCHANGED <<product, derived>>
      BY <1>3, <2>1 DEF RejectUpload, InTransaction, storage
  <2>3. Served' = Served
      BY <1>1, <2>1, <2>2 DEF Served, TypeOK
  <2>4. QED
      BY <2>1, <2>2, <2>3 DEF Lifecycle!Reject
<1>4. ASSUME NEW w \in Worker, CommitReady(w)
      PROVE  /\ worker[w].upload \in Upload
             /\ worker[w].data \in Content
             /\ Lifecycle!Accept(worker[w].upload, worker[w].data)
  <2> DEFINE u == worker[w].upload
             c == worker[w].data
  <2>1. worker[w].pc = "saving"
      BY <1>4 DEF CommitReady, TaskAt
  <2>2. u \in Upload /\ lock[u] = w /\ status[u] = "pending"
      BY <1>1, <2>1, MediaAssumption
      DEF VettedInv, BasicInv, TaskHasUpload, LockedIsPending, TaskKnows,
          PastGuard
  <2>3. <<u, c>> \in Acceptable /\ \A k \in Derivative : derived[u][k] = c
      BY <1>1, <2>1 DEF TaskKnows, Validated, Scanned, Derivative, Acceptable
  <2>4. c \in Content /\ derived[u] = [k \in Derivative |-> c]
      BY <1>1, <2>2, <2>3, MediaAssumption DEF TypeOK, Acceptable
  <2>5. /\ status' = [status EXCEPT ![u] = "ready"]
        /\ UNCHANGED <<product, derived>>
      BY <1>4, <2>2 DEF CommitReady, InTransaction, storage
  <2>6. Served' = [Served EXCEPT ![u] = [k \in Derivative |-> c]]
      BY <1>1, <2>2, <2>4, <2>5 DEF Served, TypeOK
  <2>7. QED
      BY <2>2, <2>3, <2>4, <2>5, <2>6 DEF Lifecycle!Accept
<1>5. ASSUME NEW a \in Caller, NEW p \in Product, AttachMedia(a, p)
      PROVE  /\ caller[a].upload \in Upload
             /\ Lifecycle!Attach(caller[a].upload, p)
  <2>1. caller[a].upload \in Upload /\ status[caller[a].upload] = "ready"
      BY <1>5 DEF AttachMedia, VettedInv, BasicInv, CallerIsRight
  <2>2. Served' = Served
      BY <1>5 DEF AttachMedia, Served, storage
  <2>3. QED
      BY <1>5, <2>1, <2>2 DEF AttachMedia, Lifecycle!Attach
<1>6. ASSUME UNCHANGED <<status, product, derived>>
      PROVE  UNCHANGED Lifecycle!vars
    BY <1>6, Invisible
<1>7. ASSUME NEW w \in Worker, NEW k \in Derivative, SaveDerivative(w, k)
      PROVE  UNCHANGED Lifecycle!vars
  <2> DEFINE u == worker[w].upload
  <2>1. u \in Upload /\ status[u] = "pending"
      BY <1>1, <1>7, MediaAssumption
      DEF SaveDerivative, TaskAt, VettedInv, BasicInv, TaskHasUpload,
          LockedIsPending, TaskKnows, PastGuard, Derivative
  <2>2. UNCHANGED <<status, product>>
      BY <1>7 DEF SaveDerivative, db
  <2>3. \A v \in Upload : status[v] = "ready" => derived'[v] = derived[v]
      BY <1>1, <1>7, <2>1 DEF SaveDerivative, TypeOK
  <2>4. QED
      BY <2>2, <2>3, Invisible
<1>8. ASSUME NEW w \in Worker, Task(w)
      PROVE  [Lifecycle!Next]_(Lifecycle!vars)
  <2>1. CASE worker[w].pc \in PastGuard /\ RejectUpload(w)
    <3>1. worker[w].upload \in Upload
        BY <2>1 DEF VettedInv, BasicInv, TaskHasUpload, PastGuard, Derivative
    <3>2. QED
        BY <1>3, <2>1, <3>1 DEF Lifecycle!Next
  <2>2. CASE CommitReady(w)
      BY <1>4, <2>2 DEF Lifecycle!Next
  <2>3. CASE \E k \in Derivative : SaveDerivative(w, k)
      BY <1>7, <2>3
  <2>4. CASE UNCHANGED <<status, product, derived>>
      BY <1>6, <2>4
  <2>5. QED
      BY <1>8, <2>1, <2>2, <2>3, <2>4
      DEF Task, TaskAt, LockRow, ReadObject, Validate, Scan, Derive, Rollback,
          PastGuard, db, storage
<1>9. ASSUME NEW u \in Upload,
             \/ \E c \in Content : PostObject(u, c)
             \/ ExpireCredential(u)
             \/ RepeatEvent(u)
             \/ \E w \in Worker : Deliver(w, u)
             \/ \E a \in Caller : LoadUpload(a, u)
      PROVE  UNCHANGED Lifecycle!vars
    BY <1>6, <1>9
    DEF PostObject, ExpireCredential, RepeatEvent, Deliver, LoadUpload, db,
        storage
<1>10. ASSUME NEW w \in Worker, TaskDies(w) \/ LoseConnection(w)
       PROVE  UNCHANGED Lifecycle!vars
    BY <1>6, <1>10 DEF TaskDies, Rollback, LoseConnection, storage
<1>11. CASE UNCHANGED vars
    BY <1>6, <1>11 DEF vars
<1>12. CASE \E u \in Upload : RequestUpload(u)
    BY <1>2, <1>12 DEF Lifecycle!Next
<1>13. CASE \E a \in Caller, p \in Product : AttachMedia(a, p)
    BY <1>5, <1>13 DEF Lifecycle!Next
<1>14. QED
    BY <1>8, <1>9, <1>10, <1>11, <1>12, <1>13 DEF Next

\* The module keeps the promise of UploadLifecycle: every step is a step of the
\* lifecycle or invisible in it.
THEOREM MediaImplementsLifecycle ==
    ASSUME NoSuchFault PROVE Spec => ImplementsLifecycle
BY LifecycleInit, LifecycleStep, VettedCorrect, PTL
DEF Spec, ImplementsLifecycle, Lifecycle!Spec

-----------------------------------------------------------------------------
(* What EventuallySettled rests on besides fairness: no upload is          *)
(* forgotten, and no task waits for a lock that nobody will release.       *)

\* The faults and contents by which the pipeline loses an upload: section 6 of
\* the README and the acknowledgement of events.
NothingLost ==
    /\ {"task_dies", "lost_connection"} \cap Faults = {}
    /\ Undecodable = {} /\ Unreadable = {}

WorksOn(w, u) == worker[w].pc # "idle" /\ worker[w].upload = u

\* Some task can take its next statement for u, or will when it is delivered.
Tended(u) ==
    \/ events[u] > 0
    \/ \E w \in Worker :
          /\ WorksOn(w, u)
          /\ worker[w].pc = "locking" => lock[u] = NoWorker

UnsettledAreTended ==
    \A u \in Upload :
        object[u] # NoContent /\ status[u] \notin Settled => Tended(u)

TendedInv ==
    \* Nothing is posted for a row that does not exist.
    /\ \A u \in Upload :
        status[u] = "absent" => ~credential[u] /\ object[u] = NoContent
    \* A task past the guard has the lock, and whoever has a lock is past it.
    /\ \A w \in Worker : worker[w].pc \in PastGuard => lock[worker[w].upload] = w
    /\ \A u \in Upload : lock[u] # NoWorker =>
        worker[lock[u]].pc \in PastGuard /\ worker[lock[u]].upload = u
    /\ \A u \in Upload :
        object[u] # NoContent /\ status[u] \notin Settled =>
            events[u] > 0 \/ \E w \in Worker : WorksOn(w, u)

LEMMA TaskGoesOn ==
    ASSUME BasicInv, TendedInv, NEW w \in Worker, worker[w].pc \in PastGuard, NEW t,
           t.pc \in PastGuard, t.upload = worker[w].upload,
           worker' = [worker EXCEPT ![w] = t],
           UNCHANGED <<status, lock, credential, object, events>>
    PROVE  TendedInv'
<1>1. \A v \in Worker : /\ worker'[v].upload = worker[v].upload
                        /\ v # w => worker'[v].pc = worker[v].pc
                        /\ v = w => worker'[v].pc \in PastGuard
    BY DEF BasicInv, TypeOK
<1>2. \A v \in Worker, u \in Upload : WorksOn(v, u) => WorksOn(v, u)'
    BY <1>1 DEF WorksOn, PastGuard, Derivative
<1>3. \A u \in Upload : lock[u] # NoWorker => lock[u] \in Worker
    BY DEF BasicInv, TypeOK
<1>4. QED
    BY <1>1, <1>2, <1>3 DEF TendedInv

LEMMA TaskSettles ==
    ASSUME BasicInv, TendedInv, NEW w \in Worker, worker[w].pc \in PastGuard,
           NEW s \in Settled, ReleaseLock(w), Finish(w),
           status' = [status EXCEPT ![worker[w].upload] = s],
           UNCHANGED <<credential, object, events>>
    PROVE  TendedInv'
<1> DEFINE x == worker[w].upload
<1>1. x \in Upload /\ worker[w].pc # "idle"
    BY DEF BasicInv, TaskHasUpload, PastGuard, Derivative
<1>2. \A v \in Worker \ {w} : worker'[v] = worker[v]
    BY DEF Finish, BasicInv, TypeOK
<1>3. worker'[w].pc = "idle"
    BY DEF Finish, BasicInv, TypeOK, Idle
<1>4. \A u \in Upload : u # x =>
        /\ status'[u] = status[u]
        /\ \A v \in Worker : WorksOn(v, u) => WorksOn(v, u)'
    BY <1>1, <1>2 DEF WorksOn, BasicInv, TypeOK
<1>5. status'[x] = s /\ s # "absent"
    BY <1>1 DEF BasicInv, TypeOK, Settled
<1>6. \A u \in Upload : lock'[u] = IF lock[u] = w THEN NoWorker ELSE lock[u]
    BY DEF ReleaseLock
<1>7. \A u \in Upload : lock[u] # NoWorker => lock[u] \in Worker
    BY DEF BasicInv, TypeOK
<1>8. \A v \in Worker : worker[v].pc \in PastGuard => worker[v].upload \in Upload
    BY DEF BasicInv, TaskHasUpload, PastGuard, Derivative
<1>9. "idle" \notin PastGuard
    BY DEF PastGuard, Derivative
<1> HIDE DEF x
<1>10. \A u \in Upload :
        status'[u] = "absent" => ~credential'[u] /\ object'[u] = NoContent
    BY <1>4, <1>5 DEF TendedInv
<1>11. \A v \in Worker : worker'[v].pc \in PastGuard => lock'[worker'[v].upload] = v
    BY <1>2, <1>3, <1>6, <1>8, <1>9 DEF TendedInv
<1>12. \A u \in Upload : lock'[u] # NoWorker =>
        worker'[lock'[u]].pc \in PastGuard /\ worker'[lock'[u]].upload = u
    BY <1>2, <1>6, <1>7 DEF TendedInv
<1>13. \A u \in Upload : object'[u] # NoContent /\ status'[u] \notin Settled =>
        events'[u] > 0 \/ \E v \in Worker : WorksOn(v, u)'
    BY <1>4, <1>5 DEF TendedInv
<1>14. QED
    BY <1>10, <1>11, <1>12, <1>13 DEF TendedInv

LEMMA TendedStep ==
    ASSUME NothingLost PROVE BasicInv /\ TendedInv /\ [Next]_vars => TendedInv'
<1> SUFFICES ASSUME BasicInv, TendedInv, [Next]_vars PROVE TendedInv'
    OBVIOUS
<1>0. /\ \A w \in Worker : worker[w].pc # "idle" => worker[w].upload \in Upload
      /\ \A u \in Upload : lock[u] # NoWorker => lock[u] \in Worker
      /\ \A u \in Upload : events[u] \in Nat
    BY MediaAssumption DEF BasicInv, TypeOK, TaskHasUpload
<1>1. ASSUME NEW u \in Upload, RequestUpload(u) PROVE TendedInv'
    BY <1>1 DEF RequestUpload, TendedInv, WorksOn, BasicInv, TypeOK, Settled
<1>2. ASSUME NEW u \in Upload, NEW c \in Content, PostObject(u, c) PROVE TendedInv'
  <2>1. status[u] # "absent" /\ events'[u] > 0
      BY <1>0, <1>2 DEF PostObject, TendedInv, BasicInv, TypeOK
  <2>2. \A v \in Upload \ {u} : object'[v] = object[v] /\ events'[v] = events[v]
      BY <1>2 DEF PostObject, BasicInv, TypeOK
  <2>3. QED
      BY <1>2, <2>1, <2>2 DEF PostObject, db, TendedInv, WorksOn
<1>3. ASSUME NEW u \in Upload, ExpireCredential(u) PROVE TendedInv'
    BY <1>3 DEF ExpireCredential, db, TendedInv, WorksOn, BasicInv, TypeOK
<1>4. ASSUME NEW u \in Upload, RepeatEvent(u) PROVE TendedInv'
  <2>1. \A v \in Upload : events[v] > 0 => events'[v] > 0
      BY <1>0, <1>4 DEF RepeatEvent, BasicInv, TypeOK
  <2>2. QED
      BY <1>4, <2>1 DEF RepeatEvent, db, TendedInv, WorksOn
<1>5. ASSUME NEW w \in Worker, NEW u \in Upload, Deliver(w, u) PROVE TendedInv'
  <2>1. worker'[w].pc = "locking" /\ worker'[w].upload = u /\ worker[w].pc = "idle"
      BY <1>5 DEF Deliver, TaskAt, BasicInv, TypeOK
  <2>2. \A v \in Worker \ {w} : worker'[v] = worker[v]
      BY <1>5 DEF Deliver, BasicInv, TypeOK
  <2>3. \A v \in Upload \ {u} : events'[v] = events[v]
      BY <1>5 DEF Deliver, BasicInv, TypeOK
  <2>4. "locking" \notin PastGuard /\ "idle" \notin PastGuard
      BY DEF PastGuard, Derivative
  <2>5. \A v \in Upload : \A x \in Worker : WorksOn(x, v) => WorksOn(x, v)'
      BY <2>1, <2>2 DEF WorksOn
  <2>6. WorksOn(w, u)'
      BY <2>1 DEF WorksOn
  <2>7. QED
      BY <1>0, <1>5, <2>1, <2>2, <2>3, <2>4, <2>5, <2>6 DEF Deliver, db, TendedInv
<1>6. ASSUME NEW a \in Caller, NEW u \in Upload, LoadUpload(a, u) PROVE TendedInv'
    BY <1>6 DEF LoadUpload, db, storage, TendedInv, WorksOn
<1>7. ASSUME NEW a \in Caller, NEW p \in Product, AttachMedia(a, p) PROVE TendedInv'
    BY <1>7 DEF AttachMedia, storage, TendedInv, WorksOn
<1>8. ASSUME NEW w \in Worker, LockRow(w) PROVE TendedInv'
  <2> DEFINE x == worker[w].upload
  <2>1. x \in Upload /\ worker[w].pc = "locking" /\ lock[x] = NoWorker
      BY <1>0, <1>8 DEF LockRow, TaskAt
  <2>2. \A v \in Worker \ {w} : worker'[v] = worker[v]
      BY <1>8 DEF LockRow, GoTo, Finish, BasicInv, TypeOK
  <2>3. UNCHANGED <<status, credential, object, events>>
      BY <1>8 DEF LockRow, storage
  <2>4. "locking" \notin PastGuard /\ "idle" \notin PastGuard /\ "reading" \in PastGuard
      BY DEF PastGuard, Derivative
  <2>5. \A u \in Upload : lock[u] # w
      BY <2>1, <2>4, MediaAssumption DEF TendedInv
  <2>6. CASE status[x] = "pending"
    <3>1. worker'[w].pc = "reading" /\ worker'[w].upload = x
        BY <1>8, <2>6 DEF LockRow, GoTo, BasicInv, TypeOK
    <3>2. lock' = [lock EXCEPT ![x] = w]
        BY <1>8, <2>6 DEF LockRow
    <3>3. /\ lock'[x] = w
          /\ \A u \in Upload \ {x} : lock'[u] = lock[u]
        BY <2>1, <3>2 DEF BasicInv, TypeOK
    <3>4. \A v \in Worker \ {w} : worker[v].pc \in PastGuard => worker[v].upload # x
        BY <2>1, <2>4, MediaAssumption DEF TendedInv
    <3>5. \A v \in Worker, u \in Upload : WorksOn(v, u) => WorksOn(v, u)'
        BY <2>2, <3>1 DEF WorksOn
    <3> HIDE DEF x
    <3>6. ASSUME NEW v \in Worker, worker'[v].pc \in PastGuard
          PROVE  lock'[worker'[v].upload] = v
      <4>1. CASE v = w
          BY <3>1, <3>3, <4>1
      <4>2. CASE v # w
        <5>1. /\ worker[v].pc \in PastGuard /\ worker'[v] = worker[v]
              /\ worker[v].upload \in Upload \ {x}
            BY <1>0, <2>2, <2>4, <3>4, <3>6, <4>2
        <5>2. QED
            BY <3>3, <5>1 DEF TendedInv
      <4>3. QED
          BY <4>1, <4>2
    <3>7. \A u \in Upload : lock'[u] # NoWorker =>
            worker'[lock'[u]].pc \in PastGuard /\ worker'[lock'[u]].upload = u
        BY <1>0, <2>2, <2>4, <2>5, <3>1, <3>3 DEF TendedInv
    <3>8. QED
        BY <2>3, <3>5, <3>6, <3>7 DEF TendedInv
  <2>7. CASE status[x] # "pending"
    <3>1. worker'[w].pc = "idle" /\ UNCHANGED lock
        BY <1>8, <2>7 DEF LockRow, Finish, Idle, BasicInv, TypeOK
    <3>2. status[x] = "absent" \/ status[x] \in Settled
        BY <2>1, <2>7 DEF BasicInv, TypeOK, Status, Settled
    <3>3. \A v \in Worker, u \in Upload : WorksOn(v, u) /\ u # x => WorksOn(v, u)'
        BY <2>2 DEF WorksOn
    <3> HIDE DEF x
    <3>4. QED
        BY <1>0, <2>1, <2>2, <2>3, <2>4, <2>5, <3>1, <3>2, <3>3 DEF TendedInv
  <2>8. QED
      BY <2>6, <2>7
<1>9. ASSUME NEW w \in Worker, NEW pc \in PastGuard, worker[w].pc \in PastGuard,
             GoTo(w, pc), UNCHANGED <<status, lock, credential, object, events>>
      PROVE  TendedInv'
  <2>1. worker' = [worker EXCEPT ![w] = [worker[w] EXCEPT !.pc = pc]]
      BY <1>9 DEF GoTo
  <2>2. /\ [worker[w] EXCEPT !.pc = pc].pc = pc
        /\ [worker[w] EXCEPT !.pc = pc].upload = worker[w].upload
      BY DEF BasicInv, TypeOK
  <2>3. QED
      BY <1>9, <2>1, <2>2, TaskGoesOn
<1>10. ASSUME NEW w \in Worker, worker[w].pc \in PastGuard, RejectUpload(w)
       PROVE  TendedInv'
  <2>1. InTransaction(w)
      BY <1>10 DEF TendedInv, InTransaction
  <2>2. QED
      BY <1>10, <2>1, TaskSettles DEF RejectUpload, storage, Settled
<1>11. ASSUME NEW w \in Worker, ReadObject(w) PROVE TendedInv'
  <2> DEFINE t == [pc |-> "validating", upload |-> worker[w].upload,
                   data |-> object[worker[w].upload]]
  <2>1. worker' = [worker EXCEPT ![w] = t]
      BY <1>11 DEF ReadObject
  <2>2. t.pc \in PastGuard /\ t.upload = worker[w].upload /\ worker[w].pc \in PastGuard
      BY <1>11 DEF ReadObject, TaskAt, PastGuard
  <2>3. UNCHANGED <<status, lock, credential, object, events>>
      BY <1>11 DEF ReadObject, db, storage
  <2> HIDE DEF t
  <2>4. QED
      BY <2>1, <2>2, <2>3, TaskGoesOn
<1>12. ASSUME NEW w \in Worker, Validate(w) \/ Scan(w) \/ Derive(w) PROVE TendedInv'
  <2>1. worker[w].pc \in PastGuard
      BY <1>12 DEF Validate, Scan, Derive, TaskAt, PastGuard
  <2>2. /\ worker[w].data \notin Undecodable
        /\ <<worker[w].upload, worker[w].data>> \notin Unreadable
      BY DEF NothingLost
  <2>3. \/ RejectUpload(w)
        \/ \E pc \in PastGuard : GoTo(w, pc) /\ UNCHANGED <<db, storage, caller>>
      BY <1>12, <2>2 DEF Validate, Scan, Derive, PastGuard, Derivative
  <2>4. QED
      BY <1>9, <1>10, <2>1, <2>3 DEF db, storage
<1>13. ASSUME NEW w \in Worker, NEW k \in Derivative, SaveDerivative(w, k)
       PROVE  TendedInv'
  <2>1. worker[w].pc \in PastGuard /\ AfterSaving[k] \in PastGuard
      BY <1>13 DEF SaveDerivative, TaskAt, AfterSaving, PastGuard, Derivative
  <2>2. QED
      BY <1>9, <1>13, <2>1 DEF SaveDerivative, db
<1>14. ASSUME NEW w \in Worker, CommitReady(w) PROVE TendedInv'
  <2>1. worker[w].pc \in PastGuard /\ InTransaction(w)
      BY <1>14 DEF CommitReady, TaskAt, PastGuard, TendedInv, InTransaction
  <2>2. QED
      BY <1>14, <2>1, TaskSettles DEF CommitReady, storage, Settled
<1>15. ASSUME NEW w \in Worker PROVE ~TaskDies(w) /\ ~LoseConnection(w)
    BY DEF NothingLost, TaskDies, LoseConnection
<1>16. CASE UNCHANGED vars
    BY <1>16 DEF vars, TendedInv, WorksOn
<1>17. QED
    BY <1>1, <1>2, <1>3, <1>4, <1>5, <1>6, <1>7, <1>8, <1>11, <1>12, <1>13, <1>14,
       <1>15, <1>16
    DEF Next, Task

\* A posted upload that is not settled always has an event on its way or a task
\* that can go on, whatever is posted, repeated or raced, also when ClamAV answers
\* neither OK nor FOUND: the pipeline waits for nothing but its workers
\* (validate_upload).
THEOREM MediaNobodyForgotten ==
    ASSUME NothingLost PROVE Spec => []UnsettledAreTended
<1>1. Init => TendedInv
    BY DEF Init, TendedInv, Idle, PastGuard, Derivative
<1>2. BasicInv /\ TendedInv => UnsettledAreTended
  <2> SUFFICES ASSUME BasicInv, TendedInv, NEW u \in Upload, object[u] # NoContent,
                      status[u] \notin Settled, ~(events[u] > 0)
               PROVE  Tended(u)
      BY DEF UnsettledAreTended, Tended
  <2>1. PICK w \in Worker : WorksOn(w, u)
      BY DEF TendedInv
  <2>2. CASE lock[u] = NoWorker
      BY <2>1, <2>2 DEF Tended
  <2>3. CASE lock[u] # NoWorker
    <3>1. lock[u] \in Worker /\ worker[lock[u]].pc \in PastGuard /\ WorksOn(lock[u], u)
        BY <2>3 DEF TendedInv, BasicInv, TypeOK, WorksOn, PastGuard, Derivative
    <3>2. worker[lock[u]].pc # "locking"
        BY <3>1 DEF PastGuard, Derivative
    <3>3. QED
        BY <3>1, <3>2 DEF Tended
  <2>4. QED
      BY <2>2, <2>3
<1>3. QED
    BY <1>1, <1>2, TendedStep, BasicCorrect, BasicInit, BasicStep, PTL DEF Spec
=============================================================================
