--------------------------- MODULE MediaPipeline ---------------------------
(***************************************************************************)
(* The media module: upload credentials, the object store, the Celery task *)
(* media.validate_upload run by several workers, and attaching an upload   *)
(* to a product.                                                           *)
(*                                                                         *)
(* A worker's task is one database transaction that holds the row lock of  *)
(* its upload from the SELECT ... FOR UPDATE to the commit.  Writes to the *)
(* object store are not part of that transaction: a rollback leaves them   *)
(* in place.  Events are acknowledged when a worker takes them, Celery's   *)
(* default, so a task that dies is not delivered again.                    *)
(***************************************************************************)
EXTENDS Naturals

CONSTANTS
    Upload,        \* primary keys of MediaUpload rows
    Content,       \* what the client may POST as the object's bytes
    Matches,       \* pairs <<u, c>>: c has u's declared size and type and
                   \* passes Pillow's verify()
    Unreadable,    \* pairs <<u, c>>: c has u's declared size and type, and Pillow
                   \* raises what _validate_bytes does not catch
    Undecodable,   \* contents that pass verify() but fail to decode
    Infected,      \* contents ClamAV has a signature for
    Product,
    Worker,        \* Celery worker processes
    Caller,        \* processes that call attach_media_to_product
    Faults,        \* which of FaultKinds may happen
    MaxEvents,     \* bound: undelivered object-created events per upload
    NoContent, NoProduct, NoUpload, NoWorker

FaultKinds == {"task_dies", "lost_connection", "scan_error"}

ASSUME MediaAssumption ==
    /\ Matches \subseteq Upload \X Content
    /\ Unreadable \subseteq (Upload \X Content) \ Matches
    /\ Undecodable \subseteq Content
    /\ Infected \subseteq Content
    /\ Faults \subseteq FaultKinds
    /\ MaxEvents \in Nat \ {0}
    /\ NoContent \notin Content
    /\ NoProduct \notin Product
    /\ NoUpload \notin Upload
    /\ NoWorker \notin Worker

VARIABLES
    status,        \* Upload -> MediaUpload.status, "absent" before the row exists
    product,       \* Upload -> MediaUpload.product
    credential,    \* Upload -> a presigned POST is issued and not expired
    object,        \* Upload -> the object under quarantine/
    derived,       \* Upload -> Derivative -> the object under products/
    events,        \* Upload -> object-created events not yet delivered
    lock,          \* Upload -> the worker whose transaction holds the row lock
    worker,        \* Worker -> its task: where it is, for which upload, bytes read
    caller         \* Caller -> the upload it has loaded, with the status it saw

db == <<status, product, lock>>
storage == <<credential, object, derived, events>>
vars == <<status, product, credential, object, derived, events, lock, worker,
          caller>>

Status == {"absent", "pending", "ready", "rejected"}

\* The derivatives in the order validate_upload saves them.
Derivative == {"webp", "avif", "thumbnail"}
\* Slip: the status is saved before the thumbnail is.
SkipsThumbnail == [webp |-> "avif", avif |-> "saving", thumbnail |-> "saving"]
AfterSaving == [webp |-> "avif", avif |-> "thumbnail", thumbnail |-> "saving"]

\* The points of a task after the status guard, where it is in a transaction.
PastGuard == {"reading", "validating", "scanning", "deriving", "saving"}
                 \cup Derivative
Idle == [pc |-> "idle", upload |-> NoUpload, data |-> NoContent]
NotLoaded == [upload |-> NoUpload, status |-> "absent"]

TypeOK ==
    /\ status \in [Upload -> Status]
    /\ product \in [Upload -> Product \cup {NoProduct}]
    /\ credential \in [Upload -> BOOLEAN]
    /\ object \in [Upload -> Content \cup {NoContent}]
    /\ derived \in [Upload -> [Derivative -> Content \cup {NoContent}]]
    /\ events \in [Upload -> 0..MaxEvents]
    /\ lock \in [Upload -> Worker \cup {NoWorker}]
    /\ worker \in [Worker -> [pc : {"idle", "locking"} \cup PastGuard,
                              upload : Upload \cup {NoUpload},
                              data : Content \cup {NoContent}]]
    /\ caller \in [Caller -> [upload : Upload \cup {NoUpload},
                              status : Status]]

Init ==
    /\ status = [u \in Upload |-> "absent"]
    /\ product = [u \in Upload |-> NoProduct]
    /\ credential = [u \in Upload |-> FALSE]
    /\ object = [u \in Upload |-> NoContent]
    /\ derived = [u \in Upload |-> [k \in Derivative |-> NoContent]]
    /\ events = [u \in Upload |-> 0]
    /\ lock = [u \in Upload |-> NoWorker]
    /\ worker = [w \in Worker |-> Idle]
    /\ caller = [a \in Caller |-> NotLoaded]

-----------------------------------------------------------------------------
(* The admin API and the client's direct upload.                           *)

\* request_upload: the row is committed first, then the credential signed; a
\* web process that dies in between leaves a pending row nobody can fill.
RequestUpload(u) ==
    /\ status[u] = "absent"
    /\ status' = [status EXCEPT ![u] = "pending"]
    /\ \E signed \in BOOLEAN :
        /\ signed \/ "task_dies" \in Faults
        /\ credential' = [credential EXCEPT ![u] = signed]
    /\ UNCHANGED <<product, object, derived, events, lock, worker, caller>>

\* The presigned POST may be used again, with other bytes, until it expires.
PostObject(u, c) ==
    /\ credential[u]
    /\ events[u] < MaxEvents
    /\ object' = [object EXCEPT ![u] = c]
    /\ events' = [events EXCEPT ![u] = @ + 1]
    /\ UNCHANGED <<db, credential, derived, worker, caller>>

ExpireCredential(u) ==
    /\ credential[u]
    /\ credential' = [credential EXCEPT ![u] = FALSE]
    /\ UNCHANGED <<db, object, derived, events, worker, caller>>

\* The store may report the same object any number of times.
RepeatEvent(u) ==
    /\ object[u] # NoContent
    /\ events[u] < MaxEvents
    /\ events' = [events EXCEPT ![u] = @ + 1]
    /\ UNCHANGED <<db, credential, object, derived, worker, caller>>

-----------------------------------------------------------------------------
(* validate_upload, one action per statement that touches shared state.    *)

TaskAt(w, pc) == worker[w].pc = pc
GoTo(w, pc) == worker' = [worker EXCEPT ![w].pc = pc]
Finish(w) == worker' = [worker EXCEPT ![w] = Idle]
ReleaseLock(w) ==
    lock' = [u \in Upload |-> IF lock[u] = w THEN NoWorker ELSE lock[u]]
InTransaction(w) == lock[worker[w].upload] = w

Deliver(w, u) ==
    /\ TaskAt(w, "idle")
    /\ events[u] > 0
    /\ events' = [events EXCEPT ![u] = @ - 1]
    /\ worker' = [worker EXCEPT ![w] = [pc |-> "locking", upload |-> u,
                                        data |-> NoContent]]
    /\ UNCHANGED <<db, credential, object, derived, caller>>

\* Slip: get() without select_for_update().
LockRowNoWait(w) ==
    /\ TaskAt(w, "locking")
    /\ IF status[worker[w].upload] = "pending"
       THEN lock' = [lock EXCEPT ![worker[w].upload] = w] /\ GoTo(w, "reading")
       ELSE Finish(w) /\ UNCHANGED lock
    /\ UNCHANGED <<status, product, storage, caller>>

\* Slip: no status guard after the lock.
LockRowNoGuard(w) ==
    /\ TaskAt(w, "locking")
    /\ lock[worker[w].upload] = NoWorker
    /\ lock' = [lock EXCEPT ![worker[w].upload] = w]
    /\ GoTo(w, "reading")
    /\ UNCHANGED <<status, product, storage, caller>>

\* select_for_update waits for the row; the status guard follows it.
LockRow(w) ==
    /\ TaskAt(w, "locking")
    /\ lock[worker[w].upload] = NoWorker
    /\ IF status[worker[w].upload] = "pending"
       THEN /\ lock' = [lock EXCEPT ![worker[w].upload] = w]
            /\ GoTo(w, "reading")
       ELSE /\ Finish(w)
            /\ UNCHANGED lock
    /\ UNCHANGED <<status, product, storage, caller>>

ReadObject(w) ==
    /\ TaskAt(w, "reading")
    /\ worker' = [worker EXCEPT ![w] = [pc |-> "validating", upload |-> @.upload,
                                        data |-> object[@.upload]]]
    /\ UNCHANGED <<db, storage, caller>>

\* An unhandled exception rolls the transaction back; nothing retries it.
Rollback(w) ==
    /\ ReleaseLock(w)
    /\ Finish(w)
    /\ UNCHANGED <<status, product, storage, caller>>

\* Slip: _reject sets the status and forgets to save it.
RejectUnsaved(w) ==
    /\ ReleaseLock(w)
    /\ Finish(w)
    /\ UNCHANGED <<status, product, storage, caller>>

\* _reject and the commit that follows; on a dead connection the save raises
\* and the row keeps its status.
RejectUpload(w) ==
    /\ status' = IF InTransaction(w)
                 THEN [status EXCEPT ![worker[w].upload] = "rejected"]
                 ELSE status
    /\ ReleaseLock(w)
    /\ Finish(w)
    /\ UNCHANGED <<product, storage, caller>>

\* _validate_bytes takes UnidentifiedImageError and OSError for a bad image; a
\* decompression bomb or the SyntaxError of a broken PNG is neither.
Validate(w) ==
    LET pair == <<worker[w].upload, worker[w].data>> IN
    /\ TaskAt(w, "validating")
    /\ \/ /\ pair \in Matches
          /\ GoTo(w, "scanning") /\ UNCHANGED <<db, storage, caller>>
       \/ pair \in Unreadable /\ Rollback(w)
       \/ pair \notin Matches \cup Unreadable /\ RejectUpload(w)

\* Only a FOUND reply rejects; every other reply lets the task go on.
ScanReplies(c) ==
    (IF c \in Infected THEN {"FOUND"} ELSE {"OK"})
        \cup (IF "scan_error" \in Faults THEN {"ERROR"} ELSE {})

Scan(w) ==
    /\ TaskAt(w, "scanning")
    /\ \E reply \in ScanReplies(worker[w].data) :
        IF reply = "FOUND"
        THEN RejectUpload(w)
        ELSE GoTo(w, "deriving") /\ UNCHANGED <<db, storage, caller>>

\* generate_derivatives decodes the bytes fully for the first time.
Derive(w) ==
    /\ TaskAt(w, "deriving")
    /\ IF worker[w].data \in Undecodable
       THEN Rollback(w)
       ELSE GoTo(w, "webp") /\ UNCHANGED <<db, storage, caller>>

\* Slip: each derivative is made from a reading of its own.
SaveFromObject(w, k) ==
    /\ TaskAt(w, k)
    /\ derived' = [derived EXCEPT ![worker[w].upload][k] = object[worker[w].upload]]
    /\ GoTo(w, AfterSaving[k])
    /\ UNCHANGED <<db, credential, object, events, caller>>

\* S3Storage overwrites: the keys depend on the upload's id only.
SaveDerivative(w, k) ==
    /\ TaskAt(w, k)
    /\ derived' = [derived EXCEPT ![worker[w].upload][k] = worker[w].data]
    /\ GoTo(w, AfterSaving[k])
    /\ UNCHANGED <<db, credential, object, events, caller>>

CommitReady(w) ==
    /\ TaskAt(w, "saving")
    /\ status' = IF InTransaction(w)
                 THEN [status EXCEPT ![worker[w].upload] = "ready"]
                 ELSE status
    /\ ReleaseLock(w)
    /\ Finish(w)
    /\ UNCHANGED <<product, storage, caller>>

\* The worker is killed, or ClamAV or the object store raises.
TaskDies(w) ==
    /\ "task_dies" \in Faults
    /\ worker[w].pc # "idle"
    /\ Rollback(w)

\* The database drops the connection: the row lock is gone, the task goes on
\* until its next statement.
LoseConnection(w) ==
    /\ "lost_connection" \in Faults
    /\ worker[w].pc \in PastGuard
    /\ InTransaction(w)
    /\ ReleaseLock(w)
    /\ UNCHANGED <<status, product, storage, worker, caller>>

-----------------------------------------------------------------------------
(* attach_media_to_product works on a row its caller loaded before.        *)

LoadUpload(a, u) ==
    /\ status[u] # "absent"
    /\ caller' = [caller EXCEPT ![a] = [upload |-> u, status |-> status[u]]]
    /\ UNCHANGED <<db, storage, worker>>

\* Slip: only rejected uploads are refused.
AttachUnlessRejected(a, p) ==
    /\ caller[a].status \in {"pending", "ready"}
    /\ product' = [product EXCEPT ![caller[a].upload] = p]
    /\ caller' = [caller EXCEPT ![a] = NotLoaded]
    /\ UNCHANGED <<status, lock, storage, worker>>

AttachMedia(a, p) ==
    /\ caller[a].status = "ready"
    /\ product' = [product EXCEPT ![caller[a].upload] = p]
    /\ caller' = [caller EXCEPT ![a] = NotLoaded]
    /\ UNCHANGED <<status, lock, storage, worker>>

-----------------------------------------------------------------------------
Task(w) ==
    \/ LockRow(w)
    \/ ReadObject(w)
    \/ Validate(w)
    \/ Scan(w)
    \/ Derive(w)
    \/ \E k \in Derivative : SaveDerivative(w, k)
    \/ CommitReady(w)

Next ==
    \/ \E u \in Upload :
        \/ RequestUpload(u)
        \/ \E c \in Content : PostObject(u, c)
        \/ ExpireCredential(u)
        \/ RepeatEvent(u)
        \/ \E w \in Worker : Deliver(w, u)
        \/ \E a \in Caller : LoadUpload(a, u)
    \/ \E w \in Worker : Task(w) \/ TaskDies(w) \/ LoseConnection(w)
    \/ \E a \in Caller, p \in Product : AttachMedia(a, p)

Spec == Init /\ [][Next]_vars

\* A live worker keeps executing its task, and the broker's queue is FIFO: an
\* event is not overtaken for ever while workers keep becoming idle.
Fairness ==
    /\ \A w \in Worker : WF_vars(Task(w))
    /\ \A u \in Upload : SF_vars(\E w \in Worker : Deliver(w, u))

FairSpec == Spec /\ Fairness
-----------------------------------------------------------------------------
(* Correctness.                                                            *)

Settled == {"ready", "rejected"}

\* What may be served as upload u: it validated, decoded and scanned clean.
Acceptable ==
    {m \in Matches : m[2] \notin Undecodable \cup Infected}

\* A ready upload's three derivatives come from one and the same reading of
\* the quarantined object, one that validated and scanned clean, although the
\* object may be replaced while the task runs and a task that died may have
\* left derivatives of other bytes behind (validate_upload reads once, and
\* saves the status last).
ReadyIsVetted ==
    \A u \in Upload : status[u] = "ready" =>
        \E c \in Content : /\ <<u, c>> \in Acceptable
                           /\ derived[u] = [k \in Derivative |-> c]

\* No two deliveries process one upload at the same time: "the row lock means
\* two concurrent deliveries can't both pass the guard and double-process the
\* same upload" (validate_upload).
NoDoubleProcessing ==
    \A v, w \in Worker :
        /\ worker[v].pc \in PastGuard
        /\ worker[w].pc \in PastGuard
        /\ worker[v].upload = worker[w].upload
        => v = w

\* Only a ready upload ever belongs to a product, although
\* attach_media_to_product trusts the status its caller loaded earlier.
AttachedIsReady ==
    \A u \in Upload : product[u] # NoProduct => status[u] = "ready"

\* Once ready or rejected, an upload never changes status again, whatever is
\* delivered twice, dies or loses its connection (validate_upload's guard).
SettledIsFinal ==
    [][\A u \in Upload : status[u] \in Settled => status'[u] = status[u]]_vars

\* "ending the MediaUpload in ready or rejected": a posted object's upload
\* does not stay pending for ever (validate_upload).
EventuallySettled ==
    \A u \in Upload : object[u] # NoContent ~> status[u] \in Settled

\* The module implements UploadLifecycle: derivatives count as served from the
\* moment the status says ready, and until then not at all.
Served ==
    [u \in Upload |-> IF status[u] = "ready"
                       THEN derived[u]
                       ELSE [k \in Derivative |-> NoContent]]

Lifecycle == INSTANCE UploadLifecycle WITH
                 state <- status, served <- Served, owner <- product

ImplementsLifecycle == Lifecycle!Spec
=============================================================================
