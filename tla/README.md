# TLA+ models of the eco-commerce back end

The repository is a Django REST back end of a small shop: staff administer a catalogue with
translations and media, customers register, log in and (in later slices) buy. Everything that can
go wrong in an interesting way happens between the web processes, the Celery workers, PostgreSQL
and the object store. This directory keeps TLA+ specifications of the parts where that matters,
the TLC configurations that check them on small instances, and TLAPS proofs of what matters most
for every size.

Paths below are relative to the repository; `modules/...` stands for `src/modules/...`, and so for
`common/` and `integrations/`.

1. [Inventory](#1-inventory)
2. [How the code is translated](#2-how-the-code-is-translated)
3. [The modules](#3-the-modules)
4. [What the runs show](#4-what-the-runs-show)
5. [What is proved](#5-what-is-proved)
6. [Disagreements between text and code](#6-disagreements-between-text-and-code)
7. [What is not modelled](#7-what-is-not-modelled)
8. [Plan](#8-plan)

## 1. Inventory

| component | state it keeps | operations | talks to |
|---|---|---|---|
| Media pipeline (`modules/media`) | `MediaUpload` rows; objects under `quarantine/` and `products/` | `request_upload`, the client's presigned POST, the task `validate_upload`, `attach_media_to_product` | object store, RabbitMQ/Celery, ClamAV, Pillow |
| Customer sessions (`accounts/services/sessions.py`, logins) | `Session` rows; `Customer.is_active` | password and Google login, `rotate_refresh_token`, `revoke_session`, `revoke_all_sessions`, `disable_customer` | audit log, JWT authentication |
| Staff administration and MFA (`accounts/api/admin`, `mfa.py`) | `Staff`, `StaffTOTPDevice` | `create_staff`, `disable_customer`, `reset_staff_mfa`, `start_mfa_setup`, `confirm_mfa_setup` | permissions, idempotency, audit log, sessions |
| Idempotency (`common/db/idempotency.py`) | `IdempotencyRecord` | `get_cached_response`, `store_response` | the sensitive admin endpoints |
| Audit log (`modules/audit`) | `AuditLogEntry`, append only | `write_audit_log` | called last by the sensitive services |
| Category tree (`catalog/services/category_tree.py`) | `Category.parent` | `create_category`, `reparent_category` with `assert_acyclic` | catalogue reads |
| Identity (`register_customer`, `verify_email`, `password_reset`, `email_change`, `login_with_google`) | `Customer`, `VerificationToken`, `LoginMethod` | register; issue and consume one-time tokens; link Google identities | mail, Google, sessions |
| Publication (`create_product`, `publish_product`, `archive`, `common/db/outbox.py`) | `Product.status`, `ProductCategory`, `Variant`, `OutboxEvent` | create, publish, archive, serve | translations, media, outbox |
| Translations (`modules/translation`) | `TranslationEntry` | set, approve, look up with fallback | publication, storefront |
| Variant attributes (`set_variant_attributes`) | `VariantAttributeValue` rows, `Variant.attribute_combination_key` | replace a variant's attributes | publication |
| Identifiers (`common/ids/uuid7.py`) | none | `uuid7` | every primary key |
| Locale (`modules/localization`) | the seeded country, a customer's preference | suggest, validate, update | accounts, storefront |
| Error mapping (`common/api/exceptions.py`) | none | `exception_handler` | every endpoint |
| Frame (envelope, request ids, throttling, health, settings, serializers) | none of its own | formatting, configuration, reads | everything |

Behaviours that are hard here:

* **Interleaving without transactions.** `ATOMIC_REQUESTS` is off: outside the few
  `transaction.atomic()` blocks every ORM call commits on its own. A request is a *sequence* of
  commits, and what it read in one may be stale in the next.
* **Partial failure.** A process that dies, or a statement that raises, leaves the earlier
  statements' effects. Object-store writes are never rolled back at all.
* **Repeated delivery.** Object-created events come at least once; clients retry with an
  idempotency key.
* **Mutable input.** A presigned POST can be used again until it expires, so the object may change
  while a task works on it.
* **Locks that end early.** A row lock lives as long as its database connection, not as long as
  the Python function that took it.
* **Transactions that do not look again.** Under READ COMMITTED a check made before a write, in the
  same transaction or not, says nothing about the moment of the write. What does hold then comes
  from a row lock or a unique index.

What makes each component correct: an upload settles once and what is served was vetted as a whole
(media); a rotated or revoked session never lives again, one token buys one successor, a disabled
customer keeps no session that was there before (sessions); a sensitive action has a permitted and enrolled actor, one
effect per key, an audit entry (staff); no cycle and no endless walk (tree); a one-time token works
once, an address has one owner and the verified flag is about that address (identity); what is
active met the preconditions and was announced (publication); what a machine wrote is shown only if
somebody approved it (translations); two variants never have one combination (attributes).
`PROJECT.json` lists the hazards line by line, with the property that
watches each of them.

## 2. How the code is translated

* One action per statement that reads or writes shared state. Statements that touch only local
  variables are folded into the preceding one. A request that is refused changes nothing and is
  not an action, unless the refusal comes after an earlier step (then it ends the request).
* `request`, `worker` and `caller` hold what a process remembers between two statements: the
  snapshot it will act on. This is where stale reads come from.
* `transaction.atomic()` with `select_for_update()` is a lock variable, taken in `LockRow` and
  released by commit, rollback or the loss of the connection. Other transactions have an action
  for the first write, which takes the row's lock, and one for the rest with the commit: between
  the two nobody sees anything, and a second writer of the row waits. `VariantAttributes`, whose
  question is what happens between the statements of a transaction, has one action for each.
* The endpoints (`...View`, one for each view class) put the actions of their services in order.
* `Crash`, `Die`, `Fail`, `TaskDies` drop a process's local state; rows and objects stay.
* Data are model values. Bytes are members of `Content` with the verdicts of `_validate_bytes`,
  Pillow and ClamAV as constants (`Matches`: accepted; `Unreadable`: Pillow raises what
  `_validate_bytes` does not catch; `Undecodable`: it raises when decoding; `Infected`); tokens are the session they belong to; request bodies
  are the part the request hash covers.
* Variables marked *history* are not in the code. They record what happened (who succeeded whom,
  which requests were overtaken, which answers were given) so that properties can speak of it; no guard reads them, except that
  primary keys already used are not used again, and `MaxAudits`, a named bound, counts audits.
* Definitions whose comment begins with `Slip:` are plausible mistakes in the definition they
  precede. `PROJECT.json` pairs each checked property with the slip that breaks it; no
  specification uses them.

## 3. The modules

### UploadLifecycle and MediaPipeline

`UploadLifecycle` is the promise: `absent -> pending -> ready | rejected`, all derivatives of a
ready upload appear at once and come from one acceptable content, only ready uploads get an owner.

`MediaPipeline` is the code. Correspondence:

| TLA+ | code |
|---|---|
| `status`, `product` | columns of `MediaUpload` |
| `credential`, `object`, `events` | presigned POST, the object under `quarantine/`, undelivered events |
| `derived` | the three objects under `products/<id>` |
| `lock` | the row lock of `select_for_update` |
| `worker` | a Celery task: program counter, upload, bytes read |
| `RequestUpload` | `request_upload`: row first, then signing, which may fail |
| `Deliver`, `LockRow`, `ReadObject`, `Validate`, `Scan`, `Derive`, `SaveDerivative`, `CommitReady` | `validate_upload`, statement by statement |
| `RejectUpload`, `Rollback` | `_reject` with the commit; an exception that leaves the `atomic` block, from `verify()` (`Validate`) or from decoding (`Derive`) |
| `LoadUpload`, `AttachMedia` | `attach_media_to_product` on an instance loaded earlier |

The refinement mapping is `state <- status`, `owner <- product` and `served <- Served`:
derivatives count as served once the status says ready.

### SessionChains and Sessions

`SessionChains` is the promise. A login opens a chain of sessions; `Succeed` adds a session in the
place of a revoked one, once, unless that one was `shared`, presented twice at once; `Disable` is one
step that ends every live session of a customer. Sessions issued to a disabled customer later are
counted (`stray`), so that `Closed` can say there is nothing else.

`Sessions` implements it. `state`, `owner`, `expired` are `Session`; `active` is `Customer.is_active`. `request[p]` is what
web process `p` is doing. `PresentToken` / `RevokePresented` / `IssueSession` are the three parts
of `rotate_refresh_token`; `LoginPassword` looks at `is_active`, `LoginGoogle` does not, as in the
code; `RevokeOne` is the counted `UPDATE`; `SaveDisabled`, `RevokeAll`, `AuditDisable` are the
statements of `disable_customer`. `Providers` says which login paths are switched on.

Two races are possible in this code, and history variables mark exactly the steps they need, so
that the properties can say that nothing else goes wrong. `contested` holds the tokens that a
second request presented while a first had read but not yet revoked them. `request[p].late` is set
when the `UPDATE` of a disabling overtakes a login or rotation of its customer; `stray` holds the
sessions such a request issues, those of a Google login to a customer already disabled, and their
successors.

The refinement mapping is `shared <- contested`; all other variables are those of the same name. The
`UPDATE` of a disabling is the step `Disable`; saving `is_active` and the audit entry are invisible. That
`stray` is the same in both is part of what is shown: in `SessionChains` it is a matter of when a
session is issued, in `Sessions` of what the request that issues it has missed.

### KeyedEffects and StaffAdmin

`KeyedEffects` is what an idempotency key promises: a request is carried out and its response kept
in one step (`Perform`), while the response is kept nothing more is done under the key, a request like the
one kept, and no other, is answered from it (`Answer`), and when its lifetime is over it is forgotten.

`StaffAdmin` is the code, where these are statements of their own. `BeginSensitive` is authentication and `check_policy`, `CheckMfa` is `require_confirmed_mfa`,
`LookUp` / `DropExpired` / `Remember` are the idempotency helpers around the effect, `CreateStaff`,
`DisableCustomer`, `ResetStaffMfa` are the effects and `WriteAudit` the entry that follows each of
them. `StartMfaSetup`, `VerifyToken`, `ConfirmDevice` are the enrolment. A `Slot` is what
`IdempotencyRecord` is unique on: actor, action, key. `SameBody` is what `_hash_request` can tell
apart: the body, so for two of the three endpoints not the target, which is in the URL.
The audit log is `audits`, targets per slot, because every question asked of it here is by slot
and target. `DisableCustomer` sets `is_active` only; what becomes of the sessions is in `Sessions`,
where the same three statements are `SaveDisabled`, `RevokeAll`, `AuditDisable`.

A process may die at the points of a request in `Crashes`. `exposed` and `unaudited` are history, and
mark what the two promises of these endpoints fail on. A slot is exposed when a request is past its look-up
while another one with the key has its effect audited and its response still to store, or when a process
dies there: from then on the key may have a second effect. A customer is unaudited when a disabling ended
without its entry, by a death or by an entry the table refused.

It implements `KeyedEffects` with `log <- audits` and `kept <- Kept`: a response counts as kept when
its record is stored, and before that once the effect is audited and the request is about to store it. So
`WriteAudit` is `Perform`, `Remember` the first `Answer`, a replay in `LookUp` another, `DropExpired` is
`Forget`.

### CategoryTree

`Step` is one turn of the loop of `assert_acyclic`. Following a foreign key reads the parent's
row, which carries the id of *its* parent: hence `node` together with `up`, read in the same step.
`seen` starts with the category itself, as in the code. `SaveParent` is the separate `save`.
Creation runs the same check as re-parenting, with a primary key that has no row yet. `overtaken`
and `stale` are history: whether another process saved a re-parenting during a check, and whether
a re-parenting was ever saved on a check so overtaken.

### Identity

| TLA+ | code |
|---|---|
| `email`, `active`, `verified` | `Customer.email`, `is_active`, `email_verified_at` |
| `password`, `google` | the `LoginMethod` rows |
| `token`, `expired` | `VerificationToken`: purpose, owner, `new_email`, `consumed_at`, `expires_at` |
| `mailed` | the mailbox the raw token was sent to; only who reads it can present the token |
| `Register`, `CreateCustomer` | the serializer's look-up of the address; the transaction of `register_customer` |
| `AskEmailChange`, `AskPasswordReset`, `IssueToken`, `SendMail` | the two requests for a token, up to the mail after the commit |
| `ReadToken`, `Consume` | the look-up outside the transaction, and the first `save` inside it |
| `VerifyEmail`, `ConfirmEmailChange`, `RefuseEmailChange`, `ConfirmPasswordReset` | the rest of the transaction, with commit or rollback |
| `GoogleCreate`, `GoogleMatch`, `GoogleLink` | `login_with_google` for an account nobody has linked |
| `Disable`, `Expire`, `Fail` | `disable_customer`, time, a refused mail or a dead process |

`proven` is history: customer and address, once somebody who reads that mailbox, or Google on their
behalf, has acted for the customer. `contested` holds the tokens that a request read while another
that had read them had not finished. Logging in to an existing account is in `Sessions`.

### Publication

`status`, `categorised`, `variant`, `archived`, `entry`, `outbox` are the columns and rows of
`Product`, `ProductCategory`, `Variant`, `TranslationEntry` (of the name) and `OutboxEvent`.
The uploads are the state of an instance of `UploadLifecycle`, the specification that
`MediaPipeline` implements: `MediaStep` is any step of it whose product exists, and of the other
products it matters only that an upload may be moved to one of them (`Elsewhere`).

`CreateProduct` / `StoreCategories` are `create_product`, two commits; `StoreCategoriesFails` is the second one
refused by `unique_product_category`, when the list names a category twice. `LoadProduct`,
`CheckContent`, `CheckVariant`, `CheckMedia` are what `ProductPublishView` and `publish_product` read
one after the other; `SaveActive` and `EmitAndCommit` are its transaction. `ReadEntry` /
`SaveApproval` are `approve_translation`. `SetTranslation`, `ArchiveProduct`, `ArchiveVariant`,
`CreateVariant` write once. `Listed`, `Page` and `ShownIn` are what the storefront serves, with the
fallback of `get_localized_field`. A request is `disturbed` (history) when an archived variant, an AI
draft or a moved upload takes away what its publication depends on, or when the entry its approval
has read is written again.

### CombinationRegistry and VariantAttributes

`CombinationRegistry` is the promise: in one step the attributes of a variant are replaced by a
combination that the column holds and no other variant has (`Replace`), and what the service does
not promise, that two overlapping updates leave the rows of both, is a step of its own (`Merge`).
`VariantAttributes` implements it with `merged <- overlapped`: the commit is that step, all else is
invisible.

In `VariantAttributes`, one action per statement of `set_variant_attributes`; the bulk insert is one action per row, since a
unique index may make it wait at each of them. The module states what PostgreSQL does, as far as
the service relies on it: a statement sees what is committed when it starts (`FindRows` takes the
snapshot of the DELETE), waits for rows and index entries that another open transaction has written
(`DeleteWaits`, `InsertWaits`, `SaveWaits`), and a cycle of waiting transactions loses a member
(`AbortDeadlocked`). `key` is the *set* `attribute_combination_key` encodes: `_combination_key`
sorts the ids, so that two lists have one key if and only if they have the same members.
`overlapped` is history: the variants whose last update was open together with another one.

### Localization, ErrorMapping, Identifiers, FunctionChecks, RequestChecks

Pure functions, as operators: `suggest_locale`, `validate_locale_and_currency` and
`update_locale_preference`; `_flatten_full_details` and
`exception_handler`; `uuid7`. `FunctionChecks` takes one input per step (a header, or two
identifiers) and holds the properties, some of them against a reference definition (`Preferred`,
`Precedes`). `RequestChecks` extends it by the exceptions (`Codes`, `LeafCount`); it is a module of its
own because what walks an error tree is recursive, and recursion is out of the provers' reach. A
header or pair that `RequestSpec` takes is one that `Spec` takes, so what is proved of the one holds of the
other. A header is the sequence of its parts, each with
its spelling, language and quality; an error tree is what `get_full_details` returns, with paths as
sequences of names and indices.

### MC modules

Each of `MCMediaPipeline`, `MCSessions`, `MCStaffAdmin`, `MCCategoryTree`, `MCIdentity`,
`MCPublication`, `MCVariantAttributes` and `MCRequestChecks` declares the model values and bounded
inputs its configurations use, and the symmetry sets. Symmetry is used in safety runs only, over
values no definition distinguishes.

## 4. What the runs show

Passing runs:

| run | question | instance | why that is enough |
|---|---|---|---|
| `MediaSafety` | is what becomes ready vetted as a whole, whatever is repeated, replaced or dies? does the pipeline implement `UploadLifecycle`? | 1 upload, 5 contents, 2 workers, 2 events | uploads share no row or object, so one suffices; two contents that both match, plus an infected one and two that Pillow refuses, before and after the scan, let derivatives be mixed; two workers contend |
| `MediaHostile` | what survives dropped connections and scanner errors? | the same with all faults, one matching content less | |
| `MediaLiveness` | does every posted upload settle? | 2 uploads, 2 workers, no faults | two uploads, so that a worker may prefer the other one |
| `SessionsConcurrent` | what do rotations, revocations, disabling and crashes do to a session? what exactly gives a token two successors, or leaves a disabled customer a session? do the requests implement `SessionChains`? | 1 customer, 3 sessions, 2 processes | a token presented twice needs three sessions, and so does a stray session that is rotated; a session never meets another customer's, and the proofs are for any number of them |
| `StaffAdminConcurrent` | permission, MFA, replay, reset under interleaving and crashes; what gives a key two effects? | 2 staff, 2 devices, 1 key, 2 processes that may die anywhere, one audited effect per key before the last requests begin | both requests may be under way when the first effect is audited, so a key can have two; the new account may get its creator's role, so it can reset the creator's device while a request of the creator is under way, or a lower one, so that two bodies differ |
| `StaffAdminSerial` | does a key stand for one effect, and do the endpoints implement `KeyedEffects`? what leaves a disabled customer without an audit entry? | 1 process that may die anywhere but before it stores a response, two reasons, one of them too long for the audit table | different bodies for one key, expiry, retry after every kind of failed attempt; for more processes there are proofs |
| `CategoryTreeChecks` | can the tree get a cycle without an overtaken check? does every walk end, cycle or not? | 3 categories, 2 processes | two re-parentings that overlap, and a third category from which a cycle of two is met from outside |
| `IdentityTokens` | what do an address, a verified flag, a consumed token and a linked account stand for, in any order of verifications, changes and logins? | 2 customers, 2 tokens, 2 addresses, 2 Google accounts, 2 processes that may die | two customers can want one address; a customer can have two tokens, of one purpose or of two; a token can be presented twice |
| `PublicationRaces` | what leaves a product active without what it needs? does the outbox keep count? | 1 product, 2 variants, 2 locales, 1 upload, 2 processes that may die, 2 publications | a second variant and a second locale show that the right one is looked at; products share no row but the upload, which may go elsewhere |
| `VariantAttributesConcurrent` | what do two overlapping updates leave behind? is an update one step of `CombinationRegistry`? does every update end? | 2 variants, 4 values of 3 attributes, 8 calls, 2 processes | calls with the same values in opposite orders, equal combinations for two variants, two values of one attribute, and more values than the key can hold |
| `RequestFunctions` | do the pure functions do what they are for? | every header of up to 3 parts of 9 kinds; error trees of bounded size; 10 times with 3 fillings of the random bytes | two parts that match and one that does not, in each order; each nesting DRF builds; the times lie around the carries |

`MediaUndecodable` ends in a violation and is the subject of section 6.

Runs do not repeat the type invariants of modules whose type correctness is proved, except where it says more
than types (`Publication`: a request is about a product that exists). `AttachedIsReady` and `SettledIsFinal` are checked in `MediaHostile`, under
every fault; `MediaSafety` checks the refinement, which implies them, where there are fewer.
Likewise `SuccessorReplaces` and `RevokedIsFinal` of `Sessions` are proved and not checked on their own:
`ImplementsChains` of `SessionsConcurrent` implies them.

**Bounds.** `MaxEvents` (undelivered events per upload), `MaxAudits` (audit entries per key after
which no request begins), `Crashes` (where processes die), `MaxPublications` (publications of one product), the sets `Session`,
`Device`, `Category`, `Customer`, `Token`, `Variant` (primary keys), `Email`, `Subject`, `Upload`,
`Endpoints` and `NewRoles` (what is called, and for which roles), `Key`, `Calls` (the calls of
`set_variant_attributes`), `MaxValues` (how many ids fit the key's column: 6 in the code, 2 in the
run), and for the pure functions `Tags`, `MaxParts`, `ErrorCodes`, `Fields`, `Times`, `Randoms`. All
are in guards or in the sets inputs are taken from; each is large enough that the case a property is
about occurs, which the slips confirm: every property of every passing run is violated on the same
instance by a small mistake in the code it watches.

**Deadlock** is checked in all runs but `StaffAdminConcurrent`, `IdentityTokens` and
`RequestFunctions`. In the first two the primary keys and the audits are used up and no request
can begin any more; requests come from outside and the code waits for nobody there. The third
takes one input and stops.

**Fairness.** In `MediaPipeline`: `WF(Task(w))`, a live worker keeps executing its task (the
operating system's scheduler; a task that waits for a row lock is disabled, and gets it since its
holder ends); `SF(Deliver(u))`, because the broker's queue is first in, first out: an event is not
overtaken for ever while workers become idle again and again. Nothing is assumed of clients, nor of
faults not happening: liveness is checked with `Faults = {}`, since Celery's default is to acknowledge
a message when its task starts, and a task that dies then leaves its upload pending. In
`CategoryTree`: `WF(Step(p))`, a live process keeps running its loop. In `VariantAttributes`:
`SF(Step(p))`, a transaction whose statement can run again and again gets to run it: PostgreSQL
queues those who wait for a row, so a stream of other updates does not keep one waiting for ever;
the deadlock detector, part of `Step`, looks at every cycle. Nothing is assumed of `Begin` and
`Crash`.

## 5. What is proved

All proofs are checked by tlapm with Z3, Zenon and LS4. The constants are arbitrary but for the
named assumptions in the modules (`MediaAssumption`, `SessionsAssumption`, `StaffAdminAssumption`,
`CategoryTreeAssumption`, `IdentityAssumption`, `PublicationAssumption`,
`VariantAttributesAssumption`, `FunctionChecksAssumption`), which say that the null values are not members
of their sets, that the subsets are subsets, that the bounds are numbers and that a time fits into six
bytes. Sets may be infinite, except where a theorem says otherwise.

Some theorems have a hypothesis about behaviours besides `Spec`. It names what goes wrong without it
(section 6), and the runs show that it can be met.

**MediaPipeline_proofs.** `BasicInv` holds under every fault and has three parts beyond the types:
a task knows an existing key; *only pending rows are locked*; and a caller that saw `ready` is
still right, because ready is for ever. From it follow type correctness, `AttachedIsReady` and
`SettledIsFinal`: a status changes only under the lock, and a locked row is pending.
`VettedInv` adds what a task knows at each point (`TaskKnows`): from the guard on it holds the
lock, after validation its bytes match, after the scan they are clean, after the k-th write the
first k derivatives are made of exactly them. It is inductive only under `NoSuchFault`, that is
without lost connections and scanner errors; with them the theorems would be false. From it follow
`ReadyIsVetted`, `NoDoubleProcessing` and that each step is a step of `UploadLifecycle` or leaves
its variables alone (`MediaImplementsLifecycle`).
`TendedInv` is about progress: nothing is posted for a row that does not exist, a lock is held by a task
past the guard of that very row, and a posted upload that is not settled has an event or a task. It
needs `NothingLost` (no task dies, no connection is lost, Pillow reads and decodes everything), for these are the ways
in which an upload is lost. Hence `MediaNobodyForgotten`: such an upload always has an event to be
delivered or a task that waits for no lock.

**Sessions_proofs.** `SessionsInv` ties each request to the rows it depends on (`RequestOK`: the
presented session exists and is its customer's; whoever issues a successor has already revoked the
predecessor) and says that at most one process is about to audit a session, and none if it is
audited (`OneAuditor`). `RowsPersist` shows that rows are never taken away or given to another
customer and revocation is never undone. Hence `SuccessorReplaces`, `OneAuditPerRevocation`,
`RevokedIsFinal`, under any interleaving.
`RotationInv` adds: a request that is about to revoke a presented token, or to issue its successor,
is alone in that and the token has no successor yet, unless the token is contested. Hence
`SessionsRotation`, that is `SecondSuccessorNeedsContest`, for any number of processes.
`DisablingInv` adds: a disabled customer is inactive, and so is the customer whose sessions a
disabling is about to revoke; a login or rotation of a disabled customer that is under way is late,
or rotates a stray session; a usable session of a disabled customer is stray. That a customer is
inactive *before* the sessions are revoked is what it turns on: no password login can begin in
between. Hence `SessionsOnlyStraysSurvive`.
`StrayInv` adds the converse: a late request is one of a disabled customer, and a stray session exists and
belongs to one. So a session is stray if and only if its customer is disabled when it is issued
(`StrayWhenDisabled`). With these invariants, each step is a step of `SessionChains` or
leaves its variables alone (`SessionsImplementsChains`). `ChainsPromise` is proved of `SessionChains`
alone, from `ChainsInv`: a place is held by one session unless it was shared, its former holder is
revoked and of the same customer (`OnePlace`), and what a disabled customer has left was issued since
(`Closed`). By the refinement the code keeps both (`SessionsKeepPromise`), and there `Closed` says more than
`OnlyStraysSurvive`: it is about sessions that have expired, too.

**StaffAdmin_proofs.** `StaffInv` says what a request past each check may rely on: its actor had
the permission (roles never change) and was enrolled, its effect has happened when it audits, its
entry is there when it stores the response, and a stored record stands for an audited effect with
the same body. `StaffResetIsFinal` needs that a confirmation only ever writes `confirmed_at`.
`StaffOneEffectPerKey` is about any number of processes, under two hypotheses: a request that has its response
still to store is alone past the look-up with its key (`RetriesWait`; requests may overlap otherwise, with one
key or with several), and no process dies there (`NoneForgets`; it may die anywhere else). The invariant, `KeyGood`, keeps
one effect in hand: as many as records have expired, and one more only while there is a record
or its writer is about to store it; and whoever has passed the look-up knows that there is no record.
`StaffSecondEffect` has no hypothesis: a slot that is not exposed is alone (`AloneStep`) and its invariant holds,
so a second effect needs an exposed slot.
Under the same two hypotheses `StaffImplementsKeys` is the refinement. It rests on the same invariant: an
effect's entry is written only when nothing is kept (`WriteForKeys`), and storing the record changes
nothing but the answer (`RememberForKeys`). Effects are counted by their audit entries in both
specifications. Without the hypotheses the refinement is false, as section 6 describes.
`StaffUnauditedNeedsLostEntry` has no hypothesis either: every disabling owes an entry (`OwesEntry`) until it
writes it or ends, and one that ends without it makes its customer `unaudited`.

**CategoryTree_proofs.** `CyclesNeedStaleChecks` proves `CycleNeedsStaleCheck` for any number of
processes. The invariant (`TreeInv`): rows that do not exist are nobody's parent (`Grounded`);
while a walk that nobody overtook is at `node`, the rows it has seen and `node` form a path up from the target (`WalkIsAPath`); when such a process is about to save there is a set that
contains the target, is closed under `parent` up to the root and lacks the category (`SaveIsSafe`).
A creation's own check may be overtaken: nothing has a new category as its parent. As a corollary,
with one process (`\A p, q \in Process : p = q`) the tree stays acyclic (`SerialTreeAcyclic`).
`MoveKeepsAcyclic` is the graph fact behind it, stated without induction: a set with no way out
after the move would, minus that closed set, have had none before.
`WalksRunOut` is what makes walks end on a tree that has a cycle, or gets one meanwhile: each turn that goes on takes a row
from those not seen, so with finitely many categories no walk has more turns than there are
categories.

**Identity_proofs.** All properties of `IdentityTokens`. What makes `VerifiedAddressProven`
inductive is that an address is *settled* for a customer when it is their address, or when the
address they have has been proven: a verification is mailed to a settled address, and every write
of an address keeps settled ones settled, since only a proven address replaces another (`MailOK`,
`SettledKept`). So a verification that comes late confirms the present address or finds it proven
already. `ContestsSeen` says that two requests with one token, or one with a token used up, are in a
contest; the row lock adds that only one of them is between its two writes. `RowsOK`: nothing refers
to a customer without a row.
`IdentityGoogleNeverTakesOver` is about steps: a Google account is linked to a customer who has a row by `GoogleLink` alone,
whose request was vouched for and has a settled address (`RequestOK`), since what was theirs at the look-up
has given way to proven addresses only.
`IdentityStandingAccounts` is about steps, too: a customer who has a row gets another address only in the
commit that uses a token mailed to that very address, a password they did not have only by a mailed reset token, the
verified flag by a mail or by a Google account, and loses neither the flag nor a password.

**Publication_proofs.** All properties of `PublicationRaces`. `RequestOK` says what a publication
knows at each of its points: what it has checked is still so, or it has been disturbed; and, also when
it has been, the name is there or an AI draft took it away (`Named`), and a variant is for sale or
was archived (`Stocked`). These two are kept by every step of anybody, so they hold of a product
when it becomes active and ever after (`ListedOK`). `LocksOK` is the row lock: one publication of a
product is between its two writes. `MediaStep` is used through `UploadLifecycle` alone.

**VariantAttributes_proofs.** `CombinationsDistinct`, `KeyIsAttached`, `DesyncNeedsOverlap` and the
type invariant, for any number of transactions. `PairOK` is what the locks do for two open
transactions: those on one variant know that they overlap, have inserted rows of different attributes
and are not both past their key's update; those past it have different combinations. `RequestOK` is
what a transaction knows of the committed rows: those it has inserted clash with none that it leaves,
alone on its variant it leaves none, and its key is nobody else's.
`VariantImplementsRegistry` is the refinement: `CommitReplaces` shows that a commit is a `Replace`, or a `Merge`
when it was overlapped, and all other steps leave the registry's variables alone.
About progress there are two theorems. `UpdatesAdvance`: the statements and rows a transaction has left
become fewer with each of its steps and are no other's business. `NobodyWaitsInVain`: a set of
transactions that wait only for one another, among finitely many, has one that can go on, or a circle,
whose members the detector aborts. The circle is found as a least set in which everybody waits for
somebody: those waited for in it form such a set too, so they are all of it (`WaitersFormACycle`).

**FunctionChecks_proofs.** The locale functions for headers of any length and any parts, and identifiers
for any two times below 2^48 milliseconds and any random bytes. `BestLocaleMatch` is stated with
the least index that matches. The library's induction theorems cannot be used, but the well-foundedness of
`<` as a fact about a relation can, and gives least elements (`LeastNatural`). From it: the first match is a
preferred one if qualities do not increase (`FirstMatchSuffices`); what is suggested is always allowed by the
seeded country (`SuggestionsAccepted`); and of two times the first byte in which they differ decides (`BytesOrder`), hence `IdentifiersSortByTime`.

**Model-checked only**: liveness (`EventuallySettled`, `WalksEnd`, `UpdatesEnd`), which needs fairness and is
out of the prover's reach. What can be proved of it is the safety half above: no upload is forgotten, walks and
transactions have finitely many steps, and somebody can always take one. `CanStep` of the last is the
guard of `Step` written out, since `ENABLED` cannot be proved about; TLC finds the two equal in all states of
`VariantAttributesConcurrent`. And `ErrorsLocated`: `FlattenFullDetails` walks a tree, and what a
recursive definition computes for every tree takes an induction over trees.

## 6. Disagreements between text and code

One run ends in a violation, against a sentence of the repository quoted in `PROJECT.json`.

* `MediaUndecodable`: a file that passes `verify()` and does not decode raises outside the `except`
  clauses; its upload is pending for ever, the docstring says it ends ready or rejected. So does a file on
  which `Image.open` or `verify()` raises neither of the two exceptions caught: `Unreadable`.

Behaviour the models have which a reader of the code may not expect. The properties say exactly
when it happens.

Media
* The row lock of `validate_upload` ends with its database connection, the task does not; two
  deliveries may then process one upload at once. An ERROR reply of the scanner counts as clean. The
  result is still final, and attachable only when ready: `MediaHostile`.

Sessions
* Two requests with one refresh token both get a new pair if both read it before either revokes it,
  and only then: `SecondSuccessorNeedsContest`.
* Google login does not look at `is_active`, so a disabled customer can have a usable session again;
  and a login or rotation under way while its customer is disabled issues a session that survives.
  Nothing else leaves one: `OnlyStraysSurvive`.

Staff administration
* Two requests with one idempotency key both act when one is past its look-up before the other has
  stored its response; the unique constraint refuses the second record, after the second effect. So does a
  retry after a death between effect and record. Nothing else gives a key a second effect:
  `SecondEffectNeedsExposure`, checked and proved. `OneEffectPerKey` holds without these two.
* "permission AND a confirmed MFA device required, audited" (`modules/accounts/services/disable_customer.py:1`;
  `guild.md`, section 6.2, asks for the audit entry too): a customer stays disabled without an entry when the
  process dies before it, or when the reason has more than 255 characters, which the serializer lets through and
  the audit table refuses. Nothing else loses an entry: `UnauditedNeedsLostEntry`, checked with both and proved.
* A key replays for another target, since the request hash leaves out the URL (`SameBody`).

Category tree
* Two re-parentings that both check before either saves close a cycle: put `Acyclic` for
  `CycleNeedsStaleCheck` in `CategoryTreeChecks.cfg`.

Identity
* A Google account that Google vouches for is linked although the customer changes their address between the
  look-up and the link; the address it vouches for was theirs, and the present one is proven:
  `GoogleNeverTakesOver`.
* A token called single-use (`modules/accounts/models/verification_token.py:1`) works twice for
  requests that overlap, and only for those: `SecondUseNeedsOverlap`.
* A password reset leaves the customer's sessions as they are, and a reset token mailed to an address
  stays valid when the address is changed.
* The mail is sent after the commit: when that fails the customer exists, was sent nothing, and a
  retry of the registration finds the address taken.

Publication and translations
* A creation that dies after its first commit, or whose list names a category twice, leaves a draft without its
  categories, its primary one included; it can be published: `UncategorisedNeedsFailure`.
* An archived product is published like any other, and an archiving that overlaps a publication is
  overwritten by it or overwrites it. What is active was announced: `EveryPublicationAnnounced`.
* The preconditions may have been withdrawn by the time the status is written, and may be later;
  an AI draft over the approved default name leaves an active product without a name in every locale
  that has none of its own, although "a Customer must never see a blank page because one locale is
  missing content" (`modules/translation/selectors/get_localized_field.py:3`):
  `BlankNeedsWithdrawal`.
* An approval that overlaps a write approves the text that the reviewer has not read:
  `VisibleDraftWasApproved`.

Variant attributes
* The key is "kept in sync" with the rows (`modules/catalog/models/variant.py:3`), but two updates of
  one variant that overlap may leave the rows of both under the key of the second, until the next
  update: `DesyncNeedsOverlap`.

Functions
* The storefront has a loop of its own over `Accept-Language` ("same parsing approach",
  `modules/catalog/api/storefront/views.py:23`) and its own list of locales; it is not translated.
* `Accept-Language` qualities are not read: a language with `q=0` is chosen if it comes first. For
  headers in order of preference the choice is the best one: `FirstMatchIsBest`.
* An error without a field inside a list is reported with the index as its field, as "0".
* Identifiers are called "monotonic within the same millisecond" (`common/ids/uuid7.py:3`); the ten bytes after the time are
  random, so those of one millisecond are in no order. Across milliseconds they are:
  `LaterSortsLater`.

## 7. What is not modelled

* Staff login: it reads one row and signs a token, and changes nothing.
* Rate limiting: the framework counts, the code only configures it.
* The HTTP envelope, request ids, health checks, serializers and read-only views: formatting, context
  variables and reads. Where a view decides something (which requests reach a service, what the
  storefront shows) it is in the model of that service.
* The storefront's `_resolve_locale`, a copy of the loop in `suggest_locale` with constants of its own: a
  model of it would be `BestLocaleMatch` once more. `ShownIn` takes the locale as given.
* Settings and the OpenSearch client, which nothing uses so far.
* Within the modelled parts: audit entries' wording and redaction, key material and hashes, the
  verification of Google's signature (its verdict is an input), slugs, prices and stock, image formats
  and sizes beyond whether they match, titles and statuses of error responses, migrations (the
  constraints they create are taken from the models).

## 8. Plan

The modules planned so far are written, and what they were meant to be proved to do is. What remains:

1. **Composition**: `Sessions` with `Identity` (a first Google login issues a session for the customer
   it creates; a disabling while an account is being linked), and `Sessions` with `StaffAdmin`, whose
   `DisableCustomer` stands for three statements of the other.
2. **Consumers of the outbox**, when the code has any: events are written and not yet read.
