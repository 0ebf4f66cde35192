-------------------------- MODULE Publication_proofs --------------------------
(***************************************************************************)
(* Proofs about Publication, for any number of products, variants,         *)
(* locales, uploads and processes.                                         *)
(*                                                                         *)
(* What a publication has checked stays so, or its request is disturbed.   *)
(* A name that was approved can only be replaced by an AI draft, and the   *)
(* variants that were for sale can only be archived.                       *)
(***************************************************************************)
EXTENDS Publication, TLAPS

Draft == [author |-> "ai", is_approved |-> FALSE]

Named(x) == HasContent(x) \/ entry[<<x, DefaultLocale>>] = Draft
Stocked(x) == HasVariant(x) \/ \E v \in archived : variant[v] = x

UploadsOK ==
    /\ upload \in [Upload -> {"absent", "pending", "ready", "rejected"}]
    /\ attached \in [Upload -> Product \cup {Elsewhere, NoProduct}]

\* Only products that exist have translations.
EntriesOK == \A x \in Product, l \in Locale : entry[<<x, l>>] # NoEntry => Exists(x)

PastContent == {"variant", "media", "saving", "emitting"}
PastVariant == {"media", "saving", "emitting"}
PastMedia == {"saving", "emitting"}

\* What a publication may rely on at each point of its request.
RequestOK(r) ==
    /\ r.at \in PastContent =>
          Named(r.product) /\ (~r.disturbed => HasContent(r.product))
    /\ r.at \in PastVariant =>
          Stocked(r.product) /\ (~r.disturbed => HasVariant(r.product))
    /\ r.at \in PastMedia => (~r.disturbed => HasMedia(r.product))

RequestsOK == \A p \in Process : RequestOK(request[p])

\* The row lock: one publication of a product is between its two writes.
LocksOK ==
    \A p \in Process : At(p, "emitting") =>
        /\ activations[request[p].product] < MaxPublications
        /\ \A q \in Process \ {p} :
              At(q, "emitting") => request[q].product # request[p].product

ListedOK == \A x \in Listed : Named(x) /\ Stocked(x)

PublicationInv ==
    /\ TypeOK
    /\ UploadsOK
    /\ EntriesOK
    /\ RequestsOK
    /\ LocksOK
    /\ ListedOK
    /\ EveryPublicationAnnounced
    /\ VisibleDraftWasApproved
    /\ UncategorisedNeedsFailure

Request == [at : Point, product : Product \cup {NoProduct}, locale : Locale,
            disturbed : BOOLEAN]

-----------------------------------------------------------------------------
LEMMA InitHolds == Init => PublicationInv
<1> SUFFICES ASSUME Init PROVE PublicationInv
  OBVIOUS
<1> USE PublicationAssumption DEF Init
<1>1. TypeOK
  BY DEF TypeOK, Idle, NoEntry, Point
<1>2. UploadsOK /\ EntriesOK
  BY DEF UploadsOK, EntriesOK, Media!Init
<1>3. RequestsOK /\ LocksOK
  BY DEF RequestsOK, LocksOK, RequestOK, Idle, PastContent, PastVariant, PastMedia, At
<1>4. ListedOK /\ EveryPublicationAnnounced /\ UncategorisedNeedsFailure
  BY DEF ListedOK, EveryPublicationAnnounced, UncategorisedNeedsFailure, Listed, Exists
<1>5. VisibleDraftWasApproved
  BY DEF VisibleDraftWasApproved, NoEntry
<1> QED BY <1>1, <1>2, <1>3, <1>4, <1>5 DEF PublicationInv

-----------------------------------------------------------------------------
(* Steps that change p's request and no row.                               *)

OnlyRequest(p) ==
    /\ request' \in [Process -> Request]
    /\ \A q \in Process \ {p} : request'[q] = request[q]
    /\ request[p].at # "categorising" \/ request[p].product \in abandoned'
    /\ request'[p].at # "idle" =>
          request'[p].product \in Product /\ status[request'[p].product] # "absent"
    /\ abandoned \subseteq abandoned' /\ abandoned' \subseteq Product
    /\ UNCHANGED <<catalog, entry, outbox, uploads, activations, vetted, overtaken>>

LEMMA RequestKeeps ==
    ASSUME PublicationInv, NEW p \in Process, OnlyRequest(p), RequestOK(request'[p]),
           request'[p].at = "emitting" =>
               /\ activations[request'[p].product] < MaxPublications
               /\ \A q \in Process \ {p} :
                     At(q, "emitting") => request[q].product # request'[p].product
    PROVE  PublicationInv'
<1> USE DEF PublicationInv, OnlyRequest, catalog, uploads
<1>1. TypeOK'
  BY DEF TypeOK, Request
<1>2. UploadsOK' /\ EntriesOK'
  BY DEF UploadsOK, EntriesOK, Exists
<1>3. RequestsOK'
  <2>1. ASSUME NEW q \in Process PROVE RequestOK(request'[q])
    BY DEF RequestsOK
  <2> QED
    BY <2>1 DEF RequestsOK, RequestOK, Named, Stocked, HasContent, HasVariant, HasMedia
<1>4. LocksOK'
  BY DEF LocksOK, At
<1>5. ListedOK' /\ EveryPublicationAnnounced' /\ VisibleDraftWasApproved'
  BY DEF ListedOK, EveryPublicationAnnounced, VisibleDraftWasApproved, Listed, Named,
         Stocked, HasContent, HasVariant
<1>6. UncategorisedNeedsFailure'
  BY DEF UncategorisedNeedsFailure, Exists, At, TypeOK
<1> QED BY <1>1, <1>2, <1>3, <1>4, <1>5, <1>6

\* s is r at another point.
Advanced(r, s, at) ==
    s.at = at /\ s.product = r.product /\ s.disturbed = r.disturbed

\* A precondition is found to hold, or the request ends.
LEMMA CheckKeeps ==
    ASSUME PublicationInv, NEW p \in Process,
           NEW at \in {"content", "variant", "media"},
           NEW then \in {"variant", "media", "saving"},
           NEW ok \in BOOLEAN, Check(p, at, ok, then),
           ok => \A s \in Request : Advanced(request[p], s, then) => RequestOK(s)
    PROVE  PublicationInv'
<1>0. TypeOK /\ request[p] \in Request
  BY DEF PublicationInv, TypeOK, Request
<1>1. CASE ok
  <2>1. request'[p] \in Request /\ Advanced(request[p], request'[p], then)
    BY <1>0, <1>1 DEF Check, GoTo, TypeOK, Request, Advanced, Point
  <2>2. UNCHANGED <<catalog, entry, outbox, uploads, history>>
    BY DEF Check
  <2>3. request' = [request EXCEPT ![p].at = then]
    BY <1>1 DEF Check, GoTo
  <2>4. request' \in [Process -> Request]
    BY <1>0, <2>3 DEF TypeOK, Request, Point
  <2>5. request[p].at = at
    BY DEF Check, At
  <2>6. OnlyRequest(p)
    BY <1>0, <2>1, <2>2, <2>3, <2>4, <2>5
       DEF OnlyRequest, Request, TypeOK, history, Advanced
  <2> QED
    BY <1>0, <1>1, <2>1, <2>6, RequestKeeps DEF Advanced
<1>2. CASE ~ok
  <2>1. request'[p] = Idle
    BY <1>0, <1>2 DEF Check, End, TypeOK
  <2>2. UNCHANGED <<catalog, entry, outbox, uploads, history>> /\ End(p)
    BY <1>2 DEF Check
  <2>3. request[p].at = at
    BY DEF Check, At
  <2>4. OnlyRequest(p)
    BY <1>0, <2>1, <2>2, <2>3, PublicationAssumption
       DEF End, OnlyRequest, Idle, Request, TypeOK, history, Point
  <2> QED
    BY <2>1, <2>4, RequestKeeps DEF Idle, RequestOK, PastContent, PastVariant, PastMedia
<1> QED BY <1>1, <1>2

\* The request of p begins, is checked once more, or ends.
Quiet(p) ==
    \/ \E x \in Product, l \in Locale : ReadEntry(p, x, l)
    \/ \E x \in Product : LoadProduct(p, x)
    \/ CheckContent(p)
    \/ CheckVariant(p)
    \/ CheckMedia(p)
    \/ SaveActive(p)
    \/ StoreCategoriesFails(p)
    \/ Die(p)

LEMMA QuietKeeps ==
    ASSUME PublicationInv, NEW p \in Process, Quiet(p) PROVE PublicationInv'
<1> DEFINE r == request[p]
<1> USE PublicationAssumption
<1>0. TypeOK /\ RequestOK(r) /\ r \in Request
  BY DEF PublicationInv, RequestsOK, TypeOK, Request
<1>1. CASE \E x \in Product, l \in Locale : ReadEntry(p, x, l)
  <2> PICK x \in Product, l \in Locale : ReadEntry(p, x, l)
    BY <1>1
  <2>1. status[x] # "absent"
    BY DEF ReadEntry, PublicationInv, EntriesOK, Exists
  <2>2. request'[p] = [Idle EXCEPT !.at = "approving", !.product = x, !.locale = l]
    BY <1>0 DEF ReadEntry, Begin, TypeOK
  <2>3. OnlyRequest(p)
    BY <1>0, <2>1, <2>2
       DEF ReadEntry, OnlyRequest, Begin, At, Idle, Request, Point, TypeOK, history
  <2> QED
    BY <2>2, <2>3, RequestKeeps DEF Idle, RequestOK, PastContent, PastVariant, PastMedia
<1>2. CASE \E x \in Product : LoadProduct(p, x)
  <2> PICK x \in Product : LoadProduct(p, x)
    BY <1>2
  <2>2. request'[p] = [Idle EXCEPT !.at = "content", !.product = x,
                                   !.locale = DefaultLocale]
    BY <1>0 DEF LoadProduct, Begin, TypeOK
  <2>3. OnlyRequest(p)
    BY <1>0, <2>2
       DEF LoadProduct, OnlyRequest, Begin, At, Idle, Request, Point, TypeOK, history,
           Exists
  <2> QED
    BY <2>2, <2>3, RequestKeeps DEF Idle, RequestOK, PastContent, PastVariant, PastMedia
<1>3. CASE CheckContent(p)
  <2>1. HasContent(r.product) =>
            \A s \in Request : Advanced(r, s, "variant") => RequestOK(s)
    BY DEF Advanced, RequestOK, Named, PastContent, PastVariant, PastMedia
  <2>2. HasContent(r.product) \in BOOLEAN
    BY <1>0, <1>3 DEF CheckContent, Check, At, HasContent, TypeOK
  <2> QED
    BY <1>3, <2>1, <2>2, CheckKeeps DEF CheckContent
<1>4. CASE CheckVariant(p)
  <2>1. At(p, "variant") /\ HasVariant(r.product)
            => \A s \in Request : Advanced(r, s, "media") => RequestOK(s)
    BY <1>0 DEF At, Advanced, RequestOK, Request, Stocked, PastContent, PastVariant, PastMedia
  <2> QED
    BY <1>0, <1>4, <2>1, CheckKeeps DEF CheckVariant, Check, HasVariant
<1>5. CASE CheckMedia(p)
  <2>1. At(p, "media") /\ HasMedia(r.product)
            => \A s \in Request : Advanced(r, s, "saving") => RequestOK(s)
    BY <1>0 DEF At, Advanced, RequestOK, Request, PastContent, PastVariant, PastMedia
  <2> QED
    BY <1>0, <1>5, <2>1, CheckKeeps DEF CheckMedia, Check, HasMedia
<1>6. CASE SaveActive(p)
  <2>1. request'[p] \in Request /\ Advanced(r, request'[p], "emitting")
    BY <1>0, <1>6 DEF SaveActive, GoTo, TypeOK, Request, Advanced, Point
  <2>2. OnlyRequest(p)
    BY <1>0, <1>6, <2>1
       DEF SaveActive, GoTo, OnlyRequest, At, Request, TypeOK, history, Point, Advanced
  <2>3. RequestOK(request'[p])
    BY <1>0, <1>6, <2>1
       DEF SaveActive, At, Advanced, RequestOK, PastContent, PastVariant, PastMedia
  <2>4. \A q \in Process : At(q, "emitting") => request[q].product # r.product
    BY <1>6 DEF SaveActive, Locked
  <2> QED
    BY <1>0, <1>6, <2>1, <2>2, <2>3, <2>4, RequestKeeps DEF SaveActive, Advanced
<1>7. CASE Die(p)
  <2>1. request'[p] = Idle
    BY <1>0, <1>7 DEF Die, End, TypeOK
  <2>2. OnlyRequest(p)
    BY <1>0, <1>7, <2>1 DEF Die, End, OnlyRequest, At, Idle, Request, TypeOK, Point
  <2> QED
    BY <2>1, <2>2, RequestKeeps DEF Idle, RequestOK, PastContent, PastVariant, PastMedia
<1>8. CASE StoreCategoriesFails(p)
  <2>1. request'[p] = Idle
    BY <1>0, <1>8 DEF StoreCategoriesFails, End, TypeOK
  <2>2. OnlyRequest(p)
    BY <1>0, <1>8, <2>1
       DEF StoreCategoriesFails, End, OnlyRequest, At, Idle, Request, TypeOK, Point
  <2> QED
    BY <2>1, <2>2, RequestKeeps DEF Idle, RequestOK, PastContent, PastVariant, PastMedia
<1> QED BY <1>1, <1>2, <1>3, <1>4, <1>5, <1>6, <1>7, <1>8 DEF Quiet
-----------------------------------------------------------------------------
(* Creation.                                                               *)

LEMMA CreateProductKeeps ==
    ASSUME PublicationInv, NEW p \in Process, NEW x \in Product, CreateProduct(p, x)
    PROVE  PublicationInv'
<1> USE PublicationAssumption DEF PublicationInv, CreateProduct, uploads, history, Exists
<1>1. /\ request'[p].at = "categorising" /\ request'[p].product = x
      /\ request[p].at = "idle"
      /\ \A q \in Process \ {p} : request'[q] = request[q]
      /\ \A y \in Product \ {x} : status'[y] = status[y]
      /\ status'[x] = "draft"
  BY DEF Begin, At, Idle, TypeOK
<1>2. TypeOK'
  BY <1>1 DEF TypeOK, Begin, Idle, Point
<1>3. UploadsOK' /\ EntriesOK'
  BY <1>1 DEF UploadsOK, EntriesOK, TypeOK
<1>4. RequestsOK'
  <2>1. ASSUME NEW q \in Process PROVE RequestOK(request'[q])
    BY <1>1 DEF RequestsOK, RequestOK, PastContent, PastVariant, PastMedia
  <2> QED
    BY <2>1 DEF RequestsOK, RequestOK, Named, Stocked, HasContent, HasVariant, HasMedia
<1>5. LocksOK'
  BY <1>1 DEF LocksOK, At
<1>6. ListedOK'
  BY <1>1 DEF ListedOK, Listed, Named, Stocked, HasContent, HasVariant
<1>7. EveryPublicationAnnounced' /\ VisibleDraftWasApproved'
  BY <1>1 DEF EveryPublicationAnnounced, VisibleDraftWasApproved, Listed
<1>8. UncategorisedNeedsFailure'
  BY <1>1 DEF UncategorisedNeedsFailure, At
<1> QED BY <1>2, <1>3, <1>4, <1>5, <1>6, <1>7, <1>8

LEMMA StoreCategoriesKeeps ==
    ASSUME PublicationInv, NEW p \in Process, StoreCategories(p) PROVE PublicationInv'
<1> USE PublicationAssumption DEF PublicationInv, StoreCategories, uploads, history
<1>1. /\ request'[p] = Idle
      /\ request[p].at = "categorising"
      /\ \A q \in Process \ {p} : request'[q] = request[q]
  BY DEF End, At, TypeOK
<1>2. TypeOK'
  BY <1>1 DEF TypeOK, End, Idle, Point
<1>3. UploadsOK' /\ EntriesOK'
  BY DEF UploadsOK, EntriesOK, Exists
<1>4. RequestsOK'
  <2>1. ASSUME NEW q \in Process PROVE RequestOK(request'[q])
    BY <1>1 DEF RequestsOK, RequestOK, PastContent, PastVariant, PastMedia, Idle
  <2> QED
    BY <2>1 DEF RequestsOK, RequestOK, Named, Stocked, HasContent, HasVariant, HasMedia
<1>5. LocksOK'
  BY <1>1 DEF LocksOK, At, Idle
<1>6. ListedOK' /\ EveryPublicationAnnounced' /\ VisibleDraftWasApproved'
  BY DEF ListedOK, Listed, Named, Stocked, HasContent, HasVariant,
         EveryPublicationAnnounced, VisibleDraftWasApproved
<1>7. UncategorisedNeedsFailure'
  BY <1>1 DEF UncategorisedNeedsFailure, At, Exists
<1> QED BY <1>2, <1>3, <1>4, <1>5, <1>6, <1>7

LEMMA CreateVariantKeeps ==
    ASSUME PublicationInv, NEW v \in Variant, NEW x \in Product, CreateVariant(v, x)
    PROVE  PublicationInv'
<1> USE PublicationAssumption DEF PublicationInv, CreateVariant, uploads, history
<1>1. /\ variant' \in [Variant -> Product \cup {NoProduct}]
      /\ \A y \in Product : (HasVariant(y) => HasVariant(y)') /\ (Stocked(y) => Stocked(y)')
  BY DEF TypeOK, HasVariant, Stocked
<1>2. TypeOK'
  BY <1>1 DEF TypeOK
<1>3. UploadsOK' /\ EntriesOK'
  BY DEF UploadsOK, EntriesOK, Exists
<1>4. RequestsOK'
  <2> SUFFICES ASSUME NEW q \in Process PROVE RequestOK(request[q])'
    BY DEF RequestsOK
  <2> DEFINE y == request[q].product
  <2>1. CASE request[q].at = "idle"
    BY <2>1 DEF RequestOK, PastContent, PastVariant, PastMedia
  <2>2. CASE request[q].at # "idle"
    <3>1. y \in Product
      BY <2>2 DEF TypeOK
    <3>2. (HasVariant(y) => HasVariant(y)') /\ (Stocked(y) => Stocked(y)')
      BY <1>1, <3>1
    <3>3. (HasContent(y) <=> HasContent(y)') /\ (Named(y) <=> Named(y)')
              /\ (HasMedia(y) <=> HasMedia(y)')
      BY DEF HasContent, Named, HasMedia
    <3> QED
      BY <3>2, <3>3 DEF RequestsOK, RequestOK
  <2> QED BY <2>1, <2>2
<1>5. LocksOK'
  BY DEF LocksOK, At
<1>6. ListedOK'
  BY <1>1 DEF ListedOK, Listed, Named, HasContent
<1>7. EveryPublicationAnnounced' /\ VisibleDraftWasApproved' /\ UncategorisedNeedsFailure'
  BY DEF EveryPublicationAnnounced, VisibleDraftWasApproved, UncategorisedNeedsFailure,
         Listed, Exists, At
<1> QED BY <1>2, <1>3, <1>4, <1>5, <1>6, <1>7
-----------------------------------------------------------------------------
(* Translations.                                                           *)

\* Requests keep their places; some are marked as disturbed.
Marked ==
    /\ request' \in [Process -> Request]
    /\ \A q \in Process :
          /\ request'[q].at = request[q].at
          /\ request'[q].product = request[q].product
          /\ request[q].disturbed => request'[q].disturbed

LEMMA MarkingMarks ==
    ASSUME TypeOK, request' = [q \in Process |-> request'[q]],
           \A q \in Process : \/ request'[q] = request[q]
                              \/ request'[q] = [request[q] EXCEPT !.disturbed = TRUE]
    PROVE  Marked
<1>1. request \in [Process -> Request]
  BY DEF TypeOK, Request
<1>2. ASSUME NEW q \in Process
      PROVE  /\ request'[q] \in Request
             /\ request'[q].at = request[q].at
             /\ request'[q].product = request[q].product
             /\ request[q].disturbed => request'[q].disturbed
  <2>1. ASSUME NEW r \in Request, NEW s, s = [r EXCEPT !.disturbed = TRUE]
        PROVE  /\ s \in Request /\ s.at = r.at /\ s.product = r.product
               /\ s.disturbed
    BY <2>1 DEF Request
  <2>2. request[q] \in Request
    BY <1>1
  <2> QED BY <2>1, <2>2
<1> QED BY <1>2 DEF Marked

LEMMA SetTranslationKeeps ==
    ASSUME PublicationInv, NEW x \in Product, NEW l \in Locale,
           NEW author \in {"human", "ai"}, SetTranslation(x, l, author)
    PROVE  PublicationInv'
<1> DEFINE new == [author |-> author, is_approved |-> author = "human"]
<1> USE PublicationAssumption
    DEF PublicationInv, SetTranslation, WriteEntry, catalog, uploads
<1>0. TypeOK
  OBVIOUS
<1>1. Marked
  <2>1. ASSUME NEW q \in Process
        PROVE  \/ request'[q] = request[q]
               \/ request'[q] = [request[q] EXCEPT !.disturbed = TRUE]
    OBVIOUS
  <2>2. request' = [q \in Process |-> request'[q]]
    OBVIOUS
  <2> QED
    BY <1>0, <2>1, <2>2, MarkingMarks
<1>2. /\ entry'[<<x, l>>] = new
      /\ \A n \in Product \X Locale \ {<<x, l>>} : entry'[n] = entry[n]
      /\ entry' \in [Product \X Locale -> [author : {"none", "human", "ai"},
                                           is_approved : BOOLEAN]]
  BY <1>0 DEF TypeOK
<1>3. TypeOK'
  BY <1>1, <1>2 DEF TypeOK, Marked, Request
<1>4. UploadsOK' /\ EntriesOK'
  BY <1>2 DEF UploadsOK, EntriesOK, Exists
<1>5. ASSUME NEW y \in Product, Named(y) PROVE Named(y)'
  BY <1>2, <1>5 DEF Named, HasContent, Draft
<1>6. ASSUME NEW q \in Process, NEW y \in Product, request[q].product = y,
             request[q].at \in PastContent, ~request'[q].disturbed,
             HasContent(y)
      PROVE  HasContent(y)'
  <2>1. CASE y = x /\ l = DefaultLocale
    <3>1. author # "ai"
      BY <1>6, <2>1 DEF Publishing, PastContent, TypeOK
    <3> QED BY <1>2, <2>1, <3>1 DEF HasContent
  <2>2. CASE ~(y = x /\ l = DefaultLocale)
    BY <1>2, <1>6, <2>2 DEF HasContent
  <2> QED BY <2>1, <2>2
<1>7. RequestsOK'
  <2> SUFFICES ASSUME NEW q \in Process PROVE RequestOK(request[q])'
    BY DEF RequestsOK
  <2> DEFINE y == request[q].product
  <2>1. CASE request[q].at = "idle"
    BY <1>1, <2>1 DEF Marked, RequestOK, PastContent, PastVariant, PastMedia
  <2>2. CASE request[q].at # "idle"
    <3>1. y \in Product
      BY <2>2 DEF TypeOK
    <3>2. (Stocked(y) <=> Stocked(y)') /\ (HasVariant(y) <=> HasVariant(y)')
              /\ (HasMedia(y) <=> HasMedia(y)')
      BY DEF Stocked, HasVariant, HasMedia
    <3>3. request[q].at \in PastContent => Named(y)'
      BY <1>5, <3>1 DEF RequestsOK, RequestOK
    <3>4. request[q].at \in PastContent /\ ~request'[q].disturbed => HasContent(y)'
      BY <1>1, <1>6, <3>1 DEF RequestsOK, RequestOK, Marked
    <3> QED
      BY <1>1, <3>2, <3>3, <3>4 DEF RequestsOK, RequestOK, Marked
  <2> QED BY <2>1, <2>2
<1>8. LocksOK'
  BY <1>1 DEF LocksOK, At, Marked
<1>9. ListedOK'
  BY <1>5 DEF ListedOK, Listed, Stocked, HasVariant
<1>10. EveryPublicationAnnounced' /\ UncategorisedNeedsFailure'
  BY <1>1 DEF EveryPublicationAnnounced, UncategorisedNeedsFailure, Listed, Exists, At, Marked
<1>11. VisibleDraftWasApproved'
  BY <1>2 DEF VisibleDraftWasApproved
<1> QED BY <1>3, <1>4, <1>7, <1>8, <1>9, <1>10, <1>11

LEMMA SaveApprovalKeeps ==
    ASSUME PublicationInv, NEW p \in Process, SaveApproval(p) PROVE PublicationInv'
<1> DEFINE n == <<request[p].product, request[p].locale>>
<1> USE PublicationAssumption DEF PublicationInv, SaveApproval, catalog, uploads
<1>0. TypeOK
  OBVIOUS
<1>1. /\ request[p].at = "approving" /\ request'[p] = Idle
      /\ \A q \in Process \ {p} : request'[q] = request[q]
  BY <1>0 DEF End, At, TypeOK
<1>2. /\ n \in Product \X Locale
      /\ entry[n] \in [author : {"none", "human", "ai"}, is_approved : BOOLEAN]
      /\ entry'[n] = [entry[n] EXCEPT !.is_approved = TRUE]
      /\ \A m \in Product \X Locale \ {n} : entry'[m] = entry[m]
      /\ entry' \in [Product \X Locale -> [author : {"none", "human", "ai"},
                                           is_approved : BOOLEAN]]
  <2>1. n \in Product \X Locale
    BY <1>0, <1>1 DEF TypeOK, Request
  <2>2. entry \in [Product \X Locale -> [author : {"none", "human", "ai"},
                                         is_approved : BOOLEAN]]
    BY <1>0 DEF TypeOK
  <2>3. entry' = [entry EXCEPT ![n].is_approved = TRUE]
    OBVIOUS
  <2> HIDE DEF n
  <2> QED BY <2>1, <2>2, <2>3
<1>3. TypeOK'
  BY <1>1, <1>2 DEF TypeOK, End, Idle, Point
<1>4. UploadsOK' /\ EntriesOK'
  BY <1>0, <1>1, <1>2 DEF UploadsOK, EntriesOK, Exists, TypeOK
<1>5. ASSUME NEW y \in Product
      PROVE  (Named(y) => Named(y)') /\ (HasContent(y) => HasContent(y)')
  BY <1>2 DEF Named, HasContent
<1>6. RequestsOK'
  <2> SUFFICES ASSUME NEW q \in Process \ {p}, request[q].at # "idle"
               PROVE  RequestOK(request[q])'
    BY <1>1 DEF RequestsOK, RequestOK, Idle, PastContent, PastVariant, PastMedia
  <2>1. request[q].product \in Product
    BY DEF TypeOK
  <2> QED
    BY <1>1, <1>5, <2>1
       DEF RequestsOK, RequestOK, Stocked, HasVariant, HasMedia
<1>7. LocksOK'
  BY <1>1 DEF LocksOK, At, Idle
<1>8. ListedOK'
  BY <1>5 DEF ListedOK, Listed, Stocked, HasVariant
<1>9. EveryPublicationAnnounced' /\ UncategorisedNeedsFailure'
  BY <1>1 DEF EveryPublicationAnnounced, UncategorisedNeedsFailure, Listed, Exists, At
<1>10. VisibleDraftWasApproved'
  <2>1. /\ n \in (vetted \cup overtaken)'
        /\ vetted \subseteq vetted' /\ overtaken \subseteq overtaken'
    OBVIOUS
  <2> QED BY <1>2, <2>1 DEF VisibleDraftWasApproved
<1> QED BY <1>3, <1>4, <1>6, <1>7, <1>8, <1>9, <1>10
-----------------------------------------------------------------------------
(* Publication, archiving and media.                                       *)

LEMMA EmitAndCommitKeeps ==
    ASSUME PublicationInv, NEW p \in Process, EmitAndCommit(p) PROVE PublicationInv'
<1> DEFINE x == request[p].product
<1> USE PublicationAssumption DEF PublicationInv, EmitAndCommit, Activate, uploads
<1>0. TypeOK
  OBVIOUS
<1>1. /\ request[p].at = "emitting" /\ request'[p] = Idle
      /\ \A q \in Process \ {p} : request'[q] = request[q]
      /\ x \in Product /\ status[x] # "absent"
      /\ outbox[x] = activations[x] /\ activations[x] < MaxPublications
  BY <1>0 DEF End, At, TypeOK, EveryPublicationAnnounced, LocksOK
<1>2. /\ status'[x] = "active"
      /\ \A y \in Product \ {x} : status'[y] = status[y]
      /\ activations'[x] = activations[x] + 1 /\ outbox'[x] = activations'[x]
      /\ \A y \in Product \ {x} :
            activations'[y] = activations[y] /\ outbox'[y] = outbox[y]
  BY <1>0, <1>1 DEF TypeOK
<1>3. TypeOK'
  <2>1. activations' \in [Product -> 0..MaxPublications]
            /\ outbox' \in [Product -> 0..MaxPublications]
    BY <1>0, <1>1 DEF TypeOK
  <2>2. \A y \in Product : status[y] # "absent" <=> status'[y] # "absent"
    BY <1>1, <1>2
  <2> QED
    BY <1>0, <1>1, <2>1, <2>2 DEF TypeOK, End, Idle, Point
<1>4. UploadsOK' /\ EntriesOK'
  BY <1>2 DEF UploadsOK, EntriesOK, Exists
<1>5. RequestsOK'
  <2>1. ASSUME NEW q \in Process PROVE RequestOK(request'[q])
    BY <1>1 DEF RequestsOK, RequestOK, PastContent, PastVariant, PastMedia, Idle
  <2> QED
    BY <2>1 DEF RequestsOK, RequestOK, Named, Stocked, HasContent, HasVariant, HasMedia
<1>6. LocksOK'
  <2>1. ASSUME NEW q \in Process, request'[q].at = "emitting"
        PROVE  /\ q # p /\ request'[q] = request[q]
               /\ request[q].product \in Product \ {x}
    BY <1>0, <1>1, <2>1 DEF LocksOK, At, Idle, TypeOK
  <2>2. ASSUME NEW q \in Process, request'[q].at = "emitting"
        PROVE  activations'[request'[q].product] < MaxPublications
    BY <1>2, <2>1, <2>2 DEF LocksOK, At
  <2> QED
    BY <2>1, <2>2 DEF LocksOK, At
<1>7. ListedOK'
  <2>1. Named(x) /\ Stocked(x)
    BY <1>1 DEF RequestsOK, RequestOK, PastContent, PastVariant
  <2> QED
    BY <1>2, <2>1 DEF ListedOK, Listed, Named, Stocked, HasContent, HasVariant
<1>8. EveryPublicationAnnounced'
  BY <1>0, <1>1, <1>2 DEF EveryPublicationAnnounced, Listed, TypeOK
<1>9. VisibleDraftWasApproved' /\ UncategorisedNeedsFailure'
  BY <1>1, <1>2 DEF VisibleDraftWasApproved, UncategorisedNeedsFailure, Exists, At
<1> QED BY <1>3, <1>4, <1>5, <1>6, <1>7, <1>8, <1>9

LEMMA ArchiveProductKeeps ==
    ASSUME PublicationInv, NEW x \in Product, ArchiveProduct(x) PROVE PublicationInv'
<1> USE PublicationAssumption
    DEF PublicationInv, ArchiveProduct, uploads, history, Exists
<1>1. /\ status'[x] = "archived" /\ status[x] # "absent"
      /\ \A y \in Product \ {x} : status'[y] = status[y]
  BY DEF TypeOK
<1>2. TypeOK'
  BY <1>1 DEF TypeOK
<1>3. UploadsOK' /\ EntriesOK'
  BY <1>1 DEF UploadsOK, EntriesOK
<1>4. RequestsOK' /\ LocksOK'
  BY DEF RequestsOK, RequestOK, Named, Stocked, HasContent, HasVariant, HasMedia,
         LocksOK, At
<1>5. ListedOK'
  BY <1>1 DEF ListedOK, Listed, Named, Stocked, HasContent, HasVariant
<1>6. EveryPublicationAnnounced' /\ VisibleDraftWasApproved' /\ UncategorisedNeedsFailure'
  BY <1>1 DEF EveryPublicationAnnounced, VisibleDraftWasApproved,
              UncategorisedNeedsFailure, Listed, At
<1> QED BY <1>2, <1>3, <1>4, <1>5, <1>6

\* What Disturb does to the publications of the products it is about.
LEMMA DisturbMarks ==
    ASSUME TypeOK, NEW xs, Disturb(xs)
    PROVE  /\ Marked
           /\ \A q \in Process : request[q].product \in xs
                 /\ request[q].at \in PastContent => request'[q].disturbed
<1>1. request \in [Process -> Request]
  BY DEF TypeOK, Request
<1>2. ASSUME NEW q \in Process
      PROVE  \/ request'[q] = request[q]
                  /\ ~(request[q].product \in xs /\ request[q].at \in PastContent)
             \/ request'[q] = [request[q] EXCEPT !.disturbed = TRUE]
  BY DEF Disturb, Publishing, PastContent
<1>3. request' = [q \in Process |-> request'[q]]
  BY DEF Disturb
<1>4. Marked
  BY <1>2, <1>3, MarkingMarks
<1>5. ASSUME NEW q \in Process, request[q].product \in xs, request[q].at \in PastContent
      PROVE  request'[q].disturbed
  BY <1>1, <1>2, <1>5 DEF Request
<1> QED BY <1>4, <1>5

LEMMA ArchiveVariantKeeps ==
    ASSUME PublicationInv, NEW v \in Variant, ArchiveVariant(v) PROVE PublicationInv'
<1> USE PublicationAssumption DEF PublicationInv, ArchiveVariant, uploads, history
<1>1. /\ Marked
      /\ \A q \in Process : request[q].product = variant[v]
            /\ request[q].at \in PastContent => request'[q].disturbed
  BY DisturbMarks
<1>2. TypeOK'
  BY <1>1 DEF TypeOK, Marked, Request
<1>3. UploadsOK' /\ EntriesOK'
  BY DEF UploadsOK, EntriesOK, Exists
<1>4. ASSUME NEW y \in Product
      PROVE  /\ Stocked(y) => Stocked(y)'
             /\ HasVariant(y) /\ y # variant[v] => HasVariant(y)'
             /\ (Named(y) => Named(y)') /\ (HasContent(y) => HasContent(y)')
             /\ HasMedia(y) => HasMedia(y)'
  BY DEF Stocked, HasVariant, Named, HasContent, HasMedia
<1>5. RequestsOK'
  <2> SUFFICES ASSUME NEW q \in Process, request[q].at # "idle"
               PROVE  RequestOK(request[q])'
    BY <1>1 DEF RequestsOK, RequestOK, Marked, PastContent, PastVariant, PastMedia
  <2>1. request[q].product \in Product
    BY DEF TypeOK
  <2> QED
    BY <1>1, <1>4, <2>1
       DEF RequestsOK, RequestOK, Marked, PastContent, PastVariant, PastMedia
<1>6. LocksOK'
  BY <1>1 DEF LocksOK, At, Marked
<1>7. ListedOK'
  BY <1>4 DEF ListedOK, Listed
<1>8. EveryPublicationAnnounced' /\ VisibleDraftWasApproved'
  BY DEF EveryPublicationAnnounced, VisibleDraftWasApproved, Listed
<1>9. UncategorisedNeedsFailure'
  BY <1>1 DEF UncategorisedNeedsFailure, Exists, At, Marked
<1> QED BY <1>2, <1>3, <1>5, <1>6, <1>7, <1>8, <1>9

LEMMA MediaStepKeeps ==
    ASSUME PublicationInv, MediaStep PROVE PublicationInv'
<1> DEFINE moved == {attached[u] : u \in {w \in Upload : attached'[w] # attached[w]}}
<1> USE PublicationAssumption DEF PublicationInv, MediaStep, catalog, history
<1>1. /\ Marked
      /\ \A q \in Process : request[q].product \in moved
            /\ request[q].at \in PastContent => request'[q].disturbed
  BY DisturbMarks
<1>2. TypeOK'
  BY <1>1 DEF TypeOK, Marked, Request
<1>3. /\ UploadsOK'
      /\ \A u \in Upload : upload[u] = "ready" => upload'[u] = "ready"
  BY DEF UploadsOK, Media!Next, Media!Create, Media!Accept, Media!Reject, Media!Attach
<1>4. ASSUME NEW y \in Product, HasMedia(y), y \notin moved PROVE HasMedia(y)'
  BY <1>3, <1>4 DEF HasMedia
<1>5. ASSUME NEW y \in Product
      PROVE  /\ (Stocked(y) => Stocked(y)') /\ (HasVariant(y) => HasVariant(y)')
             /\ (Named(y) => Named(y)') /\ (HasContent(y) => HasContent(y)')
  BY DEF Stocked, HasVariant, Named, HasContent
<1>6. RequestsOK'
  <2> SUFFICES ASSUME NEW q \in Process, request[q].at # "idle"
               PROVE  RequestOK(request[q])'
    BY <1>1 DEF RequestsOK, RequestOK, Marked, PastContent, PastVariant, PastMedia
  <2>1. request[q].product \in Product
    BY DEF TypeOK
  <2>2. request[q].at \in PastMedia => request[q].at \in PastContent
    BY DEF PastContent, PastMedia
  <2> HIDE DEF moved
  <2> QED
    BY <1>1, <1>4, <1>5, <2>1, <2>2 DEF RequestsOK, RequestOK, Marked
<1>7. EntriesOK' /\ ListedOK'
  BY <1>5 DEF EntriesOK, Exists, ListedOK, Listed
<1>8. LocksOK' /\ UncategorisedNeedsFailure'
  BY <1>1 DEF LocksOK, At, Marked, UncategorisedNeedsFailure, Exists
<1>9. EveryPublicationAnnounced' /\ VisibleDraftWasApproved'
  BY DEF EveryPublicationAnnounced, VisibleDraftWasApproved, Listed
<1> QED BY <1>2, <1>3, <1>6, <1>7, <1>8, <1>9

-----------------------------------------------------------------------------
LEMMA StutterKeeps == ASSUME PublicationInv, UNCHANGED vars PROVE PublicationInv'
<1> USE DEF PublicationInv, vars
<1>1. TypeOK' /\ UploadsOK' /\ EntriesOK'
  BY DEF TypeOK, UploadsOK, EntriesOK, Exists
<1>2. RequestsOK' /\ LocksOK' /\ ListedOK'
  BY DEF RequestsOK, RequestOK, Named, Stocked, HasContent, HasVariant, HasMedia,
         LocksOK, At, ListedOK, Listed
<1>3. EveryPublicationAnnounced' /\ VisibleDraftWasApproved' /\ UncategorisedNeedsFailure'
  BY DEF EveryPublicationAnnounced, VisibleDraftWasApproved,
         UncategorisedNeedsFailure, Listed, Exists, At
<1> QED BY <1>1, <1>2, <1>3

LEMMA InvariantHolds == Spec => []PublicationInv
<1>1. ASSUME PublicationInv, Next PROVE PublicationInv'
  <2>1. ASSUME NEW p \in Process, ProductPublishView(p) PROVE PublicationInv'
    BY <1>1, <2>1, QuietKeeps, EmitAndCommitKeeps DEF ProductPublishView, Quiet
  <2>2. ASSUME NEW p \in Process, ApproveTranslation(p) PROVE PublicationInv'
    BY <1>1, <2>2, QuietKeeps, SaveApprovalKeeps DEF ApproveTranslation, Quiet
  <2>3. ASSUME NEW p \in Process, StoreCategoriesFails(p) \/ Die(p) PROVE PublicationInv'
    BY <1>1, <2>3, QuietKeeps DEF Quiet
  <2> QED
    BY <1>1, <2>1, <2>2, <2>3, CreateProductKeeps, StoreCategoriesKeeps,
       CreateVariantKeeps, SetTranslationKeeps, ArchiveProductKeeps,
       ArchiveVariantKeeps, MediaStepKeeps
       DEF Next
<1>2. PublicationInv /\ [Next]_vars => PublicationInv'
  BY <1>1, StutterKeeps
<1> QED BY <1>2, InitHolds, PTL DEF Spec

\* Every variable keeps its type, for all products, variants, locales, uploads
\* and processes; a request is about a product that exists.
THEOREM PublicationTypeCorrect == Spec => []TypeOK
BY InvariantHolds, PTL DEF PublicationInv

\* The outbox holds one event for every publication that committed (emit_event
\* in the transaction of publish_product).
THEOREM PublicationAnnounced == Spec => []EveryPublicationAnnounced
BY InvariantHolds, PTL DEF PublicationInv

\* A publication that nothing was withdrawn from has all three preconditions
\* when it writes the status.
THEOREM PublicationComplete == Spec => []IncompleteNeedsWithdrawal
<1>1. PublicationInv => IncompleteNeedsWithdrawal
  BY DEF PublicationInv, RequestsOK, RequestOK, IncompleteNeedsWithdrawal, Complete,
         PastContent, PastVariant, PastMedia
<1> QED BY <1>1, InvariantHolds, PTL

\* A listed product without a name has an AI draft in its place, and one
\* without a price has archived variants.
THEOREM PublicationBlank == Spec => []BlankNeedsWithdrawal
<1>1. PublicationInv => BlankNeedsWithdrawal
  <2> SUFFICES ASSUME PublicationInv, NEW x \in Listed
               PROVE  /\ \A l \in Locale : Page(x, l).name = "none" =>
                            entry[<<x, DefaultLocale>>] = Draft
                      /\ Page(x, DefaultLocale).priced
                            \/ \E v \in archived : variant[v] = x
    BY Zenon DEF BlankNeedsWithdrawal, Draft
  <2>1. Named(x) /\ Stocked(x)
    BY DEF PublicationInv, ListedOK
  <2>2. ASSUME NEW l \in Locale, Page(x, l).name = "none"
        PROVE  entry[<<x, DefaultLocale>>] = Draft
    BY <2>1, <2>2, PublicationAssumption DEF Page, ShownIn, Named
  <2>3. Page(x, DefaultLocale).priced \/ \E v \in archived : variant[v] = x
    BY <2>1 DEF Page, Stocked
  <2> QED BY <2>2, <2>3
<1> QED BY <1>1, InvariantHolds, PTL

\* An AI draft that is visible was approved, as it is or as it was before a
\* write that the approval overtook.
THEOREM PublicationDraftApproved == Spec => []VisibleDraftWasApproved
BY InvariantHolds, PTL DEF PublicationInv

\* Only a creation that is under way, died or was refused its rows leaves a
\* product without its categories.
THEOREM PublicationCategorised == Spec => []UncategorisedNeedsFailure
BY InvariantHolds, PTL DEF PublicationInv
===============================================================================
