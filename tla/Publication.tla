----------------------------- MODULE Publication -----------------------------
(***************************************************************************)
(* How a product becomes visible: its creation, the translations of its    *)
(* name, its variants, its media, publication with the outbox event,       *)
(* archiving, and what the storefront shows.                               *)
(*                                                                         *)
(* publish_product checks its three preconditions by three reads, outside  *)
(* the transaction that writes the status and the event.  The uploads are  *)
(* those of UploadLifecycle, which MediaPipeline implements; of the other  *)
(* products it matters only that an upload may be moved to one.            *)
(***************************************************************************)
EXTENDS Naturals

CONSTANTS
    Product,
    Variant,       \* bound: the variants that may be created
    Process,       \* web processes and workers, one request at a time each
    Locale, DefaultLocale,
    MaxPublications,   \* bound: publications of one product
    Upload, Elsewhere, \* Elsewhere: any product not in Product
    NoProduct

ASSUME PublicationAssumption ==
    /\ DefaultLocale \in Locale /\ "none" \notin Locale
    /\ MaxPublications \in Nat
    /\ Elsewhere \notin Product
    /\ NoProduct \notin Product \cup {Elsewhere}

VARIABLES
    status,        \* Product -> no row, or Product.status ("inactive" is never set)
    categorised,   \* the products whose ProductCategory rows were inserted
    variant,       \* Variant -> Variant.product, NoProduct while there is no row
    archived,      \* the variants with is_archived
    entry,         \* Product, Locale -> the TranslationEntry of the name
    outbox,        \* Product -> OutboxEvent rows of ProductPublished
    upload, served, attached,   \* the uploads, see UploadLifecycle
    request,       \* Process -> the request it serves
    activations,   \* history: Product -> committed writes of status "active"
    vetted,        \* history: names an approval read as they are and approved
    overtaken,     \* history: names written between an approval's read and save
    abandoned      \* history: products whose creation failed or died after the
                   \* first commit

catalog == <<status, categorised, variant, archived>>
uploads == <<upload, served, attached>>
history == <<activations, vetted, overtaken, abandoned>>
vars == <<status, categorised, variant, archived, entry, outbox, upload, served,
          attached, request, activations, vetted, overtaken, abandoned>>

Media == INSTANCE UploadLifecycle WITH
    Content <- {"image"}, Derivative <- {"thumbnail"}, NoContent <- "none",
    Acceptable <- Upload \X {"image"}, Product <- Product \cup {Elsewhere},
    state <- upload, owner <- attached

NoEntry == [author |-> "none", is_approved |-> FALSE]

Idle == [at |-> "idle", product |-> NoProduct, locale |-> DefaultLocale,
         disturbed |-> FALSE]

Point == {"idle", "categorising", "content", "variant", "media", "saving",
          "emitting", "approving"}

TypeOK ==
    /\ status \in [Product -> {"absent", "draft", "active", "archived"}]
    /\ categorised \subseteq {x \in Product : status[x] # "absent"}
    /\ variant \in [Variant -> Product \cup {NoProduct}]
    /\ archived \subseteq {v \in Variant : variant[v] # NoProduct}
    /\ entry \in [Product \X Locale -> [author : {"none", "human", "ai"},
                                        is_approved : BOOLEAN]]
    /\ outbox \in [Product -> 0..MaxPublications]
    /\ request \in [Process -> [at : Point, product : Product \cup {NoProduct},
                                locale : Locale, disturbed : BOOLEAN]]
    /\ activations \in [Product -> 0..MaxPublications]
    /\ vetted \subseteq Product \X Locale
    /\ overtaken \subseteq Product \X Locale
    /\ abandoned \subseteq Product
    /\ \A p \in Process :
        request[p].at # "idle" => /\ request[p].product \in Product
                                  /\ status[request[p].product] # "absent"

Init ==
    /\ status = [x \in Product |-> "absent"]
    /\ categorised = {}
    /\ variant = [v \in Variant |-> NoProduct]
    /\ archived = {}
    /\ entry = [n \in Product \X Locale |-> NoEntry]
    /\ outbox = [x \in Product |-> 0]
    /\ Media!Init
    /\ request = [p \in Process |-> Idle]
    /\ activations = [x \in Product |-> 0]
    /\ vetted = {}
    /\ overtaken = {}
    /\ abandoned = {}

-----------------------------------------------------------------------------
(* Requests.                                                               *)

At(p, at) == request[p].at = at

Begin(p, at, x, l) ==
    /\ At(p, "idle")
    /\ request' = [request EXCEPT ![p] = [Idle EXCEPT !.at = at, !.product = x,
                                                      !.locale = l]]

GoTo(p, at) == request' = [request EXCEPT ![p].at = at]
End(p) == request' = [request EXCEPT ![p] = Idle]

Exists(x) == status[x] # "absent"

\* The open transaction of a publication has the product's row locked.
Locked(x) == \E p \in Process : At(p, "emitting") /\ request[p].product = x

Publishing(p, x) ==
    /\ request[p].product = x
    /\ request[p].at \in {"content", "variant", "media", "saving", "emitting"}

\* Something publication depends on was withdrawn under these publications.
Disturb(xs) ==
    request' = [p \in Process |->
        IF \E x \in xs : Publishing(p, x)
        THEN [request[p] EXCEPT !.disturbed = TRUE] ELSE request[p]]

-----------------------------------------------------------------------------
(* Creating products and variants.                                         *)

\* Product.objects.create of create_product commits on its own.
CreateProduct(p, x) ==
    /\ ~Exists(x)
    /\ status' = [status EXCEPT ![x] = "draft"]
    /\ Begin(p, "categorising", x, DefaultLocale)
    /\ UNCHANGED <<categorised, variant, archived, entry, outbox, uploads, history>>

\* Slip: without a list of categories none is stored.
StoreNoCategory(p) ==
    /\ At(p, "categorising")
    /\ End(p)
    /\ UNCHANGED <<catalog, entry, outbox, uploads, history>>

\* ProductCategory.objects.bulk_create, the primary category among them.
StoreCategories(p) ==
    /\ At(p, "categorising")
    /\ categorised' = categorised \cup {request[p].product}
    /\ End(p)
    /\ UNCHANGED <<status, variant, archived, entry, outbox, uploads, history>>

\* unique_product_category refuses the rows of a list that names a category
\* twice: the caller gets an IntegrityError, the product is committed.
StoreCategoriesFails(p) ==
    /\ At(p, "categorising")
    /\ End(p)
    /\ abandoned' = abandoned \cup {request[p].product}
    /\ UNCHANGED <<catalog, entry, outbox, uploads, activations, vetted, overtaken>>

CreateVariant(v, x) ==
    /\ Exists(x)
    /\ variant[v] = NoProduct
    /\ variant' = [variant EXCEPT ![v] = x]
    /\ UNCHANGED <<status, categorised, archived, entry, outbox, uploads,
                   request, history>>

-----------------------------------------------------------------------------
(* Translations.                                                           *)

\* update_or_create of the entry in one transaction.  An AI draft takes an
\* approved name away.
WriteEntry(x, l, author, approved) ==
    /\ Exists(x)
    /\ entry' = [entry EXCEPT ![<<x, l>>] = [author |-> author, is_approved |-> approved]]
    /\ request' = [p \in Process |->
          IF \/ Publishing(p, x) /\ l = DefaultLocale /\ author = "ai"
             \/ At(p, "approving") /\ request[p].product = x /\ request[p].locale = l
          THEN [request[p] EXCEPT !.disturbed = TRUE] ELSE request[p]]
    /\ vetted' = vetted \ {<<x, l>>}
    /\ overtaken' = overtaken \ {<<x, l>>}
    /\ UNCHANGED <<catalog, outbox, uploads, activations, abandoned>>

\* Slip: is_approved is not among the defaults that overwrite an entry.
SetKeepingApproval(x, l, author) ==
    WriteEntry(x, l, author, author = "human" \/ entry[<<x, l>>].is_approved)

SetTranslation(x, l, author) == WriteEntry(x, l, author, author = "human")

\* TranslationEntry.objects.get of approve_translation.
ReadEntry(p, x, l) ==
    /\ entry[<<x, l>>] # NoEntry
    /\ Begin(p, "approving", x, l)
    /\ UNCHANGED <<catalog, entry, outbox, uploads, history>>

\* entry.save(update_fields=["is_approved", "updated_at"])
SaveApproval(p) ==
    LET name == <<request[p].product, request[p].locale>>
    IN /\ At(p, "approving")
       /\ entry' = [entry EXCEPT ![name].is_approved = TRUE]
       /\ IF request[p].disturbed
          THEN overtaken' = overtaken \cup {name} /\ UNCHANGED vetted
          ELSE vetted' = vetted \cup {name} /\ UNCHANGED overtaken
       /\ End(p)
       /\ UNCHANGED <<catalog, outbox, uploads, activations, abandoned>>

-----------------------------------------------------------------------------
(* Publication.                                                            *)

\* Slip: a product that does not exist is not answered with 404.
LoadAny(p, x) ==
    /\ Begin(p, "content", x, DefaultLocale)
    /\ UNCHANGED <<catalog, entry, outbox, uploads, history>>

\* ProductPublishView loads the product, whatever its status.
LoadProduct(p, x) ==
    /\ Exists(x)
    /\ Begin(p, "content", x, DefaultLocale)
    /\ UNCHANGED <<catalog, entry, outbox, uploads, history>>

HasContent(x) == entry[<<x, DefaultLocale>>].is_approved
HasVariant(x) == \E v \in Variant \ archived : variant[v] = x
HasMedia(x) == \E u \in Upload : upload[u] = "ready" /\ attached[u] = x

Check(p, at, ok, then) ==
    /\ At(p, at)
    /\ IF ok THEN GoTo(p, then) ELSE End(p)
    /\ UNCHANGED <<catalog, entry, outbox, uploads, history>>

\* Slip: the look-up is not restricted to the default locale.
CheckContentAnywhere(p) ==
    Check(p, "content", \E l \in Locale : entry[<<request[p].product, l>>].is_approved,
          "variant")

\* Slip: archived variants count.
CheckAnyVariant(p) ==
    Check(p, "variant", \E v \in Variant : variant[v] = request[p].product, "media")

CheckContent(p) == Check(p, "content", HasContent(request[p].product), "variant")
CheckVariant(p) == Check(p, "variant", HasVariant(request[p].product), "media")
CheckMedia(p) == Check(p, "media", HasMedia(request[p].product), "saving")

Activate(x) ==
    /\ status' = [status EXCEPT ![x] = "active"]
    /\ activations' = [activations EXCEPT ![x] = @ + 1]
    /\ UNCHANGED <<categorised, variant, archived, entry, uploads, vetted,
                   overtaken, abandoned>>

\* product.save in the transaction takes the row's lock.
SaveActive(p) ==
    /\ At(p, "saving")
    /\ ~Locked(request[p].product)
    /\ activations[request[p].product] < MaxPublications
    /\ GoTo(p, "emitting")
    /\ UNCHANGED <<catalog, entry, outbox, uploads, history>>

\* emit_event and the commit.
EmitAndCommit(p) ==
    /\ At(p, "emitting")
    /\ outbox' = [outbox EXCEPT ![request[p].product] = @ + 1]
    /\ Activate(request[p].product)
    /\ End(p)

-----------------------------------------------------------------------------
(* Archiving and media.                                                    *)

ArchiveProduct(x) ==
    /\ Exists(x)
    /\ ~Locked(x)
    /\ status' = [status EXCEPT ![x] = "archived"]
    /\ UNCHANGED <<categorised, variant, archived, entry, outbox, uploads,
                   request, history>>

ArchiveVariant(v) ==
    /\ variant[v] # NoProduct
    /\ archived' = archived \cup {v}
    /\ Disturb({variant[v]})
    /\ UNCHANGED <<status, categorised, variant, entry, outbox, uploads, history>>

\* An upload is attached to a product that exists, and leaves another.
MediaStep ==
    /\ Media!Next
    /\ \A u \in Upload : attached'[u] \in Product => Exists(attached'[u])
    /\ Disturb({attached[u] : u \in {w \in Upload : attached'[w] # attached[w]}})
    /\ UNCHANGED <<catalog, entry, outbox, history>>

\* Slip: without a transaction a status written before the death stays.
DieHalfway(p) ==
    /\ At(p, "emitting")
    /\ Activate(request[p].product)
    /\ End(p)
    /\ UNCHANGED outbox

\* A process dies: an open transaction is rolled back.
Die(p) ==
    /\ ~At(p, "idle")
    /\ End(p)
    /\ abandoned' = IF At(p, "categorising")
                    THEN abandoned \cup {request[p].product} ELSE abandoned
    /\ UNCHANGED <<catalog, entry, outbox, uploads, activations, vetted, overtaken>>

-----------------------------------------------------------------------------
ProductPublishView(p) ==
    \/ \E x \in Product : LoadProduct(p, x)
    \/ CheckContent(p)
    \/ CheckVariant(p)
    \/ CheckMedia(p)
    \/ SaveActive(p)
    \/ EmitAndCommit(p)

ApproveTranslation(p) ==
    (\E x \in Product, l \in Locale : ReadEntry(p, x, l)) \/ SaveApproval(p)

Next ==
    \/ \E p \in Process :
        \/ \E x \in Product : CreateProduct(p, x)
        \/ StoreCategories(p)
        \/ StoreCategoriesFails(p)
        \/ ApproveTranslation(p)
        \/ ProductPublishView(p)
        \/ Die(p)
    \/ \E x \in Product :
        \/ \E v \in Variant : CreateVariant(v, x)
        \/ \E l \in Locale, author \in {"human", "ai"} : SetTranslation(x, l, author)
        \/ ArchiveProduct(x)
    \/ \E v \in Variant : ArchiveVariant(v)
    \/ MediaStep

Spec == Init /\ [][Next]_vars

-----------------------------------------------------------------------------
(* What the storefront shows.                                              *)

\* get_localized_field: the locale the name is shown in, "none" without one.
ShownIn(x, l) ==
    IF entry[<<x, l>>].is_approved THEN l
    ELSE IF HasContent(x) THEN DefaultLocale ELSE "none"

\* What ProductListView and ProductDetailView serve.
Listed == {x \in Product : status[x] = "active"}

\* _serialize_product; base_price_vnd is null without a sellable variant.
Page(x, l) == [name |-> ShownIn(x, l), priced |-> HasVariant(x)]

-----------------------------------------------------------------------------
(* Properties.                                                             *)

Complete(x) == HasContent(x) /\ HasVariant(x) /\ HasMedia(x)

\* "A committed state change and its outbox row can never diverge"
\* (outbox.py:4): one event for every publication that committed, wherever a
\* process dies and however archiving and other publications interleave.
EveryPublicationAnnounced ==
    \A x \in Product :
        /\ outbox[x] = activations[x]
        /\ x \in Listed => outbox[x] > 0

\* The three preconditions are read one after the other and never again: they
\* hold together when the status is written unless a variant was archived, an
\* AI draft replaced the name or an upload was moved during the request.
IncompleteNeedsWithdrawal ==
    \A p \in Process :
        request[p].at \in {"saving", "emitting"} /\ ~request[p].disturbed =>
            Complete(request[p].product)

\* "A Customer must never see a blank page because one locale is missing
\* content" (get_localized_field.py:3): a listed product has a name in every
\* locale unless an AI draft has replaced the name publication relied on.  It
\* has a price unless its variants were archived.
BlankNeedsWithdrawal ==
    \A x \in Listed :
        /\ \A l \in Locale : Page(x, l).name = "none" =>
              entry[<<x, DefaultLocale>>] = [author |-> "ai", is_approved |-> FALSE]
        /\ Page(x, DefaultLocale).priced
              \/ \E v \in archived : variant[v] = x

\* "The sole way an AI-generated draft becomes visible" (approve_translation.py:3)
\* is an approval of the text shown, or of the one that a write between the
\* approval's read and its save has replaced.
VisibleDraftWasApproved ==
    \A x \in Product, l \in Locale :
        entry[<<x, l>>] = [author |-> "ai", is_approved |-> TRUE] =>
            <<x, l>> \in vetted \cup overtaken

\* create_product commits the product before its categories: a product is
\* without all of them while it is created, and for good when the process dies
\* in between or the rows are refused; never after a creation that succeeded.
UncategorisedNeedsFailure ==
    \A x \in Product :
        Exists(x) /\ x \notin categorised =>
            \/ x \in abandoned
            \/ \E p \in Process : At(p, "categorising") /\ request[p].product = x
=============================================================================
