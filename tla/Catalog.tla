------------------------------ MODULE Catalog ------------------------------
(***************************************************************************)
(* The catalog of one live store: its product rows, and the content the    *)
(* storefront is rendered from, which repeats them (app/engine.py,         *)
(* app/main.py, app/dashboard.py, app/imagery.py).  Every edit loads the   *)
(* store, works for a while (screening, generation, vision) and then       *)
(* writes the whole content; resync_catalog() rebuilds it from the rows.   *)
(*                                                                         *)
(* Abstractions: ids grow in order of creation; of a content item only its *)
(* id and photograph are kept, and a photograph is known by the product it *)
(* was found or verified for.                                              *)
(***************************************************************************)
EXTENDS Server, SequencesExt

CONSTANTS
  MaxItems,   \* product rows of the store, at most
  EditOps     \* the operations its merchant uses

ASSUME CatalogAssumption ==
  /\ MaxItems \in Nat /\ MaxItems > 0
  /\ EditOps \subseteq {"add", "pause", "resume", "rename", "photo", "unphoto", "copy", "upgrade"}

Items == 1..MaxItems

VARIABLES
  row,       \* products: none, active or inactive
  content,   \* store.content["products"]
  source,    \* what the last write of content was made from: rows or a copy
  search,    \* the imagery thread: where it is, and the photographs it found
  catReq     \* locals of the requests in flight

catalogVars == <<row, content, source, search, catReq>>

-----------------------------------------------------------------------------

Active(rows) == {i \in Items : rows[i] = "active"}
Listed(cont) == {cont[k].id : k \in DOMAIN cont}
PhotoOf(cont, i) ==
  IF i \in Listed(cont) THEN (CHOOSE k \in ToSet(cont) : k.id = i).photo ELSE None

\* ORDER BY Product.id
InIdOrder(S) ==
  CHOOSE ids \in [1..Cardinality(S) -> S] : \A j, k \in DOMAIN ids : j < k => ids[j] < ids[k]

\* resync_catalog(): one item per active row in id order, its extras by id.
Resync(rows, cont) ==
  LET ids == InIdOrder(Active(rows)) IN
  [k \in DOMAIN ids |-> [id |-> ids[k], photo |-> PhotoOf(cont, ids[k])]]

\* imagery.apply(): the photographs are attached by position.
ApplyImagery(cont, found) ==
  [k \in DOMAIN cont |-> [cont[k] EXCEPT !.photo = IF k \in DOMAIN found THEN found[k] ELSE None]]

SetPhoto(cont, i, photo) ==
  [k \in DOMAIN cont |-> IF cont[k].id = i THEN [cont[k] EXCEPT !.photo = photo] ELSE cont[k]]

NoCatReq == [op |-> "none", item |-> 1, content |-> <<>>]
CatalogDone(w) == catReq' = [catReq EXCEPT ![w] = NoCatReq]

\* A route loads the store and its product; what it awaits next may fail.
CatalogLoad(w, op, i) ==
  /\ catReq[w].op = "none"
  /\ CASE op = "add" -> row[i] = "none" /\ \A j \in 1..(i - 1) : row[j] # "none"
       [] op = "pause" -> row[i] = "active"
       [] op = "resume" -> row[i] = "inactive"
       [] op \in {"rename", "photo", "unphoto"} -> row[i] # "none"
       [] OTHER -> i = 1
  /\ catReq' = [catReq EXCEPT ![w] = [op |-> op, item |-> i, content |-> content]]
  /\ UNCHANGED <<row, content, source, search>>

\* Screening blocks it, generation or the vision check does not answer.
CatalogRefused(w) ==
  /\ catReq[w].op \in {"add", "rename", "copy", "photo", "upgrade"} /\ CatalogDone(w)
  /\ UNCHANGED <<row, content, source, search>>

\* Mutant of RowCommit: the page is rebuilt from the rows before the edit.
RowCommitStale(w) ==
  LET r == catReq[w] IN
  /\ r.op \in {"add", "pause", "resume", "rename"}
  /\ row' = [row EXCEPT ![r.item] = IF r.op = "pause" THEN "inactive"
                                    ELSE IF r.op = "rename" THEN @ ELSE "active"]
  /\ content' = Resync(row, r.content) /\ source' = "rows"
  /\ CatalogDone(w) /\ UNCHANGED search

\* _run_add_product(), merchant_add_product() and merchant_edit_product(): the
\* row is written first, so that the rows are read under the write lock.
RowCommit(w) ==
  LET r == catReq[w] IN
  /\ r.op \in {"add", "pause", "resume", "rename"}
  /\ row' = [row EXCEPT ![r.item] = IF r.op = "pause" THEN "inactive"
                                    ELSE IF r.op = "rename" THEN @ ELSE "active"]
  /\ content' = Resync(row', r.content) /\ source' = "rows"
  /\ CatalogDone(w) /\ UNCHANGED search

\* merchant_edit_product() with nothing but a blurb: no row is written, and the
\* rows are read before the page is rendered.
BlurbRead(w) ==
  /\ catReq[w].op = "none"
  /\ catReq' = [catReq EXCEPT ![w] = [op |-> "blurb", item |-> 1,
                                      content |-> Resync(row, content)]]
  /\ UNCHANGED <<row, content, source, search>>

\* update_store_copy() after _screen_copy(), and that blurb: the content that
\* was loaded is written back whole.
CopyCommit(w) ==
  LET r == catReq[w] IN
  /\ r.op \in {"copy", "blurb"} /\ content' = r.content /\ source' = "copy"
  /\ CatalogDone(w) /\ UNCHANGED <<row, search>>

\* merchant_set_product_image() of a verified photograph, or its removal:
\* normalised, edited, and resynced after the flush.
ImageCommit(w) ==
  LET r == catReq[w]
      photo == IF r.op = "photo" THEN r.item ELSE None IN
  /\ r.op \in {"photo", "unphoto"}
  /\ content' = Resync(row, SetPhoto(Resync(row, r.content), r.item, photo))
  /\ source' = "rows" /\ CatalogDone(w) /\ UNCHANGED <<row, search>>

\* upgrade_store(): generated content, resynced, and photographs searched for
\* the resynced items inside the transaction.
UpgradeCommit(w) ==
  /\ catReq[w].op = "upgrade"
  /\ \E found \in SUBSET Active(row) :
       content' = [k \in DOMAIN Resync(row, <<>>) |->
                     LET i == Resync(row, <<>>)[k].id IN
                     [id |-> i, photo |-> IF i \in found THEN i ELSE None]]
  /\ source' = "rows" /\ CatalogDone(w) /\ UNCHANGED <<row, search>>

\* _resolve_imagery_async(), started when the store was created: it reads the
\* content, searches a photograph for each item in turn,
SearchImagery ==
  /\ search.step = "todo"
  /\ \E hits \in SUBSET DOMAIN content :
       search' = [step |-> "apply", found |->
                  [k \in DOMAIN content |-> IF k \in hits THEN content[k].id ELSE None]]
  /\ UNCHANGED <<row, content, source, catReq>>

\* and applies what it found to the content of that moment, or found nothing.
AttachImagery ==
  /\ search.step = "apply"
  /\ content' \in {ApplyImagery(content, search.found), content}
  /\ search' = [step |-> "done", found |-> <<>>] /\ UNCHANGED <<row, source, catReq>>

CatalogInit ==
  /\ row = [i \in Items |-> IF i < MaxItems THEN "active" ELSE "none"]
  /\ content = Resync(row, <<>>) /\ source = "rows"
  /\ search = [step |-> "todo", found |-> <<>>]
  /\ catReq = [w \in Threads |-> NoCatReq]

CatalogNext ==
  \/ SearchImagery \/ AttachImagery
  \/ \E w \in Threads :
       \/ \E op \in EditOps, i \in Items : CatalogLoad(w, op, i)
       \/ BlurbRead(w) \/ CatalogRefused(w)
       \/ RowCommit(w) \/ CopyCommit(w) \/ ImageCommit(w) \/ UpgradeCommit(w)

CatalogSpec == CatalogInit /\ [][CatalogNext]_catalogVars

-----------------------------------------------------------------------------
(* Properties *)

ContentItems == [id : Items, photo : Items \cup {None}]

CatalogTypeOK ==
  /\ row \in [Items -> {"none", "active", "inactive"}]
  /\ content \in BoundedSeq(ContentItems, MaxItems) /\ source \in {"rows", "copy"}
  /\ search.step \in {"todo", "apply", "done"}
  /\ search.found \in BoundedSeq(Items \cup {None}, MaxItems)
  /\ \A w \in Threads : catReq[w].op \in EditOps \cup {"none", "blurb"}
                        /\ catReq[w].content \in BoundedSeq(ContentItems, MaxItems)

\* After an edit that resyncs, the page sells the active products and nothing
\* else, whatever stale content the edit had loaded: the rows are read under
\* the write lock (app/engine.py:664-670).
ResyncHeals ==
  source = "rows" => Listed(content) = Active(row)

(* Statements of the repository that the code does not keep (README). *)

\* A product that was taken off sale is not offered: the copy edit leaves the
\* catalog untouched (app/dashboard.py:530-534).
PausedNotListed ==
  Listed(content) \subseteq Active(row)

\* A photograph shows the product it was found for: a catalog edit during the
\* search is not undone, photos attach per product id (app/engine.py:1721-1731).
PhotoDepicts ==
  \A k \in DOMAIN content : content[k].photo \in {None, content[k].id}

=============================================================================
