---------------------------- MODULE CreateStore ----------------------------
(***************************************************************************)
(* The paid POST /create-store (app/main.py, app/engine.py): look the      *)
(* Idempotency-Key up, generate, screen, pick a slug, write its directory, *)
(* insert the store, and only then have the middleware settle the payment. *)
(* A failed settlement runs a hook that quarantines the store of that      *)
(* nonce; a restart screens the pending stores again.                      *)
(*                                                                         *)
(* Abstractions: one paying wallet, whose keys are in Keys; the slugs of   *)
(* all descriptions collide, so that any free one may be picked; a slug's  *)
(* directory exists or does not; an authorization nonce is charged once.   *)
(***************************************************************************)
EXTENDS Server

CONSTANTS
  Slugs, Keys,
  Pays       \* x402 payments, by authorization nonce

ASSUME CreateStoreAssumption == None \notin Slugs \cup Keys \cup Pays

VARIABLES
  store,     \* stores, by their unique slug
  dir,       \* directories under STORES_DIR
  settled,   \* nonces charged on chain, with the key of the request
  creq       \* locals of the requests in flight

createVars == <<store, dir, settled, creq>>

-----------------------------------------------------------------------------

\* paid: the settlement of this very request was confirmed to it.
\* quarantined: store.settle_failed is in the event log.
StoreRow == [status : {"none", "live", "pending_screening", "blocked"},
             key : Keys \cup {None}, pay : Pays \cup {None},
             paid : BOOLEAN, quarantined : BOOLEAN]

NoStore == [status |-> "none", key |-> None, pay |-> None, paid |-> FALSE, quarantined |-> FALSE]

NoCreate == [step |-> "idle", pay |-> None, key |-> None, slug |-> None,
             verdict |-> "allow", attempt |-> 0]

CreateDone(w) == creq' = [creq EXCEPT ![w] = NoCreate]

Spent(pay) == \E c \in settled : c[1] = pay

\* _idempotency_holder() and the route's pre-check.
Holders(key) == {s \in Slugs : key # None /\ store[s].key = key}

\* create_store_post(): a key that already funded a store is answered 409, and
\* nothing is charged; a nonce spent on chain does not pass the paywall.
CreatePost(w, pay, key) ==
  /\ creq[w].step = "idle" /\ ~Spent(pay) /\ Holders(key) = {}
  /\ creq' = [creq EXCEPT ![w] = [NoCreate EXCEPT !.step = "generate", !.pay = pay, !.key = key]]
  /\ UNCHANGED <<store, dir, settled>>

\* The model writes the store, or the outage is a 503.
Generate(w) ==
  /\ creq[w].step = "generate"
  /\ creq' \in {[creq EXCEPT ![w].step = "screen"], [creq EXCEPT ![w] = NoCreate]}
  /\ UNCHANGED <<store, dir, settled>>

\* screen(): ALLOW, BLOCK, which ends in 422, or no answer: pending.
Screen(w) ==
  /\ creq[w].step = "screen"
  /\ \/ \E v \in {"allow", "pending"} :
          creq' = [creq EXCEPT ![w].step = "slug", ![w].verdict = v]
     \/ CreateDone(w)
  /\ UNCHANGED <<store, dir, settled>>

\* unique_slug(): neither a directory nor a row has it.
PickSlug(w) ==
  /\ creq[w].step = "slug"
  /\ \E s \in Slugs :
       /\ s \notin dir /\ store[s].status = "none"
       /\ creq' = [creq EXCEPT ![w].step = "pages", ![w].slug = s]
  /\ UNCHANGED <<store, dir, settled>>

\* mkdir, the pages of a cleared store, store.json.
WritePages(w) ==
  /\ creq[w].step = "pages"
  /\ dir' = dir \cup {creq[w].slug}
  /\ creq' = [creq EXCEPT ![w].step = "insert"]
  /\ UNCHANGED <<store, settled>>

\* The row that the inserting transaction writes.
NewStore(r) ==
  [NoStore EXCEPT !.status = IF r.verdict = "allow" THEN "live" ELSE "pending_screening",
                  !.key = r.key, !.pay = r.pay]

\* Mutant of InsertStore: the index on (payer, key) is missing.
InsertStoreNoKeyIndex(w) ==
  LET r == creq[w] IN
  /\ r.step = "insert" /\ store[r.slug].status = "none"
  /\ store' = [store EXCEPT ![r.slug] = NewStore(r)]
  /\ creq' = [creq EXCEPT ![w].step = "settle"]
  /\ UNCHANGED <<dir, settled>>

\* The inserting transaction.  A lost index on the key is a replay: 409, and
\* only a directory of one's own is removed.  A lost slug removes the directory
\* and starts over once, then fails.
InsertStore(w) ==
  LET r == creq[w]  held == Holders(r.key) IN
  /\ r.step = "insert"
  /\ \/ /\ held = {} /\ store[r.slug].status = "none"
        /\ store' = [store EXCEPT ![r.slug] = NewStore(r)]
        /\ dir' = IF r.verdict = "allow" THEN dir \cup {r.slug} ELSE dir
        /\ creq' = [creq EXCEPT ![w].step = "settle"]
     \/ /\ held # {}
        /\ dir' = IF r.slug \in held THEN dir ELSE dir \ {r.slug}
        /\ CreateDone(w) /\ UNCHANGED store
     \/ /\ held = {} /\ store[r.slug].status # "none"
        /\ dir' = dir \ {r.slug}
        /\ IF r.attempt = 0
             THEN creq' = [creq EXCEPT ![w].step = "slug", ![w].attempt = 1, ![w].slug = None]
             ELSE CreateDone(w)
        /\ UNCHANGED store
  /\ UNCHANGED settled

\* The middleware settles after the handler: confirmed, refused, or refused in
\* the answer although the charge landed.
Settle(w) ==
  LET r == creq[w]
      charged == IF Spent(r.pay) THEN settled ELSE settled \cup {<<r.pay, r.key>>} IN
  /\ r.step = "settle"
  /\ \/ /\ ~Spent(r.pay) /\ settled' = charged
        /\ store' = [store EXCEPT ![r.slug].paid = TRUE] /\ CreateDone(w)
     \/ /\ settled' \in {settled, charged}
        /\ creq' = [creq EXCEPT ![w].step = "failed"] /\ UNCHANGED store
  /\ UNCHANGED dir

Unquarantined(pay) == {s \in Slugs : store[s].pay = pay /\ store[s].status # "blocked"}

\* Mutant of SettleFailed: every store of the nonce is quarantined.
SettleFailedAll(w) ==
  /\ creq[w].step = "failed"
  /\ store' = [s \in Slugs |->
       IF s \in Unquarantined(creq[w].pay)
         THEN [store[s] EXCEPT !.status = "blocked", !.quarantined = TRUE] ELSE store[s]]
  /\ CreateDone(w) /\ UNCHANGED <<dir, settled>>

\* create_settle_failed_core(): the one unquarantined store of the nonce is
\* blocked; if there are several, one may have been paid for, and none is.
SettleFailed(w) ==
  LET found == Unquarantined(creq[w].pay) IN
  /\ creq[w].step = "failed"
  /\ store' = [s \in Slugs |->
       IF found = {s} THEN [store[s] EXCEPT !.status = "blocked", !.quarantined = TRUE]
                      ELSE store[s]]
  /\ CreateDone(w) /\ UNCHANGED <<dir, settled>>

\* The process restarts: every request in flight is gone, and before serving
\* resume_pending() screens each pending store again.
Resumed(s, verdict) ==
  IF verdict = "pending" THEN store[s]
  ELSE [store[s] EXCEPT !.status = IF verdict = "allow" THEN "live" ELSE "blocked"]

Restart ==
  LET waiting == {s \in Slugs : store[s].status = "pending_screening"} IN
  \E verdict \in [waiting -> {"allow", "pending", "block"}] :
    /\ creq' = [w \in Threads |-> NoCreate]
    /\ store' = [s \in Slugs |-> IF s \in waiting THEN Resumed(s, verdict[s]) ELSE store[s]]
    /\ dir' = (dir \cup {s \in waiting : verdict[s] = "allow"}) \ {s \in waiting : verdict[s] = "block"}
    /\ UNCHANGED settled

CreateStoreInit ==
  /\ store = [s \in Slugs |-> NoStore] /\ dir = {} /\ settled = {}
  /\ creq = [w \in Threads |-> NoCreate]

CreateStoreNext ==
  \/ Restart
  \/ \E w \in Threads :
       \/ \E pay \in Pays, key \in Keys \cup {None} : CreatePost(w, pay, key)
       \/ Generate(w) \/ Screen(w) \/ PickSlug(w) \/ WritePages(w)
       \/ InsertStore(w) \/ Settle(w) \/ SettleFailed(w)

CreateStoreSpec == CreateStoreInit /\ [][CreateStoreNext]_createVars

-----------------------------------------------------------------------------
(* Properties *)

CreateTypeOK ==
  /\ store \in [Slugs -> StoreRow] /\ dir \subseteq Slugs
  /\ settled \subseteq Pays \X (Keys \cup {None})
  /\ creq \in [Threads -> [step : {"idle", "generate", "screen", "slug", "pages", "insert",
                                   "settle", "failed"},
                           pay : Pays \cup {None}, key : Keys \cup {None},
                           slug : Slugs \cup {None}, verdict : {"allow", "pending"},
                           attempt : 0..1]]

\* One Idempotency-Key is charged once and owns one store, however its retries
\* race, fail to settle or are cut off by a crash.
KeyChargedOnce ==
  \A key \in Keys :
    /\ Cardinality(Holders(key)) <= 1
    /\ Cardinality({c \in settled : c[2] = key}) <= 1

\* The settlement hook never quarantines a store whose payment was confirmed,
\* also when one signed payment was presented twice and settled once.
PaidKept ==
  \A s \in Slugs : store[s].paid => ~store[s].quarantined

(* Statements of the repository that the code does not keep (README). *)

\* A live store has its directory (app/engine.py:237-241: the loser of a slug
\* must not delete the winner's committed, paid files).
LiveHasPages ==
  \A s \in Slugs : store[s].status = "live" => s \in dir

=============================================================================
