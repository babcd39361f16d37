----------------------------- MODULE SelfServe -----------------------------
(***************************************************************************)
(* Self-serve store creation (app/self_serve.py and its dashboard routes): *)
(* a merchant opens an intent, sends the fee on chain, submits the hash;   *)
(* the server verifies it, commits `paid` before the slow generation, and  *)
(* writes the slug afterwards.  The session keeps the row it loaded, also  *)
(* across that commit, and writes it back by its primary key.              *)
(*                                                                         *)
(* Abstractions: one merchant; a fee transaction is good for the intents   *)
(* that existed when it was mined, or for none when it failed or carries   *)
(* another amount; a built store is a number.                              *)
(***************************************************************************)
EXTENDS Server

CONSTANTS
  Creations, Fees,
  MaxBuilds        \* bound of the run: stores built for a creation

ASSUME SelfServeAssumption == MaxBuilds \in Nat \ {0} /\ None \notin Creations \cup Fees

VARIABLES
  creation,  \* store_creations
  fee,       \* the chain: the creations a fee transaction can pay for
  built,     \* how many stores engine.create_store committed for a creation
  ssReq      \* locals of the requests in flight

ssVars == <<creation, fee, built, ssReq>>

-----------------------------------------------------------------------------

CreationRow == [status : {"none", "pending", "paid", "live", "failed"},
                tx : Fees \cup {None}, slug : BOOLEAN]

NoCreation == [status |-> "none", tx |-> None, slug |-> FALSE]
NoSsReq == [step |-> "idle", id |-> None, tx |-> None, row |-> NoCreation]

SsDone(w) == ssReq' = [ssReq EXCEPT ![w] = NoSsReq]

\* create_intent(), once the description was screened as ALLOW.
CreateIntent(c) ==
  /\ creation[c].status = "none"
  /\ creation' = [creation EXCEPT ![c].status = "pending"]
  /\ UNCHANGED <<fee, built, ssReq>>

\* The merchant's transfer is mined: right, or useless.
MineFee(tx) ==
  /\ fee[tx] = {}
  /\ \E good \in {{c \in Creations : creation[c].status # "none"}, {None}} :
       fee' = [fee EXCEPT ![tx] = good]
  /\ UNCHANGED <<creation, built, ssReq>>

\* pay_and_create() loads the creation and looks the hash up.
PayRead(w, c, tx) ==
  LET row == creation[c] IN
  /\ ssReq[w].step = "idle" /\ row.status # "none" /\ fee[tx] # {}
  /\ ~(row.status = "live" /\ row.slug)
  /\ row.status = "pending" => \A d \in Creations \ {c} : creation[d].tx # tx
  /\ ssReq' = [ssReq EXCEPT ![w] =
       [step |-> IF row.status = "pending" THEN "verify" ELSE "generate",
        id |-> c, tx |-> tx, row |-> row]]
  /\ UNCHANGED <<creation, fee, built>>

\* Mutant of PayCommit: UNIQUE(tx_hash) is missing.
PayCommitNoIndex(w) ==
  LET r == ssReq[w] IN
  /\ r.step = "verify"
  /\ IF r.id \in fee[r.tx]
       THEN /\ creation' = [creation EXCEPT ![r.id].status = "paid", ![r.id].tx = r.tx]
            /\ ssReq' = [ssReq EXCEPT ![w].step = "generate", ![w].row.status = "paid"]
       ELSE SsDone(w) /\ UNCHANGED creation
  /\ UNCHANGED <<fee, built>>

\* _verify_payment(), then the commit of tx_hash and `paid`; a wrong transfer
\* is a 400, a hash another creation committed meanwhile a 409.
PayCommit(w) ==
  LET r == ssReq[w] IN
  /\ r.step = "verify"
  /\ IF r.id \in fee[r.tx] /\ \A d \in Creations \ {r.id} : creation[d].tx # r.tx
       THEN /\ creation' = [creation EXCEPT ![r.id].status = "paid", ![r.id].tx = r.tx]
            /\ ssReq' = [ssReq EXCEPT ![w].step = "generate", ![w].row.status = "paid"]
       ELSE SsDone(w) /\ UNCHANGED creation
  /\ UNCHANGED <<fee, built>>

\* retry(): no payment is checked again.
RetryRead(w, c) ==
  /\ ssReq[w].step = "idle"
  /\ creation[c].status \in {"paid", "failed"} /\ ~creation[c].slug
  /\ ssReq' = [ssReq EXCEPT ![w] = [step |-> "generate", id |-> c, tx |-> None, row |-> creation[c]]]
  /\ UNCHANGED <<creation, fee, built>>

\* _generate(): a loaded slug makes the creation live; otherwise create_store
\* runs: a store, live or queued for screening, an outage, or blocked content.
RunGenerate(w) ==
  LET r == ssReq[w] IN
  /\ r.step = "generate"
  /\ IF r.row.slug THEN ssReq' = [ssReq EXCEPT ![w].step = "live"] /\ UNCHANGED built
     ELSE \/ /\ built[r.id] < MaxBuilds
             /\ built' = [built EXCEPT ![r.id] = @ + 1]
             /\ \E s \in {"live", "queued"} : ssReq' = [ssReq EXCEPT ![w].step = s]
          \/ SsDone(w) /\ UNCHANGED built
          \/ ssReq' = [ssReq EXCEPT ![w].step = "failed"] /\ UNCHANGED built
  /\ UNCHANGED <<creation, fee>>

\* The route's commit writes what _generate() changed.
CommitGenerated(w) ==
  LET r == ssReq[w] IN
  /\ r.step \in {"live", "queued", "failed"}
  /\ creation' = [creation EXCEPT
       ![r.id].slug = @ \/ r.step \in {"live", "queued"},
       ![r.id].status = IF r.step = "queued" THEN @ ELSE r.step]
  /\ SsDone(w) /\ UNCHANGED <<fee, built>>

\* The chain does not answer, or the process dies.
SsDies(w) ==
  /\ ssReq[w].step # "idle" /\ SsDone(w)
  /\ UNCHANGED <<creation, fee, built>>

SelfServeInit ==
  /\ creation = [c \in Creations |-> NoCreation] /\ fee = [tx \in Fees |-> {}]
  /\ built = [c \in Creations |-> 0] /\ ssReq = [w \in Threads |-> NoSsReq]

SelfServeNext ==
  \/ \E c \in Creations : CreateIntent(c)
  \/ \E tx \in Fees : MineFee(tx)
  \/ \E w \in Threads :
       \/ \E c \in Creations : RetryRead(w, c) \/ \E tx \in Fees : PayRead(w, c, tx)
       \/ PayCommit(w) \/ RunGenerate(w) \/ CommitGenerated(w) \/ SsDies(w)

SelfServeSpec == SelfServeInit /\ [][SelfServeNext]_ssVars

-----------------------------------------------------------------------------
(* Properties *)

SelfServeTypeOK ==
  /\ creation \in [Creations -> CreationRow] /\ built \in [Creations -> 0..MaxBuilds]
  /\ fee \in [Fees -> SUBSET (Creations \cup {None})]
  /\ ssReq \in [Threads -> [step : {"idle", "verify", "generate", "live", "queued", "failed"},
                            id : Creations \cup {None}, tx : Fees \cup {None}, row : CreationRow]]

\* A creation gets a store only against a fee that was verified for it and that
\* no other creation holds, in every race of submissions and retries.
StoresArePaid ==
  \A c \in Creations :
    built[c] > 0 =>
      /\ creation[c].tx # None /\ c \in fee[creation[c].tx]
      /\ \A d \in Creations \ {c} : creation[d].tx # creation[c].tx

(* Statements of the repository that the code does not keep (README). *)

\* app/self_serve.py:13-14: one submitted payment funds at most one store.
OneFeeOneStore == \A c \in Creations : built[c] <= 1

=============================================================================
