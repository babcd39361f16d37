----------------------------- MODULE StoreProofs -----------------------------
(***************************************************************************)
(* Proofs about how a store comes to be, is found and what it lists: the   *)
(* paid creation with its Idempotency-Key (CreateStore), the self-serve    *)
(* creation against a fee on chain (SelfServe), the custom domain          *)
(* (Domains) and the catalog (Catalog).  The work between a request's      *)
(* reads and its commit takes minutes; the invariants say what the request *)
(* may rely on when it commits.  The last section puts these components    *)
(* beside those of the other proof modules, as MCRequests does.            *)
(***************************************************************************)
EXTENDS MCRequests, BuyerProofs, BooksProofs, LedgerProofs

LEMMA AtMostOne ==
  ASSUME NEW S, \A x, y \in S : x = y
  PROVE  Cardinality(S) <= 1
PROOF
  <1>1. CASE S = {}
    BY <1>1, FS_EmptySet
  <1>2. CASE S # {}
    <2>1. PICK x : S = {x}
      BY <1>2
    <2> QED
      BY <2>1, FS_Singleton
  <1> QED
    BY <1>1, <1>2

-----------------------------------------------------------------------------
(* Domains *)

DomClaim == [host : Hosts \cup {None}, token : Nat, verified : BOOLEAN]
DomRequest == [step : {"idle", "claim", "lookup"}, site : Sites \cup {None},
               host : Hosts \cup {None}, token : Nat]

\* The unique index on the column.
HostsUnique == \A s, t \in Sites : claim[s].host = claim[t].host /\ claim[s].host # None => s = t

DomainsInv ==
  /\ claim \in [Sites -> DomClaim] /\ token \in Nat
  /\ domReq \in [Threads -> DomRequest]
  /\ HostsUnique

LEMMA DomReqMoves ==
  ASSUME DomainsInv, NEW w \in Threads, NEW r \in DomRequest, token' \in Nat,
         domReq' = [domReq EXCEPT ![w] = r], UNCHANGED claim
  PROVE  DomainsInv'
BY DEF DomainsInv, HostsUnique

LEMMA NoDomReqTyped == NoDomReq \in DomRequest
BY DEF NoDomReq, DomRequest

LEMMA ClaimCommit_Dom == ASSUME DomainsInv, NEW w \in Threads, ClaimCommit(w) PROVE DomainsInv'
PROOF
  <1>1. PICK r : r = domReq[w]
    OBVIOUS
  <1>2. r \in DomRequest /\ NoDomReq \in DomRequest
    BY <1>1, NoDomReqTyped DEF DomainsInv
  <1>3. domReq' = [domReq EXCEPT ![w] = NoDomReq] /\ UNCHANGED token
    BY DEF ClaimCommit, DomDone
  <1>4. CASE Claimants(r.host) \subseteq {r.site}
    <2>1. PICK c : c = [host |-> r.host, token |-> r.token, verified |-> FALSE]
      OBVIOUS
    <2>2. claim' = [claim EXCEPT ![r.site] = c]
      BY <1>1, <1>4, <2>1 DEF ClaimCommit
    <2>3. c \in DomClaim /\ c.host = r.host
      BY <1>2, <2>1 DEF DomClaim, DomRequest
    <2>4. claim' \in [Sites -> DomClaim]
          /\ \A s \in Sites : claim'[s] = IF s = r.site THEN c ELSE claim[s]
      BY <2>2, <2>3 DEF DomainsInv
    <2>5. \A s \in Sites : claim[s].host = r.host => s = r.site
      BY <1>4 DEF Claimants
    <2>6. HostsUnique'
      BY <2>3, <2>4, <2>5 DEF DomainsInv, HostsUnique
    <2> QED
      BY <1>2, <1>3, <2>4, <2>6 DEF DomainsInv
  <1>5. CASE ~(Claimants(r.host) \subseteq {r.site})
    <2>1. UNCHANGED claim
      BY <1>1, <1>5 DEF ClaimCommit
    <2>2. token' \in Nat
      BY <1>3 DEF DomainsInv
    <2> QED
      BY <1>2, <1>3, <2>1, <2>2, DomReqMoves
  <1> QED
    BY <1>4, <1>5

LEMMA VerifyLookup_Dom == ASSUME DomainsInv, NEW w \in Threads, VerifyLookup(w) PROVE DomainsInv'
PROOF
  <1>1. PICK r : r = domReq[w]
    OBVIOUS
  <1>2. domReq' = [domReq EXCEPT ![w] = NoDomReq] /\ UNCHANGED token
    BY DEF VerifyLookup, DomDone
  <1>3. claim' = claim \/ claim' = [claim EXCEPT ![r.site].verified = TRUE]
    BY <1>1 DEF VerifyLookup
  <1>4. claim' \in [Sites -> DomClaim] /\ \A s \in Sites : claim'[s].host = claim[s].host
    <2>1. CASE claim' = claim
      BY <2>1 DEF DomainsInv
    <2>2. CASE claim' = [claim EXCEPT ![r.site].verified = TRUE]
      <3>1. claim' = [s \in Sites |-> IF s = r.site THEN [claim[s] EXCEPT !.verified = TRUE] ELSE claim[s]]
        BY <2>2 DEF DomainsInv
      <3>2. \A c \in DomClaim : [c EXCEPT !.verified = TRUE] \in DomClaim
                                /\ [c EXCEPT !.verified = TRUE].host = c.host
        BY DEF DomClaim
      <3> QED
        BY <3>1, <3>2 DEF DomainsInv
    <2> QED
      BY <1>3, <2>1, <2>2
  <1>5. HostsUnique'
    BY <1>4 DEF DomainsInv, HostsUnique
  <1> QED
    BY <1>2, <1>4, <1>5, NoDomReqTyped DEF DomainsInv

LEMMA DomainsStep == DomainsInv /\ [DomainsNext]_domVars => DomainsInv'
PROOF
  <1> SUFFICES ASSUME DomainsInv, [DomainsNext]_domVars PROVE DomainsInv'
    OBVIOUS
  <1>1. CASE (\E h \in Hosts : Publish(h)) \/ UNCHANGED domVars
    BY <1>1 DEF Publish, domVars, DomainsInv, HostsUnique
  <1>2. ASSUME NEW s \in Sites, ReleaseHost(s) PROVE DomainsInv'
    <2>1. NoClaim \in DomClaim /\ NoClaim.host = None
      BY DEF NoClaim, DomClaim
    <2>2. claim' \in [Sites -> DomClaim]
          /\ \A t \in Sites : claim'[t] = IF t = s THEN NoClaim ELSE claim[t]
      BY <1>2, <2>1 DEF ReleaseHost, DomainsInv
    <2>3. HostsUnique'
      BY <2>1, <2>2 DEF DomainsInv, HostsUnique
    <2> QED
      BY <1>2, <2>2, <2>3 DEF ReleaseHost, DomainsInv
  <1>3. ASSUME NEW w \in Threads, NEW s \in Sites, NEW h \in Hosts, ClaimRead(w, s, h) PROVE DomainsInv'
    <2>1. PICK r : r = [step |-> "claim", site |-> s, host |-> h, token |-> token + 1]
      OBVIOUS
    <2>2. r \in DomRequest /\ token' \in Nat
      BY <1>3, <2>1 DEF ClaimRead, DomRequest, DomainsInv
    <2> QED
      BY <1>3, <2>1, <2>2, DomReqMoves DEF ClaimRead
  <1>4. ASSUME NEW w \in Threads, NEW s \in Sites, VerifyLoad(w, s) PROVE DomainsInv'
    <2>1. PICK r : r = [step |-> "lookup", site |-> s, host |-> claim[s].host, token |-> claim[s].token]
      OBVIOUS
    <2>2. r \in DomRequest /\ token' \in Nat
      BY <1>4, <2>1 DEF VerifyLoad, DomRequest, DomClaim, DomainsInv
    <2> QED
      BY <1>4, <2>1, <2>2, DomReqMoves DEF VerifyLoad
  <1> QED
    BY <1>1, <1>2, <1>3, <1>4, ClaimCommit_Dom, VerifyLookup_Dom DEF DomainsNext

LEMMA DomainsStart == DomainsInit => DomainsInv
BY NoDomReqTyped DEF DomainsInit, DomainsInv, HostsUnique, NoClaim, DomClaim

\* app/dashboard.py, merchant_claim_custom_domain(): two stores that race for a
\* host, however many claims are released and taken again, never both hold it.
THEOREM HostsLeadToOneStore == DomainsSpec => []OneStorePerHost
PROOF
  <1>1. DomainsInv => OneStorePerHost
    <2> SUFFICES ASSUME DomainsInv, NEW h \in Hosts PROVE Cardinality(Claimants(h)) <= 1
      BY DEF OneStorePerHost
    <2>1. \A s, t \in Claimants(h) : s = t
      BY DomainsAssumption DEF DomainsInv, HostsUnique, Claimants
    <2> QED
      BY <2>1, AtMostOne
  <1> QED
    BY <1>1, DomainsStart, DomainsStep, PTL DEF DomainsSpec

-----------------------------------------------------------------------------
(* SelfServe *)

SsRequest ==
  [step : {"idle", "verify", "generate", "live", "queued", "failed"},
   id : Creations \cup {None}, tx : Fees \cup {None}, row : CreationRow]

\* A recorded hash was verified for its creation and is held by no other;
\* a creation past its payment, or with a store, has one.
FeesHold ==
  \A c \in Creations :
    /\ creation[c].tx # None =>
         /\ c \in fee[creation[c].tx]
         /\ \A d \in Creations \ {c} : creation[d].tx # creation[c].tx
    /\ creation[c].status \in {"paid", "live", "failed"} \/ built[c] > 0 => creation[c].tx # None

\* A request past the verification works on a creation that has its hash.
SsLocals ==
  \A w \in Threads :
    /\ ssReq[w].step = "verify" => ssReq[w].id \in Creations /\ ssReq[w].tx \in Fees
    /\ ssReq[w].step \in {"generate", "live", "queued", "failed"} =>
         ssReq[w].id \in Creations /\ creation[ssReq[w].id].tx # None

SelfServeInv ==
  /\ creation \in [Creations -> CreationRow]
  /\ fee \in [Fees -> SUBSET (Creations \cup {None})]
  /\ built \in [Creations -> Nat]
  /\ ssReq \in [Threads -> SsRequest]
  /\ FeesHold /\ SsLocals

LEMMA NoSsReqTyped == NoSsReq \in SsRequest /\ NoSsReq.step = "idle"
BY DEF NoSsReq, SsRequest, NoCreation, CreationRow

\* A request moves on and no table changes.
LEMMA SsMoves ==
  ASSUME SelfServeInv, NEW w \in Threads, NEW r \in SsRequest,
         ssReq' = [ssReq EXCEPT ![w] = r], UNCHANGED <<creation, fee, built>>,
         r.step = "verify" => r.id \in Creations /\ r.tx \in Fees,
         r.step \in {"generate", "live", "queued", "failed"} =>
           r.id \in Creations /\ creation[r.id].tx # None
  PROVE  SelfServeInv'
PROOF
  <1>1. ssReq' \in [Threads -> SsRequest] /\ \A x \in Threads : ssReq'[x] = IF x = w THEN r ELSE ssReq[x]
    BY DEF SelfServeInv
  <1>2. SsLocals'
    BY <1>1 DEF SelfServeInv, SsLocals
  <1> QED
    BY <1>1, <1>2 DEF SelfServeInv, FeesHold

LEMMA SsEnds ==
  ASSUME SelfServeInv, NEW w \in Threads, SsDone(w), UNCHANGED <<creation, fee, built>>
  PROVE  SelfServeInv'
BY NoSsReqTyped, SsMoves DEF SsDone

LEMMA CreateIntent_Ss == ASSUME SelfServeInv, NEW c \in Creations, CreateIntent(c) PROVE SelfServeInv'
PROOF
  <1>1. creation' \in [Creations -> CreationRow]
        /\ \A d \in Creations : /\ creation'[d].tx = creation[d].tx
                                /\ creation'[d].status = IF d = c THEN "pending" ELSE creation[d].status
    BY DEF CreateIntent, SelfServeInv, CreationRow
  <1>2. UNCHANGED <<fee, built, ssReq>>
    BY DEF CreateIntent
  <1>3. FeesHold'
    BY <1>1, <1>2 DEF SelfServeInv, FeesHold
  <1>4. SsLocals'
    BY <1>1, <1>2 DEF SelfServeInv, SsLocals
  <1> QED
    BY <1>1, <1>2, <1>3, <1>4 DEF SelfServeInv

\* What a transaction is good for is settled when it is mined.
LEMMA MineFee_Ss == ASSUME SelfServeInv, NEW tx \in Fees, MineFee(tx) PROVE SelfServeInv'
PROOF
  <1>1. PICK good \in {{c \in Creations : creation[c].status # "none"}, {None}} :
          fee' = [fee EXCEPT ![tx] = good]
    BY DEF MineFee
  <1>2. fee' \in [Fees -> SUBSET (Creations \cup {None})]
        /\ \A t \in Fees : fee[t] \subseteq fee'[t]
    BY <1>1 DEF MineFee, SelfServeInv
  <1>3. UNCHANGED <<creation, built, ssReq>>
    BY DEF MineFee
  <1>4. \A c \in Creations : creation[c].tx \in Fees \cup {None}
    BY DEF SelfServeInv, CreationRow
  <1>5. FeesHold'
    BY <1>2, <1>3, <1>4 DEF SelfServeInv, FeesHold
  <1> QED
    BY <1>2, <1>3, <1>5 DEF SelfServeInv, SsLocals

LEMMA PayCommit_Ss == ASSUME SelfServeInv, NEW w \in Threads, PayCommit(w) PROVE SelfServeInv'
PROOF
  <1>1. PICK r : r = ssReq[w]
    OBVIOUS
  <1>2. r \in SsRequest /\ r.step = "verify" /\ r.id \in Creations /\ r.tx \in Fees /\ UNCHANGED <<fee, built>>
    BY <1>1 DEF PayCommit, SelfServeInv, SsLocals
  <1>3. CASE r.id \in fee[r.tx] /\ \A d \in Creations \ {r.id} : creation[d].tx # r.tx
    <2>1. /\ creation' = [creation EXCEPT ![r.id].status = "paid", ![r.id].tx = r.tx]
          /\ ssReq' = [ssReq EXCEPT ![w].step = "generate", ![w].row.status = "paid"]
      BY <1>1, <1>3 DEF PayCommit
    <2>2. creation' \in [Creations -> CreationRow]
          /\ \A d \in Creations :
               creation'[d].tx = (IF d = r.id THEN r.tx ELSE creation[d].tx)
               /\ creation'[d].status = (IF d = r.id THEN "paid" ELSE creation[d].status)
      BY <1>2, <2>1 DEF SelfServeInv, CreationRow
    <2>3. ssReq' \in [Threads -> SsRequest]
          /\ \A x \in Threads : /\ ssReq'[x].id = ssReq[x].id /\ ssReq'[x].tx = ssReq[x].tx
                                /\ ssReq'[x].step = IF x = w THEN "generate" ELSE ssReq[x].step
      <3>1. PICK entry : entry = [r.row EXCEPT !.status = "paid"]
        OBVIOUS
      <3>2. entry \in CreationRow
        BY <1>2, <3>1 DEF SsRequest, CreationRow
      <3>3. PICK n : n = [r EXCEPT !.step = "generate", !.row = entry]
        OBVIOUS
      <3>4. n \in SsRequest /\ n.step = "generate" /\ n.id = r.id /\ n.tx = r.tx
        BY <1>2, <3>2, <3>3 DEF SsRequest
      <3>5. ssReq' = [ssReq EXCEPT ![w] = n]
        BY <1>1, <2>1, <3>1, <3>3 DEF SelfServeInv, SsRequest
      <3>6. \A x \in Threads : ssReq'[x] = IF x = w THEN n ELSE ssReq[x]
        BY <3>5 DEF SelfServeInv
      <3> QED
        BY <1>1, <3>4, <3>5, <3>6 DEF SelfServeInv
    <2>4. r.tx # None
      BY <1>2, SelfServeAssumption
    <2>5. FeesHold'
      BY <1>2, <1>3, <2>2, <2>4 DEF SelfServeInv, FeesHold
    <2>6. SsLocals'
      BY <1>1, <1>2, <2>2, <2>3, <2>4 DEF SelfServeInv, SsLocals
    <2> QED
      BY <1>2, <2>2, <2>3, <2>5, <2>6 DEF SelfServeInv
  <1>4. CASE ~(r.id \in fee[r.tx] /\ \A d \in Creations \ {r.id} : creation[d].tx # r.tx)
    <2>1. SsDone(w) /\ UNCHANGED creation
      BY <1>1, <1>4 DEF PayCommit
    <2> QED
      BY <1>2, <2>1, SsEnds
  <1> QED
    BY <1>3, <1>4

LEMMA RunGenerate_Ss == ASSUME SelfServeInv, NEW w \in Threads, RunGenerate(w) PROVE SelfServeInv'
PROOF
  <1>1. PICK r : r = ssReq[w]
    OBVIOUS
  <1>2. r \in SsRequest /\ r.step = "generate" /\ r.id \in Creations /\ creation[r.id].tx # None
        /\ UNCHANGED <<creation, fee>>
    BY <1>1 DEF RunGenerate, SelfServeInv, SsLocals
  <1>3. ASSUME NEW s \in {"live", "queued", "failed"}, ssReq' = [ssReq EXCEPT ![w].step = s]
        PROVE  ssReq' \in [Threads -> SsRequest] /\ SsLocals'
    <2>1. ssReq' \in [Threads -> SsRequest]
          /\ \A x \in Threads : /\ ssReq'[x].id = ssReq[x].id /\ ssReq'[x].tx = ssReq[x].tx
                                /\ ssReq'[x].step = IF x = w THEN s ELSE ssReq[x].step
      BY <1>3 DEF SelfServeInv, SsRequest
    <2> QED
      BY <1>1, <1>2, <2>1 DEF SelfServeInv, SsLocals
  <1>4. CASE SsDone(w) /\ UNCHANGED built
    BY <1>2, <1>4, SsEnds
  <1>5. CASE UNCHANGED built /\ \E s \in {"live", "queued", "failed"} : ssReq' = [ssReq EXCEPT ![w].step = s]
    BY <1>2, <1>3, <1>5 DEF SelfServeInv, FeesHold
  <1>6. CASE /\ built' = [built EXCEPT ![r.id] = @ + 1]
             /\ \E s \in {"live", "queued"} : ssReq' = [ssReq EXCEPT ![w].step = s]
    <2>1. built' \in [Creations -> Nat] /\ \A c \in Creations : c # r.id => built'[c] = built[c]
      BY <1>2, <1>6 DEF SelfServeInv
    <2>2. FeesHold'
      BY <1>2, <2>1 DEF SelfServeInv, FeesHold
    <2> QED
      BY <1>2, <1>3, <1>6, <2>1, <2>2 DEF SelfServeInv
  <1> QED
    BY <1>1, <1>4, <1>5, <1>6 DEF RunGenerate

LEMMA CommitGenerated_Ss == ASSUME SelfServeInv, NEW w \in Threads, CommitGenerated(w) PROVE SelfServeInv'
PROOF
  <1>1. PICK r : r = ssReq[w]
    OBVIOUS
  <1>2. /\ r \in SsRequest /\ r.step \in {"live", "queued", "failed"}
        /\ r.id \in Creations /\ creation[r.id].tx # None
        /\ ssReq' = [ssReq EXCEPT ![w] = NoSsReq] /\ UNCHANGED <<fee, built>>
    BY <1>1 DEF CommitGenerated, SsDone, SelfServeInv, SsLocals
  <1>3. creation' = [creation EXCEPT ![r.id].slug = @ \/ r.step \in {"live", "queued"},
                                     ![r.id].status = IF r.step = "queued" THEN @ ELSE r.step]
    BY <1>1 DEF CommitGenerated
  <1>4. creation' \in [Creations -> CreationRow]
        /\ \A d \in Creations : creation'[d].tx = creation[d].tx
                                /\ (d # r.id => creation'[d].status = creation[d].status)
    <2>0. PICK old \in CreationRow : old = creation[r.id]
      BY <1>2 DEF SelfServeInv
    <2>s. PICK slug \in BOOLEAN : slug = (old.slug \/ r.step \in {"live", "queued"})
      OBVIOUS
    <2>t. PICK status : status = IF r.step = "queued" THEN old.status ELSE r.step
      OBVIOUS
    <2>1. PICK entry : entry = [old EXCEPT !.slug = slug, !.status = status]
      OBVIOUS
    <2>2. entry \in CreationRow /\ entry.tx = creation[r.id].tx
      BY <1>2, <2>0, <2>t, <2>1 DEF CreationRow
    <2>3. creation' = [creation EXCEPT ![r.id] = entry]
      BY <1>2, <1>3, <2>0, <2>s, <2>t, <2>1 DEF SelfServeInv, CreationRow
    <2> QED
      BY <1>2, <2>2, <2>3 DEF SelfServeInv
  <1>5. ssReq' \in [Threads -> SsRequest] /\ \A x \in Threads : ssReq'[x] = IF x = w THEN NoSsReq ELSE ssReq[x]
    BY <1>2, NoSsReqTyped DEF SelfServeInv
  <1>6. FeesHold'
    BY <1>2, <1>4 DEF SelfServeInv, FeesHold
  <1>7. SsLocals'
    BY <1>4, <1>5, NoSsReqTyped DEF SelfServeInv, SsLocals
  <1> QED
    BY <1>2, <1>4, <1>5, <1>6, <1>7 DEF SelfServeInv

LEMMA SelfServeStep == SelfServeInv /\ [SelfServeNext]_ssVars => SelfServeInv'
PROOF
  <1> SUFFICES ASSUME SelfServeInv, [SelfServeNext]_ssVars PROVE SelfServeInv'
    OBVIOUS
  <1>1. ASSUME NEW w \in Threads, NEW c \in Creations, RetryRead(w, c) PROVE SelfServeInv'
    <2>1. PICK r : r = [step |-> "generate", id |-> c, tx |-> None, row |-> creation[c]]
      OBVIOUS
    <2>2. r \in SsRequest /\ r.step = "generate" /\ r.id = c
      BY <2>1 DEF SelfServeInv, SsRequest
    <2>3. creation[c].tx # None
      BY <1>1 DEF RetryRead, SelfServeInv, FeesHold
    <2> QED
      BY <1>1, <2>1, <2>2, <2>3, SsMoves DEF RetryRead
  <1>2. ASSUME NEW w \in Threads, NEW c \in Creations, NEW tx \in Fees, PayRead(w, c, tx) PROVE SelfServeInv'
    <2>1. PICK r : r = [step |-> IF creation[c].status = "pending" THEN "verify" ELSE "generate",
                        id |-> c, tx |-> tx, row |-> creation[c]]
      OBVIOUS
    <2>2. r \in SsRequest /\ r.id = c /\ r.tx = tx
          /\ r.step = IF creation[c].status = "pending" THEN "verify" ELSE "generate"
      BY <2>1 DEF SelfServeInv, SsRequest
    <2>3. creation[c].status \in {"pending", "paid", "live", "failed"}
      BY <1>2 DEF PayRead, SelfServeInv, CreationRow
    <2>4. creation[c].status # "pending" => creation[c].tx # None
      BY <2>3 DEF SelfServeInv, FeesHold
    <2> QED
      BY <1>2, <2>1, <2>2, <2>4, SsMoves DEF PayRead
  <1>3. ASSUME NEW w \in Threads, SsDies(w) PROVE SelfServeInv'
    BY <1>3, SsEnds DEF SsDies
  <1>4. ASSUME UNCHANGED ssVars PROVE SelfServeInv'
    BY <1>4 DEF ssVars, SelfServeInv, FeesHold, SsLocals
  <1> QED
    BY <1>1, <1>2, <1>3, <1>4, CreateIntent_Ss, MineFee_Ss, PayCommit_Ss, RunGenerate_Ss,
       CommitGenerated_Ss DEF SelfServeNext

LEMMA SelfServeStart == SelfServeInit => SelfServeInv
BY NoSsReqTyped DEF SelfServeInit, SelfServeInv, FeesHold, SsLocals, NoCreation, CreationRow

\* app/self_serve.py, pay_and_create() and retry(): a store is built only for
\* a creation whose recorded hash was verified for it, and the unique column
\* keeps that hash from every other creation.
THEOREM SelfServeIsPaid == SelfServeSpec => []StoresArePaid
PROOF
  <1>1. SelfServeInv => StoresArePaid
    BY DEF SelfServeInv, FeesHold, StoresArePaid
  <1> QED
    BY <1>1, SelfServeStart, SelfServeStep, PTL DEF SelfServeSpec

-----------------------------------------------------------------------------
(* CreateStore *)

CreateRequest ==
  [step : {"idle", "generate", "screen", "slug", "pages", "insert", "settle", "failed"},
   pay : Pays \cup {None}, key : Keys \cup {None}, slug : Slugs \cup {None},
   verdict : {"allow", "pending"}, attempt : 0..1]

Committed == {"settle", "failed"}

\* The unique index on the key, and an unused slug has no key.
KeysUnique ==
  /\ \A s, t \in Slugs : store[s].key = store[t].key /\ store[s].key # None => s = t
  /\ \A s \in Slugs : store[s].status = "none" => store[s].key = None

\* A nonce is charged once, and a charge with a key has its store.
ChargesBacked ==
  /\ \A c1, c2 \in settled : c1[1] = c2[1] => c1 = c2
  /\ \A c \in settled : c[2] # None => \E s \in Slugs : store[s].key = c[2] /\ store[s].pay = c[1]

\* A request that inserted its store owns it until its settlement is known.
Owns(rows, r) ==
  /\ rows[r.slug].key = r.key /\ rows[r.slug].pay = r.pay
  /\ rows[r.slug].status \notin {"none", "blocked"}
  /\ ~rows[r.slug].paid /\ ~rows[r.slug].quarantined

CreateLocals ==
  /\ \A w \in Threads :
       /\ creq[w].step # "idle" => creq[w].pay \in Pays
       /\ creq[w].step \in {"pages", "insert"} \cup Committed => creq[w].slug \in Slugs
       /\ creq[w].step \in Committed => Owns(store, creq[w])
  /\ \A v, w \in Threads :
       creq[v].step \in Committed /\ creq[w].step \in Committed /\ creq[v].slug = creq[w].slug => v = w

CreateInv ==
  /\ store \in [Slugs -> StoreRow]
  /\ settled \subseteq Pays \X (Keys \cup {None})
  /\ creq \in [Threads -> CreateRequest]
  /\ KeysUnique /\ ChargesBacked /\ CreateLocals /\ PaidKept

LEMMA NoCreateTyped == NoCreate \in CreateRequest /\ NoCreate.step = "idle"
BY DEF NoCreate, CreateRequest

\* The locals after the step of w: its new ones are n, and the stores that the
\* other requests own are as they were.
LEMMA LocalsAfter ==
  ASSUME CreateInv, NEW w \in Threads, NEW n \in CreateRequest, creq' = [creq EXCEPT ![w] = n],
         n.step # "idle" => n.pay \in Pays,
         n.step \in {"pages", "insert"} \cup Committed => n.slug \in Slugs,
         n.step \in Committed => Owns(store', n),
         \A x \in Threads \ {w} : creq[x].step \in Committed =>
           /\ store'[creq[x].slug] = store[creq[x].slug]
           /\ n.step \in Committed => creq[x].slug # n.slug
  PROVE  creq' \in [Threads -> CreateRequest] /\ CreateLocals'
PROOF
  <1>1. creq' \in [Threads -> CreateRequest] /\ \A x \in Threads : creq'[x] = IF x = w THEN n ELSE creq[x]
    BY DEF CreateInv
  <1>2. \A x \in Threads \ {w} : creq[x].step \in Committed => Owns(store', creq[x])
    BY DEF CreateInv, CreateLocals, Owns
  <1>3. ASSUME NEW x \in Threads
        PROVE  /\ creq'[x].step # "idle" => creq'[x].pay \in Pays
               /\ creq'[x].step \in {"pages", "insert"} \cup Committed => creq'[x].slug \in Slugs
               /\ creq'[x].step \in Committed => Owns(store', creq'[x])
    BY <1>1, <1>2 DEF CreateInv, CreateLocals
  <1>4. ASSUME NEW u \in Threads, NEW v \in Threads, creq'[u].step \in Committed,
               creq'[v].step \in Committed, creq'[u].slug = creq'[v].slug
        PROVE  u = v
    BY <1>1, <1>4 DEF CreateInv, CreateLocals
  <1> QED
    BY <1>1, <1>3, <1>4 DEF CreateLocals

\* A request moves on before its insert, or ends; no store and no charge changes.
LEMMA CreateMoves ==
  ASSUME CreateInv, NEW w \in Threads, NEW r \in CreateRequest, r.step \notin Committed,
         r.step # "idle" => r.pay \in Pays, r.step \in {"pages", "insert"} => r.slug \in Slugs,
         creq' = [creq EXCEPT ![w] = r], UNCHANGED <<store, settled>>
  PROVE  CreateInv'
PROOF
  <1>1. r.step \in {"pages", "insert"} \cup Committed => r.slug \in Slugs
    OBVIOUS
  <1>2. \A x \in Threads \ {w} : creq[x].step \in Committed =>
           /\ store'[creq[x].slug] = store[creq[x].slug]
           /\ r.step \in Committed => creq[x].slug # r.slug
    OBVIOUS
  <1>3. creq' \in [Threads -> CreateRequest] /\ CreateLocals'
    BY <1>1, <1>2, LocalsAfter
  <1> QED
    BY <1>3 DEF CreateInv, KeysUnique, ChargesBacked, PaidKept

LEMMA CreateEnds ==
  ASSUME CreateInv, NEW w \in Threads, CreateDone(w), UNCHANGED <<store, settled>>
  PROVE  CreateInv'
BY NoCreateTyped, CreateMoves DEF CreateDone, Committed

\* What the request w may do to its locals without touching its payment.
LEMMA CreateKeeps ==
  ASSUME CreateInv, NEW w \in Threads, creq[w].step # "idle", NEW r \in CreateRequest,
         r.step \notin Committed, r.pay = creq[w].pay,
         r.step \in {"pages", "insert"} => r.slug \in Slugs,
         creq' = [creq EXCEPT ![w] = r], UNCHANGED <<store, settled>>
  PROVE  CreateInv'
PROOF
  <1>1. r.pay \in Pays
    BY DEF CreateInv, CreateLocals
  <1> QED
    BY <1>1, CreateMoves

LEMMA Early_Create ==
  ASSUME CreateInv, NEW w \in Threads, Generate(w) \/ Screen(w) \/ PickSlug(w) \/ WritePages(w)
  PROVE  CreateInv'
PROOF
  <1>1. creq[w] \in CreateRequest /\ creq[w].step \in {"generate", "screen", "slug", "pages"}
        /\ UNCHANGED <<store, settled>>
    BY DEF Generate, Screen, PickSlug, WritePages, CreateInv
  <1>2. ASSUME NEW step \in {"screen", "insert"}, creq' = [creq EXCEPT ![w].step = step],
               step = "insert" => creq[w].step = "pages"
        PROVE  CreateInv'
    <2>1. PICK r : r = [creq[w] EXCEPT !.step = step]
      OBVIOUS
    <2>2. r \in CreateRequest /\ r.step = step /\ r.pay = creq[w].pay /\ r.slug = creq[w].slug
      BY <1>1, <2>1 DEF CreateRequest
    <2>3. creq' = [creq EXCEPT ![w] = r]
      BY <1>2, <2>1 DEF CreateInv
    <2>4. r.step \in {"pages", "insert"} => r.slug \in Slugs
      BY <1>2, <2>2 DEF CreateInv, CreateLocals
    <2> QED
      BY <1>1, <2>2, <2>3, <2>4, CreateKeeps DEF Committed
  <1>3. ASSUME NEW v \in {"allow", "pending"},
               creq' = [creq EXCEPT ![w].step = "slug", ![w].verdict = v]
        PROVE  CreateInv'
    <2>1. PICK r : r = [creq[w] EXCEPT !.step = "slug", !.verdict = v]
      OBVIOUS
    <2>2. r \in CreateRequest /\ r.step = "slug" /\ r.pay = creq[w].pay
      BY <1>1, <2>1 DEF CreateRequest
    <2>3. creq' = [creq EXCEPT ![w] = r]
      BY <1>3, <2>1 DEF CreateInv
    <2> QED
      BY <1>1, <2>2, <2>3, CreateKeeps DEF Committed
  <1>4. ASSUME NEW s \in Slugs, creq' = [creq EXCEPT ![w].step = "pages", ![w].slug = s]
        PROVE  CreateInv'
    <2>1. PICK r : r = [creq[w] EXCEPT !.step = "pages", !.slug = s]
      OBVIOUS
    <2>2. r \in CreateRequest /\ r.step = "pages" /\ r.pay = creq[w].pay /\ r.slug = s
      BY <1>1, <2>1 DEF CreateRequest
    <2>3. creq' = [creq EXCEPT ![w] = r]
      BY <1>4, <2>1 DEF CreateInv
    <2> QED
      BY <1>1, <2>2, <2>3, CreateKeeps DEF Committed
  <1>5. CASE CreateDone(w)
    BY <1>1, <1>5, CreateEnds
  <1> QED
    BY <1>2, <1>3, <1>4, <1>5 DEF Generate, Screen, PickSlug, WritePages, CreateDone

\* The insert takes a key that no store holds and a slug that no store has.
LEMMA InsertStore_Create == ASSUME CreateInv, NEW w \in Threads, InsertStore(w) PROVE CreateInv'
PROOF
  <1>1. PICK r : r = creq[w]
    OBVIOUS
  <1>2. r \in CreateRequest /\ r.step = "insert" /\ r.pay \in Pays /\ r.slug \in Slugs
        /\ UNCHANGED settled
    BY <1>1 DEF InsertStore, CreateInv, CreateLocals
  <1>3. CASE CreateDone(w) /\ UNCHANGED store
    BY <1>2, <1>3, CreateEnds
  <1>4. CASE UNCHANGED store /\ creq' = [creq EXCEPT ![w].step = "slug", ![w].attempt = 1, ![w].slug = None]
    <2>1. PICK n : n = [r EXCEPT !.step = "slug", !.attempt = 1, !.slug = None]
      OBVIOUS
    <2>2. n \in CreateRequest /\ n.step = "slug" /\ n.pay = r.pay
      <3>1. \A k \in 0..1 : [r EXCEPT !.step = "slug", !.attempt = k, !.slug = None] \in CreateRequest
        BY <1>2 DEF CreateRequest
      <3>2. 1 \in 0..1
        OBVIOUS
      <3>3. n.step = "slug" /\ n.pay = r.pay
        BY <1>2, <2>1 DEF CreateRequest
      <3> QED
        BY <2>1, <3>1, <3>2, <3>3
    <2>3. creq' = [creq EXCEPT ![w] = n]
      BY <1>1, <1>4, <2>1 DEF CreateInv
    <2> QED
      BY <1>1, <1>2, <1>4, <2>2, <2>3, CreateKeeps DEF Committed
  <1>5. CASE /\ Holders(r.key) = {} /\ store[r.slug].status = "none"
             /\ store' = [store EXCEPT ![r.slug] = NewStore(r)]
             /\ creq' = [creq EXCEPT ![w].step = "settle"]
    <2>1. PICK new : new = NewStore(r)
      OBVIOUS
    <2>2. new \in StoreRow /\ new.key = r.key /\ new.pay = r.pay
          /\ new.status \in {"live", "pending_screening"} /\ ~new.paid /\ ~new.quarantined
      BY <1>2, <2>1 DEF NewStore, NoStore, StoreRow, CreateRequest
    <2>3. store' \in [Slugs -> StoreRow]
          /\ \A s \in Slugs : store'[s] = IF s = r.slug THEN new ELSE store[s]
      BY <1>5, <2>1, <2>2 DEF CreateInv
    <2>4. PICK n : n = [r EXCEPT !.step = "settle"]
      OBVIOUS
    <2>5. n \in CreateRequest /\ n.step = "settle" /\ n.pay = r.pay /\ n.key = r.key /\ n.slug = r.slug
      BY <1>2, <2>4 DEF CreateRequest
    <2>6. creq' = [creq EXCEPT ![w] = n]
      BY <1>1, <1>5, <2>4 DEF CreateInv
    <2>8. KeysUnique'
      <3>1. \A s \in Slugs : r.key # None => store[s].key # r.key
        BY <1>5 DEF Holders
      <3> QED
        BY <2>2, <2>3, <3>1 DEF CreateInv, KeysUnique
    <2>9. ChargesBacked'
      <3>1. store[r.slug].key = None
        BY <1>2, <1>5 DEF CreateInv, KeysUnique
      <3>2. \A c \in settled : c[2] # None =>
              \E s \in Slugs \ {r.slug} : store[s].key = c[2] /\ store[s].pay = c[1]
        BY <3>1 DEF CreateInv, ChargesBacked
      <3>3. \A c \in settled : c[2] # None =>
              \E s \in Slugs : store'[s].key = c[2] /\ store'[s].pay = c[1]
        BY <2>3, <3>2
      <3> QED
        BY <1>2, <3>3 DEF CreateInv, ChargesBacked
    <2>10. creq' \in [Threads -> CreateRequest] /\ CreateLocals'
      <3>1. \A x \in Threads \ {w} : creq[x].step \in Committed =>
              /\ store'[creq[x].slug] = store[creq[x].slug]
              /\ n.step \in Committed => creq[x].slug # n.slug
        BY <1>5, <2>3, <2>5 DEF CreateInv, CreateLocals, Owns
      <3>2. Owns(store', n)
        BY <1>2, <2>2, <2>3, <2>5 DEF Owns
      <3> QED
        BY <1>2, <2>5, <2>6, <3>1, <3>2, LocalsAfter
    <2>11. PaidKept'
      BY <2>2, <2>3 DEF CreateInv, PaidKept
    <2> QED
      BY <1>2, <2>3, <2>8, <2>9, <2>10, <2>11 DEF CreateInv
  <1> QED
    BY <1>1, <1>3, <1>4, <1>5 DEF InsertStore

\* A charge with a key that was charged before would be a second charge of the
\* same nonce: the store of the key is the request's own.
LEMMA Settle_Create == ASSUME CreateInv, NEW w \in Threads, Settle(w) PROVE CreateInv'
PROOF
  <1>1. PICK r : r = creq[w]
    OBVIOUS
  <1>2. r \in CreateRequest /\ r.step = "settle" /\ r.pay \in Pays /\ r.slug \in Slugs
        /\ Owns(store, r) /\ r.step \in Committed
    BY <1>1 DEF Settle, CreateInv, CreateLocals, Committed
  <1>3. PICK paidUp : paidUp = IF Spent(r.pay) THEN settled ELSE settled \cup {<<r.pay, r.key>>}
    OBVIOUS
  <1>4. settled' \in {settled, paidUp}
    BY <1>1, <1>3 DEF Settle
  <1>5. PICK c : c = <<r.pay, r.key>>
    OBVIOUS
  <1>6. c[1] = r.pay /\ c[2] = r.key /\ c \in Pays \X (Keys \cup {None})
    BY <1>2, <1>5 DEF CreateRequest
  <1>7. settled' = settled \/ (settled' = settled \cup {c} /\ \A d \in settled : d[1] # r.pay)
    BY <1>3, <1>4, <1>5 DEF Spent
  <1>8. settled' \subseteq Pays \X (Keys \cup {None})
    BY <1>6, <1>7 DEF CreateInv
  <1>9. \A c1, c2 \in settled' : c1[1] = c2[1] => c1 = c2
    BY <1>6, <1>7 DEF CreateInv, ChargesBacked
  <1>10. \A d \in settled' : d[2] # None => \E s \in Slugs : store[s].key = d[2] /\ store[s].pay = d[1]
    BY <1>2, <1>6, <1>7 DEF CreateInv, ChargesBacked, Owns
  <1>11. CASE store' = [store EXCEPT ![r.slug].paid = TRUE] /\ CreateDone(w)
    <2>0. PICK old \in StoreRow : old = store[r.slug]
      BY <1>2 DEF CreateInv
    <2>1. PICK entry : entry = [old EXCEPT !.paid = TRUE]
      OBVIOUS
    <2>2. entry \in StoreRow /\ entry.key = store[r.slug].key /\ entry.pay = store[r.slug].pay
          /\ entry.status = store[r.slug].status /\ entry.quarantined = store[r.slug].quarantined
      BY <2>0, <2>1 DEF StoreRow
    <2>3. store' = [store EXCEPT ![r.slug] = entry]
      BY <1>11, <2>0, <2>1 DEF CreateInv
    <2>4. store' \in [Slugs -> StoreRow] /\ \A s \in Slugs : store'[s] = IF s = r.slug THEN entry ELSE store[s]
      BY <2>2, <2>3 DEF CreateInv
    <2>5. KeysUnique'
      BY <2>2, <2>4 DEF CreateInv, KeysUnique
    <2>6. ChargesBacked'
      <3>1. \A d \in settled' : d[2] # None => \E s \in Slugs : store'[s].key = d[2] /\ store'[s].pay = d[1]
        BY <1>10, <2>2, <2>4
      <3> QED
        BY <1>9, <3>1 DEF ChargesBacked
    <2>7. PaidKept'
      BY <1>2, <2>2, <2>4 DEF CreateInv, PaidKept, Owns
    <2>8. \A x \in Threads \ {w} : creq[x].step \in Committed => store'[creq[x].slug] = store[creq[x].slug]
      BY <1>1, <1>2, <2>4 DEF CreateInv, CreateLocals
    <2>9. creq' \in [Threads -> CreateRequest] /\ CreateLocals'
      <3>1. NoCreate \in CreateRequest /\ NoCreate.step \notin {"pages", "insert"} \cup Committed
            /\ NoCreate.step = "idle" /\ creq' = [creq EXCEPT ![w] = NoCreate]
        BY <1>11, NoCreateTyped DEF CreateDone, Committed
      <3> QED
        BY <2>8, <3>1, LocalsAfter
    <2> QED
      BY <1>8, <2>4, <2>5, <2>6, <2>7, <2>9 DEF CreateInv
  <1>12. CASE UNCHANGED store /\ creq' = [creq EXCEPT ![w].step = "failed"]
    <2>1. PICK n : n = [r EXCEPT !.step = "failed"]
      OBVIOUS
    <2>2. n \in CreateRequest /\ n.step = "failed" /\ n.pay = r.pay /\ n.key = r.key /\ n.slug = r.slug
      BY <1>2, <2>1 DEF CreateRequest
    <2>3. creq' = [creq EXCEPT ![w] = n]
      BY <1>1, <1>12, <2>1 DEF CreateInv
    <2>4. \A x \in Threads \ {w} : creq[x].step \in Committed =>
            /\ store'[creq[x].slug] = store[creq[x].slug]
            /\ n.step \in Committed => creq[x].slug # n.slug
      BY <1>1, <1>2, <1>12, <2>2 DEF CreateInv, CreateLocals
    <2>5. Owns(store', n)
      BY <1>2, <1>12, <2>2 DEF Owns
    <2>6. creq' \in [Threads -> CreateRequest] /\ CreateLocals'
      BY <1>2, <2>2, <2>3, <2>4, <2>5, LocalsAfter
    <2>7. ChargesBacked'
      BY <1>9, <1>10, <1>12 DEF ChargesBacked
    <2> QED
      BY <1>8, <1>12, <2>6, <2>7 DEF CreateInv, KeysUnique, PaidKept
  <1> QED
    BY <1>1, <1>11, <1>12 DEF Settle

\* The hook blocks a store only when it is the one unblocked store of the
\* nonce, which is then the request's own, and nobody was told it is paid.
LEMMA SettleFailed_Create == ASSUME CreateInv, NEW w \in Threads, SettleFailed(w) PROVE CreateInv'
PROOF
  <1>1. PICK r : r = creq[w]
    OBVIOUS
  <1>2. r \in CreateRequest /\ r.step = "failed" /\ r.slug \in Slugs /\ Owns(store, r) /\ r.step \in Committed
        /\ UNCHANGED settled /\ creq' = [creq EXCEPT ![w] = NoCreate]
    BY <1>1 DEF SettleFailed, CreateInv, CreateLocals, Committed, CreateDone
  <1>3. r.slug \in Unquarantined(r.pay)
    BY <1>2 DEF Unquarantined, Owns
  <1>4. store' = [s \in Slugs |->
          IF Unquarantined(r.pay) = {s} THEN [store[s] EXCEPT !.status = "blocked", !.quarantined = TRUE]
          ELSE store[s]]
    BY <1>1 DEF SettleFailed
  <1>5. \A entry \in StoreRow :
          /\ [entry EXCEPT !.status = "blocked", !.quarantined = TRUE] \in StoreRow
          /\ [entry EXCEPT !.status = "blocked", !.quarantined = TRUE].key = entry.key
          /\ [entry EXCEPT !.status = "blocked", !.quarantined = TRUE].pay = entry.pay
          /\ [entry EXCEPT !.status = "blocked", !.quarantined = TRUE].paid = entry.paid
          /\ [entry EXCEPT !.status = "blocked", !.quarantined = TRUE].status = "blocked"
    BY DEF StoreRow
  <1>6. store' \in [Slugs -> StoreRow]
        /\ \A s \in Slugs :
             /\ store'[s].key = store[s].key /\ store'[s].pay = store[s].pay
             /\ store'[s].paid = store[s].paid
             /\ (s # r.slug => store'[s] = store[s])
             /\ (store'[s].status = "none" => store[s].status = "none")
    <2>1. ASSUME NEW s \in Slugs
          PROVE  /\ store'[s] \in StoreRow
                 /\ store'[s].key = store[s].key /\ store'[s].pay = store[s].pay
                 /\ store'[s].paid = store[s].paid
                 /\ (s # r.slug => store'[s] = store[s])
                 /\ (store'[s].status = "none" => store[s].status = "none")
      <3>1. store[s] \in StoreRow
        BY DEF CreateInv
      <3>2. CASE Unquarantined(r.pay) = {s}
        <4>1. s = r.slug
          BY <1>3, <3>2
        <4>2. store'[s] = [store[s] EXCEPT !.status = "blocked", !.quarantined = TRUE]
          BY <1>4, <3>2
        <4> QED
          BY ZenonT(60), <1>5, <3>1, <4>1, <4>2
      <3>3. CASE Unquarantined(r.pay) # {s}
        BY <1>4, <3>1, <3>3
      <3> QED
        BY <3>2, <3>3
    <2>2. store' \in [Slugs -> StoreRow]
      BY <1>4, <2>1
    <2> QED
      BY <2>1, <2>2
  <1>7. KeysUnique' /\ ChargesBacked'
    BY <1>2, <1>6 DEF CreateInv, KeysUnique, ChargesBacked
  <1>8. PaidKept'
    BY <1>2, <1>6 DEF CreateInv, PaidKept, Owns
  <1>9. \A x \in Threads \ {w} : creq[x].step \in Committed => store'[creq[x].slug] = store[creq[x].slug]
    BY <1>1, <1>2, <1>6 DEF CreateInv, CreateLocals
  <1>10. creq' \in [Threads -> CreateRequest] /\ CreateLocals'
    <2>1. NoCreate \in CreateRequest /\ NoCreate.step \notin {"pages", "insert"} \cup Committed
          /\ NoCreate.step = "idle"
      BY NoCreateTyped DEF Committed
    <2> QED
      BY <1>2, <1>9, <2>1, LocalsAfter
  <1> QED
    BY <1>2, <1>6, <1>7, <1>8, <1>10 DEF CreateInv

LEMMA Restart_Create == ASSUME CreateInv, Restart PROVE CreateInv'
PROOF
  <1> DEFINE waiting == {s \in Slugs : store[s].status = "pending_screening"}
  <1>1. PICK verdict \in [waiting -> {"allow", "pending", "block"}] :
          /\ creq' = [w \in Threads |-> NoCreate]
          /\ store' = [s \in Slugs |-> IF s \in waiting THEN Resumed(s, verdict[s]) ELSE store[s]]
          /\ UNCHANGED settled
    BY DEF Restart
  <1>2. \A entry \in StoreRow, st \in {"live", "blocked"} :
          /\ [entry EXCEPT !.status = st] \in StoreRow /\ [entry EXCEPT !.status = st].status = st
          /\ [entry EXCEPT !.status = st].key = entry.key /\ [entry EXCEPT !.status = st].pay = entry.pay
          /\ [entry EXCEPT !.status = st].paid = entry.paid
          /\ [entry EXCEPT !.status = st].quarantined = entry.quarantined
    BY DEF StoreRow
  <1>3. ASSUME NEW s \in Slugs
        PROVE  /\ store'[s] \in StoreRow
               /\ store'[s].key = store[s].key /\ store'[s].pay = store[s].pay
               /\ store'[s].paid = store[s].paid /\ store'[s].quarantined = store[s].quarantined
               /\ (store'[s].status = "none" => store[s].status = "none")
    <2>1. store[s] \in StoreRow
      BY DEF CreateInv
    <2>2. CASE s \in waiting
      <3>1. PICK v : v = verdict[s]
        OBVIOUS
      <3>2. v \in {"allow", "pending", "block"} /\ store'[s] = Resumed(s, v)
        BY <1>1, <2>2, <3>1
      <3>3. v = "pending" => store'[s] = store[s]
        BY <3>2 DEF Resumed
      <3>4. v # "pending" => \E st \in {"live", "blocked"} : store'[s] = [store[s] EXCEPT !.status = st]
        BY <3>2 DEF Resumed
      <3>5. ASSUME NEW st \in {"live", "blocked"}, store'[s] = [store[s] EXCEPT !.status = st]
            PROVE  /\ store'[s] \in StoreRow /\ store'[s].status = st
                   /\ store'[s].key = store[s].key /\ store'[s].pay = store[s].pay
                   /\ store'[s].paid = store[s].paid /\ store'[s].quarantined = store[s].quarantined
        <4>1. PICK entry \in StoreRow : entry = store[s]
          BY <2>1
        <4>2. PICK new : new = [entry EXCEPT !.status = st]
          OBVIOUS
        <4>3. new \in StoreRow /\ new.status = st /\ new.key = entry.key /\ new.pay = entry.pay
              /\ new.paid = entry.paid /\ new.quarantined = entry.quarantined
          BY <1>2, <4>2
        <4>4. store'[s] = new
          BY <3>5, <4>1, <4>2
        <4> QED
          BY ONLY <4>1, <4>3, <4>4
      <3> QED
        BY <2>1, <3>3, <3>4, <3>5
    <2>3. CASE s \notin waiting
      BY <1>1, <2>1, <2>3
    <2> QED
      BY <2>2, <2>3
  <1>4. store' \in [Slugs -> StoreRow]
    BY <1>1, <1>3
  <1>5. KeysUnique' /\ ChargesBacked' /\ PaidKept'
    BY <1>1, <1>3 DEF CreateInv, KeysUnique, ChargesBacked, PaidKept
  <1>6. creq' \in [Threads -> CreateRequest] /\ CreateLocals'
    BY <1>1, NoCreateTyped DEF CreateLocals, Committed
  <1> QED
    BY <1>1, <1>4, <1>5, <1>6 DEF CreateInv

LEMMA CreateStep == CreateInv /\ [CreateStoreNext]_createVars => CreateInv'
PROOF
  <1> SUFFICES ASSUME CreateInv, [CreateStoreNext]_createVars PROVE CreateInv'
    OBVIOUS
  <1>1. ASSUME NEW w \in Threads, NEW pay \in Pays, NEW key \in Keys \cup {None}, CreatePost(w, pay, key)
        PROVE  CreateInv'
    <2>1. PICK r : r = [NoCreate EXCEPT !.step = "generate", !.pay = pay, !.key = key]
      OBVIOUS
    <2>2. r \in CreateRequest /\ r.step = "generate" /\ r.pay = pay
      BY <2>1, NoCreateTyped DEF CreateRequest
    <2> QED
      BY <1>1, <2>1, <2>2, CreateMoves DEF CreatePost, Committed
  <1>2. ASSUME UNCHANGED createVars PROVE CreateInv'
    BY <1>2 DEF createVars, CreateInv, KeysUnique, ChargesBacked, CreateLocals, PaidKept
  <1> QED
    BY <1>1, <1>2, Early_Create, InsertStore_Create, Settle_Create, SettleFailed_Create,
       Restart_Create DEF CreateStoreNext

LEMMA CreateStart == CreateStoreInit => CreateInv
BY NoCreateTyped DEF CreateStoreInit, CreateInv, KeysUnique, ChargesBacked, CreateLocals, PaidKept,
   NoStore, StoreRow, Committed

LEMMA CreateSafe == CreateStoreSpec => []CreateInv
PROOF
  <1> QED
    BY CreateStart, CreateStep, PTL DEF CreateStoreSpec

\* app/main.py, create_store_post() and app/engine.py, create_store(): retries
\* of one Idempotency-Key, racing, failing or cut off, own one store and are
\* charged once.
THEOREM KeysChargeOnce == CreateStoreSpec => []KeyChargedOnce
PROOF
  <1>1. CreateInv => KeyChargedOnce
    <2> SUFFICES ASSUME CreateInv, NEW key \in Keys
                 PROVE  /\ Cardinality(Holders(key)) <= 1
                        /\ Cardinality({c \in settled : c[2] = key}) <= 1
      BY DEF KeyChargedOnce
    <2>1. key # None
      BY CreateStoreAssumption
    <2>2. \A s, t \in Holders(key) : s = t
      BY <2>1 DEF CreateInv, KeysUnique, Holders
    <2>3. \A c1, c2 \in {c \in settled : c[2] = key} : c1 = c2
      BY <2>1 DEF CreateInv, KeysUnique, ChargesBacked
    <2> QED
      BY <2>2, <2>3, AtMostOne
  <1> QED
    BY <1>1, CreateSafe, PTL

\* app/main.py, create_settle_failed_core(): a store whose payment was
\* confirmed is never quarantined, also when one nonce made several stores.
THEOREM PaidStoresAreKept == CreateStoreSpec => []PaidKept
PROOF
  <1>1. CreateInv => PaidKept
    BY DEF CreateInv
  <1> QED
    BY <1>1, CreateSafe, PTL


-----------------------------------------------------------------------------
(* Catalog *)

Increasing(ids, S) ==
  ids \in [1..Cardinality(S) -> S] /\ \A j, k \in DOMAIN ids : j < k => ids[j] < ids[k]

\* The rows of a query come in an order: without the greatest id they do, and
\* that one comes last.
LEMMA OrderExists ==
  ASSUME NEW S, IsFiniteSet(S), S \subseteq Int
  PROVE  \E ids : Increasing(ids, S)
PROOF
  <1> DEFINE Bad == {s \in SUBSET S : ~ \E ids : Increasing(ids, s)}
  <1> SUFFICES ASSUME Bad # {} PROVE FALSE
    OBVIOUS
  <1>0. Bad \subseteq SUBSET S
    OBVIOUS
  <1>15. Bad # {} /\ IsFiniteSet(S)
    OBVIOUS
  <1> HIDE DEF Bad
  <1>1. PICK m \in Bad : \A s \in Bad : s \subseteq m => s = m
    BY ONLY <1>0, <1>15, MinimalSet
  <1> USE DEF Bad
  <1>2. m \subseteq Int /\ IsFiniteSet(m)
    BY FS_Subset
  <1>3. m # {}
    <2>1. ASSUME m = {} PROVE FALSE
      <3>1. Cardinality(m) = 0
        BY <2>1, FS_EmptySet
      <3> DEFINE none == [j \in 1..0 |-> 0]
      <3>2. Increasing(none, m)
        BY <3>1 DEF Increasing
      <3> QED
        BY <3>2
    <2> QED
      BY <2>1
  <1>4. PICK g \in m : \A y \in m : g >= y
    BY <1>2, <1>3, GreatestExists
  <1>5. PICK r : r = m \ {g}
    OBVIOUS
  <1>6. r \in SUBSET S /\ r \subseteq m /\ r # m
    BY <1>5
  <1>7. PICK ids : Increasing(ids, r)
    BY <1>1, <1>6
  <1>8. PICK n \in Nat : n = Cardinality(r)
    BY <1>2, <1>6, FS_Subset, FS_CardinalityType
  <1>9. Cardinality(m) = n + 1
    <2>1. Cardinality(m) \in Nat /\ Cardinality(r) = Cardinality(m) - 1
      BY <1>2, <1>4, <1>5, FS_RemoveElement, FS_CardinalityType
    <2> QED
      BY <1>8, <2>1
  <1> DEFINE all == [j \in 1..(n + 1) |-> IF j = n + 1 THEN g ELSE ids[j]]
  <1>10. /\ \A j \in 1..n : ids[j] \in r
         /\ \A j, k \in 1..n : j < k => ids[j] < ids[k]
    BY <1>7, <1>8 DEF Increasing
  <1>11. \A y \in r : y < g
    BY <1>2, <1>4, <1>5
  <1>12. ASSUME NEW j \in 1..(n + 1) PROVE all[j] \in m
    <2>1. CASE j = n + 1
      BY <2>1
    <2>2. CASE j # n + 1
      <3>1. j \in 1..n
        BY <2>2
      <3> QED
        BY <1>6, <1>10, <2>2, <3>1
    <2> QED
      BY <2>1, <2>2
  <1>13. ASSUME NEW j \in 1..(n + 1), NEW k \in 1..(n + 1), j < k PROVE all[j] < all[k]
    <2>1. j \in 1..n
      BY <1>13
    <2>2. CASE k = n + 1
      BY <1>10, <1>11, <2>1, <2>2
    <2>3. CASE k # n + 1
      BY <1>10, <1>13, <2>1, <2>3
    <2> QED
      BY <2>2, <2>3
  <1>14. Increasing(all, m)
    <2>1. all \in [1..(n + 1) -> m]
      BY <1>12
    <2>2. DOMAIN all = 1..(n + 1)
      OBVIOUS
    <2> HIDE DEF all
    <2> QED
      BY <1>9, <1>13, <2>1, <2>2 DEF Increasing
  <1> QED
    BY <1>1, <1>14

\* Every one of them comes, since there are as many places as rows.
LEMMA OrderLists ==
  ASSUME NEW S, IsFiniteSet(S), S \subseteq Int
  PROVE  {InIdOrder(S)[k] : k \in DOMAIN InIdOrder(S)} = S
PROOF
  <1>1. PICK ids : ids = InIdOrder(S)
    OBVIOUS
  <1>2. Increasing(ids, S)
    BY <1>1, OrderExists DEF InIdOrder, Increasing
  <1>3. PICK n \in Nat : n = Cardinality(S)
    BY FS_CardinalityType
  <1>4. ids \in [1..n -> S] /\ \A j, k \in 1..n : j < k => ids[j] < ids[k]
    BY <1>2, <1>3 DEF Increasing
  <1>5. ASSUME NEW j \in 1..n, NEW k \in 1..n, ids[j] = ids[k] PROVE j = k
    <2>1. ids[j] \in Int
      BY <1>4
    <2>2. ~ (ids[j] < ids[k]) /\ ~ (ids[k] < ids[j])
      BY <1>5, <2>1
    <2> QED
      BY <1>4, <2>2
  <1>6. ids \in Injection(1..n, S)
    BY <1>4, <1>5 DEF Injection, IsInjective
  <1>7. Cardinality(1..n) = n
    BY FS_Interval
  <1>8. ids \in Surjection(1..n, S)
    BY <1>3, <1>6, <1>7, FS_Injection
  <1> QED
    BY <1>1, <1>4, <1>8 DEF Surjection


\* What is left of an item when its photograph is changed: a record of both.
ItemShape(k) == k = [id |-> k.id, photo |-> k.photo]
PageShape(cont) == \A k \in DOMAIN cont : ItemShape(cont[k])

\* Every page that is held or loaded is made of items, and one that was built
\* from the rows lists the active ones.
CatInv ==
  /\ PageShape(content)
  /\ DOMAIN catReq = Threads /\ \A w \in Threads : PageShape(catReq[w].content)
  /\ ResyncHeals

\* resync_catalog() lists the active rows, whatever the old page was.
LEMMA ResyncLists ==
  ASSUME NEW rows, NEW cont
  PROVE  Listed(Resync(rows, cont)) = Active(rows) /\ PageShape(Resync(rows, cont))
PROOF
  <1>1. IsFiniteSet(Active(rows)) /\ Active(rows) \subseteq Int
    <2>1. IsFiniteSet(Items) /\ Items \subseteq Int
      BY CatalogAssumption, FS_Interval DEF Items
    <2> QED
      BY <2>1, FS_Subset DEF Active
  <1>2. PICK ids : ids = InIdOrder(Active(rows))
    OBVIOUS
  <1>3. {ids[k] : k \in DOMAIN ids} = Active(rows)
    BY <1>1, <1>2, OrderLists
  <1>4. Resync(rows, cont) =
          [k \in DOMAIN ids |-> [id |-> ids[k], photo |-> PhotoOf(cont, ids[k])]]
    BY <1>2 DEF Resync
  <1>5. PICK page : page = Resync(rows, cont)
    OBVIOUS
  <1>6. /\ DOMAIN page = DOMAIN ids
        /\ \A k \in DOMAIN ids : page[k].id = ids[k] /\ ItemShape(page[k])
    BY <1>4, <1>5 DEF ItemShape
  <1>7. Listed(page) = {ids[k] : k \in DOMAIN ids}
    BY <1>6 DEF Listed
  <1> QED
    BY <1>3, <1>5, <1>6, <1>7 DEF PageShape

\* imagery.apply() changes no id.
LEMMA ImageryKeepsIds ==
  ASSUME NEW cont, NEW found, PageShape(cont)
  PROVE  /\ Listed(ApplyImagery(cont, found)) = Listed(cont)
         /\ PageShape(ApplyImagery(cont, found))
PROOF
  <1>1. PICK page : page = ApplyImagery(cont, found)
    OBVIOUS
  <1>2. DOMAIN page = DOMAIN cont
    BY <1>1 DEF ApplyImagery
  <1>3. ASSUME NEW k \in DOMAIN cont PROVE page[k].id = cont[k].id /\ ItemShape(page[k])
    <2>1. PICK item : item = cont[k]
      OBVIOUS
    <2>2. PICK i, photo : item = [id |-> i, photo |-> photo]
      BY <2>1 DEF PageShape, ItemShape
    <2>3. PICK new : new = IF k \in DOMAIN found THEN found[k] ELSE None
      OBVIOUS
    <2>4. page[k] = [item EXCEPT !.photo = new]
      BY <1>1, <2>1, <2>3 DEF ApplyImagery
    <2>5. page[k] = [id |-> i, photo |-> new]
      BY <2>2, <2>4
    <2> QED
      BY <2>1, <2>2, <2>5 DEF ItemShape
  <1>4. Listed(page) = Listed(cont)
    BY <1>2, <1>3 DEF Listed
  <1> QED
    BY <1>1, <1>2, <1>3, <1>4 DEF PageShape

LEMMA CatLocals ==
  ASSUME CatInv, NEW w \in Threads, NEW r, PageShape(r.content),
         catReq' = [catReq EXCEPT ![w] = r]
  PROVE  DOMAIN catReq' = Threads /\ \A v \in Threads : PageShape(catReq'[v].content)
PROOF
  <1>1. \A v \in Threads : catReq'[v] = IF v = w THEN r ELSE catReq[v]
    BY DEF CatInv
  <1> QED
    BY <1>1 DEF CatInv

LEMMA CatDone ==
  ASSUME CatInv, NEW w \in Threads, CatalogDone(w)
  PROVE  DOMAIN catReq' = Threads /\ \A v \in Threads : PageShape(catReq'[v].content)
PROOF
  <1>1. NoCatReq.content = <<>>
    BY DEF NoCatReq
  <1>2. PageShape(NoCatReq.content)
    BY <1>1 DEF PageShape
  <1> QED
    BY <1>2, CatLocals DEF CatalogDone

\* A route that loads leaves the page alone.
LEMMA CatLoads ==
  ASSUME CatInv, NEW w \in Threads, (\E op, i : CatalogLoad(w, op, i)) \/ BlurbRead(w)
  PROVE  CatInv'
PROOF
  <1>1. UNCHANGED <<row, content, source>>
    BY DEF CatalogLoad, BlurbRead
  <1>2. PICK op, i, page : /\ PageShape(page)
                           /\ catReq' = [catReq EXCEPT ![w] = [op |-> op, item |-> i, content |-> page]]
    <2>1. CASE \E op, i : CatalogLoad(w, op, i)
      BY <2>1 DEF CatalogLoad, CatInv
    <2>2. CASE BlurbRead(w)
      BY <2>2, ResyncLists DEF BlurbRead
    <2> QED
      BY <2>1, <2>2
  <1>3. PICK r : r = [op |-> op, item |-> i, content |-> page]
    OBVIOUS
  <1>4. PageShape(r.content) /\ catReq' = [catReq EXCEPT ![w] = r]
    BY <1>2, <1>3
  <1>5. DOMAIN catReq' = Threads /\ \A v \in Threads : PageShape(catReq'[v].content)
    BY <1>4, CatLocals
  <1> QED
    BY <1>1, <1>5 DEF CatInv, ResyncHeals

\* A commit either writes a page that lists the active rows or a loaded one.
LEMMA CatCommits ==
  ASSUME CatInv, NEW w \in Threads,
         RowCommit(w) \/ CopyCommit(w) \/ ImageCommit(w) \/ UpgradeCommit(w)
  PROVE  CatInv'
PROOF
  <1>1. DOMAIN catReq' = Threads /\ \A v \in Threads : PageShape(catReq'[v].content)
    BY CatDone DEF RowCommit, CopyCommit, ImageCommit, UpgradeCommit
  <1>2. CASE RowCommit(w)
    <2>1. content' = Resync(row', catReq[w].content)
      BY <1>2 DEF RowCommit
    <2>2. Listed(content') = Active(row') /\ PageShape(content')
      BY <2>1, ResyncLists
    <2> QED
      BY <1>1, <2>2 DEF CatInv, ResyncHeals
  <1>3. CASE CopyCommit(w)
    <2>1. content' = catReq[w].content /\ source' = "copy"
      BY <1>3 DEF CopyCommit
    <2> QED
      BY <1>1, <2>1 DEF CatInv, ResyncHeals
  <1>4. CASE ImageCommit(w)
    <2>1. \E page : content' = Resync(row, page)
      BY <1>4 DEF ImageCommit
    <2>2. Listed(content') = Active(row) /\ PageShape(content') /\ row' = row
      BY <1>4, <2>1, ResyncLists DEF ImageCommit
    <2> QED
      BY <1>1, <2>2 DEF CatInv, ResyncHeals
  <1>5. CASE UpgradeCommit(w)
    <2>1. PICK page : page = Resync(row, <<>>)
      OBVIOUS
    <2>2. PICK found : content' = [k \in DOMAIN page |->
                          [id |-> page[k].id, photo |-> IF page[k].id \in found THEN page[k].id ELSE None]]
      BY <1>5, <2>1 DEF UpgradeCommit
    <2>3. PICK now : now = content'
      OBVIOUS
    <2>4. DOMAIN now = DOMAIN page /\ \A k \in DOMAIN page : now[k].id = page[k].id /\ ItemShape(now[k])
      BY <2>2, <2>3 DEF ItemShape
    <2>5. Listed(now) = Listed(page) /\ PageShape(now)
      BY <2>4 DEF Listed, PageShape
    <2>6. Listed(content') = Active(row) /\ PageShape(content') /\ row' = row
      BY <1>5, <2>1, <2>3, <2>5, ResyncLists DEF UpgradeCommit
    <2> QED
      BY <1>1, <2>6 DEF CatInv, ResyncHeals
  <1> QED
    BY <1>2, <1>3, <1>4, <1>5

LEMMA CatStep == CatInv /\ [CatalogNext]_catalogVars => CatInv'
PROOF
  <1> SUFFICES ASSUME CatInv, [CatalogNext]_catalogVars
               PROVE  CatInv'
    OBVIOUS
  <1>1. CASE SearchImagery \/ UNCHANGED catalogVars
    BY <1>1 DEF SearchImagery, catalogVars, CatInv, ResyncHeals
  <1>2. CASE AttachImagery
    <2>1. UNCHANGED <<row, source, catReq>>
      BY <1>2 DEF AttachImagery
    <2>2. content' = ApplyImagery(content, search.found) \/ content' = content
      BY <1>2 DEF AttachImagery
    <2>3. Listed(content') = Listed(content) /\ PageShape(content')
      BY <2>2, ImageryKeepsIds DEF CatInv
    <2> QED
      BY <2>1, <2>3 DEF CatInv, ResyncHeals
  <1>3. ASSUME NEW w \in Threads, NEW op, NEW i, CatalogLoad(w, op, i)
        PROVE  CatInv'
    BY <1>3, CatLoads
  <1>4. ASSUME NEW w \in Threads, BlurbRead(w)
        PROVE  CatInv'
    BY <1>4, CatLoads
  <1>5. ASSUME NEW w \in Threads, CatalogRefused(w)
        PROVE  CatInv'
    <2>1. UNCHANGED <<row, content, source>> /\ CatalogDone(w)
      BY <1>5 DEF CatalogRefused
    <2>2. DOMAIN catReq' = Threads /\ \A v \in Threads : PageShape(catReq'[v].content)
      BY <2>1, CatDone
    <2> QED
      BY <2>1, <2>2 DEF CatInv, ResyncHeals
  <1>6. ASSUME NEW w \in Threads,
               RowCommit(w) \/ CopyCommit(w) \/ ImageCommit(w) \/ UpgradeCommit(w)
        PROVE  CatInv'
    BY <1>6, CatCommits
  <1> QED
    BY <1>1, <1>2, <1>3, <1>4, <1>5, <1>6 DEF CatalogNext

\* After an edit that resyncs, the page sells the active products and nothing
\* else (resync_catalog), whatever page the edit had loaded before its awaits,
\* and a late photograph search changes only photographs (imagery.apply).
THEOREM PagesAreHealed == CatalogSpec => []ResyncHeals
PROOF
  <1>1. CatalogInit => CatInv
    <2> SUFFICES ASSUME CatalogInit PROVE CatInv
      OBVIOUS
    <2>1. Listed(content) = Active(row) /\ PageShape(content)
      BY ResyncLists DEF CatalogInit
    <2>2. DOMAIN catReq = Threads /\ \A w \in Threads : catReq[w].content = <<>>
      BY DEF CatalogInit, NoCatReq
    <2>3. PageShape(<<>>)
      BY DEF PageShape
    <2> QED
      BY <2>1, <2>2, <2>3 DEF CatInv, ResyncHeals
  <1>2. CatInv => ResyncHeals
    BY DEF CatInv
  <1> QED
    BY <1>1, <1>2, CatStep, PTL DEF CatalogSpec


-----------------------------------------------------------------------------
(* Types *)

\* CreateStore: a directory is named by a slug.
CreateTyped == CreateInv /\ dir \subseteq Slugs

LEMMA CreateTypedStart == CreateStoreInit => CreateTyped
BY CreateStart DEF CreateTyped, CreateStoreInit

LEMMA CreateTypedStep == CreateTyped /\ [CreateStoreNext]_createVars => CreateTyped'
PROOF
  <1> SUFFICES ASSUME CreateTyped, [CreateStoreNext]_createVars PROVE CreateTyped'
    OBVIOUS
  <1>1. CreateInv' /\ \A w \in Threads : creq[w].step \in {"pages", "insert"} => creq[w].slug \in Slugs
    BY CreateStep DEF CreateTyped, CreateInv, CreateLocals
  <1>2. dir \subseteq Slugs
    BY DEF CreateTyped
  <1>3. ASSUME Restart PROVE dir' \subseteq Slugs
    BY <1>2, <1>3 DEF Restart
  <1>4. ASSUME NEW w \in Threads, WritePages(w) PROVE dir' \subseteq Slugs
    BY <1>1, <1>2, <1>4 DEF WritePages
  <1>5. ASSUME NEW w \in Threads, InsertStore(w) PROVE dir' \subseteq Slugs
    BY <1>1, <1>2, <1>5 DEF InsertStore
  <1>6. ASSUME UNCHANGED dir PROVE dir' \subseteq Slugs
    BY <1>2, <1>6
  <1>7. dir' \subseteq Slugs
    BY <1>2, <1>3, <1>4, <1>5, <1>6
       DEF CreateStoreNext, createVars, Restart, CreatePost, Generate, Screen, PickSlug, Settle, SettleFailed
  <1> QED
    BY <1>1, <1>7 DEF CreateTyped

LEMMA CreateIsTyped == CreateTyped => CreateTypeOK
BY DEF CreateTyped, CreateInv, CreateTypeOK, CreateRequest

\* SelfServe: the bound of the run is the guard of the only step that builds.
SsTyped == SelfServeInv /\ \A c \in Creations : built[c] <= MaxBuilds

LEMMA SsTypedStart == SelfServeInit => SsTyped
BY SelfServeStart, SelfServeAssumption DEF SsTyped, SelfServeInit

LEMMA SsTypedStep == SsTyped /\ [SelfServeNext]_ssVars => SsTyped'
PROOF
  <1> SUFFICES ASSUME SsTyped, [SelfServeNext]_ssVars PROVE SsTyped'
    OBVIOUS
  <1>1. SelfServeInv /\ SelfServeInv' /\ MaxBuilds \in Nat
    BY SelfServeStep, SelfServeAssumption DEF SsTyped
  <1>2. ASSUME NEW w \in Threads, RunGenerate(w), built' # built
        PROVE  \A c \in Creations : built'[c] <= MaxBuilds
    <2>1. PICK id : id = ssReq[w].id
      OBVIOUS
    <2>2. built[id] < MaxBuilds /\ built' = [built EXCEPT ![id] = @ + 1]
      BY <1>2, <2>1 DEF RunGenerate
    <2>3. built \in [Creations -> Nat] /\ \A c \in Creations : built[c] <= MaxBuilds
      BY DEF SsTyped, SelfServeInv
    <2> QED
      BY <1>1, <2>2, <2>3
  <1>3. CASE UNCHANGED built
    BY <1>1, <1>3 DEF SsTyped
  <1>4. (\E w \in Threads : RunGenerate(w)) \/ UNCHANGED built
    BY DEF SelfServeNext, ssVars, CreateIntent, MineFee, RetryRead, PayRead, PayCommit, CommitGenerated, SsDies
  <1> QED
    BY <1>1, <1>2, <1>3, <1>4 DEF SsTyped

LEMMA SsIsTyped == SsTyped => SelfServeTypeOK
PROOF
  <1> SUFFICES ASSUME SsTyped PROVE SelfServeTypeOK
    OBVIOUS
  <1>1. built \in [Creations -> 0..MaxBuilds]
    BY SelfServeAssumption DEF SsTyped, SelfServeInv
  <1> QED
    BY <1>1 DEF SsTyped, SelfServeInv, SelfServeTypeOK, SsRequest

\* Domains: a store with a host, and a request that claims one, has a token.
TokensMinted ==
  /\ token <= MaxTokens /\ txt \in [Hosts -> SUBSET (1..MaxTokens)]
  /\ \A s \in Sites : claim[s].token <= MaxTokens /\ (claim[s].host # None => claim[s].token > 0)
  /\ \A w \in Threads : /\ domReq[w].token <= MaxTokens
                        /\ domReq[w].step = "claim" => domReq[w].token > 0

DomTyped == DomainsInv /\ TokensMinted

LEMMA DomTypedStart == DomainsInit => DomTyped
PROOF
  <1> SUFFICES ASSUME DomainsInit PROVE DomTyped
    OBVIOUS
  <1>1. MaxTokens \in Nat /\ DomainsInv
    BY DomainsStart, DomainsAssumption
  <1> QED
    BY <1>1 DEF DomainsInit, DomTyped, TokensMinted, NoClaim, NoDomReq

LEMMA DomTypedStep == DomTyped /\ [DomainsNext]_domVars => DomTyped'
PROOF
  <1> SUFFICES ASSUME DomTyped, [DomainsNext]_domVars PROVE DomTyped'
    OBVIOUS
  <1>1. DomainsInv /\ DomainsInv' /\ TokensMinted /\ MaxTokens \in Nat
    BY DomainsStep, DomainsAssumption DEF DomTyped
  <1>2. /\ claim \in [Sites -> DomClaim] /\ domReq \in [Threads -> DomRequest] /\ token \in Nat
        /\ NoDomReq.step = "idle" /\ NoDomReq.token = 0 /\ NoClaim.host = None /\ NoClaim.token = 0
    BY <1>1 DEF DomainsInv, NoDomReq, NoClaim
  <1>3. ASSUME NEW h \in Hosts, Publish(h) PROVE TokensMinted'
    <2>1. PICK s \in Sites : s = Controls[h]
      BY DomainsAssumption
    <2>2. claim[s].host # None /\ claim[s].token \in Nat
      BY <1>2, <1>3, <2>1, DomainsAssumption DEF Publish, DomClaim
    <2>3. claim[s].token \in 1..MaxTokens
      BY <1>1, <2>2 DEF TokensMinted
    <2>4. txt' = [txt EXCEPT ![h] = @ \cup {claim[s].token}] /\ UNCHANGED <<claim, token, domReq>>
      BY <1>3, <2>1 DEF Publish
    <2>5. txt' \in [Hosts -> SUBSET (1..MaxTokens)]
      BY <1>1, <2>3, <2>4 DEF TokensMinted
    <2> QED
      BY <1>1, <2>4, <2>5 DEF TokensMinted
  <1>4. ASSUME NEW s \in Sites, ReleaseHost(s) PROVE TokensMinted'
    <2>1. \A t \in Sites : claim'[t] = IF t = s THEN NoClaim ELSE claim[t]
      BY <1>2, <1>4 DEF ReleaseHost
    <2>2. UNCHANGED <<token, txt, domReq>>
      BY <1>4 DEF ReleaseHost
    <2> QED
      BY <1>1, <1>2, <2>1, <2>2 DEF TokensMinted
  <1>5. ASSUME NEW w \in Threads, NEW r, domReq' = [domReq EXCEPT ![w] = r], r.token <= MaxTokens,
               r.step = "claim" => r.token > 0
        PROVE  \A v \in Threads : /\ domReq'[v].token <= MaxTokens
                                  /\ domReq'[v].step = "claim" => domReq'[v].token > 0
    <2>1. \A v \in Threads : domReq'[v] = IF v = w THEN r ELSE domReq[v]
      BY <1>2, <1>5
    <2> QED
      BY <1>1, <1>5, <2>1 DEF TokensMinted
  <1>6. ASSUME NEW w \in Threads, DomDone(w)
        PROVE  \A v \in Threads : /\ domReq'[v].token <= MaxTokens
                                  /\ domReq'[v].step = "claim" => domReq'[v].token > 0
    <2>1. NoDomReq.token <= MaxTokens
      BY <1>1, <1>2
    <2>2. NoDomReq.step = "claim" => NoDomReq.token > 0
      BY <1>2
    <2>3. domReq' = [domReq EXCEPT ![w] = NoDomReq]
      BY <1>6 DEF DomDone
    <2> HIDE DEF NoDomReq
    <2> QED
      BY <1>5, <2>1, <2>2, <2>3
  <1>7. ASSUME NEW w \in Threads, NEW s \in Sites, NEW h \in Hosts, ClaimRead(w, s, h) PROVE TokensMinted'
    <2>1. PICK r : r = [step |-> "claim", site |-> s, host |-> h, token |-> token + 1]
      OBVIOUS
    <2>2. r.token = token + 1 /\ token + 1 <= MaxTokens /\ token + 1 > 0
      BY <1>1, <1>2, <1>7, <2>1 DEF ClaimRead
    <2>3. domReq' = [domReq EXCEPT ![w] = r] /\ token' = token + 1 /\ UNCHANGED <<claim, txt>>
      BY <1>7, <2>1 DEF ClaimRead
    <2> QED
      BY <1>1, <1>5, <2>2, <2>3 DEF TokensMinted
  <1>8. ASSUME NEW w \in Threads, NEW s \in Sites, VerifyLoad(w, s) PROVE TokensMinted'
    <2>1. PICK r : r = [step |-> "lookup", site |-> s, host |-> claim[s].host, token |-> claim[s].token]
      OBVIOUS
    <2>2. r.step = "lookup" /\ r.token <= MaxTokens
      BY <1>1, <2>1 DEF TokensMinted
    <2>3. domReq' = [domReq EXCEPT ![w] = r] /\ UNCHANGED <<claim, token, txt>>
      BY <1>8, <2>1 DEF VerifyLoad
    <2> QED
      BY <1>1, <1>5, <2>2, <2>3 DEF TokensMinted
  <1>9. ASSUME NEW w \in Threads, ClaimCommit(w) PROVE TokensMinted'
    <2>1. PICK r : r = domReq[w]
      OBVIOUS
    <2>2. r \in DomRequest /\ r.token <= MaxTokens /\ r.token > 0
      BY <1>1, <1>2, <1>9, <2>1 DEF TokensMinted, ClaimCommit
    <2>3. PICK c : c = [host |-> r.host, token |-> r.token, verified |-> FALSE]
      OBVIOUS
    <2>4. claim' = claim \/ claim' = [claim EXCEPT ![r.site] = c]
      BY <1>9, <2>1, <2>3 DEF ClaimCommit
    <2>5. \A s \in Sites : claim'[s] = claim[s] \/ claim'[s] = c
      BY <1>2, <2>4
    <2>6. c.token = r.token /\ UNCHANGED <<token, txt>> /\ DomDone(w)
      BY <1>9, <2>3 DEF ClaimCommit
    <2> QED
      BY <1>1, <1>6, <2>2, <2>5, <2>6 DEF TokensMinted
  <1>10. ASSUME NEW w \in Threads, VerifyLookup(w) PROVE TokensMinted'
    <2>1. PICK site : site = domReq[w].site
      OBVIOUS
    <2>2. claim' = claim \/ claim' = [claim EXCEPT ![site].verified = TRUE]
      BY <1>10, <2>1 DEF VerifyLookup
    <2>3. \A s \in Sites : claim'[s].host = claim[s].host /\ claim'[s].token = claim[s].token
      BY <1>2, <2>2 DEF DomClaim
    <2>4. UNCHANGED <<token, txt>> /\ DomDone(w)
      BY <1>10 DEF VerifyLookup
    <2> QED
      BY <1>1, <1>6, <2>3, <2>4 DEF TokensMinted
  <1>11. ASSUME UNCHANGED domVars PROVE TokensMinted'
    BY <1>1, <1>11 DEF domVars, TokensMinted
  <1> QED
    BY <1>1, <1>3, <1>4, <1>7, <1>8, <1>9, <1>10, <1>11 DEF DomTyped, DomainsNext

LEMMA DomIsTyped == DomTyped => DomainsTypeOK
PROOF
  <1> SUFFICES ASSUME DomTyped PROVE DomainsTypeOK
    OBVIOUS
  <1>1. \A s \in Sites : claim[s].token \in 0..MaxTokens
    BY DomainsAssumption DEF DomTyped, DomainsInv, TokensMinted, DomClaim
  <1>2. \A w \in Threads : domReq[w].token \in 0..MaxTokens
    BY DomainsAssumption DEF DomTyped, DomainsInv, TokensMinted, DomRequest
  <1>3. claim \in [Sites -> [host : Hosts \cup {None}, token : 0..MaxTokens, verified : BOOLEAN]]
    BY <1>1 DEF DomTyped, DomainsInv, DomClaim
  <1>4. domReq \in [Threads -> [step : {"idle", "claim", "lookup"}, site : Sites \cup {None},
                               host : Hosts \cup {None}, token : 0..MaxTokens]]
    BY <1>2 DEF DomTyped, DomainsInv, DomRequest
  <1>5. token \in 0..MaxTokens
    BY DomainsAssumption DEF DomTyped, DomainsInv, TokensMinted
  <1> QED
    BY <1>3, <1>4, <1>5 DEF DomTyped, TokensMinted, DomainsTypeOK


\* Catalog: a page has at most as many items as there are rows.
Pages == BoundedSeq(ContentItems, MaxItems)
CatRequest == [op : EditOps \cup {"none", "blurb"}, item : Items, content : Pages]

CatTyped ==
  /\ row \in [Items -> {"none", "active", "inactive"}]
  /\ content \in Pages /\ source \in {"rows", "copy"}
  /\ search.step \in {"todo", "apply", "done"}
  /\ search.found \in BoundedSeq(Items \cup {None}, MaxItems)
  /\ catReq \in [Threads -> CatRequest]

LEMMA BoundedSeqIs ==
  ASSUME NEW S, NEW p
  PROVE  p \in BoundedSeq(S, MaxItems) <=> \E n \in 0..MaxItems : p \in [1..n -> S]
BY DEF BoundedSeq, SeqOf

\* A page is rewritten item by item.
LEMMA PageMaps ==
  ASSUME NEW S, NEW T, NEW p \in BoundedSeq(S, MaxItems), NEW q,
         q = [k \in DOMAIN p |-> q[k]], \A k \in DOMAIN p : q[k] \in T
  PROVE  q \in BoundedSeq(T, MaxItems)
PROOF
  <1>1. PICK n \in 0..MaxItems : p \in [1..n -> S]
    BY BoundedSeqIs
  <1>2. q \in [1..n -> T]
    BY <1>1
  <1> QED
    BY <1>2, BoundedSeqIs

LEMMA PageItems ==
  ASSUME NEW S, NEW p \in BoundedSeq(S, MaxItems) PROVE \A k \in DOMAIN p : p[k] \in S
BY BoundedSeqIs

LEMMA EmptyPage == ASSUME NEW S PROVE <<>> \in BoundedSeq(S, MaxItems)
PROOF
  <1>1. <<>> \in [1..0 -> S] /\ 0 \in 0..MaxItems
    BY CatalogAssumption
  <1> QED
    BY <1>1, BoundedSeqIs

LEMMA PhotoTyped == ASSUME NEW p \in Pages, NEW i PROVE PhotoOf(p, i) \in Items \cup {None}
PROOF
  <1>1. CASE i \in Listed(p)
    <2>1. \E k \in ToSet(p) : k.id = i
      BY <1>1 DEF Listed, ToSet
    <2>2. PICK item : item = CHOOSE k \in ToSet(p) : k.id = i
      OBVIOUS
    <2>3. item \in ToSet(p)
      BY <2>1, <2>2
    <2>4. item \in ContentItems
      BY <2>3, PageItems DEF ToSet, Pages
    <2>5. item.photo \in Items \cup {None}
      BY <2>4 DEF ContentItems
    <2> QED
      BY <1>1, <2>2, <2>5 DEF PhotoOf
  <1>2. CASE i \notin Listed(p)
    BY <1>2 DEF PhotoOf
  <1> QED
    BY <1>1, <1>2

\* resync_catalog() makes a page of no more items than there are rows.
LEMMA ResyncTyped == ASSUME NEW rows, NEW p \in Pages PROVE Resync(rows, p) \in Pages
PROOF
  <1>1. MaxItems \in Nat /\ IsFiniteSet(Items) /\ Cardinality(Items) = MaxItems
    BY CatalogAssumption, FS_Interval DEF Items
  <1>2. PICK n : n = Cardinality(Active(rows))
    OBVIOUS
  <1>3. IsFiniteSet(Active(rows)) /\ n \in 0..MaxItems /\ Active(rows) \subseteq Items /\ Active(rows) \subseteq Int
    <2>1. Active(rows) \in SUBSET Items /\ Active(rows) \subseteq Int
      BY DEF Active, Items
    <2>2. IsFiniteSet(Active(rows)) /\ Cardinality(Active(rows)) <= Cardinality(Items)
      BY <1>1, <2>1, FS_Subset
    <2> QED
      BY <1>1, <1>2, <2>1, <2>2, FS_CardinalityType
  <1>4. PICK ids : ids = InIdOrder(Active(rows))
    OBVIOUS
  <1>5. ids \in [1..n -> Items]
    <2>1. Increasing(ids, Active(rows))
      BY <1>3, <1>4, OrderExists DEF InIdOrder, Increasing
    <2> QED
      BY <1>2, <1>3, <2>1 DEF Increasing
  <1>6. PICK page : page = Resync(rows, p)
    OBVIOUS
  <1>7. page = [k \in 1..n |-> [id |-> ids[k], photo |-> PhotoOf(p, ids[k])]]
    BY <1>4, <1>5, <1>6 DEF Resync
  <1>8. \A k \in 1..n : [id |-> ids[k], photo |-> PhotoOf(p, ids[k])] \in ContentItems
    BY <1>5, PhotoTyped DEF ContentItems
  <1>9. page \in [1..n -> ContentItems]
    BY <1>7, <1>8
  <1> QED
    BY <1>3, <1>6, <1>9, BoundedSeqIs DEF Pages

LEMMA ApplyTyped ==
  ASSUME NEW p \in Pages, NEW found \in BoundedSeq(Items \cup {None}, MaxItems)
  PROVE  ApplyImagery(p, found) \in Pages
PROOF
  <1>1. PICK q : q = ApplyImagery(p, found)
    OBVIOUS
  <1>2. q = [k \in DOMAIN p |-> [p[k] EXCEPT !.photo = IF k \in DOMAIN found THEN found[k] ELSE None]]
    BY <1>1 DEF ApplyImagery
  <1>3. q = [k \in DOMAIN p |-> q[k]]
    BY <1>2
  <1>4. ASSUME NEW k \in DOMAIN p PROVE q[k] \in ContentItems
    <2>1. PICK new \in Items \cup {None} : new = IF k \in DOMAIN found THEN found[k] ELSE None
      BY PageItems
    <2>2. q[k] = [p[k] EXCEPT !.photo = new]
      BY <1>2, <2>1
    <2>3. p[k] \in ContentItems
      BY PageItems DEF Pages
    <2> QED
      BY <2>2, <2>3 DEF ContentItems
  <1> QED
    BY <1>1, <1>3, <1>4, PageMaps DEF Pages

LEMMA SetPhotoTyped ==
  ASSUME NEW p \in Pages, NEW i, NEW photo \in Items \cup {None}
  PROVE  SetPhoto(p, i, photo) \in Pages
PROOF
  <1>1. PICK q : q = SetPhoto(p, i, photo)
    OBVIOUS
  <1>2. q = [k \in DOMAIN p |-> IF p[k].id = i THEN [p[k] EXCEPT !.photo = photo] ELSE p[k]]
    BY <1>1 DEF SetPhoto
  <1>3. q = [k \in DOMAIN p |-> q[k]]
    BY <1>2
  <1>4. ASSUME NEW k \in DOMAIN p PROVE q[k] \in ContentItems
    <2>1. p[k] \in ContentItems
      BY PageItems DEF Pages
    <2>2. [p[k] EXCEPT !.photo = photo] \in ContentItems
      BY <2>1 DEF ContentItems
    <2> QED
      BY <1>2, <2>1, <2>2
  <1> QED
    BY <1>1, <1>3, <1>4, PageMaps DEF Pages

LEMMA CatReqTyped ==
  ASSUME CatTyped, NEW w \in Threads, NEW r \in CatRequest, catReq' = [catReq EXCEPT ![w] = r]
  PROVE  catReq' \in [Threads -> CatRequest]
BY DEF CatTyped

LEMMA CatDoneTyped ==
  ASSUME CatTyped, NEW w \in Threads, CatalogDone(w)
  PROVE  catReq' \in [Threads -> CatRequest]
PROOF
  <1>1. 1 \in Items /\ <<>> \in Pages
    BY CatalogAssumption, EmptyPage DEF Items, Pages
  <1>2. NoCatReq \in CatRequest
    BY <1>1 DEF NoCatReq, CatRequest
  <1> QED
    BY <1>2, CatReqTyped DEF CatalogDone

LEMMA CatCommitTyped ==
  ASSUME CatTyped, NEW w \in Threads,
         RowCommit(w) \/ CopyCommit(w) \/ ImageCommit(w) \/ UpgradeCommit(w)
  PROVE  CatTyped'
PROOF
  <1>1. catReq' \in [Threads -> CatRequest] /\ UNCHANGED search /\ source' \in {"rows", "copy"}
    BY CatDoneTyped DEF RowCommit, CopyCommit, ImageCommit, UpgradeCommit
  <1>2. PICK r \in CatRequest : r = catReq[w]
    BY DEF CatTyped
  <1>3. r.content \in Pages /\ r.item \in Items
    BY <1>2 DEF CatRequest
  <1>4. row \in [Items -> {"none", "active", "inactive"}]
    BY DEF CatTyped
  <1>5. CASE RowCommit(w)
    <2>1. content' = Resync(row', r.content)
      BY <1>2, <1>5 DEF RowCommit
    <2>2. content' \in Pages
      BY <1>3, <2>1, ResyncTyped
    <2>3. row' \in [Items -> {"none", "active", "inactive"}]
      BY <1>2, <1>3, <1>4, <1>5 DEF RowCommit
    <2> QED
      BY <1>1, <2>2, <2>3 DEF CatTyped
  <1>6. CASE CopyCommit(w)
    BY <1>1, <1>2, <1>3, <1>4, <1>6 DEF CatTyped, CopyCommit
  <1>7. CASE ImageCommit(w)
    <2>1. PICK photo \in Items \cup {None} : photo = IF r.op = "photo" THEN r.item ELSE None
      BY <1>3
    <2>2. content' = Resync(row, SetPhoto(Resync(row, r.content), r.item, photo)) /\ UNCHANGED row
      BY <1>2, <1>7, <2>1 DEF ImageCommit
    <2>3. content' \in Pages
      BY <1>3, <2>2, ResyncTyped, SetPhotoTyped
    <2> QED
      BY <1>1, <1>4, <2>2, <2>3 DEF CatTyped
  <1>8. CASE UpgradeCommit(w)
    <2>1. PICK page : page = Resync(row, <<>>)
      OBVIOUS
    <2>2. PICK found : content' = [k \in DOMAIN page |->
                          LET i == page[k].id IN [id |-> i, photo |-> IF i \in found THEN i ELSE None]]
      BY <1>8, <2>1 DEF UpgradeCommit
    <2>3. page \in Pages
      BY <2>1, EmptyPage, ResyncTyped DEF Pages
    <2>4. PICK now : now = content'
      OBVIOUS
    <2>5. ASSUME NEW k \in DOMAIN page PROVE now[k] \in ContentItems
      <3>0. page[k] \in ContentItems
        BY <2>3, PageItems DEF Pages
      <3>1. PICK i \in Items : i = page[k].id
        BY <3>0 DEF ContentItems
      <3>2. now[k] = [id |-> i, photo |-> IF i \in found THEN i ELSE None]
        BY <2>2, <2>4, <3>1
      <3> QED
        BY <3>2 DEF ContentItems
    <2>6. now = [k \in DOMAIN page |-> now[k]]
      BY <2>2, <2>4
    <2>7. content' \in Pages
      BY <2>3, <2>4, <2>5, <2>6, PageMaps DEF Pages
    <2>8. UNCHANGED row
      BY <1>8 DEF UpgradeCommit
    <2> QED
      BY <1>1, <1>4, <2>7, <2>8 DEF CatTyped
  <1> QED
    BY <1>5, <1>6, <1>7, <1>8

LEMMA CatLoadTyped ==
  ASSUME CatTyped, NEW w \in Threads,
         (\E op \in EditOps, i \in Items : CatalogLoad(w, op, i)) \/ BlurbRead(w)
  PROVE  CatTyped'
PROOF
  <1>1. UNCHANGED <<row, content, source, search>> /\ content \in Pages
    BY DEF CatalogLoad, BlurbRead, CatTyped
  <1>2. Resync(row, content) \in Pages /\ 1 \in Items
    BY <1>1, ResyncTyped, CatalogAssumption DEF Items
  <1>3. ASSUME NEW op \in EditOps, NEW i \in Items, CatalogLoad(w, op, i)
        PROVE  catReq' \in [Threads -> CatRequest]
    <2>1. PICK r : r = [op |-> op, item |-> i, content |-> content]
      OBVIOUS
    <2>2. r \in CatRequest /\ catReq' = [catReq EXCEPT ![w] = r]
      BY <1>1, <1>3, <2>1 DEF CatalogLoad, CatRequest
    <2> QED
      BY <2>2, CatReqTyped
  <1>4. ASSUME BlurbRead(w) PROVE catReq' \in [Threads -> CatRequest]
    <2>1. PICK r : r = [op |-> "blurb", item |-> 1, content |-> Resync(row, content)]
      OBVIOUS
    <2>2. r \in CatRequest /\ catReq' = [catReq EXCEPT ![w] = r]
      BY <1>2, <1>4, <2>1 DEF BlurbRead, CatRequest
    <2> QED
      BY <2>2, CatReqTyped
  <1> QED
    BY <1>1, <1>3, <1>4 DEF CatTyped

LEMMA CatTypedStep == CatTyped /\ [CatalogNext]_catalogVars => CatTyped'
PROOF
  <1> SUFFICES ASSUME CatTyped, [CatalogNext]_catalogVars PROVE CatTyped'
    OBVIOUS
  <1>1. CASE SearchImagery
    <2>1. PICK hits : search' = [step |-> "apply", found |->
                        [k \in DOMAIN content |-> IF k \in hits THEN content[k].id ELSE None]]
      BY <1>1 DEF SearchImagery
    <2>2. PICK found : found = [k \in DOMAIN content |-> IF k \in hits THEN content[k].id ELSE None]
      OBVIOUS
    <2>3. content \in BoundedSeq(ContentItems, MaxItems)
      BY DEF CatTyped, Pages
    <2>4. ASSUME NEW k \in DOMAIN content PROVE found[k] \in Items \cup {None}
      <3>1. content[k] \in ContentItems
        BY <2>3, PageItems
      <3>2. content[k].id \in Items
        BY <3>1 DEF ContentItems
      <3> QED
        BY <2>2, <3>2
    <2>5. found = [k \in DOMAIN content |-> found[k]]
      BY <2>2
    <2>6. found \in BoundedSeq(Items \cup {None}, MaxItems)
      BY <2>3, <2>4, <2>5, PageMaps
    <2>7. search'.step = "apply" /\ search'.found = found /\ UNCHANGED <<row, content, source, catReq>>
      BY <1>1, <2>1, <2>2 DEF SearchImagery
    <2> QED
      BY <2>6, <2>7 DEF CatTyped
  <1>2. CASE AttachImagery
    <2>1. content' \in {ApplyImagery(content, search.found), content}
          /\ search' = [step |-> "done", found |-> <<>>] /\ UNCHANGED <<row, source, catReq>>
      BY <1>2 DEF AttachImagery
    <2>2. content' \in Pages
      BY <2>1, ApplyTyped DEF CatTyped
    <2>3. search'.step = "done" /\ search'.found = <<>>
      BY <2>1
    <2>4. search'.found \in BoundedSeq(Items \cup {None}, MaxItems)
      BY <2>3, EmptyPage
    <2> QED
      BY <2>1, <2>2, <2>3, <2>4 DEF CatTyped
  <1>3. ASSUME NEW w \in Threads, CatalogRefused(w) PROVE CatTyped'
    BY <1>3, CatDoneTyped DEF CatalogRefused, CatTyped
  <1>4. CASE UNCHANGED catalogVars
    BY <1>4 DEF catalogVars, CatTyped
  <1> QED
    BY <1>1, <1>2, <1>3, <1>4, CatLoadTyped, CatCommitTyped DEF CatalogNext

LEMMA CatTypedStart == CatalogInit => CatTyped
PROOF
  <1> SUFFICES ASSUME CatalogInit PROVE CatTyped
    OBVIOUS
  <1>1. 1 \in Items /\ <<>> \in Pages /\ <<>> \in BoundedSeq(Items \cup {None}, MaxItems)
    BY CatalogAssumption, EmptyPage DEF Items, Pages
  <1>2. NoCatReq \in CatRequest
    BY <1>1 DEF NoCatReq, CatRequest
  <1>3. content \in Pages
    BY <1>1, ResyncTyped DEF CatalogInit
  <1>4. row \in [Items -> {"none", "active", "inactive"}]
    BY DEF CatalogInit
  <1>5. search.step = "todo" /\ search.found = <<>> /\ source = "rows"
        /\ catReq = [w \in Threads |-> NoCatReq]
    BY DEF CatalogInit
  <1> QED
    BY <1>1, <1>2, <1>3, <1>4, <1>5 DEF CatTyped

LEMMA CatIsTyped == CatTyped => CatalogTypeOK
PROOF
  <1> SUFFICES ASSUME CatTyped PROVE CatalogTypeOK
    OBVIOUS
  <1>1. \A w \in Threads : catReq[w].op \in EditOps \cup {"none", "blurb"} /\ catReq[w].content \in Pages
    BY DEF CatTyped, CatRequest
  <1> QED
    BY <1>1 DEF CatTyped, CatalogTypeOK, Pages


-----------------------------------------------------------------------------
(* The components beside each other *)

\* What their invariants say of the rows' types.
LEMMA StoreTypes ==
  /\ CreateStoreSpec => []CreateTypeOK
  /\ SelfServeSpec => []SelfServeTypeOK
  /\ DomainsSpec => []DomainsTypeOK
  /\ CatalogSpec => []CatalogTypeOK
PROOF
  <1>1. CreateStoreSpec => []CreateTypeOK
    BY CreateTypedStart, CreateTypedStep, CreateIsTyped, PTL DEF CreateStoreSpec
  <1>2. SelfServeSpec => []SelfServeTypeOK
    BY SsTypedStart, SsTypedStep, SsIsTyped, PTL DEF SelfServeSpec
  <1>3. DomainsSpec => []DomainsTypeOK
    BY DomTypedStart, DomTypedStep, DomIsTyped, PTL DEF DomainsSpec
  <1>4. CatalogSpec => []CatalogTypeOK
    BY CatTypedStart, CatTypedStep, CatIsTyped, PTL DEF CatalogSpec
  <1> QED
    BY <1>1, <1>2, <1>3, <1>4

LEMMA LedgerTypes ==
  /\ MppSpec => []MppTypeOK
  /\ SubscriptionsSpec => []SubscriptionsTypeOK
  /\ GrowthSpec => []GrowthTypeOK
PROOF
  <1>1. MppSpec => []MppTypeOK
    <2>1. MppInv /\ [MppNext]_mppVars => MppInv'
      BY MppNext_Inv
    <2>2. MppInv => MppTypeOK
      BY DEF MppInv
    <2> QED
      BY <2>1, <2>2, MppInit_Inv, PTL DEF MppSpec
  <1>2. SubscriptionsSpec => []SubscriptionsTypeOK
    <2>1. SubInv /\ [SubscriptionsNext]_subVars => SubInv'
      BY SubscriptionsNext_Inv
    <2>2. SubInv => SubscriptionsTypeOK
      BY DEF SubInv
    <2> QED
      BY <2>1, <2>2, SubscriptionsInit_Inv, PTL DEF SubscriptionsSpec
  <1>3. GrowthSpec => []GrowthTypeOK
    <2>1. GrowthInv => GrowthTypeOK
      BY DEF GrowthInv
    <2> QED
      BY <2>1, GrowthStart, GrowthStep, PTL DEF GrowthSpec
  <1> QED
    BY <1>1, <1>2, <1>3

LEMMA BuyerTypes ==
  /\ DeliverySpec => []DeliveryTypeOK
  /\ AcpSpec => []AcpTypeOK
  /\ TiersSpec => []TiersTypeOK
PROOF
  <1>1. DeliverySpec => []DeliveryTypeOK
    <2>1. DeliveryInv => DeliveryTypeOK
      BY DEF DeliveryInv
    <2> QED
      BY <2>1, DeliverySafe, PTL
  <1>2. AcpSpec => []AcpTypeOK
    <2>1. AcpInv => AcpTypeOK
      BY DEF AcpInv
    <2> QED
      BY <2>1, AcpStart, AcpStep, PTL DEF AcpSpec
  <1>3. TiersSpec => []TiersTypeOK
    <2>1. TiersInit => TiersInv
      BY DEF TiersInit, TiersInv, TiersTypeOK, CertifiedOwned, NoBuy
    <2>2. TiersInv => TiersTypeOK
      BY DEF TiersInv
    <2> QED
      BY <2>1, <2>2, TiersStep, PTL DEF TiersSpec
  <1> QED
    BY <1>1, <1>2, <1>3

\* The components share no row, so that each one's behaviours beside the others
\* are its behaviours alone: what is proved of a component holds of them all.
THEOREM PartsAreComponents ==
  RequestsSpec =>
    /\ RefundsSpec /\ EscrowSpec /\ MppSpec /\ SubscriptionsSpec /\ DeliverySpec
    /\ CreateStoreSpec /\ SelfServeSpec /\ AcpSpec /\ CatalogSpec /\ GoodsSpec
    /\ DomainsSpec /\ TiersSpec /\ GrowthSpec
PROOF
  <1> USE DEF Part, requestVars
  <1>1. RequestsSpec => RefundsSpec
    <2>1. RequestsInit => RefundsInit
      BY DEF RequestsInit
    <2>2. [RequestsNext]_requestVars => [RefundsNext]_moneyVars
      BY DEF RequestsNext, MoneyNext
    <2> QED
      BY <2>1, <2>2, PTL DEF RequestsSpec, RefundsSpec
  <1>2. RequestsSpec => EscrowSpec
    <2>1. RequestsInit => EscrowInit
      BY DEF RequestsInit
    <2>2. [RequestsNext]_requestVars => [EscrowNext]_escrowVars
      BY DEF RequestsNext
    <2> QED
      BY <2>1, <2>2, PTL DEF RequestsSpec, EscrowSpec
  <1>3. RequestsSpec => MppSpec
    <2>1. RequestsInit => MppInit
      BY DEF RequestsInit
    <2>2. [RequestsNext]_requestVars => [MppNext]_mppVars
      BY DEF RequestsNext
    <2> QED
      BY <2>1, <2>2, PTL DEF RequestsSpec, MppSpec
  <1>4. RequestsSpec => SubscriptionsSpec
    <2>1. RequestsInit => SubscriptionsInit
      BY DEF RequestsInit
    <2>2. [RequestsNext]_requestVars => [SubscriptionsNext]_subVars
      BY DEF RequestsNext
    <2> QED
      BY <2>1, <2>2, PTL DEF RequestsSpec, SubscriptionsSpec
  <1>5. RequestsSpec => DeliverySpec
    <2>1. RequestsInit => DeliveryInit
      BY DEF RequestsInit
    <2>2. [RequestsNext]_requestVars => [DeliveryNext]_delVars
      BY DEF RequestsNext
    <2> QED
      BY <2>1, <2>2, PTL DEF RequestsSpec, DeliverySpec
  <1>6. RequestsSpec => CreateStoreSpec
    <2>1. RequestsInit => CreateStoreInit
      BY DEF RequestsInit
    <2>2. [RequestsNext]_requestVars => [CreateStoreNext]_createVars
      BY DEF RequestsNext
    <2> QED
      BY <2>1, <2>2, PTL DEF RequestsSpec, CreateStoreSpec
  <1>7. RequestsSpec => SelfServeSpec
    <2>1. RequestsInit => SelfServeInit
      BY DEF RequestsInit
    <2>2. [RequestsNext]_requestVars => [SelfServeNext]_ssVars
      BY DEF RequestsNext
    <2> QED
      BY <2>1, <2>2, PTL DEF RequestsSpec, SelfServeSpec
  <1>8. RequestsSpec => AcpSpec
    <2>1. RequestsInit => AcpInit
      BY DEF RequestsInit
    <2>2. [RequestsNext]_requestVars => [AcpNext]_acpVars
      BY DEF RequestsNext
    <2> QED
      BY <2>1, <2>2, PTL DEF RequestsSpec, AcpSpec
  <1>9. RequestsSpec => CatalogSpec
    <2>1. RequestsInit => CatalogInit
      BY DEF RequestsInit
    <2>2. [RequestsNext]_requestVars => [CatalogNext]_catalogVars
      BY DEF RequestsNext
    <2> QED
      BY <2>1, <2>2, PTL DEF RequestsSpec, CatalogSpec
  <1>10. RequestsSpec => GoodsSpec
    <2>1. RequestsInit => GoodsInit
      BY DEF RequestsInit
    <2>2. [RequestsNext]_requestVars => [GoodsNext]_goodsVars
      BY DEF RequestsNext
    <2> QED
      BY <2>1, <2>2, PTL DEF RequestsSpec, GoodsSpec
  <1>11. RequestsSpec => DomainsSpec
    <2>1. RequestsInit => DomainsInit
      BY DEF RequestsInit
    <2>2. [RequestsNext]_requestVars => [DomainsNext]_domVars
      BY DEF RequestsNext
    <2> QED
      BY <2>1, <2>2, PTL DEF RequestsSpec, DomainsSpec
  <1>12. RequestsSpec => TiersSpec
    <2>1. RequestsInit => TiersInit
      BY DEF RequestsInit
    <2>2. [RequestsNext]_requestVars => [TiersNext]_tierVars
      BY DEF RequestsNext
    <2> QED
      BY <2>1, <2>2, PTL DEF RequestsSpec, TiersSpec
  <1>13. RequestsSpec => GrowthSpec
    <2>1. RequestsInit => GrowthInit
      BY DEF RequestsInit
    <2>2. [RequestsNext]_requestVars => [GrowthNext]_growthVars
      BY DEF RequestsNext
    <2> QED
      BY <2>1, <2>2, PTL DEF RequestsSpec, GrowthSpec
  <1> QED
    BY <1>1, <1>2, <1>3, <1>4, <1>5, <1>6, <1>7, <1>8, <1>9, <1>10, <1>11, <1>12, <1>13

\* The rows and the locals of every component's requests keep their shape: the
\* tables that app/db.py declares and what the routes hold of them.
THEOREM RequestsTypeCorrect == RequestsSpec => []RequestsTypeOK
PROOF
  <1>1. RequestsSpec => [](focus \in Focuses)
    <2>1. RequestsInit => focus \in Focuses
      BY DEF RequestsInit
    <2>2. focus \in Focuses /\ [RequestsNext]_requestVars => (focus \in Focuses)'
      BY DEF RequestsNext, requestVars
    <2> QED
      BY <2>1, <2>2, PTL DEF RequestsSpec
  <1>2. RequestsSpec => [](RefundsTypeOK /\ EscrowTypeOK /\ MppTypeOK /\ SubscriptionsTypeOK /\ GrowthTypeOK)
    BY PartsAreComponents, RefundsTyped, EscrowTyped, LedgerTypes, PTL
  <1>3. RequestsSpec => [](DeliveryTypeOK /\ AcpTypeOK /\ TiersTypeOK /\ GoodsTypeOK)
    BY PartsAreComponents, BuyerTypes, GoodsTypeCorrect, PTL
  <1>4. RequestsSpec => [](CreateTypeOK /\ SelfServeTypeOK /\ DomainsTypeOK /\ CatalogTypeOK)
    BY PartsAreComponents, StoreTypes, PTL
  <1>5. /\ focus \in Focuses
        /\ RefundsTypeOK /\ EscrowTypeOK /\ MppTypeOK /\ SubscriptionsTypeOK /\ GrowthTypeOK
        /\ DeliveryTypeOK /\ AcpTypeOK /\ TiersTypeOK /\ GoodsTypeOK
        /\ CreateTypeOK /\ SelfServeTypeOK /\ DomainsTypeOK /\ CatalogTypeOK
        => RequestsTypeOK
    BY DEF RequestsTypeOK
  <1> QED
    BY <1>1, <1>2, <1>3, <1>4, <1>5, PTL

=============================================================================
