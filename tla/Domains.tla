------------------------------ MODULE Domains ------------------------------
(***************************************************************************)
(* Custom domains (app/dashboard.py, app/domains.py, app/main.py): a store *)
(* claims a host and gets a token, its owner publishes the token in DNS,   *)
(* a verification looks it up, and requests for the host are then served   *)
(* by that store.                                                          *)
(*                                                                         *)
(* Abstractions: stores are live; every host is controlled by one store's  *)
(* owner, who publishes only their own tokens; tokens are counted.         *)
(***************************************************************************)
EXTENDS Server

CONSTANTS
  Sites,        \* stores
  Hosts,
  Controls,     \* who can publish records for a host
  MaxTokens     \* challenge tokens, at most

ASSUME DomainsAssumption ==
  Controls \in [Hosts -> Sites] /\ MaxTokens \in Nat /\ None \notin Hosts

VARIABLES
  claim,    \* stores.custom_domain, _token and _verified_at
  token,    \* the last token minted
  txt,      \* the challenge records in DNS, by host
  domReq    \* locals of the requests in flight

domVars == <<claim, token, txt, domReq>>

-----------------------------------------------------------------------------

NoClaim == [host |-> None, token |-> 0, verified |-> FALSE]
NoDomReq == [step |-> "idle", site |-> None, host |-> None, token |-> 0]
DomDone(w) == domReq' = [domReq EXCEPT ![w] = NoDomReq]
Claimants(h) == {s \in Sites : claim[s].host = h}

\* merchant_claim_custom_domain(): no other store has the host,
ClaimRead(w, s, h) ==
  /\ domReq[w].step = "idle" /\ Claimants(h) \subseteq {s} /\ token < MaxTokens
  /\ token' = token + 1
  /\ domReq' = [domReq EXCEPT ![w] =
       [step |-> "claim", site |-> s, host |-> h, token |-> token + 1]]
  /\ UNCHANGED <<claim, txt>>

\* Mutant of ClaimCommit: the column is not unique.
ClaimCommitAny(w) ==
  LET r == domReq[w] IN
  /\ r.step = "claim"
  /\ claim' = [claim EXCEPT ![r.site] = [host |-> r.host, token |-> r.token, verified |-> FALSE]]
  /\ DomDone(w) /\ UNCHANGED <<token, txt>>

\* and at the commit the unique index decides.
ClaimCommit(w) ==
  LET r == domReq[w] IN
  /\ r.step = "claim"
  /\ IF Claimants(r.host) \subseteq {r.site}
       THEN claim' = [claim EXCEPT ![r.site] =
                        [host |-> r.host, token |-> r.token, verified |-> FALSE]]
       ELSE UNCHANGED claim
  /\ DomDone(w) /\ UNCHANGED <<token, txt>>

\* The owner publishes the token their store was given.
Publish(h) ==
  LET s == Controls[h] IN
  /\ claim[s].host = h
  /\ txt' = [txt EXCEPT ![h] = @ \cup {claim[s].token}]
  /\ UNCHANGED <<claim, token, domReq>>

\* merchant_verify_custom_domain(): the claim is loaded,
VerifyLoad(w, s) ==
  /\ domReq[w].step = "idle" /\ claim[s].host # None /\ ~claim[s].verified
  /\ domReq' = [domReq EXCEPT ![w] =
       [step |-> "lookup", site |-> s, host |-> claim[s].host, token |-> claim[s].token]]
  /\ UNCHANGED <<claim, token, txt>>

\* verify_domain() looks the record up; when it is there, the store's row is
\* marked verified, whatever it claims by now.
VerifyLookup(w) ==
  LET r == domReq[w] IN
  /\ r.step = "lookup"
  /\ claim' \in {claim} \cup (IF r.token \in txt[r.host]
                              THEN {[claim EXCEPT ![r.site].verified = TRUE]} ELSE {})
  /\ DomDone(w) /\ UNCHANGED <<token, txt>>

\* merchant_delete_custom_domain().
ReleaseHost(s) ==
  /\ claim[s].host # None /\ claim' = [claim EXCEPT ![s] = NoClaim]
  /\ UNCHANGED <<token, txt, domReq>>

\* _store_for_host(): the stores a request for h may be served by.
ServedBy(h) == {s \in Sites : claim[s].host = h /\ claim[s].verified}

DomainsInit ==
  /\ claim = [s \in Sites |-> NoClaim] /\ token = 0
  /\ txt = [h \in Hosts |-> {}] /\ domReq = [w \in Threads |-> NoDomReq]

DomainsNext ==
  \/ \E h \in Hosts : Publish(h)
  \/ \E s \in Sites : ReleaseHost(s)
  \/ \E w \in Threads :
       \/ \E s \in Sites, h \in Hosts : ClaimRead(w, s, h)
       \/ \E s \in Sites : VerifyLoad(w, s)
       \/ ClaimCommit(w) \/ VerifyLookup(w)

DomainsSpec == DomainsInit /\ [][DomainsNext]_domVars

-----------------------------------------------------------------------------
(* Properties *)

DomainsTypeOK ==
  /\ claim \in [Sites -> [host : Hosts \cup {None}, token : 0..MaxTokens, verified : BOOLEAN]]
  /\ token \in 0..MaxTokens /\ txt \in [Hosts -> SUBSET (1..MaxTokens)]
  /\ domReq \in [Threads -> [step : {"idle", "claim", "lookup"}, site : Sites \cup {None},
                             host : Hosts \cup {None}, token : 0..MaxTokens]]

\* A host never leads to two stores, and while its owner's store holds it,
\* verified, nobody else holds it: a claim raced at the unique index is refused.
OneStorePerHost ==
  \A h \in Hosts : Cardinality(Claimants(h)) <= 1

(* Statements of the repository that the code does not keep (README). *)

\* A host is only served by a store whose owner controls it (app/dashboard.py:
\* 372-375, app/main.py:511-513): the verification is of that claim.
ServedByItsOwner ==
  \A h \in Hosts : ServedBy(h) \subseteq {Controls[h]}

=============================================================================
