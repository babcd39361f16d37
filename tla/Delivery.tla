------------------------------ MODULE Delivery ------------------------------
(***************************************************************************)
(* What a buyer does with a sale (app/delivery.py and its routes): sign in *)
(* with a single-use nonce, get download links again, download within a    *)
(* cap, bind devices to a licence, evaluate and review the order, while    *)
(* the merchant may refund it.                                             *)
(*                                                                         *)
(* Abstractions: one delivered order whose entitlement stands for a file   *)
(* and for a licence; the buyer's wallet is the order's payer; a nonce     *)
(* expires at any time; a token is a capability one holds or does not.     *)
(***************************************************************************)
EXTENDS Server

CONSTANTS
  Nonces,          \* sign-in nonces of the wallet, by purpose buyer or merchant
  Devices,         \* device ids of the licence
  MaxDownloads, MaxActivations

ASSUME DeliveryAssumption ==
  /\ MaxDownloads \in Nat /\ MaxActivations \in Nat
  /\ IsFiniteSet(Devices) /\ None \notin Devices \cup Nonces

VARIABLES
  nonce,      \* auth_nonces: none, live, used, expired or pruned
  minted,     \* how many session tokens a nonce was exchanged for
  signedIn,   \* the wallet holds a session
  ent,        \* the entitlement: revoked, downloads, used
  link,       \* download links the buyer holds: none, fresh, expired
  streamed,   \* how often the bytes were sent
  device,     \* license_activations: none, active or freed
  order,      \* the sale: its eval_status, and whether it is reviewed
  delReq      \* locals of the requests in flight

delVars == <<nonce, minted, signedIn, ent, link, streamed, device, order, delReq>>

-----------------------------------------------------------------------------

Entitlement == [revoked : BOOLEAN, downloads : Nat, used : Nat]
Sale == [eval : {"pending", "confirmed", "rejected"}, reviewed : BOOLEAN]
NoDelReq == [step |-> "idle", arg |-> None]

DelBecome(w, step, arg) == delReq' = [delReq EXCEPT ![w] = [step |-> step, arg |-> arg]]
DelDone(w) == delReq' = [delReq EXCEPT ![w] = NoDelReq]

-----------------------------------------------------------------------------
(* Sign-in *)

\* issue_nonce(): the wallet's expired rows are pruned first.
IssueNonce(n) ==
  /\ nonce[n] = "none"
  /\ nonce' = [m \in Nonces |-> IF m = n THEN "live"
                                ELSE IF nonce[m] = "expired" THEN "pruned" ELSE nonce[m]]
  /\ UNCHANGED <<minted, signedIn, ent, link, streamed, device, order, delReq>>

ExpireNonce(n) ==
  /\ nonce[n] = "live" /\ nonce' = [nonce EXCEPT ![n] = "expired"]
  /\ UNCHANGED <<minted, signedIn, ent, link, streamed, device, order, delReq>>

\* verify_signin(): the live nonces are read and the signature is matched.
SigninRead(w, n) ==
  /\ delReq[w].step = "idle" /\ nonce[n] = "live"
  /\ DelBecome(w, "signin", n)
  /\ UNCHANGED <<nonce, minted, signedIn, ent, link, streamed, device, order>>

\* Mutant of SigninConsume: used_at is written without looking at it.
SigninConsumeAgain(w) ==
  LET n == delReq[w].arg IN
  /\ delReq[w].step = "signin" /\ nonce' = [nonce EXCEPT ![n] = "used"]
  /\ minted' = [minted EXCEPT ![n] = @ + 1] /\ signedIn' = TRUE /\ DelDone(w)
  /\ UNCHANGED <<ent, link, streamed, device, order>>

\* The conditional UPDATE: only an unused row that still exists is consumed.
SigninConsume(w) ==
  LET n == delReq[w].arg IN
  /\ delReq[w].step = "signin"
  /\ IF nonce[n] \in {"live", "expired"}
       THEN /\ nonce' = [nonce EXCEPT ![n] = "used"]
            /\ minted' = [minted EXCEPT ![n] = @ + 1] /\ signedIn' = TRUE
       ELSE UNCHANGED <<nonce, minted, signedIn>>
  /\ DelDone(w) /\ UNCHANGED <<ent, link, streamed, device, order>>

SessionExpires ==
  /\ signedIn /\ signedIn' = FALSE
  /\ UNCHANGED <<nonce, minted, ent, link, streamed, device, order, delReq>>

-----------------------------------------------------------------------------
(* Links and downloads *)

Delivered == ~ent.revoked

\* GET /api/library: the payer's deliveries, each with a fresh link.
Library ==
  /\ signedIn /\ Delivered /\ link' = "fresh"
  /\ UNCHANGED <<nonce, minted, signedIn, ent, streamed, device, order, delReq>>

\* The magic link that the email route mails to a proven payer.
Redeliver ==
  /\ Delivered /\ link' = "fresh"
  /\ UNCHANGED <<nonce, minted, signedIn, ent, streamed, device, order, delReq>>

LinkExpires ==
  /\ link = "fresh" /\ link' = "expired"
  /\ UNCHANGED <<nonce, minted, signedIn, ent, streamed, device, order, delReq>>

\* The download route: the token, the entitlement and the order are read.
DownloadRead(w) ==
  /\ delReq[w].step = "idle" /\ link = "fresh" /\ Delivered
  /\ DelBecome(w, "download", None)
  /\ UNCHANGED <<nonce, minted, signedIn, ent, link, streamed, device, order>>

\* claim_download(): count < max and not revoked, in one UPDATE.
ClaimDownload(w) ==
  /\ delReq[w].step = "download"
  /\ IF ent.downloads < MaxDownloads /\ ~ent.revoked
       THEN ent' = [ent EXCEPT !.downloads = @ + 1] /\ streamed' = streamed + 1
       ELSE UNCHANGED <<ent, streamed>>
  /\ DelDone(w) /\ UNCHANGED <<nonce, minted, signedIn, link, device, order>>

-----------------------------------------------------------------------------
(* Licences *)

\* _license_context() and the device's row are read.
ActivateRead(w, d) ==
  /\ delReq[w].step = "idle" /\ Delivered /\ device[d] # "active"
  /\ DelBecome(w, IF device[d] = "none" THEN "insert" ELSE "reactivate", d)
  /\ UNCHANGED <<nonce, minted, signedIn, ent, link, streamed, device, order>>

\* Mutant of ActivateWrite: the loser of a race keeps the slot it took.
ActivateWriteKeep(w) ==
  LET d == delReq[w].arg IN
  /\ delReq[w].step \in {"insert", "reactivate"}
  /\ IF ent.used < MaxActivations /\ ~ent.revoked
       THEN /\ ent' = [ent EXCEPT !.used = @ + 1]
            /\ device' = [device EXCEPT ![d] = "active"]
       ELSE UNCHANGED <<ent, device>>
  /\ DelDone(w) /\ UNCHANGED <<nonce, minted, signedIn, link, streamed, order>>

\* activate_license(): take a slot below the cap, then insert or reactivate the
\* row; if another request did that meanwhile, the slot is given back.
ActivateWrite(w) ==
  LET d == delReq[w].arg
      won == device[d] = IF delReq[w].step = "insert" THEN "none" ELSE "freed" IN
  /\ delReq[w].step \in {"insert", "reactivate"}
  /\ IF ent.used < MaxActivations /\ ~ent.revoked /\ won
       THEN /\ ent' = [ent EXCEPT !.used = @ + 1]
            /\ device' = [device EXCEPT ![d] = "active"]
       ELSE UNCHANGED <<ent, device>>
  /\ DelDone(w) /\ UNCHANGED <<nonce, minted, signedIn, link, streamed, order>>

DeactivateRead(w, d) ==
  /\ delReq[w].step = "idle" /\ Delivered /\ device[d] = "active"
  /\ DelBecome(w, "deactivate", d)
  /\ UNCHANGED <<nonce, minted, signedIn, ent, link, streamed, device, order>>

\* deactivate_license(): the row found active is written by its id, and the
\* counter goes down, also when another request freed the device first.
DeactivateWrite(w) ==
  /\ delReq[w].step = "deactivate"
  /\ device' = [device EXCEPT ![delReq[w].arg] = "freed"]
  /\ ent' = [ent EXCEPT !.used = IF @ > 0 THEN @ - 1 ELSE 0]
  /\ DelDone(w) /\ UNCHANGED <<nonce, minted, signedIn, link, streamed, order>>

-----------------------------------------------------------------------------
(* Evaluation, review, refund *)

\* POST /api/library/evaluate loads the order of the wallet.
EvaluateRead(w, verdict) ==
  /\ delReq[w].step = "idle" /\ signedIn /\ Delivered /\ order.eval = "pending"
  /\ DelBecome(w, verdict, None)
  /\ UNCHANGED <<nonce, minted, signedIn, ent, link, streamed, device, order>>

EvaluateWrite(w) ==
  /\ delReq[w].step \in {"confirmed", "rejected"}
  /\ order' = [order EXCEPT !.eval = delReq[w].step]
  /\ DelDone(w) /\ UNCHANGED <<nonce, minted, signedIn, ent, link, streamed, device>>

\* POST /api/library/review: the order is checked, the text is screened, then
\* UNIQUE(order_id) admits one row.
ReviewRead(w) ==
  /\ delReq[w].step = "idle" /\ signedIn /\ Delivered
  /\ DelBecome(w, "review", None)
  /\ UNCHANGED <<nonce, minted, signedIn, ent, link, streamed, device, order>>

ReviewWrite(w) ==
  /\ delReq[w].step = "review"
  /\ order' \in {order, [order EXCEPT !.reviewed = TRUE]}
  /\ DelDone(w) /\ UNCHANGED <<nonce, minted, signedIn, ent, link, streamed, device>>

\* revoke_entitlement(), in the transaction of a full refund.
Revoke ==
  /\ ~ent.revoked /\ ent' = [ent EXCEPT !.revoked = TRUE]
  /\ UNCHANGED <<nonce, minted, signedIn, link, streamed, device, order, delReq>>

DeliveryInit ==
  /\ nonce = [n \in Nonces |-> "none"] /\ minted = [n \in Nonces |-> 0] /\ signedIn = FALSE
  /\ ent = [revoked |-> FALSE, downloads |-> 0, used |-> 0]
  /\ link = "none" /\ streamed = 0 /\ device = [d \in Devices |-> "none"]
  /\ order = [eval |-> "pending", reviewed |-> FALSE]
  /\ delReq = [w \in Threads |-> NoDelReq]

DeliveryNext ==
  \/ \E n \in Nonces : IssueNonce(n) \/ ExpireNonce(n)
  \/ SessionExpires \/ Library \/ Redeliver \/ LinkExpires \/ Revoke
  \/ \E w \in Threads :
       \/ \E n \in Nonces : SigninRead(w, n)
       \/ \E d \in Devices : ActivateRead(w, d) \/ DeactivateRead(w, d)
       \/ \E v \in {"confirmed", "rejected"} : EvaluateRead(w, v)
       \/ SigninConsume(w) \/ DownloadRead(w) \/ ClaimDownload(w) \/ ActivateWrite(w)
       \/ DeactivateWrite(w) \/ EvaluateWrite(w) \/ ReviewRead(w) \/ ReviewWrite(w)

DeliverySpec == DeliveryInit /\ [][DeliveryNext]_delVars

-----------------------------------------------------------------------------
(* Properties *)

DeliveryTypeOK ==
  /\ nonce \in [Nonces -> {"none", "live", "used", "expired", "pruned"}]
  /\ ent \in Entitlement /\ link \in {"none", "fresh", "expired"}
  /\ device \in [Devices -> {"none", "active", "freed"}] /\ order \in Sale

\* What may be used so often is used no oftener, however many requests were
\* under way: a nonce signs in once, whoever presents its signature and when,
\* and the bytes leave MaxDownloads times, however many links were re-issued.
LimitsHold ==
  /\ \A n \in Nonces : minted[n] <= 1
  /\ streamed <= MaxDownloads

ActiveDevices == {d \in Devices : device[d] = "active"}

\* No activation slot leaks: the counter that refuses a buyer a device never
\* runs ahead of the devices that hold a slot, in any race of activations and
\* deactivations.
NoSlotLeaked == ent.used <= Cardinality(ActiveDevices)

(* Statements of the repository that the code does not keep (README). *)

\* app/delivery.py:368-369: the activations can never exceed the cap.
ActivationsCapped == Cardinality(ActiveDevices) <= MaxActivations

\* app/main.py:2926-2927: a settled evaluation is not re-opened.
EvaluationSettles ==
  [][order.eval # "pending" => order'.eval = order.eval]_order

=============================================================================
