----------------------------- MODULE BuyerProofs -----------------------------
(***************************************************************************)
(* Proofs about what a buyer is let do: sign-in, downloads and licences    *)
(* (Delivery), agent checkout sessions (Acp), tier prices (Tiers) and the  *)
(* goods on offer (Goods).  Requests read a row, and write it in a later   *)
(* transaction; the invariants say what the write may still rely on.       *)
(***************************************************************************)
EXTENDS Delivery, Acp, Tiers, Goods, SumLemmas

-----------------------------------------------------------------------------
(* Delivery *)

DelRequest ==
  [step : {"idle", "signin", "download", "insert", "reactivate", "deactivate", "confirmed",
           "rejected", "review"}, arg : Nonces \cup Devices \cup {None}]

\* A request that signs in names a nonce, one that binds or frees names a device.
DelLocals ==
  \A w \in Threads :
    /\ delReq[w].step = "signin" => delReq[w].arg \in Nonces
    /\ delReq[w].step \in {"insert", "reactivate", "deactivate"} => delReq[w].arg \in Devices

\* Each consumption of a nonce uses it up, each download is counted, and each
\* slot in use is held by a device.
DelHolds ==
  /\ \A n \in Nonces : minted[n] = IF nonce[n] = "used" THEN 1 ELSE 0
  /\ streamed = ent.downloads /\ ent.downloads <= MaxDownloads
  /\ ent.used <= Cardinality(ActiveDevices)

DeliveryInv ==
  /\ DeliveryTypeOK /\ minted \in [Nonces -> Nat] /\ delReq \in [Threads -> DelRequest]
  /\ DelLocals /\ DelHolds

LEMMA DevicesFinite ==
  \A dev : /\ IsFiniteSet({d \in Devices : dev[d] = "active"})
           /\ Cardinality({d \in Devices : dev[d] = "active"}) \in Nat
PROOF
  <1> TAKE dev
  <1>1. IsFiniteSet({d \in Devices : dev[d] = "active"})
    BY DeliveryAssumption, FS_Subset
  <1> QED
    BY <1>1, FS_CardinalityType

\* Requests that only read, and what changes neither nonces, slots nor bytes.
LEMMA DelReads ==
  ASSUME DeliveryInv, UNCHANGED <<nonce, minted, ent, streamed, device>>,
         link' \in {"none", "fresh", "expired"}, order' \in Sale,
         delReq' \in [Threads -> DelRequest], DelLocals'
  PROVE  DeliveryInv'
PROOF
  <1>1. ActiveDevices' = ActiveDevices
    BY DEF ActiveDevices
  <1>2. DelHolds'
    BY <1>1 DEF DeliveryInv, DelHolds
  <1> QED
    BY <1>2 DEF DeliveryInv, DeliveryTypeOK

LEMMA DelBecomes ==
  ASSUME DeliveryInv, NEW w \in Threads, NEW r \in DelRequest,
         r.step = "signin" => r.arg \in Nonces,
         r.step \in {"insert", "reactivate", "deactivate"} => r.arg \in Devices,
         delReq' = [delReq EXCEPT ![w] = r]
  PROVE  delReq' \in [Threads -> DelRequest] /\ DelLocals'
PROOF
  <1>1. delReq \in [Threads -> DelRequest]
    BY DEF DeliveryInv
  <1>2. \A x \in Threads : delReq'[x] = IF x = w THEN r ELSE delReq[x]
    BY <1>1
  <1> QED
    BY <1>1, <1>2 DEF DeliveryInv, DelLocals

LEMMA DelDoneHolds ==
  ASSUME DeliveryInv, NEW w \in Threads, DelDone(w)
  PROVE  delReq' \in [Threads -> DelRequest] /\ DelLocals'
PROOF
  <1>1. PICK r : r = NoDelReq
    OBVIOUS
  <1>2. r \in DelRequest /\ r.step = "idle" /\ delReq' = [delReq EXCEPT ![w] = r]
    BY <1>1 DEF DelDone, NoDelReq, DelRequest
  <1> QED
    BY <1>2, DelBecomes

\* Nonces: issued once, expired, pruned, or used by the one UPDATE that finds
\* the row unused.
LEMMA DelNonces ==
  ASSUME DeliveryInv, UNCHANGED <<ent, streamed, device, link, order>>,
         nonce' \in [Nonces -> {"none", "live", "used", "expired", "pruned"}],
         minted' \in [Nonces -> Nat],
         \A n \in Nonces : \/ nonce'[n] = nonce[n] /\ minted'[n] = minted[n]
                           \/ nonce[n] # "used" /\ nonce'[n] # "used" /\ minted'[n] = minted[n]
                           \/ nonce[n] # "used" /\ nonce'[n] = "used" /\ minted'[n] = minted[n] + 1,
         delReq' \in [Threads -> DelRequest], DelLocals'
  PROVE  DeliveryInv'
PROOF
  <1>1. ActiveDevices' = ActiveDevices
    BY DEF ActiveDevices
  <1>2. \A n \in Nonces : minted'[n] = IF nonce'[n] = "used" THEN 1 ELSE 0
    BY DEF DeliveryInv, DelHolds
  <1>3. DelHolds'
    BY <1>1, <1>2 DEF DeliveryInv, DelHolds
  <1> QED
    BY <1>3 DEF DeliveryInv, DeliveryTypeOK

LEMMA SigninConsume_Del ==
  ASSUME DeliveryInv, NEW w \in Threads, SigninConsume(w) PROVE DeliveryInv'
PROOF
  <1>1. PICK n \in Nonces : n = delReq[w].arg
    BY DEF SigninConsume, DeliveryInv, DelLocals
  <1>2. DelDone(w) /\ UNCHANGED <<ent, link, streamed, device, order>>
    BY DEF SigninConsume
  <1>3. CASE UNCHANGED <<nonce, minted>>
    BY <1>2, <1>3, DelDoneHolds, DelReads DEF DeliveryInv, DeliveryTypeOK
  <1>4. CASE /\ nonce[n] \in {"live", "expired"}
             /\ nonce' = [nonce EXCEPT ![n] = "used"] /\ minted' = [minted EXCEPT ![n] = @ + 1]
    BY <1>2, <1>4, DelDoneHolds, DelNonces DEF DeliveryInv, DeliveryTypeOK
  <1> QED
    BY <1>1, <1>3, <1>4 DEF SigninConsume

LEMMA ClaimDownload_Del ==
  ASSUME DeliveryInv, NEW w \in Threads, ClaimDownload(w) PROVE DeliveryInv'
PROOF
  <1>1. DelDone(w) /\ UNCHANGED <<nonce, minted, signedIn, link, device, order>>
    BY DEF ClaimDownload
  <1>2. CASE UNCHANGED <<ent, streamed>>
    BY <1>1, <1>2, DelDoneHolds, DelReads DEF DeliveryInv, DeliveryTypeOK
  <1>3. CASE /\ ent.downloads < MaxDownloads
             /\ ent' = [ent EXCEPT !.downloads = @ + 1] /\ streamed' = streamed + 1
    <2>1. ent' \in Entitlement /\ ent'.downloads = ent.downloads + 1 /\ ent'.used = ent.used
      BY <1>3 DEF DeliveryInv, DeliveryTypeOK, Entitlement
    <2>2. ActiveDevices' = ActiveDevices
      BY <1>1 DEF ActiveDevices
    <2>3. ent.downloads \in Nat /\ MaxDownloads \in Nat
      BY DeliveryAssumption DEF DeliveryInv, DeliveryTypeOK, Entitlement
    <2>4. DelHolds'
      BY <1>1, <1>3, <2>1, <2>2, <2>3 DEF DeliveryInv, DelHolds
    <2> QED
      BY <1>1, <2>1, <2>4, DelDoneHolds DEF DeliveryInv, DeliveryTypeOK
  <1> QED
    BY <1>2, <1>3 DEF ClaimDownload

\* The slot that a licence takes or gives back is the device's.
LEMMA DelSlots ==
  ASSUME DeliveryInv, NEW w \in Threads, DelDone(w),
         UNCHANGED <<nonce, minted, link, streamed, order>>,
         device' \in [Devices -> {"none", "active", "freed"}],
         ent' \in Entitlement, ent'.downloads = ent.downloads,
         ent'.used <= Cardinality(ActiveDevices')
  PROVE  DeliveryInv'
BY DelDoneHolds DEF DeliveryInv, DeliveryTypeOK, DelHolds

LEMMA ActivateWrite_Del ==
  ASSUME DeliveryInv, NEW w \in Threads, ActivateWrite(w) PROVE DeliveryInv'
PROOF
  <1>1. PICK d \in Devices : d = delReq[w].arg
    BY DEF ActivateWrite, DeliveryInv, DelLocals
  <1>2. DelDone(w) /\ UNCHANGED <<nonce, minted, signedIn, link, streamed, order>>
    BY DEF ActivateWrite
  <1>3. CASE UNCHANGED <<ent, device>>
    BY <1>2, <1>3, DelDoneHolds, DelReads DEF DeliveryInv, DeliveryTypeOK
  <1>4. CASE /\ device[d] # "active" /\ ent' = [ent EXCEPT !.used = @ + 1]
             /\ device' = [device EXCEPT ![d] = "active"]
    <2>1. /\ ent' \in Entitlement /\ ent'.downloads = ent.downloads
          /\ ent'.used = ent.used + 1 /\ ent.used \in Nat
      BY <1>4 DEF DeliveryInv, DeliveryTypeOK, Entitlement
    <2>2. ActiveDevices' = ActiveDevices \cup {d} /\ d \notin ActiveDevices
      BY <1>4 DEF ActiveDevices, DeliveryInv, DeliveryTypeOK
    <2>3. IsFiniteSet(ActiveDevices) /\ Cardinality(ActiveDevices) \in Nat
      BY DevicesFinite DEF ActiveDevices
    <2>4. Cardinality(ActiveDevices \cup {d}) = Cardinality(ActiveDevices) + 1
      BY <2>2, <2>3, FS_AddElement
    <2>5. ent'.used <= Cardinality(ActiveDevices')
      BY <2>1, <2>2, <2>3, <2>4 DEF DeliveryInv, DelHolds
    <2>6. device' \in [Devices -> {"none", "active", "freed"}]
      BY <1>4 DEF DeliveryInv, DeliveryTypeOK
    <2> QED
      BY <1>2, <2>1, <2>5, <2>6, DelSlots
  <1> QED
    BY <1>1, <1>3, <1>4 DEF ActivateWrite

LEMMA DeactivateWrite_Del ==
  ASSUME DeliveryInv, NEW w \in Threads, DeactivateWrite(w) PROVE DeliveryInv'
PROOF
  <1>1. PICK d \in Devices : d = delReq[w].arg
    BY DEF DeactivateWrite, DeliveryInv, DelLocals
  <1>2. /\ DelDone(w) /\ UNCHANGED <<nonce, minted, signedIn, link, streamed, order>>
        /\ device' = [device EXCEPT ![d] = "freed"]
        /\ ent' = [ent EXCEPT !.used = IF @ > 0 THEN @ - 1 ELSE 0]
    BY <1>1 DEF DeactivateWrite
  <1>3. PICK u \in Nat : u = IF ent.used > 0 THEN ent.used - 1 ELSE 0
    BY DEF DeliveryInv, DeliveryTypeOK, Entitlement
  <1>4. ent' \in Entitlement /\ ent'.downloads = ent.downloads /\ ent'.used = u
    BY <1>2, <1>3 DEF DeliveryInv, DeliveryTypeOK, Entitlement
  <1>5. ActiveDevices' = ActiveDevices \ {d}
    BY <1>2 DEF ActiveDevices, DeliveryInv, DeliveryTypeOK
  <1>6. IsFiniteSet(ActiveDevices) /\ Cardinality(ActiveDevices) \in Nat
    BY DevicesFinite DEF ActiveDevices
  <1>7. Cardinality(ActiveDevices \ {d}) >= Cardinality(ActiveDevices) - 1
        /\ Cardinality(ActiveDevices \ {d}) \in Nat
    <2>1. Cardinality(ActiveDevices \ {d})
            = IF d \in ActiveDevices THEN Cardinality(ActiveDevices) - 1 ELSE Cardinality(ActiveDevices)
      BY <1>6, FS_RemoveElement
    <2>2. Cardinality(ActiveDevices \ {d}) \in Nat
      BY <1>6, FS_Subset, FS_CardinalityType
    <2> QED
      BY <1>6, <2>1, <2>2
  <1>8. ent.used <= Cardinality(ActiveDevices) /\ ent.used \in Nat
    BY DEF DeliveryInv, DelHolds, DeliveryTypeOK, Entitlement
  <1>9. ent'.used <= Cardinality(ActiveDevices')
    <2>1. PICK c \in Nat, e \in Nat : c = Cardinality(ActiveDevices) /\ e = Cardinality(ActiveDevices \ {d})
      BY <1>6, <1>7
    <2>2. u <= e
      BY <1>3, <1>6, <1>7, <1>8, <2>1
    <2> QED
      BY <1>4, <1>5, <2>1, <2>2
  <1>10. device' \in [Devices -> {"none", "active", "freed"}]
    BY <1>2 DEF DeliveryInv, DeliveryTypeOK
  <1> QED
    BY <1>2, <1>4, <1>9, <1>10, DelSlots

LEMMA DeliveryStep == DeliveryInv /\ [DeliveryNext]_delVars => DeliveryInv'
PROOF
  <1> SUFFICES ASSUME DeliveryInv, [DeliveryNext]_delVars PROVE DeliveryInv'
    OBVIOUS
  <1>0. /\ DeliveryTypeOK /\ minted \in [Nonces -> Nat] /\ delReq \in [Threads -> DelRequest]
        /\ DelLocals
    BY DEF DeliveryInv
  <1>1. ASSUME NEW n \in Nonces, IssueNonce(n) \/ ExpireNonce(n) PROVE DeliveryInv'
    <2>1. UNCHANGED <<minted, ent, streamed, device, link, order, delReq>>
      BY <1>1 DEF IssueNonce, ExpireNonce
    <2>2. nonce' \in [Nonces -> {"none", "live", "used", "expired", "pruned"}]
      BY <1>0, <1>1 DEF IssueNonce, ExpireNonce, DeliveryTypeOK
    <2>3. \A m \in Nonces : nonce'[m] = nonce[m] \/ (nonce[m] # "used" /\ nonce'[m] # "used")
      BY <1>0, <1>1 DEF IssueNonce, ExpireNonce, DeliveryTypeOK
    <2>4. DelLocals'
      BY <1>0, <2>1 DEF DelLocals
    <2> QED
      BY <1>0, <2>1, <2>2, <2>3, <2>4, DelNonces
  <1>2. ASSUME SessionExpires \/ Library \/ Redeliver \/ LinkExpires PROVE DeliveryInv'
    <2>1. /\ UNCHANGED <<nonce, minted, ent, streamed, device, order, delReq>>
          /\ link' \in {"none", "fresh", "expired"}
      BY <1>0, <1>2 DEF SessionExpires, Library, Redeliver, LinkExpires, DeliveryTypeOK
    <2>2. DelLocals'
      BY <1>0, <2>1 DEF DelLocals
    <2> QED
      BY <1>0, <2>1, <2>2, DelReads DEF DeliveryTypeOK
  <1>3. ASSUME Revoke PROVE DeliveryInv'
    <2>1. /\ ent' = [ent EXCEPT !.revoked = TRUE]
          /\ UNCHANGED <<nonce, minted, link, streamed, device, order, delReq>>
      BY <1>3 DEF Revoke
    <2>2. ent' \in Entitlement /\ ent'.downloads = ent.downloads /\ ent'.used = ent.used
      BY <1>0, <2>1 DEF DeliveryTypeOK, Entitlement
    <2>3. ActiveDevices' = ActiveDevices
      BY <2>1 DEF ActiveDevices
    <2>4. DelHolds'
      BY <2>1, <2>2, <2>3 DEF DeliveryInv, DelHolds
    <2>5. DelLocals'
      BY <1>0, <2>1 DEF DelLocals
    <2> QED
      BY <1>0, <2>1, <2>2, <2>4, <2>5 DEF DeliveryInv, DeliveryTypeOK
  <1>4. ASSUME NEW w \in Threads, NEW r \in DelRequest,
               r.step = "signin" => r.arg \in Nonces,
               r.step \in {"insert", "reactivate", "deactivate"} => r.arg \in Devices,
               delReq' = [delReq EXCEPT ![w] = r],
               UNCHANGED <<nonce, minted, ent, link, streamed, device, order>>
        PROVE  DeliveryInv'
    BY <1>0, <1>4, DelBecomes, DelReads DEF DeliveryTypeOK
  <1>5. ASSUME NEW w \in Threads, NEW n \in Nonces, SigninRead(w, n) PROVE DeliveryInv'
    <2>1. PICK r : r = [step |-> "signin", arg |-> n]
      OBVIOUS
    <2> QED
      BY <1>4, <1>5, <2>1 DEF SigninRead, DelBecome, DelRequest
  <1>6. ASSUME NEW w \in Threads, NEW d \in Devices, ActivateRead(w, d) \/ DeactivateRead(w, d)
        PROVE  DeliveryInv'
    <2>1. PICK r : /\ r \in [step : {"insert", "reactivate", "deactivate"}, arg : Devices]
                   /\ delReq' = [delReq EXCEPT ![w] = r]
      BY <1>6 DEF ActivateRead, DeactivateRead, DelBecome
    <2>2. r \in DelRequest /\ r.step # "signin" /\ r.arg \in Devices
      BY <2>1 DEF DelRequest
    <2> QED
      BY <1>4, <1>6, <2>1, <2>2 DEF ActivateRead, DeactivateRead
  <1>7. ASSUME NEW w \in Threads, NEW v \in {"confirmed", "rejected"},
               EvaluateRead(w, v) \/ DownloadRead(w) \/ ReviewRead(w)
        PROVE  DeliveryInv'
    <2>1. PICK r : /\ r \in [step : {"confirmed", "rejected", "download", "review"}, arg : {None}]
                   /\ delReq' = [delReq EXCEPT ![w] = r]
      BY <1>7 DEF EvaluateRead, DownloadRead, ReviewRead, DelBecome
    <2>2. r \in DelRequest /\ r.step \notin {"signin", "insert", "reactivate", "deactivate"}
      BY <2>1 DEF DelRequest
    <2> QED
      BY <1>4, <1>7, <2>1, <2>2 DEF EvaluateRead, DownloadRead, ReviewRead
  <1>8. ASSUME NEW w \in Threads, EvaluateWrite(w) \/ ReviewWrite(w) PROVE DeliveryInv'
    <2>1. DelDone(w) /\ UNCHANGED <<nonce, minted, signedIn, ent, link, streamed, device>>
      BY <1>8 DEF EvaluateWrite, ReviewWrite
    <2>2. order' \in Sale
      BY <1>0, <1>8 DEF EvaluateWrite, ReviewWrite, DeliveryTypeOK, Sale
    <2> QED
      BY <1>0, <2>1, <2>2, DelDoneHolds, DelReads DEF DeliveryTypeOK
  <1>9. ASSUME UNCHANGED delVars PROVE DeliveryInv'
    <2>1. DelLocals'
      BY <1>0, <1>9 DEF DelLocals, delVars
    <2> QED
      BY <1>0, <1>9, <2>1, DelReads DEF DeliveryTypeOK, delVars
  <1> QED
    BY <1>1, <1>2, <1>3, <1>5, <1>6, <1>7, <1>8, <1>9, SigninConsume_Del, ClaimDownload_Del,
       ActivateWrite_Del, DeactivateWrite_Del DEF DeliveryNext

LEMMA DeliveryStart == DeliveryInit => DeliveryInv
PROOF
  <1> SUFFICES ASSUME DeliveryInit PROVE DeliveryInv
    OBVIOUS
  <1> USE DEF DeliveryInit, NoDelReq
  <1>1. DeliveryTypeOK /\ minted \in [Nonces -> Nat] /\ delReq \in [Threads -> DelRequest]
    BY DEF DeliveryTypeOK, Entitlement, Sale, DelRequest
  <1>2. DelLocals
    BY DEF DelLocals
  <1>3. DelHolds
    <2>1. Cardinality(ActiveDevices) \in Nat
      BY DevicesFinite DEF ActiveDevices
    <2> QED
      BY <2>1, DeliveryAssumption DEF DelHolds
  <1> QED
    BY <1>1, <1>2, <1>3 DEF DeliveryInv

LEMMA DeliverySafe == DeliverySpec => []DeliveryInv
BY DeliveryStart, DeliveryStep, PTL DEF DeliverySpec

\* app/delivery.py, verify_signin() and claim_download(): the row is read in one
\* transaction and consumed in another; the conditional UPDATE alone keeps a
\* nonce to one session and the bytes to the cap, for any number of requests.
THEOREM LimitsAreHeld == DeliverySpec => []LimitsHold
PROOF
  <1>1. DeliveryInv => LimitsHold
    BY DeliveryAssumption DEF DeliveryInv, DelHolds, LimitsHold, DeliveryTypeOK, Entitlement
  <1> QED
    BY <1>1, DeliverySafe, PTL

\* app/delivery.py, activate_license() and deactivate_license(): the counter of
\* the entitlement never exceeds the devices that are bound.
THEOREM NoSlotLeaks == DeliverySpec => []NoSlotLeaked
PROOF
  <1>1. DeliveryInv => NoSlotLeaked
    BY DEF DeliveryInv, DelHolds, NoSlotLeaked
  <1> QED
    BY <1>1, DeliverySafe, PTL

-----------------------------------------------------------------------------
(* Agent checkout sessions *)

AcpRequest ==
  [step : {"idle", "create", "retrieve", "verify", "complete", "cancel"},
   id : Sessions \cup {None}, key : AcpKeys \cup {None}, row : AcpRow]

AcpInv ==
  /\ AcpTypeOK /\ acpReq \in [Threads -> AcpRequest]
  /\ \A w \in Threads :
       acpReq[w].step \in {"retrieve", "verify", "complete", "cancel"} =>
         acpReq[w].id \in Sessions /\ acp[acpReq[w].id].status # "none"
  /\ SessionsWrapOrders

\* What a session says may follow from what its order is.
Wrapped(row, st) ==
  /\ st # "none" => row.status # "none"
  /\ row.status = "completed" => st \in {"delivered", "refunded"}

\* What an order a session wraps can be.
WrappedStatus == {"none", "pending", "expired", "canceled", "paid", "delivered", "reorged", "refunded"}

\* A step on one session and its order, and on one request.
AcpWrite(s, w, row, st, r) ==
  /\ s \in Sessions /\ w \in Threads /\ row \in AcpRow /\ r \in AcpRequest
  /\ st \in WrappedStatus /\ Wrapped(row, st)
  /\ acp' = [acp EXCEPT ![s] = row] /\ acpOrder' = [acpOrder EXCEPT ![s] = st]
  /\ acp[s].status # "none" => row.status # "none"
  /\ row.key # acp[s].key => \A t \in Sessions : acp[t].key # row.key
  /\ acpReq' = [acpReq EXCEPT ![w] = r]
  /\ r.step \notin {"idle", "create"} =>
       /\ r.id = acpReq[w].id
       /\ acpReq[w].step \in {"retrieve", "verify", "complete", "cancel"}

LEMMA AcpWrites ==
  ASSUME AcpInv, NEW s, NEW w, NEW row, NEW st, NEW r, AcpWrite(s, w, row, st, r)
  PROVE  AcpInv'
PROOF
  <1> USE DEF AcpWrite
  <1>1. /\ acp \in [Sessions -> AcpRow] /\ acpReq \in [Threads -> AcpRequest]
        /\ AcpTypeOK /\ SessionsWrapOrders
    BY DEF AcpInv, AcpTypeOK
  <1>2. /\ \A t \in Sessions : acp'[t] = IF t = s THEN row ELSE acp[t]
        /\ \A t \in Sessions : acpOrder'[t] = IF t = s THEN st ELSE acpOrder[t]
        /\ \A x \in Threads : acpReq'[x] = IF x = w THEN r ELSE acpReq[x]
    BY <1>1 DEF AcpTypeOK
  <1>3. AcpTypeOK' /\ acpReq' \in [Threads -> AcpRequest]
    BY <1>1 DEF AcpTypeOK, WrappedStatus
  <1>4. SessionsWrapOrders'
    <2> SUFFICES ASSUME NEW t \in Sessions
                 PROVE  /\ acp'[t].key # None => \A u \in Sessions \ {t} : acp'[u].key # acp'[t].key
                        /\ acpOrder'[t] # "none" => acp'[t].status # "none"
                        /\ acp'[t].status = "completed" => acpOrder'[t] \in {"delivered", "refunded"}
      BY DEF SessionsWrapOrders
    <2>1. acpOrder'[t] # "none" => acp'[t].status # "none"
      BY <1>1, <1>2 DEF SessionsWrapOrders, Wrapped
    <2>2. acp'[t].status = "completed" => acpOrder'[t] \in {"delivered", "refunded"}
      BY <1>1, <1>2 DEF SessionsWrapOrders, Wrapped
    <2>3. ASSUME acp'[t].key # None, NEW u \in Sessions \ {t} PROVE acp'[u].key # acp'[t].key
      BY <1>1, <1>2, <2>3 DEF SessionsWrapOrders
    <2> QED
      BY <2>1, <2>2, <2>3
  <1>5. ASSUME NEW x \in Threads, acpReq'[x].step \in {"retrieve", "verify", "complete", "cancel"}
        PROVE  acpReq'[x].id \in Sessions /\ acp'[acpReq'[x].id].status # "none"
    <2>1. acpReq'[x].id = acpReq[x].id
          /\ acpReq[x].step \in {"retrieve", "verify", "complete", "cancel"}
      BY <1>1, <1>2, <1>5 DEF AcpRequest
    <2>2. acpReq[x].id \in Sessions /\ acp[acpReq[x].id].status # "none"
      BY <2>1 DEF AcpInv
    <2> QED
      BY <1>2, <2>1, <2>2
  <1> QED
    BY <1>3, <1>4, <1>5 DEF AcpInv

LEMMA NoAcpReqTyped == NoAcpReq \in AcpRequest /\ NoAcpReq.step = "idle"
BY DEF NoAcpReq, NoAcp, AcpRequest, AcpRow, AcpStatus

\* A step that moves requests only.
LEMMA AcpMoves ==
  ASSUME AcpInv, UNCHANGED <<acp, acpOrder>>, NEW w \in Threads, NEW r \in AcpRequest,
         acpReq' = [acpReq EXCEPT ![w] = r],
         r.step \in {"retrieve", "verify", "complete", "cancel"} =>
           r.id \in Sessions /\ acp[r.id].status # "none"
  PROVE  AcpInv'
PROOF
  <1>1. acpReq \in [Threads -> AcpRequest]
    BY DEF AcpInv
  <1>2. \A x \in Threads : acpReq'[x] = IF x = w THEN r ELSE acpReq[x]
    BY <1>1
  <1> QED
    BY <1>1, <1>2 DEF AcpInv, AcpTypeOK, SessionsWrapOrders

LEMMA AcpEnds ==
  ASSUME AcpInv, UNCHANGED <<acp, acpOrder>>, NEW w \in Threads, AcpDone(w) PROVE AcpInv'
BY AcpMoves, NoAcpReqTyped DEF AcpDone

\* What a handler finds: the session of its request, and the order it wraps.
LEMMA AcpFound ==
  ASSUME AcpInv, NEW w \in Threads, acpReq[w].step \in {"retrieve", "verify", "complete", "cancel"}
  PROVE  \E s \in Sessions :
           /\ s = acpReq[w].id /\ acp[s] \in AcpRow /\ acp[s].status # "none"
           /\ acpReq[w] \in AcpRequest /\ Wrapped(acp[s], acpOrder[s])
           /\ acpOrder[s] \in WrappedStatus
BY DEF AcpInv, AcpTypeOK, SessionsWrapOrders, Wrapped, WrappedStatus

LEMMA RetrieveWrite_Acp == ASSUME AcpInv, NEW w \in Threads, RetrieveWrite(w) PROVE AcpInv'
PROOF
  <1>1. PICK s \in Sessions :
          /\ s = acpReq[w].id /\ acp[s] \in AcpRow /\ acp[s].status # "none"
          /\ acpReq[w] \in AcpRequest /\ Wrapped(acp[s], acpOrder[s])
          /\ acpOrder[s] \in WrappedStatus
    BY AcpFound DEF RetrieveWrite
  <1>2. PICK eff : eff = EffectiveStatus(acpReq[w].row, acpOrder[s])
    OBVIOUS
  <1>3. AcpDone(w) /\ UNCHANGED acpOrder
    BY DEF RetrieveWrite
  <1>4. CASE acp' = acp
    BY <1>3, <1>4, AcpEnds
  <1>5. CASE /\ acpReq[w].row.status \notin Closed
             /\ acp' = [acp EXCEPT ![s].status = eff]
    <2>1. /\ eff \in {"completed", "canceled", "ready_for_payment"}
          /\ eff = "completed" => acpOrder[s] = "delivered"
      BY <1>2, <1>5 DEF EffectiveStatus, Closed
    <2>2. PICK row : row = [acp[s] EXCEPT !.status = eff]
      OBVIOUS
    <2>3. /\ row \in AcpRow /\ row.status = eff /\ row.key = acp[s].key
          /\ acp' = [acp EXCEPT ![s] = row]
      BY <1>1, <1>5, <2>1, <2>2 DEF AcpRow, AcpStatus, AcpInv, AcpTypeOK
    <2>4. acpOrder' = [acpOrder EXCEPT ![s] = acpOrder[s]]
      BY <1>3 DEF AcpInv, AcpTypeOK
    <2>5. Wrapped(row, acpOrder[s]) /\ row.status # "none"
      BY <2>1, <2>3 DEF Wrapped
    <2>6. acpReq' = [acpReq EXCEPT ![w] = NoAcpReq]
      BY <1>3 DEF AcpDone
    <2>7. AcpWrite(s, w, row, acpOrder[s], NoAcpReq)
      BY <1>1, <2>3, <2>4, <2>5, <2>6, NoAcpReqTyped DEF AcpWrite
    <2> QED
      BY <2>7, AcpWrites
  <1> QED
    BY <1>1, <1>2, <1>4, <1>5 DEF RetrieveWrite

LEMMA CompleteWrite_Acp == ASSUME AcpInv, NEW w \in Threads, CompleteWrite(w) PROVE AcpInv'
PROOF
  <1>1. PICK s \in Sessions :
          /\ s = acpReq[w].id /\ acp[s] \in AcpRow /\ acp[s].status # "none"
          /\ acpReq[w] \in AcpRequest /\ Wrapped(acp[s], acpOrder[s])
          /\ acpOrder[s] \in WrappedStatus
    BY AcpFound DEF CompleteWrite
  <1>2. AcpDone(w) /\ UNCHANGED acpOrder
    BY DEF CompleteWrite
  <1>3. CASE acp' = acp
    BY <1>2, <1>3, AcpEnds
  <1>4. CASE acpOrder[s] = "delivered" /\ acp' = [acp EXCEPT ![s].status = "completed"]
    <2>1. PICK row : row = [acp[s] EXCEPT !.status = "completed"]
      OBVIOUS
    <2>2. /\ row \in AcpRow /\ row.status = "completed" /\ row.key = acp[s].key
          /\ acp' = [acp EXCEPT ![s] = row]
      BY <1>1, <1>4, <2>1 DEF AcpRow, AcpStatus, AcpInv, AcpTypeOK
    <2>3. acpOrder' = [acpOrder EXCEPT ![s] = acpOrder[s]]
      BY <1>2 DEF AcpInv, AcpTypeOK
    <2>4. Wrapped(row, acpOrder[s]) /\ row.status # "none"
      BY <1>4, <2>2 DEF Wrapped
    <2>5. acpReq' = [acpReq EXCEPT ![w] = NoAcpReq]
      BY <1>2 DEF AcpDone
    <2>6. AcpWrite(s, w, row, acpOrder[s], NoAcpReq)
      BY <1>1, <2>2, <2>3, <2>4, <2>5, NoAcpReqTyped DEF AcpWrite
    <2> QED
      BY <2>6, AcpWrites
  <1> QED
    BY <1>1, <1>3, <1>4 DEF CompleteWrite

LEMMA CancelWrite_Acp == ASSUME AcpInv, NEW w \in Threads, CancelWrite(w) PROVE AcpInv'
PROOF
  <1>1. PICK s \in Sessions :
          /\ s = acpReq[w].id /\ acp[s] \in AcpRow /\ acp[s].status # "none"
          /\ acpReq[w] \in AcpRequest /\ Wrapped(acp[s], acpOrder[s])
          /\ acpOrder[s] \in WrappedStatus
    BY AcpFound DEF CancelWrite
  <1>2. PICK st : st = IF acpOrder[s] \in {"pending", "expired"} THEN "canceled" ELSE acpOrder[s]
    OBVIOUS
  <1>3. PICK row : row = [acp[s] EXCEPT !.status = "canceled"]
    OBVIOUS
  <1>4. /\ row \in AcpRow /\ row.status = "canceled" /\ row.key = acp[s].key
        /\ acp' = [acp EXCEPT ![s] = row]
    BY <1>1, <1>3 DEF CancelWrite, AcpRow, AcpStatus, AcpInv, AcpTypeOK
  <1>5. /\ acpOrder' = [acpOrder EXCEPT ![s] = st]
        /\ st \in WrappedStatus
    BY <1>1, <1>2 DEF CancelWrite, AcpInv, AcpTypeOK, WrappedStatus
  <1>6. Wrapped(row, st) /\ row.status # "none"
    BY <1>4 DEF Wrapped
  <1>7. acpReq' = [acpReq EXCEPT ![w] = NoAcpReq]
    BY DEF CancelWrite, AcpDone
  <1>8. AcpWrite(s, w, row, st, NoAcpReq)
    BY <1>1, <1>4, <1>5, <1>6, <1>7, NoAcpReqTyped DEF AcpWrite
  <1> QED
    BY <1>8, AcpWrites

LEMMA CompleteVerify_Acp == ASSUME AcpInv, NEW w \in Threads, CompleteVerify(w) PROVE AcpInv'
PROOF
  <1>1. PICK s \in Sessions :
          /\ s = acpReq[w].id /\ acp[s] \in AcpRow /\ acp[s].status # "none"
          /\ acpReq[w] \in AcpRequest /\ Wrapped(acp[s], acpOrder[s])
          /\ acpOrder[s] \in WrappedStatus
    BY AcpFound DEF CompleteVerify
  <1>2. CASE AcpDone(w) /\ UNCHANGED acpOrder
    BY <1>2, AcpEnds DEF CompleteVerify
  <1>3. CASE /\ acpOrder[s] \in {"pending", "expired", "paid", "delivered"}
             /\ \E st \in {"paid", "delivered"} :
                  acpOrder' = [acpOrder EXCEPT ![s] = IF @ = "delivered" THEN @ ELSE st]
             /\ acpReq' = [acpReq EXCEPT ![w].step = "complete"]
    <2>1. PICK st \in {"paid", "delivered"} :
            /\ acpOrder' = [acpOrder EXCEPT ![s] = st]
            /\ acpOrder[s] = "delivered" => st = "delivered"
      BY <1>3 DEF AcpInv, AcpTypeOK
    <2>2. PICK r : r = [acpReq[w] EXCEPT !.step = "complete"]
      OBVIOUS
    <2>3. /\ r \in AcpRequest /\ r.step = "complete" /\ r.id = acpReq[w].id
          /\ acpReq' = [acpReq EXCEPT ![w] = r] /\ acpReq[w].step = "verify"
      BY <1>1, <1>3, <2>2 DEF AcpRequest, CompleteVerify, AcpInv
    <2>4. PICK row : row = acp[s]
      OBVIOUS
    <2>5. /\ row \in AcpRow /\ row.key = acp[s].key /\ acp' = [acp EXCEPT ![s] = row]
          /\ row.status # "none"
      BY <1>1, <2>4 DEF CompleteVerify, AcpInv, AcpTypeOK
    <2>6. Wrapped(row, st)
      BY <1>1, <1>3, <2>1, <2>4 DEF Wrapped
    <2>7. AcpWrite(s, w, row, st, r)
      BY <2>1, <2>3, <2>5, <2>6 DEF AcpWrite, WrappedStatus
    <2> QED
      BY <2>7, AcpWrites
  <1> QED
    BY <1>1, <1>2, <1>3 DEF CompleteVerify

\* The order and its session are one transaction.
LEMMA InsertSession_Acp == ASSUME AcpInv, NEW w \in Threads, InsertSession(w) PROVE AcpInv'
PROOF
  <1>1. AcpDone(w) /\ acpReq[w] \in AcpRequest
    BY DEF InsertSession, AcpInv
  <1>2. CASE UNCHANGED <<acp, acpOrder>>
    BY <1>1, <1>2, AcpEnds
  <1>3. CASE /\ ~ (acpReq[w].key # None /\ \E t \in Sessions : acp[t].key = acpReq[w].key)
             /\ \E s \in Sessions :
                  /\ acp[s].status = "none"
                  /\ acpOrder' = [acpOrder EXCEPT ![s] = "pending"]
                  /\ acp' = [acp EXCEPT ![s] = [status |-> "ready_for_payment", key |-> acpReq[w].key]]
    <2>1. PICK s \in Sessions :
            /\ acp[s].status = "none" /\ acpOrder' = [acpOrder EXCEPT ![s] = "pending"]
            /\ acp' = [acp EXCEPT ![s] = [status |-> "ready_for_payment", key |-> acpReq[w].key]]
      BY <1>3
    <2>2. PICK row : row = [status |-> "ready_for_payment", key |-> acpReq[w].key]
      OBVIOUS
    <2>3. row \in AcpRow /\ row.status = "ready_for_payment" /\ row.key = acpReq[w].key
      BY <1>1, <2>2 DEF AcpRow, AcpStatus, AcpRequest
    <2>4. CASE row.key # None
      <3>1. \A t \in Sessions : acp[t].key # row.key
        BY <1>3, <2>3, <2>4
      <3>2. Wrapped(row, "pending") /\ acp' = [acp EXCEPT ![s] = row]
            /\ acpReq' = [acpReq EXCEPT ![w] = NoAcpReq]
        BY <1>1, <2>1, <2>2, <2>3 DEF Wrapped, AcpDone
      <3>3. AcpWrite(s, w, row, "pending", NoAcpReq)
        BY <2>1, <2>3, <3>1, <3>2, NoAcpReqTyped DEF AcpWrite, WrappedStatus
      <3> QED
        BY <3>3, AcpWrites
    <2>5. CASE row.key = None
      <3>1. acpReq' = [acpReq EXCEPT ![w] = NoAcpReq] /\ acpReq' \in [Threads -> AcpRequest]
        BY <1>1, NoAcpReqTyped DEF AcpDone, AcpInv
      <3>2. /\ \A t \in Sessions : acp'[t] = IF t = s THEN row ELSE acp[t]
            /\ \A t \in Sessions : acpOrder'[t] = IF t = s THEN "pending" ELSE acpOrder[t]
            /\ AcpTypeOK'
        BY <2>1, <2>2, <2>3 DEF AcpInv, AcpTypeOK
      <3>3. SessionsWrapOrders'
        BY <2>3, <2>5, <3>2 DEF AcpInv, SessionsWrapOrders
      <3>4. \A x \in Threads : acpReq'[x] = IF x = w THEN NoAcpReq ELSE acpReq[x]
        BY <3>1 DEF AcpInv
      <3>5. \A x \in Threads :
              acpReq'[x].step \in {"retrieve", "verify", "complete", "cancel"} =>
                acpReq'[x].id \in Sessions /\ acp'[acpReq'[x].id].status # "none"
        BY <2>3, <3>2, <3>4, NoAcpReqTyped DEF AcpInv
      <3> QED
        BY <3>1, <3>2, <3>3, <3>5 DEF AcpInv
    <2> QED
      BY <2>4, <2>5
  <1> QED
    BY <1>2, <1>3 DEF InsertSession

LEMMA AcpStep == AcpInv /\ [AcpNext]_acpVars => AcpInv'
PROOF
  <1> SUFFICES ASSUME AcpInv, [AcpNext]_acpVars PROVE AcpInv'
    OBVIOUS
  <1>1. ASSUME NEW s \in Sessions, SweepOrder(s) PROVE AcpInv'
    <2>1. PICK st \in OrderSteps : acpOrder[s] = st[1] /\ acpOrder' = [acpOrder EXCEPT ![s] = st[2]]
      BY <1>1 DEF SweepOrder
    <2>2. /\ st[1] # "none" /\ (st[1] \in {"delivered", "refunded"} => st[2] = "refunded")
          /\ st[2] \in {"pending", "expired", "canceled", "paid", "delivered", "reorged", "refunded"}
      BY DEF OrderSteps
    <2>3. \A t \in Sessions : acpOrder'[t] = IF t = s THEN st[2] ELSE acpOrder[t]
      BY <2>1 DEF AcpInv, AcpTypeOK
    <2>4. UNCHANGED <<acp, acpReq>>
      BY <1>1 DEF SweepOrder
    <2>5. SessionsWrapOrders'
      BY <2>1, <2>2, <2>3, <2>4 DEF AcpInv, SessionsWrapOrders
    <2>6. AcpTypeOK'
      BY <2>1, <2>2, <2>4 DEF AcpInv, AcpTypeOK
    <2> QED
      BY <2>4, <2>5, <2>6 DEF AcpInv
  <1>2. ASSUME NEW w \in Threads, NEW key \in AcpKeys \cup {None}, CreateSession(w, key) PROVE AcpInv'
    <2>1. PICK r : r = [NoAcpReq EXCEPT !.step = "create", !.key = key]
      OBVIOUS
    <2>2. r \in AcpRequest /\ r.step = "create"
      BY <2>1, NoAcpReqTyped DEF AcpRequest
    <2> QED
      BY <1>2, <2>1, <2>2, AcpMoves DEF CreateSession
  <1>3. ASSUME NEW w \in Threads, NEW s \in Sessions, NEW step \in {"retrieve", "verify", "cancel"},
               LoadSession(w, s, step)
        PROVE  AcpInv'
    <2>1. PICK r : r = [step |-> step, id |-> s, key |-> None, row |-> acp[s]]
      OBVIOUS
    <2>2. r \in AcpRequest /\ r.id = s
      BY <2>1 DEF AcpRequest, AcpInv, AcpTypeOK
    <2> QED
      BY <1>3, <2>1, <2>2, AcpMoves DEF LoadSession
  <1>4. ASSUME NEW w \in Threads, AcpDies(w) PROVE AcpInv'
    BY <1>4, AcpEnds DEF AcpDies
  <1>5. ASSUME UNCHANGED acpVars PROVE AcpInv'
    BY <1>5 DEF acpVars, AcpInv, AcpTypeOK, SessionsWrapOrders
  <1> QED
    BY <1>1, <1>2, <1>3, <1>4, <1>5, InsertSession_Acp, RetrieveWrite_Acp, CompleteVerify_Acp,
       CompleteWrite_Acp, CancelWrite_Acp DEF AcpNext

LEMMA AcpStart == AcpInit => AcpInv
BY NoAcpReqTyped DEF AcpInit, AcpInv, AcpTypeOK, SessionsWrapOrders, NoAcp, AcpRow, AcpStatus

\* app/acp.py, _create_core() to _cancel_core(): the handlers write over a row
\* that they loaded before they asked the chain.  Still one key opens one
\* session, no order is left without one, and completed means delivered.
THEOREM SessionsAreWrapped == AcpSpec => []SessionsWrapOrders
PROOF
  <1>1. AcpInv => SessionsWrapOrders
    BY DEF AcpInv
  <1> QED
    BY <1>1, AcpStart, AcpStep, PTL DEF AcpSpec

-----------------------------------------------------------------------------
(* Tiers *)

BuyRow == [status : {"none", "settling", "settled"}, payer : Signers \cup {None},
           price : {"base", "tier"}, certified : BOOLEAN, flagged : BOOLEAN, owned : BOOLEAN]

\* While a purchase is settling, nothing is certified and the flag owned
\* remembers whether its payer is, or was, the owner.
TiersInv ==
  /\ TiersTypeOK /\ CertifiedOwned
  /\ \A b \in Buys :
       /\ buy[b].status # "settled" => ~buy[b].certified
       /\ buy[b].status = "settling" /\ buy[b].payer = agentOwner => buy[b].owned

LEMMA TransferAgent_Tiers == TiersInv /\ TransferAgent => TiersInv'
PROOF
  <1> SUFFICES ASSUME TiersInv, TransferAgent PROVE TiersInv'
    OBVIOUS
  <1>1. PICK a \in Signers \ {agentOwner} :
          /\ agentOwner' = a
          /\ buy' = [b \in Buys |-> IF buy[b].status = "settling" /\ buy[b].payer = a
                                    THEN [buy[b] EXCEPT !.owned = TRUE] ELSE buy[b]]
          /\ UNCHANGED <<tier, ownerCache>>
    BY DEF TransferAgent
  <1>2. TiersTypeOK'
    <2>1. agentOwner' \in Signers
      BY <1>1
    <2>2. ASSUME NEW b \in Buys PROVE buy'[b] \in BuyRow
      <3>1. buy[b] \in BuyRow /\ buy'[b] \in {buy[b], [buy[b] EXCEPT !.owned = TRUE]}
        BY <1>1 DEF TiersInv, TiersTypeOK, BuyRow
      <3> QED
        BY <3>1 DEF BuyRow
    <2> QED
      BY <1>1, <2>1, <2>2 DEF TiersInv, TiersTypeOK, BuyRow
  <1>3. \A b \in Buys :
          /\ buy'[b].status = buy[b].status /\ buy'[b].payer = buy[b].payer
          /\ buy'[b].certified = buy[b].certified /\ buy'[b].flagged = buy[b].flagged
          /\ buy'[b].price = buy[b].price /\ (buy[b].owned => buy'[b].owned)
          /\ (buy[b].status = "settling" /\ buy[b].payer = a => buy'[b].owned)
    BY <1>1 DEF TiersInv, TiersTypeOK
  <1> QED
    BY <1>1, <1>2, <1>3 DEF TiersInv, CertifiedOwned

LEMMA PlaceBuy_Tiers ==
  ASSUME TiersInv, NEW b \in Buys, NEW payer \in Signers, PlaceBuy(b, payer) PROVE TiersInv'
PROOF
  <1>1. PICK a \in IF tier THEN OwnerAnswers(FALSE) ELSE {None} :
          /\ Cached(a)
          /\ buy' = [buy EXCEPT ![b] =
               [NoBuy EXCEPT !.status = "settling", !.payer = payer,
                             !.price = IF TierApplies(payer, a) THEN "tier" ELSE "base",
                             !.owned = payer = agentOwner]]
    BY DEF PlaceBuy
  <1>2. a \in Signers \cup {None} /\ UNCHANGED <<agentOwner, tier>>
    BY <1>1 DEF PlaceBuy, OwnerAnswers, TiersInv, TiersTypeOK
  <1>3. ownerCache' \in Signers \cup {None}
    BY <1>1, <1>2 DEF Cached, TiersInv, TiersTypeOK
  <1>p. PICK price \in {"base", "tier"} : price = IF TierApplies(payer, a) THEN "tier" ELSE "base"
    OBVIOUS
  <1>o. PICK own \in BOOLEAN : own = (payer = agentOwner)
    OBVIOUS
  <1>4. PICK row : row = [NoBuy EXCEPT !.status = "settling", !.payer = payer,
                                       !.price = price, !.owned = own]
    OBVIOUS
  <1>5. buy' = [buy EXCEPT ![b] = row]
    BY <1>1, <1>p, <1>o, <1>4
  <1>6. \A x \in Buys : buy'[x] = IF x = b THEN row ELSE buy[x]
    BY <1>5 DEF TiersInv, TiersTypeOK
  <1>8. /\ row \in BuyRow
        /\ row.status = "settling" /\ row.payer = payer /\ ~row.certified /\ row.owned = own
    BY <1>4 DEF NoBuy, BuyRow
  <1>7. TiersTypeOK'
    BY <1>2, <1>3, <1>8, <1>5 DEF TiersInv, TiersTypeOK, BuyRow
  <1>9. own <=> payer = agentOwner
    BY <1>o
  <1> QED
    BY <1>2, <1>6, <1>7, <1>8, <1>9 DEF TiersInv, CertifiedOwned

\* The owner is asked afresh, so that an answer that certifies is the owner of
\* this moment.
LEMMA SettleTier_Tiers == ASSUME TiersInv, NEW b \in Buys, SettleTier(b) PROVE TiersInv'
PROOF
  <1>1. PICK a \in IF tier THEN OwnerAnswers(TRUE) ELSE {None} :
          /\ Cached(a)
          /\ buy' = [buy EXCEPT ![b].status = "settled",
                                ![b].certified = TierApplies(buy[b].payer, a),
                                ![b].flagged = buy[b].price = "tier" /\ ~TierApplies(buy[b].payer, a)]
    BY DEF SettleTier
  <1>2. a \in {agentOwner, None} /\ UNCHANGED <<agentOwner, tier>> /\ buy[b].status = "settling"
    BY <1>1 DEF SettleTier, OwnerAnswers
  <1>3. ownerCache' \in Signers \cup {None}
    BY <1>1, <1>2 DEF Cached, TiersInv, TiersTypeOK
  <1>4. TierApplies(buy[b].payer, a) \in BOOLEAN
        /\ (TierApplies(buy[b].payer, a) => buy[b].payer = agentOwner)
    BY <1>2 DEF TierApplies, TiersInv, TiersTypeOK
  <1>5. PICK yes \in BOOLEAN : yes = TierApplies(buy[b].payer, a)
    BY <1>4
  <1>f. PICK odd \in BOOLEAN : odd = (buy[b].price = "tier" /\ ~yes)
    OBVIOUS
  <1>r. PICK row : row = [buy[b] EXCEPT !.status = "settled", !.certified = yes, !.flagged = odd]
    OBVIOUS
  <1>6. buy' = [buy EXCEPT ![b] = row]
    BY <1>1, <1>5, <1>f, <1>r DEF TiersInv, TiersTypeOK
  <1>s. row \in BuyRow /\ row.status = "settled" /\ row.certified = yes /\ row.flagged = odd
        /\ row.owned = buy[b].owned /\ row.price = buy[b].price
    <2>1. buy[b] \in BuyRow
      BY DEF TiersInv, TiersTypeOK, BuyRow
    <2> QED
      BY <1>r, <2>1 DEF BuyRow
  <1>7. TiersTypeOK'
    <2>1. agentOwner \in Signers /\ tier \in BOOLEAN /\ buy \in [Buys -> BuyRow]
      BY DEF TiersInv, TiersTypeOK, BuyRow
    <2>2. buy' \in [Buys -> BuyRow]
      BY <1>6, <1>s, <2>1
    <2> QED
      BY <1>2, <1>3, <2>1, <2>2 DEF TiersTypeOK, BuyRow
  <1>8. \A x \in Buys :
          IF x = b
            THEN /\ buy'[x].status = "settled" /\ buy'[x].certified = yes
                 /\ buy'[x].owned = buy[x].owned /\ buy'[x].price = buy[x].price
                 /\ buy'[x].flagged = odd
            ELSE buy'[x] = buy[x]
    BY <1>6, <1>s DEF TiersInv, TiersTypeOK
  <1>9. buy[b].certified \in BOOLEAN /\ (yes => buy[b].owned)
    BY <1>2, <1>4, <1>5 DEF TiersInv, TiersTypeOK
  <1> QED
    BY <1>2, <1>7, <1>8, <1>9, <1>f DEF TiersInv, CertifiedOwned

LEMMA TiersStep == TiersInv /\ [TiersNext]_tierVars => TiersInv'
PROOF
  <1> SUFFICES ASSUME TiersInv, [TiersNext]_tierVars PROVE TiersInv'
    OBVIOUS
  <1>1. CASE SetTier \/ Quote \/ ExpireOwner
    BY ZenonT(60), <1>1 DEF SetTier, Quote, ExpireOwner, Cached, OwnerAnswers, TiersInv, TiersTypeOK, CertifiedOwned
  <1>2. CASE UNCHANGED tierVars
    BY <1>2 DEF tierVars, TiersInv, TiersTypeOK, CertifiedOwned
  <1> QED
    BY <1>1, <1>2, TransferAgent_Tiers, PlaceBuy_Tiers, SettleTier_Tiers DEF TiersNext

\* app/b2b.py, verify_agent_owner() and app/agentic.py, _settle_tier_data():
\* the price may rest on a cached owner; the settlement certifies a discount
\* to a payer who did own the agent id, and flags every other discount.
THEOREM TiersAreOwned == TiersSpec => []CertifiedOwned
PROOF
  <1>1. TiersInit => TiersInv
    BY DEF TiersInit, TiersInv, TiersTypeOK, CertifiedOwned, NoBuy
  <1>2. TiersInv => CertifiedOwned
    BY DEF TiersInv
  <1> QED
    BY <1>1, <1>2, TiersStep, PTL DEF TiersSpec

-----------------------------------------------------------------------------
(* Goods *)

\* Rows keep their shape, and any two active rows are the same row.
OneActive == \A d, e \in Rows : deliverable[d].active /\ deliverable[e].active => d = e

GoodsInv ==
  /\ deliverable \in [Rows -> [kind : GoodsKinds, version : Nat, active : BOOLEAN]]
  /\ goods \in [GoodsOrders -> [status : {"pending", "detected", "ready", "delivered"}, row : Rows \cup {0}]]
  /\ goodsReq \in [Threads -> [step : {"idle", "release", "detach"}, kind : GoodsKinds, version : Nat]]
  /\ OneActive

LEMMA RowsFinite ==
  ASSUME NEW S \in SUBSET Rows PROVE IsFiniteSet(S) /\ (S # {} => Max(S) \in S)
PROOF
  <1>1. IsFiniteSet(Rows)
    BY FS_Interval, GoodsAssumption DEF Rows
  <1>2. IsFiniteSet(S)
    BY <1>1, FS_Subset
  <1>3. S \subseteq Int
    BY DEF Rows
  <1> QED
    BY <1>2, <1>3, MaxOf

\* One active row means one row on offer, and the version that a past buyer is
\* moved to is that row.
LEMMA OneActiveOnOffer == GoodsInv => OneOnOffer
PROOF
  <1> SUFFICES ASSUME GoodsInv PROVE OneOnOffer
    OBVIOUS
  <1>1. \A d, e \in ActiveRows : d = e
    BY DEF GoodsInv, OneActive, ActiveRows
  <1>2. Cardinality(ActiveRows) <= 1
    <2>1. CASE ActiveRows = {}
      BY <2>1, FS_EmptySet
    <2>2. CASE ActiveRows # {}
      <3>1. PICK d : ActiveRows = {d}
        BY <1>1, <2>2
      <3> QED
        BY <3>1, FS_Singleton
    <2> QED
      BY <2>1, <2>2
  <1>3. ASSUME NEW d \in Rows PROVE CurrentVersion(d) \in ActiveRows \cup {d}
    <2> DEFINE newer == {e \in Lineage(deliverable[d].kind) \cap ActiveRows :
                           deliverable[e].version > deliverable[d].version}
    <2>1. CASE newer = {}
      BY <2>1 DEF CurrentVersion
    <2>2. CASE newer # {}
      <3>1. \A e, f \in newer : e = f /\ deliverable[e].version \in Nat
        BY <1>1 DEF GoodsInv, ActiveRows
      <3>2. \E e \in newer : \A f \in newer : deliverable[f].version <= deliverable[e].version
        BY <2>2, <3>1
      <3>3. CurrentVersion(d) = CHOOSE e \in newer : \A f \in newer : deliverable[f].version <= deliverable[e].version
        BY <2>2 DEF CurrentVersion
      <3>4. CurrentVersion(d) \in newer
        BY <3>2, <3>3
      <3> QED
        BY <3>4
    <2> QED
      BY <2>1, <2>2
  <1>4. \A o \in GoodsOrders : goods[o].row # 0 => goods[o].row \in Rows
    BY DEF GoodsInv
  <1> QED
    BY <1>2, <1>3, <1>4 DEF OneOnOffer

LEMMA GoodsReqMoves ==
  ASSUME GoodsInv, NEW w \in Threads, NEW kind \in GoodsKinds, NEW version \in Nat,
         NEW step \in {"idle", "release", "detach"},
         goodsReq' = [goodsReq EXCEPT ![w] = [step |-> step, kind |-> kind, version |-> version]],
         UNCHANGED <<deliverable, goods>>
  PROVE  GoodsInv'
PROOF
  <1>1. [step |-> step, kind |-> kind, version |-> version]
          \in [step : {"idle", "release", "detach"}, kind : GoodsKinds, version : Nat]
    OBVIOUS
  <1>2. goodsReq' \in [Threads -> [step : {"idle", "release", "detach"}, kind : GoodsKinds, version : Nat]]
    BY <1>1 DEF GoodsInv
  <1> QED
    BY <1>2 DEF GoodsInv, OneActive, Rows

LEMMA VersionRead_Goods ==
  ASSUME GoodsInv, NEW w \in Threads, NEW kind \in GoodsKinds, NEW versioned \in BOOLEAN,
         VersionRead(w, kind, versioned)
  PROVE  GoodsInv'
PROOF
  <1> DEFINE versions == {deliverable[d].version : d \in Lineage(kind)}
             version == IF versioned THEN 1 + Max(versions) ELSE 1
  <1>1. Lineage(kind) \in SUBSET Rows
    BY DEF Lineage, Released
  <1>2. IsFiniteSet(versions)
    <2>1. IsFiniteSet(Lineage(kind))
      BY <1>1, RowsFinite
    <2> DEFINE f == [d \in Lineage(kind) |-> deliverable[d].version]
    <2>2. f \in Surjection(Lineage(kind), versions)
      BY DEF Surjection
    <2> QED
      BY <2>1, <2>2, FS_Surjection
  <1>3. versions \subseteq Nat /\ versions \subseteq Int
    BY <1>1 DEF GoodsInv
  <1>4. versioned => versions # {}
    BY DEF VersionRead
  <1>5. versioned => Max(versions) \in Nat
    BY <1>2, <1>3, <1>4, MaxOf
  <1>6. version \in Nat
    BY <1>5
  <1>7. /\ goodsReq' = [goodsReq EXCEPT ![w] = [step |-> "release", kind |-> kind, version |-> version]]
        /\ UNCHANGED <<deliverable, goods>>
    BY DEF VersionRead
  <1> HIDE DEF version
  <1> QED
    BY <1>6, <1>7, GoodsReqMoves

LEMMA VersionCommit_Goods == ASSUME GoodsInv, NEW w \in Threads, VersionCommit(w) PROVE GoodsInv'
PROOF
  <1>1. PICK r : r = goodsReq[w]
    OBVIOUS
  <1>2. /\ deliverable' = AfterRelease(r, Rows) /\ UNCHANGED goods
        /\ goodsReq' = [goodsReq EXCEPT ![w] = NoGoodsReq]
    BY <1>1 DEF VersionCommit, GoodsDone
  <1>3. PICK next : next = Cardinality(Released) + 1
    OBVIOUS
  <1>4. r.kind \in GoodsKinds /\ r.version \in Nat
    BY <1>1 DEF GoodsInv
  <1>5. deliverable' = [d \in Rows |->
          IF d = next THEN [kind |-> r.kind, version |-> r.version, active |-> TRUE]
          ELSE [deliverable[d] EXCEPT !.active = @ /\ d \notin Rows]]
    BY <1>2, <1>3 DEF AfterRelease
  <1>6. \A d \in Rows : deliverable'[d] \in [kind : GoodsKinds, version : Nat, active : BOOLEAN]
                        /\ (deliverable'[d].active => d = next)
    BY ZenonT(60), <1>4, <1>5 DEF GoodsInv
  <1>7. goodsReq' \in [Threads -> [step : {"idle", "release", "detach"}, kind : GoodsKinds, version : Nat]]
    BY <1>2 DEF GoodsInv, NoGoodsReq, GoodsKinds
  <1>8. deliverable' \in [Rows -> [kind : GoodsKinds, version : Nat, active : BOOLEAN]]
    BY <1>5, <1>6
  <1> QED
    BY <1>2, <1>6, <1>7, <1>8 DEF GoodsInv, OneActive

LEMMA GoodsStep == GoodsInv /\ [GoodsNext]_goodsVars => GoodsInv'
PROOF
  <1> SUFFICES ASSUME GoodsInv, [GoodsNext]_goodsVars PROVE GoodsInv'
    OBVIOUS
  <1>1. CASE ChannelMoves \/ (\E model \in {"one_time", "batch"} : SetPricing(model)) \/ UNCHANGED goodsVars
    BY <1>1 DEF ChannelMoves, SetPricing, goodsVars, GoodsInv, OneActive
  <1>2. ASSUME NEW o \in GoodsOrders, PaymentSeen(o) PROVE GoodsInv'
    BY <1>2 DEF PaymentSeen, GoodsInv, OneActive
  <1>3. ASSUME NEW o \in GoodsOrders, DeliverGoods(o) PROVE GoodsInv'
    <2>1. PICK n : n = IF ActiveRows = {} THEN 0 ELSE Max(ActiveRows)
      OBVIOUS
    <2>2. ActiveRows \in SUBSET Rows
      BY DEF ActiveRows
    <2>3. n \in Rows \cup {0}
      BY <2>1, <2>2, RowsFinite
    <2>4. goods' = [goods EXCEPT ![o] = [status |-> "delivered", row |-> n]] /\ UNCHANGED <<deliverable, goodsReq>>
      BY <1>3, <2>1 DEF DeliverGoods
    <2> QED
      BY <2>3, <2>4 DEF GoodsInv, OneActive
  <1>4. ASSUME NEW w \in Threads, DetachRead(w) PROVE GoodsInv'
    BY <1>4 DEF DetachRead, GoodsInv, OneActive
  <1>5. ASSUME NEW w \in Threads, DetachCommit(w) PROVE GoodsInv'
    <2>1. deliverable' = [d \in Rows |-> [deliverable[d] EXCEPT !.active = FALSE]]
      BY <1>5 DEF DetachCommit
    <2>2. deliverable' \in [Rows -> [kind : GoodsKinds, version : Nat, active : BOOLEAN]]
          /\ \A d \in Rows : ~deliverable'[d].active
      BY ZenonT(60), <2>1 DEF GoodsInv
    <2>3. goodsReq' \in [Threads -> [step : {"idle", "release", "detach"}, kind : GoodsKinds, version : Nat]]
      BY <1>5 DEF DetachCommit, GoodsDone, GoodsInv, NoGoodsReq, GoodsKinds
    <2> QED
      BY <1>5, <2>2, <2>3 DEF DetachCommit, GoodsInv, OneActive
  <1> QED
    BY <1>1, <1>2, <1>3, <1>4, <1>5, VersionRead_Goods, VersionCommit_Goods DEF GoodsNext

LEMMA GoodsStart == GoodsInit => GoodsInv
BY DEF GoodsInit, GoodsInv, OneActive, Unreleased, NoGoodsReq, GoodsKinds

\* app/main.py, create_deliverable(), detach_deliverable() and
\* _current_version(): at most one deliverable is on offer, however releases
\* and detachments race, and a past buyer gets that one or the one they bought.
THEOREM GoodsOnOffer == GoodsSpec => []OneOnOffer
PROOF
  <1> QED
    BY GoodsStart, GoodsStep, OneActiveOnOffer, PTL DEF GoodsSpec


\* Rows are released in the order of their ids: the first n so far, with no
\* version above n, and a request that read the versions is ahead by one at most.
ReleasedUpTo(n) ==
  /\ \A d \in Rows : IF d <= n THEN deliverable[d].version \in 1..n ELSE deliverable[d].version = 0
  /\ \A w \in Threads : /\ goodsReq[w].version <= n + 1 /\ goodsReq[w].version <= MaxReleases
                        /\ goodsReq[w].step = "release" => goodsReq[w].version > 0

GoodsTyped ==
  /\ GoodsInv /\ pricing \in {"one_time", "batch"} /\ prepaid \in BOOLEAN
  /\ \E n \in 0..MaxReleases : ReleasedUpTo(n)

LEMMA ReleasedIs ==
  ASSUME NEW n \in 0..MaxReleases, ReleasedUpTo(n), GoodsInv
  PROVE  Released = 1..n /\ Cardinality(Released) = n
PROOF
  <1>1. MaxReleases \in Nat /\ n \in Nat
    BY GoodsAssumption
  <1>2. \A d \in Rows : deliverable[d].version > 0 <=> d <= n
    BY <1>1 DEF ReleasedUpTo, GoodsInv
  <1>3. Released = 1..n
    BY <1>1, <1>2 DEF Released, Rows
  <1>4. Cardinality(1..n) = n
    BY <1>1, FS_Interval
  <1> QED
    BY <1>3, <1>4

\* The highest version that a release reads is one of the first n.
LEMMA VersionReadUpTo ==
  ASSUME NEW n \in 0..MaxReleases, ReleasedUpTo(n), GoodsInv, NEW w \in Threads,
         NEW kind \in GoodsKinds, NEW versioned \in BOOLEAN, VersionRead(w, kind, versioned)
  PROVE  ReleasedUpTo(n)'
PROOF
  <1> DEFINE versions == {deliverable[d].version : d \in Lineage(kind)}
             version == IF versioned THEN 1 + Max(versions) ELSE 1
  <1>1. MaxReleases \in Nat /\ n \in Nat /\ Released = 1..n /\ Released # Rows
    BY GoodsAssumption, ReleasedIs DEF VersionRead
  <1>2. n < MaxReleases
    BY <1>1 DEF Rows
  <1>3. Lineage(kind) \in SUBSET Rows /\ Lineage(kind) \subseteq 1..n
    BY <1>1 DEF Lineage, Released
  <1>4. versions \subseteq 1..n /\ versions \subseteq Int
    BY <1>1, <1>3 DEF ReleasedUpTo
  <1>5. IsFiniteSet(versions)
    <2>1. IsFiniteSet(1..n)
      BY <1>1, FS_Interval
    <2> HIDE DEF versions
    <2> QED
      BY <1>4, <2>1, FS_Subset
  <1>6. versioned => Max(versions) \in 1..n
    <2>1. versioned => versions # {}
      BY DEF VersionRead
    <2> QED
      BY <1>4, <1>5, <2>1, MaxOf
  <1>7. version \in 1..(n + 1)
    BY <1>1, <1>6
  <1>8. /\ goodsReq' = [goodsReq EXCEPT ![w] = [step |-> "release", kind |-> kind, version |-> version]]
        /\ UNCHANGED <<deliverable, goods>>
    BY DEF VersionRead
  <1> HIDE DEF version
  <1>9. PICK r : r = [step |-> "release", kind |-> kind, version |-> version]
    OBVIOUS
  <1>10. \A v \in Threads : goodsReq'[v] = IF v = w THEN r ELSE goodsReq[v]
    BY <1>8, <1>9 DEF GoodsInv
  <1>11. r.version = version /\ version > 0 /\ version <= n + 1 /\ version <= MaxReleases
    BY <1>1, <1>2, <1>7, <1>9
  <1>12. \A d \in Rows : deliverable'[d] = deliverable[d]
    BY <1>8
  <1> QED
    BY <1>10, <1>11, <1>12 DEF ReleasedUpTo, Rows

LEMMA VersionCommitUpTo ==
  ASSUME NEW n \in 0..MaxReleases, ReleasedUpTo(n), GoodsInv, NEW w \in Threads, VersionCommit(w)
  PROVE  n + 1 \in 0..MaxReleases /\ ReleasedUpTo(n + 1)'
PROOF
  <1>1. MaxReleases \in Nat /\ n \in Nat /\ Released = 1..n /\ Released # Rows /\ Cardinality(Released) = n
    BY GoodsAssumption, ReleasedIs DEF VersionCommit
  <1>2. n < MaxReleases
    BY <1>1 DEF Rows
  <1>3. PICK r : r = goodsReq[w]
    OBVIOUS
  <1>4. /\ deliverable' = AfterRelease(r, Rows)
        /\ goodsReq' = [goodsReq EXCEPT ![w] = NoGoodsReq] /\ r.step = "release"
    BY <1>3 DEF VersionCommit, GoodsDone
  <1>5. r.version \in 1..(n + 1)
    BY <1>1, <1>3, <1>4 DEF GoodsInv, ReleasedUpTo
  <1>6. deliverable' = [d \in Rows |->
          IF d = n + 1 THEN [kind |-> r.kind, version |-> r.version, active |-> TRUE]
          ELSE [deliverable[d] EXCEPT !.active = @ /\ d \notin Rows]]
    BY <1>1, <1>4 DEF AfterRelease
  <1>7. \A d \in Rows : deliverable'[d].version = IF d = n + 1 THEN r.version ELSE deliverable[d].version
    BY <1>6 DEF GoodsInv
  <1>8. \A d \in Rows : IF d <= n + 1 THEN deliverable'[d].version \in 1..(n + 1)
                                      ELSE deliverable'[d].version = 0
    BY <1>1, <1>5, <1>7 DEF ReleasedUpTo, Rows
  <1>9. \A v \in Threads : goodsReq'[v] = IF v = w THEN NoGoodsReq ELSE goodsReq[v]
    BY <1>4 DEF GoodsInv
  <1>10. NoGoodsReq.step = "idle" /\ NoGoodsReq.version = 0
    BY DEF NoGoodsReq
  <1>11. ASSUME NEW v \in Threads
         PROVE  /\ goodsReq'[v].version <= n + 2 /\ goodsReq'[v].version <= MaxReleases
                /\ goodsReq'[v].step = "release" => goodsReq'[v].version > 0
    <2>1. goodsReq[v].version \in Nat
      BY DEF GoodsInv
    <2> QED
      BY <1>1, <1>9, <1>10, <2>1 DEF ReleasedUpTo
  <1>12. n + 1 + 1 = n + 2
    BY <1>1
  <1> QED
    BY <1>1, <1>2, <1>8, <1>11, <1>12 DEF ReleasedUpTo

LEMMA GoodsTypedStep == GoodsTyped /\ [GoodsNext]_goodsVars => GoodsTyped'
PROOF
  <1> SUFFICES ASSUME GoodsTyped, [GoodsNext]_goodsVars PROVE GoodsTyped'
    OBVIOUS
  <1>1. GoodsInv /\ GoodsInv'
    BY GoodsStep DEF GoodsTyped
  <1>2. pricing' \in {"one_time", "batch"} /\ prepaid' \in BOOLEAN
    BY DEF GoodsTyped, GoodsNext, goodsVars, ChannelMoves, SetPricing, PaymentSeen, DeliverGoods,
       VersionRead, VersionCommit, DetachRead, DetachCommit
  <1>3. PICK n \in 0..MaxReleases : ReleasedUpTo(n)
    BY DEF GoodsTyped
  <1>4. ASSUME UNCHANGED <<deliverable, goodsReq>> PROVE ReleasedUpTo(n)'
    BY <1>3, <1>4 DEF ReleasedUpTo, Rows
  <1>5. ASSUME NEW w \in Threads, DetachRead(w) PROVE ReleasedUpTo(n)'
    <2>1. deliverable' = deliverable
          /\ \A v \in Threads : /\ goodsReq'[v].version = goodsReq[v].version
                                /\ goodsReq'[v].step = "release" => goodsReq[v].step = "release"
      BY <1>1, <1>5 DEF DetachRead, GoodsInv
    <2> QED
      BY <1>3, <2>1 DEF ReleasedUpTo, Rows
  <1>6. ASSUME NEW w \in Threads, DetachCommit(w) PROVE ReleasedUpTo(n)'
    <2>1. \A v \in Threads : goodsReq'[v] = IF v = w THEN NoGoodsReq ELSE goodsReq[v]
      BY <1>1, <1>6 DEF DetachCommit, GoodsDone, GoodsInv
    <2>2. \A d \in Rows : deliverable'[d].version = deliverable[d].version
      BY <1>1, <1>6 DEF DetachCommit, GoodsInv
    <2>3. NoGoodsReq.step = "idle" /\ NoGoodsReq.version = 0 /\ 0 <= n + 1 /\ 0 <= MaxReleases
      BY GoodsAssumption DEF NoGoodsReq
    <2>4. \A d \in Rows : IF d <= n THEN deliverable'[d].version \in 1..n ELSE deliverable'[d].version = 0
      BY <1>3, <2>2 DEF ReleasedUpTo
    <2>5. \A v \in Threads : /\ goodsReq'[v].version <= n + 1 /\ goodsReq'[v].version <= MaxReleases
                             /\ goodsReq'[v].step = "release" => goodsReq'[v].version > 0
      BY <1>3, <2>1, <2>3 DEF ReleasedUpTo
    <2> QED
      BY <2>4, <2>5 DEF ReleasedUpTo
  <1>7. CASE ChannelMoves \/ (\E model \in {"one_time", "batch"} : SetPricing(model)) \/ UNCHANGED goodsVars
             \/ (\E o \in GoodsOrders : PaymentSeen(o) \/ DeliverGoods(o))
    <2>1. UNCHANGED <<deliverable, goodsReq>>
      BY <1>7 DEF ChannelMoves, SetPricing, goodsVars, PaymentSeen, DeliverGoods
    <2>2. ReleasedUpTo(n)'
      BY <1>4, <2>1
    <2> QED
      BY <1>1, <1>2, <2>2, GoodsAssumption DEF GoodsTyped
  <1>8. CASE \E w \in Threads : \/ \E kind \in GoodsKinds, versioned \in BOOLEAN : VersionRead(w, kind, versioned)
                               \/ VersionCommit(w) \/ DetachRead(w) \/ DetachCommit(w)
    <2>1. \E m \in 0..MaxReleases : ReleasedUpTo(m)'
      BY <1>1, <1>3, <1>5, <1>6, <1>8, VersionReadUpTo, VersionCommitUpTo
    <2> QED
      BY <1>1, <1>2, <2>1 DEF GoodsTyped
  <1> QED
    BY <1>7, <1>8 DEF GoodsNext

LEMMA GoodsTypedStart == GoodsInit => GoodsTyped
PROOF
  <1> SUFFICES ASSUME GoodsInit PROVE GoodsTyped
    OBVIOUS
  <1>1. MaxReleases \in Nat /\ GoodsInv
    BY GoodsStart, GoodsAssumption
  <1>2. ReleasedUpTo(0) /\ 0 \in 0..MaxReleases
    BY <1>1 DEF GoodsInit, ReleasedUpTo, Rows, Unreleased, NoGoodsReq
  <1> QED
    BY <1>1, <1>2 DEF GoodsTyped, GoodsInit

LEMMA GoodsAreTyped == GoodsTyped => GoodsTypeOK
PROOF
  <1> SUFFICES ASSUME GoodsTyped PROVE GoodsTypeOK
    OBVIOUS
  <1>1. PICK n \in 0..MaxReleases : ReleasedUpTo(n)
    BY DEF GoodsTyped
  <1>2. MaxReleases \in Nat /\ n \in Nat /\ n <= MaxReleases
    BY GoodsAssumption
  <1>3. \A d \in Rows : deliverable[d].version \in 0..MaxReleases
    BY <1>1, <1>2 DEF ReleasedUpTo
  <1>4. \A w \in Threads : goodsReq[w].version \in 0..MaxReleases
    BY <1>1, <1>2 DEF ReleasedUpTo, GoodsTyped, GoodsInv
  <1>5. \A o \in GoodsOrders : goods[o].row \in 0..MaxReleases
    BY <1>2 DEF GoodsTyped, GoodsInv, Rows
  <1>6. deliverable \in [Rows -> [kind : GoodsKinds, version : 0..MaxReleases, active : BOOLEAN]]
    BY <1>3 DEF GoodsTyped, GoodsInv
  <1>7. goods \in [GoodsOrders -> [status : {"pending", "detected", "ready", "delivered"},
                                  row : 0..MaxReleases]]
    BY <1>5 DEF GoodsTyped, GoodsInv
  <1>8. goodsReq \in [Threads -> [step : {"idle", "release", "detach"}, kind : GoodsKinds,
                                  version : 0..MaxReleases]]
    BY <1>4 DEF GoodsTyped, GoodsInv
  <1> QED
    BY <1>6, <1>7, <1>8 DEF GoodsTyped, GoodsTypeOK


\* The rows, orders and requests of Goods keep their types.
THEOREM GoodsTypeCorrect == GoodsSpec => []GoodsTypeOK
PROOF
  <1> QED
    BY GoodsTypedStart, GoodsTypedStep, GoodsAreTyped, PTL DEF GoodsSpec

=============================================================================
