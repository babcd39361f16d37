---------------------------- MODULE OutboxProofs ----------------------------
(***************************************************************************)
(* Proofs about the two background outboxes, the merchants' webhooks       *)
(* (Webhooks) and the on-chain attestations (Attest).  Both record what    *)
(* they are about to do, do it, and record what came of it; the process    *)
(* may die in between.                                                     *)
(***************************************************************************)
EXTENDS MCOutboxes, FiniteSetTheorems, WellFoundedInduction, TLAPS

-----------------------------------------------------------------------------
(* Webhooks *)

\* The claim that _deliver() posts next.
FirstClaim == CHOOSE d \in DOMAIN claims : \A e \in DOMAIN claims : d <= e

\* A row keeps its three columns.
IsHook(row) ==
  /\ row = [status |-> row.status, attempts |-> row.attempts, wait |-> row.wait]
  /\ row.status \in {"none", "pending", "delivered", "dead"} /\ row.attempts \in Nat
  /\ row.wait \in Nat

HooksTyped ==
  /\ hook = [d \in HookRows |-> hook[d]] /\ \A d \in HookRows : IsHook(hook[d])
  /\ accepted \in [HookRows -> Nat]
  /\ hooked \in BOOLEAN /\ answer \in {None, "2xx", "failed"}
  /\ hookCrashes \in 0..MaxHookCrashes /\ unhooks \in 0..MaxUnhooks
  /\ claims = [d \in DOMAIN claims |-> claims[d]] /\ DOMAIN claims \subseteq HookRows

\* A claim is a pending row with the attempt it counted; while that attempt has
\* no answer yet, the endpoint has accepted the row less often than that.
ClaimsHold ==
  \A d \in DOMAIN claims :
    /\ hook[d].status = "pending" /\ claims[d] = hook[d].attempts /\ claims[d] # 0
    /\ ~(answer # None /\ d = FirstClaim) => accepted[d] < hook[d].attempts

\* An answer is that to the first claim, and 2xx means that the row was taken.
AnswerHolds ==
  /\ answer # None => DOMAIN claims # {}
  /\ answer = "2xx" => accepted[FirstClaim] > 0

\* A row outside the running pass has an attempt left, counting crashes, and
\* rows die early only if the webhook was removed.
RowsHold ==
  /\ \A d \in HookRows :
       /\ hook[d].status = "none" => hook[d].attempts = 0
       /\ hook[d].status = "pending" /\ d \notin DOMAIN claims =>
            hook[d].attempts < WEBHOOK_MAX_ATTEMPTS + hookCrashes
  /\ ~hooked => unhooks > 0

HooksInv == HooksTyped /\ ClaimsHold /\ AnswerHolds /\ RowsHold /\ OutboxHonest

\* A set of numbers that is not empty has a least one.
LEMMA LeastExists == ASSUME NEW S, S \subseteq Nat, S # {} PROVE \E d \in S : \A e \in S : d <= e
PROOF
  <1> DEFINE R == OpToRel(<, Nat)
  <1>1. IsWellFoundedOn(R, Nat)
    BY NatLessThanWellFounded
  <1>2. \A x, y \in Nat : <<x, y>> \in R <=> x < y
    BY DEF OpToRel
  <1> HIDE DEF R
  <1>3. PICK x \in S : \A y \in S : ~(<<y, x>> \in R)
    BY <1>1, WFMin
  <1>4. ASSUME NEW y \in S PROVE x <= y
    <2>1. x \in Nat /\ y \in Nat /\ ~(y < x)
      BY <1>2, <1>3
    <2> QED
      BY <2>1
  <1> QED
    BY <1>3, <1>4

\* A set of row ids that is not empty has a first one.
LEMMA FirstExists ==
  ASSUME NEW S, S \subseteq HookRows, S # {}
  PROVE  LET d == CHOOSE d \in S : \A e \in S : d <= e
         IN  d \in S /\ \A e \in S : d <= e
PROOF
  <1>1. S \subseteq Nat
    BY WebhooksAssumption
  <1> QED
    BY <1>1, LeastExists

\* The powers of four up to the n-th.
Powers(g, n) == g \in [0..n -> Nat] /\ \A m \in 0..n : g[m] = IF m = 0 THEN 1 ELSE 4 * g[m - 1]

LEMMA PowersExist == \A n \in Nat : \E g : Powers(g, n)
PROOF
  <1> DEFINE S == {n \in Nat : ~\E g : Powers(g, n)}
  <1> SUFFICES ASSUME S # {} PROVE FALSE
    OBVIOUS
  <1>1. PICK n \in S : \A e \in S : n <= e
    BY LeastExists
  <1>2. n \in Nat /\ ~\E g : Powers(g, n)
    OBVIOUS
  <1>3. CASE n = 0
    <2>1. PICK g : g = [m \in 0..0 |-> 1]
      OBVIOUS
    <2>2. Powers(g, 0)
      BY <2>1 DEF Powers
    <2> QED
      BY <1>2, <1>3, <2>2
  <1>4. CASE n # 0
    <2>1. n - 1 \in Nat /\ n - 1 \notin S
      BY <1>1, <1>2, <1>4
    <2>2. PICK g : Powers(g, n - 1)
      BY <2>1
    <2>3. g[n - 1] \in Nat
      BY <2>1, <2>2 DEF Powers
    <2>4. PICK h : h = [m \in 0..n |-> IF m = n THEN 4 * g[n - 1] ELSE g[m]]
      OBVIOUS
    <2>5. \A m \in 0..n : m # n => m \in 0..(n - 1)
      BY <1>2
    <2>6. h \in [0..n -> Nat]
      BY <2>2, <2>3, <2>4, <2>5 DEF Powers
    <2>7. ASSUME NEW m \in 0..n PROVE h[m] = IF m = 0 THEN 1 ELSE 4 * h[m - 1]
      BY <1>2, <1>4, <2>2, <2>4, <2>5 DEF Powers
    <2> QED
      BY <1>2, <2>6, <2>7 DEF Powers
  <1> QED
    BY <1>3, <1>4

LEMMA PowersAgree ==
  ASSUME NEW n \in Nat, NEW g, NEW h, Powers(g, n), Powers(h, n + 1) PROVE g[n] = h[n]
PROOF
  <1> DEFINE S == {m \in 0..n : g[m] # h[m]}
  <1>1. CASE S = {}
    BY <1>1
  <1>2. CASE S # {}
    <2> S \subseteq Nat
      OBVIOUS
    <2>1. PICK m \in S : \A e \in S : m <= e
      BY <1>2, LeastExists
    <2>2. m \in 0..n /\ m \in 0..(n + 1) /\ g[m] # h[m]
      BY <2>1
    <2>3. m # 0
      BY <2>2 DEF Powers
    <2>4. m - 1 \in 0..n /\ m - 1 \notin S
      BY <2>1, <2>2, <2>3
    <2>5. g[m - 1] = h[m - 1]
      BY <2>4
    <2> QED
      BY <2>2, <2>3, <2>5 DEF Powers
  <1> QED
    BY <1>1, <1>2

\* The recursion defines a function on the naturals.
LEMMA Power4Typed == \A n \in Nat : Power4[n] \in Nat
PROOF
  <1> DEFINE G(n) == CHOOSE g : Powers(g, n)
             F == [n \in Nat |-> G(n)[n]]
  <1>1. \A n \in Nat : Powers(G(n), n)
    BY PowersExist
  <1> HIDE DEF G
  <1>2. ASSUME NEW n \in Nat PROVE F[n] = IF n = 0 THEN 1 ELSE 4 * F[n - 1]
    <2>1. G(n)[n] = IF n = 0 THEN 1 ELSE 4 * G(n)[n - 1]
      BY <1>1 DEF Powers
    <2>2. CASE n = 0
      BY <2>1, <2>2
    <2>3. CASE n # 0
      <3>1. n - 1 \in Nat /\ (n - 1) + 1 = n
        BY <2>3
      <3>2. G(n - 1)[n - 1] = G(n)[n - 1]
        BY <1>1, <3>1, PowersAgree
      <3> QED
        BY <2>1, <2>3, <3>1, <3>2
    <2> QED
      BY <2>2, <2>3
  <1>3. F = [n \in Nat |-> IF n = 0 THEN 1 ELSE 4 * F[n - 1]]
    BY <1>2
  <1> HIDE DEF F
  <1>4. Power4 = [n \in Nat |-> IF n = 0 THEN 1 ELSE 4 * Power4[n - 1]]
    BY <1>3 DEF Power4
  <1>5. PICK P : P = Power4
    OBVIOUS
  <1>6. P = [n \in Nat |-> IF n = 0 THEN 1 ELSE 4 * P[n - 1]]
    BY <1>4, <1>5
  <1>7. \A n \in Nat : P[n] = IF n = 0 THEN 1 ELSE 4 * P[n - 1]
    BY <1>6
  <1> DEFINE S == {n \in Nat : P[n] \notin Nat}
  <1>8. CASE S # {}
    <2>1. PICK n \in S : \A e \in S : n <= e
      BY <1>8, LeastExists
    <2>2. n \in Nat /\ P[n] \notin Nat
      OBVIOUS
    <2>3. n # 0
      BY <1>7, <2>2
    <2>4. n - 1 \in Nat /\ n - 1 \notin S
      BY <2>1, <2>2, <2>3
    <2>5. P[n - 1] \in Nat
      BY <2>4
    <2> QED
      BY <1>7, <2>2, <2>3, <2>5
  <1> QED
    BY <1>5, <1>8

LEMMA FirstClaimed ==
  ASSUME HooksTyped, DOMAIN claims # {}
  PROVE  FirstClaim \in DOMAIN claims /\ FirstClaim \in HookRows
BY FirstExists DEF HooksTyped, FirstClaim

LEMMA ClaimsAreClaims ==
  ASSUME HooksTyped PROVE claims = NoClaims <=> DOMAIN claims = {}
BY DEF HooksTyped, NoClaims

LEMMA Enqueue_Hooks == ASSUME HooksInv, NEW d \in HookRows, Enqueue(d) PROVE HooksInv'
PROOF
  <1>1. PICK row : row = [status |-> "pending", attempts |-> 0, wait |-> 0]
    OBVIOUS
  <1>2. IsHook(row) /\ row.status = "pending" /\ row.attempts = 0
    BY <1>1 DEF IsHook
  <1>3. hook' = [hook EXCEPT ![d] = row]
    BY <1>1 DEF Enqueue
  <1>4. hook' = [e \in HookRows |-> hook'[e]] /\ \A e \in HookRows : hook'[e] = IF e = d THEN row ELSE hook[e]
    BY <1>3 DEF HooksInv, HooksTyped
  <1>5. hook[d].status = "none" /\ UNCHANGED <<hooked, claims, answer, accepted, hookCrashes, unhooks>>
    BY DEF Enqueue
  <1>6. hook[d].attempts = 0 /\ accepted[d] = 0 /\ d \notin DOMAIN claims
    <2>1. hook[d].attempts = 0 /\ d \notin DOMAIN claims
      BY <1>5 DEF HooksInv, RowsHold, ClaimsHold
    <2>2. accepted[d] \in Nat /\ accepted[d] <= hook[d].attempts
      BY DEF HooksInv, HooksTyped, OutboxHonest
    <2> QED
      BY <2>1, <2>2
  <1>7. HooksTyped'
    BY <1>2, <1>4, <1>5 DEF HooksInv, HooksTyped
  <1>8. FirstClaim' = FirstClaim
    BY <1>5 DEF FirstClaim
  <1>9. ClaimsHold' /\ AnswerHolds'
    BY <1>4, <1>5, <1>6, <1>8 DEF HooksInv, HooksTyped, ClaimsHold, AnswerHolds
  <1>10. RowsHold' /\ OutboxHonest'
    BY <1>2, <1>4, <1>5, <1>6, WebhooksAssumption DEF HooksInv, HooksTyped, RowsHold, OutboxHonest
  <1> QED
    BY <1>7, <1>9, <1>10 DEF HooksInv

\* The pass claims rows, and counts an attempt, or they die with their webhook.
LEMMA ClaimRows_Hooks == HooksInv /\ ClaimRows => HooksInv'
PROOF
  <1> SUFFICES ASSUME HooksInv, ClaimRows PROVE HooksInv'
    OBVIOUS
  <1>1. PICK due : due = FirstRows(DueRows, Batch)
    OBVIOUS
  <1>2. due \subseteq HookRows /\ \A d \in due : hook[d].status = "pending"
    BY <1>1 DEF FirstRows, DueRows
  <1>3. DOMAIN claims = {} /\ answer = None /\ UNCHANGED <<hooked, answer, accepted, hookCrashes, unhooks>>
    BY ClaimsAreClaims DEF ClaimRows, HooksInv
  <1>4. \A row : IsHook(row) =>
          /\ IsHook([row EXCEPT !.attempts = @ + 1]) /\ IsHook([row EXCEPT !.status = "dead"])
          /\ [row EXCEPT !.attempts = @ + 1].attempts = row.attempts + 1
          /\ [row EXCEPT !.attempts = @ + 1].status = row.status
          /\ [row EXCEPT !.status = "dead"].attempts = row.attempts
          /\ [row EXCEPT !.status = "dead"].status = "dead"
    BY DEF IsHook
  <1>5. CASE hooked
    <2>1. /\ claims' = [d \in due |-> hook[d].attempts + 1]
          /\ hook' = [d \in HookRows |-> IF d \in due THEN [hook[d] EXCEPT !.attempts = @ + 1] ELSE hook[d]]
      BY <1>1, <1>5 DEF ClaimRows
    <2>2. \A d \in HookRows :
            /\ IsHook(hook'[d]) /\ hook'[d].status = hook[d].status
            /\ hook'[d].attempts = IF d \in due THEN hook[d].attempts + 1 ELSE hook[d].attempts
      BY <1>4, <2>1 DEF HooksInv, HooksTyped
    <2>3. hook' = [d \in HookRows |-> hook'[d]] /\ DOMAIN claims' = due
          /\ claims' = [d \in DOMAIN claims' |-> claims'[d]]
          /\ \A d \in due : claims'[d] = hook'[d].attempts
      BY <1>2, <2>1, <2>2
    <2>4. HooksTyped'
      BY <1>2, <1>3, <2>2, <2>3 DEF HooksInv, HooksTyped
    <2>5. \A d \in HookRows : accepted[d] \in Nat /\ hook[d].attempts \in Nat /\ accepted[d] <= hook[d].attempts
      BY DEF HooksInv, HooksTyped, IsHook, OutboxHonest
    <2>6. ClaimsHold'
      BY <1>2, <1>3, <2>2, <2>3, <2>5 DEF ClaimsHold
    <2>7. AnswerHolds'
      BY <1>3, WebhooksAssumption DEF AnswerHolds
    <2>8. RowsHold'
      BY <1>2, <1>3, <2>2, <2>3 DEF HooksInv, RowsHold
    <2>9. \A d \in due : hook[d].attempts + 1 <= WEBHOOK_MAX_ATTEMPTS + hookCrashes
      <3>1. WEBHOOK_MAX_ATTEMPTS \in Nat /\ hookCrashes \in Nat
        BY WebhooksAssumption DEF HooksInv, HooksTyped
      <3>2. \A d \in due : hook[d].attempts < WEBHOOK_MAX_ATTEMPTS + hookCrashes
        BY <1>2, <1>3 DEF HooksInv, RowsHold
      <3> QED
        BY <1>2, <2>5, <3>1, <3>2
    <2>10. OutboxHonest'
      BY <1>2, <1>3, <2>2, <2>5, <2>9, WebhooksAssumption DEF HooksInv, OutboxHonest
    <2> QED
      BY <2>4, <2>6, <2>7, <2>8, <2>10 DEF HooksInv
  <1>6. CASE ~hooked
    <2>1. /\ hook' = [d \in HookRows |-> IF d \in due THEN [hook[d] EXCEPT !.status = "dead"] ELSE hook[d]]
          /\ UNCHANGED claims
      BY <1>1, <1>6 DEF ClaimRows
    <2>2. \A d \in HookRows :
            /\ IsHook(hook'[d]) /\ hook'[d].attempts = hook[d].attempts
            /\ hook'[d].status = IF d \in due THEN "dead" ELSE hook[d].status
      BY <1>4, <2>1 DEF HooksInv, HooksTyped
    <2>3. HooksTyped'
      <3>1. hook' = [d \in HookRows |-> hook'[d]]
        BY <2>1
      <3> QED
        BY <1>3, <2>1, <2>2, <3>1 DEF HooksInv, HooksTyped
    <2>4. ClaimsHold' /\ AnswerHolds'
      BY <1>3, <2>1, WebhooksAssumption DEF ClaimsHold, AnswerHolds
    <2>5. RowsHold' /\ OutboxHonest'
      BY <1>2, <1>3, <1>6, <2>1, <2>2 DEF HooksInv, RowsHold, OutboxHonest
    <2> QED
      BY <2>3, <2>4, <2>5 DEF HooksInv
  <1> QED
    BY <1>5, <1>6

LEMMA Post_Hooks == HooksInv /\ Post => HooksInv'
PROOF
  <1> SUFFICES ASSUME HooksInv, Post PROVE HooksInv'
    OBVIOUS
  <1>1. DOMAIN claims # {} /\ answer = None /\ UNCHANGED <<hook, hooked, claims, hookCrashes, unhooks>>
    BY ClaimsAreClaims DEF Post, HooksInv
  <1>2. PICK d : d = FirstClaim
    OBVIOUS
  <1>3. d \in DOMAIN claims /\ d \in HookRows /\ FirstClaim' = d
    BY <1>1, <1>2, FirstClaimed DEF HooksInv, FirstClaim
  <1>4. PICK took \in BOOLEAN, known \in BOOLEAN :
          /\ answer' = IF took /\ known THEN "2xx" ELSE "failed"
          /\ accepted' = [accepted EXCEPT ![d] = IF took THEN @ + 1 ELSE @]
    BY <1>2 DEF Post, FirstClaim
  <1>5. accepted' \in [HookRows -> Nat] /\ \A e \in HookRows : e # d => accepted'[e] = accepted[e]
    BY <1>3, <1>4 DEF HooksInv, HooksTyped
  <1>6. accepted'[d] = (IF took THEN accepted[d] + 1 ELSE accepted[d]) /\ accepted[d] \in Nat
    BY <1>3, <1>4 DEF HooksInv, HooksTyped
  <1>7. answer' \in {"2xx", "failed"} /\ answer' # None
    BY <1>4, WebhooksAssumption
  <1>8. accepted[d] < hook[d].attempts /\ hook[d].status = "pending" /\ hook[d].attempts \in Nat
    BY <1>1, <1>3 DEF HooksInv, HooksTyped, IsHook, ClaimsHold
  <1>9. HooksTyped'
    BY <1>1, <1>5, <1>7 DEF HooksInv, HooksTyped
  <1>10. ClaimsHold'
    <2>1. DOMAIN claims \subseteq HookRows
      BY DEF HooksInv, HooksTyped
    <2> QED
      BY <1>1, <1>3, <1>5, <1>7, <2>1 DEF HooksInv, ClaimsHold
  <1>11. AnswerHolds'
    <2>1. answer' = "2xx" => took
      BY <1>4
    <2> QED
      BY <1>1, <1>3, <1>6, <2>1 DEF AnswerHolds
  <1>12. RowsHold'
    BY <1>1 DEF HooksInv, RowsHold
  <1>13. OutboxHonest'
    <2>1. \A e \in HookRows : accepted'[e] >= accepted[e] /\ (e # d => accepted'[e] = accepted[e])
      BY <1>5, <1>6 DEF HooksInv, HooksTyped
    <2>2. accepted'[d] <= hook[d].attempts
      BY <1>6, <1>8
    <2> QED
      BY <1>1, <1>5, <1>8, <2>1, <2>2 DEF HooksInv, OutboxHonest
  <1> QED
    BY <1>9, <1>10, <1>11, <1>12, <1>13 DEF HooksInv

LEMMA RecordResult_Hooks == HooksInv /\ RecordResult => HooksInv'
PROOF
  <1> SUFFICES ASSUME HooksInv, RecordResult PROVE HooksInv'
    OBVIOUS
  <1>1. DOMAIN claims # {} /\ answer # None /\ answer' = None /\ UNCHANGED <<hooked, accepted, hookCrashes, unhooks>>
    BY DEF RecordResult, HooksInv, AnswerHolds
  <1>2. PICK d : d = FirstClaim
    OBVIOUS
  <1>3. d \in DOMAIN claims /\ d \in HookRows
    BY <1>1, <1>2, FirstClaimed DEF HooksInv
  <1>4. PICK n, row : n = claims[d] /\ row = AfterAttempt(hook[d], claims[d], answer)
    OBVIOUS
  <1>5. hook' = [hook EXCEPT ![d] = row] /\ claims' = [e \in DOMAIN claims \ {d} |-> claims[e]]
    BY <1>2, <1>4 DEF RecordResult, FirstClaim
  <1>6. n = hook[d].attempts /\ n \in Nat /\ IsHook(hook[d]) /\ hook[d].status = "pending"
    BY <1>3, <1>4 DEF HooksInv, HooksTyped, IsHook, ClaimsHold
  <1>7. IsHook(row) /\ row.attempts = n
        /\ row.status = IF answer = "2xx" THEN "delivered"
                        ELSE IF n >= WEBHOOK_MAX_ATTEMPTS THEN "dead" ELSE "pending"
    <2>1. PICK x : x = RetryBase * Power4[n - 1]
      OBVIOUS
    <2>2. row = IF answer = "2xx" THEN [hook[d] EXCEPT !.status = "delivered"]
                ELSE IF n >= WEBHOOK_MAX_ATTEMPTS THEN [hook[d] EXCEPT !.status = "dead"]
                ELSE [hook[d] EXCEPT !.wait = x]
      BY <1>4, <2>1 DEF AfterAttempt
    <2>3. WEBHOOK_MAX_ATTEMPTS \in Nat /\ RetryBase \in Nat
      BY WebhooksAssumption
    <2>4. ASSUME ~(n >= WEBHOOK_MAX_ATTEMPTS) PROVE x \in Nat
      <3>1. n - 1 \in Nat
        BY <1>4, <1>6, <1>3 DEF HooksInv, ClaimsHold
      <3>2. Power4[n - 1] \in Nat
        BY <3>1, Power4Typed
      <3> QED
        BY <2>1, <2>3, <3>2
    <2> QED
      BY <1>6, <2>2, <2>4 DEF IsHook
  <1>8. hook' = [e \in HookRows |-> hook'[e]] /\ \A e \in HookRows : hook'[e] = IF e = d THEN row ELSE hook[e]
    BY <1>3, <1>5 DEF HooksInv, HooksTyped
  <1>9. claims' = [e \in DOMAIN claims' |-> claims'[e]] /\ DOMAIN claims' = DOMAIN claims \ {d}
        /\ \A e \in DOMAIN claims' : claims'[e] = claims[e]
    BY <1>5
  <1>10. HooksTyped'
    BY <1>1, <1>7, <1>8, <1>9 DEF HooksInv, HooksTyped
  <1>11. ClaimsHold'
    BY <1>1, <1>2, <1>8, <1>9 DEF HooksInv, HooksTyped, ClaimsHold
  <1>12. AnswerHolds'
    BY <1>1, WebhooksAssumption DEF AnswerHolds
  <1>13. RowsHold'
    BY <1>1, <1>6, <1>7, <1>8, <1>9, WebhooksAssumption DEF HooksInv, HooksTyped, RowsHold
  <1>14. OutboxHonest'
    <2>1. row.status = "delivered" => accepted[d] > 0
      BY <1>2, <1>7 DEF HooksInv, AnswerHolds
    <2>2. row.status = "dead" => row.attempts >= WEBHOOK_MAX_ATTEMPTS
      BY <1>7
    <2> QED
      BY <1>1, <1>6, <1>7, <1>8, <2>1, <2>2 DEF HooksInv, OutboxHonest
  <1> QED
    BY <1>10, <1>11, <1>12, <1>13, <1>14 DEF HooksInv

\* A crash gives a claimed row one more attempt than it would have had.
LEMMA HookCrash_Hooks == HooksInv /\ HookCrash => HooksInv'
PROOF
  <1> SUFFICES ASSUME HooksInv, HookCrash PROVE HooksInv'
    OBVIOUS
  <1>1. claims' = NoClaims /\ answer' = None /\ hookCrashes' = hookCrashes + 1
        /\ UNCHANGED <<hook, hooked, accepted, unhooks>>
    BY DEF HookCrash
  <1>2. DOMAIN claims' = {} /\ claims' = [d \in DOMAIN claims' |-> claims'[d]]
    BY <1>1 DEF NoClaims
  <1>3. HooksTyped'
    <2>1. hookCrashes' \in 0..MaxHookCrashes
      BY WebhooksAssumption DEF HookCrash, HooksInv, HooksTyped
    <2> QED
      BY <1>1, <1>2, <2>1 DEF HooksInv, HooksTyped
  <1>4. ClaimsHold' /\ AnswerHolds'
    BY <1>1, <1>2, WebhooksAssumption DEF ClaimsHold, AnswerHolds
  <1>5. \A d \in HookRows : hook[d].attempts \in Nat
    BY DEF HooksInv, HooksTyped, IsHook
  <1>6. hookCrashes \in Nat /\ WEBHOOK_MAX_ATTEMPTS \in Nat
    BY WebhooksAssumption DEF HooksInv, HooksTyped
  <1>7. RowsHold' /\ OutboxHonest'
    BY <1>1, <1>2, <1>5, <1>6 DEF HooksInv, RowsHold, OutboxHonest
  <1> QED
    BY <1>3, <1>4, <1>7 DEF HooksInv

LEMMA HookTick_Hooks == HooksInv /\ HookTick => HooksInv'
PROOF
  <1> SUFFICES ASSUME HooksInv, HookTick PROVE HooksInv'
    OBVIOUS
  <1>1. hook' = [d \in HookRows |-> [hook[d] EXCEPT !.wait = IF @ > 0 THEN @ - 1 ELSE 0]]
        /\ UNCHANGED <<hooked, claims, answer, accepted, hookCrashes, unhooks>>
    BY DEF HookTick
  <1>2. \A row : \A x \in Nat : IsHook(row) =>
          /\ IsHook([row EXCEPT !.wait = x]) /\ [row EXCEPT !.wait = x].status = row.status
          /\ [row EXCEPT !.wait = x].attempts = row.attempts
    BY DEF IsHook
  <1>3. \A d \in HookRows : /\ IsHook(hook'[d]) /\ hook'[d].status = hook[d].status
                            /\ hook'[d].attempts = hook[d].attempts
    <2> SUFFICES ASSUME NEW d \in HookRows
                 PROVE  /\ IsHook(hook'[d]) /\ hook'[d].status = hook[d].status
                        /\ hook'[d].attempts = hook[d].attempts
      OBVIOUS
    <2>1. PICK x : x = IF hook[d].wait > 0 THEN hook[d].wait - 1 ELSE 0
      OBVIOUS
    <2>2. hook'[d] = [hook[d] EXCEPT !.wait = x] /\ IsHook(hook[d])
      BY <1>1, <2>1 DEF HooksInv, HooksTyped
    <2>3. x \in Nat
      BY <2>1, <2>2 DEF IsHook
    <2> QED
      BY <1>2, <2>2, <2>3
  <1>4. HooksTyped'
    <2>1. hook' = [d \in HookRows |-> hook'[d]]
      BY <1>1
    <2> QED
      BY <1>1, <1>3, <2>1 DEF HooksInv, HooksTyped
  <1>5. ClaimsHold' /\ AnswerHolds'
    <2>1. FirstClaim' = FirstClaim
      BY <1>1 DEF FirstClaim
    <2>2. DOMAIN claims \subseteq HookRows
      BY DEF HooksInv, HooksTyped
    <2> QED
      BY <1>1, <1>3, <2>1, <2>2 DEF HooksInv, ClaimsHold, AnswerHolds
  <1>6. RowsHold' /\ OutboxHonest'
    BY <1>1, <1>3 DEF HooksInv, RowsHold, OutboxHonest
  <1> QED
    BY <1>4, <1>5, <1>6 DEF HooksInv

LEMMA HooksStep == HooksInv /\ [WebhooksNext]_hookVars => HooksInv'
PROOF
  <1> SUFFICES ASSUME HooksInv, [WebhooksNext]_hookVars PROVE HooksInv'
    OBVIOUS
  <1>1. CASE SetWebhook \/ DeleteWebhook
    <2>1. UNCHANGED <<hook, claims, answer, accepted, hookCrashes>> /\ FirstClaim' = FirstClaim
      BY <1>1 DEF SetWebhook, DeleteWebhook, FirstClaim
    <2>2. hooked' \in BOOLEAN /\ unhooks' \in 0..MaxUnhooks /\ unhooks \in Nat /\ unhooks' >= unhooks
          /\ (~hooked' => unhooks' > 0)
      <3>1. unhooks \in Nat
        BY DEF HooksInv, HooksTyped
      <3>2. CASE SetWebhook
        BY <3>1, <3>2 DEF SetWebhook, HooksInv, HooksTyped
      <3>3. CASE DeleteWebhook
        <4>1. hooked' = FALSE /\ unhooks' = unhooks + 1
          BY <3>3 DEF DeleteWebhook
        <4>2. unhooks' \in 0..MaxUnhooks /\ unhooks' >= unhooks /\ unhooks' > 0
          BY <3>1, <3>3, <4>1, WebhooksAssumption DEF DeleteWebhook
        <4> QED
          BY <3>1, <4>1, <4>2
      <3> QED
        BY <1>1, <3>2, <3>3
    <2>3. HooksTyped' /\ ClaimsHold' /\ AnswerHolds'
      BY <2>1, <2>2 DEF HooksInv, HooksTyped, ClaimsHold, AnswerHolds
    <2>4. RowsHold' /\ OutboxHonest'
      BY <2>1, <2>2 DEF HooksInv, RowsHold, OutboxHonest
    <2> QED
      BY <2>3, <2>4 DEF HooksInv
  <1>2. CASE UNCHANGED hookVars
    <2>1. UNCHANGED <<hook, hooked, claims, answer, accepted, unhooks, hookCrashes>>
      BY <1>2 DEF hookVars
    <2>2. HooksTyped'
      BY <2>1 DEF HooksInv, HooksTyped
    <2>3. ClaimsHold' /\ AnswerHolds'
      BY <2>1 DEF HooksInv, ClaimsHold, AnswerHolds, FirstClaim
    <2>4. RowsHold' /\ OutboxHonest'
      BY <2>1 DEF HooksInv, RowsHold, OutboxHonest
    <2> QED
      BY <2>2, <2>3, <2>4 DEF HooksInv
  <1> QED
    BY <1>1, <1>2, Enqueue_Hooks, ClaimRows_Hooks, Post_Hooks, RecordResult_Hooks, HookCrash_Hooks,
       HookTick_Hooks DEF WebhooksNext, DispatchOnce

LEMMA HooksStart == WebhooksInit => HooksInv
PROOF
  <1> SUFFICES ASSUME WebhooksInit PROVE HooksInv
    OBVIOUS
  <1>1. /\ hook = [d \in HookRows |-> NoHook] /\ hooked = TRUE /\ claims = NoClaims /\ answer = None
        /\ accepted = [d \in HookRows |-> 0] /\ hookCrashes = 0 /\ unhooks = 0
    BY DEF WebhooksInit
  <1>2. IsHook(NoHook) /\ NoHook.status = "none" /\ NoHook.attempts = 0
    BY DEF NoHook, IsHook
  <1>3. DOMAIN claims = {} /\ claims = [d \in DOMAIN claims |-> claims[d]]
    BY <1>1 DEF NoClaims
  <1>4. HooksTyped
    <2>1. 0 \in 0..MaxHookCrashes /\ 0 \in 0..MaxUnhooks
      BY WebhooksAssumption
    <2> QED
      BY <1>1, <1>2, <1>3, <2>1 DEF HooksTyped
  <1> QED
    BY <1>1, <1>2, <1>3, <1>4, WebhooksAssumption
    DEF HooksInv, ClaimsHold, AnswerHolds, RowsHold, OutboxHonest

LEMMA HooksTyping == HooksInv => WebhooksTypeOK
PROOF
  <1> SUFFICES ASSUME HooksInv PROVE WebhooksTypeOK
    OBVIOUS
  <1>1. \A row : IsHook(row) => row \in HookRow
    BY DEF IsHook, HookRow
  <1>2. hook \in [HookRows -> HookRow]
    BY <1>1 DEF HooksInv, HooksTyped
  <1>3. \A d \in DOMAIN claims : claims[d] \in Nat \ {0}
    BY DEF HooksInv, HooksTyped, ClaimsHold, IsHook
  <1> QED
    BY <1>2, <1>3 DEF HooksInv, HooksTyped, WebhooksTypeOK

\* app/webhooks.py, dispatch_once() and _record_result(): what the outbox says
\* of a row is true, and crashes between a claim and its record burn attempts
\* but never post a row more often than its attempts were counted.
THEOREM OutboxIsHonest == WebhooksSpec => []OutboxHonest
PROOF
  <1>1. HooksInv => OutboxHonest
    BY DEF HooksInv
  <1> QED
    BY <1>1, HooksStart, HooksStep, PTL DEF WebhooksSpec

-----------------------------------------------------------------------------
(* Attestations *)

AttTx == [order : AttOrders \cup {None}, nonce : Nat, price : {p \in GasPrices : p <= GasCap}]
AttRow == [status : AttStatus, tx : AttTx \cup {None}, nonce : Nat \cup {None}, hollow : BOOLEAN]

\* A row that was claimed names a transaction of its order and the nonce it was
\* signed for.
IsRow(o, row) ==
  /\ row \in AttRow
  /\ row.status \in {"sending", "sent", "attested"} =>
       row.tx \in AttTx /\ row.tx.order = o /\ row.nonce = row.tx.nonce

RowsTyped == att \in [AttOrders -> AttRow] /\ \A o \in AttOrders : IsRow(o, att[o])

\* The chain mines nonce after nonce; what is broadcast has a nonce still free.
ChainTyped ==
  /\ pool \subseteq AttTx /\ mined \in Seq([tx : AttTx, ok : BOOLEAN])
  /\ \A n \in 1..Len(mined) : mined[n].tx.nonce = n - 1
  /\ \A tx \in pool : tx.nonce >= Len(mined)

Work == [pc : {"rest", "sending", "nonce", "recheck", "resend", "resent", "sent", "schema",
               "pending", "claim", "broadcast", "flip", "wait"},
         todo : SUBSET AttOrders, order : AttOrders \cup {None}, tx : AttTx \cup {None},
         acted : BOOLEAN, broken : BOOLEAN]

\* What a pass has listed is still in the state it was listed for, except the
\* order a pass over the pending rows is busy with.
ListHolds ==
  /\ wk.pc \in {"sending", "nonce", "recheck", "resend", "resent"} =>
       \A o \in wk.todo : att[o].status = "sending"
  /\ wk.pc = "sent" => \A o \in wk.todo : att[o].status = "sent"
  /\ wk.pc \in {"pending", "claim", "broadcast", "flip", "wait"} =>
       \A o \in wk.todo : o # wk.order => att[o].status = "pending"

\* The row of the order a pass is busy with is where the program counter says.
BusyHolds ==
  /\ wk.pc = "pending" => wk.order = None
  /\ wk.pc \in {"nonce", "recheck", "resend", "resent", "claim", "broadcast", "flip", "wait"} =>
       wk.order \in wk.todo
  /\ wk.pc \in {"resent", "claim", "broadcast", "flip", "wait"} =>
       wk.tx \in AttTx /\ wk.tx.order = wk.order
  /\ wk.pc = "recheck" => Len(mined) > att[wk.order].nonce
  /\ wk.pc = "resent" => wk.tx.nonce = att[wk.order].nonce
  /\ wk.pc = "claim" => att[wk.order].status = "pending"
  /\ wk.pc \in {"broadcast", "flip"} => att[wk.order].status = "sending" /\ att[wk.order].tx = wk.tx
  /\ wk.pc = "wait" => att[wk.order].status = "sent" /\ att[wk.order].tx = wk.tx

CachesTyped ==
  /\ seen \in [AttOrders -> 0..RECONCILE_MAX_TICKS] /\ idle \in 0..IDLE_ALERT_TICKS
  /\ lostReceipts \in 0..MaxLostReceipts

AttestShape == RowsTyped /\ ChainTyped /\ wk \in Work /\ ListHolds /\ BusyHolds /\ CachesTyped

Issued(tx) == tx \in pool \/ IsMined(tx)

\* Every transaction of an order, broadcast or mined, is the one its row names;
\* a row not claimed yet, or to be claimed afresh, has none; an attested row's
\* is mined and succeeded.
OneTransaction ==
  \A o \in AttOrders :
    /\ \A tx \in AttTx : tx.order = o /\ Issued(tx) =>
         tx = att[o].tx /\ att[o].status \notin {"none", "pending"}
    /\ att[o].status = "attested" =>
         \E n \in 1..Len(mined) : mined[n].tx = att[o].tx /\ mined[n].ok

\* No receipt that is there is ever missed, and gas has one price under the cap.
Dependable ==
  /\ MaxLostReceipts = 0
  /\ \A p, q \in GasPrices : p <= GasCap /\ q <= GasCap => p = q

AttestInv == AttestShape /\ (Dependable => OneTransaction)

LEMMA RowWritten ==
  ASSUME RowsTyped, NEW o \in AttOrders, NEW row, IsRow(o, row), att' = [att EXCEPT ![o] = row]
  PROVE  RowsTyped' /\ att'[o] = row /\ \A q \in AttOrders : q # o => att'[q] = att[q]
PROOF
  <1>1. att'[o] = row /\ \A q \in AttOrders : q # o => att'[q] = att[q]
    BY DEF RowsTyped
  <1>2. att' \in [AttOrders -> AttRow]
    BY DEF RowsTyped, IsRow
  <1> QED
    BY <1>1, <1>2 DEF RowsTyped, IsRow

\* A receipt that was found resolves the row.
LEMMA ResolvedRow ==
  ASSUME RowsTyped, ChainTyped, NEW o \in AttOrders, att[o].status \in {"sending", "sent"},
         att' = Resolved(o)
  PROVE  /\ RowsTyped' /\ \A q \in AttOrders : q # o => att'[q] = att[q]
         /\ att'[o].status \in {"attested", "failed"} /\ att'[o].tx = att[o].tx
         /\ att'[o].status = "attested" =>
              \E n \in 1..Len(mined) : mined[n].tx = att[o].tx /\ mined[n].ok
PROOF
  <1>1. PICK st : st = IF \E n \in 1..Len(mined) : mined[n].tx = att[o].tx /\ mined[n].ok
                         THEN "attested" ELSE "failed"
    OBVIOUS
  <1>2. PICK row : row = [att[o] EXCEPT !.status = st]
    OBVIOUS
  <1>3. att' = [att EXCEPT ![o] = row]
    BY <1>1, <1>2 DEF Resolved, RowsTyped
  <1>4. row \in AttRow /\ row.status = st /\ row.tx = att[o].tx /\ row.nonce = att[o].nonce
    BY <1>1, <1>2 DEF RowsTyped, AttRow, AttStatus
  <1>5. IsRow(o, row)
    BY <1>4 DEF RowsTyped, IsRow
  <1> QED
    BY <1>1, <1>3, <1>4, <1>5, RowWritten

\* The writer of a row's status alone.
LEMMA StatusWritten ==
  ASSUME RowsTyped, NEW o \in AttOrders, NEW st \in AttStatus,
         st \in {"sending", "sent", "attested"} => att[o].status \in {"sending", "sent", "attested"},
         att' = [att EXCEPT ![o].status = st]
  PROVE  /\ RowsTyped' /\ \A q \in AttOrders : q # o => att'[q] = att[q]
         /\ att'[o].status = st /\ att'[o].tx = att[o].tx /\ att'[o].nonce = att[o].nonce
PROOF
  <1>1. PICK row : row = [att[o] EXCEPT !.status = st]
    OBVIOUS
  <1>2. att' = [att EXCEPT ![o] = row]
    BY <1>1 DEF RowsTyped
  <1>3. row \in AttRow /\ row.status = st /\ row.tx = att[o].tx /\ row.nonce = att[o].nonce
    BY <1>1 DEF RowsTyped, AttRow
  <1>4. IsRow(o, row)
    BY <1>3 DEF RowsTyped, IsRow
  <1> QED
    BY <1>2, <1>3, <1>4, RowWritten

LEMMA QueueAttest_Inv == ASSUME AttestInv, NEW o \in AttOrders, QueueAttest(o) PROVE AttestInv'
PROOF
  <1>1. UNCHANGED <<pool, mined, seen, idle, wk, lostReceipts>> /\ att[o].status = "none"
    BY DEF QueueAttest
  <1>2. PICK h \in BOOLEAN : att' = [att EXCEPT ![o].status = "pending", ![o].hollow = h]
    BY DEF QueueAttest
  <1>3. PICK row : row = [att[o] EXCEPT !.status = "pending", !.hollow = h]
    OBVIOUS
  <1>4. att' = [att EXCEPT ![o] = row]
    BY <1>2, <1>3 DEF AttestInv, AttestShape, RowsTyped
  <1>5. row \in AttRow /\ row.status = "pending" /\ row.tx = att[o].tx
    BY <1>3 DEF AttestInv, AttestShape, RowsTyped, AttRow, AttStatus
  <1>6. RowsTyped' /\ att'[o] = row /\ \A q \in AttOrders : q # o => att'[q] = att[q]
    BY <1>4, <1>5, RowWritten DEF AttestInv, AttestShape, IsRow
  <1>7. ChainTyped' /\ CachesTyped' /\ (wk \in Work)'
    BY <1>1 DEF AttestInv, AttestShape, ChainTyped, CachesTyped
  <1>8. wk.todo \subseteq AttOrders
    BY DEF AttestInv, AttestShape, Work
  <1>9. ListHolds' /\ BusyHolds'
    BY <1>1, <1>5, <1>6, <1>8 DEF AttestInv, AttestShape, ListHolds, BusyHolds
  <1>10. OneTransaction => OneTransaction'
    BY <1>1, <1>5, <1>6 DEF OneTransaction, Issued, IsMined
  <1> QED
    BY <1>6, <1>7, <1>9, <1>10 DEF AttestInv, AttestShape, Dependable

\* Mining appends one transaction at the next nonce.
LEMMA MineAtt_Inv == ASSUME AttestInv, NEW tx \in pool, MineAtt(tx) PROVE AttestInv'
PROOF
  <1>1. UNCHANGED <<att, seen, idle, wk, lostReceipts>> /\ pool' \subseteq pool
        /\ tx.nonce = Len(mined) /\ \A t \in pool' : t.nonce # tx.nonce
    BY DEF MineAtt, NextNonce
  <1>2. PICK ok \in BOOLEAN : mined' = Append(mined, [tx |-> tx, ok |-> ok])
    BY DEF MineAtt
  <1>3. tx \in AttTx /\ mined \in Seq([tx : AttTx, ok : BOOLEAN])
    BY DEF AttestInv, AttestShape, ChainTyped
  <1>4. /\ mined' \in Seq([tx : AttTx, ok : BOOLEAN]) /\ Len(mined') = Len(mined) + 1 /\ Len(mined) \in Nat
        /\ mined'[Len(mined) + 1].tx = tx /\ \A n \in 1..Len(mined) : mined'[n] = mined[n]
    BY <1>2, <1>3
  <1>5. ChainTyped'
    <2>1. \A n \in 1..Len(mined') : mined'[n].tx.nonce = n - 1
      BY <1>1, <1>4 DEF AttestInv, AttestShape, ChainTyped
    <2>2. \A t \in pool' : t.nonce >= Len(mined')
      <3> SUFFICES ASSUME NEW t \in pool' PROVE t.nonce >= Len(mined) + 1
        BY <1>4
      <3>1. t.nonce >= Len(mined) /\ t.nonce # Len(mined) /\ t.nonce \in Nat
        BY <1>1 DEF AttestInv, AttestShape, ChainTyped, AttTx
      <3> QED
        BY <1>4, <3>1
    <2> QED
      BY <1>1, <1>4, <2>1, <2>2 DEF AttestInv, AttestShape, ChainTyped
  <1>6. RowsTyped' /\ CachesTyped' /\ (wk \in Work)' /\ ListHolds'
    BY <1>1 DEF AttestInv, AttestShape, RowsTyped, CachesTyped, ListHolds, IsRow
  <1>7. BusyHolds'
    <2>1. CASE wk.pc = "recheck"
      <3>1. att[wk.order].nonce \in Nat
        <4>1. wk.order \in AttOrders /\ att[wk.order].status = "sending"
          BY <2>1 DEF AttestInv, AttestShape, BusyHolds, ListHolds, Work
        <4> QED
          BY <4>1 DEF AttestInv, AttestShape, RowsTyped, IsRow, AttTx
      <3> QED
        BY <1>1, <1>4, <2>1, <3>1 DEF AttestInv, AttestShape, BusyHolds
    <2>2. CASE wk.pc # "recheck"
      BY <1>1, <2>2 DEF AttestInv, AttestShape, BusyHolds
    <2> QED
      BY <2>1, <2>2
  <1>8. OneTransaction => OneTransaction'
    <2>1. \A t : Issued(t)' => Issued(t)
      BY <1>1, <1>4 DEF Issued, IsMined
    <2> QED
      BY <1>1, <1>4, <2>1 DEF OneTransaction
  <1> QED
    BY <1>5, <1>6, <1>7, <1>8 DEF AttestInv, AttestShape, Dependable

\* Steps that leave the rows and the chain alone, but for dropped transactions.
LEMMA QuietStep ==
  ASSUME AttestInv, UNCHANGED <<att, mined>>, pool' \subseteq pool, (wk \in Work)', ListHolds', BusyHolds',
         CachesTyped'
  PROVE  AttestInv'
PROOF
  <1>1. RowsTyped' /\ ChainTyped'
    BY DEF AttestInv, AttestShape, RowsTyped, ChainTyped, IsRow
  <1>2. OneTransaction => OneTransaction'
    BY DEF OneTransaction, Issued, IsMined
  <1> QED
    BY <1>1, <1>2 DEF AttestInv, AttestShape, Dependable

\* Steps that write the row of one order and leave the chain alone.
LEMMA RowStep ==
  ASSUME AttestInv, UNCHANGED <<pool, mined>>, NEW o \in AttOrders, RowsTyped',
         \A q \in AttOrders : q # o => att'[q] = att[q],
         att'[o].status = "attested" =>
           \E n \in 1..Len(mined) : mined[n].tx = att'[o].tx /\ mined[n].ok,
         Dependable /\ OneTransaction =>
           \A tx \in AttTx : tx.order = o /\ Issued(tx) =>
             tx = att'[o].tx /\ att'[o].status \notin {"none", "pending"},
         (wk \in Work)', ListHolds', BusyHolds', CachesTyped'
  PROVE  AttestInv'
PROOF
  <1>1. ChainTyped'
    BY DEF AttestInv, AttestShape, ChainTyped
  <1>2. Dependable /\ OneTransaction => OneTransaction'
    BY DEF OneTransaction, Issued, IsMined
  <1> QED
    BY <1>1, <1>2 DEF AttestInv, AttestShape, Dependable

\* Locals that a pass over the rows left sending has when it is done with one.
LEMMA DoneShape ==
  ASSUME wk \in Work, NEW o, Done(o)
  PROVE  /\ wk' \in Work /\ wk'.pc = "sending" /\ wk'.todo = wk.todo \ {o}
BY DEF Work, Done

\* ... and a pass over the pending rows.
LEMMA ActedShape ==
  ASSUME wk \in Work, NEW o, Acted(o) \/ Broken(o)
  PROVE  /\ wk' \in Work /\ wk'.pc = "pending" /\ wk'.todo = wk.todo \ {o} /\ wk'.order = None
PROOF
  <1>1. CASE Acted(o)
    BY <1>1 DEF Work, Acted
  <1>2. CASE Broken(o)
    BY <1>2 DEF Work, Broken
  <1> QED
    BY <1>1, <1>2

LEMMA NoWorkShape == NoWork \in Work /\ NoWork.todo = {} /\ NoWork.pc = "rest"
BY DEF NoWork, Work

\* Steps that change the tick's locals and caches only.
LEMMA TickBegin_Inv == ASSUME AttestInv, TickBegin PROVE AttestInv'
PROOF
  <1>1. UNCHANGED <<att, mined, pool, seen, lostReceipts>>
    BY DEF TickBegin, chainSide
  <1>2. idle' \in 0..IDLE_ALERT_TICKS
    BY AttestAssumption DEF TickBegin, Idle, Fault, AttestInv, AttestShape, CachesTyped
  <1>3. \/ wk' \in Work /\ wk'.pc = "sending" /\ wk'.todo = WithStatus({"sending"})
        \/ wk' = wk
    BY DEF TickBegin, NoWork, Work, WithStatus
  <1>4. (wk \in Work)' /\ ListHolds' /\ BusyHolds' /\ CachesTyped'
    BY <1>1, <1>2, <1>3 DEF AttestInv, AttestShape, ListHolds, BusyHolds, CachesTyped, WithStatus
  <1> QED
    BY <1>1, <1>4, QuietStep

LEMMA SendingReceipt_Inv == ASSUME AttestInv, NEW o \in AttOrders, SendingReceipt(o) PROVE AttestInv'
PROOF
  <1>1. wk.pc = "sending" /\ o \in wk.todo /\ UNCHANGED <<pool, mined, seen, idle>>
    BY DEF SendingReceipt, chainSide
  <1>2. att[o].status = "sending"
    BY <1>1 DEF AttestInv, AttestShape, ListHolds
  <1>3. CASE Found(o) /\ att' = Resolved(o) /\ Done(o)
    <2>1. /\ RowsTyped' /\ \A q \in AttOrders : q # o => att'[q] = att[q]
          /\ att'[o].status \in {"attested", "failed"} /\ att'[o].tx = att[o].tx
          /\ att'[o].status = "attested" =>
               \E n \in 1..Len(mined) : mined[n].tx = att[o].tx /\ mined[n].ok
      BY <1>2, <1>3, ResolvedRow DEF AttestInv, AttestShape
    <2>2. (wk \in Work)' /\ wk'.pc = "sending" /\ wk'.todo = wk.todo \ {o}
      BY <1>3, DoneShape DEF AttestInv, AttestShape
    <2>3. ListHolds' /\ BusyHolds'
      BY <1>1, <2>1, <2>2 DEF AttestInv, AttestShape, ListHolds, BusyHolds, Work
    <2>4. CachesTyped'
      BY <1>1, <1>3 DEF AttestInv, AttestShape, CachesTyped, Found
    <2>5. OneTransaction =>
            \A tx \in AttTx : tx.order = o /\ Issued(tx) =>
              tx = att'[o].tx /\ att'[o].status \notin {"none", "pending"}
      BY <2>1 DEF OneTransaction
    <2> QED
      BY <1>1, <2>1, <2>2, <2>3, <2>4, <2>5, RowStep
  <1>4. CASE NotFound(o) /\ wk' = [wk EXCEPT !.pc = "nonce", !.order = o] /\ UNCHANGED att
    <2>1. (wk \in Work)' /\ wk'.pc = "nonce" /\ wk'.order = o /\ wk'.todo = wk.todo
      BY <1>4 DEF AttestInv, AttestShape, Work
    <2>2. ListHolds' /\ BusyHolds'
      BY <1>1, <1>4, <2>1 DEF AttestInv, AttestShape, ListHolds, BusyHolds
    <2>3. CachesTyped'
      BY <1>1, <1>4, AttestAssumption DEF AttestInv, AttestShape, CachesTyped, NotFound
    <2> QED
      BY <1>1, <1>4, <2>1, <2>2, <2>3, QuietStep
  <1> QED
    BY <1>3, <1>4 DEF SendingReceipt

\* What is known of the order a pass over the rows left sending is busy with.
LEMMA BusySending ==
  ASSUME AttestInv, wk.pc \in {"nonce", "recheck", "resend", "resent"}
  PROVE  /\ wk.order \in AttOrders /\ wk.order \in wk.todo /\ att[wk.order].status = "sending"
         /\ att[wk.order].tx \in AttTx /\ att[wk.order].tx.order = wk.order
         /\ att[wk.order].nonce = att[wk.order].tx.nonce /\ att[wk.order].nonce \in Nat
PROOF
  <1>1. wk.order \in wk.todo /\ wk.todo \subseteq AttOrders
    BY DEF AttestInv, AttestShape, BusyHolds, Work
  <1>2. att[wk.order].status = "sending"
    BY <1>1 DEF AttestInv, AttestShape, ListHolds
  <1> QED
    BY <1>1, <1>2 DEF AttestInv, AttestShape, RowsTyped, IsRow, AttTx

LEMMA SendingNonce_Inv == ASSUME AttestInv, SendingNonce PROVE AttestInv'
PROOF
  <1>1. wk.pc = "nonce" /\ UNCHANGED <<att, pool, mined, seen, idle, lostReceipts>>
    BY DEF SendingNonce, chainSide
  <1>2. CachesTyped'
    BY <1>1 DEF AttestInv, AttestShape, CachesTyped
  <1>3. CASE wk' = [wk EXCEPT !.pc = IF NextNonce > att[wk.order].nonce THEN "recheck" ELSE "resend"]
    <2>1. /\ (wk \in Work)' /\ wk'.order = wk.order /\ wk'.todo = wk.todo
          /\ wk'.pc \in {"recheck", "resend"} /\ (wk'.pc = "recheck" => Len(mined) > att[wk.order].nonce)
      BY <1>3 DEF AttestInv, AttestShape, Work, NextNonce
    <2>2. ListHolds' /\ BusyHolds'
      BY <1>1, <2>1 DEF AttestInv, AttestShape, ListHolds, BusyHolds
    <2> QED
      BY <1>1, <1>2, <2>1, <2>2, QuietStep
  <1>4. CASE Done(wk.order)
    <2>1. (wk \in Work)' /\ wk'.pc = "sending" /\ wk'.todo = wk.todo \ {wk.order}
      BY <1>4, DoneShape DEF AttestInv, AttestShape
    <2>2. ListHolds' /\ BusyHolds'
      BY <1>1, <2>1 DEF AttestInv, AttestShape, ListHolds, BusyHolds
    <2> QED
      BY <1>1, <1>2, <2>1, <2>2, QuietStep
  <1> QED
    BY <1>3, <1>4 DEF SendingNonce

\* The nonce is used up and, receipts being dependable, not by this order's
\* transaction: no transaction of the order is left when it waits again.
LEMMA SendingRecheck_Inv == ASSUME AttestInv, SendingRecheck PROVE AttestInv'
PROOF
  <1> DEFINE o == wk.order
  <1>1. wk.pc = "recheck" /\ UNCHANGED <<pool, mined, idle>> /\ Done(o)
    BY DEF SendingRecheck, chainSide
  <1>2. /\ o \in AttOrders /\ o \in wk.todo /\ att[o].status = "sending" /\ att[o].tx \in AttTx
        /\ att[o].tx.order = o /\ att[o].nonce = att[o].tx.nonce /\ att[o].nonce \in Nat
    BY <1>1, BusySending
  <1>3. (wk \in Work)' /\ wk'.pc = "sending" /\ wk'.todo = wk.todo \ {o}
    BY <1>1, DoneShape DEF AttestInv, AttestShape
  <1> HIDE DEF o
  <1>4. CASE Found(o) /\ att' = Resolved(o) /\ UNCHANGED seen
    <2>1. /\ RowsTyped' /\ \A q \in AttOrders : q # o => att'[q] = att[q]
          /\ att'[o].status \in {"attested", "failed"} /\ att'[o].tx = att[o].tx
          /\ att'[o].status = "attested" =>
               \E n \in 1..Len(mined) : mined[n].tx = att[o].tx /\ mined[n].ok
      BY <1>2, <1>4, ResolvedRow DEF AttestInv, AttestShape
    <2>2. ListHolds' /\ BusyHolds'
      BY <1>1, <1>3, <2>1 DEF AttestInv, AttestShape, ListHolds, BusyHolds, Work
    <2>3. CachesTyped'
      BY <1>1, <1>4 DEF AttestInv, AttestShape, CachesTyped, Found
    <2>4. OneTransaction =>
            \A tx \in AttTx : tx.order = o /\ Issued(tx) =>
              tx = att'[o].tx /\ att'[o].status \notin {"none", "pending"}
      BY <1>2, <2>1 DEF OneTransaction
    <2> QED
      BY <1>1, <1>2, <1>3, <2>1, <2>2, <2>3, <2>4, RowStep
  <1>5. CASE /\ NotFound(o) /\ seen' = [seen EXCEPT ![o] = 0]
             /\ att' = [att EXCEPT ![o].status = "pending", ![o].tx = None, ![o].nonce = None]
    <2>1. PICK row : row = [att[o] EXCEPT !.status = "pending", !.tx = None, !.nonce = None]
      OBVIOUS
    <2>2. att' = [att EXCEPT ![o] = row]
      BY <1>2, <1>5, <2>1 DEF AttestInv, AttestShape, RowsTyped
    <2>3. row \in AttRow /\ row.status = "pending"
      BY <1>2, <2>1 DEF AttestInv, AttestShape, RowsTyped, AttRow, AttStatus
    <2>4. RowsTyped' /\ att'[o] = row /\ \A q \in AttOrders : q # o => att'[q] = att[q]
      BY <1>2, <2>2, <2>3, RowWritten DEF AttestInv, AttestShape, IsRow
    <2>5. ListHolds' /\ BusyHolds'
      BY <1>1, <1>3, <2>4 DEF AttestInv, AttestShape, ListHolds, BusyHolds, Work
    <2>6. CachesTyped'
      <3>1. seen' \in [AttOrders -> 0..RECONCILE_MAX_TICKS]
        BY <1>2, <1>5, AttestAssumption DEF AttestInv, AttestShape, CachesTyped
      <3>2. lostReceipts' \in 0..MaxLostReceipts
        BY <1>5, AttestAssumption DEF AttestInv, AttestShape, CachesTyped, NotFound
      <3> QED
        BY <1>1, <3>1, <3>2 DEF AttestInv, AttestShape, CachesTyped
    <2>7. ASSUME Dependable, OneTransaction, NEW tx \in AttTx, tx.order = o, Issued(tx) PROVE FALSE
      <3>1. tx = att[o].tx
        BY <1>2, <2>7 DEF OneTransaction
      <3>2. ~IsMined(att[o].tx)
        BY <1>5, <2>7 DEF NotFound, Dependable, AttestInv, AttestShape, CachesTyped
      <3>3. Len(mined) > att[o].nonce /\ Len(mined) \in Nat
        BY <1>1 DEF AttestInv, AttestShape, BusyHolds, ChainTyped, o
      <3>4. tx \notin pool
        BY <1>2, <3>1, <3>3 DEF AttestInv, AttestShape, ChainTyped
      <3> QED
        BY <2>7, <3>1, <3>2, <3>4 DEF Issued
    <2> QED
      BY <1>1, <1>2, <1>3, <2>3, <2>4, <2>5, <2>6, <2>7, RowStep
  <1> QED
    BY <1>4, <1>5 DEF SendingRecheck, o

\* Broadcasts: the transaction is the one the row of its order names, or one of
\* no order.
LEMMA BroadcastStep ==
  ASSUME AttestInv, UNCHANGED <<att, mined>>, NEW tx \in AttTx, tx.nonce >= Len(mined),
         pool' \subseteq pool \cup {tx},
         Dependable => \A o \in AttOrders : tx.order = o =>
                         tx = att[o].tx /\ att[o].status \notin {"none", "pending"},
         (wk \in Work)', ListHolds', BusyHolds', CachesTyped'
  PROVE  AttestInv'
PROOF
  <1>1. RowsTyped'
    BY DEF AttestInv, AttestShape, RowsTyped, IsRow
  <1>2. ChainTyped'
    BY DEF AttestInv, AttestShape, ChainTyped
  <1>3. Dependable /\ OneTransaction => OneTransaction'
    BY DEF OneTransaction, Issued, IsMined
  <1> QED
    BY <1>1, <1>2, <1>3 DEF AttestInv, AttestShape, Dependable

\* Gas having one price, the transaction signed again is the one recorded.
LEMMA SendingResend_Inv == ASSUME AttestInv, SendingResend PROVE AttestInv'
PROOF
  <1> DEFINE o == wk.order
  <1>1. wk.pc = "resend" /\ UNCHANGED <<att, mined, seen, idle, lostReceipts>>
    BY DEF SendingResend
  <1>2. /\ o \in AttOrders /\ o \in wk.todo /\ att[o].status = "sending" /\ att[o].tx \in AttTx
        /\ att[o].tx.order = o /\ att[o].nonce = att[o].tx.nonce /\ att[o].nonce \in Nat
    BY <1>1, BusySending
  <1>3. CachesTyped'
    BY <1>1 DEF AttestInv, AttestShape, CachesTyped
  <1>4. PICK p \in GasPrices :
          LET tx == [order |-> o, nonce |-> att[o].nonce, price |-> p] IN
          \/ p > GasCap /\ Fault /\ UNCHANGED pool /\ Done(o)
          \/ /\ p <= GasCap
             /\ \/ Accepted(tx) /\ wk' = [wk EXCEPT !.pc = "resent", !.tx = tx] /\ UNCHANGED attFaults
                \/ Rejected(tx) /\ Done(o) /\ UNCHANGED attFaults
                \/ Uncertain(tx) /\ Done(o)
    BY DEF SendingResend
  <1>5. ASSUME Done(o) PROVE (wk \in Work)' /\ ListHolds' /\ BusyHolds'
    <2>1. (wk \in Work)' /\ wk'.pc = "sending" /\ wk'.todo = wk.todo \ {o}
      BY <1>5, DoneShape DEF AttestInv, AttestShape
    <2> QED
      BY <1>1, <2>1 DEF AttestInv, AttestShape, ListHolds, BusyHolds
  <1>6. CASE p > GasCap
    <2>1. UNCHANGED pool /\ Done(o)
      BY <1>4, <1>6, AttestAssumption
    <2> QED
      BY <1>1, <1>3, <1>5, <2>1, QuietStep
  <1>7. CASE p <= GasCap
    <2>1. PICK tx : tx = [order |-> o, nonce |-> att[o].nonce, price |-> p]
      OBVIOUS
    <2>2. tx \in AttTx /\ tx.order = o /\ tx.nonce = att[o].nonce
      BY <1>2, <1>7, <2>1 DEF AttTx
    <2>3. ASSUME Dependable PROVE tx = att[o].tx
      <3>1. att[o].tx.price = p
        BY <1>2, <1>7, <2>3 DEF AttTx, Dependable
      <3> QED
        BY <1>2, <2>1, <3>1 DEF AttTx
    <2>4. p > GasCap => FALSE
      BY <1>7, AttestAssumption
    <2>5. CASE Accepted(tx) /\ wk' = [wk EXCEPT !.pc = "resent", !.tx = tx]
      <3>1. tx.nonce >= Len(mined) /\ pool' \subseteq pool \cup {tx}
        BY <2>5 DEF Accepted, NextNonce
      <3>2. (wk \in Work)' /\ wk'.pc = "resent" /\ wk'.tx = tx /\ wk'.order = o /\ wk'.todo = wk.todo
        BY <2>2, <2>5 DEF AttestInv, AttestShape, Work
      <3>3. ListHolds' /\ BusyHolds'
        BY <1>1, <1>2, <2>2, <3>2 DEF AttestInv, AttestShape, ListHolds, BusyHolds
      <3> QED
        BY <1>1, <1>2, <1>3, <2>2, <2>3, <3>1, <3>2, <3>3, BroadcastStep
    <2>6. CASE Rejected(tx) /\ Done(o)
      BY <1>1, <1>3, <1>5, <2>6, QuietStep DEF Rejected
    <2>7. CASE Uncertain(tx) /\ Done(o)
      <3>1. tx.nonce >= Len(mined) /\ pool' \subseteq pool \cup {tx}
        BY <2>7 DEF Uncertain, NextNonce
      <3> QED
        BY <1>1, <1>2, <1>3, <1>5, <2>2, <2>3, <2>7, <3>1, BroadcastStep
    <2> QED
      BY <1>4, <2>1, <2>4, <2>5, <2>6, <2>7
  <1> QED
    BY <1>6, <1>7, <1>4, AttestAssumption

LEMMA SendingResent_Inv == ASSUME AttestInv, SendingResent PROVE AttestInv'
PROOF
  <1> DEFINE o == wk.order
  <1>1. /\ wk.pc = "resent" /\ UNCHANGED <<pool, mined, seen, idle, lostReceipts>> /\ Done(o)
        /\ att' = [att EXCEPT ![o].status = "sent", ![o].tx = wk.tx]
    BY DEF SendingResent, chainSide
  <1>2. /\ o \in AttOrders /\ att[o].status = "sending" /\ att[o].tx \in AttTx
        /\ att[o].tx.order = o /\ att[o].nonce = att[o].tx.nonce
    BY <1>1, BusySending
  <1>3. wk.tx \in AttTx /\ wk.tx.order = o /\ wk.tx.nonce = att[o].nonce
    BY <1>1 DEF AttestInv, AttestShape, BusyHolds
  <1>4. (wk \in Work)' /\ wk'.pc = "sending" /\ wk'.todo = wk.todo \ {o}
    BY <1>1, DoneShape DEF AttestInv, AttestShape
  <1> HIDE DEF o
  <1>5. PICK row : row = [att[o] EXCEPT !.status = "sent", !.tx = wk.tx]
    OBVIOUS
  <1>6. att' = [att EXCEPT ![o] = row]
    BY <1>1, <1>2, <1>5 DEF AttestInv, AttestShape, RowsTyped
  <1>7. row \in AttRow /\ row.status = "sent" /\ row.tx = wk.tx /\ row.nonce = att[o].nonce
    BY <1>2, <1>3, <1>5 DEF AttestInv, AttestShape, RowsTyped, AttRow, AttStatus
  <1>8. RowsTyped' /\ att'[o] = row /\ \A q \in AttOrders : q # o => att'[q] = att[q]
    BY <1>2, <1>3, <1>6, <1>7, RowWritten DEF AttestInv, AttestShape, IsRow
  <1>9. ListHolds' /\ BusyHolds'
    BY <1>1, <1>4, <1>8 DEF AttestInv, AttestShape, ListHolds, BusyHolds, Work
  <1>10. CachesTyped'
    BY <1>1 DEF AttestInv, AttestShape, CachesTyped
  <1>11. ASSUME Dependable PROVE wk.tx = att[o].tx
    <2>1. wk.tx.price = att[o].tx.price
      BY <1>2, <1>3, <1>11 DEF AttTx, Dependable
    <2> QED
      BY <1>2, <1>3, <2>1 DEF AttTx
  <1>12. Dependable /\ OneTransaction =>
            \A tx \in AttTx : tx.order = o /\ Issued(tx) =>
              tx = att'[o].tx /\ att'[o].status \notin {"none", "pending"}
    BY <1>2, <1>7, <1>8, <1>11 DEF OneTransaction
  <1> QED
    BY <1>1, <1>2, <1>4, <1>7, <1>8, <1>9, <1>10, <1>12, RowStep

LEMMA SendingDone_Inv == ASSUME AttestInv, SendingDone PROVE AttestInv'
PROOF
  <1>1. UNCHANGED <<att, mined, pool, seen, idle, lostReceipts>>
    BY DEF SendingDone, chainSide
  <1>2. (wk \in Work)' /\ wk'.pc = "sent" /\ wk'.todo = WithStatus({"sent"})
    BY DEF SendingDone, AttestInv, AttestShape, Work, WithStatus
  <1>3. ListHolds' /\ BusyHolds' /\ CachesTyped'
    BY <1>1, <1>2 DEF AttestInv, AttestShape, ListHolds, BusyHolds, CachesTyped, WithStatus
  <1> QED
    BY <1>1, <1>2, <1>3, QuietStep

LEMMA SentReceipt_Inv == ASSUME AttestInv, NEW o \in AttOrders, SentReceipt(o) PROVE AttestInv'
PROOF
  <1>1. wk.pc = "sent" /\ o \in wk.todo /\ UNCHANGED <<pool, mined, idle>>
    BY DEF SentReceipt, chainSide
  <1>2. att[o].status = "sent"
    BY <1>1 DEF AttestInv, AttestShape, ListHolds
  <1>3. (wk \in Work)' /\ wk'.pc = "sent" /\ wk'.todo = wk.todo \ {o}
    BY <1>1 DEF SentReceipt, AttestInv, AttestShape, Work
  <1>4. ASSUME \A q \in AttOrders : q # o => att'[q] = att[q] PROVE ListHolds' /\ BusyHolds'
    BY <1>1, <1>3, <1>4 DEF AttestInv, AttestShape, ListHolds, BusyHolds, Work
  <1>5. CASE Found(o) /\ att' = Resolved(o) /\ seen' = [seen EXCEPT ![o] = 0]
    <2>1. /\ RowsTyped' /\ \A q \in AttOrders : q # o => att'[q] = att[q]
          /\ att'[o].status \in {"attested", "failed"} /\ att'[o].tx = att[o].tx
          /\ att'[o].status = "attested" =>
               \E n \in 1..Len(mined) : mined[n].tx = att[o].tx /\ mined[n].ok
      BY <1>2, <1>5, ResolvedRow DEF AttestInv, AttestShape
    <2>2. CachesTyped'
      BY <1>1, <1>5, AttestAssumption DEF AttestInv, AttestShape, CachesTyped, Found
    <2>3. OneTransaction =>
            \A tx \in AttTx : tx.order = o /\ Issued(tx) =>
              tx = att'[o].tx /\ att'[o].status \notin {"none", "pending"}
      BY <2>1 DEF OneTransaction
    <2> QED
      BY <1>1, <1>3, <1>4, <2>1, <2>2, <2>3, RowStep
  <1>6. CASE NotFound(o) /\ seen[o] + 1 >= RECONCILE_MAX_TICKS
             /\ att' = [att EXCEPT ![o].status = "failed"] /\ seen' = [seen EXCEPT ![o] = 0]
    <2>1. /\ RowsTyped' /\ \A q \in AttOrders : q # o => att'[q] = att[q]
          /\ att'[o].status = "failed" /\ att'[o].tx = att[o].tx
      BY <1>6, StatusWritten DEF AttestInv, AttestShape, AttStatus
    <2>2. lostReceipts' \in 0..MaxLostReceipts
      BY <1>6, AttestAssumption DEF AttestInv, AttestShape, CachesTyped, NotFound
    <2>3. CachesTyped'
      BY <1>1, <1>6, <2>2, AttestAssumption DEF AttestInv, AttestShape, CachesTyped
    <2>4. OneTransaction =>
            \A tx \in AttTx : tx.order = o /\ Issued(tx) =>
              tx = att'[o].tx /\ att'[o].status \notin {"none", "pending"}
      BY <2>1 DEF OneTransaction
    <2> QED
      BY <1>1, <1>3, <1>4, <2>1, <2>3, <2>4, RowStep
  <1>7. CASE NotFound(o) /\ ~(seen[o] + 1 >= RECONCILE_MAX_TICKS)
             /\ seen' = [seen EXCEPT ![o] = @ + 1] /\ UNCHANGED att
    <2>1. lostReceipts' \in 0..MaxLostReceipts
      BY <1>7, AttestAssumption DEF AttestInv, AttestShape, CachesTyped, NotFound
    <2>2. CachesTyped'
      BY <1>1, <1>7, <2>1, AttestAssumption DEF AttestInv, AttestShape, CachesTyped
    <2> QED
      BY <1>1, <1>3, <1>4, <1>7, <2>2, QuietStep
  <1> QED
    BY <1>5, <1>6, <1>7 DEF SentReceipt

\* The pass over the pending rows starts with rows that are pending.
LEMMA StartsPending ==
  ASSUME AttestInv, StartPending, UNCHANGED <<att, mined>>
  PROVE  (wk \in Work)' /\ ListHolds' /\ BusyHolds'
PROOF
  <1>1. PICK T \in Picked(WithStatus({"pending"})) : wk' = [NoWork EXCEPT !.pc = "pending", !.todo = T]
    BY DEF StartPending
  <1>2. T \subseteq WithStatus({"pending"})
    BY DEF Picked
  <1>3. T \subseteq AttOrders /\ \A o \in T : att[o].status = "pending"
    BY <1>2 DEF WithStatus
  <1>4. (wk \in Work)' /\ wk'.pc = "pending" /\ wk'.todo = T /\ wk'.order = None
    BY <1>1, <1>3 DEF NoWork, Work
  <1> QED
    BY <1>3, <1>4 DEF ListHolds, BusyHolds

LEMMA Rests ==
  ASSUME wk' = NoWork \/ wk' = [NoWork EXCEPT !.pc = "schema"]
  PROVE  (wk \in Work)' /\ ListHolds' /\ BusyHolds'
PROOF
  <1>1. NoWork \in Work /\ [NoWork EXCEPT !.pc = "schema"] \in Work
        /\ NoWork.pc = "rest" /\ [NoWork EXCEPT !.pc = "schema"].pc = "schema"
    BY DEF NoWork, Work
  <1> QED
    BY <1>1 DEF ListHolds, BusyHolds

LEMMA IdleCounts == ASSUME CachesTyped, Idle \/ UNCHANGED idle PROVE idle' \in 0..IDLE_ALERT_TICKS
BY AttestAssumption DEF CachesTyped, Idle

LEMMA EnsureSchema_Inv == ASSUME AttestInv, EnsureSchema PROVE AttestInv'
PROOF
  <1>1. UNCHANGED <<att, mined, seen, lostReceipts>>
    BY DEF EnsureSchema
  <1>2. Idle \/ UNCHANGED idle
    BY DEF EnsureSchema
  <1>3. CachesTyped'
    BY <1>1, <1>2, IdleCounts DEF AttestInv, AttestShape, CachesTyped
  <1>4. CASE StartPending /\ UNCHANGED pool
    BY <1>1, <1>3, <1>4, StartsPending, QuietStep
  <1>5. CASE UNCHANGED pool /\ wk' = NoWork
    BY <1>1, <1>3, <1>5, Rests, QuietStep
  <1>6. ASSUME NEW p \in GasPrices, NEW tx, p <= GasCap, Accepted(tx),
               tx = [order |-> None, nonce |-> NextNonce, price |-> p],
               wk' = [NoWork EXCEPT !.pc = "schema"]
        PROVE AttestInv'
    <2>1. tx \in AttTx /\ tx.order = None /\ tx.nonce >= Len(mined) /\ pool' \subseteq pool \cup {tx}
      <3>1. Len(mined) \in Nat
        BY DEF AttestInv, AttestShape, ChainTyped
      <3> QED
        BY <1>6, <3>1 DEF AttTx, Accepted, NextNonce
    <2>2. \A o \in AttOrders : tx.order # o
      BY <2>1, AttestAssumption
    <2> QED
      BY <1>1, <1>3, <1>6, <2>1, <2>2, Rests, BroadcastStep
  <1> QED
    BY <1>4, <1>5, <1>6 DEF EnsureSchema, Rejected

LEMMA SchemaWait_Inv == ASSUME AttestInv, SchemaWait PROVE AttestInv'
PROOF
  <1>1. UNCHANGED <<att, mined, pool, seen, lostReceipts>>
    BY DEF SchemaWait, chainSide
  <1>2. Idle \/ UNCHANGED idle
    BY DEF SchemaWait
  <1>3. CachesTyped'
    BY <1>1, <1>2, IdleCounts DEF AttestInv, AttestShape, CachesTyped
  <1>4. StartPending \/ wk' = NoWork
    BY DEF SchemaWait
  <1> QED
    BY <1>1, <1>3, <1>4, StartsPending, Rests, QuietStep

\* Rows of the pass over the pending rows that are left when one is done.
LEMMA ActedHolds ==
  ASSUME AttestInv, wk.pc \in {"pending", "claim", "broadcast", "flip", "wait"}, NEW o \in wk.todo,
         wk.pc = "pending" \/ wk.order = o, Acted(o) \/ Broken(o),
         \A q \in AttOrders : q # o => att'[q] = att[q]
  PROVE  (wk \in Work)' /\ ListHolds' /\ BusyHolds'
PROOF
  <1>1. (wk \in Work)' /\ wk'.pc = "pending" /\ wk'.todo = wk.todo \ {o} /\ wk'.order = None
    BY ActedShape DEF AttestInv, AttestShape
  <1>2. \A q \in wk.todo : q \in AttOrders /\ (q # o => att[q].status = "pending")
    BY AttestAssumption DEF AttestInv, AttestShape, ListHolds, BusyHolds, Work
  <1> QED
    BY <1>1, <1>2 DEF ListHolds, BusyHolds

LEMMA Prepare_Inv == ASSUME AttestInv, NEW o \in AttOrders, Prepare(o) PROVE AttestInv'
PROOF
  <1>1. wk.pc = "pending" /\ o \in wk.todo /\ UNCHANGED <<pool, mined, seen, idle, lostReceipts>>
    BY DEF Prepare, chainSide
  <1>2. att[o].status = "pending" /\ wk.order = None
    BY <1>1, AttestAssumption DEF AttestInv, AttestShape, ListHolds, BusyHolds
  <1>3. CachesTyped'
    BY <1>1 DEF AttestInv, AttestShape, CachesTyped
  <1>4. CASE att[o].hollow /\ att' = [att EXCEPT ![o].status = "failed"] /\ Acted(o)
    <2>1. /\ RowsTyped' /\ \A q \in AttOrders : q # o => att'[q] = att[q]
          /\ att'[o].status = "failed" /\ att'[o].tx = att[o].tx
      BY <1>4, StatusWritten DEF AttestInv, AttestShape, AttStatus
    <2>2. OneTransaction =>
            \A tx \in AttTx : tx.order = o /\ Issued(tx) =>
              tx = att'[o].tx /\ att'[o].status \notin {"none", "pending"}
      BY <2>1 DEF OneTransaction
    <2>3. (wk \in Work)' /\ ListHolds' /\ BusyHolds'
      BY <1>1, <1>4, <2>1, ActedHolds
    <2> QED
      BY <1>1, <1>3, <2>1, <2>2, <2>3, RowStep
  <1>5. CASE UNCHANGED att /\ (Acted(o) \/ Broken(o))
    BY <1>1, <1>3, <1>5, ActedHolds, QuietStep
  <1>6. ASSUME UNCHANGED att, NEW p \in GasPrices, ~(p > GasCap),
               wk' = [wk EXCEPT !.pc = "claim", !.order = o,
                        !.tx = [order |-> o, nonce |-> NextNonce, price |-> p]]
        PROVE AttestInv'
    <2>1. PICK tx : tx = [order |-> o, nonce |-> NextNonce, price |-> p]
      OBVIOUS
    <2>2. tx \in AttTx /\ tx.order = o
      <3>1. Len(mined) \in Nat
        BY DEF AttestInv, AttestShape, ChainTyped
      <3>2. p <= GasCap
        BY <1>6, AttestAssumption
      <3> QED
        BY <2>1, <3>1, <3>2 DEF AttTx, NextNonce
    <2>3. wk' = [wk EXCEPT !.pc = "claim", !.order = o, !.tx = tx]
      BY <1>6, <2>1
    <2>4. (wk \in Work)' /\ wk'.pc = "claim" /\ wk'.todo = wk.todo /\ wk'.order = o /\ wk'.tx = tx
      BY <2>2, <2>3 DEF AttestInv, AttestShape, Work
    <2>5. \A q \in wk.todo : q \in AttOrders /\ att[q].status = "pending"
      BY <1>1, <1>2, AttestAssumption DEF AttestInv, AttestShape, ListHolds, Work
    <2>6. ListHolds' /\ BusyHolds'
      BY <1>1, <1>2, <1>6, <2>2, <2>4, <2>5 DEF ListHolds, BusyHolds
    <2> QED
      BY <1>1, <1>3, <1>6, <2>4, <2>6, QuietStep
  <1> QED
    BY <1>4, <1>5, <1>6 DEF Prepare

\* What is known of the order a pass over the pending rows is busy with.
LEMMA BusyPending ==
  ASSUME AttestInv, wk.pc \in {"claim", "broadcast", "flip", "wait"}
  PROVE  /\ wk.order \in AttOrders /\ wk.order \in wk.todo /\ wk.tx \in AttTx /\ wk.tx.order = wk.order
         /\ \A q \in wk.todo : q # wk.order => att[q].status = "pending"
BY DEF AttestInv, AttestShape, BusyHolds, ListHolds, Work

LEMMA ClaimSending_Inv == ASSUME AttestInv, ClaimSending PROVE AttestInv'
PROOF
  <1> DEFINE o == wk.order
             t == wk.tx
  <1>1. /\ wk.pc = "claim" /\ UNCHANGED <<pool, mined, seen, idle, lostReceipts>>
        /\ wk' = [wk EXCEPT !.pc = "broadcast"] /\ att[o].status = "pending"
    BY DEF ClaimSending, chainSide, AttestInv, AttestShape, BusyHolds
  <1>2. /\ o \in AttOrders /\ o \in wk.todo /\ t \in AttTx /\ t.order = o
        /\ \A q \in wk.todo : q \in AttOrders /\ (q # o => att[q].status = "pending")
    BY <1>1, BusyPending DEF AttestInv, AttestShape, Work
  <1>3. PICK row : row = [att[o] EXCEPT !.status = "sending", !.tx = t, !.nonce = t.nonce]
    OBVIOUS
  <1>4. att' = [att EXCEPT ![o] = row]
    BY <1>2, <1>3 DEF ClaimSending, AttestInv, AttestShape, RowsTyped
  <1>5. (wk \in Work)' /\ wk'.pc = "broadcast" /\ wk'.todo = wk.todo /\ wk'.order = o /\ wk'.tx = t
    BY <1>1 DEF AttestInv, AttestShape, Work
  <1> HIDE DEF o, t
  <1>6. t.nonce \in Nat
    BY <1>2 DEF AttTx
  <1>7. row \in AttRow /\ row.status = "sending" /\ row.tx = t /\ row.nonce = t.nonce
    <2>1. att[o] \in AttRow
      BY <1>2 DEF AttestInv, AttestShape, RowsTyped
    <2> QED
      BY <1>2, <1>3, <1>6, <2>1 DEF AttRow, AttStatus
  <1>8. RowsTyped' /\ att'[o] = row /\ \A q \in AttOrders : q # o => att'[q] = att[q]
    BY <1>2, <1>4, <1>7, RowWritten DEF AttestInv, AttestShape, IsRow
  <1>9. ListHolds' /\ BusyHolds'
    BY <1>2, <1>5, <1>7, <1>8 DEF ListHolds, BusyHolds
  <1>10. CachesTyped'
    BY <1>1 DEF AttestInv, AttestShape, CachesTyped
  <1>11. OneTransaction => \A tx \in AttTx : tx.order = o => ~Issued(tx)
    BY <1>1, <1>2 DEF OneTransaction
  <1> QED
    BY <1>1, <1>2, <1>5, <1>7, <1>8, <1>9, <1>10, <1>11, RowStep

LEMMA Broadcast_Inv == ASSUME AttestInv, Broadcast PROVE AttestInv'
PROOF
  <1> DEFINE o == wk.order
             t == wk.tx
  <1>1. /\ wk.pc = "broadcast" /\ UNCHANGED <<att, mined, seen, idle, lostReceipts>>
        /\ att[o].status = "sending" /\ att[o].tx = t
    BY DEF Broadcast, AttestInv, AttestShape, BusyHolds
  <1>2. /\ o \in AttOrders /\ o \in wk.todo /\ t \in AttTx /\ t.order = o
        /\ \A q \in wk.todo : q # o => att[q].status = "pending"
    BY <1>1, BusyPending
  <1>3. CachesTyped'
    BY <1>1 DEF AttestInv, AttestShape, CachesTyped
  <1>4. Broken(o) => (wk \in Work)' /\ ListHolds' /\ BusyHolds'
    BY <1>1, <1>2, ActedHolds
  <1>5. CASE Accepted(t) /\ wk' = [wk EXCEPT !.pc = "flip"]
    <2>1. t.nonce >= Len(mined) /\ pool' \subseteq pool \cup {t}
      BY <1>5 DEF Accepted, NextNonce
    <2>2. (wk \in Work)' /\ wk'.pc = "flip" /\ wk'.todo = wk.todo /\ wk'.order = o /\ wk'.tx = t
      BY <1>5 DEF AttestInv, AttestShape, Work
    <2>3. ListHolds' /\ BusyHolds'
      BY <1>1, <1>2, <2>2 DEF ListHolds, BusyHolds
    <2> QED
      BY <1>1, <1>2, <1>3, <2>1, <2>2, <2>3, BroadcastStep
  <1>6. CASE Rejected(t) /\ Broken(o)
    BY <1>1, <1>3, <1>4, <1>6, QuietStep DEF Rejected
  <1>7. CASE Uncertain(t) /\ Broken(o)
    <2>1. t.nonce >= Len(mined) /\ pool' \subseteq pool \cup {t}
      BY <1>7 DEF Uncertain, NextNonce
    <2> QED
      BY <1>1, <1>2, <1>3, <1>4, <1>7, <2>1, BroadcastStep
  <1> QED
    BY <1>5, <1>6, <1>7 DEF Broadcast

LEMMA FlipSent_Inv == ASSUME AttestInv, FlipSent PROVE AttestInv'
PROOF
  <1> DEFINE o == wk.order
             t == wk.tx
  <1>1. /\ wk.pc = "flip" /\ UNCHANGED <<pool, mined, seen, idle, lostReceipts>>
        /\ wk' = [wk EXCEPT !.pc = "wait"] /\ att[o].status = "sending" /\ att[o].tx = t
        /\ att' = [att EXCEPT ![o].status = "sent"]
    BY DEF FlipSent, chainSide, AttestInv, AttestShape, BusyHolds
  <1>2. /\ o \in AttOrders /\ o \in wk.todo /\ t \in AttTx /\ t.order = o
        /\ \A q \in wk.todo : q \in AttOrders /\ (q # o => att[q].status = "pending")
    BY <1>1, BusyPending DEF AttestInv, AttestShape, Work
  <1>3. (wk \in Work)' /\ wk'.pc = "wait" /\ wk'.todo = wk.todo /\ wk'.order = o /\ wk'.tx = t
    BY <1>1 DEF AttestInv, AttestShape, Work
  <1> HIDE DEF o, t
  <1>4. /\ RowsTyped' /\ \A q \in AttOrders : q # o => att'[q] = att[q]
        /\ att'[o].status = "sent" /\ att'[o].tx = t
    BY <1>1, <1>2, StatusWritten DEF AttestInv, AttestShape, AttStatus
  <1>5. ListHolds' /\ BusyHolds'
    BY <1>2, <1>3, <1>4 DEF ListHolds, BusyHolds
  <1>6. CachesTyped'
    BY <1>1 DEF AttestInv, AttestShape, CachesTyped
  <1>7. OneTransaction =>
          \A tx \in AttTx : tx.order = o /\ Issued(tx) =>
            tx = att'[o].tx /\ att'[o].status \notin {"none", "pending"}
    BY <1>1, <1>2, <1>4 DEF OneTransaction
  <1> QED
    BY <1>1, <1>2, <1>3, <1>4, <1>5, <1>6, <1>7, RowStep

LEMMA WaitReceipt_Inv == ASSUME AttestInv, WaitReceipt PROVE AttestInv'
PROOF
  <1> DEFINE o == wk.order
  <1>1. /\ wk.pc = "wait" /\ UNCHANGED <<pool, mined, seen, idle, lostReceipts>> /\ Acted(o)
        /\ att[o].status = "sent" /\ (att' = Resolved(o) \/ att' = att)
    BY DEF WaitReceipt, chainSide, AttestInv, AttestShape, BusyHolds
  <1>2. o \in AttOrders /\ o \in wk.todo
    BY <1>1, BusyPending
  <1>3. CachesTyped'
    BY <1>1 DEF AttestInv, AttestShape, CachesTyped
  <1>4. CASE att' = Resolved(o)
    <2>1. /\ RowsTyped' /\ \A q \in AttOrders : q # o => att'[q] = att[q]
          /\ att'[o].status \in {"attested", "failed"} /\ att'[o].tx = att[o].tx
          /\ att'[o].status = "attested" =>
               \E n \in 1..Len(mined) : mined[n].tx = att[o].tx /\ mined[n].ok
      BY <1>1, <1>2, <1>4, ResolvedRow DEF AttestInv, AttestShape
    <2>2. (wk \in Work)' /\ ListHolds' /\ BusyHolds'
      BY <1>1, <1>2, <2>1, ActedHolds
    <2>3. OneTransaction =>
            \A tx \in AttTx : tx.order = o /\ Issued(tx) =>
              tx = att'[o].tx /\ att'[o].status \notin {"none", "pending"}
      BY <1>2, <2>1 DEF OneTransaction
    <2> QED
      BY <1>1, <1>2, <1>3, <2>1, <2>2, <2>3, RowStep
  <1>5. CASE att' = att
    BY <1>1, <1>2, <1>3, <1>5, ActedHolds, QuietStep
  <1> QED
    BY <1>1, <1>4, <1>5

LEMMA TickEnd_Inv == ASSUME AttestInv, TickEnd PROVE AttestInv'
PROOF
  <1>1. UNCHANGED <<att, mined, pool, seen, lostReceipts>> /\ wk' = NoWork
    BY DEF TickEnd, chainSide
  <1>2. idle' \in 0..IDLE_ALERT_TICKS
    BY IdleCounts, AttestAssumption DEF TickEnd, AttestInv, AttestShape
  <1>3. CachesTyped'
    BY <1>1, <1>2 DEF AttestInv, AttestShape, CachesTyped
  <1> QED
    BY <1>1, <1>3, Rests, QuietStep

LEMMA AttCrash_Inv == ASSUME AttestInv, AttCrash PROVE AttestInv'
PROOF
  <1>1. UNCHANGED <<att, mined, pool, lostReceipts>> /\ wk' = NoWork
    BY DEF AttCrash, chainSide
  <1>2. CachesTyped'
    BY <1>1, AttestAssumption DEF AttCrash, AttestInv, AttestShape, CachesTyped
  <1> QED
    BY <1>1, <1>2, Rests, QuietStep

LEMMA DropTx_Inv == ASSUME AttestInv, NEW tx \in pool, DropTx(tx) PROVE AttestInv'
PROOF
  <1>1. UNCHANGED <<att, mined, seen, idle, wk, lostReceipts>> /\ pool' \subseteq pool
    BY DEF DropTx
  <1>2. (wk \in Work)' /\ ListHolds' /\ BusyHolds' /\ CachesTyped'
    BY <1>1 DEF AttestInv, AttestShape, ListHolds, BusyHolds, CachesTyped
  <1> QED
    BY <1>1, <1>2, QuietStep

LEMMA AttestStep == AttestInv /\ [AttestNext]_attVars => AttestInv'
PROOF
  <1> SUFFICES ASSUME AttestInv, [AttestNext]_attVars PROVE AttestInv'
    OBVIOUS
  <1>1. CASE UNCHANGED attVars
    <2>1. UNCHANGED <<att, mined, pool, seen, idle, wk, lostReceipts>>
      BY <1>1 DEF attVars
    <2>2. (wk \in Work)' /\ ListHolds' /\ BusyHolds' /\ CachesTyped'
      BY <2>1 DEF AttestInv, AttestShape, ListHolds, BusyHolds, CachesTyped
    <2> QED
      BY <2>1, <2>2, QuietStep
  <1>2. CASE AttestTick
    BY <1>2, TickBegin_Inv, SendingNonce_Inv, SendingRecheck_Inv, SendingResend_Inv, SendingResent_Inv,
       SendingDone_Inv, EnsureSchema_Inv, SchemaWait_Inv, ClaimSending_Inv, Broadcast_Inv, FlipSent_Inv,
       WaitReceipt_Inv, TickEnd_Inv, SendingReceipt_Inv, SentReceipt_Inv, Prepare_Inv DEF AttestTick
  <1> QED
    BY <1>1, <1>2, QueueAttest_Inv, MineAtt_Inv, DropTx_Inv, AttCrash_Inv DEF AttestNext, Mining

LEMMA AttestStart == AttestInit => AttestInv
PROOF
  <1> SUFFICES ASSUME AttestInit PROVE AttestInv
    OBVIOUS
  <1>1. RowsTyped
    <2>1. NoAtt \in AttRow /\ NoAtt.status = "none"
      BY DEF NoAtt, AttRow, AttStatus
    <2> QED
      BY <2>1 DEF AttestInit, RowsTyped, IsRow
  <1>2. ChainTyped
    BY DEF AttestInit, ChainTyped
  <1>3. wk \in Work /\ ListHolds /\ BusyHolds
    BY NoWorkShape DEF AttestInit, ListHolds, BusyHolds
  <1>4. CachesTyped
    BY AttestAssumption DEF AttestInit, CachesTyped
  <1>5. OneTransaction
    BY DEF AttestInit, NoAtt, OneTransaction, Issued, IsMined
  <1> QED
    BY <1>1, <1>2, <1>3, <1>4, <1>5 DEF AttestInv, AttestShape

LEMMA AttestTyped == AttestInv => AttestTypeOK
BY DEF AttestInv, AttestShape, RowsTyped, IsRow, AttRow, ChainTyped, Work, CachesTyped, AttestTypeOK

LEMMA ElementTyped == ASSUME NEW S, NEW s \in Seq(S), NEW n \in 1..Len(s) PROVE s[n] \in S
OBVIOUS

LEMMA AttestedByInv == Dependable /\ AttestInv => AttestedOnce
PROOF
  <1> SUFFICES ASSUME Dependable, AttestInv, NEW o \in AttOrders
               PROVE  /\ Cardinality(Attestations(o)) <= 1
                      /\ att[o].status = "pending" =>
                           /\ Attestations(o) = {}
                           /\ \A tx \in pool : tx.order = o => tx.nonce < NextNonce
                      /\ att[o].status = "attested" => \E n \in Attestations(o) : mined[n].tx = att[o].tx
    BY DEF AttestedOnce
  <1>1. \A n \in 1..Len(mined) : mined[n].tx \in AttTx /\ mined[n].tx.nonce = n - 1
    <2> SUFFICES ASSUME NEW n \in 1..Len(mined) PROVE mined[n].tx \in AttTx /\ mined[n].tx.nonce = n - 1
      OBVIOUS
    <2>1. mined \in Seq([tx : AttTx, ok : BOOLEAN])
      BY DEF AttestInv, AttestShape, ChainTyped
    <2>2. mined[n] \in [tx : AttTx, ok : BOOLEAN]
      BY <2>1, ElementTyped
    <2>3. mined[n].tx.nonce = n - 1
      BY DEF AttestInv, AttestShape, ChainTyped
    <2> QED
      BY <2>2, <2>3
  <1>2. \A n \in Attestations(o) : /\ n \in 1..Len(mined) /\ mined[n].tx = att[o].tx
                                   /\ att[o].status \notin {"none", "pending"}
    BY <1>1 DEF AttestInv, OneTransaction, Issued, IsMined, Attestations
  <1>3. Len(mined) \in Nat
    BY DEF AttestInv, AttestShape, ChainTyped
  <1>4. \A m, n \in Attestations(o) : m = n
    <2> SUFFICES ASSUME NEW m \in Attestations(o), NEW n \in Attestations(o) PROVE m = n
      OBVIOUS
    <2>1. m - 1 = n - 1 /\ m \in Int /\ n \in Int
      BY <1>1, <1>2, <1>3
    <2> QED
      BY <2>1
  <1>5. Cardinality(Attestations(o)) <= 1
    <2>1. CASE Attestations(o) = {}
      BY <2>1, FS_EmptySet
    <2>2. CASE Attestations(o) # {}
      <3>1. PICK n : Attestations(o) = {n}
        BY <1>4, <2>2
      <3>2. Cardinality({n}) = 1
        BY FS_Singleton
      <3> QED
        BY <3>1, <3>2
    <2> QED
      BY <2>1, <2>2
  <1>6. att[o].status = "pending" => \A tx \in pool : tx.order # o
    BY DEF AttestInv, AttestShape, ChainTyped, OneTransaction, Issued
  <1>7. ASSUME att[o].status = "attested" PROVE \E n \in Attestations(o) : mined[n].tx = att[o].tx
    <2>1. PICK n \in 1..Len(mined) : mined[n].tx = att[o].tx /\ mined[n].ok
      BY <1>7 DEF AttestInv, OneTransaction
    <2>2. att[o].tx.order = o
      BY <1>7 DEF AttestInv, AttestShape, RowsTyped, IsRow
    <2> QED
      BY <2>1, <2>2 DEF Attestations
  <1> QED
    BY <1>2, <1>5, <1>6, <1>7

\* app/attest.py:20-33: no order is attested twice.  The hypotheses are needed:
\* a receipt taken for missing, or a second gas price, and a row is signed again
\* while its first transaction is mined or still can be.
THEOREM AttestsOnce == Dependable /\ AttestSpec => []AttestedOnce
PROOF
  <1> DEFINE OnceInv == Dependable /\ AttestInv
  <1>1. Dependable /\ AttestInit => OnceInv
    BY AttestStart
  <1>2. OnceInv /\ [AttestNext]_attVars => OnceInv'
    BY AttestStep DEF Dependable
  <1>3. OnceInv => AttestedOnce
    BY AttestedByInv
  <1> HIDE DEF OnceInv
  <1> QED
    BY <1>1, <1>2, <1>3, PTL DEF AttestSpec

-----------------------------------------------------------------------------
(* Both outboxes *)

LEMMA OutboxesStep ==
  HooksInv /\ AttestInv /\ [OutboxesNext]_outboxVars => (HooksInv /\ AttestInv)'
PROOF
  <1>1. [OutboxesNext]_outboxVars => [WebhooksNext]_hookVars /\ [AttestNext]_attVars
    BY DEF OutboxesNext, outboxVars
  <1> QED
    BY <1>1, HooksStep, AttestStep

\* The rows of both outboxes and the locals of their loops keep their shape:
\* app/webhooks.py and app/attest.py, run side by side.
THEOREM OutboxesTypeCorrect == OutboxesSpec => []OutboxesTypeOK
PROOF
  <1>1. OutboxesInit => HooksInv /\ AttestInv
    BY HooksStart, AttestStart DEF OutboxesInit
  <1>2. HooksInv /\ AttestInv => OutboxesTypeOK
    BY HooksTyping, AttestTyped DEF OutboxesTypeOK
  <1> QED
    BY <1>1, <1>2, OutboxesStep, PTL DEF OutboxesSpec

=============================================================================
