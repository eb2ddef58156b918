----------------------- MODULE DispatcherCountProofs ------------------------
(***************************************************************************)
(* The tokens that bound how often a request can reach the provider, and   *)
(* what claiming, sending and dropping a row do to them.                   *)
(*                                                                         *)
(* A request is worth one token.  It is in the outbox while the row can be *)
(* claimed, or with the task that holds the row and may still call the     *)
(* provider.  A sweep of a lease and a lost response mint one token more.  *)
(***************************************************************************)
EXTENDS DispatcherProofs, FiniteSetTheorems

\* The tasks that hold r and may still call the provider or give r back.
Live(r) ==
    {w \in Workers : Holds(w, r) /\ ~(Processing(w, r) /\ step[w] = "write")}

\* Of those, the ones that claimed r below the cap and have not called yet.
Early(r) ==
    {w \in Live(r) :
        \/ \E b \in batch[w] : b.id = r /\ b.attempts < MaxSendAttempts
        \/ Processing(w, r) /\ row[w].attempts < MaxSendAttempts /\ step[w] # "defer"}

\* The token that is in the outbox, or still with the producer.
Pool(r) == IF ledger[r] = "absent" \/ r \in outbox \ leased THEN 1 ELSE 0

\* Claims of r that returned attempts below the cap.
EarlyClaims(r) ==
    IF attempts[r] < MaxSendAttempts THEN attempts[r] ELSE MaxSendAttempts - 1

\* Tokens bound the acceptances; tokens and early claims bound the calls.
CountInv ==
    \A r \in Requests :
        /\ Cardinality(Live(r)) + Pool(r) + accepted[r] <= 1 + excuses[r]
        /\ calls[r] + Cardinality(Early(r)) + Cardinality(Live(r)) + Pool(r)
              <= EarlyClaims(r) + 1 + excuses[r]
        /\ ledger[r] = "absent" => attempts[r] = 0

\* A subset of a finite set is no larger.
LEMMA CardShrink ==
    ASSUME NEW T, IsFiniteSet(T), NEW S \in SUBSET T
    PROVE  /\ Cardinality(S) \in Nat /\ Cardinality(T) \in Nat
           /\ Cardinality(S) <= Cardinality(T)
BY Zenon, FS_Subset, FS_CardinalityType

\* A subset that misses an element is smaller.
LEMMA CardDrop ==
    ASSUME NEW T, IsFiniteSet(T), NEW x \in T, NEW S \in SUBSET (T \ {x})
    PROVE  Cardinality(S) <= Cardinality(T) - 1
<1>1. IsFiniteSet(T \ {x}) /\ Cardinality(T \ {x}) = Cardinality(T) - 1
    BY Zenon, FS_RemoveElement
<1> QED
    BY Zenon, <1>1, CardShrink

\* A set with at most one element more is at most one larger.
LEMMA CardGrow ==
    ASSUME NEW T, IsFiniteSet(T), NEW x, NEW S \in SUBSET (T \cup {x})
    PROVE  /\ Cardinality(S) \in Nat /\ Cardinality(T) \in Nat
           /\ Cardinality(S) <= Cardinality(T) + 1
<1>1. /\ IsFiniteSet(T \cup {x}) /\ Cardinality(T) \in Nat
      /\ Cardinality(T \cup {x}) \in {Cardinality(T), Cardinality(T) + 1}
    BY Zenon, FS_AddElement, FS_CardinalityType
<1>2. Cardinality(S) \in Nat /\ Cardinality(S) <= Cardinality(T \cup {x})
    BY Zenon, <1>1, CardShrink
<1> QED
    BY <1>1, <1>2

\* Live and Early are sets of tasks, hence finite.
LEMMA CountsFinite ==
    ASSUME NEW r \in Requests
    PROVE  IsFiniteSet(Live(r)) /\ IsFiniteSet(Early(r))
<1>1. Live(r) \subseteq Workers /\ Early(r) \subseteq Workers
    BY Zenon DEF Live, Early
<1> QED
    BY Zenon, <1>1, FS_Subset, ConstantsAssumption

\* Nothing that only lets go of rows, or works on another request, raises a count.
LEMMA CountQuiet ==
    ASSUME TypeOK, CountInv, NEW r \in Requests,
           Live(r)' \subseteq Live(r), Early(r)' \subseteq Early(r), Pool(r)' <= Pool(r),
           UNCHANGED <<calls[r], accepted[r], excuses[r], attempts[r]>>,
           ledger'[r] = "absent" => ledger[r] = "absent"
    PROVE  /\ Cardinality(Live(r)') + Pool(r)' + accepted'[r] <= 1 + excuses'[r]
           /\ calls'[r] + Cardinality(Early(r)') + Cardinality(Live(r)') + Pool(r)'
                 <= EarlyClaims(r)' + 1 + excuses'[r]
           /\ ledger'[r] = "absent" => attempts'[r] = 0
<1>1. /\ Cardinality(Live(r)) \in Nat /\ Cardinality(Early(r)) \in Nat
      /\ Cardinality(Live(r)') \in Nat /\ Cardinality(Early(r)') \in Nat
      /\ Cardinality(Live(r)') <= Cardinality(Live(r))
      /\ Cardinality(Early(r)') <= Cardinality(Early(r))
    BY Zenon, CountsFinite, CardShrink
<1>2. /\ calls[r] \in Nat /\ accepted[r] \in Nat /\ excuses[r] \in Nat
      /\ Pool(r) \in Nat /\ Pool(r)' \in Nat
      /\ EarlyClaims(r)' = EarlyClaims(r) /\ EarlyClaims(r) \in Nat
    BY ConstantsAssumption DEF TypeOK, Pool, EarlyClaims
<1>3. /\ Cardinality(Live(r)) + Pool(r) + accepted[r] <= 1 + excuses[r]
      /\ calls[r] + Cardinality(Early(r)) + Cardinality(Live(r)) + Pool(r)
            <= EarlyClaims(r) + 1 + excuses[r]
      /\ ledger[r] = "absent" => attempts[r] = 0
    BY Zenon DEF CountInv
<1> QED
    BY <1>1, <1>2, <1>3

\* Apart from claiming, a task's step gives it no token and no early claim:
\* it moves on, decides, takes a row out of its batch, or lets go of its row.
LEMMA CountsShrink ==
    ASSUME TypeOK, DistinctRows, NEW w \in Workers, Work(w) \/ ProcessError(w), ~Claim(w),
           NEW r \in Requests
    PROVE  Live(r)' \subseteq Live(r) /\ Early(r)' \subseteq Early(r)
<1> USE ConstantsAssumption
<1>1. \/ step[w] # "idle" /\ Release(w)
      \/ StartRow(w)
      \/ \E next \in Steps : step[w] \notin {"idle", "write", "defer"} /\ Proceed(w, next)
      \/ \E s \in Final : Decide(w, s)
    BY Zenon DEF Work, ExpiryGate, SuppressionGate, VerificationGate, ConsentGate, Gate,
           QuotaGate, QuietHoursGate, Decrypt, CancellationCheck, Send, SendFailed,
           WriteTerminal, RescheduleRetry, ProcessError, Steps, Gates, Final, Blocking
<1>2. ASSUME NEW v \in Workers, UNCHANGED <<batch[v], row[v], step[v]>>
      PROVE  (v \in Live(r)' => v \in Live(r)) /\ (v \in Early(r)' => v \in Early(r))
    BY Zenon, <1>2 DEF Live, Early, Holds, Processing
<1>3. \A v \in Workers \ {w} : UNCHANGED <<batch[v], row[v], step[v]>>
    BY <1>1 DEF Release, StartRow, Proceed, Decide, TypeOK
<1>4. (w \in Live(r)' => w \in Live(r)) /\ (w \in Early(r)' => w \in Early(r))
    <2>1. CASE Release(w)
        <3>1. row'[w] = None /\ batch' = batch
            BY Zenon, <2>1 DEF Release, TypeOK
        <3>2. \A b \in batch[w] : row[w] # None => row[w].id # b.id
            BY Zenon DEF DistinctRows
        <3> QED
            BY Zenon, <3>1, <3>2 DEF Live, Early, Holds, Processing
    <2>2. CASE StartRow(w)
        <3>1. PICK b \in batch[w] :
                 /\ batch' = [batch EXCEPT ![w] = @ \ {b}]
                 /\ row' = [row EXCEPT ![w] = b]
            BY ZenonT(60), <2>2 DEF StartRow
        <3>2. batch'[w] = batch[w] \ {b} /\ row'[w] = b /\ row[w] = None
            BY Zenon, <2>2, <3>1 DEF StartRow, TypeOK
        <3> QED
            BY Zenon, <3>2 DEF Live, Early, Holds, Processing
    <2>3. ASSUME NEW next \in Steps, step[w] \notin {"idle", "write", "defer"}, Proceed(w, next)
          PROVE  (w \in Live(r)' => w \in Live(r)) /\ (w \in Early(r)' => w \in Early(r))
        BY Zenon, <2>3 DEF Proceed, Live, Early, Holds, Processing
    <2>4. ASSUME NEW s \in Final, Decide(w, s)
          PROVE  (w \in Live(r)' => w \in Live(r)) /\ (w \in Early(r)' => w \in Early(r))
        <3>1. batch' = batch /\ row' = row /\ step'[w] = "write"
            BY Zenon, <2>4 DEF Decide, TypeOK
        <3> QED
            BY Zenon, <3>1 DEF Live, Early, Holds, Processing
    <2> QED
        BY Zenon, <1>1, <2>1, <2>2, <2>3, <2>4
<1>5. Live(r)' \subseteq Workers /\ Early(r)' \subseteq Workers
    BY ZenonT(60) DEF Live, Early
<1> QED
    BY Zenon, <1>2, <1>3, <1>4, <1>5

\* A provider call uses up a token, an early claim, or mints a token.
LEMMA CountSend ==
    ASSUME TypeOK, DistinctRows, CountInv, NEW w \in Workers, Send(w)
    PROVE  CountInv'
<1> USE ConstantsAssumption
<1>1. PICK q \in Requests : Processing(w, q)
    BY Zenon DEF Send, TypeOK, Processing, Claimed
<1>2. UNCHANGED <<ledger, outbox, leased, attempts>>
    BY Zenon DEF Send, rows
<1>3. ASSUME NEW r \in Requests
      PROVE  Pool(r)' = Pool(r) /\ EarlyClaims(r)' = EarlyClaims(r)
    BY Zenon, <1>2 DEF Pool, EarlyClaims
<1>4. ASSUME NEW r \in Requests
      PROVE  Live(r)' \subseteq Live(r) /\ Early(r)' \subseteq Early(r)
    BY ZenonT(60), CountsShrink DEF Work, Send, Claim
<1>5. w \in Live(q) /\ \A b \in batch[w] : b.id # q
    BY Zenon, <1>1 DEF Send, Live, Holds, Processing, DistinctRows
<1>6. batch' = batch /\ row' = row /\ step'[w] \in {"write", "defer"}
    BY SMTT(30) DEF Send, SendFailed, Proceed, Decide, TypeOK
<1>7. w \notin Early(q)'
    BY Zenon, <1>1, <1>5, <1>6 DEF Early, Live, Holds, Processing
<1>8. step'[w] = "write" => w \notin Live(q)'
    BY Zenon, <1>1, <1>6 DEF Live, Processing
<1>9. w \in Early(q) \/ step'[w] = "write"
    <2>1. CASE row[w].attempts < MaxSendAttempts
        BY ZenonT(60), <1>1, <1>5, <2>1 DEF Early, Send, Processing
    <2>2. CASE ~(row[w].attempts < MaxSendAttempts)
        BY SMTT(30), <2>2 DEF Send, SendFailed, Decide, TypeOK
    <2> QED
        BY Zenon, <2>1, <2>2
<1>10. /\ Cardinality(Live(q)) \in Nat /\ Cardinality(Early(q)) \in Nat
       /\ Cardinality(Live(q)') \in Nat /\ Cardinality(Early(q)') \in Nat
       /\ Cardinality(Live(q)') <= Cardinality(Live(q))
       /\ Cardinality(Early(q)') <= Cardinality(Early(q))
       /\ step'[w] = "write" => Cardinality(Live(q)') <= Cardinality(Live(q)) - 1
       /\ w \in Early(q) => Cardinality(Early(q)') <= Cardinality(Early(q)) - 1
    <2>1. IsFiniteSet(Live(q)) /\ IsFiniteSet(Early(q))
        BY Zenon, CountsFinite
    <2>2. Live(q)' \subseteq Live(q) /\ Early(q)' \subseteq Early(q) \ {w}
        BY Zenon, <1>4, <1>7
    <2>3. step'[w] = "write" => Live(q)' \subseteq Live(q) \ {w}
        BY Zenon, <1>8, <2>2
    <2>4. /\ Cardinality(Live(q)) \in Nat /\ Cardinality(Live(q)') \in Nat
          /\ Cardinality(Live(q)') <= Cardinality(Live(q))
        BY Zenon, <2>1, <2>2, CardShrink
    <2>5. step'[w] = "write" => Cardinality(Live(q)') <= Cardinality(Live(q)) - 1
        BY Zenon, <1>5, <2>1, <2>3, CardDrop
    <2>6. Early(q)' \subseteq Early(q)
        BY Zenon, <2>2
    <2>7. /\ Cardinality(Early(q)) \in Nat /\ Cardinality(Early(q)') \in Nat
          /\ Cardinality(Early(q)') <= Cardinality(Early(q))
        BY Zenon, <2>1, <2>6, CardShrink
    <2>8. w \in Early(q) => Cardinality(Early(q)') <= Cardinality(Early(q)) - 1
        BY Zenon, <2>1, <2>2, CardDrop
    <2> QED
        BY Zenon, <2>4, <2>5, <2>7, <2>8
<1>11. /\ calls[q] \in Nat /\ accepted[q] \in Nat /\ excuses[q] \in Nat /\ Pool(q) \in Nat
       /\ EarlyClaims(q) \in Nat
    BY SMTT(30) DEF TypeOK, Pool, EarlyClaims
<1>12. /\ calls'[q] = calls[q] + 1
       /\ \/ step'[w] = "write" /\ accepted'[q] = accepted[q] + 1 /\ excuses'[q] = excuses[q]
          \/ accepted'[q] = accepted[q] + 1 /\ excuses'[q] = excuses[q] + 1
          \/ accepted'[q] = accepted[q] /\ excuses'[q] = excuses[q]
       /\ \A r \in Requests \ {q} : UNCHANGED <<calls[r], accepted[r], excuses[r]>>
    <2>1. calls' = [calls EXCEPT ![q] = @ + 1]
        BY Zenon, <1>1 DEF Send, Processing
    <2>2. \/ /\ step'[w] = "write" /\ accepted' = [accepted EXCEPT ![q] = @ + 1]
             /\ excuses' = excuses
          \/ /\ accepted' = [accepted EXCEPT ![q] = @ + 1]
             /\ excuses' = [excuses EXCEPT ![q] = @ + 1]
          \/ accepted' = accepted /\ excuses' = excuses
        <3>1. Decide(w, "sent") => step'[w] = "write"
            BY ZenonT(60) DEF Decide, TypeOK
        <3>2. row[w].id = q
            BY Zenon, <1>1 DEF Processing
        <3> QED
            BY ZenonT(60), <3>1, <3>2 DEF Send
    <2>3. /\ calls \in [Requests -> Nat] /\ accepted \in [Requests -> Nat]
          /\ excuses \in [Requests -> Nat]
        BY Zenon DEF TypeOK
    <2>4. ASSUME NEW f \in [Requests -> Nat], NEW g, g = [f EXCEPT ![q] = @ + 1]
          PROVE  g[q] = f[q] + 1 /\ \A r \in Requests \ {q} : g[r] = f[r]
        BY Zenon, <2>4
    <2>5. calls'[q] = calls[q] + 1 /\ \A r \in Requests \ {q} : calls'[r] = calls[r]
        BY Zenon, <2>1, <2>3, <2>4
    <2>6. accepted' = [accepted EXCEPT ![q] = @ + 1] =>
             accepted'[q] = accepted[q] + 1 /\ \A r \in Requests \ {q} : accepted'[r] = accepted[r]
        BY <2>3, <2>4
    <2>7. excuses' = [excuses EXCEPT ![q] = @ + 1] =>
             excuses'[q] = excuses[q] + 1 /\ \A r \in Requests \ {q} : excuses'[r] = excuses[r]
        BY ZenonT(60), <2>3, <2>4
    <2> QED
        BY Zenon, <2>2, <2>5, <2>6, <2>7
<1>13. ASSUME NEW r \in Requests \ {q}
       PROVE  /\ Cardinality(Live(r)') + Pool(r)' + accepted'[r] <= 1 + excuses'[r]
              /\ calls'[r] + Cardinality(Early(r)') + Cardinality(Live(r)') + Pool(r)'
                    <= EarlyClaims(r)' + 1 + excuses'[r]
              /\ ledger'[r] = "absent" => attempts'[r] = 0
    <2>1. Live(r)' \subseteq Live(r) /\ Early(r)' \subseteq Early(r)
        BY Zenon, <1>4
    <2>2. Pool(r)' <= Pool(r)
        BY SMTT(30), <1>3 DEF Pool
    <2>3. UNCHANGED <<calls[r], accepted[r], excuses[r]>>
        BY Zenon, <1>12
    <2>4. attempts'[r] = attempts[r] /\ ledger'[r] = ledger[r]
        BY Zenon, <1>2
    <2> QED
        BY Zenon, <2>1, <2>2, <2>3, <2>4, CountQuiet
<1>14. /\ Cardinality(Live(q)') + Pool(q)' + accepted'[q] <= 1 + excuses'[q]
       /\ calls'[q] + Cardinality(Early(q)') + Cardinality(Live(q)') + Pool(q)'
             <= EarlyClaims(q)' + 1 + excuses'[q]
       /\ ledger'[q] = "absent" => attempts'[q] = 0
    <2>1. /\ Cardinality(Live(q)) + Pool(q) + accepted[q] <= 1 + excuses[q]
          /\ calls[q] + Cardinality(Early(q)) + Cardinality(Live(q)) + Pool(q)
                <= EarlyClaims(q) + 1 + excuses[q]
          /\ ledger[q] = "absent" => attempts[q] = 0
        BY Zenon DEF CountInv
    <2>2. Pool(q)' = Pool(q) /\ EarlyClaims(q)' = EarlyClaims(q)
        BY Zenon, <1>3
    <2>3. ledger'[q] = "absent" => attempts'[q] = 0
        BY Zenon, <1>2, <2>1
    <2>4. Cardinality(Live(q)') + Pool(q) + accepted'[q] <= 1 + excuses'[q]
        BY SMTT(30), <1>10, <1>11, <1>12, <2>1
    <2>5. Cardinality(Early(q)') + Cardinality(Live(q)')
             <= Cardinality(Early(q)) + Cardinality(Live(q)) - 1
        BY SMTT(30), <1>9, <1>10
    <2>6. excuses'[q] \in Nat /\ excuses[q] <= excuses'[q] /\ calls'[q] = calls[q] + 1
        BY SMTT(30), <1>11, <1>12
    <2>7. calls'[q] + Cardinality(Early(q)') + Cardinality(Live(q)') + Pool(q)
             <= EarlyClaims(q) + 1 + excuses'[q]
        BY SMTT(30), <1>10, <1>11, <2>1, <2>5, <2>6
    <2> QED
        BY Zenon, <2>2, <2>3, <2>4, <2>7
<1> QED
    BY Zenon, <1>13, <1>14 DEF CountInv

\* A claim moves the tokens of the rows it leases to the task, and raises
\* attempts together with the early claims.
LEMMA CountClaim ==
    ASSUME TypeOK, LedgerOutboxAgree, CountInv, NEW w \in Workers, Claim(w)
    PROVE  CountInv'
<1> USE ConstantsAssumption
<1>1. PICK S \in SUBSET Claimable(w) :
         /\ leased' = leased \cup S
         /\ attempts' = [r \in Requests |-> IF r \in S THEN attempts[r] + 1 ELSE attempts[r]]
         /\ batch' = [batch EXCEPT ![w] = {[id |-> r, attempts |-> attempts[r] + 1] : r \in S}]
    BY ZenonT(60) DEF Claim
<1>2. /\ UNCHANGED <<outbox, ledger, row, step, calls, accepted, excuses>>
      /\ step[w] = "idle" /\ row[w] = None /\ batch[w] = {}
    BY Zenon DEF Claim, TypeOK, history
<1>3. S \subseteq Requests /\ S \subseteq outbox \ leased
    BY Zenon DEF Claimable, TypeOK
<1>4. ASSUME NEW r \in Requests
      PROVE  /\ Live(r)' \subseteq Live(r) \cup {w} /\ Early(r)' \subseteq Early(r) \cup {w}
             /\ r \notin S => Live(r)' \subseteq Live(r) /\ Early(r)' \subseteq Early(r)
             /\ r \in S /\ ~(attempts[r] + 1 < MaxSendAttempts) => Early(r)' \subseteq Early(r)
    <2>1. \A v \in Workers \ {w} : UNCHANGED <<batch[v], row[v], step[v]>>
        BY Zenon, <1>1, <1>2 DEF TypeOK
    <2>2. batch'[w] = {[id |-> x, attempts |-> attempts[x] + 1] : x \in S} /\ row'[w] = None
        BY Zenon, <1>1, <1>2 DEF TypeOK
    <2>3. \A v \in Workers \ {w} : /\ v \in Live(r)' => v \in Live(r)
                                   /\ v \in Early(r)' => v \in Early(r)
        BY Zenon, <2>1 DEF Live, Early, Holds, Processing
    <2>4. (w \in Live(r)' => r \in S) /\ (w \in Early(r)' => w \in Live(r)')
        BY SMTT(30), <2>2 DEF Live, Early, Holds, Processing
    <2>5. w \in Early(r)' => attempts[r] + 1 < MaxSendAttempts
        BY SMTT(30), <2>2 DEF Early, Processing
    <2>6. Live(r)' \subseteq Workers /\ Early(r)' \subseteq Workers
        BY Zenon DEF Live, Early
    <2> QED
        BY ZenonT(60), <2>3, <2>4, <2>5, <2>6
<1>5. ASSUME NEW r \in Requests \ S
      PROVE  /\ Cardinality(Live(r)') + Pool(r)' + accepted'[r] <= 1 + excuses'[r]
             /\ calls'[r] + Cardinality(Early(r)') + Cardinality(Live(r)') + Pool(r)'
                   <= EarlyClaims(r)' + 1 + excuses'[r]
             /\ ledger'[r] = "absent" => attempts'[r] = 0
    <2>1. Live(r)' \subseteq Live(r) /\ Early(r)' \subseteq Early(r)
        BY Zenon, <1>4
    <2>2. Pool(r)' <= Pool(r)
        BY SMTT(30), <1>1, <1>2 DEF Pool
    <2>3. UNCHANGED <<calls[r], accepted[r], excuses[r]>> /\ ledger'[r] = ledger[r]
        BY Zenon, <1>2
    <2>4. attempts'[r] = attempts[r]
        BY Zenon, <1>1
    <2> QED
        BY Zenon, <2>1, <2>2, <2>3, <2>4, CountQuiet
<1>6. ASSUME NEW r \in S
      PROVE  /\ Cardinality(Live(r)') + Pool(r)' + accepted'[r] <= 1 + excuses'[r]
             /\ calls'[r] + Cardinality(Early(r)') + Cardinality(Live(r)') + Pool(r)'
                   <= EarlyClaims(r)' + 1 + excuses'[r]
             /\ ledger'[r] = "absent" => attempts'[r] = 0
    <2>1. r \in Requests /\ r \in outbox /\ ledger[r] = "inflight" /\ Pool(r) = 1 /\ Pool(r)' = 0
        BY Zenon, <1>1, <1>2, <1>3 DEF Pool, LedgerOutboxAgree
    <2>2. IsFiniteSet(Live(r)) /\ IsFiniteSet(Early(r))
        BY Zenon, <2>1, CountsFinite
    <2>3. /\ Cardinality(Live(r)) \in Nat /\ Cardinality(Early(r)) \in Nat
          /\ Cardinality(Live(r)') \in Nat /\ Cardinality(Early(r)') \in Nat
          /\ Cardinality(Live(r)') <= Cardinality(Live(r)) + 1
          /\ Cardinality(Early(r)') <= Cardinality(Early(r)) + 1
          /\ ~(attempts[r] + 1 < MaxSendAttempts) =>
                Cardinality(Early(r)') <= Cardinality(Early(r))
        <3>1. /\ Live(r)' \subseteq Live(r) \cup {w} /\ Early(r)' \subseteq Early(r) \cup {w}
              /\ ~(attempts[r] + 1 < MaxSendAttempts) => Early(r)' \subseteq Early(r)
            BY Zenon, <1>4, <2>1
        <3>2. /\ Cardinality(Live(r)) \in Nat /\ Cardinality(Live(r)') \in Nat
              /\ Cardinality(Live(r)') <= Cardinality(Live(r)) + 1
            BY ZenonT(60), <2>2, <3>1, CardGrow
        <3>3. /\ Cardinality(Early(r)) \in Nat /\ Cardinality(Early(r)') \in Nat
              /\ Cardinality(Early(r)') <= Cardinality(Early(r)) + 1
            BY ZenonT(60), <2>2, <3>1, CardGrow
        <3>4. Early(r)' \subseteq Early(r) => Cardinality(Early(r)') <= Cardinality(Early(r))
            BY Zenon, <2>2, CardShrink
        <3> QED
            BY Zenon, <3>1, <3>2, <3>3, <3>4
    <2>4. attempts[r] \in Nat /\ attempts'[r] = attempts[r] + 1
        BY Zenon, <1>1, <2>1 DEF TypeOK
    <2>5. EarlyClaims(r) \in Nat /\ EarlyClaims(r)' \in Nat
          /\ EarlyClaims(r)' = IF attempts[r] + 1 < MaxSendAttempts
                               THEN EarlyClaims(r) + 1 ELSE EarlyClaims(r)
        BY SMTT(30), <2>4 DEF EarlyClaims
    <2>6. calls[r] \in Nat /\ accepted[r] \in Nat /\ excuses[r] \in Nat
        BY Zenon, <2>1 DEF TypeOK
    <2>7. /\ Cardinality(Live(r)) + Pool(r) + accepted[r] <= 1 + excuses[r]
          /\ calls[r] + Cardinality(Early(r)) + Cardinality(Live(r)) + Pool(r)
                <= EarlyClaims(r) + 1 + excuses[r]
        BY Zenon, <2>1 DEF CountInv
    <2>8. calls'[r] = calls[r] /\ accepted'[r] = accepted[r] /\ excuses'[r] = excuses[r]
          /\ ledger'[r] = "inflight"
        BY Zenon, <1>2, <2>1
    <2>9. Cardinality(Live(r)') + Pool(r)' + accepted'[r] <= 1 + excuses'[r]
        BY SMTT(30), <2>1, <2>3, <2>6, <2>7, <2>8
    <2>10. Cardinality(Early(r)') - Cardinality(Early(r)) <= EarlyClaims(r)' - EarlyClaims(r)
        BY SMTT(30), <2>3, <2>5
    <2>11. calls'[r] + Cardinality(Early(r)') + Cardinality(Live(r)') + Pool(r)'
              <= EarlyClaims(r)' + 1 + excuses'[r]
        <3>1. Cardinality(Live(r)') + Pool(r)' <= Cardinality(Live(r)) + Pool(r)
            BY SMTT(30), <2>1, <2>3
        <3>2. Cardinality(Live(r)') \in Nat /\ Cardinality(Live(r)) \in Nat
              /\ Cardinality(Early(r)') \in Nat /\ Cardinality(Early(r)) \in Nat
              /\ Pool(r)' \in Nat /\ Pool(r) \in Nat
            BY <2>1, <2>3
        <3> QED
            BY SMTT(30), <3>1, <3>2, <2>5, <2>6, <2>7, <2>8, <2>10
    <2> QED
        BY Zenon, <2>8, <2>9, <2>11
<1> QED
    BY Zenon, <1>5, <1>6 DEF CountInv

-----------------------------------------------------------------------------
(***************************************************************************)
(* How often a request can reach the provider, for any number of tasks,    *)
(* crashes, lost sessions and drains running beside the claim loops: every *)
(* step preserves the token invariant.                                     *)
(***************************************************************************)

\* Giving a row back returns the task's token to the outbox.
LEMMA CountReschedule ==
    ASSUME TypeOK, DistinctRows, CountInv, NEW w \in Workers, RescheduleRetry(w)
    PROVE  CountInv'
<1> USE ConstantsAssumption
<1>1. PICK q \in Requests : Processing(w, q)
    BY Zenon DEF RescheduleRetry, TypeOK, Processing, Claimed
<1>2. /\ UNCHANGED <<outbox, ledger, attempts, calls, accepted, excuses>>
      /\ leased' = leased \ {q} /\ Release(w)
    BY Zenon, <1>1 DEF RescheduleRetry, Processing, history
<1>3. ASSUME NEW r \in Requests
      PROVE  Live(r)' \subseteq Live(r) /\ Early(r)' \subseteq Early(r)
    BY ZenonT(60), CountsShrink DEF Work, RescheduleRetry, Claim
<1>4. w \in Live(q) /\ w \notin Live(q)'
    <2>1. w \in Live(q)
        BY ZenonT(60), <1>1 DEF RescheduleRetry, Live, Holds
    <2>2. ~Holds(w, q)'
        BY ZenonT(60), <1>1, <1>2, HoldsShrink DEF Work, RescheduleRetry, Claim
    <2> QED
        BY ZenonT(60), <2>1, <2>2 DEF Live
<1>5. ASSUME NEW r \in Requests \ {q}
      PROVE  /\ Cardinality(Live(r)') + Pool(r)' + accepted'[r] <= 1 + excuses'[r]
             /\ calls'[r] + Cardinality(Early(r)') + Cardinality(Live(r)') + Pool(r)'
                   <= EarlyClaims(r)' + 1 + excuses'[r]
             /\ ledger'[r] = "absent" => attempts'[r] = 0
    <2>1. Live(r)' \subseteq Live(r) /\ Early(r)' \subseteq Early(r)
        BY Zenon, <1>3
    <2>2. Pool(r)' <= Pool(r)
        BY <1>2 DEF Pool
    <2>3. /\ UNCHANGED <<calls[r], accepted[r], excuses[r], attempts[r]>>
          /\ ledger'[r] = ledger[r]
        BY Zenon, <1>2
    <2> QED
        BY ZenonT(60), <2>1, <2>2, <2>3, CountQuiet
<1>6. /\ Cardinality(Live(q)') + Pool(q)' + accepted'[q] <= 1 + excuses'[q]
      /\ calls'[q] + Cardinality(Early(q)') + Cardinality(Live(q)') + Pool(q)'
            <= EarlyClaims(q)' + 1 + excuses'[q]
      /\ ledger'[q] = "absent" => attempts'[q] = 0
    <2>1. IsFiniteSet(Live(q)) /\ IsFiniteSet(Early(q))
        BY Zenon, CountsFinite
    <2>2. Live(q)' \subseteq Live(q) \ {w} /\ Live(q)' \subseteq Live(q)
        BY Zenon, <1>3, <1>4
    <2>3. /\ Cardinality(Live(q)) \in Nat /\ Cardinality(Live(q)') \in Nat
          /\ Cardinality(Live(q)') <= Cardinality(Live(q)) - 1
        BY Zenon, <1>4, <2>1, <2>2, CardDrop, CardShrink
    <2>4. /\ Cardinality(Early(q)) \in Nat /\ Cardinality(Early(q)') \in Nat
          /\ Cardinality(Early(q)') <= Cardinality(Early(q))
        BY Zenon, <1>3, <2>1, CardShrink
    <2>5. /\ calls[q] \in Nat /\ accepted[q] \in Nat /\ excuses[q] \in Nat
          /\ EarlyClaims(q) \in Nat /\ EarlyClaims(q)' = EarlyClaims(q)
        BY <1>2 DEF TypeOK, EarlyClaims
    <2>6. /\ Cardinality(Live(q)) + Pool(q) + accepted[q] <= 1 + excuses[q]
          /\ calls[q] + Cardinality(Early(q)) + Cardinality(Live(q)) + Pool(q)
                <= EarlyClaims(q) + 1 + excuses[q]
          /\ ledger[q] = "absent" => attempts[q] = 0
        BY Zenon DEF CountInv
    <2>7. Pool(q) \in {0, 1} /\ Pool(q)' \in {0, 1}
        BY Zenon DEF Pool
    <2>8. Cardinality(Live(q)') + Pool(q)' <= Cardinality(Live(q)) + Pool(q)
        BY <2>3, <2>7
    <2>9. UNCHANGED <<calls[q], accepted[q], excuses[q], attempts[q], ledger[q]>>
        BY Zenon, <1>2
    <2>10. Cardinality(Live(q)') + Pool(q)' + accepted[q] <= 1 + excuses[q]
        BY <2>3, <2>5, <2>6, <2>7, <2>8
    <2>11. calls[q] + Cardinality(Early(q)') + Cardinality(Live(q)') + Pool(q)'
              <= EarlyClaims(q) + 1 + excuses[q]
        BY SMTT(30), <2>3, <2>4, <2>5, <2>6, <2>7, <2>8
    <2> QED
        BY Zenon, <2>5, <2>6, <2>9, <2>10, <2>11
<1> QED
    BY Zenon, <1>5, <1>6 DEF CountInv

\* A sweep puts the token of every leased row back, and the excuse accounts for it.
LEMMA CountSweep ==
    ASSUME TypeOK, CountInv, NEW d \in Dispatchers, ClearStaleLeases(d)
    PROVE  CountInv'
<1> USE ConstantsAssumption
<1> SUFFICES ASSUME NEW r \in Requests
             PROVE  /\ Cardinality(Live(r)') + Pool(r)' + accepted'[r] <= 1 + excuses'[r]
                    /\ calls'[r] + Cardinality(Early(r)') + Cardinality(Live(r)') + Pool(r)'
                          <= EarlyClaims(r)' + 1 + excuses'[r]
                    /\ ledger'[r] = "absent" => attempts'[r] = 0
    BY Zenon DEF CountInv
<1>1. /\ UNCHANGED <<outbox, ledger, attempts, calls, accepted, batch, row, step>>
      /\ leased' = {}
      /\ excuses'[r] = IF r \in leased THEN excuses[r] + 1 ELSE excuses[r]
    BY ZenonT(60) DEF ClearStaleLeases, tasks
<1>2. Live(r)' = Live(r) /\ Early(r)' = Early(r)
    BY ZenonT(60), <1>1 DEF Live, Early, Holds, Processing
<1>3. Cardinality(Live(r)) \in Nat /\ Cardinality(Early(r)) \in Nat
    BY Zenon, CountsFinite, FS_CardinalityType
<1>4. /\ calls[r] \in Nat /\ accepted[r] \in Nat /\ excuses[r] \in Nat
      /\ EarlyClaims(r) \in Nat /\ EarlyClaims(r)' = EarlyClaims(r)
    BY <1>1 DEF TypeOK, EarlyClaims
<1>5. /\ Pool(r) \in {0, 1} /\ Pool(r)' \in {0, 1}
      /\ r \notin leased => Pool(r)' = Pool(r)
    BY Zenon, <1>1 DEF Pool
<1>6. /\ Cardinality(Live(r)) + Pool(r) + accepted[r] <= 1 + excuses[r]
      /\ calls[r] + Cardinality(Early(r)) + Cardinality(Live(r)) + Pool(r)
            <= EarlyClaims(r) + 1 + excuses[r]
      /\ ledger[r] = "absent" => attempts[r] = 0
    BY Zenon DEF CountInv
<1>7. Pool(r)' - Pool(r) <= excuses'[r] - excuses[r] /\ excuses'[r] \in Nat
    <2>1. CASE r \in leased
        BY <1>1, <1>4, <1>5, <2>1
    <2>2. CASE r \notin leased
        BY SMTT(30), <1>1, <1>4, <1>5, <2>2
    <2> QED
        BY Zenon, <2>1, <2>2
<1>8. Cardinality(Live(r)) + Pool(r)' + accepted[r] <= 1 + excuses'[r]
    BY <1>3, <1>4, <1>5, <1>6, <1>7
<1>9. calls[r] + Cardinality(Early(r)) + Cardinality(Live(r)) + Pool(r)'
          <= EarlyClaims(r) + 1 + excuses'[r]
    BY <1>3, <1>4, <1>5, <1>6, <1>7
<1>10. UNCHANGED <<calls[r], accepted[r], attempts[r], ledger[r]>>
    BY Zenon, <1>1
<1> QED
    BY Zenon, <1>2, <1>4, <1>6, <1>8, <1>9, <1>10

\* No step creates a token without an excuse.
LEMMA CountStep ==
    TypeOK /\ LedgerOutboxAgree /\ DistinctRows /\ CountInv /\ [Next]_vars => CountInv'
<1> SUFFICES ASSUME TypeOK, LedgerOutboxAgree, DistinctRows, CountInv, [Next]_vars
             PROVE  CountInv'
    OBVIOUS
<1> USE ConstantsAssumption
<1>1. ASSUME UNCHANGED <<calls, accepted, excuses>>,
             \A r \in Requests : /\ Live(r)' \subseteq Live(r) /\ Early(r)' \subseteq Early(r)
                                 /\ Pool(r)' <= Pool(r) /\ attempts'[r] = attempts[r]
                                 /\ ledger'[r] = "absent" => ledger[r] = "absent"
      PROVE  CountInv'
    <2> SUFFICES ASSUME NEW r \in Requests
                 PROVE  /\ Cardinality(Live(r)') + Pool(r)' + accepted'[r] <= 1 + excuses'[r]
                        /\ calls'[r] + Cardinality(Early(r)') + Cardinality(Live(r)') + Pool(r)'
                              <= EarlyClaims(r)' + 1 + excuses'[r]
                        /\ ledger'[r] = "absent" => attempts'[r] = 0
        BY ZenonT(60) DEF CountInv
    <2> QED
        BY Zenon, <1>1, CountQuiet
<1>2. ASSUME UNCHANGED <<batch, row, step>>
      PROVE  \A r \in Requests : Live(r)' = Live(r) /\ Early(r)' = Early(r)
    BY ZenonT(60), <1>2 DEF Live, Early, Holds, Processing
<1>3. ASSUME UNCHANGED <<outbox, ledger, leased>>
      PROVE  \A r \in Requests : Pool(r)' <= Pool(r)
    BY <1>3 DEF Pool
<1>4. ASSUME NEW q \in Requests, Ingest(q)
      PROVE  CountInv'
    <2>1. UNCHANGED <<batch, row, step, leased, calls, accepted, excuses>>
        BY Zenon, <1>4 DEF Ingest, tasks, history
    <2>2. /\ ledger[q] = "absent" /\ ledger' = [ledger EXCEPT ![q] = "inflight"]
          /\ outbox' = outbox \cup {q} /\ attempts' = [attempts EXCEPT ![q] = 0]
        BY Zenon, <1>4 DEF Ingest
    <2>3. \A r \in Requests : Pool(r)' <= Pool(r)
        BY <2>1, <2>2 DEF Pool, TypeOK
    <2>4. attempts[q] = 0
        BY Zenon, <2>2 DEF CountInv
    <2>5. \A r \in Requests : /\ attempts'[r] = attempts[r]
                              /\ ledger'[r] = "absent" => ledger[r] = "absent"
        BY Zenon, <2>2, <2>4 DEF TypeOK
    <2> QED
        BY Zenon, <1>1, <1>2, <2>1, <2>3, <2>5
<1>5. ASSUME UNCHANGED <<outbox, ledger, leased, attempts, batch, row, step, calls,
                         accepted, excuses>>
      PROVE  CountInv'
    <2>1. \A r \in Requests : /\ Live(r)' \subseteq Live(r) /\ Early(r)' \subseteq Early(r)
                              /\ Pool(r)' <= Pool(r)
        BY Zenon, <1>2, <1>3, <1>5
    <2> QED
        BY Zenon, <1>1, <1>5, <2>1
<1>6. CASE Environment
    <2>1. PICK q \in Requests :
            \/ Ingest(q)
            \/ Cancel(q) \/ BecomeDue(q) \/ Expire(q) \/ Verify(q)
            \/ Suppress(q) \/ Unsuppress(q) \/ OptIn(q) \/ OptOut(q)
        BY Zenon, <1>6 DEF Environment
    <2>2. CASE ~Ingest(q)
        BY ZenonT(60), <1>5, <2>1, <2>2 DEF Cancel, BecomeDue, Expire, Verify, Suppress, Unsuppress,
                                OptIn, OptOut, rows, tasks, history
    <2> QED
        BY Zenon, <1>4, <2>2
<1>7. ASSUME NEW d \in Dispatchers, Crash(d)
      PROVE  CountInv'
    <2>1. UNCHANGED <<outbox, ledger, leased, attempts, calls, accepted, excuses>>
        BY ZenonT(60), <1>7 DEF Crash, rows, history
    <2>2. ASSUME NEW r \in Requests, NEW w \in Workers
          PROVE  (w \in Live(r)' => w \in Live(r)) /\ (w \in Early(r)' => w \in Early(r))
        <3>1. CASE Home[w] = d
            BY ZenonT(60), <1>7, <3>1 DEF Crash, Live, Early, Holds, Processing
        <3>2. CASE Home[w] # d
            <4>1. UNCHANGED <<batch[w], row[w], step[w]>>
                BY ZenonT(60), <1>7, <3>2 DEF Crash
            <4> QED
                BY ZenonT(60), <4>1 DEF Live, Early, Holds, Processing
        <3> QED
            BY Zenon, <3>1, <3>2
    <2>3. \A r \in Requests : Live(r)' \subseteq Live(r) /\ Early(r)' \subseteq Early(r)
        <3>1. \A r \in Requests : Live(r)' \subseteq Workers /\ Early(r)' \subseteq Workers
            BY Zenon DEF Live, Early
        <3> QED
            BY Zenon, <2>2, <3>1
    <2> QED
        BY ZenonT(60), <1>1, <1>3, <2>1, <2>3
<1>8. CASE Process
    <2>1. PICK d \in Dispatchers :
            \/ Acquire(d) \/ Restart(d) \/ LoseSession(d)
            \/ ClearStaleLeases(d) \/ Crash(d)
        BY Zenon, <1>8 DEF Process
    <2>2. CASE Acquire(d) \/ Restart(d) \/ LoseSession(d)
        BY Zenon, <1>5, <2>2 DEF Acquire, Restart, LoseSession, rows, tasks, history
    <2> QED
        BY Zenon, <1>7, <2>1, <2>2, CountSweep
<1>9. ASSUME NEW w \in Workers, Work(w) \/ ProcessError(w),
             ~Claim(w), ~Send(w), ~RescheduleRetry(w)
      PROVE  CountInv'
    <2>1. \A r \in Requests : Live(r)' \subseteq Live(r) /\ Early(r)' \subseteq Early(r)
        BY Zenon, <1>9, CountsShrink
    <2>2. UNCHANGED <<attempts, calls, accepted, excuses>>
        BY ZenonT(60), <1>9 DEF Work, StartRow, ExpiryGate, SuppressionGate, VerificationGate,
                    ConsentGate, Gate, QuotaGate, QuietHoursGate, Decrypt,
                    CancellationCheck, WriteTerminal, ProcessError, rows, history
    <2>3. CASE UNCHANGED <<outbox, ledger, leased>>
        BY ZenonT(60), <1>1, <1>3, <2>1, <2>2, <2>3
    <2>4. CASE WriteTerminal(w)
        <3>1. PICK q \in Requests : row[w].id = q
            BY Zenon, <2>4 DEF WriteTerminal, TypeOK, Claimed
        <3>2. /\ outbox' = outbox \ {q} /\ leased' = leased \ {q}
              /\ ledger' = [ledger EXCEPT ![q] = verdict[w]] /\ verdict[w] # "absent"
            BY ZenonT(60), <2>4, <3>1 DEF WriteTerminal, TypeOK, Final, Blocking
        <3>3. \A r \in Requests : /\ Pool(r)' <= Pool(r)
                                  /\ ledger'[r] = "absent" => ledger[r] = "absent"
            BY SMTT(30), <3>2 DEF Pool, TypeOK
        <3> QED
            BY ZenonT(60), <1>1, <2>1, <2>2, <3>3
    <2> QED
        BY ZenonT(60), <1>9, <2>3, <2>4
           DEF Work, StartRow, ExpiryGate, SuppressionGate, VerificationGate, ConsentGate,
               Gate, QuotaGate, QuietHoursGate, Decrypt, CancellationCheck, ProcessError, rows
<1>10. CASE UNCHANGED vars
    BY Zenon, <1>5, <1>10 DEF vars, rows, tasks, history
<1> QED
    BY Zenon, <1>6, <1>8, <1>9, <1>10, CountClaim, CountSend, CountReschedule DEF Next

\* The token and call counts hold in every reachable state.
LEMMA CountInvAlways == Spec => []CountInv
<1>1. Init => CountInv
    <2> SUFFICES ASSUME Init, NEW r \in Requests
                 PROVE  /\ Cardinality(Live(r)) + Pool(r) + accepted[r] <= 1 + excuses[r]
                        /\ calls[r] + Cardinality(Early(r)) + Cardinality(Live(r)) + Pool(r)
                              <= EarlyClaims(r) + 1 + excuses[r]
                        /\ ledger[r] = "absent" => attempts[r] = 0
        BY Zenon DEF CountInv
    <2>1. Live(r) = {} /\ Early(r) = {}
        BY Zenon DEF Init, Live, Early, Holds, Processing
    <2>2. Cardinality(Live(r)) = 0 /\ Cardinality(Early(r)) = 0
        BY Zenon, <2>1, FS_EmptySet
    <2>3. Pool(r) = 1 /\ EarlyClaims(r) = 0
        BY ConstantsAssumption DEF Init, Pool, EarlyClaims
    <2> QED
        BY <2>2, <2>3 DEF Init
<1> QED
    BY <1>1, CountStep, TypeCorrect, LedgerOutboxAgreeAlways, DistinctRowsAlways, PTL DEF Spec

\* However many processes, drains, crashes and lost sessions there are, the
\* provider accepts a request again only after a sweep dropped its lease or a
\* response was lost.
THEOREM DuplicatesExcusedAlways == Spec => []DuplicatesExcused
<1>1. TypeOK /\ CountInv => DuplicatesExcused
    <2> SUFFICES ASSUME TypeOK, CountInv, NEW r \in Requests
                 PROVE  accepted[r] <= 1 + excuses[r]
        BY Zenon DEF DuplicatesExcused
    <2>1. Cardinality(Live(r)) \in Nat /\ Pool(r) \in Nat
        BY Zenon, CountsFinite, FS_CardinalityType DEF Pool
    <2>2. Cardinality(Live(r)) + Pool(r) + accepted[r] <= 1 + excuses[r]
        BY ZenonT(60) DEF CountInv
    <2> QED
        BY <2>1, <2>2 DEF TypeOK
<1> QED
    BY <1>1, CountInvAlways, TypeCorrect, PTL

\* MAX_SEND_ATTEMPTS bounds the provider calls of a request, sweeps and lost
\* responses aside, for any number of tasks and any interleaving.
THEOREM RetryCapAlways == Spec => []RetryCap
<1>1. TypeOK /\ CountInv => RetryCap
    <2> SUFFICES ASSUME TypeOK, CountInv, NEW r \in Requests
                 PROVE  calls[r] <= MaxSendAttempts + excuses[r]
        BY Zenon DEF RetryCap
    <2>1. Cardinality(Live(r)) \in Nat /\ Cardinality(Early(r)) \in Nat /\ Pool(r) \in Nat
        BY Zenon, CountsFinite, FS_CardinalityType DEF Pool
    <2>2. calls[r] \in Nat /\ excuses[r] \in Nat /\ MaxSendAttempts \in Nat
        BY Zenon, ConstantsAssumption DEF TypeOK
    <2>3. EarlyClaims(r) \in Int /\ EarlyClaims(r) + 1 <= MaxSendAttempts
        BY ConstantsAssumption DEF EarlyClaims, TypeOK
    <2>4. calls[r] + Cardinality(Early(r)) + Cardinality(Live(r)) + Pool(r)
             <= EarlyClaims(r) + 1 + excuses[r]
        BY Zenon DEF CountInv
    <2> QED
        BY <2>1, <2>2, <2>3, <2>4
<1> QED
    BY <1>1, CountInvAlways, TypeCorrect, PTL
=============================================================================
