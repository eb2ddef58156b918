-------------------------- MODULE DispatcherProofs --------------------------
(***************************************************************************)
(* Proofs about Dispatcher, for every set of requests, processes and tasks *)
(* and every bound on faults.                                              *)
(***************************************************************************)
EXTENDS Dispatcher, TLAPS

\* Init establishes the types of the tables, tasks and histories.
LEMMA InitTypeOK == Init => TypeOK
BY ConstantsAssumption
   DEF Init, TypeOK, Claimed, Final, Blocking, Steps, Gates, Phases, Faults

\* Every step of a producer, an operator or the clock preserves the types.
LEMMA EnvironmentTypeOK == TypeOK /\ Environment => TypeOK'
<1> SUFFICES ASSUME TypeOK, NEW r \in Requests,
                    \/ Ingest(r) \/ Cancel(r) \/ BecomeDue(r) \/ Expire(r) \/ Verify(r)
                    \/ Suppress(r) \/ Unsuppress(r) \/ OptIn(r) \/ OptOut(r)
             PROVE  TypeOK'
    BY Zenon DEF Environment
<1> USE ConstantsAssumption
    DEF TypeOK, rows, policy, process, tasks, history
<1>1. CASE Ingest(r)
    BY Zenon, <1>1 DEF Ingest
<1>2. CASE Cancel(r)
    BY <1>2 DEF Cancel, Doom, Gates
<1>3. CASE BecomeDue(r)
    BY Zenon, <1>3 DEF BecomeDue
<1>4. CASE Expire(r)
    BY <1>4 DEF Expire, Doom, Gates
<1>5. CASE Verify(r)
    BY Zenon, <1>5 DEF Verify
<1>6. CASE Suppress(r)
    BY <1>6 DEF Suppress, Doom, Gates
<1>7. CASE Unsuppress(r)
    BY Zenon, <1>7 DEF Unsuppress
<1>8. CASE OptIn(r)
    BY Zenon, <1>8 DEF OptIn
<1>9. CASE OptOut(r)
    BY SMTT(30), <1>9 DEF OptOut, Doom, Gates
<1> QED
    BY ZenonT(60), <1>1, <1>2, <1>3, <1>4, <1>5, <1>6, <1>7, <1>8, <1>9

\* Every step of the election and of a process's life preserves the types.
LEMMA ProcessTypeOK == TypeOK /\ Process => TypeOK'
<1> SUFFICES ASSUME TypeOK, NEW d \in Dispatchers,
                    \/ Acquire(d) \/ ClearStaleLeases(d) \/ Restart(d) \/ Crash(d)
                    \/ LoseSession(d)
             PROVE  TypeOK'
    BY Zenon DEF Process
<1> USE ConstantsAssumption DEF TypeOK, rows, policy, tasks, history
<1>1. CASE Acquire(d)
    BY Zenon, <1>1 DEF Acquire, Phases
<1>2. CASE ClearStaleLeases(d)
    BY <1>2 DEF ClearStaleLeases, Phases
<1>3. CASE Restart(d)
    BY Zenon, <1>3 DEF Restart, Phases
<1>4. CASE Crash(d)
    BY <1>4 DEF Crash, Spend, Phases, Steps, Gates, Faults
<1>5. CASE LoseSession(d)
    BY <1>5 DEF LoseSession, Spend, Faults
<1> QED
    BY Zenon, <1>1, <1>2, <1>3, <1>4, <1>5

\* What the helpers that move a task on do to the types of its variables.
TasksOK ==
    /\ batch \in [Workers -> SUBSET Claimed]
    /\ row \in [Workers -> Claimed \cup {None}]
    /\ step \in [Workers -> Steps]
    /\ \A w \in Workers : step[w] = "idle" <=> row[w] = None
    /\ verdict \in [Workers -> Final \cup {None}]
    /\ \A w \in Workers : step[w] = "write" <=> verdict[w] # None

\* Moving on, deciding and letting go keep a task's row, await and status in step.
LEMMA MoveTypeOK ==
    ASSUME TasksOK, NEW w \in Workers
    PROVE  /\ \A next \in Steps \ {"idle", "write"} :
                 /\ step[w] \notin {"idle", "write"}
                 /\ Proceed(w, next)
                 => TasksOK'
           /\ \A s \in Final : step[w] # "idle" /\ Decide(w, s) => TasksOK'
           /\ Release(w) => TasksOK'
<1> USE ConstantsAssumption DEF TasksOK
<1>1. \A next \in Steps \ {"idle", "write"} :
          step[w] \notin {"idle", "write"} /\ Proceed(w, next) => TasksOK'
    BY DEF Proceed
<1>2. \A s \in Final : step[w] # "idle" /\ Decide(w, s) => TasksOK'
    BY DEF Decide, Steps
<1>3. Release(w) => TasksOK'
    BY DEF Release, Steps
<1> QED
    BY Zenon, <1>1, <1>2, <1>3

\* Every await of a task, and every error exit of try_process, preserves the types.
LEMMA WorkTypeOK ==
    ASSUME TypeOK, NEW w \in Workers, Work(w) \/ ProcessError(w)
    PROVE  TypeOK'
<1> USE ConstantsAssumption
<1>t. TasksOK
    BY Zenon DEF TypeOK, TasksOK
<1>r. ASSUME step[w] # "idle"
      PROVE  row[w] \in Claimed /\ row[w].id \in Requests /\ row[w].attempts \in Nat
    BY Zenon, <1>r DEF TypeOK, Claimed
<1>1. CASE Claim(w)
    <2>1. PICK S \in SUBSET Claimable(w) :
             /\ leased' = leased \cup S
             /\ attempts' = [r \in Requests |-> IF r \in S THEN attempts[r] + 1 ELSE attempts[r]]
             /\ batch' = [batch EXCEPT ![w] = {[id |-> r, attempts |-> attempts[r] + 1] : r \in S}]
        BY ZenonT(60), <1>1 DEF Claim
    <2>2. S \subseteq due /\ S \subseteq Requests
        BY Zenon DEF Claimable, TypeOK
    <2>3. {[id |-> r, attempts |-> attempts[r] + 1] : r \in S} \subseteq Claimed
        BY <2>2 DEF TypeOK, Claimed
    <2> QED
        BY <1>1, <2>1, <2>2, <2>3 DEF Claim, TypeOK, policy, process, history
<1>2. CASE StartRow(w)
    <2>1. PICK b \in batch[w] : /\ batch' = [batch EXCEPT ![w] = @ \ {b}]
                               /\ row' = [row EXCEPT ![w] = b]
        BY ZenonT(60), <1>2 DEF StartRow
    <2>2. b \in Claimed /\ b # None /\ step[w] = "idle"
        BY <1>2 DEF StartRow, TypeOK
    <2>3. \/ step' = [step EXCEPT ![w] = "write"] /\ verdict' = [verdict EXCEPT ![w] = "discarded"]
          \/ step' = [step EXCEPT ![w] = "expiry"] /\ UNCHANGED verdict
        BY Zenon, <1>2 DEF StartRow
    <2>4. batch' \in [Workers -> SUBSET Claimed] /\ row' \in [Workers -> Claimed \cup {None}]
        BY Zenon, <1>t, <2>1, <2>2 DEF TasksOK
    <2>5. step' \in [Workers -> Steps] /\ verdict' \in [Workers -> Final \cup {None}]
        BY Zenon, <1>t, <2>3 DEF TasksOK, Steps, Gates, Final, Blocking
    <2>6. /\ \A v \in Workers : step'[v] = "idle" <=> row'[v] = None
          /\ \A v \in Workers : step'[v] = "write" <=> verdict'[v] # None
        <3>1. /\ row'[w] # None /\ step'[w] # "idle"
              /\ step'[w] = "write" <=> verdict'[w] # None
            <4>1. row'[w] = b
                BY Zenon, <1>t, <2>1 DEF TasksOK
            <4>2. verdict[w] = None
                BY Zenon, <1>t, <2>2 DEF TasksOK
            <4>3. "discarded" # None
                BY Zenon DEF Final, Blocking
            <4> QED
                BY Zenon, <1>t, <2>2, <2>3, <4>1, <4>2, <4>3 DEF TasksOK
        <3>2. \A v \in Workers \ {w} : UNCHANGED <<row[v], step[v], verdict[v]>>
            BY ZenonT(60), <1>t, <2>1, <2>3 DEF TasksOK
        <3> QED
            BY ZenonT(60), <1>t, <3>1, <3>2 DEF TasksOK
    <2>7. UNCHANGED <<rows, ledger, events, policy, process, used, history>>
        BY Zenon, <1>2 DEF StartRow
    <2>8. TasksOK'
        BY Zenon, <2>4, <2>5, <2>6 DEF TasksOK
    <2> QED
        BY Zenon, <2>7, <2>8 DEF TasksOK, TypeOK, rows, policy, process, history
<1>3. ASSUME NEW g \in Gates, NEW s \in Final, NEW next \in Steps \ {"idle", "write"},
             Gate(w, g, s, next), events' \in [Requests -> SUBSET Final]
      PROVE  TypeOK'
    <2>1. step[w] \notin {"idle", "write"}
        BY Zenon, <1>3 DEF Gate, Gates
    <2>2. TasksOK'
        BY Zenon, <1>3, <1>t, <2>1, MoveTypeOK DEF Gate
    <2> QED
        BY Zenon, <1>3, <2>2 DEF Gate, TasksOK, TypeOK, rows, policy, process, history
<1>4. CASE ExpiryGate(w) \/ SuppressionGate(w) \/ ConsentGate(w)
    BY <1>3, <1>4, ZenonT(60) DEF ExpiryGate, SuppressionGate, ConsentGate, TypeOK, Steps, Gates,
                      Final, Blocking
<1>5. CASE VerificationGate(w)
    <2>1. step[w] # "idle"
        BY Zenon, <1>5 DEF VerificationGate, Gate
    <2>2. events' \in [Requests -> SUBSET Final]
        BY Zenon, <1>5, <1>r, <2>1 DEF VerificationGate, TypeOK, Final, Blocking
    <2> QED
        BY Zenon, <1>3, <1>5, <2>2 DEF VerificationGate, Steps, Gates, Final, Blocking
<1>6. CASE QuotaGate(w) \/ QuietHoursGate(w) \/ Decrypt(w)
    <2>1. TasksOK'
        BY Zenon, <1>6, <1>t, MoveTypeOK DEF QuotaGate, QuietHoursGate, Decrypt, Steps, Gates
    <2> QED
        BY <1>6, <2>1 DEF QuotaGate, QuietHoursGate, Decrypt, Spend, Faults, TasksOK, TypeOK,
                          rows, policy, process, history
<1>7. CASE CancellationCheck(w)
    <2>1. TasksOK'
        BY Zenon, <1>7, <1>t, MoveTypeOK DEF CancellationCheck, Steps, Final, Blocking
    <2> QED
        BY Zenon, <1>7, <2>1 DEF CancellationCheck, TasksOK, TypeOK, rows, policy, process, history
<1>8. CASE Send(w)
    <2>1. TasksOK'
        BY Zenon, <1>8, <1>t, MoveTypeOK DEF Send, SendFailed, Steps, Final
    <2>2. row[w].id \in Requests
        BY Zenon, <1>8, <1>r DEF Send
    <2>3. /\ calls' \in [Requests -> Nat] /\ accepted' \in [Requests -> Nat]
          /\ excuses' \in [Requests -> Nat]
        <3> DEFINE r == row[w].id
                   Bump(f) == [f EXCEPT ![r] = @ + 1]
        <3>1. /\ calls' = Bump(calls)
              /\ accepted' \in {accepted, Bump(accepted)}
              /\ excuses' \in {excuses, Bump(excuses)}
            BY ZenonT(60), <1>8 DEF Send
        <3>2. ASSUME NEW f \in [Requests -> Nat]
              PROVE  Bump(f) \in [Requests -> Nat]
            BY <2>2
        <3>3. /\ Bump(calls) \in [Requests -> Nat] /\ Bump(accepted) \in [Requests -> Nat]
              /\ Bump(excuses) \in [Requests -> Nat]
            BY Zenon, <3>2 DEF TypeOK
        <3>4. accepted \in [Requests -> Nat] /\ excuses \in [Requests -> Nat]
            BY Zenon DEF TypeOK
        <3> HIDE DEF Bump
        <3> QED
            BY Zenon, <3>1, <3>3, <3>4
    <2>4. UNCHANGED <<rows, ledger, events, policy, process, used, torn, doomed>>
        BY Zenon, <1>8 DEF Send
    <2> QED
        BY Zenon, <2>1, <2>3, <2>4 DEF TasksOK, TypeOK, rows, policy, process
<1>9. CASE WriteTerminal(w)
    <2>1. TasksOK'
        BY Zenon, <1>9, <1>t, MoveTypeOK DEF WriteTerminal
    <2>2. PICK r \in Requests :
             /\ events' = [events EXCEPT ![r] = @ \cup {verdict[w]}]
             /\ ledger' = [ledger EXCEPT ![r] = verdict[w]]
             /\ outbox' = outbox \ {r} /\ due' = due \ {r}
             /\ leased' = leased \ {r} /\ cancelled' = cancelled \ {r}
        BY ZenonT(60), <1>9, <1>r DEF WriteTerminal, TypeOK
    <2>3. verdict[w] \in Final
        BY Zenon, <1>9, <1>t DEF WriteTerminal, TasksOK
    <2>4. /\ outbox' \subseteq Requests
          /\ due' \subseteq outbox' /\ leased' \subseteq outbox' /\ cancelled' \subseteq outbox'
        BY Zenon, <2>2 DEF TypeOK
    <2>5. /\ ledger' \in [Requests -> Final \cup {"absent", "inflight"}]
          /\ events' \in [Requests -> SUBSET Final]
        BY Zenon, <2>2, <2>3 DEF TypeOK
    <2>6. UNCHANGED <<attempts, policy, process, used, history>>
        BY Zenon, <1>9 DEF WriteTerminal
    <2> QED
        BY Zenon, <2>1, <2>4, <2>5, <2>6 DEF TasksOK, TypeOK, policy, process, history
<1>10. CASE RescheduleRetry(w) \/ ProcessError(w)
    <2>1. TasksOK'
        BY Zenon, <1>10, <1>t, MoveTypeOK DEF RescheduleRetry, ProcessError
    <2>2. used' \in [Faults -> Nat]
        BY SMTT(30), <1>10 DEF RescheduleRetry, ProcessError, Spend, TypeOK
    <2>3. due' \subseteq due /\ leased' \subseteq leased
        BY Zenon, <1>10 DEF RescheduleRetry, ProcessError, rows
    <2>4. UNCHANGED <<outbox, cancelled, attempts, ledger, events, policy, process, history>>
        <3>1. CASE RescheduleRetry(w)
            BY Zenon, <3>1 DEF RescheduleRetry
        <3>2. CASE ProcessError(w)
            BY Zenon, <3>2 DEF ProcessError, rows
        <3> QED
            BY Zenon, <1>10, <3>1, <3>2
    <2> QED
        BY Zenon, <2>1, <2>2, <2>3, <2>4 DEF TasksOK, TypeOK, policy, process, history
<1> QED
    BY Zenon, <1>1, <1>2, <1>4, <1>5, <1>6, <1>7, <1>8, <1>9, <1>10 DEF Work

\* Every step preserves the types.
LEMMA TypeStep == TypeOK /\ [Next]_vars => TypeOK'
<1>1. TypeOK /\ UNCHANGED vars => TypeOK'
    BY Zenon DEF TypeOK, vars, rows, policy, process, tasks, history
<1> QED
    BY Zenon, <1>1, EnvironmentTypeOK, ProcessTypeOK, WorkTypeOK DEF Next

\* Every reachable state of the tables, tasks and processes is well typed; in
\* particular a task holds a row exactly while it is between two awaits of it,
\* and a status exactly while it is about to write it.
THEOREM TypeCorrect == Spec => []TypeOK
BY InitTypeOK, TypeStep, PTL DEF Spec

-----------------------------------------------------------------------------
(* The ledger and the outbox agree.                                        *)

\* Only insert_transactional and write_terminal touch the ledger, and both keep the
\* outbox in agreement with it.
LEMMA AgreeStep == TypeOK /\ LedgerOutboxAgree /\ [Next]_vars => LedgerOutboxAgree'
<1> SUFFICES ASSUME TypeOK, LedgerOutboxAgree, [Next]_vars
             PROVE  LedgerOutboxAgree'
    OBVIOUS
<1>1. CASE UNCHANGED <<outbox, ledger>> /\ \A r \in Requests : events[r] \subseteq events'[r]
    BY Zenon, <1>1 DEF LedgerOutboxAgree
<1>2. ASSUME NEW r \in Requests, Ingest(r)
      PROVE  LedgerOutboxAgree'
    BY Zenon, <1>2 DEF Ingest, LedgerOutboxAgree, TypeOK, Final, Blocking
<1>3. ASSUME NEW w \in Workers, WriteTerminal(w)
      PROVE  LedgerOutboxAgree'
    <2>1. row[w] \in Claimed /\ row[w].id \in Requests /\ verdict[w] \in Final
        BY Zenon, <1>3 DEF WriteTerminal, TypeOK, Claimed
    <2>2. "inflight" \notin Final
        BY Zenon DEF Final, Blocking
    <2> QED
        BY Zenon, <1>3, <2>1, <2>2 DEF WriteTerminal, LedgerOutboxAgree, TypeOK
<1>4. ASSUME NEW w \in Workers, VerificationGate(w)
      PROVE  LedgerOutboxAgree'
    <2>1. /\ UNCHANGED <<outbox, ledger>>
          /\ \A r \in Requests : events[r] \subseteq events'[r]
        BY Zenon, <1>4 DEF VerificationGate, Gate, rows, TypeOK
    <2> QED
        BY Zenon, <2>1, <1>1
<1>5. CASE Environment
    <2>1. PICK r \in Requests :
            \/ Ingest(r)
            \/ Cancel(r) \/ BecomeDue(r) \/ Expire(r) \/ Verify(r)
            \/ Suppress(r) \/ Unsuppress(r) \/ OptIn(r) \/ OptOut(r)
        BY Zenon, <1>5 DEF Environment
    <2>2. CASE ~Ingest(r)
        BY Zenon, <1>1, <2>1, <2>2 DEF Cancel, BecomeDue, Expire, Verify, Suppress, Unsuppress,
                                OptIn, OptOut, rows
    <2> QED
        BY Zenon, <1>2, <2>2
<1>6. CASE Process
    BY ZenonT(60), <1>1, <1>6 DEF Process, Acquire, ClearStaleLeases, Restart, Crash, LoseSession, rows
<1>7. ASSUME NEW w \in Workers, Work(w) \/ ProcessError(w)
      PROVE  LedgerOutboxAgree'
    <2>1. CASE ~(WriteTerminal(w) \/ VerificationGate(w))
        BY ZenonT(60), <1>1, <1>7, <2>1
           DEF Work, Claim, StartRow, ExpiryGate, SuppressionGate, ConsentGate, Gate,
               QuotaGate, QuietHoursGate, Decrypt, CancellationCheck, Send,
               RescheduleRetry, ProcessError, rows
    <2> QED
        BY Zenon, <1>3, <1>4, <2>1
<1>8. CASE UNCHANGED vars
    BY ZenonT(60), <1>1, <1>8 DEF vars, rows
<1> QED
    BY Zenon, <1>5, <1>6, <1>7, <1>8 DEF Next

\* For any number of tasks and faults, a request has an outbox row exactly while
\* its final_status is NULL, and every final status has its event.
THEOREM LedgerOutboxAgreeAlways == Spec => []LedgerOutboxAgree
<1>1. Init => LedgerOutboxAgree
    BY DEF Init, LedgerOutboxAgree, Final, Blocking
<1> QED
    BY <1>1, AgreeStep, TypeCorrect, PTL DEF Spec

-----------------------------------------------------------------------------
(* A blocked request is not handed to the provider.                        *)

\* A recorded block still holds, and no task is between its gate and the
\* provider call.
DoomInv ==
    \A r \in Requests, g \in Gates :
        <<r, g>> \in doomed =>
            /\ Blocked(r, g)
            /\ ~PastGate(r, g)
            /\ g = "cancel" => ledger[r] # "absent"

\* A step of a task gets it past a gate only through that gate, and only if the
\* gate's read found no block.
LEMMA PassGate ==
    ASSUME TypeOK, NEW w \in Workers, Work(w) \/ ProcessError(w),
           NEW r \in Requests, NEW g \in Gates, PastGate(r, g)', ~PastGate(r, g)
    PROVE  Processing(w, r) /\ step[w] = g /\ ~Blocked(r, g)
<1>1. PICK v \in Workers : Processing(v, r)' /\ step'[v] \in After(g)
    BY ZenonT(60) DEF PastGate, After
<1>2. UNCHANGED <<row[v], step[v]>> => FALSE
    BY Zenon, <1>1 DEF PastGate, Processing
<1>3. v = w
    BY ZenonT(60), <1>2 DEF Work, Claim, StartRow, ExpiryGate, SuppressionGate, VerificationGate,
                ConsentGate, Gate, QuotaGate, QuietHoursGate, Decrypt, CancellationCheck,
                Send, SendFailed, WriteTerminal, RescheduleRetry, ProcessError,
                Proceed, Decide, Release, TypeOK
<1>4. step'[w] \in After(g) /\ step'[w] \in Steps \ {"idle", "write", "defer", "expiry"}
    BY Zenon, <1>1, <1>3 DEF After, Gates, Steps
<1>5. PICK next \in Steps : Proceed(w, next) /\ next = step'[w] /\ next \in After(g)
    <2>1. PICK next \in Steps : Proceed(w, next)
        BY ZenonT(60), <1>4 DEF Work, Claim, StartRow, ExpiryGate, SuppressionGate, VerificationGate,
                    ConsentGate, Gate, QuotaGate, QuietHoursGate, Decrypt,
                    CancellationCheck, Send, SendFailed, WriteTerminal, RescheduleRetry,
                    ProcessError, Decide, Release, TypeOK, Steps, Gates
    <2> QED
        BY ZenonT(60), <1>4, <2>1 DEF Proceed, TypeOK
<1>6. Processing(w, r)
    BY Zenon, <1>1, <1>3, <1>5 DEF Processing, Proceed
<1>7. step[w] \notin After(g)
    BY Zenon, <1>6 DEF PastGate
<1> QED
    BY <1>4, <1>6, <1>7, ZenonT(60)
       DEF Work, Claim, StartRow, ExpiryGate, SuppressionGate, VerificationGate,
           ConsentGate, Gate, QuotaGate, QuietHoursGate, Decrypt, CancellationCheck,
           Send, SendFailed, WriteTerminal, RescheduleRetry, ProcessError,
           Proceed, Decide, Release, TypeOK, After, Gates, Blocked, Processing

\* Every step keeps a recorded block in force and every task short of its gate.
LEMMA DoomStep == TypeOK /\ LedgerOutboxAgree /\ DoomInv /\ [Next]_vars => DoomInv'
<1> SUFFICES ASSUME TypeOK, LedgerOutboxAgree, DoomInv, [Next]_vars,
                    NEW r \in Requests, NEW g \in Gates, <<r, g>> \in doomed'
             PROVE  /\ Blocked(r, g)' /\ ~PastGate(r, g)'
                    /\ g = "cancel" => ledger'[r] # "absent"
    BY Zenon DEF DoomInv
<1> USE DEF DoomInv
<1>1. ASSUME UNCHANGED tasks
      PROVE  PastGate(r, g)' <=> PastGate(r, g)
    BY Zenon, <1>1 DEF tasks, PastGate, Processing, After
<1>2. CASE Environment
    <2>1. PICK q \in Requests :
            \/ Ingest(q) \/ Cancel(q) \/ BecomeDue(q) \/ Expire(q) \/ Verify(q)
            \/ Suppress(q) \/ Unsuppress(q) \/ OptIn(q) \/ OptOut(q)
        BY Zenon, <1>2 DEF Environment
    <2>2. PastGate(r, g)' <=> PastGate(r, g)
        BY Zenon, <1>1, <2>1 DEF Ingest, Cancel, BecomeDue, Expire, Verify, Suppress, Unsuppress,
                          OptIn, OptOut
    <2> USE <2>2 DEF Gates, Blocked
    <2>3. CASE Ingest(q)
        BY ZenonT(60), <2>3 DEF Ingest, TypeOK, policy, history
    <2>4. CASE Cancel(q)
        <3>1. q \in outbox => ledger[q] # "absent"
            BY Zenon DEF LedgerOutboxAgree
        <3>2. CASE <<r, g>> \in doomed
            <4>1. cancelled \subseteq cancelled' /\ UNCHANGED <<outbox, ledger, policy>>
                BY Zenon, <2>4 DEF Cancel
            <4> QED
                BY ZenonT(60), <3>2, <4>1 DEF policy
        <3>3. CASE <<r, g>> \notin doomed
            <4>1. /\ r = q /\ g = "cancel" /\ q \in outbox /\ ~PastGate(q, "cancel")
                  /\ q \in cancelled' /\ ledger' = ledger
                BY Zenon, <2>4, <3>3 DEF Cancel, Doom
            <4> QED
                BY Zenon, <3>1, <4>1
        <3> QED
            BY ZenonT(60), <3>2, <3>3
    <2>5. CASE BecomeDue(q)
        BY ZenonT(60), <2>5 DEF BecomeDue, policy, history
    <2>6. CASE Expire(q)
        BY ZenonT(60), <2>6 DEF Expire, Doom, rows
    <2>7. CASE Verify(q)
        BY ZenonT(60), <2>7 DEF Verify, rows
    <2>8. CASE Suppress(q)
        BY ZenonT(60), <2>8 DEF Suppress, Doom, rows
    <2>9. CASE Unsuppress(q)
        BY ZenonT(60), <2>9 DEF Unsuppress, rows
    <2>10. CASE OptIn(q)
        BY ZenonT(60), <2>10 DEF OptIn, rows
    <2>11. CASE OptOut(q)
        BY ZenonT(60), <2>11 DEF OptOut, Doom, rows
    <2> QED
        BY ZenonT(60), <2>1, <2>3, <2>4, <2>5, <2>6, <2>7, <2>8, <2>9, <2>10, <2>11
<1>3. CASE Process
    <2>1. /\ doomed' = doomed /\ ledger' = ledger
          /\ UNCHANGED <<policy, outbox, cancelled>>
        BY ZenonT(60), <1>3 DEF Process, Acquire, ClearStaleLeases, Restart, Crash, LoseSession, history, rows
    <2>2. PastGate(r, g)' => PastGate(r, g)
        <3>1. CASE UNCHANGED tasks
            BY Zenon, <1>1, <3>1
        <3>2. ASSUME NEW d \in Dispatchers, Crash(d)
              PROVE  PastGate(r, g)' => PastGate(r, g)
            BY ZenonT(60), <3>2 DEF Crash, PastGate, Processing, After
        <3> QED
            BY ZenonT(60), <1>3, <3>1, <3>2 DEF Process, Acquire, ClearStaleLeases, Restart, LoseSession
    <2> QED
        BY ZenonT(60), <2>1, <2>2 DEF Blocked, Gates, policy
<1>4. ASSUME NEW w \in Workers, Work(w) \/ ProcessError(w)
      PROVE  /\ Blocked(r, g)' /\ ~PastGate(r, g)'
             /\ g = "cancel" => ledger'[r] # "absent"
    <2>1. doomed' = doomed /\ UNCHANGED policy
        BY ZenonT(60), <1>4 DEF Work, Claim, StartRow, ExpiryGate, SuppressionGate, VerificationGate,
                    ConsentGate, Gate, QuotaGate, QuietHoursGate, Decrypt,
                    CancellationCheck, Send, WriteTerminal, RescheduleRetry,
                    ProcessError, history
    <2>2. ~PastGate(r, g)'
        BY Zenon, <1>4, <2>1, PassGate
    <2>3. CASE UNCHANGED <<outbox, cancelled, ledger>>
        BY ZenonT(60), <2>1, <2>2, <2>3 DEF Blocked, Gates, policy
    <2>4. CASE WriteTerminal(w)
        <3>1. row[w] \in Claimed /\ row[w].id \in Requests /\ verdict[w] \in Final
            BY ZenonT(60), <2>4 DEF WriteTerminal, TypeOK, Claimed
        <3>2. "absent" \notin Final
            BY Zenon DEF Final, Blocking
        <3>3. Blocked(r, g)'
            BY ZenonT(60), <2>1, <2>4 DEF WriteTerminal, Blocked, Gates, policy
        <3> QED
            BY ZenonT(60), <2>1, <2>2, <2>4, <3>1, <3>2, <3>3 DEF WriteTerminal, TypeOK
    <2> QED
        BY ZenonT(60), <1>4, <2>3, <2>4
           DEF Work, Claim, StartRow, ExpiryGate, SuppressionGate, VerificationGate,
               ConsentGate, Gate, QuotaGate, QuietHoursGate, Decrypt, CancellationCheck,
               Send, RescheduleRetry, ProcessError, rows
<1>5. CASE UNCHANGED vars
    BY ZenonT(60), <1>1, <1>5 DEF vars, rows, policy, tasks, history, Blocked, Gates
<1> QED
    BY Zenon, <1>2, <1>3, <1>4, <1>5 DEF Next

\* A request that was cancelled, expired, suppressed, opted out or unverified
\* before any task had passed the corresponding gate of try_process is never
\* handed to the provider while that lasts.
THEOREM DoomedNeverSentAlways == Spec => DoomedNeverSent
<1>1. Init => DoomInv
    <2> SUFFICES ASSUME Init, NEW r \in Requests, NEW g \in Gates, <<r, g>> \in doomed
                 PROVE  Blocked(r, g) /\ ~PastGate(r, g) /\ g # "cancel"
        BY Zenon DEF DoomInv
    <2>1. /\ g \in {"verification", "consent"}
          /\ IF g = "consent" THEN Class[r] = "marketing" ELSE Enforce
        BY Zenon DEF Init
    <2>2. Blocked(r, g)
        BY ZenonT(60), <2>1 DEF Init, Blocked
    <2>3. ~PastGate(r, g)
        BY Zenon DEF Init, PastGate, Processing
    <2> QED
        BY Zenon, <2>1, <2>2, <2>3
<1>2. TypeOK /\ DoomInv /\ [Next]_vars =>
          [\A r \in Requests :
              calls'[r] # calls[r] => \A g \in Gates : <<r, g>> \notin doomed]_vars
    <2> SUFFICES ASSUME TypeOK, DoomInv, Next, NEW r \in Requests, NEW g \in Gates,
                        calls'[r] # calls[r]
                 PROVE  <<r, g>> \notin doomed
        OBVIOUS
    <2>1. PICK w \in Workers : Send(w)
        BY ZenonT(60) DEF Next, Environment, Ingest, Cancel, BecomeDue, Expire, Verify, Suppress,
               Unsuppress, OptIn, OptOut, Process, Acquire, ClearStaleLeases, Restart,
               Crash, LoseSession, Work, Claim, StartRow, ExpiryGate, SuppressionGate,
               VerificationGate, ConsentGate, Gate, QuotaGate, QuietHoursGate, Decrypt,
               CancellationCheck, WriteTerminal, RescheduleRetry, ProcessError, history
    <2>2. row[w] \in Claimed /\ row[w] # None
        BY Zenon, <2>1, ConstantsAssumption DEF Send, TypeOK
    <2>3. row[w].id = r
        BY Zenon, <2>1, <2>2 DEF Send, TypeOK, Claimed
    <2>4. PastGate(r, g)
        BY Zenon, <2>1, <2>2, <2>3 DEF PastGate, Processing, Send, After, Gates
    <2> QED
        BY Zenon, <2>4 DEF DoomInv
<1> QED
    BY <1>1, <1>2, DoomStep, TypeCorrect, LedgerOutboxAgreeAlways, PTL DEF Spec, DoomedNeverSent

-----------------------------------------------------------------------------
(***************************************************************************)
(* What a lease protects.  A task never holds a row twice.  Until a sweep  *)
(* takes its lease from under a live task a row is held by one task at a   *)
(* time, and the dispatcher implements Delivery.  If only claim loops run  *)
(* and no leader outlives its lock session, no sweep ever does that.       *)
(***************************************************************************)

\* The rows a task holds are distinct requests.
DistinctRows ==
    \A w \in Workers :
        /\ \A b, c \in batch[w] : b.id = c.id => b = c
        /\ \A b \in batch[w] : row[w] # None => row[w].id # b.id

\* Claim leases distinct rows, and the loop over the batch takes each out once.
LEMMA DistinctStep == TypeOK /\ DistinctRows /\ [Next]_vars => DistinctRows'
<1> SUFFICES ASSUME TypeOK, DistinctRows, [Next]_vars
             PROVE  DistinctRows'
    OBVIOUS
<1>1. CASE UNCHANGED <<batch, row>>
    BY Zenon, <1>1 DEF DistinctRows
<1>2. CASE Environment \/ Process
    <2>1. ASSUME NEW d \in Dispatchers, Crash(d)
          PROVE  DistinctRows'
        BY Zenon, <2>1 DEF Crash, DistinctRows
    <2>2. CASE ~\E d \in Dispatchers : Crash(d)
        BY Zenon, <1>1, <1>2, <2>2
           DEF Environment, Ingest, Cancel, BecomeDue, Expire, Verify, Suppress, Unsuppress,
               OptIn, OptOut, Process, Acquire, ClearStaleLeases, Restart, LoseSession, tasks
    <2> QED
        BY Zenon, <2>1, <2>2
<1>3. ASSUME NEW w \in Workers, Claim(w)
      PROVE  DistinctRows'
    <2>1. row' = row /\ row[w] = None
        BY Zenon, <1>3 DEF Claim, TypeOK
    <2>2. PICK S \in SUBSET Requests :
             batch' = [batch EXCEPT ![w] = {[id |-> r, attempts |-> attempts[r] + 1] : r \in S}]
        BY ZenonT(60), <1>3 DEF Claim, Claimable, TypeOK
    <2>3. \A b, c \in batch'[w] : b.id = c.id => b = c
        BY <2>2 DEF TypeOK
    <2>4. \A v \in Workers \ {w} : batch'[v] = batch[v]
        BY Zenon, <2>2 DEF TypeOK
    <2> QED
        BY Zenon, <2>1, <2>3, <2>4 DEF DistinctRows
<1>4. ASSUME NEW w \in Workers, StartRow(w)
      PROVE  DistinctRows'
    <2>1. PICK b \in batch[w] :
             /\ batch' = [batch EXCEPT ![w] = @ \ {b}]
             /\ row' = [row EXCEPT ![w] = b]
        BY ZenonT(60), <1>4 DEF StartRow
    <2>2. batch'[w] = batch[w] \ {b} /\ row'[w] = b
        BY Zenon, <2>1 DEF TypeOK
    <2>3. \A v \in Workers \ {w} : batch'[v] = batch[v] /\ row'[v] = row[v]
        BY Zenon, <2>1 DEF TypeOK
    <2> QED
        BY ZenonT(60), <2>2, <2>3 DEF DistinctRows
<1>5. ASSUME NEW w \in Workers, Release(w)
      PROVE  DistinctRows'
    BY Zenon, <1>5 DEF Release, DistinctRows, TypeOK
<1>6. ASSUME NEW w \in Workers, Work(w) \/ ProcessError(w), ~Claim(w), ~StartRow(w)
      PROVE  Release(w) \/ UNCHANGED <<batch, row>>
    BY Zenon, <1>6 DEF Work, ExpiryGate, SuppressionGate, VerificationGate, ConsentGate, Gate,
                QuotaGate, QuietHoursGate, Decrypt, CancellationCheck, Send, SendFailed,
                WriteTerminal, RescheduleRetry, ProcessError, Proceed, Decide
<1>7. CASE UNCHANGED vars
    BY Zenon, <1>1, <1>7 DEF vars, tasks
<1> QED
    BY Zenon, <1>1, <1>2, <1>3, <1>4, <1>5, <1>6, <1>7 DEF Next

\* No task ever holds the same request twice.
LEMMA DistinctRowsAlways == Spec => []DistinctRows
<1>1. Init => DistinctRows
    BY Zenon DEF Init, DistinctRows
<1> QED
    BY <1>1, DistinctStep, TypeCorrect, PTL DEF Spec

\* Only Claim gives a task a row; finishing a row really lets go of it.
LEMMA HoldsShrink ==
    ASSUME TypeOK, DistinctRows, NEW w \in Workers, Work(w) \/ ProcessError(w), ~Claim(w)
    PROVE  /\ \A v \in Workers, r \in Requests : Holds(v, r)' => Holds(v, r)
           /\ \A v \in Workers \ {w}, r \in Requests : Holds(v, r) => Holds(v, r)'
           /\ Release(w) => \A r \in Requests : Processing(w, r) => ~Holds(w, r)'
<1>1. Release(w) \/ StartRow(w) \/ UNCHANGED <<batch, row>>
    BY Zenon DEF Work, ExpiryGate, SuppressionGate, VerificationGate, ConsentGate, Gate,
           QuotaGate, QuietHoursGate, Decrypt, CancellationCheck, Send, SendFailed,
           WriteTerminal, RescheduleRetry, ProcessError, Proceed, Decide
<1>2. CASE Release(w)
    BY Zenon, <1>2 DEF Release, Holds, Processing, DistinctRows, TypeOK
<1>3. CASE StartRow(w)
    <2>1. PICK b \in batch[w] :
             /\ batch' = [batch EXCEPT ![w] = @ \ {b}]
             /\ row' = [row EXCEPT ![w] = b]
        BY ZenonT(60), <1>3 DEF StartRow
    <2>2. batch'[w] = batch[w] \ {b} /\ row'[w] = b /\ row'[w] # None
        BY <2>1, ConstantsAssumption DEF TypeOK
    <2>3. \A v \in Workers \ {w} : batch'[v] = batch[v] /\ row'[v] = row[v]
        BY Zenon, <2>1 DEF TypeOK
    <2>4. ~Release(w)
        BY Zenon, <2>2 DEF Release, TypeOK
    <2> QED
        BY Zenon, <2>2, <2>3, <2>4 DEF Holds, Processing
<1>4. CASE UNCHANGED <<batch, row>> /\ ~Release(w)
    BY Zenon, <1>4 DEF Holds, Processing
<1> QED
    BY Zenon, <1>1, <1>2, <1>3, <1>4

-----------------------------------------------------------------------------
(* One task per leased row.                                                *)

\* A step that gives no task a row and drops no lease of a held one keeps it.
LEMMA LeaseKept ==
    ASSUME ExclusiveLease, torn' = torn,
           \A w \in Workers, r \in Requests : Holds(w, r)' => Holds(w, r),
           \A w \in Workers, r \in Requests \ torn :
               Holds(w, r)' /\ r \in leased => r \in leased'
    PROVE  ExclusiveLease'
BY Zenon DEF ExclusiveLease

\* Claim leases rows that nobody had leased, so nobody held them.
LEMMA LeaseClaim ==
    ASSUME TypeOK, ExclusiveLease, NEW w \in Workers, Claim(w)
    PROVE  ExclusiveLease'
<1>1. PICK S \in SUBSET Claimable(w) :
         /\ leased' = leased \cup S
         /\ batch' = [batch EXCEPT ![w] = {[id |-> r, attempts |-> attempts[r] + 1] : r \in S}]
    BY ZenonT(60) DEF Claim
<1>2. /\ UNCHANGED <<row, torn>>
      /\ row[w] = None /\ S \cap leased = {}
    BY DEF Claim, TypeOK, Claimable, history
<1>3. \A v \in Workers \ {w}, r \in Requests : Holds(v, r)' <=> Holds(v, r)
    BY <1>1, <1>2 DEF Holds, Processing, TypeOK
<1>4. \A r \in Requests : Holds(w, r)' => r \in S
    BY <1>1, <1>2 DEF Holds, Processing, TypeOK
<1> SUFFICES ASSUME NEW u \in Workers, NEW v \in Workers, NEW r \in Requests \ torn,
                    Holds(u, r)', Holds(v, r)'
             PROVE  u = v /\ r \in leased'
    BY ZenonT(60), <1>2 DEF ExclusiveLease
<1>5. CASE u # w /\ v # w
    <2>1. u = v /\ r \in leased
        BY Zenon, <1>3, <1>5 DEF ExclusiveLease
    <2> QED
        BY Zenon, <1>1, <2>1
<1>6. CASE u = w \/ v = w
    <2>1. r \in S /\ r \notin leased
        BY Zenon, <1>2, <1>4, <1>6
    <2>2. \A x \in Workers \ {w} : ~Holds(x, r)'
        BY Zenon, <1>3, <2>1 DEF ExclusiveLease
    <2> QED
        BY Zenon, <1>1, <1>6, <2>1, <2>2
<1> QED
    BY Zenon, <1>5, <1>6

\* Every step preserves exclusive leases: a claim takes unleased rows only, a
\* lease is dropped by the task that holds it, and a sweep records the leases it
\* takes from live tasks.
LEMMA LeaseStep ==
    ASSUME TypeOK, DistinctRows, ExclusiveLease, [Next]_vars
    PROVE  ExclusiveLease'
<1> USE ConstantsAssumption
<1>1. CASE UNCHANGED <<batch, row, torn, leased>>
    BY Zenon, <1>1, LeaseKept DEF Holds, Processing
<1>2. CASE Environment
    BY Zenon, <1>1, <1>2
       DEF Environment, Ingest, Cancel, BecomeDue, Expire, Verify, Suppress, Unsuppress,
           OptIn, OptOut, tasks, rows, history
<1>3. ASSUME NEW d \in Dispatchers, ClearStaleLeases(d)
      PROVE  ExclusiveLease'
    <2>1. \A w \in Workers, r \in Requests : Holds(w, r)' <=> Holds(w, r)
        BY Zenon, <1>3 DEF ClearStaleLeases, tasks, Holds, Processing
    <2>2. torn' = torn \cup {r \in leased : \E w \in Workers : Holds(w, r)}
        BY Zenon, <1>3 DEF ClearStaleLeases
    <2>3. \A w \in Workers, r \in Requests \ torn' : ~Holds(w, r)
        BY Zenon, <2>2 DEF ExclusiveLease
    <2> QED
        BY Zenon, <2>1, <2>3 DEF ExclusiveLease
<1>4. ASSUME NEW d \in Dispatchers, Crash(d)
      PROVE  ExclusiveLease'
    <2>1. UNCHANGED <<leased, torn>>
        BY Zenon, <1>4 DEF Crash, rows, history
    <2>2. \A w \in Workers, r \in Requests : Holds(w, r)' => Holds(w, r)
        BY Zenon, <1>4 DEF Crash, Holds, Processing
    <2> QED
        BY Zenon, <2>1, <2>2, LeaseKept
<1>5. CASE Process
    BY Zenon, <1>1, <1>3, <1>4, <1>5
       DEF Process, Acquire, Restart, LoseSession, tasks, rows, history
<1>6. ASSUME NEW w \in Workers, Work(w) \/ ProcessError(w), ~Claim(w)
      PROVE  ExclusiveLease'
    <2>1. torn' = torn
        BY ZenonT(60), <1>6 DEF Work, StartRow, ExpiryGate, SuppressionGate, VerificationGate,
                    ConsentGate, Gate, QuotaGate, QuietHoursGate, Decrypt,
                    CancellationCheck, Send, WriteTerminal, RescheduleRetry,
                    ProcessError, history
    <2>2. /\ \A v \in Workers, r \in Requests : Holds(v, r)' => Holds(v, r)
          /\ Release(w) => \A r \in Requests : Processing(w, r) => ~Holds(w, r)'
        BY Zenon, <1>6, HoldsShrink
    <2>3. CASE leased' = leased
        BY Zenon, <2>1, <2>2, <2>3, LeaseKept
    <2>4. CASE WriteTerminal(w) \/ RescheduleRetry(w)
        <3>1. PICK q \in Requests : Processing(w, q)
            BY Zenon, <2>4 DEF WriteTerminal, RescheduleRetry, Processing, TypeOK, Claimed
        <3>2. Release(w) /\ leased' = leased \ {q}
            BY Zenon, <2>4, <3>1 DEF WriteTerminal, RescheduleRetry, Processing
        <3>3. Holds(w, q) /\ ~Holds(w, q)'
            BY Zenon, <2>2, <3>1, <3>2 DEF Holds
        <3>4. q \notin torn => \A v \in Workers : ~Holds(v, q)'
            BY ZenonT(60), <2>2, <3>3 DEF ExclusiveLease
        <3> QED
            BY ZenonT(60), <2>1, <2>2, <3>2, <3>4, LeaseKept
    <2> QED
        BY ZenonT(60), <1>6, <2>3, <2>4
           DEF Work, StartRow, ExpiryGate, SuppressionGate, VerificationGate, ConsentGate,
               Gate, QuotaGate, QuietHoursGate, Decrypt, CancellationCheck, Send,
               ProcessError, rows
<1>7. CASE UNCHANGED vars
    BY Zenon, <1>1, <1>7 DEF vars, rows, tasks, history
<1> QED
    BY Zenon, <1>2, <1>5, <1>6, <1>7, LeaseClaim DEF Next

\* Whatever crashes, takes over or loses its session: until a sweep takes the
\* lease of a running task, a row is worked on by one task and is leased to it.
THEOREM ExclusiveLeaseAlways == Spec => []ExclusiveLease
<1>1. Init => ExclusiveLease
    BY ZenonT(60) DEF Init, ExclusiveLease, Holds, Processing
<1>2. TypeOK /\ DistinctRows /\ ExclusiveLease /\ [Next]_vars => ExclusiveLease'
    BY Zenon, LeaseStep
<1> QED
    BY <1>1, <1>2, TypeCorrect, DistinctRowsAlways, PTL DEF Spec

-----------------------------------------------------------------------------
(* The dispatcher implements Delivery.                                     *)

\* A task about to write "sent" has had the provider accept the request.
SentInv ==
    \A w \in Workers, r \in Requests :
        Processing(w, r) /\ verdict[w] = "sent" => accepted[r] > 0

\* Only an accepted provider call leads to a "sent" write, and acceptances are
\* never forgotten.
LEMMA SentStep == TypeOK /\ SentInv /\ [Next]_vars => SentInv'
<1> SUFFICES ASSUME TypeOK, SentInv, [Next]_vars, NEW v \in Workers, NEW r \in Requests,
                    Processing(v, r)', verdict'[v] = "sent"
             PROVE  accepted'[r] > 0
    BY Zenon DEF SentInv
<1> USE ConstantsAssumption
<1>1. CASE UNCHANGED accepted /\ Processing(v, r) /\ verdict[v] = "sent"
    BY Zenon, <1>1 DEF SentInv
<1>2. CASE Environment \/ UNCHANGED vars
    <2>1. UNCHANGED <<row, verdict, accepted>>
        BY Zenon, <1>2 DEF Environment, Ingest, Cancel, BecomeDue, Expire, Verify, Suppress,
                    Unsuppress, OptIn, OptOut, tasks, history, vars
    <2> QED
        BY Zenon, <1>1, <2>1 DEF Processing
<1>3. CASE Process
    <2>1. UNCHANGED accepted /\ (row'[v] = None \/ UNCHANGED <<row[v], verdict[v]>>)
        BY <1>3 DEF Process, Acquire, ClearStaleLeases, Restart, Crash, LoseSession,
                    tasks, history
    <2> QED
        BY Zenon, <1>1, <2>1 DEF Processing
<1>4. ASSUME NEW w \in Workers, Send(w)
      PROVE  accepted'[r] > 0
    <2>1. PICK q \in Requests : row[w].id = q /\ row[w] # None
        BY Zenon, <1>4 DEF Send, TypeOK, Claimed
    <2>2. /\ row' = row
          /\ \/ accepted' = [accepted EXCEPT ![q] = @ + 1]
             \/ accepted' = accepted
        BY ZenonT(60), <1>4, <2>1 DEF Send, SendFailed, Decide, Proceed
    <2>a. accepted \in [Requests -> Nat] /\ accepted[r] \in Nat
        BY Zenon DEF TypeOK
    <2>3. accepted'[r] = accepted[r] \/ accepted'[r] = accepted[r] + 1
        BY Zenon, <2>2, <2>a
    <2>4. CASE v # w
        <3>1. verdict'[v] = verdict[v]
            BY <1>4, <2>4, ZenonT(180) DEF Send, SendFailed, Decide, Proceed, TypeOK
        <3>2. accepted[r] > 0
            BY Zenon, <2>2, <3>1 DEF SentInv, Processing
        <3> QED
            BY <2>3, <2>a, <3>2
    <2>5. CASE v = w
        <3>1. r = q
            BY Zenon, <2>1, <2>2, <2>5 DEF Processing
        <3>2. verdict[w] # "sent"
            BY Zenon, <1>4 DEF Send, TypeOK, Final
        <3>3. accepted' = [accepted EXCEPT ![q] = @ + 1]
            BY <1>4, <2>1, <2>5, <3>2 DEF Send, SendFailed, Decide, Proceed, TypeOK
        <3> QED
            BY <2>a, <3>1, <3>3
    <2> QED
        BY ZenonT(60), <2>4, <2>5
<1>5. ASSUME NEW w \in Workers, Work(w) \/ ProcessError(w), ~Send(w)
      PROVE  accepted'[r] > 0
    <2>1. UNCHANGED accepted
        BY ZenonT(60), <1>5 DEF Work, Claim, StartRow, ExpiryGate, SuppressionGate, VerificationGate,
                    ConsentGate, Gate, QuotaGate, QuietHoursGate, Decrypt,
                    CancellationCheck, WriteTerminal, RescheduleRetry, ProcessError, history
    <2>2. \/ UNCHANGED <<row, verdict>> \/ StartRow(w) \/ Release(w)
          \/ \E s \in Final \ {"sent"} : Decide(w, s)
        BY ZenonT(60), <1>5 DEF Work, Claim, ExpiryGate, SuppressionGate, VerificationGate,
                    ConsentGate, Gate, QuotaGate, QuietHoursGate, Decrypt,
                    CancellationCheck, WriteTerminal, RescheduleRetry, ProcessError,
                    Proceed, Final, Blocking
    <2>3. CASE UNCHANGED <<row, verdict>>
        BY Zenon, <1>1, <2>1, <2>3 DEF Processing
    <2>4. CASE StartRow(w)
        <3>1. v # w => UNCHANGED <<row[v], verdict[v]>>
            BY <2>4 DEF StartRow, TypeOK
        <3>2. verdict'[w] \in {None, "discarded"}
            BY <2>4 DEF StartRow, TypeOK
        <3>3. None # "sent"
            BY Zenon DEF Final
        <3> QED
            BY Zenon, <1>1, <2>1, <3>1, <3>2, <3>3 DEF Processing
    <2>5. CASE Release(w)
        <3>1. v # w => UNCHANGED <<row[v], verdict[v]>>
            BY Zenon, <2>5 DEF Release, TypeOK
        <3>2. row'[w] = None
            BY Zenon, <2>5 DEF Release, TypeOK
        <3> QED
            BY Zenon, <1>1, <2>1, <3>1, <3>2 DEF Processing
    <2>6. ASSUME NEW s \in Final \ {"sent"}, Decide(w, s)
          PROVE  accepted'[r] > 0
        <3>1. v # w => UNCHANGED <<row[v], verdict[v]>>
            BY Zenon, <2>6 DEF Decide, TypeOK
        <3>2. verdict'[w] # "sent"
            BY Zenon, <2>6 DEF Decide, TypeOK
        <3> QED
            BY Zenon, <1>1, <2>1, <3>1, <3>2 DEF Processing
    <2> QED
        BY Zenon, <2>2, <2>3, <2>4, <2>5, <2>6
<1> QED
    BY Zenon, <1>2, <1>3, <1>4, <1>5 DEF Next

\* A request whose lease a sweep took from a live task was submitted.
TornSubmitted == \A r \in torn : ledger[r] # "absent"

\* A leased row is in flight, and nothing puts a ledger row back to absent.
LEMMA TornStep == TypeOK /\ LedgerOutboxAgree /\ TornSubmitted /\ [Next]_vars => TornSubmitted'
<1> SUFFICES ASSUME TypeOK, LedgerOutboxAgree, TornSubmitted, [Next]_vars
             PROVE  TornSubmitted'
    OBVIOUS
<1>1. \A r \in Requests : ledger[r] # "absent" => ledger'[r] # "absent"
    <2>1. ASSUME NEW r \in Requests, Ingest(r)
          PROVE  \A q \in Requests : ledger[q] # "absent" => ledger'[q] # "absent"
        BY Zenon, <2>1 DEF Ingest, TypeOK
    <2>2. ASSUME NEW w \in Workers, WriteTerminal(w)
          PROVE  \A q \in Requests : ledger[q] # "absent" => ledger'[q] # "absent"
        <3>1. verdict[w] \in Final /\ "absent" \notin Final
            BY Zenon, <2>2 DEF WriteTerminal, TypeOK, Final, Blocking
        <3> QED
            BY Zenon, <2>2, <3>1 DEF WriteTerminal, TypeOK
    <2>3. CASE UNCHANGED ledger
        BY Zenon, <2>3
    <2>4. CASE Environment \/ Process \/ UNCHANGED vars
        BY ZenonT(60), <2>1, <2>3, <2>4
           DEF Environment, Cancel, BecomeDue, Expire, Verify, Suppress, Unsuppress, OptIn,
               OptOut, Process, Acquire, ClearStaleLeases, Restart, Crash, LoseSession, vars
    <2>5. ASSUME NEW w \in Workers, Work(w) \/ ProcessError(w), ~WriteTerminal(w)
          PROVE  UNCHANGED ledger
        BY ZenonT(60), <2>5 DEF Work, Claim, StartRow, ExpiryGate, SuppressionGate,
                VerificationGate, ConsentGate, Gate, QuotaGate, QuietHoursGate, Decrypt,
                CancellationCheck, Send, RescheduleRetry, ProcessError
    <2> QED
        BY Zenon, <2>2, <2>3, <2>4, <2>5 DEF Next
<1>2. \A r \in torn' : ledger[r] # "absent"
    <2>1. CASE torn' = torn
        BY Zenon, <2>1 DEF TornSubmitted
    <2>2. ASSUME NEW d \in Dispatchers, ClearStaleLeases(d)
          PROVE  \A r \in torn' : ledger[r] # "absent"
        BY Zenon, <2>2 DEF ClearStaleLeases, TornSubmitted, TypeOK, LedgerOutboxAgree
    <2>3. CASE Environment \/ Process \/ UNCHANGED vars
        BY ZenonT(60), <2>1, <2>2, <2>3
           DEF Environment, Ingest, Cancel, BecomeDue, Expire, Verify, Suppress, Unsuppress,
               OptIn, OptOut, Process, Acquire, Restart, Crash, LoseSession, vars, history
    <2>4. ASSUME NEW w \in Workers, Work(w) \/ ProcessError(w)
          PROVE  UNCHANGED torn
        BY ZenonT(60), <2>4 DEF Work, Claim, StartRow, ExpiryGate, SuppressionGate,
                VerificationGate, ConsentGate, Gate, QuotaGate, QuietHoursGate, Decrypt,
                CancellationCheck, Send, WriteTerminal, RescheduleRetry, ProcessError, history
    <2> QED
        BY Zenon, <2>1, <2>3, <2>4 DEF Next
<1>3. torn' \subseteq Requests
    BY Zenon, TypeStep DEF TypeOK
<1> QED
    BY Zenon, <1>1, <1>2, <1>3 DEF TornSubmitted

\* A task that is past its claim, and whose row nobody tore from it, works on a
\* request in flight; a torn request has been submitted.
LEMMA WorkIsOpen ==
    ASSUME TypeOK, LedgerOutboxAgree, ExclusiveLease, TornSubmitted,
           NEW w \in Workers, step[w] # "idle"
    PROVE  \E r \in Requests : Processing(w, r) /\ Promise!Open(r)
<1>1. PICK r \in Requests : Processing(w, r)
    BY Zenon, ConstantsAssumption DEF TypeOK, Claimed, Processing
<1>2. CASE r \in torn
    <2>1. ledger[r] \in Final \/ ledger[r] = "inflight"
        BY Zenon, <1>2 DEF TypeOK, TornSubmitted
    <2> QED
        BY Zenon, <1>1, <1>2, <2>1 DEF Promise!Open
<1>3. CASE r \notin torn
    <2>1. r \in leased
        BY Zenon, <1>1, <1>3 DEF ExclusiveLease, Holds
    <2>2. ledger[r] = "inflight"
        BY Zenon, <2>1 DEF TypeOK, LedgerOutboxAgree
    <2> QED
        BY Zenon, <1>1, <2>2 DEF Promise!Open
<1> QED
    BY Zenon, <1>2, <1>3

\* Every step of the dispatcher is a step of Delivery or leaves it alone.
LEMMA DeliveryStep ==
    ASSUME TypeOK, LedgerOutboxAgree, ExclusiveLease, TornSubmitted, SentInv, [Next]_vars
    PROVE  [Promise!Next]_<<ledger, accepted, torn>>
<1> USE ConstantsAssumption
<1>1. ASSUME NEW w \in Workers, step[w] # "idle"
      PROVE  \E r \in Requests : Processing(w, r) /\ Promise!Open(r)
    BY Zenon, <1>1, WorkIsOpen
<1>2. CASE UNCHANGED <<ledger, accepted, torn>>
    BY Zenon, <1>2
<1>3. ASSUME NEW r \in Requests, Ingest(r)
      PROVE  Promise!Next
    <2>1. Promise!Submit(r)
        BY Zenon, <1>3 DEF Ingest, Promise!Submit, history
    <2> QED
        BY Zenon, <2>1 DEF Promise!Next
<1>4. ASSUME NEW d \in Dispatchers, ClearStaleLeases(d)
      PROVE  Promise!Next
    <2> DEFINE S == {r \in leased : \E w \in Workers : Holds(w, r)}
    <2>1. S \in SUBSET Requests /\ \A r \in S : ledger[r] = "inflight"
        BY Zenon DEF TypeOK, LedgerOutboxAgree
    <2>2. torn' = torn \cup S /\ UNCHANGED <<ledger, accepted>>
        BY Zenon, <1>4 DEF ClearStaleLeases
    <2>3. Promise!Waive(S)
        BY Zenon, <2>1, <2>2 DEF Promise!Waive
    <2> QED
        BY Zenon, <2>1, <2>3 DEF Promise!Next
<1>5. ASSUME NEW w \in Workers, Send(w)
      PROVE  Promise!Next \/ UNCHANGED <<ledger, accepted, torn>>
    <2>1. PICK r \in Requests : Processing(w, r) /\ Promise!Open(r)
        BY Zenon, <1>1, <1>5 DEF Send
    <2>2. CASE accepted' = [accepted EXCEPT ![r] = @ + 1]
        <3>1. Promise!HandOff(r)
            BY ZenonT(60), <1>5, <2>1, <2>2 DEF Send, Promise!HandOff
        <3> QED
            BY Zenon, <3>1 DEF Promise!Next
    <2> QED
        BY ZenonT(60), <1>5, <2>1, <2>2 DEF Send, Processing
<1>6. ASSUME NEW w \in Workers, WriteTerminal(w)
      PROVE  Promise!Next
    <2>1. PICK r \in Requests : Processing(w, r) /\ Promise!Open(r)
        BY ZenonT(60), <1>1, <1>6 DEF WriteTerminal
    <2>2. verdict[w] \in Final
        BY Zenon, <1>6 DEF WriteTerminal, TypeOK
    <2>3. Promise!Finish(r, verdict[w])
        BY Zenon, <1>6, <2>1 DEF WriteTerminal, Processing, SentInv, history, Promise!Finish
    <2> QED
        BY Zenon, <2>1, <2>2, <2>3 DEF Promise!Next
<1>7. CASE Environment
    BY ZenonT(60), <1>2, <1>3, <1>7 DEF Environment, Cancel, BecomeDue, Expire, Verify, Suppress,
                            Unsuppress, OptIn, OptOut, history
<1>8. CASE Process
    BY ZenonT(60), <1>2, <1>4, <1>8 DEF Process, Acquire, Restart, Crash, LoseSession, history
<1>9. ASSUME NEW w \in Workers, Work(w) \/ ProcessError(w), ~Send(w), ~WriteTerminal(w)
      PROVE  UNCHANGED <<ledger, accepted, torn>>
    BY ZenonT(60), <1>9 DEF Work, Claim, StartRow, ExpiryGate, SuppressionGate, VerificationGate,
                ConsentGate, Gate, QuotaGate, QuietHoursGate, Decrypt, CancellationCheck,
                RescheduleRetry, ProcessError, history
<1>10. CASE UNCHANGED vars
    BY Zenon, <1>2, <1>10 DEF vars, history
<1> QED
    BY Zenon, <1>5, <1>6, <1>7, <1>8, <1>9, <1>10 DEF Next

\* The dispatcher implements Delivery, with any number of processes, claim loops
\* and kill-switch tasks, under crashes, restarts and lost lock sessions: a
\* request ends once, is not handed over after it ended unless a sweep took its
\* lease from a live task, and is always reported sent only if the provider took it.
THEOREM DispatcherImplementsDelivery == Spec => ImplementsDelivery
<1>1. Init => SentInv /\ TornSubmitted /\ Promise!Init
    <2>1. Init => SentInv
        BY Zenon DEF Init, SentInv, Processing
    <2>2. Init => TornSubmitted
        BY Zenon DEF Init, TornSubmitted
    <2>3. Init => Promise!Init
        BY Zenon DEF Init, Promise!Init
    <2> QED
        BY Zenon, <2>1, <2>2, <2>3
<1>2. TypeOK /\ LedgerOutboxAgree /\ TornSubmitted /\ [Next]_vars => TornSubmitted'
    BY Zenon, TornStep
<1>3. TypeOK /\ LedgerOutboxAgree /\ ExclusiveLease /\ TornSubmitted /\ SentInv /\ [Next]_vars
          => [Promise!Next]_<<ledger, accepted, torn>>
    BY Zenon, DeliveryStep
<1> QED
    BY <1>1, <1>2, <1>3, SentStep, TypeCorrect, ExclusiveLeaseAlways, LedgerOutboxAgreeAlways,
       PTL DEF Spec, ImplementsDelivery, Promise!Spec

-----------------------------------------------------------------------------
(* What the advisory lock gives.                                           *)

\* Every task is a claim loop, and no lock session is lost under a live leader.
ClaimLoopsOnly == \A w \in Workers : Kind[w] = "claim"

NoSessionLost == Limit["loss"] = 0

\* The leader's lock covers its claim loops.
LeaderInv ==
    /\ \A d \in Dispatchers : phase[d] \in {"sweeping", "leading"} => lock = d
    /\ \A w \in Workers, r \in Requests : Holds(w, r) => phase[Home[w]] = "leading"
    /\ SweepsFindNoOne

\* Every step preserves it: a process leads only under the lock, and when it
\* sweeps nobody else leads.
LEMMA LeaderStep ==
    ASSUME ClaimLoopsOnly, NoSessionLost, TypeOK, DistinctRows, LeaderInv, [Next]_vars
    PROVE  LeaderInv'
<1> USE ConstantsAssumption
<1>0. ASSUME UNCHANGED <<batch, row>>
      PROVE  \A w \in Workers, r \in Requests : Holds(w, r)' <=> Holds(w, r)
    BY Zenon, <1>0 DEF Holds, Processing
<1>1. CASE UNCHANGED <<batch, row, phase, lock, torn>>
    BY Zenon, <1>0, <1>1 DEF LeaderInv, SweepsFindNoOne
<1>2. CASE Environment
    BY Zenon, <1>1, <1>2 DEF Environment, Ingest, Cancel, BecomeDue, Expire, Verify, Suppress,
                      Unsuppress, OptIn, OptOut, process, tasks, history
<1>3. ASSUME NEW d \in Dispatchers, Acquire(d)
      PROVE  LeaderInv'
    <2>1. UNCHANGED <<batch, row, torn>> /\ lock = None /\ lock' = d
        BY Zenon, <1>3 DEF Acquire, tasks, history
    <2>2. \A e \in Dispatchers : phase[e] \notin {"sweeping", "leading"}
        BY <2>1 DEF LeaderInv
    <2>3. \A w \in Workers, r \in Requests : ~Holds(w, r)'
        BY <1>0, <2>1, <2>2 DEF LeaderInv
    <2>4. \A e \in Dispatchers : phase'[e] \in {"sweeping", "leading"} => e = d
        BY Zenon, <1>3, <2>2 DEF Acquire, TypeOK
    <2> QED
        BY Zenon, <2>1, <2>3, <2>4 DEF LeaderInv, SweepsFindNoOne
<1>4. ASSUME NEW d \in Dispatchers, ClearStaleLeases(d)
      PROVE  LeaderInv'
    <2>1. UNCHANGED <<batch, row, lock>> /\ lock = d
        BY Zenon, <1>4 DEF ClearStaleLeases, LeaderInv, tasks
    <2>2. \A e \in Dispatchers : phase[e] # "leading"
        BY Zenon, <1>4, <2>1 DEF ClearStaleLeases, LeaderInv
    <2>3. \A w \in Workers, r \in Requests : ~Holds(w, r) /\ ~Holds(w, r)'
        BY Zenon, <1>0, <2>1, <2>2 DEF LeaderInv
    <2>4. \A e \in Dispatchers : phase'[e] \in {"sweeping", "leading"} => lock' = e
        BY SMTT(30), <1>4, <2>1 DEF ClearStaleLeases, LeaderInv, TypeOK
    <2>5. torn' = {}
        BY Zenon, <1>4, <2>3 DEF ClearStaleLeases, LeaderInv, SweepsFindNoOne, TypeOK
    <2> QED
        BY Zenon, <2>3, <2>4, <2>5 DEF LeaderInv, SweepsFindNoOne
<1>5. ASSUME NEW d \in Dispatchers, Restart(d)
      PROVE  LeaderInv'
    <2>1. UNCHANGED <<batch, row, lock, torn>>
        BY Zenon, <1>5 DEF Restart, tasks, history
    <2>2. \A e \in Dispatchers : /\ phase'[e] \in {"sweeping", "leading"} => phase'[e] = phase[e]
                                 /\ phase[e] = "leading" => phase'[e] = "leading"
        BY Zenon, <1>5 DEF Restart, TypeOK
    <2> QED
        BY <1>0, <2>1, <2>2 DEF LeaderInv, SweepsFindNoOne
<1>6. ASSUME NEW d \in Dispatchers, Crash(d)
      PROVE  LeaderInv'
    <2>1. torn' = torn
        BY Zenon, <1>6 DEF Crash, history
    <2>2. \A w \in Workers, r \in Requests :
             Holds(w, r)' => Holds(w, r) /\ Home[w] # d
        BY Zenon, <1>6 DEF Crash, Holds, Processing
    <2>3. \A e \in Dispatchers \ {d} : phase'[e] = phase[e]
        BY Zenon, <1>6 DEF Crash, TypeOK
    <2>4. phase'[d] = "down"
        BY Zenon, <1>6 DEF Crash, TypeOK
    <2>5. \A e \in Dispatchers : phase'[e] \in {"sweeping", "leading"} => lock' = e
        BY Zenon, <1>6, <2>3, <2>4 DEF LeaderInv, Crash
    <2> QED
        BY <2>1, <2>2, <2>3, <2>5 DEF LeaderInv, SweepsFindNoOne
<1>7. ASSUME NEW d \in Dispatchers, LoseSession(d)
      PROVE  FALSE
    BY SMTT(30), <1>7 DEF LoseSession, Spend, NoSessionLost, TypeOK, Faults
<1>8. ASSUME NEW w \in Workers, Claim(w)
      PROVE  LeaderInv'
    <2>1. UNCHANGED <<phase, lock, row, torn>> /\ phase[Home[w]] = "leading"
        BY Zenon, <1>8 DEF Claim, Spawned, ClaimLoopsOnly, process, history
    <2>2. \A v \in Workers \ {w} : batch'[v] = batch[v]
        BY ZenonT(60), <1>8 DEF Claim, TypeOK
    <2>3. \A v \in Workers \ {w}, r \in Requests : Holds(v, r)' <=> Holds(v, r)
        BY Zenon, <2>1, <2>2 DEF Holds, Processing
    <2> QED
        BY Zenon, <2>1, <2>3 DEF LeaderInv, SweepsFindNoOne
<1>9. ASSUME NEW w \in Workers, Work(w) \/ ProcessError(w), ~Claim(w)
      PROVE  LeaderInv'
    <2>1. UNCHANGED <<phase, lock, torn>>
        BY ZenonT(60), <1>9 DEF Work, StartRow, ExpiryGate, SuppressionGate, VerificationGate,
                    ConsentGate, Gate, QuotaGate, QuietHoursGate, Decrypt,
                    CancellationCheck, Send, WriteTerminal, RescheduleRetry,
                    ProcessError, process, history
    <2>2. \A v \in Workers, r \in Requests : Holds(v, r)' => Holds(v, r)
        BY Zenon, <1>9, HoldsShrink
    <2> QED
        BY Zenon, <2>1, <2>2 DEF LeaderInv, SweepsFindNoOne
<1>10. CASE UNCHANGED vars
    BY Zenon, <1>1, <1>10 DEF vars, process, tasks, history
<1> QED
    BY Zenon, <1>2, <1>3, <1>4, <1>5, <1>6, <1>7, <1>8, <1>9, <1>10 DEF Next, Process

\* With claim loops only and no lock session lost under a live leader, the sweep
\* of clear_stale_leases never takes the lease of a running task, whatever crashes
\* and restarts.  Nothing is then waived: by the two theorems above every lease is
\* exclusive and every request ends once.
THEOREM SweepsFindNoOneAlways ==
    ASSUME ClaimLoopsOnly, NoSessionLost
    PROVE  Spec => []SweepsFindNoOne
<1>1. Init => LeaderInv
    BY DEF Init, LeaderInv, SweepsFindNoOne, Holds, Processing
<1>2. TypeOK /\ DistinctRows /\ LeaderInv /\ [Next]_vars => LeaderInv'
    BY Zenon, LeaderStep
<1>3. LeaderInv => SweepsFindNoOne
    BY Zenon DEF LeaderInv
<1> QED
    BY <1>1, <1>2, <1>3, TypeCorrect, DistinctRowsAlways, PTL DEF Spec
=============================================================================
