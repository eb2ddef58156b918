--------------------------- MODULE ReceiptsProofs ---------------------------
(***************************************************************************)
(* Proofs about Receipts, for every number of requests, receipts and jobs, *)
(* any cap and any bound on faults.                                        *)
(***************************************************************************)
EXTENDS Receipts, TLAPS

\* The types of the tables, of what the jobs hold, and of the counts.
Rows ==
    /\ final \in [Requests -> Status \cup {None}]
    /\ events \subseteq Event
    /\ staging \in [Posts -> Nat]
    /\ orphans \subseteq Orphan
    /\ listed \in [{Dest[r] : r \in Requests} -> {"none", "year", "hold", "lapsed"}]

Held ==
    /\ todo \in [Jobs -> SUBSET (Staged \cup Orphan)]
    /\ row \in [Jobs -> Staged \cup Orphan \cup {None}]
    /\ match \in [Jobs -> Match \cup {None}]
    /\ step \in [Jobs -> {"idle", "next", "matched", "counted"}]
    /\ \A j \in Jobs : row[j] # None <=> step[j] \in {"matched", "counted"}
    /\ \A j \in Jobs : todo[j] \subseteq Staged \cup Orphan
    /\ \A j \in Jobs : Work[j] = "promote" =>
            todo[j] \subseteq Staged /\ (row[j] # None => row[j] \in Staged)
    /\ \A j \in Jobs : Work[j] = "reconcile" =>
            todo[j] \subseteq Orphan /\ (row[j] # None => row[j] \in Orphan)

Counts ==
    /\ posted \in [Posts -> Nat] /\ used \in [Faults -> Nat]
    /\ aged \subseteq Posts /\ raced \subseteq Requests

\* A job has a match only for a row whose event type is one of ours, and only
\* orphan-reconcile counts misses.
Matched ==
    \A j \in Jobs :
        /\ step[j] = "matched" /\ match[j] # None => Type[row[j].post] \in Status
        /\ step[j] = "counted" => Work[j] = "reconcile"

Shape == Rows /\ Held /\ Counts /\ Matched

\* What ReceiptsAssumption says of the constants, in the form the steps use it.
LEMMA Constants ==
    /\ Type \in [Posts -> STRING] /\ At \in [Posts -> Nat] /\ DOMAIN Ref = Posts
    /\ DOMAIN RefOf = Requests /\ DOMAIN Dest = Requests
    /\ Work \in [Jobs -> {"promote", "reconcile"}]
    /\ None \notin Status /\ None \notin Match /\ None \notin Staged /\ None \notin Orphan
    /\ Limit \in [Faults -> Nat]
BY Zenon, ReceiptsAssumption

\* The statuses that appear by name.
LEMMA Statuses == {"sent", "failed", "bounced", "complaint"} \subseteq Status
<1>1. {"sent"} \subseteq Ordered
    <2>1. 2 \in DOMAIN STATUS_ORDER /\ STATUS_ORDER[2] = "sent"
        BY DEF STATUS_ORDER
    <2> QED
        BY Zenon, <2>1 DEF Ordered
<1> QED
    BY Zenon, <1>1 DEF Status, ABSORBING_STATUSES

\* The fields of the rows a job lists.
LEMMA Fields ==
    /\ \A w \in Staged \cup Orphan : w.post \in Posts /\ w.id \in Nat
    /\ \A w \in Orphan : w.by \in Jobs /\ w.attempts \in Nat
    /\ \A m \in Match : m.request \in Requests /\ m.status \in Status \cup {None}
    /\ \A e \in Event : e.request \in Requests /\ e.type \in Status /\ e.at \in Nat
BY Zenon DEF Staged, Orphan, Match, Event

\* Shape is TypeOK and Matched.
LEMMA ShapeTypeOK == Shape => TypeOK
<1> SUFFICES ASSUME Shape PROVE TypeOK
    OBVIOUS
<1>1. \A j \in Jobs : todo[j] \cup ({row[j]} \ {None}) \subseteq
            IF Work[j] = "promote" THEN Staged ELSE Orphan
    BY Zenon, Constants DEF Shape, Held
<1> QED
    BY Zenon, <1>1 DEF Shape, Rows, Held, Counts, TypeOK

\* Every table is empty and every job idle.
LEMMA InitShape == Init => Shape
<1> SUFFICES ASSUME Init PROVE Shape
    OBVIOUS
<1>1. Rows
    BY Zenon DEF Init, Rows
<1>2. Held /\ Matched
    BY Zenon DEF Init, Held, Matched
<1>3. Counts
    BY Zenon DEF Init, Counts
<1> QED
    BY Zenon, <1>1, <1>2, <1>3 DEF Shape

-----------------------------------------------------------------------------
(* Steps.                                                                  *)

\* What each action leaves alone, by the groups of variables it can disturb.
Outside ==
    \/ \E r \in Requests, s \in {"sent", "failed"} : WriteTerminal(r, s)
    \/ \E d \in DOMAIN listed : Hold(d) \/ Lapse(d)
    \/ \E x \in Posts : receive_webhook(x)

\* The dispatcher, the operators and the providers touch no job.
LEMMA OutsideJobs == Outside => UNCHANGED <<jobs, orphans, aged>>
BY Zenon DEF Outside, WriteTerminal, Hold, Lapse, receive_webhook, jobs

\* Every step is one of the outside, of a job, or an abort.
LEMMA Cases ==
    ASSUME [Next]_vars
    PROVE  \/ Outside
           \/ \E j \in Jobs : Run(j)
           \/ \E j \in Jobs : Abort(j)
           \/ UNCHANGED vars
BY Zenon DEF Next, Outside

\* The pending rows are rows of their tables.
LEMMA Lists ==
    ASSUME Rows
    PROVE  PendingStaged \subseteq Staged /\ PendingOrphans \subseteq Orphan
BY DEF Rows, PendingStaged, PendingOrphans, Staged

\* find_match gives a request with its final_status, or nothing.
LEMMA Found ==
    ASSUME Rows, NEW ref
    PROVE  find_match(ref) \subseteq Match \cup {None}
<1>1. \A e \in Latest(ref) : e.request \in Requests
    BY Zenon, Fields DEF Latest, Rows
<1>2. \A e \in Latest(ref) : final[e.request] \in Status \cup {None}
    BY Zenon, <1>1 DEF Rows
<1>3. \A e \in Latest(ref) : [request |-> e.request, status |-> final[e.request]] \in Match
    BY <1>1, <1>2 DEF Match
<1> QED
    BY Zenon, <1>3 DEF find_match

\* A job holds rows of the table it works on, and a match for the one it is at.
LEMMA HeldStep ==
    ASSUME Shape, NEW j \in Jobs, Run(j) \/ Abort(j)
    PROVE  Held' /\ Matched'
<1> USE Constants DEF Shape
<1>1. CASE StartPromote(j)
    BY Zenon, <1>1, Lists DEF StartPromote, Start, Held, Matched
<1>2. CASE StartReconcile(j)
    BY Zenon, <1>2, Lists DEF StartReconcile, Start, Held, Matched
<1>3. CASE MatchRow(j)
    <2>1. PICK w \in todo[j], m \in Match \cup {None} :
              /\ todo' = [todo EXCEPT ![j] = @ \ {w}]
              /\ row' = [row EXCEPT ![j] = w]
              /\ match' = [match EXCEPT ![j] = m]
              /\ m # None => Type[w.post] \in Status
        BY Zenon, <1>3, Found DEF MatchRow, is_recognized_event_type
    <2>2. step[j] = "next" /\ step' = [step EXCEPT ![j] = "matched"]
        BY Zenon, <1>3 DEF MatchRow
    <2>3. Held'
        BY <2>1, <2>2 DEF Held
    <2>4. Matched'
        BY <2>1, <2>2 DEF Held, Matched
    <2> QED
        BY Zenon, <2>3, <2>4
<1>4. ASSUME Done(j) PROVE Held' /\ Matched'
    BY <1>4 DEF Done, Held, Matched
<1>5. CASE promote_staged(j) \/ promote_orphan(j) \/ to_orphan(j) \/ DropAtCap(j)
    BY Zenon, <1>4, <1>5 DEF promote_staged, promote_orphan, promote_match, to_orphan, DropAtCap
<1>6. CASE CountMiss(j)
    BY <1>6 DEF CountMiss, Held, Matched
<1>7. CASE Finish(j)
    BY <1>7 DEF Finish, Held, Matched
<1>8. CASE Abort(j)
    BY <1>8 DEF Abort, Held, Matched
<1> QED
    BY Zenon, <1>1, <1>2, <1>3, <1>5, <1>6, <1>7, <1>8 DEF Run

\* The events that promote_match and write_terminal add.
Promotion(j) ==
    [request |-> match[j].request, type |-> Type[row[j].post], at |-> At[row[j].post],
     ref |-> Ref[row[j].post]]

Terminal(r, s) ==
    [request |-> r, type |-> s, at |-> 0, ref |-> IF s = "sent" THEN RefOf[r] ELSE None]

\* Their fields.
LEMMA PromotionFields ==
    ASSUME NEW j
    PROVE  /\ Promotion(j).request = match[j].request /\ Promotion(j).type = Type[row[j].post]
           /\ Promotion(j).at = At[row[j].post] /\ Promotion(j).ref = Ref[row[j].post]
BY Zenon DEF Promotion

\* The fields of the event a dispatcher writes with a terminal status.
LEMMA TerminalFields ==
    ASSUME NEW r, NEW s
    PROVE  Terminal(r, s).request = r /\ Terminal(r, s).type = s
BY Zenon DEF Terminal

\* What promote_match writes: an event of the receipt, the status if it advances,
\* and the suppression of a destination that bounced or complained.
LEMMA Promoted ==
    ASSUME Shape, NEW j \in Jobs, promote_match(j)
    PROVE  /\ row[j].post \in Posts /\ match[j].request \in Requests
           /\ Type[row[j].post] \in Status /\ Promotion(j) \in Event
           /\ events' = events \cup {Promotion(j)}
           /\ \/ final' = final
              \/ final' = [final EXCEPT ![match[j].request] = Type[row[j].post]]
           /\ \/ listed' = [listed EXCEPT ![Dest[match[j].request]] = "year"]
              \/ /\ Type[row[j].post] \notin auto_suppress \/ listed[Dest[match[j].request]] = "hold"
                 /\ listed' = listed
           /\ posted' = posted /\ used' = used /\ aged' = aged
<1>1. row[j] \in Staged \cup Orphan /\ match[j] \in Match /\ Type[row[j].post] \in Status
    BY Zenon DEF promote_match, Shape, Held, Matched
<1>2. row[j].post \in Posts /\ match[j].request \in Requests
    BY Zenon, <1>1, Fields
<1>3. Promotion(j) \in Event
    BY Zenon, <1>1, <1>2, Constants DEF Promotion, Event
<1> QED
    BY Zenon, <1>1, <1>2, <1>3 DEF promote_match, insert_comms_event, Promotion

\* What write_terminal writes.
LEMMA Ended ==
    ASSUME Shape, NEW r \in Requests, NEW s \in {"sent", "failed"}, WriteTerminal(r, s)
    PROVE  /\ Terminal(r, s) \in Event /\ s \in Status
           /\ events' = events \cup {Terminal(r, s)}
           /\ final' = [final EXCEPT ![r] = s]
           /\ UNCHANGED <<staging, orphans, listed, jobs, posted, aged>>
<1>1. s \in Status
    BY Zenon, Statuses
<1>2. Terminal(r, s) \in Event
    BY <1>1 DEF Terminal, Event
<1> QED
    BY Zenon, <1>1, <1>2 DEF WriteTerminal, Terminal

\* The tables keep their types when a job writes.
LEMMA RowsRun ==
    ASSUME Shape, NEW j \in Jobs, Run(j) \/ Abort(j)
    PROVE  Rows'
<1>0. Rows /\ Held
    BY DEF Shape
<1> USE <1>0, Constants
<1>1. CASE UNCHANGED tables
    BY Zenon, <1>1 DEF tables, Rows
<1>2. ASSUME promote_match(j) PROVE final' \in [Requests -> Status \cup {None}] /\ events' \subseteq Event
          /\ listed' \in [{Dest[r] : r \in Requests} -> {"none", "year", "hold", "lapsed"}]
    <2>1. /\ match[j].request \in Requests /\ Type[row[j].post] \in Status
          /\ Promotion(j) \in Event /\ events' = events \cup {Promotion(j)}
          /\ \/ final' = final
             \/ final' = [final EXCEPT ![match[j].request] = Type[row[j].post]]
          /\ \/ listed' = [listed EXCEPT ![Dest[match[j].request]] = "year"]
             \/ listed' = listed
        BY Zenon, <1>2, Promoted
    <2>2. events' \subseteq Event
        BY <2>1 DEF Rows
    <2>3. final' \in [Requests -> Status \cup {None}]
        BY <2>1 DEF Rows
    <2>4. listed' \in [{Dest[r] : r \in Requests} -> {"none", "year", "hold", "lapsed"}]
        BY <2>1 DEF Rows
    <2> QED
        BY Zenon, <2>2, <2>3, <2>4
<1>3. ASSUME NEW w \in Staged \cup Orphan, DeleteStaged(w) PROVE staging' \in [Posts -> Nat]
    BY <1>3, Fields DEF DeleteStaged, Rows
<1>4. CASE promote_staged(j)
    <2>1. row[j] \in Staged
        BY Zenon, <1>4 DEF promote_staged, promote_match, Held
    <2> QED
        BY Zenon, <1>2, <1>3, <1>4, <2>1 DEF promote_staged, Rows
<1>5. CASE promote_orphan(j)
    BY Zenon, <1>2, <1>5 DEF promote_orphan, DeleteOrphan, Rows
<1>6. CASE to_orphan(j)
    <2>1. row[j] \in Staged
        BY Zenon, <1>6 DEF to_orphan, Held
    <2>2. [post |-> row[j].post, id |-> row[j].id, by |-> j, attempts |-> 0] \in Orphan
        BY <2>1, Fields DEF Orphan
    <2> QED
        BY Zenon, <1>3, <1>6, <2>1, <2>2 DEF to_orphan, Rows
<1>7. CASE CountMiss(j)
    <2>1. \A o \in orphans : [o EXCEPT !.attempts = @ + 1] \in Orphan
        BY DEF Rows, Orphan
    <2>2. orphans' \subseteq Orphan
        BY Zenon, <1>7, <2>1 DEF CountMiss, Rows
    <2> QED
        BY Zenon, <1>7, <2>2 DEF CountMiss, Rows
<1>8. CASE DropAtCap(j)
    BY Zenon, <1>8 DEF DropAtCap, Rows
<1>9. CASE StartPromote(j) \/ StartReconcile(j) \/ MatchRow(j) \/ Finish(j) \/ Abort(j)
    BY Zenon, <1>1, <1>9 DEF StartPromote, StartReconcile, Start, MatchRow, Finish, Abort
<1> QED
    BY Zenon, <1>4, <1>5, <1>6, <1>7, <1>8, <1>9 DEF Run

\* and when the dispatcher, an operator or a provider does.
LEMMA RowsOutside == Shape /\ Outside => Rows'
<1> SUFFICES ASSUME Shape, Outside PROVE Rows'
    OBVIOUS
<1>0. Rows /\ Counts
    BY DEF Shape
<1> USE <1>0, Constants
<1>1. ASSUME NEW r \in Requests, NEW s \in {"sent", "failed"}, WriteTerminal(r, s) PROVE Rows'
    <2>1. /\ Terminal(r, s) \in Event /\ s \in Status
          /\ events' = events \cup {Terminal(r, s)}
          /\ final' = [final EXCEPT ![r] = s]
          /\ UNCHANGED <<staging, orphans, listed>>
        BY Zenon, <1>1, Ended
    <2> QED
        BY <2>1 DEF Rows
<1>2. ASSUME NEW d \in DOMAIN listed, Hold(d) \/ Lapse(d) PROVE Rows'
    BY <1>2 DEF Hold, Lapse, Rows
<1>3. ASSUME NEW x \in Posts, receive_webhook(x) PROVE Rows'
    BY <1>3 DEF receive_webhook, insert_staging, Counts, Rows
<1> QED
    BY Zenon, <1>1, <1>2, <1>3 DEF Outside

\* Shape is inductive.
LEMMA ShapeStep == Shape /\ [Next]_vars => Shape'
<1> SUFFICES ASSUME Shape, [Next]_vars PROVE Shape'
    OBVIOUS
<1>1. ASSUME NEW k \in Faults, Spend(k) PROVE used' \in [Faults -> Nat]
    BY <1>1 DEF Spend, Shape, Counts
<1>2. CASE Outside
    <2>1. UNCHANGED <<todo, row, match, step, aged>>
        BY Zenon, <1>2, OutsideJobs DEF jobs
    <2>2. Held' /\ Matched'
        BY Zenon, <2>1 DEF Shape, Held, Matched
    <2>3. posted' \in [Posts -> Nat]
        BY <1>2 DEF Outside, WriteTerminal, Hold, Lapse, receive_webhook, Shape, Counts
    <2>4. used' \in [Faults -> Nat]
        BY Zenon, <1>1, <1>2 DEF Outside, WriteTerminal, Hold, Lapse, receive_webhook, Shape, Counts,
            Faults
    <2>5. raced' \subseteq Requests
        BY Zenon, <1>2 DEF Outside, WriteTerminal, Hold, Lapse, receive_webhook, Shape, Counts
    <2> QED
        BY Zenon, <1>2, <2>1, <2>2, <2>3, <2>4, <2>5, RowsOutside DEF Shape, Counts
<1>3. ASSUME NEW j \in Jobs, Run(j) PROVE Shape'
    <2>1. aged' \subseteq Posts
        <3>1. CASE DropAtCap(j)
            BY Zenon, <3>1, Fields DEF DropAtCap, Shape, Counts, Rows
        <3>2. CASE aged' = aged
            BY Zenon, <3>2 DEF Shape, Counts
        <3> QED
            BY Zenon, <1>3, <3>1, <3>2 DEF Run, StartPromote, StartReconcile, Start, MatchRow,
                promote_staged, promote_orphan, promote_match, to_orphan, CountMiss, Finish
    <2>2. UNCHANGED <<posted, used>>
        BY Zenon, <1>3 DEF Run, StartPromote, StartReconcile, Start, MatchRow,
                promote_staged, promote_orphan, promote_match, to_orphan, CountMiss, Finish, DropAtCap
    <2>3. raced' \subseteq Requests
        <3>1. CASE promote_match(j)
            BY Zenon, <3>1, Promoted DEF promote_match, insert_comms_event, Shape, Counts
        <3>2. CASE raced' = raced
            BY Zenon, <3>2 DEF Shape, Counts
        <3> QED
            BY Zenon, <1>3, <3>1, <3>2 DEF Run, StartPromote, StartReconcile, Start, MatchRow,
                promote_staged, promote_orphan, to_orphan, CountMiss, DropAtCap, Finish
    <2> QED
        BY Zenon, <1>3, <2>1, <2>2, <2>3, HeldStep, RowsRun DEF Shape, Counts
<1>4. ASSUME NEW j \in Jobs, Abort(j) PROVE Shape'
    <2>1. Counts'
        BY Zenon, <1>1, <1>4 DEF Abort, Faults, Shape, Counts
    <2> QED
        BY Zenon, <1>4, <2>1, HeldStep, RowsRun DEF Shape
<1>5. CASE UNCHANGED vars
    <2>1. Rows' /\ Counts'
        BY Zenon, <1>5 DEF vars, tables, Shape, Rows, Counts
    <2>2. Held' /\ Matched'
        BY Zenon, <1>5 DEF vars, jobs, Shape, Held, Matched
    <2> QED
        BY Zenon, <2>1, <2>2 DEF Shape
<1> QED
    BY Zenon, <1>2, <1>3, <1>4, <1>5, Cases

\* Shape always holds.
LEMMA ShapeAlways == Spec => []Shape
BY InitShape, ShapeStep, PTL DEF Spec

\* A job works on rows of its own table, through every list, match, retry and
\* abort; it has a row exactly between find_match and the end of its transaction.
THEOREM TypeCorrect == Spec => []TypeOK
BY ShapeAlways, ShapeTypeOK, PTL

-----------------------------------------------------------------------------
(* What the transactions keep.                                             *)

\* A receipt that is taken out of a table is put into another one, made an event
\* or recorded as given up in the same transaction, and a row that a job deletes
\* is of the receipt it has just dealt with.
THEOREM NeverLostAlways == Spec => []NeverLost
<1>1. Init => NeverLost
    BY DEF Init, NeverLost
<1>2. Shape /\ NeverLost /\ [Next]_vars => NeverLost'
    <2> SUFFICES ASSUME Shape, NeverLost, [Next]_vars,
                        NEW x \in Posts, posted'[x] > 0
                 PROVE  \/ staging'[x] # 0
                        \/ \E o \in orphans' : o.post = x
                        \/ EventOf(x)'
                        \/ x \in aged'
        BY Zenon DEF NeverLost
    <2> DEFINE Kept == \/ staging[x] # 0
                       \/ \E o \in orphans : o.post = x
                       \/ EventOf(x)
                       \/ x \in aged
    <2>1. posted' = posted => Kept
        BY Zenon DEF NeverLost
    <2>2. events \subseteq events' /\ aged \subseteq aged'
        BY Zenon DEF Next, WriteTerminal, Hold, Lapse, receive_webhook, Run, Abort, StartPromote,
            StartReconcile, Start, MatchRow, promote_staged, promote_orphan, promote_match,
            insert_comms_event, to_orphan, CountMiss, DropAtCap, Finish, tables, vars
    <2>3. EventOf(x) => EventOf(x)'
        BY Zenon, <2>2 DEF EventOf
    <2>4. CASE Kept /\ UNCHANGED <<staging, orphans>>
        BY Zenon, <2>2, <2>3, <2>4
    <2>5. ASSUME NEW y \in Posts, receive_webhook(y) PROVE staging'[x] # 0 \/ Kept
        <3>1. CASE x = y
            BY <2>5, <3>1 DEF receive_webhook, insert_staging, Shape, Rows, Counts
        <3>2. CASE x # y
            BY <2>5, <3>2 DEF receive_webhook, Shape, Counts, NeverLost
        <3> QED
            BY Zenon, <3>1, <3>2
    <2>6. ASSUME NEW y \in Posts, receive_webhook(y)
          PROVE  UNCHANGED orphans /\ (staging[x] # 0 => staging'[x] # 0)
        BY <2>6 DEF receive_webhook, insert_staging, Shape, Rows, Counts
    <2>7. ASSUME NEW j \in Jobs, promote_match(j), x = row[j].post PROVE EventOf(x)'
        BY Zenon, <2>7, Promoted, PromotionFields DEF EventOf
    <2>8. ASSUME NEW w \in Staged, DeleteStaged(w), x # w.post PROVE staging'[x] = staging[x]
        BY <2>8 DEF DeleteStaged, Shape, Rows
    <2>9. ASSUME NEW j \in Jobs, promote_staged(j)
          PROVE  \/ EventOf(x)'
                 \/ Kept /\ staging'[x] = staging[x] /\ orphans' = orphans
        BY Zenon, <2>1, <2>7, <2>8, <2>9
           DEF promote_staged, promote_match, Shape, Held
    <2>10. ASSUME NEW j \in Jobs, promote_orphan(j)
           PROVE  \/ EventOf(x)'
                  \/ /\ Kept /\ staging' = staging
                     /\ \A o \in orphans : o.post = x => o \in orphans'
        BY Zenon, <2>1, <2>7, <2>10
           DEF promote_orphan, promote_match, DeleteOrphan, Same
    <2>11. ASSUME NEW j \in Jobs, to_orphan(j)
           PROVE  \/ \E o \in orphans' : o.post = x
                  \/ Kept /\ staging'[x] = staging[x] /\ orphans \subseteq orphans'
        <3>1. row[j] \in Staged /\ DeleteStaged(row[j]) /\ orphans \subseteq orphans' /\ Kept
            BY Zenon, <2>1, <2>11 DEF to_orphan, Shape, Held
        <3>2. \E o \in orphans' : o.post = row[j].post
            <4> DEFINE o == [post |-> row[j].post, id |-> row[j].id, by |-> j, attempts |-> 0]
            <4>1. o \in orphans' /\ o.post = row[j].post
                BY Zenon, <2>11 DEF to_orphan
            <4> QED
                BY Zenon, <4>1
        <3> QED
            BY Zenon, <2>8, <3>1, <3>2
    <2>12. ASSUME NEW j \in Jobs, CountMiss(j)
           PROVE  Kept /\ staging' = staging /\ \A o \in orphans : \E p \in orphans' : p.post = o.post
        <3>1. \A o \in orphans : [o EXCEPT !.attempts = @ + 1].post = o.post
            BY Zenon DEF Shape, Rows, Orphan
        <3> QED
            BY Zenon, <2>1, <2>12, <3>1 DEF CountMiss
    <2>13. ASSUME NEW j \in Jobs, DropAtCap(j)
           PROVE  Kept /\ staging' = staging
                  /\ \A o \in orphans : o \in orphans' \/ o.post \in aged'
        BY Zenon, <2>1, <2>13 DEF DropAtCap
    <2>14. ASSUME \/ \E r \in Requests, s \in {"sent", "failed"} : WriteTerminal(r, s)
                  \/ \E d \in DOMAIN listed : Hold(d) \/ Lapse(d)
                  \/ \E j \in Jobs : \/ StartPromote(j) \/ StartReconcile(j) \/ MatchRow(j)
                                      \/ Finish(j) \/ Abort(j)
                  \/ UNCHANGED vars
           PROVE  UNCHANGED <<posted, staging, orphans>>
        BY Zenon, <2>14 DEF WriteTerminal, Hold, Lapse, StartPromote, StartReconcile, Start,
            MatchRow, Finish, Abort, tables, vars
    <2> QED
        <3>1. CASE \E y \in Posts : receive_webhook(y)
            BY Zenon, <2>2, <2>3, <2>5, <2>6, <3>1
        <3>2. CASE \E j \in Jobs : promote_staged(j) \/ promote_orphan(j)
            BY Zenon, <2>2, <2>3, <2>9, <2>10, <3>2
        <3>3. CASE \E j \in Jobs : to_orphan(j) \/ CountMiss(j) \/ DropAtCap(j)
            BY Zenon, <2>2, <2>3, <2>11, <2>12, <2>13, <3>3
        <3> QED
            BY Zenon, <2>1, <2>4, <2>14, <3>1, <3>2, <3>3, Cases DEF Outside, Run
<1> QED
    BY <1>1, <1>2, ShapeAlways, PTL DEF Spec

\* Whoever writes final_status, write_terminal or insert_comms_event, adds an event
\* of that type in the same transaction, and no event is ever taken away.
THEOREM StatusBackedAlways == Spec => []StatusBacked
<1>1. Init => StatusBacked
    BY Zenon DEF Init, StatusBacked
<1>2. Shape /\ StatusBacked /\ [Next]_vars => StatusBacked'
    <2> SUFFICES ASSUME Shape, StatusBacked, [Next]_vars, NEW r \in Requests, final'[r] # None
                 PROVE  \E e \in events' : e.request = r /\ e.type = final'[r]
        BY Zenon DEF StatusBacked
    <2>1. CASE events \subseteq events' /\ final'[r] = final[r]
        BY Zenon, <2>1 DEF StatusBacked
    <2>2. ASSUME NEW q \in Requests, NEW s \in {"sent", "failed"}, WriteTerminal(q, s)
          PROVE  \E e \in events' : e.request = r /\ e.type = final'[r]
        <3>1. /\ events' = events \cup {Terminal(q, s)} /\ final' = [final EXCEPT ![q] = s]
              /\ Terminal(q, s).request = q /\ Terminal(q, s).type = s
            BY Zenon, <2>2, Ended, TerminalFields
        <3>2. final \in [Requests -> Status \cup {None}]
            BY Zenon DEF Shape, Rows
        <3> QED
            BY Zenon, <2>1, <3>1, <3>2
    <2>3. ASSUME NEW j \in Jobs, promote_match(j)
          PROVE  \E e \in events' : e.request = r /\ e.type = final'[r]
        <3>1. /\ match[j].request \in Requests /\ events' = events \cup {Promotion(j)}
              /\ \/ final' = final
                 \/ final' = [final EXCEPT ![match[j].request] = Type[row[j].post]]
              /\ Promotion(j).request = match[j].request /\ Promotion(j).type = Type[row[j].post]
            BY Zenon, <2>3, Promoted, PromotionFields
        <3>2. final \in [Requests -> Status \cup {None}]
            BY Zenon DEF Shape, Rows
        <3> QED
            BY Zenon, <2>1, <3>1, <3>2
    <2>4. ASSUME \/ \E d \in DOMAIN listed : Hold(d) \/ Lapse(d)
                 \/ \E x \in Posts : receive_webhook(x)
                 \/ \E j \in Jobs : \/ StartPromote(j) \/ StartReconcile(j) \/ MatchRow(j)
                                     \/ to_orphan(j) \/ CountMiss(j) \/ DropAtCap(j)
                                     \/ Finish(j) \/ Abort(j)
                 \/ UNCHANGED vars
          PROVE  UNCHANGED <<final, events>>
        BY Zenon, <2>4 DEF Hold, Lapse, receive_webhook, StartPromote, StartReconcile, Start,
            MatchRow, to_orphan, CountMiss, DropAtCap, Finish, Abort, tables, vars
    <2> QED
        BY Zenon, <2>1, <2>2, <2>3, <2>4, Cases DEF Outside, Run, promote_staged, promote_orphan
<1> QED
    BY <1>1, <1>2, ShapeAlways, PTL DEF Spec

\* The suppression entry is written with the event, whether or not the status
\* advances, and operators and time only move an entry between its other states.
THEOREM BouncesListedAlways == Spec => []BouncesListed
<1>1. Init => BouncesListed
    BY Zenon DEF Init, BouncesListed
<1>2. Shape /\ BouncesListed /\ [Next]_vars => BouncesListed'
    <2> SUFFICES ASSUME Shape, BouncesListed, [Next]_vars,
                        NEW e \in events', e.type \in {"bounced", "complaint"}
                 PROVE  listed'[Dest[e.request]] # "none"
        BY Zenon DEF BouncesListed
    <2>1. CASE e \in events
        <3>1. e.request \in Requests /\ Dest[e.request] \in {Dest[r] : r \in Requests}
            BY Zenon, <2>1, Fields DEF Shape, Rows
        <3>2. listed[Dest[e.request]] # "none"
            BY Zenon, <2>1 DEF BouncesListed
        <3>3. ASSUME NEW d \in DOMAIN listed, Hold(d) \/ Lapse(d) PROVE listed'[Dest[e.request]] # "none"
            BY <3>1, <3>2, <3>3 DEF Hold, Lapse, Shape, Rows
        <3>4. ASSUME NEW j \in Jobs, promote_match(j) PROVE listed'[Dest[e.request]] # "none"
            BY Zenon, <3>1, <3>2, <3>4, Promoted DEF Shape, Rows
        <3>5. ASSUME \/ \E r \in Requests, s \in {"sent", "failed"} : WriteTerminal(r, s)
                     \/ \E x \in Posts : receive_webhook(x)
                     \/ \E j \in Jobs : \/ StartPromote(j) \/ StartReconcile(j) \/ MatchRow(j)
                                         \/ to_orphan(j) \/ CountMiss(j) \/ DropAtCap(j)
                                         \/ Finish(j) \/ Abort(j)
                     \/ UNCHANGED vars
              PROVE  UNCHANGED listed
            BY Zenon, <3>5 DEF WriteTerminal, receive_webhook, StartPromote, StartReconcile, Start,
                MatchRow, to_orphan, CountMiss, DropAtCap, Finish, Abort, tables, vars
        <3> QED
            BY Zenon, <3>2, <3>3, <3>4, <3>5, Cases DEF Outside, Run, promote_staged, promote_orphan
    <2>2. CASE e \notin events
        <3>1. ASSUME NEW r \in Requests, NEW s \in {"sent", "failed"}, WriteTerminal(r, s) PROVE FALSE
            <4>1. events' = events \cup {Terminal(r, s)} /\ Terminal(r, s).type = s
                BY Zenon, <3>1, Ended, TerminalFields
            <4>2. e.type = s
                BY Zenon, <2>2, <4>1
            <4> QED
                BY <4>2
        <3>2. ASSUME NEW j \in Jobs, promote_match(j) PROVE listed'[Dest[e.request]] # "none"
            <4>1. /\ e.request = match[j].request /\ e.type = Type[row[j].post]
                  /\ match[j].request \in Requests
                <5>1. e = Promotion(j) /\ match[j].request \in Requests
                    BY Zenon, <2>2, <3>2, Promoted
                <5> QED
                    BY Zenon, <5>1, PromotionFields
            <4>2. Dest[e.request] \in DOMAIN listed
                BY Zenon, <4>1 DEF Shape, Rows
            <4> QED
                BY Zenon, <3>2, <4>1, <4>2, Promoted DEF auto_suppress, Shape, Rows
        <3>3. ASSUME \/ \E d \in DOMAIN listed : Hold(d) \/ Lapse(d)
                     \/ \E x \in Posts : receive_webhook(x)
                     \/ \E j \in Jobs : \/ StartPromote(j) \/ StartReconcile(j) \/ MatchRow(j)
                                         \/ to_orphan(j) \/ CountMiss(j) \/ DropAtCap(j)
                                         \/ Finish(j) \/ Abort(j)
                     \/ UNCHANGED vars
              PROVE  FALSE
            BY Zenon, <2>2, <3>3 DEF Hold, Lapse, receive_webhook, StartPromote, StartReconcile, Start,
                MatchRow, to_orphan, CountMiss, DropAtCap, Finish, Abort, tables, vars
        <3> QED
            BY Zenon, <3>1, <3>2, <3>3, Cases DEF Outside, Run, promote_staged, promote_orphan
    <2> QED
        BY Zenon, <2>1, <2>2
<1> QED
    BY <1>1, <1>2, ShapeAlways, PTL DEF Spec

-----------------------------------------------------------------------------
(* final_status is the furthest of its events.                             *)

\* A status that can be outranked has a place in STATUS_ORDER, and no status is
\* both in the order and absorbing.
LEMMA Order ==
    /\ \A s \in Ordered : Position(s) \in Nat
    /\ Ordered \cap ABSORBING_STATUSES = {}
<1>1. DOMAIN STATUS_ORDER = 1 .. 4
    BY DEF STATUS_ORDER
<1>2. ASSUME NEW s \in Ordered PROVE Position(s) \in Nat
    <2>1. \E i \in DOMAIN STATUS_ORDER : STATUS_ORDER[i] = s
        BY Zenon DEF Ordered
    <2>2. Position(s) \in DOMAIN STATUS_ORDER
        BY Zenon, <2>1 DEF Position
    <2> QED
        BY <1>1, <2>2
<1>3. Ordered = {"queued", "sent", "delivered", "read"}
    <2>1. /\ STATUS_ORDER[1] = "queued" /\ STATUS_ORDER[2] = "sent"
          /\ STATUS_ORDER[3] = "delivered" /\ STATUS_ORDER[4] = "read"
        BY DEF STATUS_ORDER
    <2>2. \A i \in DOMAIN STATUS_ORDER : i = 1 \/ i = 2 \/ i = 3 \/ i = 4
        BY <1>1
    <2>3. 1 \in DOMAIN STATUS_ORDER /\ 2 \in DOMAIN STATUS_ORDER
          /\ 3 \in DOMAIN STATUS_ORDER /\ 4 \in DOMAIN STATUS_ORDER
        BY <1>1
    <2> QED
        BY Zenon, <2>1, <2>2, <2>3 DEF Ordered
<1>4. Ordered \cap ABSORBING_STATUSES = {}
    BY <1>3 DEF ABSORBING_STATUSES
<1> QED
    BY Zenon, <1>2, <1>4

\* A new status that should_advance accepts is outranked by nothing that the
\* current one was not outranked by, and one that it refuses does not outrank it.
LEMMA Advance ==
    ASSUME NEW s \in Status, NEW t \in Status
    PROVE  /\ should_advance(s, t) =>
                  \A u \in Status : ~Outranks(u, s) => ~Outranks(u, t)
           /\ ~should_advance(s, t) => ~Outranks(t, s)
           /\ ~Outranks(t, t)
<1>1. ~should_advance(s, t) => ~Outranks(t, s)
    BY Zenon DEF should_advance, Outranks
<1>2. ~Outranks(t, t)
    <2>1. t \in Ordered => ~(Position(t) > Position(t))
        BY Order
    <2> QED
        BY Zenon, <2>1 DEF Outranks
<1>3. ASSUME should_advance(s, t), NEW u \in Status, Outranks(u, t) PROVE Outranks(u, s)
    <2>1. CASE t \in ABSORBING_STATUSES
        BY Zenon, <1>3, <2>1, Order DEF Outranks
    <2>2. CASE t \notin ABSORBING_STATUSES
        <3>1. /\ s \in Ordered /\ t \in Ordered /\ Position(t) > Position(s)
              /\ s \notin ABSORBING_STATUSES
            BY Zenon, <1>3, <2>2, Constants, Order DEF should_advance
        <3>2. CASE u \in ABSORBING_STATUSES
            BY Zenon, <3>1, <3>2 DEF Outranks
        <3>3. CASE u \in Ordered /\ Position(u) > Position(t)
            <4>1. Position(u) > Position(s)
                BY <3>1, <3>3, Order
            <4> QED
                BY Zenon, <3>1, <3>3, <4>1 DEF Outranks
        <3> QED
            BY Zenon, <1>3, <3>2, <3>3 DEF Outranks
    <2> QED
        BY Zenon, <2>1, <2>2
<1> QED
    BY Zenon, <1>1, <1>2, <1>3

\* A request with an event, or that a job has matched, has a final_status; and
\* unless the request is raced, the one the job decides on is the one it has.
Decided ==
    /\ \A e \in events : final[e.request] # None
    /\ \A j \in Jobs : match[j] # None =>
            /\ final[match[j].request] # None
            /\ match[j].request \notin raced => match[j].status = final[match[j].request]

\* What find_match returns is decided on what the row has now.
LEMMA FoundNow ==
    ASSUME Shape, Decided, NEW ref, NEW m \in find_match(ref), m # None
    PROVE  m.request \in Requests /\ final[m.request] # None /\ m.status = final[m.request]
<1>1. PICK e \in events : m = [request |-> e.request, status |-> final[e.request]]
    BY Zenon DEF find_match, Latest
<1>2. m.request = e.request /\ m.status = final[e.request] /\ e.request \in Requests
    BY Zenon, <1>1, Fields DEF Shape, Rows
<1> QED
    BY Zenon, <1>2 DEF Decided

\* The steps that write neither an event nor a final_status.
Quiet ==
    \/ \E d \in DOMAIN listed : Hold(d) \/ Lapse(d)
    \/ \E x \in Posts : receive_webhook(x)
    \/ \E j \in Jobs : \/ StartPromote(j) \/ StartReconcile(j) \/ MatchRow(j) \/ to_orphan(j)
                       \/ CountMiss(j) \/ DropAtCap(j) \/ Finish(j) \/ Abort(j)
    \/ UNCHANGED vars

\* They touch no request's race, and leave each job's match, end it, or find a new one.
LEMMA QuietOnly ==
    ASSUME Shape, Quiet
    PROVE  /\ UNCHANGED <<final, events, raced>>
           /\ \A i \in Jobs : \/ match'[i] = match[i] \/ match'[i] = None
                              \/ \E ref : match'[i] \in find_match(ref)
<1>1. UNCHANGED <<final, events, raced>>
    BY Zenon DEF Quiet, Hold, Lapse, receive_webhook, StartPromote, StartReconcile, Start,
        MatchRow, to_orphan, CountMiss, DropAtCap, Finish, Abort, tables, vars
<1>2. CASE UNCHANGED match
    BY Zenon, <1>1, <1>2
<1>3. match \in [Jobs -> Match \cup {None}]
    BY Zenon DEF Shape, Held
<1>4. ASSUME NEW j \in Jobs, match' = [match EXCEPT ![j] = None]
      PROVE  \A i \in Jobs : match'[i] = match[i] \/ match'[i] = None
    BY Zenon, <1>3, <1>4
<1>5. ASSUME NEW j \in Jobs, MatchRow(j)
      PROVE  \A i \in Jobs : \/ match'[i] = match[i] \/ match'[i] = None
                             \/ \E ref : match'[i] \in find_match(ref)
    <2>1. PICK w \in todo[j] : \E m \in find_match(Ref[w.post]) \cup {None} :
              match' = [match EXCEPT ![j] = m]
        BY Zenon, <1>5 DEF MatchRow
    <2> QED
        BY Zenon, <1>3, <2>1
<1>6. \/ UNCHANGED match
      \/ \E j \in Jobs : match' = [match EXCEPT ![j] = None] \/ MatchRow(j)
    BY Zenon DEF Quiet, Hold, Lapse, receive_webhook, StartPromote, StartReconcile, Start,
        to_orphan, Done, CountMiss, DropAtCap, Finish, Abort, jobs, vars
<1> QED
    BY Zenon, <1>1, <1>2, <1>4, <1>5, <1>6

\* Every step is quiet, a terminal write or a promotion.
LEMMA Writers ==
    ASSUME [Next]_vars
    PROVE  \/ Quiet
           \/ \E r \in Requests, s \in {"sent", "failed"} : WriteTerminal(r, s)
           \/ \E j \in Jobs : promote_match(j)
BY Zenon, Cases DEF Quiet, Outside, Run, promote_staged, promote_orphan

\* A promotion, with its verdict and what it does to the other jobs.
LEMMA Verdict ==
    ASSUME Shape, NEW j \in Jobs, promote_match(j)
    PROVE  /\ match[j] # None /\ match[j].request \in Requests /\ Type[row[j].post] \in Status
           /\ events' = events \cup {Promotion(j)}
           /\ Promotion(j).request = match[j].request /\ Promotion(j).type = Type[row[j].post]
           /\ should_advance(match[j].status, Type[row[j].post]) =>
                  final' = [final EXCEPT ![match[j].request] = Type[row[j].post]]
           /\ ~should_advance(match[j].status, Type[row[j].post]) => final' = final
           /\ raced \subseteq raced' /\ match'[j] = None
           /\ \A i \in Jobs \ {j} :
                  /\ match'[i] = match[i]
                  /\ match[i] # None /\ match[i].request = match[j].request =>
                         final' = final \/ match[j].request \in raced'
<1>1. /\ match[j] # None
      /\ insert_comms_event(j, should_advance(match[j].status, Type[row[j].post]))
      /\ match' = [match EXCEPT ![j] = None]
    BY Zenon DEF promote_match, Done
<1>2. match[j].request \in Requests /\ Type[row[j].post] \in Status
      /\ events' = events \cup {Promotion(j)}
    BY Zenon, Promoted
<1>3. /\ should_advance(match[j].status, Type[row[j].post]) =>
             final' = [final EXCEPT ![match[j].request] = Type[row[j].post]]
      /\ ~should_advance(match[j].status, Type[row[j].post]) => final' = final
    BY Zenon, <1>1 DEF insert_comms_event
<1>4. raced' = IF final' # final /\ Deciding(match[j].request, Jobs \ {j})
               THEN raced \cup {match[j].request} ELSE raced
    BY Zenon, <1>1 DEF insert_comms_event
<1>5. match'[j] = None /\ \A i \in Jobs \ {j} : match'[i] = match[i]
    BY Zenon, <1>1 DEF Shape, Held
<1>6. raced \subseteq raced'
    BY Zenon, <1>4
<1>7. ASSUME NEW i \in Jobs \ {j}, match[i] # None, match[i].request = match[j].request
      PROVE  final' = final \/ match[j].request \in raced'
    BY Zenon, <1>4, <1>7 DEF Deciding
<1> QED
    BY Zenon, <1>1, <1>2, <1>3, <1>5, <1>6, <1>7, PromotionFields

\* Decided is inductive.
LEMMA DecidedStep == Shape /\ Decided /\ [Next]_vars => Decided'
<1> SUFFICES ASSUME Shape, Decided, [Next]_vars PROVE Decided'
    OBVIOUS
<1>0. /\ final \in [Requests -> Status \cup {None}] /\ None \notin Status
      /\ \A e \in events : e.request \in Requests
      /\ \A i \in Jobs : match[i] # None => match[i].request \in Requests
    BY Zenon, Constants, Fields DEF Shape, Rows, Held
<1>1. CASE Quiet
    <2>1. /\ UNCHANGED <<final, events, raced>>
          /\ \A i \in Jobs : \/ match'[i] = match[i] \/ match'[i] = None
                             \/ \E ref : match'[i] \in find_match(ref)
        BY Zenon, <1>1, QuietOnly
    <2>2. ASSUME NEW i \in Jobs, match'[i] # None
          PROVE  /\ final[match'[i].request] # None
                 /\ match'[i].request \notin raced => match'[i].status = final[match'[i].request]
        BY Zenon, <2>1, <2>2, FoundNow DEF Decided
    <2> QED
        BY Zenon, <2>1, <2>2 DEF Decided
<1>2. ASSUME NEW r \in Requests, NEW s \in {"sent", "failed"}, WriteTerminal(r, s) PROVE Decided'
    <2>1. /\ events' = events \cup {Terminal(r, s)} /\ Terminal(r, s).request = r /\ s \in Status
          /\ final' = [final EXCEPT ![r] = s] /\ match' = match
        BY Zenon, <1>2, Ended, TerminalFields DEF jobs
    <2>2. raced' = IF final[r] = None THEN raced ELSE raced \cup {r}
        BY Zenon, <1>2 DEF WriteTerminal
    <2>3. final'[r] # None /\ \A q \in Requests : q # r => final'[q] = final[q]
        BY Zenon, <1>0, <2>1
    <2>4. \A e \in events' : final'[e.request] # None
        BY Zenon, <1>0, <2>1, <2>3 DEF Decided
    <2>5. ASSUME NEW i \in Jobs, match[i] # None
          PROVE  /\ final'[match[i].request] # None
                 /\ match[i].request \notin raced' => match[i].status = final'[match[i].request]
        BY Zenon, <1>0, <2>2, <2>3, <2>5 DEF Decided
    <2> QED
        BY Zenon, <2>1, <2>4, <2>5 DEF Decided
<1>3. ASSUME NEW j \in Jobs, promote_match(j) PROVE Decided'
    <2> DEFINE r == match[j].request
               t == Type[row[j].post]
    <2>1. /\ match[j] # None /\ r \in Requests /\ t \in Status
          /\ events' = events \cup {Promotion(j)} /\ Promotion(j).request = r
          /\ final' = final \/ final' = [final EXCEPT ![r] = t]
          /\ raced \subseteq raced' /\ match'[j] = None
          /\ \A i \in Jobs \ {j} :
                 /\ match'[i] = match[i]
                 /\ match[i] # None /\ match[i].request = r => final' = final \/ r \in raced'
        BY Zenon, <1>3, Verdict
    <2>2. final'[r] # None /\ \A q \in Requests : q # r => final'[q] = final[q]
        BY Zenon, <1>0, <2>1 DEF Decided
    <2>3. \A e \in events' : final'[e.request] # None
        BY Zenon, <1>0, <2>1, <2>2 DEF Decided
    <2>4. ASSUME NEW i \in Jobs, match'[i] # None
          PROVE  /\ final'[match'[i].request] # None
                 /\ match'[i].request \notin raced' => match'[i].status = final'[match'[i].request]
        <3>1. i \in Jobs \ {j} /\ match'[i] = match[i]
            BY Zenon, <2>1, <2>4
        <3>2. CASE match[i].request = r
            BY Zenon, <2>1, <2>2, <2>4, <3>1, <3>2 DEF Decided
        <3>3. CASE match[i].request # r
            <4>1. match[i] # None /\ final'[match[i].request] = final[match[i].request]
                BY Zenon, <1>0, <2>2, <2>4, <3>1, <3>3
            <4>2. match[i].request \notin raced' => match[i].request \notin raced
                BY Zenon, <2>1
            <4> QED
                BY Zenon, <3>1, <4>1, <4>2 DEF Decided
        <3> QED
            BY Zenon, <3>2, <3>3
    <2> QED
        BY Zenon, <2>3, <2>4 DEF Decided
<1> QED
    BY Zenon, <1>1, <1>2, <1>3, Writers

\* Out of order, repeated or early, receipts leave a request that no one raced on
\* the furthest status of its events: a promotion that advances moves to a status
\* that nothing outranks, one that does not adds an event that outranks nothing,
\* and both judge the status the request really has (Decided).
THEOREM FinalIsFurthestAlways == Spec => []FinalIsFurthest
<1>1. Init => Decided /\ FinalIsFurthest
    BY Zenon DEF Init, Decided, FinalIsFurthest
<1>2. Shape /\ Decided /\ FinalIsFurthest /\ [Next]_vars => FinalIsFurthest'
    <2> SUFFICES ASSUME Shape, Decided, FinalIsFurthest, [Next]_vars,
                        NEW e \in events', e.request \notin raced'
                 PROVE  final'[e.request] # None /\ ~Outranks(e.type, final'[e.request])
        BY Zenon DEF FinalIsFurthest, Outranks
    <2>0. /\ final \in [Requests -> Status \cup {None}] /\ None \notin Status
          /\ \A f \in events : f.request \in Requests /\ f.type \in Status
        BY Zenon, Constants, Fields DEF Shape, Rows
    <2>1. CASE Quiet
        BY Zenon, <2>1, QuietOnly DEF FinalIsFurthest
    <2>2. ASSUME NEW r \in Requests, NEW s \in {"sent", "failed"}, WriteTerminal(r, s)
          PROVE  final'[e.request] # None /\ ~Outranks(e.type, final'[e.request])
        <3>1. /\ events' = events \cup {Terminal(r, s)} /\ s \in Status
              /\ Terminal(r, s).request = r /\ Terminal(r, s).type = s
              /\ final' = [final EXCEPT ![r] = s]
            BY Zenon, <2>2, Ended, TerminalFields
        <3>2. raced' = IF final[r] = None THEN raced ELSE raced \cup {r}
            BY Zenon, <2>2 DEF WriteTerminal
        <3>3. CASE e \in events
            <4>1. e.request # r /\ e.request \notin raced
                BY Zenon, <3>2, <3>3 DEF Decided
            <4> QED
                BY Zenon, <2>0, <3>1, <3>3, <4>1 DEF FinalIsFurthest
        <3>4. CASE e = Terminal(r, s)
            <4>1. final'[r] = s /\ s # None
                BY Zenon, <2>0, <3>1
            <4>2. ~Outranks(s, s)
                BY Zenon, <3>1, Advance
            <4> QED
                BY Zenon, <3>1, <3>4, <4>1, <4>2
        <3> QED
            BY Zenon, <3>1, <3>3, <3>4
    <2>3. ASSUME NEW j \in Jobs, promote_match(j)
          PROVE  final'[e.request] # None /\ ~Outranks(e.type, final'[e.request])
        <3> DEFINE r == match[j].request
                   t == Type[row[j].post]
        <3>1. /\ match[j] # None /\ r \in Requests /\ t \in Status
              /\ events' = events \cup {Promotion(j)}
              /\ Promotion(j).request = r /\ Promotion(j).type = t
              /\ should_advance(match[j].status, t) => final' = [final EXCEPT ![r] = t]
              /\ ~should_advance(match[j].status, t) => final' = final
              /\ raced \subseteq raced'
            BY Zenon, <2>3, Verdict
        <3>2. e.request \notin raced /\ e.request \in Requests
            BY Zenon, <2>0, <3>1
        <3>3. CASE e.request # r
            <4>1. final'[e.request] = final[e.request] /\ e \in events
                BY Zenon, <2>0, <3>1, <3>2, <3>3
            <4> QED
                BY Zenon, <3>2, <4>1 DEF FinalIsFurthest
        <3>4. CASE e.request = r
            <4>1. final[r] \in Status /\ match[j].status = final[r]
                BY Zenon, <2>0, <3>1, <3>2, <3>4 DEF Decided
            <4>2. e \in events => e.type \in Status /\ ~Outranks(e.type, final[r])
                BY Zenon, <2>0, <3>2, <3>4 DEF FinalIsFurthest
            <4>3. e \notin events => e.type = t
                BY Zenon, <3>1
            <4>4. CASE should_advance(final[r], t)
                <5>1. final'[r] = t
                    BY Zenon, <2>0, <3>1, <4>1, <4>4
                <5>2. ~Outranks(e.type, t)
                    BY Zenon, <3>1, <4>1, <4>2, <4>3, <4>4, Advance
                <5> QED
                    BY Zenon, <2>0, <3>1, <3>4, <5>1, <5>2
            <4>5. CASE ~should_advance(final[r], t)
                <5>1. final'[r] = final[r]
                    BY Zenon, <3>1, <4>1, <4>5
                <5>2. ~Outranks(e.type, final[r])
                    BY Zenon, <3>1, <4>1, <4>2, <4>3, <4>5, Advance
                <5> QED
                    BY Zenon, <2>0, <3>4, <4>1, <5>1, <5>2
            <4> QED
                BY Zenon, <4>4, <4>5
        <3> QED
            BY Zenon, <3>3, <3>4
    <2> QED
        BY Zenon, <2>1, <2>2, <2>3, Writers
<1> QED
    BY <1>1, <1>2, DecidedStep, ShapeAlways, PTL DEF Spec
=============================================================================
