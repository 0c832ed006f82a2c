----------------------- MODULE IdempotencyGate_proofs -----------------------
(***************************************************************************)
(* Proofs about the idempotency gate, for any number of requests, slots    *)
(* and payloads, and any timeout, retention and clock bound.               *)
(***************************************************************************)
EXTENDS IdempotencyGate, TLAPS

USE DEF store, history

\* The actions of one request, named so that a proof can go through them.
RequestStep(r) ==
    \/ PassThrough(r)
    \/ Refuse(r)
    \/ \E s \in Slots, p \in Payloads : Arrive(r, s, p)
    \/ Dispatch(r)
    \/ Abort(r)

-----------------------------------------------------------------------------
(* Type correctness.                                                       *)

LEMMA EvaluateTypes ==
    ASSUME TypeOK, NEW r \in Requests, pc[r] \in Working,
           record[call[r].slot] # NoRecord, Evaluate(r, record[call[r].slot])
    PROVE  /\ pc' \in [Requests -> Step]
           /\ reply' \in [Requests -> Reply]
           /\ pc'[r] \in Working => call[r] # NoCall
           /\ \A q \in Requests : q # r => pc'[q] = pc[q]
<1>1. /\ call[r] # NoCall /\ record[call[r].slot].author \in Requests \cup {Nobody}
      /\ pc \in [Requests -> Step] /\ reply \in [Requests -> Reply]
  BY DEF TypeOK, Call, Record
<1>. QED
  BY <1>1 DEF Evaluate, Answer, Goto, Step, Working, Reply

LEMMA PendingTypes ==
    ASSUME TypeOK, NEW r \in Requests, pc[r] \in Working
    PROVE  Pending(r) \in Record /\ call[r].slot \in Slots /\ r \in {q \in Requests : call[q] # NoCall}
BY DEF TypeOK, Pending, Record, Call

\* What the SET of MARK_COMPLETE leaves in a record that is still there.
LEMMA WrittenRecord ==
    ASSUME TypeOK, NEW r \in Requests, WriteRecord(r), r \in matched
    PROVE  LET s == call[r].slot IN
           /\ s \in Slots /\ record[s] # NoRecord /\ record'[s] \in Record
           /\ record'[s] # NoRecord
           /\ record'[s].payload = record[s].payload /\ record'[s].created = record[s].created
           /\ record'[s].status # "pending" /\ record'[s].author = r
           /\ \A t \in Slots : t # s => record'[t] = record[t]
           /\ record' \in [Slots -> Record \cup {NoRecord}]
<1>. DEFINE s == call[r].slot
            status == IF outcome[r] = "error" THEN "failed_terminal" ELSE "completed"
<1>1. s \in Slots /\ record[s] \in Record
  BY DEF TypeOK, WriteRecord, Working, Call
<1>2. record' = [record EXCEPT ![s].status = status, ![s].author = r]
  BY DEF WriteRecord
<1>3. status \in {"completed", "failed_terminal"}
  OBVIOUS
<1>. HIDE DEF status
<1>4. /\ record'[s] \in Record
      /\ record'[s].payload = record[s].payload /\ record'[s].created = record[s].created
      /\ record'[s].status = status /\ record'[s].author = r
  BY <1>1, <1>2, <1>3 DEF TypeOK, Record
<1>5. record'[s] # NoRecord
  BY <1>4, NullAssumption DEF Record
<1>6. \A t \in Slots : t # s => record'[t] = record[t]
  BY <1>2 DEF TypeOK
<1>7. record' = [t \in Slots |-> record'[t]]
  BY <1>2 DEF TypeOK
<1>8. \A t \in Slots : record'[t] \in Record \cup {NoRecord}
  BY <1>4, <1>6 DEF TypeOK
<1>9. record' \in [Slots -> Record \cup {NoRecord}]
  BY <1>7, <1>8
<1>10. record[s] # NoRecord
  BY DEF TypeOK
<1>. QED
  BY <1>1, <1>3, <1>4, <1>5, <1>6, <1>9, <1>10

LEMMA WriteTypes ==
    ASSUME TypeOK, NEW r \in Requests, WriteRecord(r)
    PROVE  TypeOK'
<1>1. CASE r \in matched
  <2>1. /\ record' \in [Slots -> Record \cup {NoRecord}]
        /\ \A t \in Slots : record[t] # NoRecord => record'[t] # NoRecord
    BY <1>1, WrittenRecord
  <2>2. \A q \in matched' : q \in matched /\ q # r /\ pc'[q] = pc[q] /\ call[q].slot \in Slots
    BY <1>1 DEF WriteRecord, Answer, TypeOK, Working, Call
  <2>3. /\ pc' \in [Requests -> Step] /\ reply' \in [Requests -> Reply]
        /\ \A q \in Requests : pc'[q] \in Working => pc[q] \in Working
        /\ inTime' \subseteq Requests /\ UNCHANGED <<clock, call, outcome, doomed, admitted, crossed>>
    BY <1>1 DEF WriteRecord, Answer, TypeOK, Step, Working, Reply
  <2>. QED
    BY <2>1, <2>2, <2>3 DEF TypeOK
<1>2. CASE r \notin matched
  BY <1>2 DEF WriteRecord, Goto, TypeOK, Step, Working
<1>. QED
  BY <1>1, <1>2

\* Every variable stays in its type (all the code of the gate).
THEOREM TypeCorrect == Spec => []TypeOK
<1>1. Init => TypeOK
  BY TimeAssumption DEF Init, TypeOK, Step, Working, Reply, NoReply
<1>2. TypeOK /\ [Next]_vars => TypeOK'
  <2> SUFFICES ASSUME TypeOK, [Next]_vars PROVE TypeOK'
    OBVIOUS
  <2>. USE DEF TypeOK
  <2>1. ASSUME NEW r \in Requests, PassThrough(r) \/ Refuse(r) PROVE TypeOK'
    BY <2>1 DEF PassThrough, Refuse, Answer, Step, Working, Reply
  <2>2. ASSUME NEW r \in Requests, NEW s \in Slots, NEW p \in Payloads, Arrive(r, s, p)
        PROVE  TypeOK'
    <3>1. [slot |-> s, payload |-> p, now |-> clock] \in Call
      BY DEF Call
    <3>2. [slot |-> s, payload |-> p, now |-> clock] # NoCall
      BY <3>1, NullAssumption DEF Call
    <3>. QED
      BY <2>2, <3>1, <3>2 DEF Arrive, Goto, Step, Working
  <2>3. ASSUME NEW r \in Requests, GetRecord(r) PROVE TypeOK'
    <3>1. CASE record[call[r].slot] = NoRecord
      BY <2>3, <3>1 DEF GetRecord, Goto, Step, Working
    <3>2. CASE record[call[r].slot] # NoRecord
      <4>1. pc[r] \in Working /\ Evaluate(r, record[call[r].slot])
        BY <2>3, <3>2 DEF GetRecord, Working
      <4>2. UNCHANGED <<clock, call, outcome, record, matched, doomed, admitted, inTime, crossed>>
        BY <2>3 DEF GetRecord
      <4>3. r \notin matched
        BY <2>3 DEF GetRecord
      <4>. QED
        BY <3>2, <4>1, <4>2, <4>3, EvaluateTypes
    <3>. QED
      BY <3>1, <3>2
  <2>4. ASSUME NEW r \in Requests, CreatePendingIfAbsent(r) PROVE TypeOK'
    <3>1. pc[r] \in Working
      BY <2>4 DEF CreatePendingIfAbsent, Working
    <3>. QED
      BY <2>4, <3>1, PendingTypes DEF CreatePendingIfAbsent, Proceed, Goto, Step, Working
  <2>5. ASSUME NEW r \in Requests, GetRecordAgain(r) PROVE TypeOK'
    <3>1. pc[r] \in Working
      BY <2>5 DEF GetRecordAgain, Working
    <3>2. CASE record[call[r].slot] = NoRecord
      BY <2>5, <3>1, <3>2 DEF GetRecordAgain, Proceed, Goto, Step, Working
    <3>3. CASE record[call[r].slot] # NoRecord
      <4>1. Evaluate(r, record[call[r].slot])
        BY <2>5, <3>3 DEF GetRecordAgain
      <4>2. UNCHANGED <<clock, call, outcome, record, matched, doomed, admitted, inTime, crossed>>
        BY <2>5, <3>3 DEF GetRecordAgain
      <4>3. r \notin matched
        BY <2>5 DEF GetRecordAgain
      <4>. QED
        BY <3>1, <3>3, <4>1, <4>2, <4>3, EvaluateTypes
    <3>. QED
      BY <3>2, <3>3
  <2>6. ASSUME NEW r \in Requests, TakeOver(r) PROVE TypeOK'
    <3>1. /\ pc[r] \in Working /\ pc' = [pc EXCEPT ![r] = "handler"] /\ r \notin matched
          /\ record' = [record EXCEPT ![call[r].slot] = Pending(r)]
          /\ admitted' = admitted \cup {r} /\ crossed' \subseteq Requests
          /\ UNCHANGED <<clock, call, outcome, reply, matched, doomed, inTime>>
      BY <2>6 DEF TakeOver, Proceed, Goto, Working
    <3>2. Pending(r) \in Record /\ Pending(r) # NoRecord /\ call[r].slot \in Slots
      BY <3>1, PendingTypes, NullAssumption DEF Record
    <3>. QED
      BY <3>1, <3>2, PendingTypes DEF Step, Working
  <2>7. ASSUME NEW r \in Requests, NEW result \in {"ok", "error"}, HandlerReturns(r, result)
        PROVE  TypeOK'
    BY <2>7 DEF HandlerReturns, Goto, Step, Working
  <2>8. ASSUME NEW r \in Requests, MatchRecord(r) PROVE TypeOK'
    BY <2>8 DEF MatchRecord, Match, Goto, Step, Working
  <2>9. ASSUME NEW r \in Requests, Abort(r) PROVE TypeOK'
    BY <2>9 DEF Abort, Goto, Step, Working
  <2>10. CASE CollectExpired
    BY <2>10 DEF CollectExpired
  <2>13. ASSUME NEW S \in SUBSET doomed, DeleteCollected(S) PROVE TypeOK'
    <3>1. \A r \in matched : call[r].slot \in Slots
      BY DEF Working, Call
    <3>. QED
      BY <2>13, <3>1 DEF DeleteCollected
  <2>14. ASSUME NEW r \in Requests, WriteRecord(r) PROVE TypeOK'
    BY <2>14, WriteTypes
  <2>11. CASE TimePasses
    BY <2>11, TimeAssumption DEF TimePasses
  <2>12. CASE UNCHANGED vars
    BY <2>12 DEF vars
  <2>. QED
    BY <2>1, <2>2, <2>3, <2>4, <2>5, <2>6, <2>7, <2>8, <2>9, <2>10, <2>11, <2>12, <2>13, <2>14
    DEF Next, Dispatch
<1>. QED
  BY <1>1, <1>2, PTL DEF Spec

-----------------------------------------------------------------------------
(* Bookkeeping, and what no step undoes.                                   *)

LEMMA EvaluateAnswers ==
    ASSUME TypeOK, NEW r \in Requests, NEW rec, Evaluate(r, rec)
    PROVE  /\ \A q \in Requests : q # r => pc'[q] = pc[q] /\ reply'[q] = reply[q]
           /\ \/ pc'[r] = "done"
              \/ pc'[r] = "takeover" /\ reply' = reply
BY DEF TypeOK, Evaluate, Answer, Goto

LEMMA BookkeepingStep ==
    ASSUME TypeOK, Bookkeeping, [Next]_vars
    PROVE  Bookkeeping'
<1>. USE DEF TypeOK, Bookkeeping, Inside
<1>1. ASSUME NEW r \in Requests, PassThrough(r) \/ Refuse(r) PROVE Bookkeeping'
  BY <1>1 DEF PassThrough, Refuse, Answer
<1>2. ASSUME NEW r \in Requests, NEW s \in Slots, NEW p \in Payloads, Arrive(r, s, p)
      PROVE  Bookkeeping'
  BY <1>2 DEF Arrive, Goto
<1>3. ASSUME NEW r \in Requests, GetRecord(r) PROVE Bookkeeping'
  <2>1. CASE record[call[r].slot] = NoRecord
    BY <1>3, <2>1 DEF GetRecord, Goto
  <2>2. CASE record[call[r].slot] # NoRecord
    BY <1>3, <2>2, EvaluateAnswers DEF GetRecord
  <2>. QED
    BY <2>1, <2>2
<1>4. ASSUME NEW r \in Requests, CreatePendingIfAbsent(r) PROVE Bookkeeping'
  BY <1>4 DEF CreatePendingIfAbsent, Proceed, Goto
<1>5. ASSUME NEW r \in Requests, GetRecordAgain(r) PROVE Bookkeeping'
  <2>1. CASE record[call[r].slot] = NoRecord
    BY <1>5, <2>1 DEF GetRecordAgain, Proceed, Goto
  <2>2. CASE record[call[r].slot] # NoRecord
    BY <1>5, <2>2, EvaluateAnswers DEF GetRecordAgain
  <2>. QED
    BY <2>1, <2>2
<1>6. ASSUME NEW r \in Requests, TakeOver(r) PROVE Bookkeeping'
  BY <1>6 DEF TakeOver, Proceed, Goto
<1>7. ASSUME NEW r \in Requests, NEW result \in {"ok", "error"}, HandlerReturns(r, result)
      PROVE  Bookkeeping'
  BY <1>7 DEF HandlerReturns, Goto
<1>8. ASSUME NEW r \in Requests, MatchRecord(r) \/ WriteRecord(r) PROVE Bookkeeping'
  BY <1>8 DEF MatchRecord, Match, WriteRecord, Answer, Goto
<1>9. ASSUME NEW r \in Requests, Abort(r) PROVE Bookkeeping'
  BY <1>9 DEF Abort, Goto, Working
<1>10. CASE CollectExpired \/ \E S \in SUBSET doomed : DeleteCollected(S)
  BY <1>10 DEF CollectExpired, DeleteCollected
<1>11. CASE TimePasses
  BY <1>11, TimeAssumption DEF TimePasses, Call
<1>12. CASE UNCHANGED vars
  BY <1>12 DEF vars
<1>. QED
  BY <1>1, <1>2, <1>3, <1>4, <1>5, <1>6, <1>7, <1>8, <1>9, <1>10, <1>11, <1>12
  DEF Next, Dispatch

\* A request moves by a step of its own.
LEMMA OwnStep ==
    ASSUME TypeOK, [Next]_vars, NEW r \in Requests, pc'[r] # pc[r]
    PROVE  RequestStep(r)
<1>1. PICK q \in Requests : RequestStep(q)
  BY DEF Next, RequestStep, CollectExpired, DeleteCollected, TimePasses, vars
<1>2. \A p \in Requests : p # q => pc'[p] = pc[p]
  BY <1>1 DEF RequestStep, Dispatch, PassThrough, Refuse, Arrive, GetRecord,
     CreatePendingIfAbsent, GetRecordAgain, TakeOver, HandlerReturns, MatchRecord, Match, WriteRecord,
     Abort, Proceed, Goto, Answer, Evaluate, TypeOK
<1>. QED
  BY <1>1, <1>2

\* The call of a request never changes, an admission is never taken back and
\* an outcome never forgotten.
LEMMA NothingIsUndone ==
    ASSUME TypeOK, Bookkeeping, [Next]_vars
    PROVE  /\ \A q \in Requests : pc[q] # "new" => call'[q] = call[q]
           /\ admitted \subseteq admitted'
           /\ \A q \in Requests : outcome[q] # "none" => outcome'[q] # "none"
           /\ crossed \subseteq crossed'
<1>1. ASSUME NEW r \in Requests, RequestStep(r)
      PROVE  /\ crossed \subseteq crossed'
             /\ \A q \in Requests : pc[q] # "new" => call'[q] = call[q]
             /\ admitted \subseteq admitted'
             /\ \A q \in Requests : outcome[q] # "none" => outcome'[q] # "none"
  BY <1>1 DEF RequestStep, Dispatch, PassThrough, Refuse, Arrive, GetRecord,
       CreatePendingIfAbsent, GetRecordAgain, TakeOver, HandlerReturns, MatchRecord, Match, WriteRecord,
       Abort, Proceed, TypeOK
<1>2. CASE CollectExpired \/ (\E S \in SUBSET doomed : DeleteCollected(S)) \/ TimePasses \/ UNCHANGED vars
  BY <1>2 DEF CollectExpired, DeleteCollected, TimePasses, vars
<1>. QED
  BY <1>1, <1>2 DEF Next, RequestStep

-----------------------------------------------------------------------------
(* Every record stands for admitted requests, hence every answer does.     *)

\* Only a response that is written in the pending window is in time.
LEMMA InTimeByWrite ==
    ASSUME TypeOK, [Next]_vars, NEW q, q \in inTime', q \notin inTime
    PROVE  /\ q \in Requests /\ WriteRecord(q) /\ q \in matched
           /\ clock <= call[q].now + Timeout /\ clock' = clock /\ call' = call
<1>1. PICK r \in Requests : WriteRecord(r)
  BY DEF Next, Dispatch, PassThrough, Refuse, Arrive, GetRecord, CreatePendingIfAbsent,
     GetRecordAgain, TakeOver, HandlerReturns, MatchRecord, Abort, CollectExpired,
     DeleteCollected, TimePasses, vars
<1>. QED
  BY <1>1 DEF WriteRecord

\* A slot whose record a step leaves alone keeps its runs.
LEMMA RunsKept ==
    ASSUME TypeOK, Bookkeeping, RecordsHaveRuns, [Next]_vars,
           NEW s \in Slots, record'[s] = record[s]
    PROVE  HasRun(s)'
<1>1. \A q \in admitted : q \in Requests /\ pc[q] # "new" /\ call'[q] = call[q]
  BY NothingIsUndone DEF TypeOK, Bookkeeping, Inside
<1>2. \A q \in Requests : outcome[q] # "none" => outcome'[q] # "none"
  BY NothingIsUndone
<1>3. admitted \subseteq admitted' /\ crossed \subseteq crossed'
  BY NothingIsUndone
<1>4. ASSUME record[s].status = "pending", NEW q, call[q].slot = s, q \notin inTime
      PROVE  q \notin inTime'
  <2>. SUFFICES ASSUME q \in inTime' PROVE FALSE
    OBVIOUS
  <2>1. q \in Requests /\ WriteRecord(q) /\ q \in matched
    BY <1>4, InTimeByWrite
  <2>2. record'[s].status # "pending"
    BY <1>4, <2>1, WrittenRecord
  <2>. QED
    BY <1>4, <2>2
<1>5. ASSUME record[s] # NoRecord
      PROVE  \E q \in admitted' :
               /\ call'[q] = [slot |-> s, payload |-> record[s].payload, now |-> record[s].created]
               /\ record[s].status = "pending" => q \notin inTime'
  <2>1. PICK q \in admitted :
               /\ call[q] = [slot |-> s, payload |-> record[s].payload, now |-> record[s].created]
               /\ record[s].status = "pending" => q \notin inTime
    BY <1>5 DEF RecordsHaveRuns, HasRun
  <2>2. call[q].slot = s
    BY <2>1
  <2>. QED
    BY <1>1, <1>3, <1>4, <2>1, <2>2
<1>. QED
  BY <1>1, <1>2, <1>3, <1>5 DEF RecordsHaveRuns, HasRun

\* A request that writes its own pending record becomes that record's run.
LEMMA PendingHasRun ==
    ASSUME TypeOK, Bookkeeping, RecordsHaveRuns, [Next]_vars, NEW r \in Requests,
           pc[r] \in Working, call' = call, admitted' = admitted \cup {r}, inTime' = inTime,
           record' = [record EXCEPT ![call[r].slot] = Pending(r)]
    PROVE  RecordsHaveRuns'
<1>1. call[r] \in Call
  BY DEF TypeOK
<1>2. call'[r] = [slot |-> call[r].slot, payload |-> call[r].payload, now |-> call[r].now]
  BY <1>1 DEF Call
<1>3. record'[call[r].slot] = Pending(r)
  BY <1>1 DEF TypeOK, Call
<1>4. ASSUME NEW s \in Slots, s # call[r].slot PROVE record'[s] = record[s]
  BY <1>4 DEF TypeOK
<1>5. HasRun(call[r].slot)'
  <2>1. /\ record'[call[r].slot].payload = call[r].payload
        /\ record'[call[r].slot].created = call[r].now
        /\ record'[call[r].slot].status = "pending"
    BY <1>3 DEF Pending
  <2>2. r \in admitted' /\ r \notin inTime'
    BY DEF Bookkeeping, Working
  <2>3. call'[r] = [slot    |-> call[r].slot,
                    payload |-> record'[call[r].slot].payload,
                    now     |-> record'[call[r].slot].created]
    BY <1>2, <2>1
  <2>. QED
    BY <2>1, <2>2, <2>3 DEF HasRun
<1>. QED
  BY <1>4, <1>5, RunsKept DEF RecordsHaveRuns

\* A finalizer writes what it has matched, and knows if it does not.
LEMMA MatchesAgreeStep ==
    ASSUME TypeOK, MatchesAgree, [Next]_vars
    PROVE  MatchesAgree'
<1>1. SUFFICES ASSUME NEW q \in matched'
               PROVE  record'[call'[q].slot].payload = call'[q].payload \/ q \in crossed'
  BY DEF MatchesAgree
<1>2. ASSUME NEW r \in Requests, MatchRecord(r)
      PROVE  record'[call'[q].slot].payload = call'[q].payload \/ q \in crossed'
  BY <1>1, <1>2 DEF MatchRecord, Match, MatchesAgree
<1>3. ASSUME NEW r \in Requests, TakeOver(r)
      PROVE  record'[call'[q].slot].payload = call'[q].payload \/ q \in crossed'
  <2>. DEFINE s == call[r].slot
  <2>1. /\ q \in matched /\ call' = call /\ call[q].slot \in Slots /\ s \in Slots
        /\ record' = [record EXCEPT ![s] = Pending(r)]
        /\ crossed' = crossed \cup
              {p \in matched : call[p].slot = s /\ record[s].payload # call[r].payload}
    BY <1>1, <1>3 DEF TakeOver, TypeOK, Working, Call
  <2>2. CASE call[q].slot = s
    <3>1. record'[s] = Pending(r)
      BY <2>1 DEF TypeOK
    <3>2. record'[s].payload = call[r].payload
      BY <3>1 DEF Pending
    <3>. QED
      BY <2>1, <2>2, <3>2 DEF MatchesAgree
  <2>3. CASE call[q].slot # s
    BY <2>1, <2>3 DEF MatchesAgree, TypeOK
  <2>. QED
    BY <2>2, <2>3
<1>4. ASSUME NEW r \in Requests, CreatePendingIfAbsent(r)
      PROVE  record'[call'[q].slot].payload = call'[q].payload \/ q \in crossed'
  <2>1. q \in matched /\ call' = call /\ crossed' = crossed /\ record[call[q].slot] # NoRecord
    BY <1>1, <1>4 DEF CreatePendingIfAbsent, TypeOK
  <2>2. record'[call[q].slot] = record[call[q].slot]
    BY <1>4, <2>1 DEF CreatePendingIfAbsent, TypeOK, Working, Call
  <2>. QED
    BY <2>1, <2>2 DEF MatchesAgree
<1>5. ASSUME NEW r \in Requests, WriteRecord(r)
      PROVE  record'[call'[q].slot].payload = call'[q].payload \/ q \in crossed'
  <2>1. q \in matched /\ call' = call /\ crossed' = crossed /\ call[q].slot \in Slots
    BY <1>1, <1>5 DEF WriteRecord, TypeOK, Working, Call
  <2>2. record'[call[q].slot].payload = record[call[q].slot].payload
    <3>1. CASE r \in matched
      BY <1>5, <2>1, <3>1, WrittenRecord
    <3>2. CASE r \notin matched
      BY <1>5, <3>2 DEF WriteRecord
    <3>. QED
      BY <3>1, <3>2
  <2>. QED
    BY <2>1, <2>2 DEF MatchesAgree
<1>6. ASSUME NEW S \in SUBSET doomed, DeleteCollected(S)
      PROVE  record'[call'[q].slot].payload = call'[q].payload \/ q \in crossed'
  <2>1. q \in matched /\ call[q].slot \notin S /\ call[q].slot \in Slots
        /\ call' = call /\ crossed' = crossed
    BY <1>1, <1>6 DEF DeleteCollected, TypeOK, Working, Call
  <2>2. record'[call[q].slot] = record[call[q].slot]
    BY <1>6, <2>1 DEF DeleteCollected
  <2>. QED
    BY <2>1, <2>2 DEF MatchesAgree
<1>7. ASSUME NEW r \in Requests, NEW s \in Slots, NEW p \in Payloads, Arrive(r, s, p)
      PROVE  record'[call'[q].slot].payload = call'[q].payload \/ q \in crossed'
  <2>1. q \in matched /\ q # r /\ record' = record /\ crossed' = crossed
    BY <1>1, <1>7 DEF Arrive, TypeOK
  <2>2. call'[q] = call[q]
    BY <1>7, <2>1 DEF Arrive, TypeOK
  <2>. QED
    BY <2>1, <2>2 DEF MatchesAgree
<1>8. CASE matched' \subseteq matched /\ UNCHANGED <<record, call, crossed>>
  BY <1>1, <1>8 DEF MatchesAgree
<1>. QED
  BY <1>2, <1>3, <1>4, <1>5, <1>6, <1>7, <1>8
  DEF Next, Dispatch, PassThrough, Refuse, GetRecord, GetRecordAgain, HandlerReturns, Abort,
      CollectExpired, TimePasses, vars

LEMMA RecordsHaveRunsStep ==
    ASSUME TypeOK, Bookkeeping, MatchesAgree, RecordsHaveRuns, [Next]_vars
    PROVE  RecordsHaveRuns'
<1>1. CASE record' = record
  BY <1>1, RunsKept DEF RecordsHaveRuns
<1>2. ASSUME NEW r \in Requests, CreatePendingIfAbsent(r), record' # record
      PROVE  RecordsHaveRuns'
  BY <1>2, PendingHasRun DEF CreatePendingIfAbsent, Proceed, Working
<1>3. ASSUME NEW r \in Requests, TakeOver(r) PROVE RecordsHaveRuns'
  BY <1>3, PendingHasRun DEF TakeOver, Proceed, Working
<1>4. ASSUME NEW r \in Requests, WriteRecord(r), record' # record PROVE RecordsHaveRuns'
  <2>t. PICK t : t = call[r].slot
    OBVIOUS
  <2>1. r \in matched /\ r \in admitted /\ outcome[r] # "none"
    BY <1>4 DEF WriteRecord, Bookkeeping, Inside
  <2>2. /\ t \in Slots /\ record[t] # NoRecord
        /\ record'[t].payload = record[t].payload /\ record'[t].created = record[t].created
        /\ record'[t].status # "pending" /\ record'[t].author = r
        /\ \A s \in Slots : s # t => record'[s] = record[s]
    BY <1>4, <2>t, <2>1, WrittenRecord
  <2>3. UNCHANGED <<call, admitted, outcome, crossed>>
    BY <1>4 DEF WriteRecord
  <2>4. PICK q \in admitted : call[q] = [slot    |-> t,
                                        payload |-> record[t].payload,
                                        now     |-> record[t].created]
    BY <2>2 DEF RecordsHaveRuns, HasRun
  <2>5. call[r].payload = record[t].payload \/ r \in crossed
    BY <2>t, <2>1 DEF MatchesAgree
  <2>6. HasRun(t)'
    <3>1. \E x \in admitted' :
             /\ call'[x] = [slot    |-> t,
                            payload |-> record'[t].payload,
                            now     |-> record'[t].created]
             /\ record'[t].status = "pending" => x \notin inTime'
      BY <2>2, <2>3, <2>4
    <3>2. \E x \in admitted' : /\ record'[t].author = x
                               /\ call'[x].slot = t
                               /\ call'[x].payload = record'[t].payload \/ x \in crossed'
                               /\ outcome'[x] # "none"
      <4>1. call' = call /\ admitted' = admitted /\ outcome' = outcome /\ crossed' = crossed
        BY <2>3
      <4>2. call'[r].payload = record'[t].payload \/ r \in crossed'
        BY <2>2, <2>5, <4>1
      <4>3. r \in admitted' /\ record'[t].author = r /\ call'[r].slot = t /\ outcome'[r] # "none"
        BY <2>t, <2>1, <2>2, <4>1
      <4>. QED
        BY <4>2, <4>3, Zenon
    <3>. QED
      BY <3>1, <3>2 DEF HasRun
  <2>. QED
    BY <2>2, <2>6, RunsKept DEF RecordsHaveRuns
<1>5. ASSUME NEW S \in SUBSET doomed, DeleteCollected(S) PROVE RecordsHaveRuns'
  <2>1. \A s \in Slots : record'[s] = NoRecord \/ record'[s] = record[s]
    BY <1>5 DEF DeleteCollected
  <2>. QED
    BY <2>1, RunsKept DEF RecordsHaveRuns, HasRun
<1>. QED
  BY <1>1, <1>2, <1>3, <1>4, <1>5
  DEF Next, Dispatch, PassThrough, Refuse, Arrive, GetRecord, GetRecordAgain,
      HandlerReturns, MatchRecord, Abort, CollectExpired, TimePasses, vars

\* An answer taken from a record speaks of an admitted request.
LEMMA EvaluateIsGenuine ==
    ASSUME TypeOK, RecordsHaveRuns, NEW r \in Requests, pc[r] \in Working,
           record[call[r].slot] # NoRecord, Evaluate(r, record[call[r].slot])
    PROVE  /\ reply'[r].kind = "replay" /\ reply' # reply =>
                \E q \in admitted : /\ reply'[r].from = q /\ call[q].slot = call[r].slot
                                    /\ SameCall(r, q) \/ q \in crossed
                                    /\ outcome[q] # "none"
           /\ reply'[r].kind = "conflict" /\ reply' # reply =>
                \E q \in admitted : /\ call[q].slot = call[r].slot
                                    /\ call[q].payload # call[r].payload
<1>. DEFINE rec == record[call[r].slot]
<1>1. call[r].slot \in Slots /\ rec # NoRecord
  BY DEF TypeOK, Call
<1>2. \E q \in admitted : call[q].slot = call[r].slot /\ call[q].payload = rec.payload
  <2>1. PICK q \in admitted : call[q] = [slot    |-> call[r].slot,
                                         payload |-> rec.payload,
                                         now     |-> rec.created]
    BY <1>1 DEF RecordsHaveRuns, HasRun
  <2>. QED
    BY <2>1
<1>3. rec.status # "pending" =>
        \E q \in admitted : /\ rec.author = q /\ outcome[q] # "none"
                            /\ call[q].slot = call[r].slot
                            /\ call[q].payload = rec.payload \/ q \in crossed
  BY <1>1 DEF RecordsHaveRuns, HasRun
<1>4. CASE rec.payload # call[r].payload
  BY <1>2, <1>4 DEF Evaluate, Answer, TypeOK, Reply
<1>5. CASE rec.payload = call[r].payload
  BY <1>3, <1>5 DEF Evaluate, Answer, Goto, TypeOK, Reply, SameCall
<1>. QED
  BY <1>4, <1>5

\* Answers that are out stay genuine, whatever step follows.
LEMMA GenuineKept ==
    ASSUME TypeOK, Bookkeeping, AnswersAreGenuine, [Next]_vars,
           NEW r \in Requests, pc[r] # "new", reply'[r] = reply[r]
    PROVE  /\ reply'[r].kind = "replay" =>
                \E q \in admitted' : /\ reply'[r].from = q
                                     /\ call'[q].slot = call'[r].slot
                                     /\ SameCall(r, q)' \/ q \in crossed'
                                     /\ outcome'[q] # "none"
           /\ reply'[r].kind = "conflict" =>
                \E q \in admitted' : /\ call'[q].slot = call'[r].slot
                                     /\ call'[q].payload # call'[r].payload
<1>1. call'[r] = call[r] /\ admitted \subseteq admitted' /\ crossed \subseteq crossed'
  BY NothingIsUndone
<1>2. \A q \in admitted : q \in Requests /\ call'[q] = call[q]
  BY NothingIsUndone DEF TypeOK, Bookkeeping, Inside
<1>3. \A q \in admitted : outcome[q] # "none" => outcome'[q] # "none"
  BY <1>2, NothingIsUndone
<1>. QED
  BY <1>1, <1>2, <1>3 DEF AnswersAreGenuine, SameCall

LEMMA AnswersAreGenuineStep ==
    ASSUME TypeOK, Bookkeeping, RecordsHaveRuns, AnswersAreGenuine, [Next]_vars
    PROVE  AnswersAreGenuine'
<1>1. SUFFICES ASSUME NEW r \in Requests
               PROVE  /\ reply'[r].kind = "replay" =>
                           \E q \in admitted' : /\ reply'[r].from = q
                                                /\ call'[q].slot = call'[r].slot
                                                /\ SameCall(r, q)' \/ q \in crossed'
                                                /\ outcome'[q] # "none"
                      /\ reply'[r].kind = "conflict" =>
                           \E q \in admitted' : /\ call'[q].slot = call'[r].slot
                                                /\ call'[q].payload # call'[r].payload
  BY DEF AnswersAreGenuine
<1>2. CASE reply'[r] = reply[r] /\ pc[r] # "new"
  BY <1>2, GenuineKept
<1>3. CASE reply'[r] = reply[r] /\ pc[r] = "new"
  BY <1>3 DEF Bookkeeping, NoReply
<1>4. CASE reply'[r] # reply[r]
  <2>1. \E q \in Requests : RequestStep(q)
    BY <1>4 DEF Next, RequestStep, CollectExpired, DeleteCollected, TimePasses, vars
  <2>2. RequestStep(r)
    BY <1>4, <2>1 DEF RequestStep, Dispatch, PassThrough, Refuse, Arrive, GetRecord,
         CreatePendingIfAbsent, GetRecordAgain, TakeOver, HandlerReturns, MatchRecord, Match, WriteRecord,
         Abort, Proceed, Goto, Answer, Evaluate, TypeOK
  <2>3. CASE GetRecord(r)
    <3>1. /\ pc[r] \in Working /\ record[call[r].slot] # NoRecord
          /\ Evaluate(r, record[call[r].slot])
          /\ UNCHANGED <<call, admitted, outcome, crossed>>
      BY <1>4, <2>3 DEF GetRecord, Goto, Working
    <3>. QED
      BY <1>4, <3>1, EvaluateIsGenuine DEF SameCall
  <2>4. CASE GetRecordAgain(r)
    <3>1. /\ pc[r] \in Working /\ record[call[r].slot] # NoRecord
          /\ Evaluate(r, record[call[r].slot])
          /\ UNCHANGED <<call, admitted, outcome, crossed>>
      BY <1>4, <2>4 DEF GetRecordAgain, Goto, Proceed, Working
    <3>. QED
      BY <1>4, <3>1, EvaluateIsGenuine DEF SameCall
  <2>5. CASE PassThrough(r) \/ Refuse(r) \/ WriteRecord(r)
    BY <1>4, <2>5 DEF PassThrough, Refuse, WriteRecord, Answer, Goto, TypeOK
  <2>. QED
    BY <1>4, <2>2, <2>3, <2>4, <2>5
    DEF RequestStep, Dispatch, Arrive, CreatePendingIfAbsent, TakeOver, HandlerReturns,
        MatchRecord, Match, Abort, Proceed, Goto
<1>. QED
  BY <1>2, <1>3, <1>4

\* Replays and conflicts speak of requests that were let through under the
\* same key: AnswersAreGenuine (evaluate_existing_record, MARK_COMPLETE).
THEOREM AnswersGenuine == Spec => []AnswersAreGenuine
<1>1. Init => Bookkeeping /\ MatchesAgree /\ RecordsHaveRuns /\ AnswersAreGenuine
  BY DEF Init, Bookkeeping, MatchesAgree, RecordsHaveRuns, HasRun, AnswersAreGenuine,
     NoReply, Inside
<1>2. TypeOK /\ Bookkeeping /\ MatchesAgree /\ RecordsHaveRuns /\ AnswersAreGenuine /\ [Next]_vars
        => Bookkeeping' /\ MatchesAgree' /\ RecordsHaveRuns' /\ AnswersAreGenuine'
  BY BookkeepingStep, MatchesAgreeStep, RecordsHaveRunsStep, AnswersAreGenuineStep
<1>. QED
  BY <1>1, <1>2, TypeCorrect, PTL DEF Spec

-----------------------------------------------------------------------------
(* Two runs under one key need an attempt that outlived its timeout.       *)

\* The call of an admitted request, with the type of its fields.
LEMMA AdmittedCalls ==
    ASSUME TypeOK, Bookkeeping, [Next]_vars, NEW p \in admitted
    PROVE  /\ p \in Requests /\ p \in admitted' /\ call'[p] = call[p]
           /\ call[p] \in Call /\ call[p].now \in Nat /\ call[p].now <= clock
           /\ clock \in Nat /\ clock' \in Nat /\ clock <= clock'
<1>1. p \in Requests /\ pc[p] # "new" /\ call[p] \in Call /\ call[p] # NoCall
  BY DEF TypeOK, Bookkeeping, Inside
<1>2. call'[p] = call[p] /\ p \in admitted'
  BY <1>1, NothingIsUndone
<1>3. call[p].now \in Nat /\ call[p].now <= clock /\ clock \in Nat
  BY <1>1, TimeAssumption DEF Call, TypeOK, Bookkeeping
<1>4. clock' = clock \/ clock' = clock + 1
  BY DEF Next, Dispatch, PassThrough, Refuse, Arrive, GetRecord, CreatePendingIfAbsent,
     GetRecordAgain, TakeOver, HandlerReturns, MatchRecord, WriteRecord, Abort,
     CollectExpired, DeleteCollected, TimePasses, vars
<1>. QED
  BY <1>1, <1>2, <1>3, <1>4

\* What is known of a request that is in the middle of its dispatch.
LEMMA WorkingTypes ==
    ASSUME TypeOK, Bookkeeping, NEW r \in Requests, pc[r] \in Working
    PROVE  /\ call[r] \in Call /\ call[r].slot \in Slots /\ call[r].payload \in Payloads
           /\ call[r].now \in Nat /\ call[r].now <= clock /\ clock \in Nat
           /\ Pending(r) \in Record /\ Pending(r) # NoRecord
BY TimeAssumption, NullAssumption DEF TypeOK, Bookkeeping, Call, Pending, Record

LEMMA OutlivedStays ==
    ASSUME TypeOK, Bookkeeping, [Next]_vars, NEW s, NoneOutlived(s)'
    PROVE  NoneOutlived(s)
<1>. SUFFICES ASSUME NEW p \in admitted, call[p].slot = s, Outlived(p) PROVE FALSE
  BY DEF NoneOutlived
<1>1. p \in admitted' /\ call'[p] = call[p] /\ clock <= clock'
      /\ call[p].now \in Nat /\ clock \in Nat /\ clock' \in Nat
  BY AdmittedCalls
<1>2. clock > call[p].now + Timeout /\ p \notin inTime
  BY DEF Outlived
<1>3. p \notin inTime'
  BY <1>1, <1>2, InTimeByWrite, TimeAssumption
<1>4. ~Outlived(p)'
  BY <1>1 DEF NoneOutlived
<1>. QED
  BY <1>1, <1>2, <1>3, <1>4, TimeAssumption DEF Outlived

\* A stale pending record is evidence of an attempt that outlived its window.
LEMMA StaleIsOutlived ==
    ASSUME TypeOK, Bookkeeping, RecordsHaveRuns, NEW r \in Requests,
           pc[r] \in Working, record[call[r].slot] # NoRecord,
           record[call[r].slot].status = "pending",
           ~InFlight(record[call[r].slot], call[r].now)
    PROVE  ~NoneOutlived(call[r].slot)
<1>. DEFINE s == call[r].slot
<1>1. s \in Slots /\ call[r].now \in Nat /\ call[r].now <= clock /\ clock \in Nat
  BY WorkingTypes
<1>2. PICK p \in admitted : /\ call[p] = [slot    |-> s,
                                          payload |-> record[s].payload,
                                          now     |-> record[s].created]
                            /\ p \notin inTime
  BY <1>1 DEF RecordsHaveRuns, HasRun
<1>3. call[p].slot = s /\ call[p].now = record[s].created /\ record[s].created \in Nat
  BY <1>1, <1>2, TimeAssumption DEF TypeOK, Record
<1>4. Outlived(p)
  BY <1>1, <1>2, <1>3, TimeAssumption DEF InFlight, Outlived
<1>. QED
  BY <1>3, <1>4 DEF NoneOutlived

\* A step that changes no record, admits nobody and takes no time.
LEMMA QuietStep ==
    ASSUME TypeOK, Bookkeeping, RecordsHaveRuns, [Next]_vars, NEW s \in Slots,
           NoneOutlived(s), Undisturbed(s), UNCHANGED <<clock, record, doomed, admitted>>
    PROVE  Undisturbed(s)'
<1>1. \A p \in admitted : call'[p] = call[p]
  BY AdmittedCalls
<1>2. DeletedIsExpired(s)' /\ AttemptsStored(s)' /\ RunsApart(s)'
  BY <1>1 DEF Undisturbed, DeletedIsExpired, AttemptsStored, RunsApart, Expired, ApartByRetention
<1>3. ASSUME NEW q \in Requests, pc'[q] \in Working, call'[q].slot = s
      PROVE  /\ pc'[q] # "takeover"
             /\ pc'[q] \in {"create", "reget"} /\ record[s] # NoRecord =>
                  record[s].created + Timeout >= call'[q].now
             /\ pc'[q] = "reget" /\ record[s] = NoRecord => clock > call'[q].now + Timeout
  <2>1. CASE pc'[q] = pc[q]
    <3>1. call'[q] = call[q]
      BY <1>3, <2>1, NothingIsUndone DEF Working
    <3>. QED
      BY <1>3, <2>1, <3>1 DEF Undisturbed, WaitersLate
  <2>2. CASE pc'[q] # pc[q]
    <3>1. RequestStep(q)
      BY <2>2, OwnStep
    <3>2. CASE GetRecord(q) \/ GetRecordAgain(q) \/ CreatePendingIfAbsent(q)
      <4>1. /\ pc[q] \in Working /\ call' = call /\ q \notin admitted /\ call[q].slot = s
        BY <1>3, <3>2 DEF GetRecord, GetRecordAgain, CreatePendingIfAbsent, Working,
             Bookkeeping, Inside
      <4>2. CASE record[s] = NoRecord
        <5>1. GetRecord(q)
          BY <3>2, <4>1, <4>2 DEF GetRecordAgain, CreatePendingIfAbsent, Proceed
        <5>2. pc'[q] = "create"
          BY <4>1, <4>2, <5>1 DEF GetRecord, Goto, TypeOK
        <5>. QED
          BY <4>2, <5>2
      <4>3. CASE record[s] # NoRecord /\ CreatePendingIfAbsent(q)
        <5>1. pc[q] = "create" /\ pc'[q] = "reget"
          BY <4>1, <4>3 DEF CreatePendingIfAbsent, Goto, TypeOK
        <5>. QED
          BY <4>1, <4>3, <5>1 DEF Undisturbed, WaitersLate
      <4>4. CASE record[s] # NoRecord /\ (GetRecord(q) \/ GetRecordAgain(q))
        <5>1. Evaluate(q, record[s])
          BY <4>1, <4>4 DEF GetRecord, GetRecordAgain
        <5>2. /\ pc'[q] = "takeover"
              /\ record[s].status = "pending" /\ ~InFlight(record[s], call[q].now)
          BY <1>3, <5>1 DEF Evaluate, Answer, Goto, TypeOK, Working
        <5>. QED
          BY <4>1, <4>4, <5>2, StaleIsOutlived
      <4>. QED
        BY <3>2, <4>2, <4>3, <4>4
    <3>3. ~TakeOver(q)
      BY DEF TakeOver, Proceed, Bookkeeping, Inside
    <3>4. CASE ~(GetRecord(q) \/ GetRecordAgain(q) \/ CreatePendingIfAbsent(q))
      <4>1. pc'[q] \in {"get", "done", "lost", "finalize", "write"}
        BY <3>1, <3>3, <3>4 DEF RequestStep, Dispatch, PassThrough, Refuse, Arrive,
             HandlerReturns, MatchRecord, Match, WriteRecord, Abort, Goto, Answer, TypeOK
      <4>. QED
        BY <4>1
    <3>. QED
      BY <3>2, <3>4
  <2>. QED
    BY <2>1, <2>2
<1>4. WaitersLate(s)'
  BY <1>3 DEF WaitersLate
<1>. QED
  BY <1>2, <1>4 DEF Undisturbed

\* A request leaves the slots of others alone.
LEMMA OtherSlot ==
    ASSUME TypeOK, Bookkeeping, [Next]_vars, NEW s \in Slots, Undisturbed(s),
           NEW r \in Requests, RequestStep(r), pc[r] # "new", call[r].slot # s
    PROVE  Undisturbed(s)'
<1>1. UNCHANGED <<clock, call, doomed>>
  BY DEF RequestStep, Dispatch, PassThrough, Refuse, Arrive, GetRecord, GetRecordAgain,
     CreatePendingIfAbsent, TakeOver, HandlerReturns, MatchRecord, WriteRecord, Abort
<1>2. admitted' = admitted \/ admitted' = admitted \cup {r}
  BY DEF RequestStep, Dispatch, PassThrough, Refuse, Arrive, GetRecord, GetRecordAgain,
     CreatePendingIfAbsent, TakeOver, HandlerReturns, MatchRecord, WriteRecord, Abort, Proceed
<1>3. \A q \in Requests : q # r => pc'[q] = pc[q]
  BY DEF RequestStep, Dispatch, PassThrough, Refuse, Arrive, GetRecord, GetRecordAgain,
     CreatePendingIfAbsent, TakeOver, HandlerReturns, MatchRecord, Match, WriteRecord, Abort,
     Proceed, Goto, Answer, Evaluate, TypeOK
<1>4. record'[s] = record[s]
  <2>1. CASE WriteRecord(r) /\ r \in matched
    BY <2>1, WrittenRecord
  <2>2. CASE ~(WriteRecord(r) /\ r \in matched)
    BY <2>2 DEF RequestStep, Dispatch, PassThrough, Refuse, Arrive, GetRecord, GetRecordAgain,
       CreatePendingIfAbsent, TakeOver, HandlerReturns, MatchRecord, WriteRecord, Abort, TypeOK
  <2>. QED
    BY <2>1, <2>2
<1>. QED
  BY <1>1, <1>2, <1>3, <1>4 DEF Undisturbed, DeletedIsExpired, AttemptsStored, WaitersLate,
     RunsApart, Expired, ApartByRetention

\* Who is let through where no record is comes after all the others.
LEMMA AdmissionStep ==
    ASSUME TypeOK, Bookkeeping, [Next]_vars, NEW s \in Slots, Undisturbed(s),
           NoneOutlived(s)', NEW r \in Requests, call[r].slot = s, record[s] = NoRecord,
           CreatePendingIfAbsent(r) \/ GetRecordAgain(r)
    PROVE  Undisturbed(s)'
<1>1. /\ pc[r] \in Working /\ r \notin admitted /\ r \notin inTime
      /\ pc' = [pc EXCEPT ![r] = "handler"] /\ admitted' = admitted \cup {r}
      /\ UNCHANGED <<clock, call, doomed, inTime>>
  BY DEF CreatePendingIfAbsent, GetRecordAgain, Proceed, Goto, Working, Bookkeeping, Inside
<1>2. call[r].now \in Nat /\ clock \in Nat /\ Pending(r) # NoRecord
  BY <1>1, WorkingTypes
<1>3. clock <= call[r].now + Timeout
  <2>1. ~Outlived(r)'
    BY <1>1 DEF NoneOutlived
  <2>. QED
    BY <1>1, <1>2, <2>1, TimeAssumption DEF Outlived
<1>4. CreatePendingIfAbsent(r)
  <2>1. pc[r] # "reget"
    BY <1>1, <1>2, <1>3, TimeAssumption DEF Undisturbed, WaitersLate
  <2>. QED
    BY <2>1 DEF GetRecordAgain
<1>5. record'[s] = Pending(r) /\ Pending(r).created = call[r].now
  BY <1>4 DEF CreatePendingIfAbsent, Pending, TypeOK
<1>6. ASSUME NEW p \in admitted, call[p].slot = s
      PROVE  clock > call[p].now + Retention /\ call[p].now \in Nat /\ p # r
  BY <1>1, <1>6, AdmittedCalls DEF Undisturbed, AttemptsStored
<1>7. DeletedIsExpired(s)'
  BY <1>1 DEF DeletedIsExpired, TypeOK
<1>8. AttemptsStored(s)'
  BY <1>1, <1>2, <1>5, <1>6 DEF AttemptsStored
<1>9. WaitersLate(s)'
  <2>1. ASSUME NEW q \in Requests, pc'[q] \in Working, call[q].slot = s
        PROVE  /\ pc'[q] # "takeover"
               /\ pc'[q] \in {"create", "reget"} => call[r].now + Timeout >= call[q].now
    <3>1. CASE q = r
      BY <1>1, <3>1 DEF TypeOK
    <3>2. CASE q # r
      <4>1. pc'[q] = pc[q]
        BY <1>1, <3>2 DEF TypeOK
      <4>2. call[q].now \in Nat /\ call[q].now <= clock
        BY <2>1, <4>1, WorkingTypes
      <4>. QED
        BY <1>2, <1>3, <2>1, <4>1, <4>2, TimeAssumption DEF Undisturbed, WaitersLate
    <3>. QED
      BY <3>1, <3>2
  <2>. QED
    BY <1>1, <1>2, <1>5, <2>1 DEF WaitersLate
<1>10. RunsApart(s)'
  <2>1. ASSUME NEW p \in admitted, call[p].slot = s
        PROVE  call[r].now + Timeout > call[p].now + Retention
    BY <1>2, <1>3, <1>6, <2>1, TimeAssumption
  <2>. QED
    BY <1>1, <2>1 DEF Undisturbed, RunsApart, ApartByRetention
<1>. QED
  BY <1>7, <1>8, <1>9, <1>10 DEF Undisturbed

LEMMA UndisturbedStep ==
    ASSUME TypeOK, Bookkeeping, RecordsHaveRuns, [Next]_vars, NEW s \in Slots,
           NoneOutlived(s), NoneOutlived(s)', Undisturbed(s)
    PROVE  Undisturbed(s)'
<1>1. CASE UNCHANGED <<clock, record, doomed, admitted>>
  BY <1>1, QuietStep
<1>2. ASSUME NEW r \in Requests,
             CreatePendingIfAbsent(r) \/ GetRecordAgain(r) \/ TakeOver(r) \/ WriteRecord(r)
      PROVE  Undisturbed(s)'
  <2>1. RequestStep(r) /\ pc[r] # "new" /\ pc[r] \in Working
    BY <1>2 DEF RequestStep, Dispatch, CreatePendingIfAbsent, GetRecordAgain, TakeOver,
         WriteRecord, Working
  <2>2. CASE call[r].slot # s
    BY <2>1, <2>2, OtherSlot
  <2>3. CASE call[r].slot = s /\ TakeOver(r)
    BY <2>1, <2>3 DEF TakeOver, Undisturbed, WaitersLate
  <2>4. CASE call[r].slot = s /\ (CreatePendingIfAbsent(r) \/ GetRecordAgain(r))
    <3>1. CASE record[s] = NoRecord
      BY <2>4, <3>1, AdmissionStep
    <3>2. CASE record[s] # NoRecord
      BY <2>4, <3>2, QuietStep DEF CreatePendingIfAbsent, GetRecordAgain
    <3>. QED
      BY <3>1, <3>2
  <2>5. CASE call[r].slot = s /\ WriteRecord(r) /\ r \in matched
    <3>1. /\ record'[s].created = record[s].created /\ record'[s] # NoRecord
          /\ record[s] # NoRecord
      BY <2>5, WrittenRecord
    <3>2. /\ UNCHANGED <<clock, call, doomed, admitted>>
          /\ pc'[r] = "done" /\ \A q \in Requests : q # r => pc'[q] = pc[q]
      BY <2>5 DEF WriteRecord, Answer, TypeOK
    <3>. QED
      BY <3>1, <3>2 DEF Undisturbed, DeletedIsExpired, AttemptsStored, WaitersLate,
         RunsApart, Expired, ApartByRetention, Working
  <2>6. CASE WriteRecord(r) /\ r \notin matched
    BY <2>6, QuietStep DEF WriteRecord
  <2>. QED
    BY <1>2, <2>2, <2>3, <2>4, <2>5, <2>6
<1>3. CASE CollectExpired
  <2>1. /\ UNCHANGED <<clock, call, record, admitted, pc>>
        /\ s \in doomed' => s \in doomed \/ Expired(record[s])
    BY <1>3 DEF CollectExpired
  <2>. QED
    BY <2>1 DEF Undisturbed, DeletedIsExpired, AttemptsStored, WaitersLate, RunsApart,
       Expired, ApartByRetention
<1>4. ASSUME NEW S \in SUBSET doomed, DeleteCollected(S) PROVE Undisturbed(s)'
  <2>1. UNCHANGED <<clock, call, admitted, pc>>
    BY <1>4 DEF DeleteCollected
  <2>2. CASE s \notin S
    <3>1. record'[s] = record[s] /\ (s \in doomed' => s \in doomed)
      BY <1>4, <2>2 DEF DeleteCollected
    <3>. QED
      BY <2>1, <3>1 DEF Undisturbed, DeletedIsExpired, AttemptsStored, WaitersLate, RunsApart,
         Expired, ApartByRetention
  <2>3. CASE s \in S
    <3>1. /\ record'[s] = NoRecord /\ s \notin doomed' /\ record[s] # NoRecord
          /\ record[s].created + Retention < clock
          /\ record[s].created \in Nat /\ clock \in Nat
      BY <1>4, <2>3, TimeAssumption
         DEF DeleteCollected, Undisturbed, DeletedIsExpired, Expired, TypeOK, Record
    <3>2. AttemptsStored(s)'
      BY <2>1, <3>1 DEF Undisturbed, AttemptsStored
    <3>3. WaitersLate(s)'
      <4>1. ASSUME NEW q \in Requests, pc[q] = "reget", call[q].slot = s
            PROVE  clock > call[q].now + Timeout
        <5>1. call[q].now \in Nat /\ record[s].created + Timeout >= call[q].now
          BY <3>1, <4>1, WorkingTypes DEF Undisturbed, WaitersLate, Working
        <5>. QED
          BY <3>1, <5>1, TimeAssumption
      <4>. QED
        BY <2>1, <3>1, <4>1 DEF Undisturbed, WaitersLate
    <3>. QED
      BY <2>1, <3>1, <3>2, <3>3 DEF Undisturbed, DeletedIsExpired, RunsApart, ApartByRetention
  <2>. QED
    BY <2>2, <2>3
<1>5. CASE TimePasses
  <2>1. clock' = clock + 1 /\ clock \in Nat /\ UNCHANGED <<record, doomed, call, admitted, pc>>
    BY <1>5, TimeAssumption DEF TimePasses, TypeOK
  <2>2. DeletedIsExpired(s)'
    <3>1. s \in doomed => record[s].created \in Nat
      BY TimeAssumption DEF TypeOK, Record
    <3>. QED
      BY <2>1, <3>1, TimeAssumption DEF Undisturbed, DeletedIsExpired, Expired
  <2>3. AttemptsStored(s)'
    <3>1. \A p \in admitted : call[p].now \in Nat
      BY AdmittedCalls
    <3>. QED
      BY <2>1, <3>1, TimeAssumption DEF Undisturbed, AttemptsStored
  <2>4. WaitersLate(s)'
    <3>1. \A q \in Requests : pc[q] \in Working => call[q].now \in Nat
      BY WorkingTypes
    <3>. QED
      BY <2>1, <3>1, TimeAssumption DEF Undisturbed, WaitersLate
  <2>. QED
    BY <2>1, <2>2, <2>3, <2>4 DEF Undisturbed, RunsApart, ApartByRetention
<1>. QED
  BY <1>1, <1>2, <1>3, <1>4, <1>5
  DEF Next, Dispatch, PassThrough, Refuse, Arrive, GetRecord, HandlerReturns, MatchRecord,
      Abort, vars

LEMMA DuplicatesExplainedStep ==
    ASSUME TypeOK, Bookkeeping, RecordsHaveRuns, DuplicatesExplained, [Next]_vars
    PROVE  DuplicatesExplained'
BY OutlivedStays, UndisturbedStep DEF DuplicatesExplained

\* Two runs under one key within a retention period need an attempt that
\* outlived its pending window: DuplicateNeedsTimeout (preflight,
\* evaluate_existing_record, finalize, DELETE_EXPIRED).
THEOREM DuplicatesNeedTimeout == Spec => []DuplicateNeedsTimeout
<1>1. Init => Bookkeeping /\ MatchesAgree /\ RecordsHaveRuns /\ DuplicatesExplained
  BY DEF Init, Bookkeeping, MatchesAgree, RecordsHaveRuns, HasRun, DuplicatesExplained,
     Undisturbed, DeletedIsExpired, AttemptsStored, WaitersLate, RunsApart, NoReply, Inside,
     Working
<1>2. TypeOK /\ Bookkeeping /\ MatchesAgree /\ RecordsHaveRuns /\ DuplicatesExplained
        /\ [Next]_vars
        => Bookkeeping' /\ MatchesAgree' /\ RecordsHaveRuns' /\ DuplicatesExplained'
  BY BookkeepingStep, MatchesAgreeStep, RecordsHaveRunsStep, DuplicatesExplainedStep
<1>3. TypeOK /\ DuplicatesExplained => DuplicateNeedsTimeout
  <2>. SUFFICES ASSUME TypeOK, DuplicatesExplained, NEW r \in admitted, NEW q \in admitted,
                       r # q, call[r].slot = call[q].slot, ~ApartByRetention(r, q)
                PROVE  \E p \in admitted : call[p].slot = call[r].slot /\ Outlived(p)
    BY DEF DuplicateNeedsTimeout
  <2>1. call[r].slot \in Slots
    BY DEF TypeOK, Call
  <2>2. ~Undisturbed(call[r].slot)
    BY DEF Undisturbed, RunsApart
  <2>. QED
    BY <2>1, <2>2 DEF DuplicatesExplained, NoneOutlived
<1>. QED
  BY <1>1, <1>2, <1>3, TypeCorrect, PTL DEF Spec

-----------------------------------------------------------------------------
(* Timely, unbroken requests run once until their record expires.          *)

\* No request finds a pending record stale.
LEMMA NoTakeover ==
    ASSUME TypeOK, Bookkeeping, OneRunPerRecord, NEW r \in Requests, pc[r] \in Working,
           record[call[r].slot] # NoRecord, Evaluate(r, record[call[r].slot])
    PROVE  pc' = [pc EXCEPT ![r] = "done"]
<1>. DEFINE s == call[r].slot
<1>1. call[r].now \in Nat /\ call[r].now <= clock /\ clock \in Nat /\ s \in Slots
  BY WorkingTypes
<1>2. CASE record[s].status = "pending"
  <2>1. PICK q \in Requests : Runs(q, s)
    BY <1>1, <1>2 DEF OneRunPerRecord, RecordsAreRuns
  <2>2. pc[q] \in Inside /\ pc[q] \in Working /\ call[q].slot = s
    BY <2>1 DEF Runs, Inside, Working
  <2>3. record[s].created = call[q].now /\ clock <= call[q].now + Timeout
    <3>1. record[call[q].slot] = Pending(q) /\ clock <= call[q].now + Timeout
      BY <2>2 DEF OneRunPerRecord, RunnersHoldRecords, Punctual
    <3>. QED
      BY <2>2, <3>1 DEF Pending
  <2>4. InFlight(record[s], call[r].now)
    BY <1>1, <2>2, <2>3, WorkingTypes, TimeAssumption DEF InFlight
  <2>. QED
    BY <1>2, <2>4 DEF Evaluate, Answer
<1>3. CASE record[s].status # "pending"
  BY <1>3 DEF Evaluate, Answer
<1>. QED
  BY <1>2, <1>3

\* A request that is answered without having been admitted changes nothing
\* that the invariant speaks of.
LEMMA AnsweredOutside ==
    ASSUME TypeOK, Bookkeeping, OneRunPerRecord, NEW r \in Requests,
           pc[r] \in {"new", "get", "create", "reget"}, pc' = [pc EXCEPT ![r] = "done"],
           UNCHANGED <<clock, record, call, admitted, outcome, matched, doomed>>
    PROVE  OneRunPerRecord'
<1>1. r \notin admitted
  BY DEF Bookkeeping, Inside
<1>. QED
  BY <1>1 DEF OneRunPerRecord, Punctual, RunnersHoldRecords, BlockersAreYoung, DoomedExpired,
     Expired, FinishedRunsStored, RecordsAreRuns, Runs, Inside, Working, Pending, TypeOK

LEMMA OneRunCreate ==
    ASSUME Timely, ~MayAbort, TypeOK, Bookkeeping, OneRunPerRecord,
           NEW r \in Requests, CreatePendingIfAbsent(r)
    PROVE  OneRunPerRecord'
<1>. DEFINE s == call[r].slot
<1>1. /\ pc[r] \in Working /\ pc[r] = "create" /\ r \notin admitted
      /\ UNCHANGED <<clock, call, outcome>>
  BY DEF CreatePendingIfAbsent, Working, Bookkeeping, Inside
<1>2. CASE record[s] # NoRecord
  <2>1. pc' = [pc EXCEPT ![r] = "reget"] /\ UNCHANGED <<record, admitted, matched, doomed>>
    BY <1>2 DEF CreatePendingIfAbsent, Goto
  <2>. QED
    BY <1>1, <1>2, <2>1 DEF OneRunPerRecord, Punctual, RunnersHoldRecords, BlockersAreYoung,
       DoomedExpired, Expired, FinishedRunsStored, RecordsAreRuns, Runs, Inside, Working, Pending, TypeOK
<1>3. CASE record[s] = NoRecord
  <2>1. /\ pc' = [pc EXCEPT ![r] = "handler"] /\ admitted' = admitted \cup {r}
        /\ record' = [record EXCEPT ![s] = Pending(r)]
    BY <1>3 DEF CreatePendingIfAbsent, Proceed, Goto
  <2>2. /\ s \in Slots /\ record'[s] = Pending(r) /\ Pending(r) # NoRecord
        /\ Pending(r).created = call[r].now /\ Pending(r).status = "pending"
    BY <1>1, <2>1, WorkingTypes DEF Pending, TypeOK
  <2>3. \A q \in Requests : ~Runs(q, s)
    BY <1>3, WorkingTypes DEF OneRunPerRecord, RunnersHoldRecords, Runs, Inside, Working
  <2>4. \A t \in Slots : t # s => record'[t] = record[t]
    BY <2>1 DEF TypeOK
  <2>5. \A q \in Requests : q # r => pc'[q] = pc[q]
    BY <2>1 DEF TypeOK
  <2>6. pc'[r] = "handler"
    BY <2>1 DEF TypeOK
  <2>7. Punctual' /\ DoomedExpired'
    <3>1. doomed' = doomed /\ matched' = matched
      BY DEF CreatePendingIfAbsent
    <3>2. \A t \in doomed : t \in Slots /\ t # s
      BY <1>3 DEF TypeOK
    <3>. QED
      BY <1>1, <2>4, <2>5, <2>6, <3>1, <3>2
         DEF OneRunPerRecord, Punctual, DoomedExpired, Expired, Working
  <2>8. RunnersHoldRecords'
    <3>1. ASSUME NEW q \in Requests, q # r, pc'[q] \in Inside
          PROVE  /\ call[q].slot \in Slots /\ call[q].slot # s
                 /\ record'[call[q].slot] = Pending(q)
                 /\ pc'[q] = "write" => q \in matched
                 /\ \A p \in Requests : Runs(p, call[q].slot)' => p = q
      <4>1. pc[q] \in Inside /\ pc[q] \in Working
        BY <2>5, <3>1 DEF Inside, Working
      <4>2. call[q].slot \in Slots /\ call[q].slot # s
        BY <2>3, <4>1, WorkingTypes DEF Runs, Inside
      <4>. QED
        BY <1>1, <2>4, <2>5, <4>1, <4>2 DEF OneRunPerRecord, RunnersHoldRecords, Runs, Inside
    <3>2. \A q \in Requests : Runs(q, s)' => q = r
      BY <1>1, <2>3, <2>5 DEF Runs, Inside
    <3>3. matched' = matched
      BY DEF CreatePendingIfAbsent
    <3>. QED
      BY <1>1, <2>2, <2>6, <3>1, <3>2, <3>3 DEF RunnersHoldRecords, Pending
  <2>9. BlockersAreYoung'
    <3>1. ASSUME NEW q \in Requests, pc'[q] \in {"create", "reget"}
          PROVE  /\ record'[call[q].slot] # NoRecord =>
                      record'[call[q].slot].created + Timeout >= call[q].now
                 /\ pc'[q] = "reget" => record'[call[q].slot] # NoRecord
      <4>1. q # r /\ pc[q] = pc'[q] /\ pc[q] \in Working
        BY <2>5, <2>6, <3>1 DEF Working
      <4>2. CASE call[q].slot = s
        <5>1. call[q].now <= clock /\ clock <= call[r].now + Timeout
          BY <1>1, <4>1, WorkingTypes DEF OneRunPerRecord, Punctual
        <5>. QED
          BY <1>1, <2>2, <4>1, <4>2, <5>1, WorkingTypes, TimeAssumption
      <4>3. CASE call[q].slot # s
        BY <2>4, <3>1, <4>1, <4>3, WorkingTypes DEF OneRunPerRecord, BlockersAreYoung
      <4>. QED
        BY <4>2, <4>3
    <3>. QED
      BY <1>1, <3>1 DEF BlockersAreYoung
  <2>10. FinishedRunsStored'
    <3>1. ASSUME NEW q \in admitted, pc'[q] = "done"
          PROVE  \/ clock > call[q].now + Retention
                 \/ /\ record'[call[q].slot] # NoRecord
                    /\ record'[call[q].slot].status # "pending"
                    /\ record'[call[q].slot].author = q
      <4>1. q \in Requests /\ pc[q] = "done" /\ call[q].slot \in Slots
        BY <1>1, <2>5, <3>1 DEF TypeOK, Call
      <4>. QED
        BY <1>3, <2>4, <4>1 DEF OneRunPerRecord, FinishedRunsStored
    <3>. QED
      BY <1>1, <2>1, <2>6, <3>1 DEF FinishedRunsStored
  <2>11. RecordsAreRuns'
    <3>1. Runs(r, s)'
      BY <1>1, <2>6 DEF Runs, Inside
    <3>2. ASSUME NEW t \in Slots, t # s, record'[t] # NoRecord
          PROVE  /\ record'[t].status = "pending" => \E q \in Requests : Runs(q, t)'
                 /\ record'[t].status # "pending" =>
                      \E q \in admitted' :
                         /\ record'[t].author = q
                         /\ pc'[q] = "done" /\ call[q].slot = t
                         /\ call[q].payload = record'[t].payload
                         /\ call[q].now = record'[t].created
      <4>1. record[t] # NoRecord /\ record'[t] = record[t]
        BY <2>4, <3>2
      <4>2. \A q \in Requests : Runs(q, t) => Runs(q, t)'
        BY <1>1, <2>5 DEF Runs, Inside
      <4>3. \A q \in admitted : q \in Requests /\ q # r
        BY <1>1 DEF TypeOK
      <4>. QED
        BY <2>1, <2>5, <4>1, <4>2, <4>3 DEF OneRunPerRecord, RecordsAreRuns
    <3>. QED
      BY <1>1, <2>2, <3>1, <3>2 DEF RecordsAreRuns
  <2>. QED
    BY <2>7, <2>8, <2>9, <2>10, <2>11 DEF OneRunPerRecord
<1>. QED
  BY <1>2, <1>3

LEMMA OneRunWrite ==
    ASSUME Timely, ~MayAbort, TypeOK, Bookkeeping, OneRunPerRecord,
           NEW r \in Requests, WriteRecord(r)
    PROVE  OneRunPerRecord'
<1>. DEFINE s == call[r].slot
<1>1. /\ pc[r] = "write" /\ pc[r] \in Working /\ pc[r] \in Inside /\ r \in admitted
      /\ r \in matched /\ matched' = matched \ {r}
      /\ UNCHANGED <<clock, call, admitted, outcome, doomed>>
  BY DEF WriteRecord, Working, Inside, Bookkeeping, OneRunPerRecord, RunnersHoldRecords
<1>2. /\ s \in Slots /\ record[s] = Pending(r) /\ Pending(r) # NoRecord
      /\ record[s].payload = call[r].payload /\ record[s].created = call[r].now
      /\ record[s] \in Record
  <2>1. record[s] = Pending(r)
    BY <1>1 DEF OneRunPerRecord, RunnersHoldRecords
  <2>. QED
    BY <1>1, <2>1, WorkingTypes DEF Pending
<1>3. /\ pc' = [pc EXCEPT ![r] = "done"]
      /\ \A t \in Slots : t # s => record'[t] = record[t]
      /\ record'[s] \in Record /\ record'[s] # NoRecord
      /\ record'[s].status # "pending" /\ record'[s].author = r
      /\ record'[s].payload = call[r].payload /\ record'[s].created = call[r].now
  BY <1>1, <1>2, WrittenRecord DEF WriteRecord, Answer
<1>4. \A q \in Requests : q # r => pc'[q] = pc[q] /\ ~Runs(q, s)
  BY <1>1, <1>3 DEF OneRunPerRecord, RunnersHoldRecords, TypeOK
<1>5. pc'[r] = "done"
  BY <1>3 DEF TypeOK
<1>6. Punctual' /\ DoomedExpired'
  <2>1. \A t \in doomed : t \in Slots /\ Expired(record[t])
    BY DEF OneRunPerRecord, DoomedExpired, TypeOK
  <2>2. \A t \in Slots : record'[t].created = record[t].created
    BY <1>2, <1>3
  <2>. QED
    BY <1>1, <1>4, <1>5, <2>1, <2>2
       DEF OneRunPerRecord, Punctual, DoomedExpired, Expired, Working
<1>7. RunnersHoldRecords'
  <2>1. ASSUME NEW q \in Requests, pc'[q] \in Inside
        PROVE  /\ record'[call[q].slot] = Pending(q)
               /\ pc'[q] = "write" => q \in matched'
               /\ \A p \in Requests : Runs(p, call[q].slot)' => p = q
    <3>1. q # r /\ pc[q] \in Inside /\ pc[q] \in Working /\ pc'[q] = pc[q]
      BY <1>4, <1>5, <2>1 DEF Inside, Working
    <3>2. call[q].slot \in Slots /\ call[q].slot # s
      BY <1>4, <3>1, WorkingTypes DEF Runs, Inside
    <3>3. \A p \in Requests : Runs(p, call[q].slot)' => Runs(p, call[q].slot)
      BY <1>1, <1>4, <1>5 DEF Runs, Inside
    <3>. QED
      BY <1>1, <1>3, <3>1, <3>2, <3>3 DEF OneRunPerRecord, RunnersHoldRecords
  <2>. QED
    BY <1>1, <2>1 DEF RunnersHoldRecords, Pending
<1>8. BlockersAreYoung'
  <2>1. ASSUME NEW q \in Requests, pc'[q] \in {"create", "reget"}
        PROVE  /\ record'[call[q].slot] # NoRecord =>
                    record'[call[q].slot].created + Timeout >= call[q].now
               /\ pc'[q] = "reget" => record'[call[q].slot] # NoRecord
    <3>1. pc'[q] = pc[q] /\ pc[q] \in Working
      BY <1>4, <1>5, <2>1 DEF Working
    <3>2. CASE call[q].slot = s
      BY <1>2, <1>3, <2>1, <3>1, <3>2 DEF OneRunPerRecord, BlockersAreYoung
    <3>3. CASE call[q].slot # s
      BY <1>3, <2>1, <3>1, <3>3, WorkingTypes DEF OneRunPerRecord, BlockersAreYoung
    <3>. QED
      BY <3>2, <3>3
  <2>. QED
    BY <1>1, <2>1 DEF BlockersAreYoung
<1>9. FinishedRunsStored'
  <2>1. ASSUME NEW q \in admitted, pc'[q] = "done"
        PROVE  \/ clock > call[q].now + Retention
               \/ /\ record'[call[q].slot] # NoRecord
                  /\ record'[call[q].slot].status # "pending"
                  /\ record'[call[q].slot].author = q
    <3>1. CASE q = r
      BY <1>3, <3>1
    <3>2. CASE q # r
      <4>1. q \in Requests /\ pc[q] = "done" /\ call[q].slot \in Slots
        BY <1>4, <2>1, <3>2 DEF TypeOK, Call
      <4>2. CASE call[q].slot = s
        BY <1>2, <4>1, <4>2 DEF OneRunPerRecord, FinishedRunsStored, Pending
      <4>3. CASE call[q].slot # s
        BY <1>3, <4>1, <4>3 DEF OneRunPerRecord, FinishedRunsStored
      <4>. QED
        BY <4>2, <4>3
    <3>. QED
      BY <3>1, <3>2
  <2>. QED
    BY <1>1, <2>1 DEF FinishedRunsStored
<1>10. RecordsAreRuns'
  <2>1. ASSUME NEW t \in Slots, t # s, record'[t] # NoRecord
        PROVE  /\ record'[t].status = "pending" => \E q \in Requests : Runs(q, t)'
               /\ record'[t].status # "pending" =>
                    \E q \in admitted :
                       /\ record'[t].author = q
                       /\ pc'[q] = "done" /\ call[q].slot = t
                       /\ call[q].payload = record'[t].payload
                       /\ call[q].now = record'[t].created
    <3>1. record[t] # NoRecord /\ record'[t] = record[t]
      BY <1>3, <2>1
    <3>2. \A q \in Requests : Runs(q, t) => Runs(q, t)'
      BY <1>1, <1>4, <2>1 DEF Runs, Inside
    <3>3. \A q \in admitted : pc[q] = "done" => pc'[q] = "done"
      BY <1>4, <1>5 DEF TypeOK
    <3>. QED
      BY <3>1, <3>2, <3>3 DEF OneRunPerRecord, RecordsAreRuns
  <2>. QED
    BY <1>1, <1>3, <1>5, <2>1 DEF RecordsAreRuns
<1>. QED
  BY <1>6, <1>7, <1>8, <1>9, <1>10 DEF OneRunPerRecord

LEMMA OneRunDelete ==
    ASSUME Timely, ~MayAbort, TypeOK, Bookkeeping, OneRunPerRecord,
           NEW S \in SUBSET doomed, DeleteCollected(S)
    PROVE  OneRunPerRecord'
<1>1. /\ UNCHANGED <<clock, pc, call, admitted>> /\ doomed' = doomed \ S
      /\ matched' = {q \in matched : call[q].slot \notin S}
  BY DEF DeleteCollected
<1>2. \A s \in Slots : \/ s \notin S /\ record'[s] = record[s]
                       \/ /\ record[s] # NoRecord /\ Expired(record[s])
                          /\ record'[s] = NoRecord
  BY DEF DeleteCollected, OneRunPerRecord, DoomedExpired, TypeOK
<1>3. ASSUME NEW r \in Requests, pc[r] \in Inside \cup {"create", "reget"}
      PROVE  call[r].slot \notin S /\ record'[call[r].slot] = record[call[r].slot]
  <2>1. pc[r] \in Working
    BY <1>3 DEF Inside, Working
  <2>2. clock <= call[r].now + Timeout /\ call[r].slot \in Slots /\ call[r].now \in Nat /\ clock \in Nat
    BY <2>1, WorkingTypes DEF OneRunPerRecord, Punctual
  <2>3. CASE record[call[r].slot] # NoRecord
    <3>1. record[call[r].slot].created \in Nat
      BY <2>2, <2>3, TimeAssumption DEF TypeOK, Record
    <3>2. record[call[r].slot].created + Timeout >= call[r].now
      <4>1. CASE pc[r] \in Inside
        <5>1. record[call[r].slot] = Pending(r)
          BY <4>1 DEF OneRunPerRecord, RunnersHoldRecords
        <5>2. record[call[r].slot].created = call[r].now
          BY <5>1 DEF Pending
        <5>. QED
          BY <2>2, <5>2, TimeAssumption
      <4>2. CASE pc[r] \in {"create", "reget"}
        BY <2>3, <4>2 DEF OneRunPerRecord, BlockersAreYoung
      <4>. QED
        BY <1>3, <4>1, <4>2
    <3>3. ~Expired(record[call[r].slot])
      BY <2>2, <3>1, <3>2, TimeAssumption DEF Expired
    <3>. QED
      BY <1>2, <2>2, <3>3
  <2>4. CASE record[call[r].slot] = NoRecord
    BY <1>2, <2>2, <2>4
  <2>. QED
    BY <2>3, <2>4
<1>4. Punctual' /\ DoomedExpired'
  <2>1. \A s \in doomed' : s \in Slots /\ s \in doomed /\ record'[s] = record[s]
    BY <1>1 DEF DeleteCollected, TypeOK
  <2>. QED
    BY <1>1, <2>1 DEF OneRunPerRecord, Punctual, DoomedExpired, Expired
<1>5. RunnersHoldRecords'
  BY <1>1, <1>3 DEF OneRunPerRecord, RunnersHoldRecords, Runs, Pending, Inside
<1>6. BlockersAreYoung'
  BY <1>1, <1>3 DEF OneRunPerRecord, BlockersAreYoung
<1>7. FinishedRunsStored'
  <2>1. ASSUME NEW r \in admitted, pc[r] = "done", ~(clock > call[r].now + Retention)
        PROVE  record'[call[r].slot] = record[call[r].slot]
    <3>1. call[r].slot \in Slots /\ call[r] \in Call
      BY DEF TypeOK, Call
    <3>2. record[call[r].slot] # NoRecord /\ record[call[r].slot].status # "pending"
          /\ record[call[r].slot].author = r
      BY <2>1 DEF OneRunPerRecord, FinishedRunsStored
    <3>3. record[call[r].slot].created = call[r].now
      BY <3>1, <3>2 DEF OneRunPerRecord, RecordsAreRuns
    <3>. QED
      BY <1>2, <2>1, <3>1, <3>3 DEF Expired
  <2>. QED
    BY <1>1, <2>1 DEF OneRunPerRecord, FinishedRunsStored
<1>8. RecordsAreRuns'
  BY <1>1, <1>2 DEF OneRunPerRecord, RecordsAreRuns, Runs, Inside
<1>. QED
  BY <1>4, <1>5, <1>6, <1>7, <1>8 DEF OneRunPerRecord

LEMMA OneRunStep ==
    ASSUME Timely, ~MayAbort, TypeOK, Bookkeeping, OneRunPerRecord, [Next]_vars
    PROVE  OneRunPerRecord'
<1>1. ASSUME NEW r \in Requests, PassThrough(r) \/ Refuse(r) PROVE OneRunPerRecord'
  BY <1>1, AnsweredOutside DEF PassThrough, Refuse, Answer
<1>2. ASSUME NEW r \in Requests, NEW s \in Slots, NEW p \in Payloads, Arrive(r, s, p)
      PROVE  OneRunPerRecord'
  <2>1. /\ r \notin admitted /\ pc' = [pc EXCEPT ![r] = "get"]
        /\ UNCHANGED <<clock, record, admitted, matched, doomed>>
        /\ call' = [call EXCEPT ![r] = [slot |-> s, payload |-> p, now |-> clock]]
    BY <1>2 DEF Arrive, Goto, Bookkeeping, Inside
  <2>2. \A q \in Requests : q # r => pc'[q] = pc[q] /\ call'[q] = call[q]
    BY <2>1 DEF TypeOK
  <2>3. pc[r] = "new" /\ pc'[r] = "get" /\ call'[r].now = clock
    BY <1>2, <2>1 DEF Arrive, TypeOK
  <2>4. Punctual' /\ DoomedExpired'
    BY <2>1, <2>2, <2>3, TimeAssumption
       DEF OneRunPerRecord, Punctual, DoomedExpired, Expired, TypeOK
  <2>5. \A q \in Requests, t \in Slots : Runs(q, t)' <=> Runs(q, t)
    BY <2>1, <2>2, <2>3 DEF Runs, Inside
  <2>6. RunnersHoldRecords'
    <3>1. ASSUME NEW q \in Requests, pc'[q] \in Inside
          PROVE  /\ q # r /\ pc[q] \in Inside /\ call'[q] = call[q]
                 /\ call[q].slot \in Slots /\ pc'[q] = pc[q]
      BY <2>2, <2>3, <3>1, WorkingTypes DEF Inside, Working
    <3>. QED
      BY <2>1, <2>5, <3>1 DEF OneRunPerRecord, RunnersHoldRecords, Pending
  <2>7. BlockersAreYoung'
    BY <2>1, <2>2, <2>3 DEF OneRunPerRecord, BlockersAreYoung
  <2>8. FinishedRunsStored'
    BY <2>1, <2>2 DEF OneRunPerRecord, FinishedRunsStored, TypeOK
  <2>9. RecordsAreRuns'
    <3>1. \A q \in admitted : pc'[q] = pc[q] /\ call'[q] = call[q]
      BY <2>1, <2>2 DEF TypeOK
    <3>. QED
      BY <2>1, <2>5, <3>1 DEF OneRunPerRecord, RecordsAreRuns
  <2>. QED
    BY <2>4, <2>6, <2>7, <2>8, <2>9 DEF OneRunPerRecord
<1>3. ASSUME NEW r \in Requests, GetRecord(r) PROVE OneRunPerRecord'
  <2>1. CASE record[call[r].slot] = NoRecord
    <3>1. /\ pc' = [pc EXCEPT ![r] = "create"] /\ pc[r] = "get"
          /\ UNCHANGED <<clock, record, call, admitted, matched, doomed>>
      BY <1>3, <2>1 DEF GetRecord, Goto
    <3>2. r \notin admitted
      BY <3>1 DEF Bookkeeping, Inside
    <3>. QED
      BY <2>1, <3>1, <3>2 DEF OneRunPerRecord, Punctual, RunnersHoldRecords, BlockersAreYoung,
         DoomedExpired, Expired, FinishedRunsStored, RecordsAreRuns, Runs, Inside, Working, Pending, TypeOK
  <2>2. CASE record[call[r].slot] # NoRecord
    BY <1>3, <2>2, NoTakeover, AnsweredOutside DEF GetRecord, Working
  <2>. QED
    BY <2>1, <2>2
<1>4. ASSUME NEW r \in Requests, CreatePendingIfAbsent(r) PROVE OneRunPerRecord'
  BY <1>4, OneRunCreate
<1>5. ASSUME NEW r \in Requests, GetRecordAgain(r) PROVE OneRunPerRecord'
  <2>1. record[call[r].slot] # NoRecord
    BY <1>5 DEF GetRecordAgain, OneRunPerRecord, BlockersAreYoung
  <2>. QED
    BY <1>5, <2>1, NoTakeover, AnsweredOutside DEF GetRecordAgain, Working
<1>6. ASSUME NEW r \in Requests, TakeOver(r) \/ Abort(r) PROVE FALSE
  BY <1>6 DEF TakeOver, Abort, OneRunPerRecord, Punctual
<1>7. ASSUME NEW r \in Requests, NEW result \in {"ok", "error"}, HandlerReturns(r, result)
      PROVE  OneRunPerRecord'
  <2>1. /\ pc' = [pc EXCEPT ![r] = "finalize"] /\ pc[r] = "handler"
        /\ UNCHANGED <<clock, record, call, admitted, matched, doomed>>
    BY <1>7 DEF HandlerReturns, Goto
  <2>. QED
    BY <2>1 DEF OneRunPerRecord, Punctual, RunnersHoldRecords, BlockersAreYoung,
       DoomedExpired, Expired, FinishedRunsStored, RecordsAreRuns, Runs, Inside, Working, Pending, TypeOK
<1>8. ASSUME NEW r \in Requests, MatchRecord(r) PROVE OneRunPerRecord'
  <2>1. /\ pc[r] = "finalize" /\ UNCHANGED <<clock, record, call, admitted, doomed>>
        /\ record[call[r].slot] # NoRecord /\ record[call[r].slot].payload = call[r].payload
    <3>1. pc[r] = "finalize" /\ pc[r] \in Working
      BY <1>8 DEF MatchRecord, Working
    <3>2. record[call[r].slot] = Pending(r)
      BY <3>1 DEF OneRunPerRecord, RunnersHoldRecords, Inside
    <3>3. UNCHANGED <<clock, record, call, admitted, doomed>>
      BY <1>8 DEF MatchRecord
    <3>. QED
      BY <3>1, <3>2, <3>3, WorkingTypes DEF Pending
  <2>2. pc' = [pc EXCEPT ![r] = "write"] /\ matched' = matched \cup {r}
    BY <1>8, <2>1 DEF MatchRecord, Match, Goto
  <2>. QED
    BY <2>1, <2>2 DEF OneRunPerRecord, Punctual, RunnersHoldRecords, BlockersAreYoung,
       DoomedExpired, Expired, FinishedRunsStored, RecordsAreRuns, Runs, Inside, Working,
       Pending, TypeOK
<1>9. CASE CollectExpired \/ \E S \in SUBSET doomed : DeleteCollected(S)
  <2>1. CASE CollectExpired
    <3>1. /\ UNCHANGED <<clock, record, pc, call, admitted, matched>>
          /\ \A s \in doomed' : s \in doomed \/ Expired(record[s])
      BY <2>1 DEF CollectExpired
    <3>. QED
      BY <3>1 DEF OneRunPerRecord, Punctual, RunnersHoldRecords, BlockersAreYoung,
         DoomedExpired, Expired, FinishedRunsStored, RecordsAreRuns, Runs, Inside, Pending
  <2>. QED
    BY <1>9, <2>1, OneRunDelete
<1>12. ASSUME NEW r \in Requests, WriteRecord(r) PROVE OneRunPerRecord'
  BY <1>12, OneRunWrite
<1>10. CASE TimePasses
  <2>1. clock' = clock + 1 /\ UNCHANGED <<record, pc, call, admitted, matched, doomed>>
    BY <1>10 DEF TimePasses
  <2>2. Punctual'
    BY <1>10, <2>1, WorkingTypes, TimeAssumption DEF TimePasses, OneRunPerRecord, Punctual
  <2>3. FinishedRunsStored'
    <3>1. \A r \in admitted : call[r].now \in Nat /\ clock \in Nat
      BY TimeAssumption DEF TypeOK, Call
    <3>. QED
      BY <2>1, <3>1, TimeAssumption DEF OneRunPerRecord, FinishedRunsStored
  <2>4. DoomedExpired'
    <3>1. \A s \in doomed : record[s].created \in Nat /\ clock \in Nat
      BY TimeAssumption DEF TypeOK, Record
    <3>. QED
      BY <2>1, <3>1, TimeAssumption DEF OneRunPerRecord, DoomedExpired, Expired
  <2>. QED
    BY <2>1, <2>2, <2>3, <2>4 DEF OneRunPerRecord, RunnersHoldRecords, BlockersAreYoung,
       RecordsAreRuns, Runs, Inside, Pending
<1>11. CASE UNCHANGED vars
  BY <1>11 DEF vars, OneRunPerRecord, Punctual, RunnersHoldRecords, BlockersAreYoung,
     DoomedExpired, Expired, FinishedRunsStored, RecordsAreRuns, Runs, Inside, Pending
<1>. QED
  BY <1>1, <1>2, <1>3, <1>4, <1>5, <1>6, <1>7, <1>8, <1>9, <1>10, <1>11, <1>12
  DEF Next, Dispatch

LEMMA OncePerRetentionStep ==
    ASSUME TypeOK, Bookkeeping, TimelyInv, OncePerRetention, [Next]_vars
    PROVE  OncePerRetention'
<1>1. SUFFICES ASSUME Timely, ~MayAbort,
                      NEW r \in admitted', NEW q \in admitted', r # q,
                      call'[r].slot = call'[q].slot
               PROVE  \/ call'[q].now + Timeout > call'[r].now + Retention
                      \/ call'[r].now + Timeout > call'[q].now + Retention
  BY DEF OncePerRetention, ApartByRetention
<1>2. OneRunPerRecord
  BY <1>1 DEF TimelyInv
<1>3. CASE r \in admitted /\ q \in admitted
  <2>1. call'[r] = call[r] /\ call'[q] = call[q]
    BY <1>3, AdmittedCalls
  <2>. QED
    BY <1>1, <1>3, <2>1 DEF OncePerRetention, ApartByRetention
<1>4. ASSUME NEW n \in Requests, CreatePendingIfAbsent(n), record[call[n].slot] = NoRecord,
             NEW p \in admitted, call[p].slot = call[n].slot
      PROVE  call[n].now + Timeout > call[p].now + Retention
  <2>1. pc[n] \in Working
    BY <1>4 DEF CreatePendingIfAbsent, Working
  <2>2. p \in Requests /\ pc[p] # "lost"
    BY <1>2 DEF TypeOK, OneRunPerRecord, Punctual
  <2>3. pc[p] \notin Inside
    <3>1. ASSUME pc[p] \in Inside PROVE FALSE
      <4>1. record[call[p].slot] = Pending(p) /\ pc[p] \in Working
        BY <1>2, <2>2, <3>1 DEF OneRunPerRecord, RunnersHoldRecords, Inside, Working
      <4>. QED
        BY <1>4, <2>2, <4>1, WorkingTypes
    <3>. QED
      BY <3>1
  <2>4. pc[p] = "done"
    BY <2>2, <2>3 DEF Bookkeeping
  <2>5. clock > call[p].now + Retention
    BY <1>2, <1>4, <2>4 DEF OneRunPerRecord, FinishedRunsStored
  <2>6. clock <= call[n].now + Timeout
    BY <1>2, <2>1 DEF OneRunPerRecord, Punctual
  <2>. QED
    BY <2>1, <2>5, <2>6, WorkingTypes, AdmittedCalls, TimeAssumption
<1>5. CASE r \notin admitted \/ q \notin admitted
  <2>1. PICK n \in Requests :
              CreatePendingIfAbsent(n) \/ GetRecordAgain(n) \/ TakeOver(n)
    BY <1>1, <1>5 DEF Next, Dispatch, PassThrough, Refuse, Arrive, GetRecord, HandlerReturns,
         MatchRecord, WriteRecord, Abort, CollectExpired, DeleteCollected, TimePasses, vars
  <2>2. admitted' # admitted
    BY <1>1, <1>5
  <2>3. CreatePendingIfAbsent(n) /\ record[call[n].slot] = NoRecord
    BY <1>2, <2>1, <2>2 DEF CreatePendingIfAbsent, GetRecordAgain, TakeOver,
         OneRunPerRecord, Punctual, BlockersAreYoung
  <2>4. admitted' = admitted \cup {n} /\ call' = call
    BY <2>3 DEF CreatePendingIfAbsent, Proceed
  <2>5. (r = n /\ q \in admitted) \/ (q = n /\ r \in admitted)
    BY <1>1, <1>5, <2>4
  <2>. QED
    BY <1>1, <1>4, <2>3, <2>4, <2>5
<1>. QED
  BY <1>3, <1>5

\* Timely, unbroken requests run once under one key until the record of the
\* run expires: OncePerRetention (preflight, finalize, DELETE_EXPIRED).
THEOREM OnceUntilExpiry == Spec => []OncePerRetention
<1>1. Init => Bookkeeping /\ TimelyInv /\ OncePerRetention
  BY TimeAssumption
  DEF Init, Bookkeeping, TimelyInv, OneRunPerRecord, Punctual, RunnersHoldRecords,
      BlockersAreYoung, DoomedExpired, FinishedRunsStored, RecordsAreRuns, OncePerRetention, NoReply,
      Inside, Working
<1>2. TypeOK /\ Bookkeeping /\ TimelyInv /\ OncePerRetention /\ [Next]_vars
        => Bookkeeping' /\ TimelyInv' /\ OncePerRetention'
  BY BookkeepingStep, OneRunStep, OncePerRetentionStep DEF TimelyInv
<1>. QED
  BY <1>1, <1>2, TypeCorrect, PTL DEF Spec

-----------------------------------------------------------------------------
(* Timely, unbroken requests implement the contract.                       *)

\* Nobody is answered before the end, and a key is read before anything else.
Silent ==
    \A r \in Requests :
        /\ pc[r] = "new" => call[r] = NoCall
        /\ pc[r] # "done" => reply[r] = NoReply

\* While a slot is being run, the record and the ledger name the runner.
HoldersRun ==
    \A r \in Requests, s \in Slots :
        Runs(r, s) => record[s] = Pending(r) /\ Holder(s) = r

LEMMA SilentStep ==
    ASSUME TypeOK, Silent, [Next]_vars
    PROVE  Silent'
<1>1. ASSUME NEW r \in Requests, RequestStep(r) PROVE Silent'
  <2>1. \A q \in Requests : q # r => pc'[q] = pc[q] /\ call'[q] = call[q] /\ reply'[q] = reply[q]
    BY <1>1 DEF RequestStep, PassThrough, Refuse, Arrive, Dispatch, GetRecord, Evaluate,
         CreatePendingIfAbsent, GetRecordAgain, TakeOver, HandlerReturns, MatchRecord, Match, WriteRecord, Abort,
         Answer, Proceed, Goto, TypeOK
  <2>2. pc'[r] # "new" /\ (pc'[r] # "done" => pc[r] # "done" /\ reply' = reply)
    BY <1>1 DEF RequestStep, PassThrough, Refuse, Arrive, Dispatch, GetRecord, Evaluate,
         CreatePendingIfAbsent, GetRecordAgain, TakeOver, HandlerReturns, MatchRecord, Match, WriteRecord, Abort,
         Answer, Proceed, Goto, TypeOK, Working
  <2>. QED
    BY <2>1, <2>2 DEF Silent
<1>2. CASE CollectExpired \/ (\E S \in SUBSET doomed : DeleteCollected(S)) \/ TimePasses \/ UNCHANGED vars
  BY <1>2 DEF CollectExpired, DeleteCollected, TimePasses, vars, Silent
<1>. QED
  BY <1>1, <1>2 DEF Next, RequestStep

LEMMA RunnersHold ==
    ASSUME OneRunPerRecord
    PROVE  HoldersRun
<1>. SUFFICES ASSUME NEW r \in Requests, NEW s \in Slots, Runs(r, s)
              PROVE  record[s] = Pending(r) /\ Holder(s) = r
  BY DEF HoldersRun
<1>1. record[s] = Pending(r) /\ \A q \in Requests : Runs(q, s) => q = r
  BY DEF OneRunPerRecord, RunnersHoldRecords, Runs, Inside
<1>2. (CHOOSE q \in Requests : Runs(q, s)) = r
  BY <1>1
<1>. QED
  BY <1>1, <1>2 DEF Holder, Pending

\* What a slot shows while it is run,
LEMMA RunningEntry ==
    ASSUME HoldersRun, NEW r \in Requests, NEW s \in Slots, Runs(r, s), record[s] # NoRecord
    PROVE  ledger[s] = [payload |-> call[r].payload, by |-> r, finished |-> FALSE]
<1>1. record[s] = Pending(r) /\ Holder(s) = r
  BY DEF HoldersRun
<1>2. record[s].payload = call[r].payload /\ record[s].status = "pending"
  BY <1>1 DEF Pending
<1>. QED
  BY <1>1, <1>2 DEF ledger

\* and that it goes on showing what it has.
LEMMA EntryKept ==
    ASSUME OneRunPerRecord, HoldersRun, HoldersRun', NEW s \in Slots, record'[s] = record[s],
           \A r \in Requests : Runs(r, s) => Runs(r, s)'
    PROVE  ledger'[s] = ledger[s]
<1>1. CASE record[s] = NoRecord
  BY <1>1 DEF ledger
<1>2. CASE record[s] # NoRecord /\ record[s].status = "pending"
  <2>1. PICK r \in Requests : Runs(r, s)
    BY <1>2 DEF OneRunPerRecord, RecordsAreRuns
  <2>2. Runs(r, s)'
    BY <2>1
  <2>3. Holder(s) = r /\ Holder(s)' = r
    BY <2>1, <2>2 DEF HoldersRun
  <2>. QED
    BY <1>2, <2>3 DEF ledger
<1>3. CASE record[s] # NoRecord /\ record[s].status # "pending"
  <2>1. Holder(s)' = Holder(s)
    BY <1>3 DEF Holder
  <2>. QED
    BY <1>3, <2>1 DEF ledger
<1>. QED
  BY <1>1, <1>2, <1>3

LEMMA LedgerKept ==
    ASSUME OneRunPerRecord, HoldersRun, HoldersRun', UNCHANGED record,
           \A r \in Requests, s \in Slots : Runs(r, s) => Runs(r, s)'
    PROVE  UNCHANGED ledger
<1>1. \A s \in Slots : ledger'[s] = ledger[s]
  BY EntryKept
<1>. QED
  BY <1>1 DEF ledger

\* What is stored is an entry of the ledger, never the mark of a free slot.
LEMMA EntryIsNotFree ==
    ASSUME TypeOK, OneRunPerRecord, HoldersRun, NEW s \in Slots, record[s] # NoRecord
    PROVE  ledger[s] # NoRecord
<1>1. record[s].payload \in Payloads
  BY DEF TypeOK, Record
<1>2. Holder(s) \in Requests
  <2>1. CASE record[s].status = "pending"
    BY <2>1 DEF OneRunPerRecord, RecordsAreRuns, HoldersRun
  <2>2. CASE record[s].status # "pending"
    BY <2>2 DEF OneRunPerRecord, RecordsAreRuns, Holder, TypeOK
  <2>. QED
    BY <2>1, <2>2
<1>. DEFINE e == [payload |-> record[s].payload, by |-> Holder(s),
                  finished |-> record[s].status # "pending"]
<1>3. e \in [payload : Payloads, by : Requests, finished : BOOLEAN]
  BY <1>1, <1>2
<1>4. ledger[s] = e
  BY DEF ledger
<1>. HIDE DEF e
<1>. QED
  BY <1>3, <1>4, NullAssumption

LEMMA QuestionOf ==
    ASSUME TypeOK, NEW r \in Requests, call[r] # NoCall
    PROVE  question[r] = [slot |-> call[r].slot, payload |-> call[r].payload]
           /\ question[r] # NoCall
<1>1. call[r].slot \in Slots /\ call[r].payload \in Payloads
  BY DEF TypeOK, Call
<1>. QED
  BY <1>1, NullAssumption DEF question

\* An answer of preflight is the contract's answer from the run of the slot.
LEMMA EvaluateAnswersFrom ==
    ASSUME TypeOK, Bookkeeping, Silent, OneRunPerRecord, HoldersRun,
           NEW r \in Requests, pc[r] \in Working, record[call[r].slot] # NoRecord,
           Evaluate(r, record[call[r].slot]), UNCHANGED <<question, ledger>>
    PROVE  Contract!AnswerFrom(r)
<1>. DEFINE s == call[r].slot
<1>1. /\ call[r] # NoCall /\ s \in Slots /\ question[r] # NoCall
      /\ question[r].slot = s /\ question[r].payload = call[r].payload
  <2>1. call[r] # NoCall /\ s \in Slots
    BY WorkingTypes DEF TypeOK
  <2>2. question[r] = [slot |-> call[r].slot, payload |-> call[r].payload] /\ question[r] # NoCall
    BY <2>1, QuestionOf
  <2>. QED
    BY <2>1, <2>2
<1>2. ledger[s] # NoRecord
  BY <1>1, EntryIsNotFree
<1>3. /\ ledger[s].payload = record[s].payload
      /\ ledger[s].finished = (record[s].status # "pending")
      /\ record[s].status # "pending" => ledger[s].by = record[s].author
  BY <1>1 DEF ledger, Holder
<1>4. reply[r] = NoReply /\ NoReply = Contract!NoReply
  BY DEF Silent, Working, NoReply, Contract!NoReply
<1>5. pc'[r] # "takeover"
  BY NoTakeover DEF TypeOK
<1>6. \/ /\ record[s].payload # call[r].payload
         /\ Answer(r, "conflict", Nobody)
      \/ /\ record[s].payload = call[r].payload /\ record[s].status # "pending"
         /\ Answer(r, "replay", record[s].author)
      \/ /\ record[s].payload = call[r].payload /\ record[s].status = "pending"
         /\ Answer(r, "in_flight", Nobody)
  BY <1>5 DEF Evaluate, Goto, TypeOK
<1>7. ASSUME NEW kind, NEW from, Answer(r, kind, from) PROVE Contract!Answer(r, kind, from)
  BY <1>4, <1>7 DEF Answer, Contract!Answer
<1>. QED
  BY <1>1, <1>2, <1>3, <1>6, <1>7 DEF Contract!AnswerFrom

LEMMA ContractStep ==
    ASSUME Timely, ~MayAbort, TypeOK, TypeOK', Bookkeeping, Silent, OneRunPerRecord,
           HoldersRun, HoldersRun', [Next]_vars
    PROVE  Contract!Next \/ UNCHANGED <<question, ledger, reply>>
<1>1. ASSUME NEW r \in Requests, PassThrough(r) \/ Refuse(r) PROVE Contract!WithoutKey(r)
  <2>1. /\ pc[r] = "new" /\ call[r] = NoCall /\ reply[r] = NoReply
        /\ UNCHANGED <<record, call>>
        /\ \A q \in Requests, s \in Slots : Runs(q, s) => Runs(q, s)'
    BY <1>1 DEF PassThrough, Refuse, Answer, Silent, Runs, Inside, TypeOK
  <2>2. question[r] = NoCall /\ UNCHANGED question
    BY <2>1 DEF question
  <2>3. UNCHANGED ledger
    BY <2>1, LedgerKept
  <2>4. Contract!Answer(r, "fresh", r) \/ Contract!Answer(r, "refused", Nobody)
    BY <1>1, <2>1 DEF PassThrough, Refuse, Answer, NoReply, Contract!Answer, Contract!NoReply
  <2>. QED
    BY <2>2, <2>3, <2>4 DEF Contract!WithoutKey
<1>2. ASSUME NEW r \in Requests, NEW s \in Slots, NEW p \in Payloads, Arrive(r, s, p)
      PROVE  \E q \in Contract!Question : Contract!Ask(r, q)
  <2>. DEFINE q == [slot |-> s, payload |-> p]
              k == [slot |-> s, payload |-> p, now |-> clock]
  <2>1. /\ pc[r] = "new" /\ call[r] = NoCall /\ reply[r] = NoReply
        /\ UNCHANGED <<record, reply>> /\ call' = [call EXCEPT ![r] = k]
        /\ \A x \in Requests, t \in Slots : Runs(x, t) => Runs(x, t)'
    BY <1>2 DEF Arrive, Goto, Silent, Runs, Inside, TypeOK
  <2>2. k # NoCall /\ k.slot = s /\ k.payload = p
    BY NullAssumption DEF TypeOK
  <2>3. question[r] = NoCall /\ question' = [question EXCEPT ![r] = q]
    <3>1. \A x \in Requests : x # r => question'[x] = question[x]
      BY <2>1 DEF question, TypeOK
    <3>2. question'[r] = q /\ question[r] = NoCall
      BY <2>1, <2>2 DEF question, TypeOK
    <3>. QED
      BY <3>1, <3>2 DEF question
  <2>4. UNCHANGED ledger
    BY <2>1, LedgerKept
  <2>5. q \in Contract!Question /\ reply[r] = Contract!NoReply
    BY <2>1 DEF Contract!Question, Contract!NoReply, NoReply
  <2>. HIDE DEF q, k
  <2>6. Contract!Ask(r, q)
    BY <2>1, <2>3, <2>4, <2>5 DEF Contract!Ask
  <2>. QED
    BY <2>5, <2>6
\* Steps of a request that touch no record.
<1>3. ASSUME NEW r \in Requests, pc[r] \in {"get", "create", "reget"},
             UNCHANGED <<record, call>>, \A q \in Requests : q # r => pc'[q] = pc[q]
      PROVE  UNCHANGED <<question, ledger>>
  <2>1. \A q \in Requests, s \in Slots : Runs(q, s) => Runs(q, s)'
    BY <1>3 DEF Runs, Inside
  <2>2. UNCHANGED ledger
    BY <1>3, <2>1, LedgerKept
  <2>. QED
    BY <1>3, <2>2 DEF question
<1>4. ASSUME NEW r \in Requests, GetRecord(r)
      PROVE  Contract!AnswerFrom(r) \/ UNCHANGED <<question, ledger, reply>>
  <2>1. /\ pc[r] = "get" /\ pc[r] \in Working /\ UNCHANGED <<record, call>>
        /\ \A q \in Requests : q # r => pc'[q] = pc[q]
    BY <1>4 DEF GetRecord, Evaluate, Answer, Goto, Working, TypeOK
  <2>2. UNCHANGED <<question, ledger>>
    BY <1>3, <2>1
  <2>3. CASE record[call[r].slot] = NoRecord
    BY <1>4, <2>2, <2>3 DEF GetRecord, Goto
  <2>4. CASE record[call[r].slot] # NoRecord
    BY <1>4, <2>1, <2>2, <2>4, EvaluateAnswersFrom DEF GetRecord
  <2>. QED
    BY <2>3, <2>4
<1>5. ASSUME NEW r \in Requests, GetRecordAgain(r) PROVE Contract!AnswerFrom(r)
  <2>1. /\ pc[r] = "reget" /\ pc[r] \in Working /\ record[call[r].slot] # NoRecord
    BY <1>5 DEF GetRecordAgain, Working, OneRunPerRecord, BlockersAreYoung
  <2>2. /\ UNCHANGED <<record, call>> /\ \A q \in Requests : q # r => pc'[q] = pc[q]
        /\ Evaluate(r, record[call[r].slot])
    BY <1>5, <2>1 DEF GetRecordAgain, Evaluate, Answer, Goto, TypeOK
  <2>3. UNCHANGED <<question, ledger>>
    BY <1>3, <2>1, <2>2
  <2>. QED
    BY <2>1, <2>2, <2>3, EvaluateAnswersFrom
<1>6. ASSUME NEW r \in Requests, CreatePendingIfAbsent(r)
      PROVE  Contract!Begin(r) \/ UNCHANGED <<question, ledger, reply>>
  <2>. DEFINE s == call[r].slot
  <2>1. /\ pc[r] = "create" /\ pc[r] \in Working /\ s \in Slots /\ call[r] # NoCall
        /\ UNCHANGED <<call, reply>> /\ reply[r] = NoReply /\ Pending(r) # NoRecord
        /\ \A q \in Requests : q # r => pc'[q] = pc[q]
    BY <1>6, WorkingTypes
       DEF CreatePendingIfAbsent, Proceed, Goto, Silent, Working, TypeOK
  <2>2. CASE record[s] # NoRecord
    BY <1>3, <1>6, <2>1, <2>2 DEF CreatePendingIfAbsent
  <2>3. CASE record[s] = NoRecord
    <3>1. record' = [record EXCEPT ![s] = Pending(r)] /\ pc'[r] = "handler"
      BY <1>6, <2>3 DEF CreatePendingIfAbsent, Proceed, Goto, TypeOK
    <3>2. \A q \in Requests, t \in Slots : Runs(q, t) => Runs(q, t)'
      BY <2>1 DEF Runs, Inside
    <3>3. \A t \in Slots : t # s => ledger'[t] = ledger[t]
      BY <3>1, <3>2, EntryKept DEF TypeOK
    <3>4. ledger[s] = NoRecord
      BY <2>1, <2>3 DEF ledger
    <3>5. ledger'[s] = [payload |-> call[r].payload, by |-> r, finished |-> FALSE]
      <4>1. Runs(r, s)' /\ record'[s] = Pending(r)
        BY <2>1, <3>1 DEF Runs, Inside, TypeOK
      <4>2. Holder(s)' = r
        BY <2>1, <4>1 DEF HoldersRun
      <4>3. record'[s].payload = call[r].payload /\ record'[s].status = "pending"
        BY <4>1 DEF Pending
      <4>. QED
        BY <2>1, <4>1, <4>2, <4>3 DEF ledger
    <3>6. question[r].slot = s /\ question[r].payload = call[r].payload
          /\ question[r] # NoCall /\ UNCHANGED question
      BY <2>1, QuestionOf DEF question
    <3>7. ledger' = [ledger EXCEPT ![s] = [payload  |-> question[r].payload,
                                           by       |-> r,
                                           finished |-> FALSE]]
      BY <2>1, <3>3, <3>5, <3>6 DEF ledger
    <3>. QED
      BY <2>1, <3>4, <3>6, <3>7 DEF Contract!Begin, Contract!NoReply, NoReply
  <2>. QED
    BY <2>2, <2>3
<1>7. ASSUME NEW r \in Requests, NEW result \in {"ok", "error"}, HandlerReturns(r, result)
      PROVE  UNCHANGED <<question, ledger, reply>>
  <2>1. UNCHANGED <<record, call, reply>>
        /\ \A q \in Requests, s \in Slots : Runs(q, s) => Runs(q, s)'
    BY <1>7 DEF HandlerReturns, Goto, Runs, Inside, TypeOK
  <2>. QED
    BY <2>1, LedgerKept DEF question
<1>8. ASSUME NEW r \in Requests, WriteRecord(r) PROVE \E s \in Slots : Contract!Finish(r, s)
  <2>. DEFINE s == call[r].slot
              status == IF outcome[r] = "error" THEN "failed_terminal" ELSE "completed"
  <2>1. /\ pc[r] = "write" /\ pc[r] \in Working /\ s \in Slots /\ Runs(r, s)
        /\ r \in matched
        /\ record[s] = Pending(r) /\ record[s] # NoRecord /\ reply[r] = NoReply
    BY <1>8, WorkingTypes
       DEF WriteRecord, Working, Silent, Runs, OneRunPerRecord, RunnersHoldRecords, Inside
  <2>2. /\ record' = [record EXCEPT ![s].status = status, ![s].author = r]
        /\ Answer(r, "fresh", r) /\ UNCHANGED call
    BY <1>8, <2>1 DEF WriteRecord
  <2>3. ledger[s] = [payload |-> call[r].payload, by |-> r, finished |-> FALSE]
    BY <2>1, RunningEntry
  <2>4. ledger'[s] = [payload |-> call[r].payload, by |-> r, finished |-> TRUE]
    <3>1. /\ record'[s].payload = call[r].payload /\ record'[s].status # "pending"
          /\ record'[s].author = r /\ record'[s] # NoRecord
      <4>1. record'[s] = [Pending(r) EXCEPT !.status = status, !.author = r]
        BY <2>1, <2>2 DEF TypeOK
      <4>2. Pending(r) \in Record /\ status \in {"failed_terminal", "completed"}
        BY <2>1, WorkingTypes
      <4>. HIDE DEF status
      <4>3. record'[s] \in Record /\ record'[s].payload = Pending(r).payload
            /\ record'[s].status = status /\ record'[s].author = r
        BY <4>1, <4>2 DEF Record
      <4>. QED
        BY <4>2, <4>3, NullAssumption DEF Pending, Record
    <3>. QED
      BY <2>1, <3>1 DEF ledger, Holder
  <2>5. \A t \in Slots : t # s => ledger'[t] = ledger[t]
    <3>. SUFFICES ASSUME NEW t \in Slots, t # s PROVE ledger'[t] = ledger[t]
      OBVIOUS
    <3>1. record'[t] = record[t]
      BY <2>2 DEF TypeOK
    <3>2. \A q \in Requests : Runs(q, t) => Runs(q, t)'
      BY <2>2 DEF Runs, Inside, Answer, TypeOK
    <3>. QED
      BY <3>1, <3>2, EntryKept
  <2>6. ledger' = [ledger EXCEPT ![s].finished = TRUE]
    <3>1. ledger = [t \in Slots |-> ledger[t]] /\ ledger' = [t \in Slots |-> ledger'[t]]
      BY DEF ledger
    <3>2. PICK f, g, t, p : f = ledger /\ g = ledger' /\ t = s /\ p = call[r].payload
      OBVIOUS
    <3>3. /\ t \in Slots /\ f = [x \in Slots |-> f[x]] /\ g = [x \in Slots |-> g[x]]
          /\ \A x \in Slots : x # t => g[x] = f[x]
      BY <2>1, <2>5, <3>1, <3>2
    <3>4. /\ f[t] = [payload |-> p, by |-> r, finished |-> FALSE]
          /\ g[t] = [payload |-> p, by |-> r, finished |-> TRUE]
      BY <2>3, <2>4, <3>2
    <3>5. g = [f EXCEPT ![t].finished = TRUE]
      <4>1. p \in Payloads
        BY <2>1, <3>2, WorkingTypes
      <4>2. g[t] = [f[t] EXCEPT !.finished = TRUE]
        <5>1. /\ f[t] \in Contract!Entry /\ g[t] \in Contract!Entry
              /\ g[t].payload = f[t].payload /\ g[t].by = f[t].by /\ g[t].finished = TRUE
          BY <3>4, <4>1 DEF Contract!Entry
        <5>. QED
          BY <5>1 DEF Contract!Entry
      <4>. QED
        BY <3>3, <4>2
    <3>. QED
      BY <3>2, <3>5
  <2>7. ledger[s] # NoRecord /\ ledger[s].by = r /\ ~ledger[s].finished
    <3>1. ledger[s] # NoRecord
      BY <2>1, EntryIsNotFree
    <3>. QED
      BY <2>3, <3>1
  <2>8. Contract!Answer(r, "fresh", r) /\ UNCHANGED question
    BY <2>1, <2>2 DEF Answer, NoReply, Contract!Answer, Contract!NoReply, question
  <2>. QED
    BY <2>1, <2>6, <2>7, <2>8 DEF Contract!Finish
<1>12. ASSUME NEW r \in Requests, MatchRecord(r) PROVE UNCHANGED <<question, ledger, reply>>
  <2>1. /\ pc[r] = "finalize" /\ record[call[r].slot] = Pending(r) /\ pc[r] \in Working
        /\ UNCHANGED <<record, call>>
    BY <1>12 DEF MatchRecord, OneRunPerRecord, RunnersHoldRecords, Inside, Working
  <2>2. record[call[r].slot] # NoRecord /\ record[call[r].slot].payload = call[r].payload
    BY <2>1, WorkingTypes DEF Pending
  <2>3. pc' = [pc EXCEPT ![r] = "write"] /\ reply' = reply
    BY <1>12, <2>2 DEF MatchRecord, Match, Goto
  <2>4. \A q \in Requests, s \in Slots : Runs(q, s) => Runs(q, s)'
    BY <2>1, <2>3 DEF Runs, Inside, TypeOK
  <2>. QED
    BY <2>1, <2>3, <2>4, LedgerKept DEF question
<1>9. ASSUME NEW S \in SUBSET doomed, DeleteCollected(S) PROVE Contract!Forget(S)
  <2>1. /\ UNCHANGED <<pc, call, reply>>
        /\ \A s \in Slots : record'[s] = IF s \in S THEN NoRecord ELSE record[s]
        /\ \A s \in S : s \in Slots /\ record[s] # NoRecord /\ Expired(record[s])
    BY <1>9 DEF DeleteCollected, OneRunPerRecord, DoomedExpired, TypeOK
\* The record of a run in progress is too young to expire.
  <2>2. \A s \in S : record[s].status # "pending"
    <3>. SUFFICES ASSUME NEW s \in S, record[s].status = "pending" PROVE FALSE
      OBVIOUS
    <3>1. PICK r \in Requests : Runs(r, s)
      BY <2>1 DEF OneRunPerRecord, RecordsAreRuns
    <3>2. pc[r] \in Working /\ record[s].created = call[r].now
      <4>1. record[s] = Pending(r) /\ pc[r] \in Working
        BY <2>1, <3>1 DEF HoldersRun, Runs, Inside, Working
      <4>. QED
        BY <4>1 DEF Pending
    <3>3. clock <= call[r].now + Timeout
      BY <3>2 DEF OneRunPerRecord, Punctual
    <3>4. call[r].now + Retention < clock
      BY <2>1, <3>2 DEF Expired
    <3>5. call[r].now \in Nat /\ clock \in Nat
      BY <3>2, WorkingTypes
    <3>. QED
      <4>. DEFINE a == call[r].now
      <4>1. a \in Nat /\ clock \in Nat /\ clock <= a + Timeout /\ a + Retention < clock
        BY <3>3, <3>4, <3>5
      <4>. HIDE DEF a
      <4>. QED
        BY <4>1, TimeAssumption, SMT
  <2>3. \A s \in S : ledger[s] # NoRecord /\ ledger[s].finished
    BY <2>1, <2>2, EntryIsNotFree DEF ledger
  <2>4. \A s \in Slots : ledger'[s] = IF s \in S THEN NoRecord ELSE ledger[s]
    <3>. SUFFICES ASSUME NEW s \in Slots
                  PROVE  ledger'[s] = IF s \in S THEN NoRecord ELSE ledger[s]
      OBVIOUS
    <3>1. CASE s \in S
      BY <2>1, <3>1 DEF ledger
    <3>2. CASE s \notin S
      <4>1. \A r \in Requests : Runs(r, s) => Runs(r, s)'
        BY <2>1 DEF Runs, Inside
      <4>. QED
        BY <2>1, <3>2, <4>1, EntryKept
    <3>. QED
      BY <3>1, <3>2
  <2>5. ledger' = [s \in Slots |-> IF s \in S THEN NoRecord ELSE ledger[s]]
    BY <2>4 DEF ledger
  <2>. QED
    BY <2>1, <2>3, <2>5 DEF Contract!Forget, question
<1>10. CASE TimePasses \/ CollectExpired \/ UNCHANGED vars
  <2>1. UNCHANGED <<record, call, reply>>
        /\ \A q \in Requests, s \in Slots : Runs(q, s) => Runs(q, s)'
    BY <1>10 DEF TimePasses, CollectExpired, vars, Runs, Inside
  <2>. QED
    BY <2>1, LedgerKept DEF question
<1>11. \A r \in Requests : ~TakeOver(r) /\ ~Abort(r)
  BY DEF TakeOver, Abort, OneRunPerRecord, Punctual
<1>. QED
  <2>1. \A S \in SUBSET doomed : S \in SUBSET Slots
    BY DEF TypeOK
  <2>. QED
    BY <1>1, <1>2, <1>4, <1>5, <1>6, <1>7, <1>8, <1>9, <1>10, <1>11, <1>12, <2>1
       DEF Next, Dispatch, Contract!Next

\* KeepsContract: with timely and unbroken requests the gate implements the
\* table of answers of docs/API.md (preflight, evaluate_existing_record,
\* finalize, DELETE_EXPIRED).
THEOREM TimelyGateKeepsContract ==
    ASSUME Timely, ~MayAbort PROVE Spec => KeepsContract
<1>1. Init => Bookkeeping /\ Silent /\ OneRunPerRecord
  BY TimeAssumption
  DEF Init, Bookkeeping, Silent, OneRunPerRecord, Punctual, RunnersHoldRecords,
      BlockersAreYoung, DoomedExpired, FinishedRunsStored, RecordsAreRuns, NoReply, Inside, Working
<1>2. TypeOK /\ Bookkeeping /\ Silent /\ OneRunPerRecord /\ [Next]_vars
        => Bookkeeping' /\ Silent' /\ OneRunPerRecord'
  BY BookkeepingStep, SilentStep, OneRunStep
<1>3. OneRunPerRecord => HoldersRun
  BY RunnersHold
<1>4. Init => Contract!Init
  <2>. SUFFICES ASSUME Init PROVE Contract!Init
    OBVIOUS
  <2>1. question = [r \in Requests |-> NoCall] /\ ledger = [s \in Slots |-> NoRecord]
    BY DEF Init, question, ledger
  <2>2. reply = [r \in Requests |-> Contract!NoReply]
    BY DEF Init, NoReply, Contract!NoReply
  <2>. QED
    BY <2>1, <2>2 DEF Contract!Init
<1>5. TypeOK /\ TypeOK' /\ Bookkeeping /\ Silent /\ OneRunPerRecord /\ HoldersRun
        /\ HoldersRun' /\ [Next]_vars
        => [Contract!Next]_<<question, ledger, reply>>
  BY ContractStep
<1>. QED
  BY <1>1, <1>2, <1>3, <1>4, <1>5, TypeCorrect, PTL DEF Spec, KeepsContract, Contract!Spec

=============================================================================
