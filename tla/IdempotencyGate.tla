-------------------------- MODULE IdempotencyGate --------------------------
(***************************************************************************)
(* The idempotency gate in front of every mutating route.                  *)
(*                                                                         *)
(* ApiKeyMiddleware.dispatch (auth/middleware.py) asks                     *)
(* IdempotencyService.preflight (engines/idempotency) whether a request    *)
(* may run, runs the handler, and stores the handler's response with       *)
(* IdempotencyService.finalize.  The store is Neo4j; every store call is   *)
(* a transaction of its own, so requests interleave between any two of     *)
(* them.  A request is one HTTP call: a client's retry is another request  *)
(* that carries the same key and the same payload.                         *)
(*                                                                         *)
(* Transactions read what is committed and lock a node when they change    *)
(* it: a query that selects nodes by their properties and then changes     *)
(* them (MARK_COMPLETE, DELETE_EXPIRED) is two steps, and the second tests *)
(* nothing again.  MERGE of a record is one step, for the key and scope    *)
(* of a record are under a uniqueness constraint.  A call that takes       *)
(* effect and then raises is the call followed by Abort.                   *)
(*                                                                         *)
(* A slot is a pair (idempotency key, METHOD:path).  A response is named   *)
(* by the request whose handler produced it.                               *)
(***************************************************************************)
EXTENDS Integers, FiniteSets

CONSTANTS
    Requests,      \* the HTTP calls of a behaviour
    Slots,         \* pairs (idempotency key, resource scope)
    Payloads,      \* what request_hash tells apart in one scope: query and body
    NoRecord,      \* get_record returned None
    NoCall,        \* a request that carries no key has no call
    Nobody,        \* no request: a record without a stored response
    Timeout,       \* IDEMPOTENCY_PENDING_TIMEOUT_SECONDS
    Retention,     \* IDEMPOTENCY_RETENTION_HOURS, in the unit of Timeout
    MaxTime,       \* bound on the wall clock
    Timely,        \* TRUE: no request outlives its pending timeout
    MayAbort       \* TRUE: handlers raise, store calls fail, workers die

ASSUME TimeAssumption ==
    /\ Timeout \in Nat \ {0} /\ MaxTime \in Nat
    /\ Retention \in Nat /\ Retention >= 2 * Timeout

ASSUME ModeAssumption == Timely \in BOOLEAN /\ MayAbort \in BOOLEAN

ASSUME NullAssumption ==
    /\ Nobody \notin Requests
    /\ NoRecord \notin [payload : Payloads,
                        status  : {"pending", "completed", "failed_terminal"},
                        author  : Requests \cup {Nobody},
                        created : 0..MaxTime]
    /\ NoRecord \notin [payload : Payloads, by : Requests, finished : BOOLEAN]
    /\ NoCall \notin [slot : Slots, payload : Payloads, now : 0..MaxTime]
    /\ NoCall \notin [slot : Slots, payload : Payloads]

VARIABLES
    clock,      \* datetime.now(timezone.utc)
    record,     \* the IdempotencyRecord nodes, at most one for each slot
    pc,         \* how far the dispatch of each request has come
    call,       \* slot and payload of a request, and preflight's local now
    admitted,   \* requests that preflight told to proceed (history)
    outcome,    \* what the handler of a request returned
    reply,      \* what the client got
    matched,    \* requests whose MARK_COMPLETE has matched a record that is there
    doomed,     \* slots whose record a DELETE_EXPIRED has collected
    inTime,     \* requests whose response was stored in the pending window (history)
    crossed     \* requests whose record got another payload after their match (history)

store   == <<record, matched, doomed>>
history == <<admitted, inTime, crossed>>
vars    == <<clock, pc, call, outcome, reply, store, history>>

-----------------------------------------------------------------------------
Record == [payload : Payloads,
           status  : {"pending", "completed", "failed_terminal"},
           author  : Requests \cup {Nobody},
           created : 0..MaxTime]

Call == [slot : Slots, payload : Payloads, now : 0..MaxTime]

\* The last step of a request is "done" (a response went out) or "lost" (an
\* exception, a cancelled task or a dead worker: the client has no result).
Working  == {"get", "create", "reget", "takeover", "handler", "finalize", "write"}
Step     == {"new", "done", "lost"} \cup Working
Reply    == [kind : {"none", "fresh", "replay", "conflict", "in_flight", "refused"},
             from : Requests \cup {Nobody}]

NoReply == [kind |-> "none", from |-> Nobody]

Init ==
    /\ clock = 0
    /\ record = [s \in Slots |-> NoRecord]
    /\ pc = [r \in Requests |-> "new"]
    /\ call = [r \in Requests |-> NoCall]
    /\ admitted = {}
    /\ outcome = [r \in Requests |-> "none"]
    /\ reply = [r \in Requests |-> NoReply]
    /\ matched = {} /\ doomed = {} /\ inTime = {} /\ crossed = {}

\* Mutant: the expiry is stored where created_at belongs.
PendingMutant(r) == [payload |-> call[r].payload, status |-> "pending",
                     author |-> Nobody, created |-> call[r].now + Timeout]

\* CYPHER_UPSERT_PENDING and the ON CREATE part of CREATE_PENDING_IF_ABSENT:
\* created_at is the now that preflight read before its first store call.
Pending(r) == [payload |-> call[r].payload, status |-> "pending",
               author |-> Nobody, created |-> call[r].now]

InFlight(rec, now) == now <= rec.created + Timeout

Expired(rec) == rec.created + Retention < clock

Answer(r, kind, from) ==
    /\ pc' = [pc EXCEPT ![r] = "done"]
    /\ reply' = [reply EXCEPT ![r] = [kind |-> kind, from |-> from]]

Goto(r, step) ==
    /\ pc' = [pc EXCEPT ![r] = step]
    /\ UNCHANGED reply

Proceed(r) ==
    /\ Goto(r, "handler")
    /\ admitted' = admitted \cup {r}

-----------------------------------------------------------------------------
\* A public path, a method that needs no key, or IDEMPOTENCY_ENFORCE_HEADER
\* off: the handler runs without a record.
PassThrough(r) ==
    /\ pc[r] = "new"
    /\ Answer(r, "fresh", r)
    /\ UNCHANGED <<clock, call, outcome, store, history>>

\* 401, 403, or 400/422 for a missing or malformed key: the store is not asked.
Refuse(r) ==
    /\ pc[r] = "new"
    /\ Answer(r, "refused", Nobody)
    /\ UNCHANGED <<clock, call, outcome, store, history>>

\* preflight computes scope and hash and reads the clock.
Arrive(r, s, p) ==
    /\ pc[r] = "new"
    /\ call' = [call EXCEPT ![r] = [slot |-> s, payload |-> p, now |-> clock]]
    /\ Goto(r, "get")
    /\ UNCHANGED <<clock, outcome, store, history>>

\* Mutant: the hash is compared for pending records only.
EvaluateMutant(r, rec) ==
    \/ /\ rec.status # "pending"
       /\ Answer(r, "replay", rec.author)
    \/ /\ rec.status = "pending"
       /\ rec.payload # call[r].payload
       /\ Answer(r, "conflict", Nobody)
    \/ /\ rec.status = "pending"
       /\ rec.payload = call[r].payload
       /\ IF InFlight(rec, call[r].now)
          THEN Answer(r, "in_flight", Nobody)
          ELSE Goto(r, "takeover")

\* Mutant: the pending window is looked at before the status.
EvaluateLateMutant(r, rec) ==
    \/ /\ rec.payload # call[r].payload
       /\ Answer(r, "conflict", Nobody)
    \/ /\ rec.payload = call[r].payload
       /\ InFlight(rec, call[r].now)
       /\ IF rec.status = "pending"
          THEN Answer(r, "in_flight", Nobody)
          ELSE Answer(r, "replay", rec.author)
    \/ /\ rec.payload = call[r].payload
       /\ ~InFlight(rec, call[r].now)
       /\ Goto(r, "takeover")

\* evaluate_existing_record, up to its own store call: no await separates it
\* from the read that fetched rec.
Evaluate(r, rec) ==
    \/ /\ rec.payload # call[r].payload
       /\ Answer(r, "conflict", Nobody)
    \/ /\ rec.payload = call[r].payload
       /\ rec.status # "pending"
       /\ Answer(r, "replay", rec.author)
    \/ /\ rec.payload = call[r].payload
       /\ rec.status = "pending"
       /\ InFlight(rec, call[r].now)
       /\ Answer(r, "in_flight", Nobody)
    \/ /\ rec.payload = call[r].payload
       /\ rec.status = "pending"
       /\ ~InFlight(rec, call[r].now)
       /\ Goto(r, "takeover")

GetRecord(r) ==
    /\ pc[r] = "get"
    /\ IF record[call[r].slot] = NoRecord
       THEN Goto(r, "create")
       ELSE Evaluate(r, record[call[r].slot])
    /\ UNCHANGED <<clock, call, outcome, store, history>>

\* Mutant: CREATE where the code has MERGE ... ON CREATE.
CreatePendingMutant(r) ==
    /\ pc[r] = "create"
    /\ record' = [record EXCEPT ![call[r].slot] = Pending(r)]
    /\ Proceed(r)
    /\ UNCHANGED <<clock, call, outcome, matched, doomed, inTime, crossed>>

CreatePendingIfAbsent(r) ==
    LET s == call[r].slot IN
    /\ pc[r] = "create"
    /\ IF record[s] = NoRecord
       THEN /\ record' = [record EXCEPT ![s] = Pending(r)]
            /\ Proceed(r)
       ELSE /\ Goto(r, "reget")
            /\ UNCHANGED <<record, admitted>>
    /\ UNCHANGED <<clock, call, outcome, matched, doomed, inTime, crossed>>

\* The record that blocked the creation may be gone: the request proceeds
\* and no record speaks for it.
GetRecordAgain(r) ==
    LET s == call[r].slot IN
    /\ pc[r] = "reget"
    /\ IF record[s] = NoRecord
       THEN Proceed(r)
       ELSE Evaluate(r, record[s]) /\ UNCHANGED admitted
    /\ UNCHANGED <<clock, call, outcome, store, inTime, crossed>>

\* create_pending: the upsert looks neither at the status and the payload the
\* record has now nor at who wrote it, or is about to.
TakeOver(r) ==
    LET s == call[r].slot IN
    /\ pc[r] = "takeover"
    /\ record' = [record EXCEPT ![s] = Pending(r)]
    /\ crossed' = crossed \cup
          {q \in matched : call[q].slot = s /\ record[s].payload # call[r].payload}
    /\ Proceed(r)
    /\ UNCHANGED <<clock, call, outcome, matched, doomed, inTime>>

\* call_next returned a response: 5xx or anything else.
HandlerReturns(r, result) ==
    /\ pc[r] = "handler"
    /\ outcome' = [outcome EXCEPT ![r] = result]
    /\ Goto(r, "finalize")
    /\ UNCHANGED <<clock, call, store, history>>

Match(r) ==
    /\ matched' = matched \cup {r}
    /\ Goto(r, "write")

\* Mutant: the record is matched by key and scope, not by hash.
MatchRecordMutant(r) ==
    /\ pc[r] = "finalize"
    /\ IF record[call[r].slot] # NoRecord
       THEN Match(r)
       ELSE Goto(r, "lost") /\ UNCHANGED matched
    /\ UNCHANGED <<clock, call, outcome, record, doomed, history>>

\* MATCH ... WHERE of CYPHER_MARK_COMPLETE: by the hash alone.  No match is a
\* RuntimeError: the handler's response never reaches the client.
MatchRecord(r) ==
    LET rec == record[call[r].slot] IN
    /\ pc[r] = "finalize"
    /\ IF rec # NoRecord /\ rec.payload = call[r].payload
       THEN Match(r)
       ELSE Goto(r, "lost") /\ UNCHANGED matched
    /\ UNCHANGED <<clock, call, outcome, record, doomed, history>>

\* Its SET, whatever the matched record holds by then.  A record that has been
\* deleted cannot be set: the query fails.
WriteRecord(r) ==
    LET s == call[r].slot IN
    /\ pc[r] = "write"
    /\ IF r \in matched
       THEN /\ record' = [record EXCEPT
                  ![s].status = IF outcome[r] = "error" THEN "failed_terminal"
                                                        ELSE "completed",
                  ![s].author = r]
            /\ inTime' = inTime \cup {q \in {r} : clock <= call[r].now + Timeout}
            /\ Answer(r, "fresh", r)
       ELSE /\ Goto(r, "lost")
            /\ UNCHANGED <<record, inTime>>
    /\ matched' = matched \ {r}
    /\ UNCHANGED <<clock, call, outcome, doomed, admitted, crossed>>

\* The handler or a store call raises, the client hangs up, the worker dies.
Abort(r) ==
    /\ MayAbort
    /\ pc[r] \in Working
    /\ Goto(r, "lost")
    /\ matched' = matched \ {r}
    /\ UNCHANGED <<clock, call, outcome, record, doomed, history>>

\* CYPHER_DELETE_EXPIRED of any worker collects records, whatever their status,
CollectExpired ==
    /\ doomed' = doomed \cup {s \in Slots : record[s] # NoRecord /\ Expired(record[s])}
    /\ doomed' # doomed
    /\ UNCHANGED <<clock, pc, call, outcome, reply, record, matched, history>>

\* and deletes them, whatever they hold by then.
DeleteCollected(S) ==
    /\ S # {}
    /\ record' = [s \in Slots |-> IF s \in S THEN NoRecord ELSE record[s]]
    /\ matched' = {r \in matched : call[r].slot \notin S}
    /\ doomed' = doomed \ S
    /\ UNCHANGED <<clock, pc, call, outcome, reply, history>>

TimePasses ==
    /\ clock < MaxTime
    /\ Timely => \A r \in Requests : pc[r] \in Working => clock < call[r].now + Timeout
    /\ clock' = clock + 1
    /\ UNCHANGED <<pc, call, outcome, reply, store, history>>

Dispatch(r) ==
    \/ GetRecord(r)
    \/ CreatePendingIfAbsent(r)
    \/ GetRecordAgain(r)
    \/ TakeOver(r)
    \/ \E result \in {"ok", "error"} : HandlerReturns(r, result)
    \/ MatchRecord(r)
    \/ WriteRecord(r)

Next ==
    \/ \E r \in Requests :
         \/ PassThrough(r)
         \/ Refuse(r)
         \/ \E s \in Slots, p \in Payloads : Arrive(r, s, p)
         \/ Dispatch(r)
         \/ Abort(r)
    \/ CollectExpired
    \/ \E S \in SUBSET doomed : DeleteCollected(S)
    \/ TimePasses

Spec == Init /\ [][Next]_vars

-----------------------------------------------------------------------------
TypeOK ==
    /\ clock \in 0..MaxTime
    /\ record \in [Slots -> Record \cup {NoRecord}]
    /\ pc \in [Requests -> Step]
    /\ call \in [Requests -> Call \cup {NoCall}]
    /\ \A r \in Requests : pc[r] \in Working => call[r] # NoCall
    /\ admitted \subseteq {r \in Requests : call[r] # NoCall}
    /\ outcome \in [Requests -> {"none", "ok", "error"}]
    /\ reply \in [Requests -> Reply]
    /\ matched \subseteq {r \in Requests : pc[r] = "write" /\ record[call[r].slot] # NoRecord}
    /\ doomed \subseteq {s \in Slots : record[s] # NoRecord}
    /\ inTime \subseteq Requests /\ crossed \subseteq Requests

SameCall(r, q) == call[r].slot = call[q].slot /\ call[r].payload = call[q].payload

\* A replayed response was produced by the handler, for a request with the
\* same key, route and payload; a conflict is reported only when a request
\* with another payload was let through under that key.  Finalizers that come
\* late, takeovers and cleanups may not mix the responses of two payloads up,
\* unless a takeover gave the record another payload between the match and the
\* write of one finalizer (evaluate_existing_record, CYPHER_MARK_COMPLETE).
AnswersAreGenuine ==
    \A r \in Requests :
        /\ reply[r].kind = "replay" =>
             \E q \in admitted : /\ reply[r].from = q
                                 /\ call[q].slot = call[r].slot
                                 /\ SameCall(r, q) \/ q \in crossed
                                 /\ outcome[q] # "none"
        /\ reply[r].kind = "conflict" =>
             \E q \in admitted : /\ call[q].slot = call[r].slot
                                 /\ call[q].payload # call[r].payload

\* r was let through and its pending window closed before its response was
\* stored: the handler was slow or raised, a store call failed, the worker died.
Outlived(r) == r \in admitted \ inTime /\ clock > call[r].now + Timeout

\* The later of two runs asked when the record of the earlier one had expired,
\* but for the time it spent in preflight.
ApartByRetention(r, q) ==
    \/ call[q].now + Timeout > call[r].now + Retention
    \/ call[r].now + Timeout > call[q].now + Retention

\* A handler runs twice under one key and within one retention period only if
\* an attempt under that key outlived its pending window.  An attempt that
\* stored its response in time keeps every other request out until the record
\* expires, whatever raises, crashes, is deleted or is decided on an old read
\* (preflight, evaluate_existing_record, DELETE_EXPIRED).
DuplicateNeedsTimeout ==
    \A r, q \in admitted :
        r # q /\ call[r].slot = call[q].slot =>
            \/ ApartByRetention(r, q)
            \/ \E p \in admitted : call[p].slot = call[r].slot /\ Outlived(p)

\* If no request outlives its pending timeout and none is abandoned, a second
\* run under one key starts only after the record of the first has expired
\* (retention, less the time the second request spent in preflight).
OncePerRetention ==
    Timely /\ ~MayAbort =>
        \A r, q \in admitted :
            r # q /\ call[r].slot = call[q].slot => ApartByRetention(r, q)

\* docs/API.md:65, "Replaying the same key with the same payload returns the
\* original stored response": two replays of one key and payload, neither
\* separated by an expiry, return the same response.
ReplaysAgree ==
    \A r, q \in Requests :
        reply[r].kind = "replay" /\ reply[q].kind = "replay" /\ SameCall(r, q) =>
            reply[r].from = reply[q].from

-----------------------------------------------------------------------------
\* The run a slot holds: the request that stored the response or, while the
\* record is pending, the one that is between Proceed and Finalize.
Inside == {"handler", "finalize", "write"}

Runs(r, s) == pc[r] \in Inside /\ call[r].slot = s

Holder(s) ==
    IF record[s].status = "pending"
    THEN CHOOSE r \in Requests : Runs(r, s)
    ELSE record[s].author

ledger ==
    [s \in Slots |->
        IF record[s] = NoRecord
        THEN NoRecord
        ELSE [payload  |-> record[s].payload,
              by       |-> Holder(s),
              finished |-> record[s].status # "pending"]]

question ==
    [r \in Requests |->
        IF call[r] = NoCall
        THEN NoCall
        ELSE [slot |-> call[r].slot, payload |-> call[r].payload]]

Contract == INSTANCE KeyContract WITH Free <- NoRecord, NoQuestion <- NoCall

\* With timely and unbroken requests the gate keeps the contract of docs/API.md:
\* one run for each key, and every answer speaks of that run.
KeepsContract == Contract!Spec

-----------------------------------------------------------------------------
(***************************************************************************)
(* The inductive invariants behind the properties above.                   *)
(***************************************************************************)
\* The history variables and the control state agree.
Bookkeeping ==
    \A r \in Requests :
        /\ pc[r] = "new" => reply[r] = NoReply
        /\ pc[r] \in Inside => r \in admitted
        /\ pc[r] \in {"finalize", "write"} => outcome[r] # "none"
        /\ r \in inTime => pc[r] = "done"
        /\ r \in admitted => pc[r] \in Inside \cup {"done", "lost"}
        /\ call[r] # NoCall => call[r].now <= clock

\* A record was written by an admitted request with its slot, payload and
\* created_at, which has not finished in time while the record is pending; a
\* stored response by one with its slot and payload, if it was not crossed.
HasRun(s) == record[s] # NoRecord =>
    /\ \E q \in admitted :
         /\ call[q] = [slot    |-> s,
                       payload |-> record[s].payload,
                       now     |-> record[s].created]
         /\ record[s].status = "pending" => q \notin inTime
    /\ record[s].status # "pending" =>
         \E q \in admitted : /\ record[s].author = q
                             /\ call[q].slot = s
                             /\ call[q].payload = record[s].payload \/ q \in crossed
                             /\ outcome[q] # "none"

RecordsHaveRuns == \A s \in Slots : HasRun(s)

\* What MARK_COMPLETE has matched has its payload, if it was not crossed.
MatchesAgree ==
    \A r \in matched : record[call[r].slot].payload = call[r].payload \/ r \in crossed

\* While no attempt on a slot has outlived its window, a record is deleted
\* only because it has expired,
DeletedIsExpired(s) == s \in doomed => Expired(record[s])

\* every attempt has the record or is older than the retention,
AttemptsStored(s) ==
    \A r \in admitted : call[r].slot = s =>
        \/ clock > call[r].now + Retention
        \/ record[s] # NoRecord /\ record[s].created = call[r].now

\* nobody takes the slot over, and a request that met a record after it had
\* found none is itself late when that record has expired,
WaitersLate(s) ==
    \A r \in Requests : pc[r] \in Working /\ call[r].slot = s =>
        /\ pc[r] # "takeover"
        /\ pc[r] \in {"create", "reget"} /\ record[s] # NoRecord =>
             record[s].created + Timeout >= call[r].now
        /\ pc[r] = "reget" /\ record[s] = NoRecord => clock > call[r].now + Timeout

\* and runs are a retention apart.
RunsApart(s) ==
    \A r, q \in admitted :
        r # q /\ call[r].slot = s /\ call[q].slot = s => ApartByRetention(r, q)

Undisturbed(s) ==
    DeletedIsExpired(s) /\ AttemptsStored(s) /\ WaitersLate(s) /\ RunsApart(s)

NoneOutlived(s) == \A p \in admitted : call[p].slot = s => ~Outlived(p)

DuplicatesExplained == \A s \in Slots : NoneOutlived(s) => Undisturbed(s)

\* The rest is for timely, unbroken requests.  Nobody is late or stranded,
Punctual ==
    \A r \in Requests :
        /\ pc[r] # "takeover" /\ pc[r] # "lost"
        /\ pc[r] \in Working => clock <= call[r].now + Timeout

\* whoever runs holds the record of its slot alone,
RunnersHoldRecords ==
    \A r \in Requests : pc[r] \in Inside =>
        /\ record[call[r].slot] = Pending(r)
        /\ pc[r] = "write" => r \in matched
        /\ \A q \in Requests : Runs(q, call[r].slot) => q = r

\* a record met by one that found none before is too young to expire,
BlockersAreYoung ==
    \A r \in Requests :
        /\ pc[r] \in {"create", "reget"} /\ record[call[r].slot] # NoRecord =>
             record[call[r].slot].created + Timeout >= call[r].now
        /\ pc[r] = "reget" => record[call[r].slot] # NoRecord

\* only expired records are deleted,
DoomedExpired == \A s \in doomed : Expired(record[s])

\* a finished run is the one its record stores until it has expired,
FinishedRunsStored ==
    \A r \in admitted : pc[r] = "done" =>
        \/ clock > call[r].now + Retention
        \/ /\ record[call[r].slot] # NoRecord
           /\ record[call[r].slot].status # "pending"
           /\ record[call[r].slot].author = r

\* and a record is the run of one request.
RecordsAreRuns ==
    \A s \in Slots : record[s] # NoRecord =>
        /\ record[s].status = "pending" => \E r \in Requests : Runs(r, s)
        /\ record[s].status # "pending" =>
             \E q \in admitted :
                /\ record[s].author = q
                /\ pc[q] = "done" /\ call[q].slot = s
                /\ call[q].payload = record[s].payload /\ call[q].now = record[s].created

OneRunPerRecord ==
    /\ Punctual /\ RunnersHoldRecords /\ BlockersAreYoung
    /\ DoomedExpired /\ FinishedRunsStored /\ RecordsAreRuns

TimelyInv == Timely /\ ~MayAbort => OneRunPerRecord

=============================================================================
