# NPC Engine: specifications and proofs

TLA+ models of the NPC Engine (`src/src/npc_engine`), the TLC configurations that check them
on small instances, and TLAPS proofs of what they promise for every size. Paths below are
relative to `src/src/npc_engine` unless they begin with `docs/`.

The engine is a FastAPI service over a Neo4j graph. Clients change the world through HTTP
routes; a scheduler moves the world's clock and runs the engines (gossip, events, routines,
schemes, ...) at every tick. Several processes may serve one graph. All of them are
asyncio programs: within a process a step lasts from one `await` to the next, and between two
processes only single Neo4j transactions are atomic. This is where the code is hard: almost
every operation reads the graph, decides, and writes the graph in another transaction. Even one query is not
always one step: Neo4j's default isolation is read committed, so a query that tests a node it has matched and then
sets its properties takes the node's lock after the test and does not test again. The models split such queries in two
wherever something can come between. Only the creation of a node under a uniqueness constraint is one step.

## 1. Inventory

| Component | State | Operations | Talks to | Hard to get right |
|---|---|---|---|---|
| **Idempotency gate** `auth/middleware.py`, `engines/idempotency`, `graph/idempotency` | one `IdempotencyRecord` node per (key, METHOD:path) | preflight (get, create if absent, get again, take over), finalize, hourly deletion of expired records | every mutating route is its handler | duplicates in flight, slow handlers, crashes between handler and finalize, deletion below a running attempt |
| **Tick leases** `scheduler/tick_lease.py`, `graph/scheduling/tick_lease_queries.py` | one `TickLease` node per (engine, tick): owner, expiry, status | try_claim, mark_done, mark_failed, is_done | driven by the scheduler | expiry against running engines, crashes, reports that come late, claims that overlap between test and lock |
| **Tick scheduler** `scheduler/tick_scheduler.py`, `scheduler/tick_autopilot.py` | a loop per process | advance: run ticks, stop at an unresolved one, persist, move the clock | leases, world clock, all engines | partial advances, retries, several workers |
| **World clock** `scheduler/game_clock.py`, `graph/world_state` | tick in memory per process, `WorldState` in the graph | advance, persist, restore at start, whole-state upserts by others | scheduler, story pacing, event emission, clock route | memory against graph, stale write-backs |
| Local tick deduplication `graph/scheduling/tick_scheduler_queries.py` | `SchedulerState` lists | is done, mark done | scheduler when leases are off | a swallowed failure is recorded as done |
| Tick budget guard `scheduler/tick_budget_guard.py` | sliding window of tick durations | skip expensive engines | scheduler | none across processes |
| **Quest lifecycle, chains, rewards** `engines/quest`, `engines/interaction/quest_handler.py` | a `QuestState` document per (quest, player), the `Quest` node's status | offer, accept, progress, claim, evaluate, fail, apply rewards | ledger, events | documents read, changed and written back whole; rewards once; crashes between document, node and chain |
| **Ledger** `graph/economy` | balances, `OWNS` edges, `TRANSFERRED` edges by key | guarded transfers, replay by key | quests, trades | a replay found by a query without a uniqueness constraint; a balance compared before the lock |
| **Trade, negotiation** `engines/economy`, `engines/interaction`, `demo_game/quest_trade_controller.py` | one barter session in memory, the client's trade panel, debts | propose, counter, agree, confirm, defer | ledger, dialogue route | item and money in two transactions; confirmed again after a timeout; debts to the wrong NPC |
| **Dialogue turn** `engines/dialogue` | relation values, session turns | read the session, ask the model, move relation and mood, store the turn | model, session store, graph | any query may fail between; relation read without a lock |
| **NPC mood** `engines/emotion` | mood in memory, and on the character's node | apply a dialogue's or a rumour's mood, write through, load at start | dialogue, gossip | writes that arrive in another order |
| **Session store, memory consolidation** `engines/dialogue/session_store.py`, `engines/memory_consolidation` | turns per player with a time to live; `DialogueTurn` and `Memory` nodes | append, expire, save, load; summarise, clear | dialogue, scheduler, admin route | turns stored during the summary, two consolidations, restarts |
| **Schemes** `engines/scheming`, `engines/investigation` | `Scheme` nodes, their numbered steps | advance in batches, discover | scheduler, routines | every worker runs them, and again when it repeats a tick |
| Embedding reconciler `retrieval/embedding` | `indexed_at` per node | find stale, embed, stamp | graph writers | a node changed during the embedding |
| **Conversation intents** `engines/agenda`, `graph/intent`, `GET /dialogue/pending` | `PendingIntent` nodes with a score and a status | form at a tick, queue to a cap with eviction, expire, hand out | scheduler, the client's poller | count, eviction and insert apart; MERGE without a constraint; an eviction against a poll; a repeated tick |
| Rate limiter `api/rate_limit.py` | token buckets | take, evict | every route | an evicted bucket starts full |
| Gossip, events `engines/gossip`, `graph/event` | knowledge edges, events, world conditions | spread, emit | scheduler | distortion is data; conditions are read and written back |
| Treaties, oaths, succession, routines | edges with a status and a tick | per-tick transitions | scheduler | expiry at a tick, repeated ticks |
| Retrieval, prompts, model and speech adapters, routes, schemas, setup | little of their own | | | numeric, textual or plain input and output |

`PROJECT.json` lists the same components with their state of modelling, and under `hazards`
what can go wrong at which line.

What makes each component correct, in a sentence:

* gate: a key runs its handler once per retention period and every answer speaks of that run;
* leases: an engine tick is run by one worker at a time, to the end once, and done is final, as far as the
  claims of a tick do not overlap after one of its attempts was cut short;
* scheduler and clock: no tick is skipped or repeated, no process is ahead of the graph, and the
  world's time moves on whatever crashes;
* quests: a stored document makes sense whoever overwrote it, an ending is final and opens its own
  follow-up quest, and rewards are granted once;
* ledger and trades: who handed an item over is paid for it once, and nobody is overdrawn;
* negotiation: a deferred payment is owed to the NPC who had the item to sell;
* dialogue: what an NPC has felt, remembered and been told survives calls that fail, overlap, or
  are cut off by a restart, and is counted once;
* schemes: steps are numbered without a gap, their number is bounded, and schemes end;
* intents: an NPC's queue stays within its cap, gives up an intent only for better ones, and hands each out once;
* embeddings: a change that arrives during a slow call is not lost.

## 2. The modules

```
KeyContract            what an idempotency key promises (abstract)
IdempotencyGate        the middleware, the service and its store; implements KeyContract
  MCIdempotencyGate      for TLC        IdempotencyGate_proofs   theorems
TickLease              leases on one engine tick, several workers
  MCTickLease            for TLC        TickLease_proofs         theorems
TickScheduler          EXTENDS TickLease: the loop of advance(), the world clock
  MCTickScheduler        for TLC        TickScheduler_proofs     theorems
QuestPromise           what a quest promises one player (abstract)
QuestLifecycle         documents, node status, chain, rewards; implements QuestPromise
  MCQuestLifecycle       for TLC        QuestLifecycle_proofs    theorems
Barter                 negotiation, trade panel, trade engine and ledger composed
  MCBarter               for TLC        Barter_proofs            theorems
DialogueMemory         dialogue calls, mood, session store and consolidation composed
  MCDialogueMemory       for TLC        DialogueMemory_proofs    theorems
Schemes                advance and detection of schemes by several workers
  MCSchemes              for TLC        Schemes_proofs           theorems
ConversationIntents    the queue of what NPCs want to say: engine passes and polls
  MCConversationIntents  for TLC        ConversationIntents_proofs  theorems
```

### IdempotencyGate

A request is one HTTP call; a retry is another request with the same key and payload. The
model's actions are the awaits of `dispatch`, `preflight` and `finalize`:

| Action | Code |
|---|---|
| `PassThrough`, `Refuse` | public paths and the checks before the store is asked |
| `Arrive` | preflight computes scope and hash and reads `now` (service.py:108-110) |
| `GetRecord`, `GetRecordAgain` | `get_record`, and `evaluate_existing_record` up to its own store call |
| `CreatePendingIfAbsent` | MERGE with ON CREATE |
| `TakeOver` | `create_pending`: an unconditional upsert of an overdue pending record |
| `HandlerReturns` | `call_next`, with a server error or anything else |
| `MatchRecord`, `WriteRecord` | `mark_completed` / `mark_failed_terminal` (`CYPHER_MARK_COMPLETE`): the match, on the hash alone, where no match raises; then the SET, on whatever the record holds by then |
| `Abort` | a store call or the handler raises, the task is cancelled, the worker dies |
| `CollectExpired`, `DeleteCollected` | `CYPHER_DELETE_EXPIRED`: the records that have expired, whatever their status, then their deletion, whatever they have become |
| `TimePasses` | external: the wall clock |

`record` is the store. `call` holds preflight's locals; `pc` says how far a request is. `admitted`
is a history variable: the requests that were told to proceed; so are `inTime`, those whose response was stored before
their pending window closed, and `crossed`, those whose record was given another payload between their match and their
write. `matched` and `doomed` stand for queries that have matched a record and not yet written it. The uniqueness constraint on
key and scope makes the two MERGEs one step each; a takeover writes without a test. A response is named by the request
whose handler produced it. Abstracted: hashes and bodies (members of `Payloads`), the form of a key,
authentication (one refusal), the response body and its truncation, audit logging.

`KeyContract` has no store, clock or interleaving: a slot is free or holds one run, which ends once,
and answers everybody else with the state of that run. The refinement mapping makes `question` out
of preflight's locals and `ledger` out of `record` and, while a record is pending, the request that
runs (`Holder`).

### TickLease

`Ask` reads the worker's clock (`now_ms`) and `TryClaim` compares it later, because
a query takes time. The three queries that write test the node they have matched and lock it at their SET, so each is two
steps:

| Query | Test | SET |
|---|---|---|
| TRY_CLAIM | `TryClaim`: an absent node is created in this step, under the constraint `tick_lease_key`; of an existing one `should_claim` is decided | `WriteClaim` |
| MARK_DONE | `MarkDone` | `RecordDone` |
| MARK_FAILED | `MarkFailed` | `ExpireLease` |

`stale` (history) has the leases that were written after the test of the query had ceased to hold, `broken` (history) the engine ticks
of which an attempt was cut short: the engine raised or ran into its deadline, a query failed, the worker died. `StartEngine` sets the deadline of `asyncio.wait_for`, `max(1, TTL - 1)`.
`EngineReturns`, `EngineFails` (an exception or the timeout), `CheckMarked`
and `CheckDenied` are the remaining awaits of `_run_distributed_engine_tick`.
`QueryFails` and `WorkerDies` are the faults. A worker that comes back keeps its owner id: in a
container, host name and pid are often the same again. `completed` is a history variable that counts
runs to the end, up to `MaxCount`. `Prompt` is a mode: queries take no time and `wait_for` fires on time.

### TickScheduler

Extends the leases with the loop of `advance()`: `Begin`, `RunIntervalEngine` (asks the
leases), `Collect` (an exception is logged and counts as resolved; a tick in another's hands is
unresolved), `EndOfTick` (an unresolved tick is not counted and ends the loop), `Finalize`
(`persist_clock_state`, then the clock in memory), `PersistFails`, `Dies`, `Boot` (`restore`), and
others who read a `WorldState` and write all of it back (`ReadWorldState`, `UpsertWorldState`).
`LeaseStep` lets the lease protocol run below the loop. `failed` is a history variable for the
engine ticks whose `tick_engine_error` was logged.

Choices to know about:

* `Finalize` is one action. In the code the write is followed by an assignment in the same task and
  nobody looks in between; a process that dies between them is `PersistFails` with its write in effect,
  followed by `Dies`.
* `PersistFails` may have written (an acknowledgement that was lost) or not.
* `session.run` in `persist_clock_state` (world_state_writer.py:138-145) is taken to have had its effect
  when it returns, although its result is not consumed there.
* The engines of every tick (routine, need, scheme, ...) are part of `EndOfTick`: their failures are
  caught by `_run_engine_safe` and leave the loop as it is. They run again when a tick is
  repeated; what that does to schemes is the subject of `Schemes`.
* A cancelled `advance()` in a process that lives on is not modelled; a process that dies is.

### QuestLifecycle

One quest of one player. A caller is a request in progress; an action is one query. What a call
refuses changes nothing and is left out.

| Action | Code |
|---|---|
| `OfferQuest` | create if absent, in one transaction (`offer_quest_atomic`) |
| `OfferDraft`, `MarkOffered`, `CreateOffered` | `offer_draft_quest`: the node's status, then the document |
| `AcceptQuest`, `UpdateObjective`, `EvaluateCompletion`, `FailQuest` | a transition reads the document, checks its status and computes the new one |
| `ClaimCompletion`, `Raise`, `EvaluateClaim` | `handle_claim_completion`: one update after the other by the difference found first, then an evaluation |
| `Persist`, `UpdateQuestNode`, `ResolveChain` | the three writes after a transition, in three transactions |
| `ApplyRewards`, `LookUp`, `Transfer`, `CommitRewards` | the check of `rewards_applied`, then one transaction: each transfer is looked up by its key and made, and the document is written last |
| `Abandon` | an exception or a crash between two queries; an open transaction is rolled back |
| `SuccessorAccepted` | the player takes the follow-up quest; offering it again then raises |

`overlap` and `abandoned` are history variables: whether calls overlapped, whether two were paying at one
time, and whether one broke off. The ledger counts transfers by key up to 2 (more than one).
Assumed of the store: queries see committed data only; every transfer writes at the player's node, and
its transaction keeps that node locked to its end. No constraint makes keys unique
(no such index is created). The source's stock only decides whether the transaction breaks off, so it is part of `Abandon`.
`FailQuest` has no caller in the server and is modelled as if it had. The `Quest` node's status is shared by all players;
the model has one.

`QuestPromise` is what the player sees: a stage that moves forward, all payments made together and
once, and an ending that opens its own follow-up quest. The mapping reads the stage off the document
(`accepted` and `in_progress` are one stage).

### Barter

The composition of the negotiation session, the client's panel, the trade call and the ledger. The client
(`demo_game`) has one request under way at a time but may give up waiting; the server goes on.

| Action | Code |
|---|---|
| `DispatchProposal` | a dialogue turn with `propose_trade`: the session is opened or resumed, the move processed, the debt written; then the client opens its panel and so posts the move again |
| `OpenTradeFallback` | the player asks to trade: an item the NPC owns, no move |
| `OfferAskingPrice`, `UpdateBand` | the button of an open session; the shift of the band after a turn |
| `ConfirmTrade`, `ConfirmRefused` | `POST /economy/trade` with what the panel shows; refused below the fair price, which is computed anew |
| `MatchOwner`, `TransferItem`, `MatchFunds`, `TransferCurrency` | two transactions, each a match on committed data and a write under locks |
| `Raise`, `Restart`, `GiveUpWaiting` | not the owner, not enough money, a conflict; the process dies; the client's timeout |
| `TransferOwnership` | `PATCH /items/{id}/owner`, which does not ask whether the giver owns the item (once) |

History: `due` is the price of the goods each NPC has not been paid for; `stale` says that a write found
something else than its match; `broken` that a trade ended between its two transfers; `strayed` that an NPC
proposed what it does not own or an item changed hands outside a trade.
Left out: the list of moves and the seller in the session (only a prompt and a status line read them),
names, haggling text. `engines/interaction/dispatch.py` has no caller.

### DialogueMemory

One NPC. A turn is the exchange of one call (the code stores two strings for it, and the bounds of
the settings count strings); the relation to a player and the mood are the sets of events they have
taken in. An action is what runs between two awaits.

| Action | Code |
|---|---|
| `Ask` | `get_turns` (forgets an expired session), then the model or a canned answer |
| `ReadRelation`, `SetRelation` | `_apply_relation_delta_tx`: read without a lock, set later |
| `FeelDialogue`, `Shock`, `WriteMood` | the emotion store is changed in one step, the graph is written later; `Shock` is a severe rumour |
| `AppendTurns`, `Expire` | the turn is stored last, trimmed to `MaxTurns`; the session's time to live |
| `Broken` | a query of the call fails, or its client goes away |
| `Gather`, `Remember`, `SummaryFails`, `Clear` | consolidation of all sessions of the NPC, by the tick or the admin route |
| `Shutdown`, `DeleteTurns`, `CreateTurns`, `SaveFails`, `Exit` | the lifespan's end: background tasks are cancelled, sessions saved query by query, errors skipped |
| `Crash`, `Boot` | memory is lost; sessions and mood are loaded from the graph |

The server answers the requests in progress before it shuts down (uvicorn's behaviour, external). The mood is read and
set without a suspension because production builds `EmotionUpdater` without a trait reader. `strayed` is
history: which overlaps have happened so far.

### Schemes

The advance engine reads all active schemes with their step counts (`ReadActive`), takes a batch of those below
`MAX_SCHEME_STEPS`, and handles them one by one: `SkipScheme` (the owner is nowhere) or `EmitStep`
(one transaction). The detection engine reads what can be discovered (`ReadDiscoverable`; who stands next
to whom is left open) and marks it (`MarkDiscovered`, which asks for the status again). `PassFails` and
`AnswerLost` are an exception or a crash before or after a write; `Resume` is the next tick or the
restarted process. `UpdateLocation` is the routine engine's query, which can leave an NPC nowhere (section 5).
These engines have no lease, so every worker runs them at any time, which is how the model schedules
passes; the cadence (`tick_id % interval`) is left out. `Residents` are the schemes whose owners are
always somewhere. `crossed` and `late` are history: schemes two passes had in hand at a time, and steps added after
a discovery. The query has no ORDER BY, so a batch is any set of the right size. Schemes come from the graph's
data or from `form_scheme`, which has no caller in the server; its cap per NPC is not modelled.

### ConversationIntents

An engine of every tick scores what an NPC could say to a player beside it and puts it in the NPC's queue
of `MAX_PENDING_INTENTS_PER_NPC`; the client's poll takes the best and marks them. An action is one query, except
that MERGE is two: `PendingIntent` is not among the labels that schema_bootstrap.py puts under a uniqueness constraint, so two workers may
each look for the node of an id, find none, and create one. A node is therefore an id with a tag: the first node of
an id is tagged `Nobody`, one that was created beside others has the name of its worker. The other queries change every node
with the id and test nothing that matters (an expiry that overwrites a delivery cannot be told from it by any query), and stay one step.

| Action | Code |
|---|---|
| `StartPass` | the engine of one worker at one tick: the next, one that others have begun, or one that is repeated |
| `CountPending` | `count_npc_pending_intents`, for an intent that may be in the queue already |
| `PickLowest`, `Evict` | the lowest pending intent, and its deletion by id, whatever has become of it |
| `Merge`, `Create` | MERGE on npc, player, tick and trigger: a node that is found keeps its status; where none was found one is created, whatever was created meanwhile |
| `ExpireOld` | the last query of a pass |
| `PassFails` | an exception that `_run_engine_safe` swallows, or the worker dies |
| `ReadPending`, `MarkDelivered`, `Answer` | the route: one read, one write for each intent, the answer |
| `PollFails` | a query fails, the process dies, or the answer is lost |

Scores are any value and are chosen when an intent's turn comes: all of them are computed before, but nothing
reads them until then. The order of the intents of a pass, and of the writes of a poll, is left open. History:
`got` and `twice` are what clients have been given, `evicted` the best score each NPC gave up, `strayed` says what has
happened that the properties make an exception for: two passes at once ("pass"), an eviction that the queue did not
need ("waste"), two polls for one player at once or the eviction of an intent that a poll has read or marked ("redo"). `twinned` has the ids that had two nodes at a time.

## 3. The runs

| Run | Instance | Shows |
|---|---|---|
| `idempotency_any_timing` | 3 requests, 1 slot, 2 payloads, Timeout 1, Retention 3, time to 4; slow handlers and aborts (601,000 states) | types; `AnswersAreGenuine`; `DuplicateNeedsTimeout` |
| `idempotency_timely` | the same with Retention 2, to time 5, nobody outlives the timeout, nobody aborts (453,000 states) | `OncePerRetention`; `KeepsContract`, the refinement of `KeyContract` |
| `idempotency_replays` | 4 requests, 1 payload, nothing aborts or expires | a counterexample to `ReplaysAgree` (section 5) |
| `tick_lease` | 3 workers, 1 engine tick, TTL 2, time to 3, 1 fault, leases that expire between any two steps (2.2 million states) | types; `DoneIsFinal` |
| `scheduler_safety` | 2 workers, 1 engine, 2 ticks, advances of 1, 1 writer, TTL 2, time to 3, 1 fault, prompt (872,000 states) | types; `MemoryNeverAhead`; `NoTickSilentlySkipped`; `RerunsCostFaults`: an engine tick runs to its end once, and once more for each fault at the most, and `ExclusiveRun`: not by two workers at once, both where no query overwrote the lease after its test had ceased to hold; `CleanTicksRunOnce`: that takes an attempt that was cut short, and without one nothing runs twice |
| `scheduler_slow_queries` | 2 workers, 2 engines (one at every other tick), 2 ticks, advances of 1 or 2, TTL 1, time to 1: leases of time 0 expire anywhere (1.6 million states) | `NoTickSilentlySkipped` without the help of timing |
| `scheduler_liveness` | 2 workers, 1 engine, 2 ticks, advances of 1, TTL 2, 1 fault, fairness (330,000 states) | `EveryClockArrives` |
| `quest` | 2 calls at a time, 2 objectives with target 1, deltas -1 and 1, progress to 2, 2 transfers (756,000 states) | types; `DocumentSound`; `RewardsOnce`; `LaterTransfersOnce`; `Settled`; `KeepsPromise`, the refinement of `QuestPromise` by calls that do not overlap |
| `barter` | 2 NPCs, 2 items, 2 trade calls, price 2, offers of 1, a band shift of 15, 3 gold, 1 debt (451,000 states) | types; `Books`; `NoOverdraft`; `DebtsOwedToOwner` |
| `npc_memory` | 2 players, 3 events of which 2 in progress, 2 consolidations, sessions and saves of 2 turns, threshold 2, `ClearAfter` (2.4 million states) | types; `TurnsOnce`; `SummarisedOnce`; `MoodKept`; `ForgetsOnlyRemembered`; `RelationKept` |
| `schemes` | 2 workers, 3 schemes in batches of 2, 2 steps, discovery from 1 step, 1 owner who comes and goes, fairness (835,000 states) | types; `StepsBounded`; `NumberedOnce`; `SchemesEnd` |
| `intents` | 1 NPC, 1 player, 1 trigger, 2 workers, 1 poll at a time, 3 ticks, 2 scores, a cap and an expiry of 1, a limit of 2, a worker 1 tick behind, 3 passes, 2 faults, fairness (292,000 states) | types; `CapKept`; `DeliveredOnce`; `EvictedForBetter`; `AllDelivered` |

Why the bounds are enough:

* Slots do not interact in the gate, so one is enough; two payloads tell a conflict from a
  replay; three requests are a runner, one that takes over or comes after it, and one that watches. Four
  are needed for the counterexample (two runs, two replays). Time goes past
  the retention, so records expire and keys are used again; with a retention of three timeouts an attempt may outlive its window, be
  taken over and expire in turn. The exception for `crossed` in `AnswersAreGenuine` needs a fourth request to be used (an attempt
  whose record expires, one that is about to take it over, one that creates it anew with another payload, and the one that is answered): with three
  the property holds without it, and the theorem covers any number.
* Engine ticks do not interact in the leases either. Three workers are a runner, one that takes over
  and one that is refused, or two whose claims overlap and one that had matched before both. As queries are not `Prompt` a worker may be
  late at every step: `CheckMarked` (a report that finds the lease gone) and all overwritten leases happen. The prompt runs are those of the
  scheduler: with TTL 2 an engine may end before and on its deadline.
* Two ticks are enough for an advance to cross a tick, stop at one, and repeat one; two engines
  for a tick that is half resolved (`scheduler_slow_queries`, whose advances may also be of two ticks).
* A quest needs two objectives for a claim that is interrupted between them, two transfers for a second one that
  waits for the lock of the first, progress one above the target for a delta counted twice, and two callers,
  since every hazard listed is between two. `MaxProgress` bounds progress.
* Two trade calls are one that is slow and one that confirms again; two items make a session be resumed
  for the wrong one; 3 gold pay for one item of price 2 but not for two. One price suffices for the trades, whose
  two computations of a fair price meet only in a comparison; the offer of 1 is below it and the band of 15 %
  rounds to it. Debts do not interact, so one is enough (`MaxDebts`; a further one fails to be written, as it may).
* Three turns push one out of a session of two; two consolidations overlap; two players tell whose session was
  cleared. With `MaxOpen` two calls are in progress at a time: all races listed are between two.
  `ClearAfter` is TRUE although the default of `CONSOLIDATION_CLEAR_TURNS` is False: with False the same turns
  are summarised at each consolidation on purpose.
* Three schemes in batches of two: one owner without a location leaves a place for the others, and
  discovery from one step on lets steps come after it.
* A cap of one makes the second intent of an NPC evict or be dropped; three ticks let one be evicted, formed
  anew by a repeated tick, and expire; three passes of two workers overlap and repeat, and a poll that takes two intents may get both nodes of one id. Two polls of one
  player at once are an exception in `DeliveredOnce` (two that overlap read the same intents); the theorems are about any number of polls. A second player would only
  share the cap, and a second NPC has a queue of its own.
* `MaxTime`, `MaxTick` and `MaxFaults` bound clocks and faults. A fault is allowed only while there is
  time for the lease it leaves behind to expire (`Fault`), so that the bound on time does not hide or invent a
  blocked world. `completed` stops at `MaxCount`, one above the 1 + `MaxFaults` that `RerunsCostFaults` allows.
* Symmetry is used for requests and payloads or workers, only where no liveness property or
  refinement is checked.
* Deadlock checking is off in every run: requests and calls come to an end, schemes are full, and the clocks
  stop at their bounds.
  That the world does not get stuck before its bound is what `EveryClockArrives` says.

Modes and what they mean:

* `Timely` (gate): time does not pass the pending timeout of a request that is being worked on, that is,
  handlers are faster than `IDEMPOTENCY_PENDING_TIMEOUT_SECONDS` (30 s). Nothing in the code enforces it, and
  this is what the counterexample of section 5 is about.
* `MayAbort` (gate): requests may be lost at any step.
* `Prompt` (leases): see above. Prompt queries may still overlap, all within one second. Without it `ExclusiveRun` is false, for a lease can
  expire while the query that granted it is on its way; `DoneIsFinal`, `NoTickSilentlySkipped` and
  `MemoryNeverAhead` need no such help.
* `TTL > 1` in `ExclusiveRun`, `RerunsCostFaults` and `CleanTicksRunOnce`: with a TTL of one second `max(1.0, ttl - 1.0)` gives the engine the whole
  lease, and TLC finds all three violated. The setting is not validated (config.py:181).

Fairness of `FairSpec` in `scheduler_liveness`, and why the code justifies it:

* weak fairness of every worker's loop, lease queries and boot: the event loop runs each task that can
  run, the autopilot calls `advance` for ever whatever the last call raised (tick_autopilot.py:97-132),
  and a dead process is started again by its supervisor;
* strong fairness of the wall clock: time passes whatever the workers do. It has to be strong because
  `Prompt` disables it in passing;
* strong fairness of `EngineReturns`: an engine that is run again and again does not fail every time.
  Without it and with two engines TLC finds two workers whose two interval engines fail for ever and which hold each other
  at one tick: each finds one of the engines in the other's hands whenever it asks.

Fairness of `FairSpec` in `schemes`: weak fairness of everything a worker does in its passes, taken together, since
workers run due ticks for ever and both engines belong to every tick (tick_scheduler.py:365-366), and a dead
process is started again. No single scheme is promised its turn: which ones a batch takes is open.
`SchemesEnd` asks that passes stop failing at some time, and that fewer owners than a batch has places may be nowhere.

Fairness of `FairSpec` in `intents`: weak fairness of the polls' steps, all taken together: some poll goes on. A client polls for ever and
swallows errors (`_run` and `_poll_once` of demo_game/pollers/npc_initiative_poller.py). Passes need not go on: what a
queue holds is delivered whether or not they do.

## 4. What is proved

TLAPS checks all of the theorems below for every set of requests, slots, workers and engines and for
every bound, from the named assumptions of the modules: `TimeAssumption` (the retention is at least twice
the timeout; the defaults are 24 h and 30 s), `ModeAssumption`, `NullAssumption`, `LeaseAssumption`,
`LeaseNullAssumption`, `SchedulerAssumption` (`Ticks` are 1 to `MaxTick`, every engine has its place in
the order and an interval above zero), `QuestAssumption`, `NoDocAssumption`,
`BarterAssumption`, `DialogueAssumption`, `SchemeAssumption` and `IntentAssumption` (bounds are naturals, null values are none of the others).

**Gate** (`IdempotencyGate_proofs`).
`TypeCorrect`, `AnswersGenuine`, `DuplicatesNeedTimeout`, `OnceUntilExpiry`, `TimelyGateKeepsContract`. None of the properties is
inductive. The argument goes through
* `Bookkeeping`: history and control agree (whoever is at the handler was admitted, ...);
* `RecordsHaveRuns` and `MatchesAgree`: each record was written by an admitted request with its slot, payload and time, each
  stored response by one with its slot and payload, and what a finalizer has matched has its payload, all unless the finalizer was
  `crossed`. This gives `AnswersAreGenuine`;
* `DuplicatesExplained`, slot by slot: while no attempt has outlived its window (`NoneOutlived`), every attempt's record is there or
  older than the retention, only expired records are deleted, nobody takes the slot over, and who still waits for a record that has gone is
  itself late (`Undisturbed`). `Outlived` says that the window closed before the response was stored, so an attempt that
  ended in time is no excuse for a duplicate, and uses of the key that are a retention apart are no duplicates. This gives
  `DuplicateNeedsTimeout`;
* `TimelyInv`: with timely, unbroken requests a runner holds the record of its slot alone, a record that
  stands in somebody's way is too young to expire, and a finished run is stored until it expires.
  This gives `OncePerRetention`; that `TimeAssumption` asks for two timeouts comes from here, since a
  second request may spend a timeout in preflight after the first has spent one in its handler;
* `Silent` and `HoldersRun`: nobody has an answer before the end, and whoever is being handled is the one that the record
  and the mapping's `Holder` name. `Holder` is a CHOOSE, so the ledger is known only because `TimelyInv` leaves one
  candidate. `ContractStep` maps each action of the gate to a step or a stutter of `KeyContract`, under the
  assumptions `Timely` and `~MayAbort` of the run; without them the refinement is false (section 5).

`NullAssumption` keeps `NoRecord` and `NoCall` apart from the records of the store and from those of the contract,
which the mapping gives the same null values.

**Leases** (`TickLease_proofs`).
`LeaseTypeCorrect` (with `WritersMatched`: a query writes only a node it has matched), `DoneFinal`, `RunIsExclusive`, `DoneHasRun`,
`RerunsAreForFaults`, `CleanTicksAreRunOnce`. Since a query may overwrite a lease after its test has ceased to hold, three
of these speak of the leases to which that has not happened (`stale`), and the last one says when it can happen at all:
* `ClaimCoversRun`: while a prompt worker is inside an engine tick its lease lasts longer than its deadline, or the lease is
  `stale`. This gives `RunIsExclusive`;
* `ReportsFollowRuns`: who is about to report has run the engine to its end, and so has whoever left a lease done. This is `DoneHasRun`,
  which asks nothing of the leases;
* `RerunsPaid`: each run to the end but one has cost a fault, the one being on record, or its worker holding a lease that has not
  expired and about to record it (`Recorded`). Only a fault takes a run off the record (`RecordedStays`), and an engine starts only
  where none is on it (`ReturnIsRecorded`), because the deadline ends one second before the lease. This gives `RerunsAreForFaults`;
* `CleanTicksUntroubled`: while no attempt at it was cut short, an engine tick has not been begun, is in the hands of one worker whose
  lease has not expired, or is done; nobody else is past the question. A claim of an existing lease needs an expired one, and
  prompt workers report before theirs expires. So nothing is overwritten and nothing runs twice: `CleanTicksAreRunOnce`.

**Scheduler** (`TickScheduler_proofs`).
`UsesLeases` shows `Spec => LeaseSpec`, so that what is proved of leases alone holds under the scheduler:
`RetriesHarmless` and `CleanRetriesHarmless` (`RerunsCostFaults` and `CleanTicksRunOnce` for advances that are repeated) and half of `TypeCorrect` follow. `ClocksBehind` and `NothingSkipped` come from `ClockInv`:
everything due up to the stored clock is settled (done or logged); no snapshot and no clock in memory is
ahead of it; a loop at tick t has settled everything before t, and the engines it has passed at t unless
it is stuck; and a result "ran" or "resolved" that a worker carries is about a tick that has been run to its end (`ReportsFollowRuns`), which
stays true though its lease may be overwritten later.

**Quests** (`QuestLifecycle_proofs`).
`TypeCorrect`, `DocumentIsSound`, `LaterTransfersArePaidOnce`, `RewardsArePaidOnce`, `SettledBetweenCalls`,
`LifecycleKeepsPromise`. `ShapeInv` says what a caller may
carry to each of its queries (a completed document in the caller's hands has met its targets, whoever writes it, and
whatever it overwrites). `PayInv` ties an open transaction to the ledger: the transfers it has passed are
written by it or committed by another, and who has written one holds the lock, so that its later look-ups
stay true. `OnceInv` adds that without overlapping payers nobody else's commit falls between look-up and write.
`SoloInv` is for calls that do not overlap, though they may break off anywhere: one is in progress, what it read is still stored, what
it is about to write moves the document forward, and nothing is paid before the document says so. From it `PromiseStep` maps every
step to a step or a stutter of `QuestPromise`. `StraightInv` adds calls that do not break off: node and chain follow the
document, except between the queries that write them. Where nobody is between those queries this is `Settled`.

**Barter** (`Barter_proofs`).
`TypeCorrect`, `BooksBalance`, `ItemsHaveOneOwner`, `NobodyOverdrawn` (through `FundsInv`: a payment about to be written has been found covered, and as
long as nothing was stale that still is so), `DebtsFollowOwners` (through `DebtInv`: every item has had one NPC as its seller,
and a debt names it; a session is resumed for its own item only).
`BooksBalance` is about a sum: what an NPC has not been paid for is the sum of the prices of the calls that have handed its
item over and not yet paid. `InFlight` folds over a set of calls in an order that CHOOSE gives, so the
module first proves that the fold is a sum: whatever order it takes, adding or removing a call adds or removes its price
(`SumsAgree`, `TotalWithout`). This is an induction over finite sets, done without the library's induction theorems: a smallest set
with two sums is taken from the well-founded order of finite sets by inclusion, and led to a contradiction. `BooksInv` then adds that
the calls in flight are finitely many, although `Calls` may be infinite, and that a call names its seller only
after it has found it among the owners. `ItemsHaveOneOwner` (`OneOwner`, of the proof module) rests on `OwnerInv`: whoever has come
to own an item since a trade looked is the player, to whom it goes anyway.

**Dialogue memory** (`DialogueMemory_proofs`).
`TypeCorrect` (with `ProcessInv`: sessions are saved only while nothing else is under way), `RelationsAreKept` (`RelationInv`:
what a transaction read is still so unless two crossed), `MoodsAreKept` (`MoodInv`: the graph has what was written, memory
that and more, and the only pending write carries the mood in memory), `TurnsAreOnce` (with `UnsaidInv`: a turn
that is not stored yet is nowhere), `ForgetsOnlyTheRemembered` (`ReadInv`: while a consolidation is under way every turn was read by it,
stored since, or is in a memory), `SummariesAreOnce` (`OnceInv`: one consolidation at most, none of its turns has a memory yet).

**Schemes** (`Schemes_proofs`).
Every step is first shown to be one of four kinds (`StepKinds`: a pass takes a batch, writes a step, drops something, or
nobody's pass moves). `StepsAreBounded` comes from `BoundInv` and `LateInv`: a step in hand counts like one already there, since
each worker that holds a scheme read fewer than `MAX_SCHEME_STEPS` of its steps and adds one at the most; the detecting worker
holds nothing, which is why one less than the number of workers can come late. `StepsAreNumbered` comes from `NumInv`: while one pass
has a scheme in hand, the count it read is the true one.

**Intents** (`ConversationIntents_proofs`).
`TypeCorrect`; `DeliveriesAreOnce` through `OnceInv`: an id that never had two nodes has at most its first one (`Untwinned`), and of
such ids (`HandedOutOnce`) what was given to a client stays marked, what a poll has in hand is in the
queue and has not been given to anybody, and two polls have nothing in common, since they are for different players.
`CapIsKept` through `CapInv`: one pass at most; before a merge there is a place, and before an eviction there is one but for the victim,
which stays true when intents leave the queue meanwhile. `EvictionsAreForBetter` adds `BetterInv`: the intent in hand is new, its
victim is the lowest of those that wait, and the intents no worse than the best one given up number at least `Cap`, the one in hand
included.

Every formula these theorems state was checked with TLC before it was proved. So were the strengthenings of the
gate, the leases, the scheduler and the intents, and `SoloInv`, `StraightInv`, `BooksInv` and `OwnerInv`; the others
rest on the prover alone.

Only model-checked: the liveness properties `EveryClockArrives`, `SchemesEnd` and `AllDelivered`, since liveness under fairness
is out of the prover's reach like ENABLED. `ReplaysAgree` (section 5) is false.

## 5. What does not hold

**The gate.** `docs/API.md:65`: "Replaying the same key with the same payload returns the original stored response".
The run `idempotency_replays` refutes `ReplaysAgree`: a handler takes longer than the pending timeout,
a retry takes its record over (service_helpers.py:97) and runs the handler again; the first attempt finalizes
the record and a client is given its response as a replay; then the second attempt finalizes the same
record (CYPHER_MARK_COMPLETE matches on the hash alone) and later replays return the other response. The
handler has run twice. `DuplicateNeedsTimeout` says that an attempt whose pending window closed before its response was
stored, because the handler was slow or raised, a store call failed or the worker died, is the
only way to get there within a retention period.

A response may also be stored under another payload: a finalizer has matched its record, the record is taken over for another
payload before the lock, and the SET does not test the hash again. It takes a takeover that was decided on before the
record expired and was created anew, so it is rare; `AnswersAreGenuine` names it (`crossed`).

The models of the other components keep the following behaviour of the code, and their properties are stated so
as to say what is left to rely on. Each can be seen by dropping the named condition from the property.

**Leases.**
* Two workers that both match an expired or failed lease before either has set it both get `claimed = true`, run
  the engine at the same time and to the end: TRY_CLAIM (tick_lease_queries.py:25-38) decides on the matched node and does not test again
  under the lock. `ExclusiveRun` and `RerunsCostFaults` name these leases (`stale`). The docstring of `try_claim` promises
  "False if already owned by another worker or already completed" (tick_lease.py:69-70); that is so where claims do not overlap.
* A claim that had matched the lease before a late `mark_done` turns a done tick back into a claimed one, and a `mark_failed` may expire a
  lease that somebody has claimed meanwhile. `DoneIsFinal` names them too. The clock does not suffer: `NoTickSilentlySkipped` holds without exception.
* With prompt queries all this takes an attempt that was cut short, by a failing or slow engine, a store error or a crash:
  `CleanTicksRunOnce`.

**Quests.**
* Two payers at once both find the first transfer of the rewards unwritten, and write it twice: the key of a
  transfer is looked up by a query, with no constraint behind it. `RewardsOnce` therefore speaks of one payer
  at a time, and `LaterTransfersOnce` of the transfers after the first, which the lock of the first protects.
* A status document is written back whole: a caller that read it before the rewards were paid takes
  `rewards_applied` away again. The money stays where it is, since the transfers are found by key.
* The `status` of a Quest node is one for all players. A quest of a chain that one player has completed is completed
  for the next one too, and evaluating a completed quest again raises once its successor has been accepted.
* A crash between the completion and the resolution of its consequences leaves the chain closed until the quest is
  evaluated again; after a failure nothing evaluates it again. `EXPIRED` is assigned nowhere and `fail_quest` has no caller in `src/`.

**Barter.**
* `trade_engine.py:55` says "atomically", and the code moves the item in one transaction and the currency in a
  second one: a crash between them, or a balance below the agreed price, gives the item away unpaid. The item
  moves to the buyer first, and no step takes it back.
* A session in `pending_confirm` keeps its status when a lower offer arrives; the fair price, which the trade
  computes anew, is what protects the seller. Offers between the NPC's threshold (down to 85 %) and the fair price are accepted in the
  conversation and refused by the trade, while the client ignores `accepted` and shows "Trade complete!"
  (quest_trade_controller.py:163).
* A proposal that comes with a move is posted twice, and may leave two debts. A deferral hands nothing over; the panel shows
  "DEFERRED — debt recorded" whether or not the debt was written (trade_panel.py:196). The session is not cleared
  after a trade.
* Two payments that read the same balance can overdraw it; `NoOverdraft` holds as long as none has met a
  balance that changed after it was read. The gate would stop repeated posts, but is off by default on these routes.

**Dialogue memory.**
* The saved turns of a session that was cleared are not deleted, and come back with the next restart. A session that has
  expired and is still in the dictionary is saved with the others and comes back alive.
* The tick's consolidation and the admin route's may overlap: both summarise the same turns. `SummarisedOnce`
  speaks of one at a time.
* The deltas of a relation are lost when two calls of one player cross, and the write-throughs of a mood can land out of
  order; `RelationKept` and `MoodKept` say that crossing is the only way.
* A call that fails after the relation or the mood has moved leaves it moved without a turn, and its repetition moves
  it once more.
* The admin route's docstring speaks of the session of one NPC and one player; the handler consolidates every
  player's session and uses neither `player_id` nor `turn_threshold` (api/routes/knowledge/memories.py:265-286).

**Schemes.**
* W workers write up to W - 1 steps more than `MAX_SCHEME_STEPS`, which the comment at config.py:218 calls
  a maximum; numbers are given twice and then skipped; a step may be written after the scheme was
  discovered. `StepsBounded` and `NumberedOnce` give the bound that is left.
* As many owners without a location as a tick takes keep every other scheme from advancing:
  `SchemesEnd` asks that there are fewer of them, and speaks of the owners that are somewhere.
* `update_character_location` says that it does nothing when the Location is missing (routine_queries.py:91); its
  query deletes the old LOCATED_AT edge before it looks for the new Location, and the NPC is nowhere.

**Intents.**
* Two workers that run the same tick at once can create two nodes for one intent, since MERGE is under no constraint; a poll with a limit
  above one, or two polls, give it to the player twice. `DeliveredOnce` names these ids (`twinned`).
* The cap is enforced before anybody asks whether the intent is in the queue already: a tick that is repeated, or run
  by a second worker, evicts an intent for one that MERGE then finds, and nothing takes its place.
* Two passes that both find room exceed the cap, and two passes that choose the same victim delete one intent and add two. So the
  excess grows by one with each such pair, whatever the number of workers, and goes only by delivery or expiry.
* When the queue is emptied between the count and the search for the lowest, the new intent is dropped although there is room.
* The victim of an eviction is deleted even if a poll has marked it since; a repeated tick may then form it anew, and it is
  delivered twice. So it may when two polls of a player overlap, of which the client's own time-out is enough.
* Intents are marked before the answer leaves: an answer that is lost takes them with it. The demo window shows only
  the best of the intents it has received and drops the others (`_poll_intent_queue`, game_window.py:605).

## 6. Not modelled, and the plan

Left out for good: ranking, embeddings, prompts and model output, schemas, type registry, dashboards, the
demo game's screens, seeds, evaluations, set-up and migration scripts, and request validation. This is most of the
repository by lines, and nearly all of it is data and wording: straight-line code that reads, formats or
draws, where a model would repeat the text and no interleaving or failure could tell a good version from a bad one. The
models cover the places where state outlives a call and more than one actor writes it, which is a small share of the lines.

Left out of the modelled components:
* scheduler: the path without leases (`SchedulerState`), game seconds and the advance by wall clock;
* quests: the route that stores a choice, which does not look at the state of the quest; the session limit of transfers;
* barter: the wording of counter-offers, and how the model's answer becomes a move (any move may come);
* dialogue memory: memories made at once from an aroused turn, phase transitions, knowledge, and the time-outs after
  which a turn degrades;
* schemes: the cap on new schemes (form_scheme) and the routine overrides;
* intents: who is beside whom, and how needs, events and goals are scored.

Next, in this order:

1. The local tick path, game seconds, and the fields of `WorldState` that three writers write back whole.
2. `Reconciler` (embeddings made stale and made again).
3. `RateLimiter`, the context budget and the degradation tiers of a turn.
4. Treaties, oaths and succession under repeated ticks.
