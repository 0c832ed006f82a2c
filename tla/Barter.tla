------------------------------- MODULE Barter -------------------------------
(***************************************************************************)
(* A player haggles with NPCs over items and buys them.                    *)
(*                                                                         *)
(* The server keeps one negotiation session for the player, in memory      *)
(* (engines/interaction/trade_handler.py), and writes a debt when payment  *)
(* is deferred (api/routes/dialogue/interaction.py).  The player confirms  *)
(* what the demo's trade panel shows (demo_game/quest_trade_controller.py),*)
(* and the server then moves the item in one transaction and the money in  *)
(* another (engines/economy/trade_engine.py), whatever the session says.   *)
(* The client sends one request at a time but gives up waiting; the server *)
(* goes on.                                                                *)
(*                                                                         *)
(* Assumed of the store: a transfer query evaluates its MATCH and WHERE on *)
(* committed data, and writes later, under locks.  An edge it deletes may  *)
(* be gone by then; a balance is changed relative to its value of then.    *)
(***************************************************************************)
EXTENDS Integers, FiniteSetsExt

CONSTANTS
    Npcs,
    Player,
    Items,
    Calls,        \* trade calls, each made once
    Prices,       \* what the pricing engine may come up with
    Deltas,       \* percentages by which a turn may shift the band
    Offers,       \* amounts the language model may put in a proposal
    Gold,         \* what the player owns at first
    MaxDebts,     \* bound on debts: a debt more fails to be written
    NoSession, Nobody

ASSUME BarterAssumption ==
    /\ Player \notin Npcs
    /\ Prices \subseteq Nat /\ Offers \subseteq Nat /\ Deltas \subseteq Int
    /\ Gold \in Nat /\ MaxDebts \in Nat
    /\ Nobody \notin Calls \cup Npcs

Characters == Npcs \cup {Player}

VARIABLES
    session,   \* the NegotiationSession of the player
    panel,     \* the button of the trade panel
    partner,   \* the NPC the panel trades with
    awaited,   \* the trade call whose answer the client waits for
    owners,    \* OWNS edges to each item
    purse,     \* currency_balance
    debts,     \* HAS_DEBT edges of the player
    job,       \* what each trade call is about to do
    due,       \* price of the goods each NPC has not been paid for (history)
    stale,     \* did a transfer write upon what was no longer so (history)
    broken,    \* did a trade end between its two transfers (history)
    strayed    \* did an NPC propose what it does not own, or an item change
               \* hands outside a trade (history)

client  == <<panel, partner, awaited>>
goods   == <<owners, purse>>
history == <<due, stale, broken, strayed>>
vars    == <<session, client, goods, debts, job, history>>

-----------------------------------------------------------------------------
Statuses == {"open", "pending_confirm", "accepted"}

\* An offer of 0 stands for no offer as well: the client treats them alike.
\* The moves made and the seller are left out: only a prompt and a status line
\* read them.
Session == [item : Items, center : Nat, threshold : Nat, band : -10..15,
            offer : Nat, status : Statuses]

Move(kind, amount) == [kind |-> kind, amount |-> amount]

NoMove == Move("none", 0)

Moves == {NoMove, Move("defer", 0)} \cup {Move("offer", a) : a \in Offers}

Opened(i, price) ==
    [item |-> i, center |-> price, threshold |-> price,
     band |-> 0, offer |-> 0, status |-> "open"]

\* The panel's button, and what CONFIRM TRADE will post: the last offer, or else
\* the threshold.
Empty == [button |-> "none"]

Snapshot(s) ==
    IF s = NoSession \/ s.status = "accepted" THEN Empty
    ELSE IF s.status = "open" THEN [button |-> "offer"]
    ELSE [button |-> "confirm", item |-> s.item,
          price |-> IF s.offer # 0 THEN s.offer ELSE s.threshold]

\* Mutant: any session that is not over is resumed, whatever its item.
OpenOrResumeMutant(s, i, price) ==
    IF s = NoSession \/ s.status = "accepted" THEN Opened(i, price) ELSE s

OpenOrResume(s, i, price) ==
    IF s = NoSession \/ s.item # i \/ s.status = "accepted" THEN Opened(i, price) ELSE s

CurrencyOffer(s, amount) ==
    [s EXCEPT !.offer = amount,
              !.status = IF amount >= s.threshold THEN "pending_confirm" ELSE @]

ProcessMove(s, move) ==
    CASE move.kind = "none"  -> s
      [] move.kind = "defer" -> [s EXCEPT !.status = "accepted"]
      [] move.kind = "offer" -> CurrencyOffer(s, move.amount)

Clamp(low, x, high) == IF x < low THEN low ELSE IF x > high THEN high ELSE x

AtLeastOne(x) == IF x < 1 THEN 1 ELSE x

\* Mutant: the band is not clamped.
BandShiftedMutant(s, delta) ==
    LET b == s.band + delta IN
    [s EXCEPT !.band = b, !.threshold = AtLeastOne((s.center * (100 - b)) \div 100)]

BandShifted(s, delta) ==
    LET b == Clamp(-10, s.band + delta, 15) IN
    [s EXCEPT !.band = b, !.threshold = AtLeastOne((s.center * (100 - b)) \div 100)]

-----------------------------------------------------------------------------
At(c, step) == job[c].at = step

New  == [at |-> "new"]
Done == [at |-> "done"]

Trade == [at : {"item", "hand", "funds", "pay"}, item : Items, seller : Npcs,
          price : Nat, seen : SUBSET Characters, funds : Int]

Leave(c) == job' = [job EXCEPT ![c] = Done]

HandedOver(c) == At(c, "funds") \/ At(c, "pay")

Init ==
    /\ session = NoSession
    /\ panel = Empty
    /\ partner = Nobody
    /\ awaited = Nobody
    /\ owners \in [Items -> {{n} : n \in Npcs}]
    /\ purse = [ch \in Characters |-> IF ch = Player THEN Gold ELSE 0]
    /\ debts = {}
    /\ job = [c \in Calls |-> New]
    /\ due = [n \in Npcs |-> 0]
    /\ stale = FALSE /\ broken = FALSE /\ strayed = FALSE

-----------------------------------------------------------------------------
\* POST /interaction with propose_trade: the sessions it may leave, and the debts,
\* for the debt is written after the move and a failure to write it only logged.
ProposeTrade(s, n, i, move) ==
    {ProcessMove(OpenOrResume(s, i, price), move) : price \in Prices}

Owing(owed, n, s, move) ==
    IF move.kind = "defer" /\ Cardinality(owed) < MaxDebts
    THEN {owed, owed \cup {<<n, s.item>>}} ELSE {owed}

\* What a lost answer does not do to the panel.
Shown(s) == panel' \in {panel, Snapshot(s)}

Strays(n, i) == strayed' = (strayed \/ n \notin owners[i])

\* The client opens the panel with an item the NPC owns, if it has one.
OpenTrade(s, owed, n, move) ==
    /\ partner' = n
    /\ \/ /\ session' = s /\ debts' = owed
          /\ UNCHANGED panel
       \/ \E k \in Items :
            /\ n \in owners[k]
            /\ session' \in ProposeTrade(s, n, k, move)
            /\ debts' \in Owing(owed, n, session', move)
            /\ Shown(session')

\* A dialogue turn proposes a trade in whatever item the model names.  The client
\* posts the proposal; when that is answered it opens the panel, and so posts
\* the move once more.
DispatchProposal(n, i, move) ==
    /\ awaited = Nobody
    /\ Strays(n, i)
    /\ \E s \in ProposeTrade(session, n, i, move) :
         \E owed \in Owing(debts, n, s, move) :
           \/ /\ session' = s /\ debts' = owed
              /\ UNCHANGED <<panel, partner>>
           \/ OpenTrade(s, owed, n, move)
    /\ UNCHANGED <<awaited, goods, job, due, stale, broken>>

\* The player asks to trade.
OpenTradeFallback(n) ==
    /\ awaited = Nobody
    /\ OpenTrade(session, debts, n, NoMove)
    /\ UNCHANGED <<awaited, goods, job, history>>

OfferAskingPrice ==
    /\ awaited = Nobody
    /\ panel.button = "offer"
    /\ session' = IF session # NoSession /\ session.status = "open"
                  THEN CurrencyOffer(session, session.threshold) ELSE session
    /\ Shown(session')
    /\ UNCHANGED <<partner, awaited, goods, debts, job, history>>

UpdateBand(delta) ==
    /\ awaited = Nobody
    /\ session # NoSession /\ session.status = "open"
    /\ session' = BandShifted(session, delta)
    /\ UNCHANGED <<client, goods, debts, job, history>>

-----------------------------------------------------------------------------
\* The player confirms what the panel shows.  The server asks for its own fair
\* price; the client takes a refusal for success.
ConfirmTrade(c) ==
    /\ awaited = Nobody
    /\ panel.button = "confirm"
    /\ \E fair \in Prices : panel.price >= fair
    /\ At(c, "new")
    /\ awaited' = c
    /\ job' = [job EXCEPT ![c] = [at |-> "item", item |-> panel.item, seller |-> partner,
                                  price |-> panel.price, seen |-> {}, funds |-> 0]]
    /\ UNCHANGED <<session, panel, partner, goods, debts, history>>

ConfirmRefused ==
    /\ awaited = Nobody
    /\ panel.button = "confirm"
    /\ \E fair \in Prices : panel.price < fair
    /\ panel' = Empty
    /\ UNCHANGED <<session, partner, awaited, goods, debts, job, history>>

GiveUpWaiting ==
    /\ awaited # Nobody
    /\ awaited' = Nobody
    /\ UNCHANGED <<session, panel, partner, goods, debts, job, history>>

Answered(c) == awaited' = IF awaited = c THEN Nobody ELSE awaited

\* A call raises: the client keeps its panel.
Raise(c) ==
    /\ \/ /\ At(c, "item") /\ job[c].seller \notin owners[job[c].item]
          /\ broken' = broken
       \/ /\ At(c, "hand") /\ job[c].seen # owners[job[c].item]
          /\ broken' = broken
       \/ /\ At(c, "funds") /\ purse[Player] < job[c].price
          /\ broken' = TRUE
    /\ Leave(c) /\ Answered(c)
    /\ UNCHANGED <<session, panel, partner, goods, debts, due, stale, strayed>>

\* transfer_item_atomic, reading and writing.
MatchOwner(c) ==
    LET j == job[c] IN
    /\ At(c, "item") /\ j.seller \in owners[j.item]
    /\ job' = [job EXCEPT ![c].at = "hand", ![c].seen = owners[j.item]]
    /\ UNCHANGED <<session, client, goods, debts, history>>

TransferItem(c) ==
    LET j == job[c] IN
    /\ At(c, "hand")
    /\ owners' = [owners EXCEPT ![j.item] = (@ \ j.seen) \cup {Player}]
    /\ due' = IF j.seller \in owners[j.item] THEN [due EXCEPT ![j.seller] = @ + j.price]
                                             ELSE due
    /\ stale' = (stale \/ owners[j.item] # j.seen)
    /\ job' = [job EXCEPT ![c].at = "funds", ![c].seen = {}]
    /\ UNCHANGED <<session, client, purse, debts, broken, strayed>>

\* Mutant: the balance is not compared with the amount.
MatchFundsMutant(c) ==
    /\ At(c, "funds")
    /\ job' = [job EXCEPT ![c].at = "pay", ![c].funds = purse[Player]]
    /\ UNCHANGED <<session, client, goods, debts, history>>

\* transfer_currency_atomic, reading and writing.
MatchFunds(c) ==
    /\ At(c, "funds") /\ purse[Player] >= job[c].price
    /\ job' = [job EXCEPT ![c].at = "pay", ![c].funds = purse[Player]]
    /\ UNCHANGED <<session, client, goods, debts, history>>

\* Mutant: the payment is made again when its answer is lost.
TransferCurrencyMutant(c) ==
    LET j == job[c] IN
    /\ At(c, "pay")
    /\ purse' = [purse EXCEPT ![Player] = @ - j.price, ![j.seller] = @ + j.price]
    /\ due' = [due EXCEPT ![j.seller] = @ - j.price]
    /\ stale' = (stale \/ purse[Player] # j.funds)
    /\ job' = [job EXCEPT ![c].at = "funds"]
    /\ UNCHANGED <<session, client, owners, debts, broken, strayed>>

TransferCurrency(c) ==
    LET j == job[c] IN
    /\ At(c, "pay")
    /\ purse' = [purse EXCEPT ![Player] = @ - j.price, ![j.seller] = @ + j.price]
    /\ due' = [due EXCEPT ![j.seller] = @ - j.price]
    /\ stale' = (stale \/ purse[Player] # j.funds)
    /\ Leave(c) /\ Answered(c)
    /\ panel' = IF awaited = c THEN Empty ELSE panel
    /\ UNCHANGED <<session, partner, owners, debts, broken, strayed>>

-----------------------------------------------------------------------------
\* The server restarts: sessions and calls are gone.
Restart ==
    /\ session' = NoSession
    /\ job' = [c \in Calls |-> IF At(c, "new") THEN New ELSE Done]
    /\ awaited' = Nobody
    /\ broken' = (broken \/ \E c \in Calls : HandedOver(c))
    /\ UNCHANGED <<panel, partner, goods, debts, due, stale, strayed>>

\* PATCH /items/{id}/owner, whether or not the giver owns the item (bound: once,
\* before anything else has strayed and before the first trade call).
TransferOwnership(i, from, to) ==
    /\ owners' = [owners EXCEPT ![i] = (@ \ {from}) \cup {to}]
    /\ \A c \in Calls : At(c, "new")
    /\ ~strayed /\ strayed' = TRUE
    /\ UNCHANGED <<session, client, purse, debts, job, due, stale, broken>>

Next ==
    \/ \E n \in Npcs :
         \/ OpenTradeFallback(n)
         \/ \E i \in Items, move \in Moves : DispatchProposal(n, i, move)
    \/ OfferAskingPrice \/ \E delta \in Deltas : UpdateBand(delta)
    \/ ConfirmRefused \/ GiveUpWaiting
    \/ \E c \in Calls :
         \/ ConfirmTrade(c) \/ Raise(c)
         \/ MatchOwner(c) \/ TransferItem(c) \/ MatchFunds(c) \/ TransferCurrency(c)
    \/ Restart
    \/ \E i \in Items, from, to \in Npcs : TransferOwnership(i, from, to)

Spec == Init /\ [][Next]_vars

-----------------------------------------------------------------------------
TypeOK ==
    /\ session \in Session \cup {NoSession}
    /\ \/ panel \in [button : {"none", "offer"}]
       \/ panel \in [button : {"confirm"}, item : Items, price : Nat]
    /\ panel.button # "none" => partner # Nobody
    /\ partner \in Npcs \cup {Nobody}
    /\ awaited \in Calls \cup {Nobody}
    /\ owners \in [Items -> SUBSET Characters]
    /\ purse \in [Characters -> Int]
    /\ debts \subseteq Npcs \X Items
    /\ job \in [Calls -> {New, Done} \cup Trade]
    /\ due \in [Npcs -> Int]
    /\ stale \in BOOLEAN /\ broken \in BOOLEAN /\ strayed \in BOOLEAN

\* What is in flight between the two transfers of a trade.
InFlight(n) == MapThenSumSet(LAMBDA c : job[c].price,
                             {c \in Calls : HandedOver(c) /\ job[c].seller = n})

\* However often a trade is confirmed again after a timeout, every seller is
\* paid for each item handed over, once and not before, unless a trade ended
\* between its two transfers (then less) or two transfers of one item overlapped.
Books ==
    ~stale => \A n \in Npcs :
        /\ due[n] >= InFlight(n)
        /\ ~broken => due[n] = InFlight(n)

\* Nobody goes into debt by a transfer unless two payments overlapped.
NoOverdraft == ~stale => \A ch \in Characters : purse[ch] >= 0

\* A debt for an item is owed to the NPC who had it to sell, although one move
\* is posted twice and a session may be resumed, as long as NPCs propose what
\* they own and items change hands by trade only.
DebtsOwedToOwner ==
    ~strayed => \A d \in debts : owners[d[2]] \subseteq {d[1], Player}

=============================================================================
