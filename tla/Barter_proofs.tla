--------------------------- MODULE Barter_proofs ---------------------------
(***************************************************************************)
(* Proofs about bartering, for any number of NPCs, items and trade calls,  *)
(* any prices, offers and deltas.  The books are a sum over the calls in   *)
(* flight; what is needed of finite sums is proved here.                   *)
(***************************************************************************)
EXTENDS Barter, FiniteSetTheorems, TLAPS

-----------------------------------------------------------------------------
(* What the session operators build.                                       *)

LEMMA OpenedType ==
    ASSUME NEW s \in Session \cup {NoSession}, NEW i \in Items, NEW price \in Nat
    PROVE  /\ OpenOrResume(s, i, price) \in Session
           /\ OpenOrResume(s, i, price).item = i
<1>1. CASE s = NoSession \/ s.item # i \/ s.status = "accepted"
  <2>1. 0 \in -10..15 /\ 0 \in Nat
    OBVIOUS
  <2>. QED
    BY <1>1, <2>1 DEF OpenOrResume, Opened, Session, Statuses
<1>2. CASE ~(s = NoSession \/ s.item # i \/ s.status = "accepted")
  BY <1>2 DEF OpenOrResume
<1>. QED
  BY <1>1, <1>2

LEMMA OfferType ==
    ASSUME NEW s \in Session, NEW amount \in Nat
    PROVE  /\ CurrencyOffer(s, amount) \in Session
           /\ CurrencyOffer(s, amount).item = s.item
BY DEF CurrencyOffer, Session, Statuses

LEMMA MoveType ==
    ASSUME NEW s \in Session, NEW move \in Moves
    PROVE  ProcessMove(s, move) \in Session /\ ProcessMove(s, move).item = s.item
<1>1. CASE move.kind = "none"
  BY <1>1 DEF ProcessMove
<1>2. CASE move.kind = "defer"
  <2>1. ProcessMove(s, move) = [s EXCEPT !.status = "accepted"]
    BY <1>2 DEF ProcessMove
  <2>. QED
    BY <2>1 DEF Session, Statuses
<1>3. CASE move.kind = "offer"
  <2>1. move.amount \in Nat
    BY <1>3, BarterAssumption DEF Moves, Move, NoMove
  <2>2. ProcessMove(s, move) = CurrencyOffer(s, move.amount)
    BY <1>3 DEF ProcessMove
  <2>. QED
    BY <2>1, <2>2, OfferType
<1>. QED
  BY <1>1, <1>2, <1>3 DEF Moves, Move, NoMove

LEMMA BandType ==
    ASSUME NEW s \in Session, NEW delta \in Int
    PROVE  BandShifted(s, delta) \in Session
<1>. DEFINE b == Clamp(-10, s.band + delta, 15)
<1>1. s.band \in -10..15 /\ s.center \in Nat
  BY DEF Session
<1>2. b \in -10..15
  BY <1>1 DEF Clamp
<1>3. s.center * (100 - b) \in Int
  BY <1>1, <1>2
<1>4. (s.center * (100 - b)) \div 100 \in Int
  <2>. DEFINE x == s.center * (100 - b)
  <2>1. \A y \in Int : y \div 100 \in Int
    OBVIOUS
  <2>. QED
    BY <1>3, <2>1
<1>5. AtLeastOne((s.center * (100 - b)) \div 100) \in Nat
  <2>1. \A y \in Int : AtLeastOne(y) \in Nat
    BY DEF AtLeastOne
  <2>. QED
    BY <1>4, <2>1
<1>6. BandShifted(s, delta)
        = [s EXCEPT !.band = b, !.threshold = AtLeastOne((s.center * (100 - b)) \div 100)]
  BY DEF BandShifted
<1>. HIDE DEF b
<1>. QED
  BY <1>2, <1>5, <1>6 DEF Session

LEMMA ProposalType ==
    ASSUME NEW s \in Session \cup {NoSession}, NEW n, NEW i \in Items, NEW move \in Moves,
           NEW t \in ProposeTrade(s, n, i, move)
    PROVE  t \in Session /\ t.item = i
<1>1. PICK price \in Prices : t = ProcessMove(OpenOrResume(s, i, price), move)
  BY DEF ProposeTrade
<1>2. price \in Nat
  BY BarterAssumption
<1>. QED
  BY <1>1, <1>2, OpenedType, MoveType

LEMMA OwingType ==
    ASSUME NEW owed, NEW n, NEW s, NEW move, NEW owed2 \in Owing(owed, n, s, move)
    PROVE  owed2 = owed \/ owed2 = owed \cup {<<n, s.item>>}
BY DEF Owing

-----------------------------------------------------------------------------
(* Types.                                                                  *)

PanelOK(p) ==
    \/ p \in [button : {"none", "offer"}]
    \/ p \in [button : {"confirm"}, item : Items, price : Nat]

LEMMA SnapshotType ==
    ASSUME NEW s \in Session \cup {NoSession}
    PROVE  PanelOK(Snapshot(s))
<1>1. CASE s = NoSession \/ s.status = "accepted"
  BY <1>1 DEF Snapshot, Empty, PanelOK
<1>2. CASE ~(s = NoSession \/ s.status = "accepted") /\ s.status = "open"
  BY <1>2 DEF Snapshot, PanelOK
<1>3. CASE ~(s = NoSession \/ s.status = "accepted") /\ s.status # "open"
  <2>1. s \in Session
    BY <1>3
  <2>2. s.item \in Items /\ s.offer \in Nat /\ s.threshold \in Nat
    BY <2>1 DEF Session
  <2>3. Snapshot(s) = [button |-> "confirm", item |-> s.item,
                       price |-> IF s.offer # 0 THEN s.offer ELSE s.threshold]
    BY <1>3 DEF Snapshot
  <2>. QED
    BY <2>2, <2>3 DEF PanelOK
<1>. QED
  BY <1>1, <1>2, <1>3

LEMMA PanelType ==
    ASSUME TypeOK, NEW s \in Session \cup {NoSession}, Shown(s)
    PROVE  PanelOK(panel')
BY SnapshotType DEF TypeOK, Shown, PanelOK

LEMMA OpenTradeType ==
    ASSUME TypeOK, NEW n \in Npcs, NEW s \in Session \cup {NoSession}, NEW owed, owed \subseteq Npcs \X Items,
           NEW move \in Moves, OpenTrade(s, owed, n, move)
    PROVE  /\ session' \in Session \cup {NoSession}
           /\ PanelOK(panel') /\ partner' = n
           /\ debts' \subseteq Npcs \X Items
<1>1. partner' = n
  BY DEF OpenTrade
<1>2. CASE session' = s /\ debts' = owed /\ UNCHANGED panel
  BY <1>1, <1>2 DEF TypeOK, PanelOK
<1>3. ASSUME NEW k \in Items, session' \in ProposeTrade(s, n, k, move),
             debts' \in Owing(owed, n, session', move), Shown(session')
      PROVE  /\ session' \in Session
             /\ PanelOK(panel')
             /\ debts' \subseteq Npcs \X Items
  <2>1. session' \in Session /\ session'.item = k
    BY <1>3, ProposalType
  <2>2. PanelOK(panel')
    BY <1>3, <2>1, PanelType
  <2>3. debts' = owed \/ debts' = owed \cup {<<n, k>>}
    BY <1>3, <2>1, OwingType
  <2>. QED
    BY <2>1, <2>2, <2>3
<1>. QED
  BY <1>1, <1>2, <1>3 DEF OpenTrade

LEMMA JobType ==
    ASSUME TypeOK, NEW c \in Calls, ~At(c, "new"), ~At(c, "done")
    PROVE  job[c] \in Trade
BY DEF TypeOK, At, New, Done

LEMMA TypeInit == Init => TypeOK
<1>. SUFFICES ASSUME Init PROVE TypeOK
  OBVIOUS
<1>1. owners \in [Items -> SUBSET Characters]
  BY DEF Init, Characters
<1>2. purse \in [Characters -> Int] /\ due \in [Npcs -> Int]
  BY BarterAssumption DEF Init
<1>3. panel \in [button : {"none", "offer"}] /\ panel.button = "none"
  BY DEF Init, Empty
<1>. QED
  BY <1>1, <1>2, <1>3 DEF Init, TypeOK

LEMMA TypeStep == TypeOK /\ [Next]_vars => TypeOK'
<1>. SUFFICES ASSUME TypeOK, [Next]_vars PROVE TypeOK'
  OBVIOUS
<1>. USE BarterAssumption
<1>1. CASE UNCHANGED vars
  BY <1>1 DEF vars, client, goods, history, TypeOK
<1>2. ASSUME NEW n \in Npcs, OpenTradeFallback(n) PROVE TypeOK'
  <2>1. OpenTrade(session, debts, n, NoMove) /\ NoMove \in Moves
    BY <1>2 DEF OpenTradeFallback, Moves
  <2>2. /\ session' \in Session \cup {NoSession}
        /\ PanelOK(panel') /\ partner' = n
        /\ debts' \subseteq Npcs \X Items
    BY <2>1, OpenTradeType DEF TypeOK
  <2>. QED
    BY <1>2, <2>2 DEF OpenTradeFallback, goods, history, TypeOK, PanelOK
<1>3. ASSUME NEW n \in Npcs, NEW i \in Items, NEW move \in Moves, DispatchProposal(n, i, move)
      PROVE  TypeOK'
  <2>0. PICK s \in ProposeTrade(session, n, i, move) :
          \E owed \in Owing(debts, n, s, move) :
            \/ session' = s /\ debts' = owed /\ UNCHANGED <<panel, partner>>
            \/ OpenTrade(s, owed, n, move)
    BY <1>3 DEF DispatchProposal
  <2>1. PICK owed \in Owing(debts, n, s, move) :
          \/ session' = s /\ debts' = owed /\ UNCHANGED <<panel, partner>>
          \/ OpenTrade(s, owed, n, move)
    BY <2>0
  <2>2. s \in Session /\ s.item = i
    BY <2>1, ProposalType DEF TypeOK
  <2>3. owed \subseteq Npcs \X Items
    BY <2>1, <2>2, OwingType DEF TypeOK
  <2>4. /\ session' \in Session \cup {NoSession}
        /\ PanelOK(panel') /\ debts' \subseteq Npcs \X Items
        /\ partner' \in Npcs \cup {Nobody}
        /\ panel'.button # "none" => partner' # Nobody
    <3>1. CASE session' = s /\ debts' = owed /\ UNCHANGED <<panel, partner>>
      BY <2>2, <2>3, <3>1 DEF TypeOK, PanelOK
    <3>2. CASE OpenTrade(s, owed, n, move)
      BY <2>2, <2>3, <3>2, OpenTradeType
    <3>. QED
      BY <2>1, <3>1, <3>2
  <2>5. strayed' \in BOOLEAN
    BY <1>3 DEF DispatchProposal, Strays
  <2>. QED
    BY <1>3, <2>4, <2>5 DEF DispatchProposal, goods, TypeOK, PanelOK
<1>4. CASE OfferAskingPrice
  <2>1. session' \in Session \cup {NoSession}
    <3>1. ASSUME session # NoSession
          PROVE  CurrencyOffer(session, session.threshold) \in Session
      <4>1. session \in Session /\ session.threshold \in Nat
        BY <3>1 DEF TypeOK, Session
      <4>. QED
        BY <4>1, OfferType
    <3>. QED
      BY <1>4, <3>1 DEF OfferAskingPrice, TypeOK
  <2>2. PanelOK(panel')
    BY <1>4, <2>1, PanelType DEF OfferAskingPrice
  <2>3. partner' # Nobody
    BY <1>4 DEF OfferAskingPrice, TypeOK
  <2>. QED
    BY <1>4, <2>1, <2>2, <2>3 DEF OfferAskingPrice, goods, history, TypeOK, PanelOK
<1>5. ASSUME NEW delta \in Deltas, UpdateBand(delta) PROVE TypeOK'
  <2>1. session \in Session /\ delta \in Int
    BY <1>5 DEF UpdateBand, TypeOK
  <2>2. session' \in Session
    BY <1>5, <2>1, BandType DEF UpdateBand
  <2>. QED
    BY <1>5, <2>2 DEF UpdateBand, client, goods, history, TypeOK
<1>6. CASE ConfirmRefused
  BY <1>6 DEF ConfirmRefused, Empty, goods, history, TypeOK
<1>7. CASE GiveUpWaiting
  BY <1>7 DEF GiveUpWaiting, goods, history, TypeOK
<1>8. ASSUME NEW c \in Calls, ConfirmTrade(c) PROVE TypeOK'
  <2>1. panel.item \in Items /\ panel.price \in Nat /\ partner \in Npcs
    BY <1>8 DEF ConfirmTrade, TypeOK
  <2>2. job' \in [Calls -> {New, Done} \cup Trade]
    BY <1>8, <2>1 DEF ConfirmTrade, TypeOK, Trade
  <2>. QED
    BY <1>8, <2>2 DEF ConfirmTrade, goods, history, TypeOK
<1>9. ASSUME NEW c \in Calls, Raise(c) PROVE TypeOK'
  <2>1. job' \in [Calls -> {New, Done} \cup Trade] /\ awaited' \in Calls \cup {Nobody}
    BY <1>9 DEF Raise, Leave, Answered, TypeOK
  <2>2. broken' \in BOOLEAN
    BY <1>9 DEF Raise, TypeOK
  <2>. QED
    BY <1>9, <2>1, <2>2 DEF Raise, goods, TypeOK
<1>10. ASSUME NEW c \in Calls, MatchOwner(c) PROVE TypeOK'
  <2>1. job[c] \in Trade /\ owners[job[c].item] \subseteq Characters
    BY <1>10, JobType DEF MatchOwner, At, TypeOK, Trade
  <2>2. job' \in [Calls -> {New, Done} \cup Trade]
    BY <1>10, <2>1 DEF MatchOwner, TypeOK, Trade
  <2>. QED
    BY <1>10, <2>2 DEF MatchOwner, client, goods, history, TypeOK
<1>11. ASSUME NEW c \in Calls, TransferItem(c) PROVE TypeOK'
  <2>1. job[c] \in Trade
    BY <1>11, JobType DEF TransferItem, At
  <2>2. job' \in [Calls -> {New, Done} \cup Trade]
    BY <1>11, <2>1 DEF TransferItem, TypeOK, Trade
  <2>3. owners' \in [Items -> SUBSET Characters]
    BY <1>11, <2>1 DEF TransferItem, TypeOK, Trade, Characters
  <2>4. due' \in [Npcs -> Int]
    BY <1>11, <2>1 DEF TransferItem, TypeOK, Trade
  <2>5. stale' \in BOOLEAN
    BY <1>11 DEF TransferItem
  <2>. QED
    BY <1>11, <2>2, <2>3, <2>4, <2>5 DEF TransferItem, client, TypeOK
<1>12. ASSUME NEW c \in Calls, MatchFunds(c) PROVE TypeOK'
  <2>1. job[c] \in Trade /\ purse[Player] \in Int
    BY <1>12, JobType DEF MatchFunds, At, TypeOK, Characters
  <2>2. job' \in [Calls -> {New, Done} \cup Trade]
    BY <1>12, <2>1 DEF MatchFunds, TypeOK, Trade
  <2>. QED
    BY <1>12, <2>2 DEF MatchFunds, client, goods, history, TypeOK
<1>13. ASSUME NEW c \in Calls, TransferCurrency(c) PROVE TypeOK'
  <2>1. job[c] \in Trade
    BY <1>13, JobType DEF TransferCurrency, At
  <2>2. job' \in [Calls -> {New, Done} \cup Trade] /\ awaited' \in Calls \cup {Nobody}
    BY <1>13 DEF TransferCurrency, Leave, Answered, TypeOK
  <2>3. purse' \in [Characters -> Int] /\ due' \in [Npcs -> Int]
    BY <1>13, <2>1 DEF TransferCurrency, TypeOK, Trade, Characters
  <2>4. PanelOK(panel') /\ (panel'.button # "none" => partner' # Nobody)
    BY <1>13 DEF TransferCurrency, Empty, TypeOK, PanelOK
  <2>5. stale' \in BOOLEAN
    BY <1>13 DEF TransferCurrency
  <2>. QED
    BY <1>13, <2>2, <2>3, <2>4, <2>5 DEF TransferCurrency, TypeOK, PanelOK
<1>14. CASE Restart
  <2>1. job' \in [Calls -> {New, Done} \cup Trade]
    BY <1>14 DEF Restart
  <2>2. broken' \in BOOLEAN
    BY <1>14 DEF Restart, TypeOK
  <2>. QED
    BY <1>14, <2>1, <2>2 DEF Restart, goods, TypeOK
<1>15. ASSUME NEW i \in Items, NEW from \in Npcs, NEW to \in Npcs, TransferOwnership(i, from, to)
       PROVE  TypeOK'
  <2>1. owners' \in [Items -> SUBSET Characters]
    BY <1>15 DEF TransferOwnership, TypeOK, Characters
  <2>. QED
    BY <1>15, <2>1 DEF TransferOwnership, client, TypeOK
<1>. QED
  BY <1>1, <1>2, <1>3, <1>4, <1>5, <1>6, <1>7, <1>8, <1>9, <1>10, <1>11, <1>12, <1>13, <1>14, <1>15 DEF Next

\* The variables of the negotiation, the panel and the trade calls keep their types.
THEOREM TypeCorrect == Spec => []TypeOK
BY TypeInit, TypeStep, PTL DEF Spec

-----------------------------------------------------------------------------
(* Money: a payment that is about to be written has been found covered.    *)

FundsInv ==
    /\ NoOverdraft
    /\ \A c \in Calls : At(c, "pay") => job[c].funds >= job[c].price

LEMMA FundsStep == TypeOK /\ FundsInv /\ [Next]_vars => FundsInv'
<1>. SUFFICES ASSUME TypeOK, FundsInv, [Next]_vars PROVE FundsInv'
  OBVIOUS
<1>. USE BarterAssumption
<1>1. ASSUME UNCHANGED <<purse, stale, job>> PROVE FundsInv'
  BY <1>1 DEF FundsInv, NoOverdraft, At
<1>2. CASE UNCHANGED vars
  BY <1>1, <1>2 DEF vars, goods, history
<1>3. ASSUME NEW n \in Npcs, OpenTradeFallback(n) PROVE FundsInv'
  BY <1>1, <1>3 DEF OpenTradeFallback, goods, history
<1>4. ASSUME NEW n \in Npcs, NEW i \in Items, NEW move \in Moves, DispatchProposal(n, i, move)
      PROVE  FundsInv'
  BY <1>1, <1>4 DEF DispatchProposal, goods
<1>5. ASSUME OfferAskingPrice \/ (\E delta \in Deltas : UpdateBand(delta))
               \/ ConfirmRefused \/ GiveUpWaiting
      PROVE  FundsInv'
  BY <1>1, <1>5 DEF OfferAskingPrice, UpdateBand, ConfirmRefused, GiveUpWaiting, goods, history
<1>6. ASSUME NEW i \in Items, NEW from \in Npcs, NEW to \in Npcs, TransferOwnership(i, from, to)
      PROVE  FundsInv'
  BY <1>1, <1>6 DEF TransferOwnership
<1>7. ASSUME NEW c \in Calls, ConfirmTrade(c) \/ MatchOwner(c) PROVE FundsInv'
  <2>1. job'[c].at # "pay" /\ \A d \in Calls : d # c => job'[d] = job[d]
    BY <1>7 DEF ConfirmTrade, MatchOwner, TypeOK, Trade, At, New, Done
  <2>2. UNCHANGED <<purse, stale>>
    BY <1>7 DEF ConfirmTrade, MatchOwner, goods, history
  <2>. QED
    BY <2>1, <2>2 DEF FundsInv, NoOverdraft, At
<1>8. ASSUME NEW c \in Calls, Raise(c) PROVE FundsInv'
  <2>1. job'[c] = Done /\ \A d \in Calls : d # c => job'[d] = job[d]
    BY <1>8 DEF Raise, Leave, TypeOK
  <2>2. UNCHANGED <<purse, stale>>
    BY <1>8 DEF Raise, goods
  <2>. QED
    BY <2>1, <2>2 DEF FundsInv, NoOverdraft, At, Done
<1>9. ASSUME NEW c \in Calls, TransferItem(c) PROVE FundsInv'
  <2>1. job'[c].at # "pay" /\ \A d \in Calls : d # c => job'[d] = job[d]
    BY <1>9, JobType DEF TransferItem, At, TypeOK, Trade
  <2>2. (~stale' => ~stale) /\ UNCHANGED purse
    BY <1>9 DEF TransferItem
  <2>. QED
    BY <2>1, <2>2 DEF FundsInv, NoOverdraft, At
<1>10. ASSUME NEW c \in Calls, MatchFunds(c) PROVE FundsInv'
  <2>1. job[c] \in Trade
    BY <1>10, JobType DEF MatchFunds, At
  <2>2. /\ job'[c].funds = purse[Player] /\ job'[c].price = job[c].price
        /\ \A d \in Calls : d # c => job'[d] = job[d]
    BY <1>10, <2>1 DEF MatchFunds, TypeOK, Trade
  <2>3. UNCHANGED <<purse, stale>> /\ purse[Player] >= job[c].price
    BY <1>10 DEF MatchFunds, goods, history
  <2>. QED
    BY <2>2, <2>3 DEF FundsInv, NoOverdraft, At
<1>11. ASSUME NEW c \in Calls, TransferCurrency(c) PROVE FundsInv'
  <2>1. job[c] \in Trade /\ job[c].price \in Nat /\ job[c].seller \in Npcs
    BY <1>11, JobType DEF TransferCurrency, At, Trade
  <2>2. job'[c] = Done /\ \A d \in Calls : d # c => job'[d] = job[d]
    BY <1>11 DEF TransferCurrency, Leave, TypeOK
  <2>3. ~stale' => NoOverdraft'
    <3>. SUFFICES ASSUME ~stale', NEW ch \in Characters PROVE purse'[ch] >= 0
      BY DEF NoOverdraft
    <3>1. purse[Player] = job[c].funds /\ job[c].funds >= job[c].price /\ purse[ch] >= 0
      BY <1>11 DEF TransferCurrency, FundsInv, NoOverdraft
    <3>2. purse \in [Characters -> Int] /\ Player \in Characters /\ Player # job[c].seller
      BY <2>1 DEF TypeOK, Characters
    <3>3. CASE ch = Player
      <4>1. purse'[ch] = purse[ch] - job[c].price
        BY <1>11, <3>2, <3>3 DEF TransferCurrency
      <4>. QED
        BY <2>1, <3>1, <3>2, <3>3, <4>1
    <3>4. CASE ch = job[c].seller
      <4>1. purse'[ch] = purse[ch] + job[c].price
        BY <1>11, <3>2, <3>4 DEF TransferCurrency
      <4>. QED
        BY <2>1, <3>1, <3>2, <4>1
    <3>5. CASE ch # Player /\ ch # job[c].seller
      BY <1>11, <3>1, <3>2, <3>5 DEF TransferCurrency
    <3>. QED
      BY <3>3, <3>4, <3>5
  <2>. QED
    BY <2>2, <2>3 DEF FundsInv, NoOverdraft, At, Done
<1>12. CASE Restart
  <2>1. (\A c \in Calls : job'[c] \in {New, Done}) /\ UNCHANGED <<purse, stale>>
    BY <1>12 DEF Restart, goods
  <2>. QED
    BY <2>1 DEF FundsInv, NoOverdraft, At, New, Done
<1>. QED
  BY <1>2, <1>3, <1>4, <1>5, <1>6, <1>7, <1>8, <1>9, <1>10, <1>11, <1>12 DEF Next

\* A trade puts nobody into debt unless two payments overlapped: NoOverdraft
\* (the balance is compared where it is matched, and changed later).
THEOREM NobodyOverdrawn == Spec => []NoOverdraft
<1>1. Init => FundsInv
  <2>. SUFFICES ASSUME Init PROVE FundsInv
    OBVIOUS
  <2>1. (\A ch \in Characters : purse[ch] >= 0) /\ \A c \in Calls : job[c] = New
    BY BarterAssumption DEF Init
  <2>. QED
    BY <2>1 DEF FundsInv, NoOverdraft, At, New
<1>2. FundsInv => NoOverdraft
  BY DEF FundsInv
<1>. QED
  BY <1>1, <1>2, FundsStep, TypeCorrect, PTL DEF Spec

-----------------------------------------------------------------------------
(* Debts: unless something strays, an item has one NPC for an owner at     *)
(* most, and a debt follows the NPC that owned it when it was proposed.    *)

OneSeller(i) == \E n \in Npcs : owners[i] \subseteq {n, Player}

DebtInv ==
    /\ DebtsOwedToOwner
    /\ ~strayed => \A i \in Items : OneSeller(i)

LEMMA OwnerIsSeller ==
    ASSUME NEW i \in Items, OneSeller(i), NEW n \in Npcs, n \in owners[i]
    PROVE  owners[i] \subseteq {n, Player}
BY BarterAssumption DEF OneSeller

LEMMA OwingOwner ==
    ASSUME \A i \in Items : OneSeller(i),
           NEW owed, \A d \in owed : owners[d[2]] \subseteq {d[1], Player},
           NEW n \in Npcs, NEW s, s.item \in Items, n \in owners[s.item], NEW move,
           NEW owed2 \in Owing(owed, n, s, move)
    PROVE  \A d \in owed2 : owners[d[2]] \subseteq {d[1], Player}
<1>1. owners[s.item] \subseteq {n, Player}
  BY OwnerIsSeller
<1>. QED
  BY <1>1, OwingType

LEMMA OpenTradeOwner ==
    ASSUME \A i \in Items : OneSeller(i), NEW s \in Session \cup {NoSession},
           NEW owed, \A d \in owed : owners[d[2]] \subseteq {d[1], Player},
           NEW n \in Npcs, NEW move \in Moves, OpenTrade(s, owed, n, move)
    PROVE  \A d \in debts' : owners[d[2]] \subseteq {d[1], Player}
<1>1. ASSUME NEW k \in Items, n \in owners[k], session' \in ProposeTrade(s, n, k, move),
             debts' \in Owing(owed, n, session', move)
      PROVE  \A d \in debts' : owners[d[2]] \subseteq {d[1], Player}
  <2>1. session'.item = k
    BY <1>1, ProposalType
  <2>. QED
    BY <1>1, <2>1, OwingOwner
<1>. QED
  BY <1>1 DEF OpenTrade

LEMMA DebtStep == TypeOK /\ DebtInv /\ [Next]_vars => DebtInv'
<1>. SUFFICES ASSUME TypeOK, DebtInv, [Next]_vars, ~strayed'
              PROVE  /\ \A d \in debts' : owners'[d[2]] \subseteq {d[1], Player}
                     /\ \A i \in Items : OneSeller(i)'
  BY DEF DebtInv, DebtsOwedToOwner
<1>. DEFINE Goal == /\ \A d \in debts' : owners'[d[2]] \subseteq {d[1], Player}
                    /\ \A i \in Items : OneSeller(i)'
<1>1. ASSUME UNCHANGED <<owners, debts, strayed>> PROVE Goal
  BY <1>1 DEF DebtInv, DebtsOwedToOwner, OneSeller
<1>2. ASSUME UNCHANGED owners, ~strayed,
             \A d \in debts' : owners[d[2]] \subseteq {d[1], Player}
      PROVE  Goal
  BY <1>2 DEF DebtInv, OneSeller
<1>3. CASE UNCHANGED vars
  BY <1>1, <1>3 DEF vars, goods, history
<1>4. ASSUME NEW n \in Npcs, OpenTradeFallback(n) PROVE Goal
  <2>1. OpenTrade(session, debts, n, NoMove) /\ NoMove \in Moves /\ ~strayed
    BY <1>4 DEF OpenTradeFallback, Moves, history
  <2>2. \A d \in debts' : owners[d[2]] \subseteq {d[1], Player}
    BY <2>1, OpenTradeOwner DEF DebtInv, DebtsOwedToOwner, TypeOK
  <2>3. UNCHANGED owners
    BY <1>4 DEF OpenTradeFallback, goods
  <2>. QED
    BY <1>2, <2>1, <2>2, <2>3
<1>5. ASSUME NEW n \in Npcs, NEW i \in Items, NEW move \in Moves, DispatchProposal(n, i, move)
      PROVE  Goal
  <2>1. ~strayed /\ n \in owners[i] /\ UNCHANGED owners
    BY <1>5 DEF DispatchProposal, Strays, goods
  <2>2. PICK s \in ProposeTrade(session, n, i, move) :
          \E owed \in Owing(debts, n, s, move) :
            \/ session' = s /\ debts' = owed /\ UNCHANGED <<panel, partner>>
            \/ OpenTrade(s, owed, n, move)
    BY <1>5 DEF DispatchProposal
  <2>3. PICK owed \in Owing(debts, n, s, move) :
          \/ session' = s /\ debts' = owed /\ UNCHANGED <<panel, partner>>
          \/ OpenTrade(s, owed, n, move)
    BY <2>2
  <2>4. s \in Session /\ s.item = i
    BY <2>2, ProposalType DEF TypeOK
  <2>5. \A d \in owed : owners[d[2]] \subseteq {d[1], Player}
    BY <2>1, <2>3, <2>4, OwingOwner DEF DebtInv, DebtsOwedToOwner
  <2>6. \A d \in debts' : owners[d[2]] \subseteq {d[1], Player}
    BY <2>1, <2>3, <2>4, <2>5, OpenTradeOwner DEF DebtInv
  <2>. QED
    BY <1>2, <2>1, <2>6
<1>6. ASSUME OfferAskingPrice \/ (\E delta \in Deltas : UpdateBand(delta))
               \/ ConfirmRefused \/ GiveUpWaiting \/ Restart
      PROVE  Goal
  BY <1>1, <1>6 DEF OfferAskingPrice, UpdateBand, ConfirmRefused, GiveUpWaiting, Restart,
                    goods, history
<1>7. ASSUME NEW c \in Calls,
             ConfirmTrade(c) \/ Raise(c) \/ MatchOwner(c) \/ MatchFunds(c) \/ TransferCurrency(c)
      PROVE  Goal
  BY <1>1, <1>7 DEF ConfirmTrade, Raise, MatchOwner, MatchFunds, TransferCurrency, goods, history
<1>8. ASSUME NEW c \in Calls, TransferItem(c) PROVE Goal
  <2>1. \A i \in Items : owners'[i] \subseteq owners[i] \cup {Player}
    BY <1>8 DEF TransferItem, TypeOK
  <2>2. ~strayed /\ UNCHANGED debts
    BY <1>8 DEF TransferItem
  <2>3. \A d \in debts : d[2] \in Items
    BY DEF TypeOK
  <2>. QED
    BY <2>1, <2>2, <2>3 DEF DebtInv, DebtsOwedToOwner, OneSeller
<1>9. ASSUME NEW i \in Items, NEW from \in Npcs, NEW to \in Npcs, TransferOwnership(i, from, to)
      PROVE  Goal
  BY <1>9 DEF TransferOwnership
<1>. QED
  BY <1>3, <1>4, <1>5, <1>6, <1>7, <1>8, <1>9 DEF Next

\* Debts are owed to the NPC that had the item to sell: DebtsOwedToOwner
\* (a session is resumed for the same item only).
THEOREM DebtsFollowOwners == Spec => []DebtsOwedToOwner
<1>1. Init => DebtInv
  <2>. SUFFICES ASSUME Init PROVE DebtInv
    OBVIOUS
  <2>1. \A i \in Items : \E n \in Npcs : owners[i] = {n}
    BY DEF Init
  <2>. QED
    BY <2>1 DEF Init, DebtInv, DebtsOwedToOwner, OneSeller
<1>2. DebtInv => DebtsOwedToOwner
  BY DEF DebtInv
<1>. QED
  BY <1>1, <1>2, DebtStep, TypeCorrect, PTL DEF Spec

-----------------------------------------------------------------------------
(* What is in flight is a sum over a finite set of calls.  The library folds *)
(* the set with a recursive function; these lemmas show that the fold is     *)
(* the sum.  Induction is by the smallest set of calls that breaks a claim.  *)

Pick(S) == CHOOSE c \in S : TRUE

Total(jobs, S) == MapThenSumSet(LAMBDA c : jobs[c].price, S)

\* The function that the fold computes, on the subsets of S.
Sums(g, jobs, S) ==
    g = [s \in SUBSET S |->
           IF s = {} THEN 0 ELSE jobs[Pick(s)].price + g[s \ {Pick(s)}]]

\* Among sets of calls there is one that no other is part of.
LEMMA SmallestSubset ==
    ASSUME NEW S, IsFiniteSet(S), NEW T \in SUBSET SUBSET S, T # {}
    PROVE  \E x \in T : \A y \in T : ~(y \subseteq x /\ y # x)
<1>1. T \subseteq FiniteSubsetsOf(S)
  BY FS_Subset DEF FiniteSubsetsOf
<1>2. PICK x \in T : \A y \in T : <<y, x>> \notin StrictSubsetOrdering(S)
  BY <1>1, WFMin, FS_StrictSubsetOrderingWellFounded
<1>. QED
  BY <1>2 DEF StrictSubsetOrdering

LEMMA PickedIsIn ==
    ASSUME NEW S, S # {}
    PROVE  Pick(S) \in S
BY DEF Pick

\* The fold gives a subset the same value, whatever larger set it started from.
LEMMA SumsAgree ==
    ASSUME NEW jobs, NEW S, IsFiniteSet(S), NEW T \in SUBSET S, NEW g, NEW h,
           Sums(g, jobs, S), Sums(h, jobs, T)
    PROVE  \A s \in SUBSET T : g[s] = h[s]
<1>. DEFINE Bad == {s \in SUBSET T : g[s] # h[s]}
<1>1. SUFFICES ASSUME Bad # {}  PROVE FALSE
  OBVIOUS
<1>2. Bad \in SUBSET SUBSET S
  OBVIOUS
<1>3. PICK s \in Bad : \A t \in Bad : ~(t \subseteq s /\ t # s)
  <2>. HIDE DEF Bad
  <2>. QED
    BY <1>1, <1>2, SmallestSubset
<1>4. s # {}
  <2>1. g[{}] = 0 /\ h[{}] = 0
    BY DEF Sums
  <2>. QED
    BY <2>1
<1>5. Pick(s) \in s
  BY <1>4, PickedIsIn
<1>6. g[s \ {Pick(s)}] = h[s \ {Pick(s)}]
  BY <1>3, <1>5
<1>7. /\ g[s] = jobs[Pick(s)].price + g[s \ {Pick(s)}]
      /\ h[s] = jobs[Pick(s)].price + h[s \ {Pick(s)}]
  BY <1>4 DEF Sums
<1>. QED
  BY <1>6, <1>7

\* The recursive function exists.
LEMMA SumsExist ==
    ASSUME NEW jobs, NEW S, IsFiniteSet(S)
    PROVE  \E g : Sums(g, jobs, S)
<1>. DEFINE Bad == {T \in SUBSET S : ~ \E g : Sums(g, jobs, T)}
<1>1. SUFFICES ASSUME Bad # {}  PROVE FALSE
  OBVIOUS
<1>2. PICK T \in Bad : \A t \in Bad : ~(t \subseteq T /\ t # T)
  <2>1. Bad \in SUBSET SUBSET S
    OBVIOUS
  <2>. HIDE DEF Bad
  <2>. QED
    BY <1>1, <2>1, SmallestSubset
<1>3. IsFiniteSet(T) /\ T \subseteq S
  BY FS_Subset
<1>. DEFINE G(t) == CHOOSE g : Sums(g, jobs, t)
            v == [t \in SUBSET T |-> G(t)[t]]
            w == [t \in SUBSET T |->
                    IF t # T THEN v[t]
                    ELSE IF t = {} THEN 0 ELSE jobs[Pick(t)].price + v[t \ {Pick(t)}]]
<1>4. ASSUME NEW t \in SUBSET T, t # T
      PROVE  Sums(G(t), jobs, t)
  <2>1. \E g : Sums(g, jobs, t)
    BY <1>2, <1>3, <1>4
  <2>. QED
    BY <2>1
<1>5. ASSUME NEW t \in SUBSET T, t # T, t # {}
      PROVE  v[t] = jobs[Pick(t)].price + v[t \ {Pick(t)}]
  <2>. DEFINE r == t \ {Pick(t)}
  <2>1. Pick(t) \in t
    BY <1>5, PickedIsIn
  <2>2. r \in SUBSET T /\ r # T /\ r \in SUBSET t
    BY <2>1
  <2>3. Sums(G(t), jobs, t) /\ Sums(G(r), jobs, r)
    BY <1>4, <1>5, <2>2
  <2>4. IsFiniteSet(t)
    BY <1>3, FS_Subset
  <2>. HIDE DEF G
  <2>5. G(t)[r] = G(r)[r]
    <3>. HIDE DEF r
    <3>1. \A s \in SUBSET r : G(t)[s] = G(r)[s]
      BY <2>2, <2>3, <2>4, SumsAgree
    <3>. QED
      BY <3>1
  <2>6. G(t)[t] = jobs[Pick(t)].price + G(t)[r]
    BY <1>5, <2>3 DEF Sums
  <2>. QED
    BY <2>2, <2>5, <2>6
<1>6. {} # T => v[{}] = 0
  <2>1. SUFFICES ASSUME {} # T  PROVE v[{}] = 0
    OBVIOUS
  <2>2. Sums(G({}), jobs, {})
    BY <1>4, <2>1
  <2>. HIDE DEF G
  <2>. QED
    BY <2>2 DEF Sums
<1>. HIDE DEF v
<1>7. ASSUME NEW t \in SUBSET T
      PROVE  w[t] = IF t = {} THEN 0 ELSE jobs[Pick(t)].price + w[t \ {Pick(t)}]
  <2>1. t # {} => /\ t \ {Pick(t)} \in SUBSET T
                  /\ t \ {Pick(t)} # T
    BY PickedIsIn
  <2>. QED
    BY <1>5, <1>6, <2>1
<1>8. Sums(w, jobs, T)
  <2>1. w = [t \in SUBSET T |-> w[t]]
    OBVIOUS
  <2>. HIDE DEF w
  <2>. QED
    BY <1>7, <2>1 DEF Sums
<1>. QED
  BY <1>8

LEMMA TotalIs ==
    ASSUME NEW jobs, NEW S, IsFiniteSet(S)
    PROVE  \E g : Sums(g, jobs, S) /\ Total(jobs, S) = g[S]
<1>. DEFINE h == CHOOSE g : Sums(g, jobs, S)
<1>1. Sums(h, jobs, S)
  BY SumsExist
<1>2. Total(jobs, S) = h[S]
  BY DEF Total, MapThenSumSet, MapThenFoldSet, Sums, Pick
<1>. QED
  BY <1>1, <1>2

LEMMA TotalOfNone == \A jobs : Total(jobs, {}) = 0
<1>. TAKE jobs
<1>1. PICK g : Sums(g, jobs, {}) /\ Total(jobs, {}) = g[{}]
  BY FS_EmptySet, TotalIs
<1>. QED
  BY <1>1 DEF Sums

LEMMA TotalPicked ==
    ASSUME NEW jobs, NEW S, IsFiniteSet(S), S # {}
    PROVE  Total(jobs, S) = jobs[Pick(S)].price + Total(jobs, S \ {Pick(S)})
<1>. DEFINE R == S \ {Pick(S)}
<1>1. IsFiniteSet(R) /\ R \in SUBSET S
  BY FS_RemoveElement
<1>. HIDE DEF R
<1>2. PICK g : Sums(g, jobs, S) /\ Total(jobs, S) = g[S]
  BY TotalIs
<1>3. PICK h : Sums(h, jobs, R) /\ Total(jobs, R) = h[R]
  BY <1>1, TotalIs
<1>4. g[R] = h[R]
  BY <1>1, <1>2, <1>3, SumsAgree
<1>5. g[S] = jobs[Pick(S)].price + g[R]
  BY <1>2 DEF Sums, R
<1>. QED
  BY <1>2, <1>3, <1>4, <1>5 DEF R

LEMMA TotalType ==
    ASSUME NEW jobs, NEW S, IsFiniteSet(S), \A c \in S : jobs[c].price \in Nat
    PROVE  Total(jobs, S) \in Nat
<1>. DEFINE Bad == {s \in SUBSET S : Total(jobs, s) \notin Nat}
<1>1. SUFFICES ASSUME Bad # {}  PROVE FALSE
  OBVIOUS
<1>2. PICK s \in Bad : \A t \in Bad : ~(t \subseteq s /\ t # s)
  <2>1. Bad \in SUBSET SUBSET S
    OBVIOUS
  <2>. HIDE DEF Bad
  <2>. QED
    BY <1>1, <2>1, SmallestSubset
<1>3. s # {}
  BY TotalOfNone
<1>4. Pick(s) \in s
  BY <1>3, PickedIsIn
<1>5. Total(jobs, s \ {Pick(s)}) \in Nat
  BY <1>2, <1>4
<1>6. Total(jobs, s) = jobs[Pick(s)].price + Total(jobs, s \ {Pick(s)})
  BY <1>3, FS_Subset, TotalPicked
<1>7. jobs[Pick(s)].price \in Nat
  BY <1>4
<1>. QED
  BY <1>5, <1>6, <1>7

\* Any call may be taken out of the sum, not only the one the fold takes first.
LEMMA TotalWithout ==
    ASSUME NEW jobs, NEW S, IsFiniteSet(S), \A c \in S : jobs[c].price \in Nat, NEW x \in S
    PROVE  Total(jobs, S) = jobs[x].price + Total(jobs, S \ {x})
<1>. DEFINE Parts(s) == \A c \in s : Total(jobs, s) = jobs[c].price + Total(jobs, s \ {c})
            Bad == {s \in SUBSET S : ~Parts(s)}
<1>1. SUFFICES ASSUME Bad # {}  PROVE FALSE
  OBVIOUS
<1>2. PICK s \in Bad : \A t \in Bad : ~(t \subseteq s /\ t # s)
  <2>1. Bad \in SUBSET SUBSET S
    OBVIOUS
  <2>. HIDE DEF Bad
  <2>. QED
    BY <1>1, <2>1, SmallestSubset
<1>3. PICK c \in s : Total(jobs, s) # jobs[c].price + Total(jobs, s \ {c})
  BY <1>2
<1>. DEFINE p == Pick(s)
<1>4. p \in s
  BY <1>3, PickedIsIn
<1>5. /\ IsFiniteSet(s) /\ IsFiniteSet(s \ {p}) /\ IsFiniteSet(s \ {c})
      /\ IsFiniteSet((s \ {p}) \ {c})
  BY FS_Subset, FS_RemoveElement
<1>. HIDE DEF p
<1>6. Total(jobs, s) = jobs[p].price + Total(jobs, s \ {p})
  BY <1>3, <1>5, TotalPicked DEF p
<1>7. p # c
  BY <1>3, <1>6
<1>8. Parts(s \ {p}) /\ Parts(s \ {c})
  BY <1>2, <1>3, <1>4
<1>9. /\ Total(jobs, s \ {p}) = jobs[c].price + Total(jobs, (s \ {p}) \ {c})
      /\ Total(jobs, s \ {c}) = jobs[p].price + Total(jobs, (s \ {c}) \ {p})
  BY <1>3, <1>4, <1>7, <1>8
<1>10. (s \ {p}) \ {c} = (s \ {c}) \ {p}
  OBVIOUS
<1>11. Total(jobs, (s \ {p}) \ {c}) \in Nat
  BY <1>5, TotalType
<1>12. jobs[p].price \in Nat /\ jobs[c].price \in Nat
  BY <1>3, <1>4
<1>13. Total(jobs, s \ {c}) = jobs[p].price + Total(jobs, (s \ {p}) \ {c})
  BY <1>9, <1>10
<1>14. Total(jobs, s) = jobs[p].price + (jobs[c].price + Total(jobs, (s \ {p}) \ {c}))
  BY <1>6, <1>9
<1>15. Total(jobs, s) = jobs[c].price + (jobs[p].price + Total(jobs, (s \ {p}) \ {c}))
  BY <1>11, <1>12, <1>14
<1>. QED
  BY <1>3, <1>13, <1>15

LEMMA TotalSame ==
    ASSUME NEW jobs, NEW others, NEW S, IsFiniteSet(S),
           \A c \in S : jobs[c].price = others[c].price
    PROVE  Total(jobs, S) = Total(others, S)
<1>. DEFINE Bad == {s \in SUBSET S : Total(jobs, s) # Total(others, s)}
<1>1. SUFFICES ASSUME Bad # {}  PROVE FALSE
  OBVIOUS
<1>2. PICK s \in Bad : \A t \in Bad : ~(t \subseteq s /\ t # s)
  <2>1. Bad \in SUBSET SUBSET S
    OBVIOUS
  <2>. HIDE DEF Bad
  <2>. QED
    BY <1>1, <2>1, SmallestSubset
<1>3. s # {}
  BY TotalOfNone
<1>4. Pick(s) \in s
  BY <1>3, PickedIsIn
<1>5. Total(jobs, s \ {Pick(s)}) = Total(others, s \ {Pick(s)})
  BY <1>2, <1>4
<1>6. /\ Total(jobs, s) = jobs[Pick(s)].price + Total(jobs, s \ {Pick(s)})
      /\ Total(others, s) = others[Pick(s)].price + Total(others, s \ {Pick(s)})
  BY <1>3, FS_Subset, TotalPicked
<1>7. jobs[Pick(s)].price = others[Pick(s)].price
  BY <1>4
<1>. QED
  BY <1>5, <1>6, <1>7

-----------------------------------------------------------------------------
(* The books.  A call that has found the owners has found its seller among   *)
(* them; and the calls in flight are finitely many, so that they add up.     *)

Flying(n) == {c \in Calls : HandedOver(c) /\ job[c].seller = n}

BooksInv ==
    /\ Books
    /\ IsFiniteSet({c \in Calls : HandedOver(c)})
    /\ \A c \in Calls : At(c, "hand") => job[c].seller \in job[c].seen

LEMMA InFlightIs ==
    \A n \in Npcs : /\ InFlight(n) = Total(job, Flying(n))
                    /\ InFlight(n)' = Total(job', Flying(n)')
<1>. TAKE n \in Npcs
<1>1. InFlight(n) = Total(job, Flying(n))
  BY DEF InFlight, Total, Flying
<1>2. InFlight(n)' = Total(job', Flying(n)')
  BY DEF InFlight, Total, Flying, MapThenSumSet, MapThenFoldSet
<1>. QED
  BY <1>1, <1>2

\* What adds up: finitely many prices.
LEMMA FlyingType ==
    ASSUME TypeOK, BooksInv
    PROVE  \A n \in Npcs : /\ IsFiniteSet(Flying(n))
                           /\ \A c \in Flying(n) : job[c].price \in Nat
                           /\ InFlight(n) \in Nat
<1>. TAKE n \in Npcs
<1>1. IsFiniteSet(Flying(n))
  BY FS_Subset DEF BooksInv, Flying
<1>2. \A c \in Flying(n) : job[c].price \in Nat
  BY JobType DEF Flying, HandedOver, At, Trade
<1>. QED
  BY <1>1, <1>2, TotalType, InFlightIs

\* A step that only moves calls which have not handed anything over, or that
\* find the money, leaves what is in flight.
LEMMA InFlightKept ==
    ASSUME TypeOK, BooksInv,
           \A c \in Calls :
              \/ ~HandedOver(c) /\ ~HandedOver(c)'
              \/ /\ HandedOver(c) /\ HandedOver(c)'
                 /\ job'[c].seller = job[c].seller /\ job'[c].price = job[c].price
    PROVE  /\ \A n \in Npcs : InFlight(n)' = InFlight(n)
           /\ IsFiniteSet({c \in Calls : HandedOver(c)})'
<1>1. ASSUME NEW n \in Npcs PROVE InFlight(n)' = InFlight(n)
  <2>1. Flying(n)' = Flying(n)
    BY DEF Flying
  <2>2. \A c \in Flying(n) : job[c].price = job'[c].price
    BY DEF Flying
  <2>3. IsFiniteSet(Flying(n))
    BY FlyingType
  <2>4. Total(job, Flying(n)) = Total(job', Flying(n))
    BY <2>2, <2>3, TotalSame
  <2>. QED
    BY <2>1, <2>4, InFlightIs
<1>2. {c \in Calls : HandedOver(c)}' = {c \in Calls : HandedOver(c)}
  OBVIOUS
<1>. QED
  BY <1>1, <1>2 DEF BooksInv

\* A call that hands an item over adds its price to what is owed its seller.
LEMMA InFlightGrows ==
    ASSUME TypeOK, BooksInv, NEW c \in Calls,
           ~HandedOver(c), HandedOver(c)', job'[c] \in Trade,
           \A d \in Calls : d # c => job'[d] = job[d]
    PROVE  /\ \A n \in Npcs : InFlight(n)' = IF n = job'[c].seller THEN InFlight(n) + job'[c].price
                                             ELSE InFlight(n)
           /\ IsFiniteSet({d \in Calls : HandedOver(d)})'
<1>1. \A d \in Calls : d # c => (HandedOver(d)' <=> HandedOver(d))
  BY DEF HandedOver, At
<1>2. \A n \in Npcs : Flying(n)' = IF n = job'[c].seller THEN Flying(n) \cup {c} ELSE Flying(n)
  BY <1>1 DEF Flying
<1>3. ASSUME NEW n \in Npcs
      PROVE  InFlight(n)' = IF n = job'[c].seller THEN InFlight(n) + job'[c].price
                            ELSE InFlight(n)
  <2>1. /\ IsFiniteSet(Flying(n)) /\ InFlight(n) \in Nat
        /\ \A d \in Flying(n) : job[d].price \in Nat
    BY FlyingType
  <2>2. c \notin Flying(n)
    BY DEF Flying
  <2>3. \A d \in Flying(n) : job[d].price = job'[d].price
    BY <2>2 DEF Flying
  <2>4. Total(job, Flying(n)) = Total(job', Flying(n))
    BY <2>1, <2>3, TotalSame
  <2>5. CASE n # job'[c].seller
    BY <1>2, <2>4, <2>5, InFlightIs
  <2>6. CASE n = job'[c].seller
    <3>. DEFINE F == Flying(n) \cup {c}
    <3>1. F = Flying(n)' /\ F \ {c} = Flying(n)
      BY <1>2, <2>2, <2>6
    <3>2. IsFiniteSet(F) /\ c \in F
      BY <2>1, FS_AddElement
    <3>3. \A d \in F : job'[d].price \in Nat
      BY <2>1, <2>3 DEF Trade
    <3>. HIDE DEF F
    <3>4. Total(job', F) = job'[c].price + Total(job', F \ {c})
      BY <3>2, <3>3, TotalWithout
    <3>5. InFlight(n)' = job'[c].price + InFlight(n)
      BY <2>4, <3>1, <3>4, InFlightIs
    <3>6. job'[c].price \in Nat
      BY <3>2, <3>3
    <3>. QED
      BY <2>1, <2>6, <3>5, <3>6
  <2>. QED
    BY <2>5, <2>6
<1>4. {d \in Calls : HandedOver(d)}' = {d \in Calls : HandedOver(d)} \cup {c}
  BY <1>1
<1>5. IsFiniteSet({d \in Calls : HandedOver(d)} \cup {c})
  BY FS_AddElement DEF BooksInv
<1>. QED
  BY <1>3, <1>4, <1>5

\* A call that ends takes its price out again.
LEMMA InFlightShrinks ==
    ASSUME TypeOK, BooksInv, NEW c \in Calls,
           HandedOver(c), job'[c] = Done,
           \A d \in Calls : d # c => job'[d] = job[d]
    PROVE  /\ \A n \in Npcs : InFlight(n) = IF n = job[c].seller THEN InFlight(n)' + job[c].price
                                            ELSE InFlight(n)'
           /\ \A n \in Npcs : InFlight(n)' \in Nat
           /\ IsFiniteSet({d \in Calls : HandedOver(d)})'
<1>1. \A d \in Calls : HandedOver(d)' <=> d # c /\ HandedOver(d)
  BY DEF HandedOver, At, Done
<1>2. \A n \in Npcs : Flying(n)' = Flying(n) \ {c}
  BY <1>1 DEF Flying
<1>3. ASSUME NEW n \in Npcs
      PROVE  /\ InFlight(n) = IF n = job[c].seller THEN InFlight(n)' + job[c].price
                              ELSE InFlight(n)'
             /\ InFlight(n)' \in Nat
  <2>1. /\ IsFiniteSet(Flying(n)) /\ InFlight(n) \in Nat
        /\ \A d \in Flying(n) : job[d].price \in Nat
    BY FlyingType
  <2>. DEFINE R == Flying(n) \ {c}
  <2>2. \A d \in R : job[d].price = job'[d].price /\ job[d].price \in Nat
    BY <2>1 DEF Flying
  <2>3. IsFiniteSet(R)
    BY <2>1, FS_RemoveElement
  <2>4. R = Flying(n)'
    BY <1>2
  <2>. HIDE DEF R
  <2>5. InFlight(n)' = Total(job, R) /\ Total(job, R) \in Nat
    BY <2>2, <2>3, <2>4, TotalSame, TotalType, InFlightIs
  <2>6. CASE n # job[c].seller
    <3>1. R = Flying(n)
      BY <2>6 DEF Flying, R
    <3>. QED
      BY <2>5, <2>6, <3>1, InFlightIs
  <2>7. CASE n = job[c].seller
    <3>1. c \in Flying(n)
      BY <2>7 DEF Flying
    <3>2. Total(job, Flying(n)) = job[c].price + Total(job, R)
      BY <2>1, <3>1, TotalWithout DEF R
    <3>3. job[c].price \in Nat
      BY <2>1, <3>1
    <3>. QED
      BY <2>5, <2>7, <3>2, <3>3, InFlightIs
  <2>. QED
    BY <2>5, <2>6, <2>7
<1>4. {d \in Calls : HandedOver(d)}' = {d \in Calls : HandedOver(d)} \ {c}
  BY <1>1
<1>5. IsFiniteSet({d \in Calls : HandedOver(d)} \ {c})
  BY FS_RemoveElement DEF BooksInv
<1>. QED
  BY <1>3, <1>4, <1>5

LEMMA BooksKept ==
    ASSUME TypeOK, BooksInv,
           \A c \in Calls :
              \/ ~HandedOver(c) /\ ~HandedOver(c)'
              \/ /\ HandedOver(c) /\ HandedOver(c)'
                 /\ job'[c].seller = job[c].seller /\ job'[c].price = job[c].price,
           \A c \in Calls : At(c, "hand")' => job'[c].seller \in job'[c].seen,
           UNCHANGED <<due, stale, broken>>
    PROVE  BooksInv'
<1>1. /\ \A n \in Npcs : InFlight(n)' = InFlight(n)
      /\ IsFiniteSet({c \in Calls : HandedOver(c)})'
  BY InFlightKept
<1>2. Books'
  BY <1>1 DEF Books, BooksInv
<1>. QED
  BY <1>1, <1>2 DEF BooksInv

LEMMA BooksStep == TypeOK /\ BooksInv /\ [Next]_vars => BooksInv'
<1>. SUFFICES ASSUME TypeOK, BooksInv, [Next]_vars PROVE BooksInv'
  OBVIOUS
<1>1. ASSUME UNCHANGED <<job, due, stale, broken>> PROVE BooksInv'
  <2>1. \A c \in Calls : HandedOver(c)' <=> HandedOver(c)
    BY <1>1 DEF HandedOver, At
  <2>2. \A c \in Calls : At(c, "hand")' => job'[c].seller \in job'[c].seen
    BY <1>1 DEF BooksInv, At
  <2>. QED
    BY <1>1, <2>1, <2>2, BooksKept
<1>2. CASE UNCHANGED vars
  BY <1>1, <1>2 DEF vars, history
<1>3. ASSUME NEW n \in Npcs, OpenTradeFallback(n) PROVE BooksInv'
  BY <1>1, <1>3 DEF OpenTradeFallback, history
<1>4. ASSUME NEW n \in Npcs, NEW i \in Items, NEW move \in Moves, DispatchProposal(n, i, move)
      PROVE  BooksInv'
  BY <1>1, <1>4 DEF DispatchProposal
<1>5. ASSUME OfferAskingPrice \/ (\E delta \in Deltas : UpdateBand(delta))
               \/ ConfirmRefused \/ GiveUpWaiting
      PROVE  BooksInv'
  BY <1>1, <1>5 DEF OfferAskingPrice, UpdateBand, ConfirmRefused, GiveUpWaiting, history
<1>6. ASSUME NEW i \in Items, NEW from \in Npcs, NEW to \in Npcs, TransferOwnership(i, from, to)
      PROVE  BooksInv'
  BY <1>1, <1>6 DEF TransferOwnership
<1>7. ASSUME NEW c \in Calls, ConfirmTrade(c) PROVE BooksInv'
  <2>1. /\ ~HandedOver(c) /\ job'[c].at = "item"
        /\ \A d \in Calls : d # c => job'[d] = job[d]
    BY <1>7 DEF ConfirmTrade, TypeOK, HandedOver, At
  <2>2. UNCHANGED <<due, stale, broken>>
    BY <1>7 DEF ConfirmTrade, history
  <2>. QED
    BY <2>1, <2>2, BooksKept DEF BooksInv, HandedOver, At
<1>8. ASSUME NEW c \in Calls, MatchOwner(c) PROVE BooksInv'
  <2>1. job[c] \in Trade
    BY <1>8, JobType DEF MatchOwner, At
  <2>2. /\ ~HandedOver(c) /\ job'[c].at = "hand" /\ job'[c].seller \in job'[c].seen
        /\ \A d \in Calls : d # c => job'[d] = job[d]
    BY <1>8, <2>1 DEF MatchOwner, TypeOK, Trade, HandedOver, At
  <2>3. UNCHANGED <<due, stale, broken>>
    BY <1>8 DEF MatchOwner, history
  <2>. QED
    BY <2>2, <2>3, BooksKept DEF BooksInv, HandedOver, At
<1>9. ASSUME NEW c \in Calls, MatchFunds(c) PROVE BooksInv'
  <2>1. job[c] \in Trade
    BY <1>9, JobType DEF MatchFunds, At
  <2>2. /\ HandedOver(c) /\ job'[c].at = "pay"
        /\ job'[c].seller = job[c].seller /\ job'[c].price = job[c].price
        /\ \A d \in Calls : d # c => job'[d] = job[d]
    BY <1>9, <2>1 DEF MatchFunds, TypeOK, Trade, HandedOver, At
  <2>3. UNCHANGED <<due, stale, broken>>
    BY <1>9 DEF MatchFunds, history
  <2>. QED
    BY <2>2, <2>3, BooksKept DEF BooksInv, HandedOver, At
<1>10. ASSUME NEW c \in Calls, TransferItem(c) PROVE BooksInv'
  <2>1. /\ job[c] \in Trade /\ job[c].seller \in Npcs /\ job[c].price \in Nat
        /\ job[c].at = "hand" /\ job[c].seller \in job[c].seen
    BY <1>10, JobType DEF TransferItem, At, Trade, BooksInv
  <2>2. /\ job'[c] \in Trade /\ job'[c].at = "funds"
        /\ job'[c].seller = job[c].seller /\ job'[c].price = job[c].price
        /\ \A d \in Calls : d # c => job'[d] = job[d]
    BY <1>10, <2>1 DEF TransferItem, TypeOK, Trade
  <2>3. ~HandedOver(c) /\ HandedOver(c)'
    BY <2>1, <2>2 DEF HandedOver, At
  <2>4. /\ \A n \in Npcs : InFlight(n)' = IF n = job[c].seller THEN InFlight(n) + job[c].price
                                          ELSE InFlight(n)
        /\ IsFiniteSet({d \in Calls : HandedOver(d)})'
    BY <2>2, <2>3, InFlightGrows
  <2>5. Books'
    <3>. SUFFICES ASSUME ~stale' PROVE Books'
      BY DEF Books
    <3>1. ~stale /\ job[c].seller \in owners[job[c].item] /\ broken' = broken
      BY <1>10, <2>1 DEF TransferItem
    <3>2. \A n \in Npcs : due'[n] = IF n = job[c].seller THEN due[n] + job[c].price ELSE due[n]
      BY <1>10, <3>1 DEF TransferItem, TypeOK
    <3>3. \A n \in Npcs : due[n] \in Int /\ InFlight(n) \in Nat
      BY FlyingType DEF TypeOK
    <3>. QED
      BY <2>1, <2>4, <3>1, <3>2, <3>3 DEF Books, BooksInv
  <2>6. \A d \in Calls : At(d, "hand")' => job'[d].seller \in job'[d].seen
    BY <2>2 DEF BooksInv, At
  <2>. QED
    BY <2>4, <2>5, <2>6 DEF BooksInv
<1>11. ASSUME NEW c \in Calls, HandedOver(c), Leave(c), UNCHANGED due, broken',
              stale' = stale
       PROVE  BooksInv'
  <2>1. job[c] \in Trade /\ job[c].price \in Nat
    BY <1>11, JobType DEF HandedOver, At, Trade
  <2>2. job'[c] = Done /\ \A d \in Calls : d # c => job'[d] = job[d]
    BY <1>11 DEF Leave, TypeOK
  <2>3. /\ \A n \in Npcs : InFlight(n) = IF n = job[c].seller THEN InFlight(n)' + job[c].price
                                         ELSE InFlight(n)'
        /\ \A n \in Npcs : InFlight(n)' \in Nat
        /\ IsFiniteSet({d \in Calls : HandedOver(d)})'
    BY <1>11, <2>2, InFlightShrinks
  <2>4. Books'
    <3>1. \A n \in Npcs : due[n] \in Int
      BY DEF TypeOK
    <3>. QED
      BY <1>11, <2>1, <2>3, <3>1 DEF Books, BooksInv
  <2>5. \A d \in Calls : At(d, "hand")' => job'[d].seller \in job'[d].seen
    BY <2>2 DEF BooksInv, At, Done
  <2>. QED
    BY <2>3, <2>4, <2>5 DEF BooksInv
<1>12. ASSUME NEW c \in Calls, Raise(c) PROVE BooksInv'
  <2>1. CASE At(c, "funds")
    <3>1. broken' /\ Leave(c) /\ UNCHANGED <<due, stale>>
      BY <1>12, <2>1 DEF Raise, At
    <3>. QED
      BY <1>11, <2>1, <3>1 DEF HandedOver
  <2>2. CASE ~At(c, "funds")
    <3>1. /\ ~HandedOver(c) /\ job'[c] = Done
          /\ \A d \in Calls : d # c => job'[d] = job[d]
      BY <1>12, <2>2 DEF Raise, Leave, TypeOK, HandedOver, At
    <3>2. UNCHANGED <<due, stale, broken>>
      BY <1>12, <2>2 DEF Raise
    <3>. QED
      BY <3>1, <3>2, BooksKept DEF BooksInv, HandedOver, At, Done
  <2>. QED
    BY <2>1, <2>2
<1>13. ASSUME NEW c \in Calls, TransferCurrency(c) PROVE BooksInv'
  <2>1. HandedOver(c) /\ job[c] \in Trade /\ job[c].price \in Nat /\ job[c].seller \in Npcs
    BY <1>13, JobType DEF TransferCurrency, HandedOver, At, Trade
  <2>2. job'[c] = Done /\ \A d \in Calls : d # c => job'[d] = job[d]
    BY <1>13 DEF TransferCurrency, Leave, TypeOK
  <2>3. /\ \A n \in Npcs : InFlight(n) = IF n = job[c].seller THEN InFlight(n)' + job[c].price
                                         ELSE InFlight(n)'
        /\ \A n \in Npcs : InFlight(n)' \in Nat
        /\ IsFiniteSet({d \in Calls : HandedOver(d)})'
    BY <2>1, <2>2, InFlightShrinks
  <2>4. Books'
    <3>1. \A n \in Npcs : due'[n] = IF n = job[c].seller THEN due[n] - job[c].price ELSE due[n]
      BY <1>13 DEF TransferCurrency, TypeOK
    <3>2. \A n \in Npcs : due[n] \in Int
      BY DEF TypeOK
    <3>3. (~stale' => ~stale) /\ broken' = broken
      BY <1>13 DEF TransferCurrency
    <3>. QED
      BY <2>1, <2>3, <3>1, <3>2, <3>3 DEF Books, BooksInv
  <2>5. \A d \in Calls : At(d, "hand")' => job'[d].seller \in job'[d].seen
    BY <2>2 DEF BooksInv, At, Done
  <2>. QED
    BY <2>3, <2>4, <2>5 DEF BooksInv
<1>14. CASE Restart
  <2>1. \A c \in Calls : job'[c] \in {New, Done}
    BY <1>14 DEF Restart
  <2>2. \A c \in Calls : ~HandedOver(c)' /\ ~At(c, "hand")'
    BY <2>1 DEF HandedOver, At, New, Done
  <2>3. \A n \in Npcs : Flying(n)' = {}
    BY <2>2 DEF Flying
  <2>4. \A n \in Npcs : InFlight(n)' = 0
    BY <2>3, TotalOfNone, InFlightIs
  <2>5. {c \in Calls : HandedOver(c)}' = {}
    BY <2>2
  <2>6. Books'
    <3>1. UNCHANGED <<due, stale>> /\ broken' = (broken \/ \E c \in Calls : HandedOver(c))
      BY <1>14 DEF Restart
    <3>2. \A n \in Npcs : due[n] \in Int /\ InFlight(n) \in Nat
      BY FlyingType DEF TypeOK
    <3>3. ASSUME ~broken', NEW n \in Npcs PROVE InFlight(n) = 0
      <4>1. Flying(n) = {}
        BY <3>1, <3>3 DEF Flying
      <4>. QED
        BY <4>1, TotalOfNone, InFlightIs
    <3>4. ~broken' => ~broken
      BY <3>1
    <3>. SUFFICES ASSUME ~stale', NEW n \in Npcs
                  PROVE  due'[n] >= InFlight(n)' /\ (~broken' => due'[n] = InFlight(n)')
      BY DEF Books
    <3>5. due'[n] = due[n] /\ due[n] >= InFlight(n) /\ (~broken => due[n] = InFlight(n))
      BY <3>1 DEF Books, BooksInv
    <3>6. due'[n] >= 0
      BY <3>2, <3>5
    <3>7. ~broken' => due'[n] = 0
      BY <3>3, <3>4, <3>5
    <3>. QED
      BY <2>4, <3>6, <3>7
  <2>. QED
    BY <2>2, <2>5, <2>6, FS_EmptySet DEF BooksInv
<1>. QED
  BY <1>2, <1>3, <1>4, <1>5, <1>6, <1>7, <1>8, <1>9, <1>10, <1>12, <1>13, <1>14 DEF Next

\* However many calls there are and whatever they trade, and however often a
\* trade is confirmed again: Books (the two transfers of handle_buy, and what a
\* timeout, a refusal or a restart does between them).
THEOREM BooksBalance == Spec => []Books
<1>1. Init => BooksInv
  <2>. SUFFICES ASSUME Init PROVE BooksInv
    OBVIOUS
  <2>1. \A c \in Calls : ~HandedOver(c) /\ ~At(c, "hand")
    BY DEF Init, HandedOver, At, New
  <2>2. \A n \in Npcs : Flying(n) = {}
    BY <2>1 DEF Flying
  <2>3. \A n \in Npcs : InFlight(n) = 0 /\ due[n] = 0
    BY <2>2, TotalOfNone, InFlightIs DEF Init
  <2>4. {c \in Calls : HandedOver(c)} = {}
    BY <2>1
  <2>. QED
    BY <2>1, <2>3, <2>4, FS_EmptySet DEF Books, BooksInv
<1>2. BooksInv => Books
  BY DEF BooksInv
<1>. QED
  BY <1>1, <1>2, BooksStep, TypeCorrect, PTL DEF Spec

-----------------------------------------------------------------------------
(* Items: two trades of one item may overlap, and one of them then deletes   *)
(* an edge that is gone; but both move the item to the player.               *)

\* An item has one owner at a time, whatever trades overlap or break off
\* (transfer_item_atomic of item_writer.py), unless it is moved outside a trade.
OneOwner == ~strayed => \A i \in Items : \E o \in Characters : owners[i] = {o}

\* Deleting the edges that were found leaves nobody but the player.
OwnerInv ==
    /\ OneOwner
    /\ ~strayed => \A c \in Calls : At(c, "hand") =>
                      owners[job[c].item] \ job[c].seen \subseteq {Player}

LEMMA OwnerStep == TypeOK /\ OwnerInv /\ [Next]_vars => OwnerInv'
<1>. SUFFICES ASSUME TypeOK, OwnerInv, [Next]_vars, ~strayed'
              PROVE  /\ \A i \in Items : \E o \in Characters : owners'[i] = {o}
                     /\ \A c \in Calls : At(c, "hand")' =>
                           owners'[job'[c].item] \ job'[c].seen \subseteq {Player}
  BY DEF OwnerInv, OneOwner
<1>. DEFINE Goal == /\ \A i \in Items : \E o \in Characters : owners'[i] = {o}
                    /\ \A c \in Calls : At(c, "hand")' =>
                          owners'[job'[c].item] \ job'[c].seen \subseteq {Player}
<1>1. ASSUME UNCHANGED owners, ~strayed,
             \A c \in Calls : \/ job'[c] = job[c] \/ job'[c].at # "hand"
                              \/ job'[c].seen = owners[job'[c].item]
      PROVE  Goal
  BY <1>1 DEF OwnerInv, OneOwner, At
<1>2. ASSUME UNCHANGED <<owners, job>>, ~strayed PROVE Goal
  BY <1>1, <1>2
<1>3. CASE UNCHANGED vars
  BY <1>2, <1>3 DEF vars, goods, history
<1>4. ASSUME NEW n \in Npcs, OpenTradeFallback(n) PROVE Goal
  BY <1>2, <1>4 DEF OpenTradeFallback, goods, history
<1>5. ASSUME NEW n \in Npcs, NEW i \in Items, NEW move \in Moves, DispatchProposal(n, i, move)
      PROVE  Goal
  BY <1>2, <1>5 DEF DispatchProposal, Strays, goods
<1>6. ASSUME OfferAskingPrice \/ (\E delta \in Deltas : UpdateBand(delta))
               \/ ConfirmRefused \/ GiveUpWaiting
      PROVE  Goal
  BY <1>2, <1>6 DEF OfferAskingPrice, UpdateBand, ConfirmRefused, GiveUpWaiting, goods, history
<1>7. ASSUME NEW c \in Calls, ConfirmTrade(c) \/ Raise(c) \/ MatchFunds(c) \/ TransferCurrency(c)
      PROVE  Goal
  <2>1. UNCHANGED <<owners, strayed>>
    BY <1>7 DEF ConfirmTrade, Raise, MatchFunds, TransferCurrency, goods, history
  <2>2. \A d \in Calls : d # c => job'[d] = job[d]
    BY <1>7 DEF ConfirmTrade, Raise, MatchFunds, TransferCurrency, Leave, TypeOK
  <2>3. job'[c].at # "hand"
    <3>1. CASE ConfirmTrade(c)
      BY <3>1 DEF ConfirmTrade, TypeOK
    <3>2. CASE Raise(c) \/ TransferCurrency(c)
      BY <3>2 DEF Raise, TransferCurrency, Leave, TypeOK, Done
    <3>3. CASE MatchFunds(c)
      BY <3>3, JobType DEF MatchFunds, TypeOK, Trade, At
    <3>. QED
      BY <1>7, <3>1, <3>2, <3>3
  <2>. QED
    BY <1>1, <2>1, <2>2, <2>3
<1>8. ASSUME NEW c \in Calls, MatchOwner(c) PROVE Goal
  <2>1. job[c] \in Trade
    BY <1>8, JobType DEF MatchOwner, At
  <2>2. /\ job'[c].seen = owners[job'[c].item]
        /\ \A d \in Calls : d # c => job'[d] = job[d]
    BY <1>8, <2>1 DEF MatchOwner, TypeOK, Trade
  <2>3. UNCHANGED <<owners, strayed>>
    BY <1>8 DEF MatchOwner, goods, history
  <2>. QED
    BY <1>1, <2>2, <2>3
<1>9. ASSUME NEW c \in Calls, TransferItem(c) PROVE Goal
  <2>1. job[c] \in Trade /\ job[c].item \in Items /\ At(c, "hand") /\ ~strayed
    BY <1>9, JobType DEF TransferItem, At, Trade
  <2>2. \A i \in Items : owners'[i] = IF i = job[c].item THEN {Player} ELSE owners[i]
    <3>1. owners'[job[c].item] = (owners[job[c].item] \ job[c].seen) \cup {Player}
      BY <1>9, <2>1 DEF TransferItem, TypeOK
    <3>2. owners[job[c].item] \ job[c].seen \subseteq {Player}
      BY <2>1 DEF OwnerInv
    <3>3. \A i \in Items : i # job[c].item => owners'[i] = owners[i]
      BY <1>9, <2>1 DEF TransferItem, TypeOK
    <3>. QED
      BY <3>1, <3>2, <3>3
  <2>3. job'[c].at = "funds" /\ \A d \in Calls : d # c => job'[d] = job[d]
    BY <1>9, <2>1 DEF TransferItem, TypeOK, Trade
  <2>4. \A d \in Calls : At(d, "hand")' => At(d, "hand") /\ job'[d] = job[d] /\ job[d].item \in Items
    BY <2>3, JobType DEF At, Trade
  <2>. QED
    BY <2>1, <2>2, <2>4 DEF OwnerInv, OneOwner, Characters
<1>10. ASSUME NEW i \in Items, NEW from \in Npcs, NEW to \in Npcs, TransferOwnership(i, from, to)
       PROVE  Goal
  BY <1>10 DEF TransferOwnership
<1>11. CASE Restart
  <2>1. \A c \in Calls : job'[c].at # "hand"
    BY <1>11 DEF Restart, New, Done
  <2>. QED
    BY <1>1, <1>11, <2>1 DEF Restart, goods
<1>. QED
  BY <1>3, <1>4, <1>5, <1>6, <1>7, <1>8, <1>9, <1>10, <1>11 DEF Next

\* As long as nothing strays an item is owned by one character, never by two and
\* never by nobody, even when two trades of it overlap: OneOwner
\* (transfer_item_atomic deletes the edges it matched and merges a new one).
THEOREM ItemsHaveOneOwner == Spec => []OneOwner
<1>1. Init => OwnerInv
  <2>. SUFFICES ASSUME Init PROVE OwnerInv
    OBVIOUS
  <2>1. \A i \in Items : \E n \in Npcs : owners[i] = {n}
    BY DEF Init
  <2>2. \A c \in Calls : ~At(c, "hand")
    BY DEF Init, At, New
  <2>. QED
    BY <2>1, <2>2 DEF OwnerInv, OneOwner, Characters
<1>2. OwnerInv => OneOwner
  BY DEF OwnerInv
<1>. QED
  BY <1>1, <1>2, OwnerStep, TypeCorrect, PTL DEF Spec

=============================================================================
