------------------------------- MODULE Ledger -------------------------------
(***************************************************************************)
(* The two liquid currencies, freezone ("F") and SBD ("D"), in all places  *)
(* where the chain keeps them outside of vesting and rewards: balances,    *)
(* savings and their delayed withdrawals, limit orders and their matching, *)
(* escrows, and conversions of SBD at the price of the feed.  Operations   *)
(* of accounts are the evaluators of steem_evaluator.cpp with the          *)
(* validation of the operation; EndBlock is what _apply_block does after   *)
(* the transactions of a block.  SBD bears no interest here.               *)
(***************************************************************************)
EXTENDS Integers, FiniteSets, FiniteSetsExt, Functions

CONSTANTS Users, Null,    \* accounts; freezone_NULL_ACCOUNT
          InitBalance,    \* InitBalance[a][s]
          Ids,            \* order, request and escrow ids
          Prices,         \* prices of orders, <<base, quote>>
          FeedPrices,     \* medians of the feed, <<SBD, freezone>>
          MaxRequests,    \* SAVINGS_WITHDRAW_REQUEST_LIMIT
          Delay,          \* SAVINGS_WITHDRAW_TIME and CONVERSION_DELAY
          Amounts, MaxTime, MaxObjects,  \* bounds of the model: amounts in operations,
                          \* blocks, objects, and
          Mixes           \* the kinds of operations used together and their number

Accounts == Users \cup {Null}
Symbols  == {"F", "D"}
Other(s) == IF s = "F" THEN "D" ELSE "F"
Kinds    == {"savings", "market", "escrow", "convert"}

ASSUME LedgerAssumption ==
  /\ IsFiniteSet(Users) /\ Null \notin Users /\ Delay \in Nat /\ MaxRequests \in Nat
  /\ InitBalance \in [Accounts -> [Symbols -> Nat]]
  /\ Prices \cup FeedPrices \subseteq (Nat \ {0}) \X (Nat \ {0})
  /\ Amounts \subseteq Nat \ {0} /\ Mixes \subseteq [kinds : SUBSET Kinds, ops : Nat]
  /\ MaxTime \in Nat /\ MaxObjects \in Nat

VARIABLES
  balance, savings,  \* of each account, by symbol
  requests,          \* savings_withdraw_requests of each account
  orders,            \* limit_order_objects, num by their ids
  withdrawals,       \* savings_withdraw_objects
  conversions,       \* convert_request_objects
  escrows,           \* escrow_objects
  supply,            \* current_supply and current_sbd_supply
  now,               \* head block time
  fills, ops, mix    \* history: fills of the last operation; operations; their kinds

vars == <<balance, savings, requests, orders, withdrawals, conversions, escrows, supply, now, fills, ops, mix>>

\* what accounts and objects hold of a symbol, as validate_invariants adds it up
Owned(bal, s)      == SumFunction([a \in Accounts |-> bal[a][s]])
InOrder(o, s)      == IF o.sell = s THEN o.amt ELSE 0
InWithdrawal(w, s) == IF w.sym = s THEN w.amt ELSE 0
InEscrow(e, s)     == e.amt[s] + IF e.feeSym = s THEN e.fee ELSE 0
InConversion(c, s) == IF s = "D" THEN c.amt ELSE 0

Init == /\ balance = InitBalance
        /\ savings = [a \in Accounts |-> [s \in Symbols |-> 0]]
        /\ requests = [a \in Accounts |-> 0]
        /\ orders = {} /\ withdrawals = {} /\ conversions = {} /\ escrows = {}
        /\ supply = [s \in Symbols |-> Owned(InitBalance, s)]
        /\ now = 0 /\ fills = {} /\ ops = 0 /\ mix \in Mixes

\* adjust_balance, adjust_savings_balance
Credit(bal, a, s, x) == [bal EXCEPT ![a][s] = @ + x]

\* Room for one more object, a bound of the model
Room == Cardinality(orders) + Cardinality(withdrawals) + Cardinality(conversions) + Cardinality(escrows) < MaxObjects

-----------------------------------------------------------------------------
(* Transfers and savings                                                   *)

Transfer(from, to, s, x) ==
  /\ balance[from][s] >= x
  /\ balance' = Credit(Credit(balance, from, s, -x), to, s, x)
  /\ fills' = {}
  /\ UNCHANGED <<savings, requests, orders, withdrawals, conversions, escrows, supply, now>>

TransferToSavings(from, to, s, x) ==
  /\ balance[from][s] >= x
  /\ balance' = Credit(balance, from, s, -x)
  /\ savings' = Credit(savings, to, s, x)
  /\ fills' = {}
  /\ UNCHANGED <<requests, orders, withdrawals, conversions, escrows, supply, now>>

TransferFromSavings(from, to, s, x, id) ==
  /\ Room /\ requests[from] < MaxRequests /\ savings[from][s] >= x
  /\ \A w \in withdrawals : <<w.from, w.id>> # <<from, id>>
  /\ savings' = Credit(savings, from, s, -x)
  /\ withdrawals' = withdrawals \cup
       {[from |-> from, id |-> id, to |-> to, sym |-> s, amt |-> x, complete |-> now + Delay]}
  /\ requests' = [requests EXCEPT ![from] = @ + 1]
  /\ fills' = {}
  /\ UNCHANGED <<balance, orders, conversions, escrows, supply, now>>

CancelTransferFromSavings(w) ==
  /\ savings' = Credit(savings, w.from, w.sym, w.amt)
  /\ withdrawals' = withdrawals \ {w}
  /\ requests' = [requests EXCEPT ![w.from] = @ - 1]
  /\ fills' = {}
  /\ UNCHANGED <<balance, orders, conversions, escrows, supply, now>>

-----------------------------------------------------------------------------
(* The internal market.  A price <<b, q>> of an order sells b for q.       *)

\* asset * price, of the base and of the quote, rounded down
Times(x, p) == (x * p[2]) \div p[1]
Inv(p) == <<p[2], p[1]>>

\* by_price: greater< price >, then the older order
Greater(p, q) == p[1] * q[2] > q[1] * p[2]

\* apply_order: the orders between the best one and ~sell_price
Crosses(o, n) == o.sell = Other(n.sell) /\ ~Greater(Inv(n.price), o.price)

\* matching goes on after the new order's limit
Matching_AnyPrice(os, n) == {o \in os : o.sell = Other(n.sell)}

Matching(os, n) == {o \in os : Crosses(o, n)}

Before(o, p) == Greater(o.price, p.price) \/ (~Greater(p.price, o.price) /\ o.num < p.num)
Best(os) == CHOOSE o \in os : \A p \in os \ {o} : Before(o, p)

\* match: at the price of the old order, one of the two is used up
Paid(n, o) ==
  LET whole == Times(o.amt, o.price)
  IN  IF n.amt <= whole THEN [new |-> n.amt, old |-> Times(n.amt, Inv(o.price))]
                        ELSE [new |-> whole, old |-> o.amt]

\* the rest of an order that is too small to be sold is dropped
Fill_NoRefund(o, pays) ==
  LET rest == o.amt - pays
  IN  IF rest = 0 \/ Times(rest, o.price) = 0 THEN [rest |-> 0, refund |-> 0] ELSE [rest |-> rest, refund |-> 0]

\* fill_order: what stays of the order, and what is refunded because its
\* price asks nothing for it
Fill(o, pays) ==
  LET rest == o.amt - pays
  IN  IF Times(rest, o.price) = 0 THEN [rest |-> 0, refund |-> rest] ELSE [rest |-> rest, refund |-> 0]

\* one match of the new order with the best of those it crosses
MatchOne(m) ==
  LET n  == m.new
      o  == Best(Matching(m.orders, n))
      p  == Paid(n, o)
      fn == Fill(n, p.new)
      fo == Fill(o, p.old)
      b1 == Credit(Credit(m.balance, n.seller, o.sell, p.old), n.seller, n.sell, fn.refund)
      b2 == Credit(Credit(b1, o.seller, n.sell, p.new), o.seller, o.sell, fo.refund)
  IN  IF n.amt = 0 \/ Matching(m.orders, n) = {} THEN m
      ELSE [balance |-> b2, new |-> [n EXCEPT !.amt = fn.rest],
            orders |-> (m.orders \ {o}) \cup (IF fo.rest = 0 THEN {} ELSE {[o EXCEPT !.amt = fo.rest]}),
            fills |-> m.fills \cup {[pays |-> p.new, gets |-> p.old, price |-> n.price],
                                    [pays |-> p.old, gets |-> p.new, price |-> o.price]}]

\* only the best order is looked at
Rounds_OnlyBest(n) == 1

\* the orders to go through
Rounds(n) == Cardinality(Matching(orders, n))

ApplyOrder(n, bal) ==
  LET after[k \in Nat] == IF k = 0 THEN [balance |-> bal, new |-> n, orders |-> orders, fills |-> {}]
                          ELSE MatchOne(after[k - 1])
  IN  after[Rounds(n)]

NewNum == 1 + Max({0} \cup {o.num : o \in orders})

LimitOrderCreate(a, s, x, p, id, exp, fillOrKill) ==
  /\ Room /\ balance[a][s] >= x /\ Times(x, p) > 0 /\ exp > now
  /\ \A o \in orders : <<o.seller, o.id>> # <<a, id>>
  /\ LET new == [num |-> NewNum, seller |-> a, id |-> id, sell |-> s, amt |-> x, price |-> p, exp |-> exp]
         m   == ApplyOrder(new, Credit(balance, a, s, -x))
     IN  /\ fillOrKill => m.new.amt = 0
         /\ balance' = m.balance /\ fills' = m.fills
         /\ orders' = m.orders \cup (IF m.new.amt = 0 THEN {} ELSE {m.new})
  /\ UNCHANGED <<savings, requests, withdrawals, conversions, escrows, supply, now>>

\* cancel_order
LimitOrderCancel(o) ==
  /\ balance' = Credit(balance, o.seller, o.sell, o.amt) /\ orders' = orders \ {o}
  /\ fills' = {}
  /\ UNCHANGED <<savings, requests, withdrawals, conversions, escrows, supply, now>>

-----------------------------------------------------------------------------
(* Escrow and conversion                                                   *)

Approved(e) == e.toApproved /\ e.agentApproved

EscrowTransfer(from, to, agent, x, fee, id, deadline, expiration) ==
  /\ Room /\ from # agent /\ to # agent
  /\ now < deadline /\ deadline < expiration
  /\ \A e \in escrows : <<e.from, e.id>> # <<from, id>>
  /\ \E s \in Symbols :
       LET spent == [t \in Symbols |-> x[t] + (IF t = s THEN fee ELSE 0)]
       IN  /\ \A t \in Symbols : balance[from][t] >= spent[t]
           /\ balance' = [balance EXCEPT ![from] = [t \in Symbols |-> @[t] - spent[t]]]
           /\ escrows' = escrows \cup
                {[from |-> from, id |-> id, to |-> to, agent |-> agent, amt |-> x, fee |-> fee, feeSym |-> s,
                  deadline |-> deadline, expiration |-> expiration,
                  toApproved |-> FALSE, agentApproved |-> FALSE, disputed |-> FALSE]}
  /\ fills' = {}
  /\ UNCHANGED <<savings, requests, orders, withdrawals, conversions, supply, now>>

\* what a rejected or expired escrow returns to its sender
Returned(bal, e) == [bal EXCEPT ![e.from] = [t \in Symbols |-> @[t] + InEscrow(e, t)]]

\* the fee goes to the agent with the first approval of both
EscrowApprove(e, who, approve) ==
  /\ who \in {e.to, e.agent} /\ e.deadline >= now
  /\ who = e.to => ~e.toApproved
  /\ who = e.agent => ~e.agentApproved
  /\ LET e1 == [e EXCEPT !.toApproved = @ \/ who = e.to, !.agentApproved = @ \/ who = e.agent]
     IN  IF ~approve
           THEN balance' = Returned(balance, e) /\ escrows' = escrows \ {e}
         ELSE IF Approved(e1)
           THEN /\ balance' = Credit(balance, e.agent, e.feeSym, e.fee)
                /\ escrows' = (escrows \ {e}) \cup {[e1 EXCEPT !.fee = 0]}
         ELSE /\ escrows' = (escrows \ {e}) \cup {e1}
              /\ UNCHANGED balance
  /\ fills' = {}
  /\ UNCHANGED <<savings, requests, orders, withdrawals, conversions, supply, now>>

EscrowDispute(e) ==
  /\ now < e.expiration /\ Approved(e) /\ ~e.disputed
  /\ escrows' = (escrows \ {e}) \cup {[e EXCEPT !.disputed = TRUE]}
  /\ fills' = {}
  /\ UNCHANGED <<balance, savings, requests, orders, withdrawals, conversions, supply, now>>

MayRelease(e, who, receiver) ==
  /\ receiver \in {e.from, e.to} /\ Approved(e)
  /\ IF e.disputed THEN who = e.agent
     ELSE /\ who \in {e.from, e.to}
          /\ e.expiration > now => receiver = (IF who = e.from THEN e.to ELSE e.from)

EscrowRelease(e, who, receiver, x) ==
  /\ MayRelease(e, who, receiver)
  /\ \A s \in Symbols : x[s] <= e.amt[s]
  /\ balance' = [balance EXCEPT ![receiver] = [s \in Symbols |-> @[s] + x[s]]]
  /\ LET left == [s \in Symbols |-> e.amt[s] - x[s]]
     IN  escrows' = (escrows \ {e}) \cup (IF \A s \in Symbols : left[s] = 0 THEN {} ELSE {[e EXCEPT !.amt = left]})
  /\ fills' = {}
  /\ UNCHANGED <<savings, requests, orders, withdrawals, conversions, supply, now>>

Convert(a, x, id) ==
  /\ Room /\ balance[a]["D"] >= x
  /\ \A c \in conversions : <<c.owner, c.id>> # <<a, id>>
  /\ balance' = Credit(balance, a, "D", -x)
  /\ conversions' = conversions \cup {[owner |-> a, id |-> id, amt |-> x, date |-> now + Delay]}
  /\ fills' = {}
  /\ UNCHANGED <<savings, requests, orders, withdrawals, escrows, supply, now>>

-----------------------------------------------------------------------------
(* The end of a block                                                      *)

Nothing == [s \in Symbols |-> 0]

\* clear_expired_orders; clear_null_account_balance, which burns what was sent
\* to the null account; process_conversions, process_savings_withdraws and
\* expire_escrow_ratification.  Each pays an account for its own objects.
EndBlock(price) ==
  LET time    == now + 1
      expired == {o \in orders : o.exp < time}
      mature  == {c \in conversions : c.date <= time}
      done    == {w \in withdrawals : w.complete <= time}
      lapsed  == {e \in escrows : ~Approved(e) /\ e.deadline <= time}
      refunded(a, s)  == SumFunction([o \in {o \in expired : o.seller = a} |-> InOrder(o, s)])
      bought(a, s)    == SumFunction([c \in {c \in mature : c.owner = a} |-> IF s = "F" THEN Times(c.amt, price) ELSE 0])
      withdrawn(a, s) == SumFunction([w \in {w \in done : w.to = a} |-> InWithdrawal(w, s)])
      returned(a, s)  == SumFunction([e \in {e \in lapsed : e.from = a} |-> InEscrow(e, s)])
      kept(a, s)      == IF a = Null THEN 0 ELSE balance[a][s] + refunded(a, s)
      burnt(s)        == balance[Null][s] + refunded(Null, s) + savings[Null][s]
  IN  /\ now < MaxTime /\ now' = time
      /\ orders' = orders \ expired
      /\ savings' = [savings EXCEPT ![Null] = Nothing]
      /\ conversions' = conversions \ mature
      /\ withdrawals' = withdrawals \ done
      /\ requests' = [a \in Accounts |-> requests[a] - Cardinality({w \in done : w.from = a})]
      /\ escrows' = escrows \ lapsed
      /\ balance' = [a \in Accounts |-> [s \in Symbols |->
                        kept(a, s) + bought(a, s) + withdrawn(a, s) + returned(a, s)]]
      /\ supply' = [s \in Symbols |->
           (supply[s] - burnt(s))
             + IF s = "F" THEN SumFunction([c \in mature |-> Times(c.amt, price)])
                          ELSE - SumFunction([c \in mature |-> c.amt])]
      /\ fills' = {}

-----------------------------------------------------------------------------
Parts == [Symbols -> {0, 1}] \ {Nothing}

Operation(a) ==
  \/ \E to \in Accounts, s \in Symbols, x \in Amounts : Transfer(a, to, s, x)
  \/ /\ "savings" \in mix.kinds
     /\ \/ \E to \in Accounts, s \in Symbols, x \in Amounts :
             TransferToSavings(a, to, s, x) \/ (\E id \in Ids : TransferFromSavings(a, to, s, x, id))
        \/ \E w \in withdrawals : w.from = a /\ CancelTransferFromSavings(w)
  \/ /\ "market" \in mix.kinds
     /\ \/ \E s \in Symbols, x \in Amounts, p \in Prices, id \in Ids, exp \in now + 1 .. MaxTime, f \in BOOLEAN :
             LimitOrderCreate(a, s, x, p, id, exp, f)
        \/ \E o \in orders : o.seller = a /\ LimitOrderCancel(o)
  \/ "convert" \in mix.kinds /\ \E x \in Amounts, id \in Ids : Convert(a, x, id)
  \/ /\ "escrow" \in mix.kinds
     /\ \/ \E to, agent \in Users, x \in Parts, fee \in 0 .. 1, id \in Ids, d, e \in now + 1 .. MaxTime :
             EscrowTransfer(a, to, agent, x, fee, id, d, e)
        \/ \E e \in escrows :
             \/ \E approve \in BOOLEAN : EscrowApprove(e, a, approve)
             \/ a \in {e.from, e.to} /\ EscrowDispute(e)
             \/ \E r \in Users, x \in Parts : EscrowRelease(e, a, r, x)

Next == \/ ops < mix.ops /\ ops' = ops + 1 /\ UNCHANGED mix /\ \E a \in Users : Operation(a)
        \/ UNCHANGED <<ops, mix>> /\ \E p \in FeedPrices : EndBlock(p)

Spec == Init /\ [][Next]_vars

-----------------------------------------------------------------------------
(* Properties                                                              *)

Held(s) == Owned(balance, s) + Owned(savings, s)
             + SumFunction([o \in orders |-> InOrder(o, s)])
             + SumFunction([w \in withdrawals |-> InWithdrawal(w, s)])
             + SumFunction([e \in escrows |-> InEscrow(e, s)])
             + SumFunction([c \in conversions |-> InConversion(c, s)])

\* validate_invariants: through matching and its rounding, refunds, delayed
\* withdrawals, escrows in any stage, burning and conversions the supply is
\* what the accounts and objects hold together, and nobody is in debt.  The
\* count of withdrawals, which limits them, is that of the objects.
SupplyMatches ==
  /\ \A s \in Symbols : supply[s] = Held(s)
  /\ \A a \in Accounts : /\ \A s \in Symbols : balance[a][s] >= 0 /\ savings[a][s] >= 0
                         /\ requests[a] = Cardinality({w \in withdrawals : w.from = a})

\* No order waits in the book beside one it could be filled with, and every
\* order in it still asks for something.
BookUncrossed ==
  /\ \A o, p \in orders : ~Crosses(o, p)
  /\ \A o \in orders : Times(o.amt, o.price) > 0

\* Both sides of every match get at least what their price asks for what they
\* pay, and never pay for nothing.
TradesAtLimit == \A f \in fills : f.gets >= Times(f.pays, f.price) /\ f.gets > 0
=============================================================================
