------------------------------ MODULE Vesting -------------------------------
(***************************************************************************)
(* Vesting shares and what hangs on them: the fund that backs them, their  *)
(* withdrawal in weekly parts and its routes, their delegation, and the    *)
(* votes they give to witnesses, directly or through proxies.  Operations  *)
(* of accounts are evaluators of steem_evaluator.cpp with the validation   *)
(* of the operation; EndBlock is what _apply_block does to shares after    *)
(* the transactions of a block.  Rewards of comments are left out, mana is *)
(* always full.                                                            *)
(***************************************************************************)
EXTENDS Integers, Sequences, SequencesExt, FiniteSets, FiniteSetsExt

CONSTANTS Users, Null,    \* accounts, numbered in the order of their names
          Self,           \* PROXY_TO_SELF_ACCOUNT
          Producer,       \* the account of the witness that makes the blocks
          Witnesses,
          InitBalance, InitShares, InitFund,
          Unit,           \* shares per freezone when there are none
          Intervals,      \* VESTING_WITHDRAW_INTERVALS
          Week,           \* VESTING_WITHDRAW_INTERVAL_SECONDS
          Period,         \* delegation_return_period
          Recovery,       \* OWNER_AUTH_RECOVERY_PERIOD
          Whole,          \* 100_PERCENT
          MaxRoutes,      \* MAX_WITHDRAW_ROUTES
          Depth,          \* MAX_PROXY_RECURSION_DEPTH
          MaxVoted,       \* MAX_ACCOUNT_WITNESS_VOTES
          MinDelegation,  \* the least delegation,
          MinUpdate,      \* and the least change of one
          Inflation,      \* what process_funds may create for the fund and the producer
          Amounts, Percents, MaxTime,  \* bounds of the model: amounts and percents
                          \* in operations, blocks, and
          Mixes           \* the kinds of operations used together and their number

Accounts == Users \cup {Null}
Kinds    == {"fund", "withdraw", "route", "delegate", "vote", "proxy", "decline"}
Levels   == 0 .. Depth - 1
Never    == MaxTime + Week + 1

Sum(f(_), S) == MapThenSumSet(f, S)

ASSUME VestingAssumption ==
  /\ Users \subseteq Nat /\ Null \in Nat \ Users /\ Self \notin Accounts /\ Producer \in Users
  /\ InitBalance \in [Accounts -> Nat] /\ InitShares \in [Accounts -> Nat] /\ InitFund \in Nat \ {0}
  /\ {Unit, Intervals, Week, Whole, Depth} \subseteq Nat \ {0}
  /\ {Period, Recovery, MaxRoutes, MaxVoted, MinDelegation, MinUpdate} \subseteq Nat
  /\ Inflation \subseteq Nat /\ Amounts \subseteq Nat \ {0} /\ Percents \subseteq 0 .. Whole
  /\ MaxTime \in Nat /\ Mixes \subseteq [kinds : SUBSET Kinds, ops : Nat]

VARIABLES
  book,         \* what a stage of the end of a block hands to the next: balance,
                \* shares, proxied_vsf_votes of accounts; votes of witnesses; fund,
                \* total (vesting shares), supply; ok (no assertion has failed)
  down,         \* withdrawal of each account: rate, to, done, next
  routes,       \* withdraw_vesting_route_objects
  delegated, received,   \* of each account
  delegations,  \* vesting_delegation_objects
  returning,    \* vesting_delegation_expiration_objects
  proxy, votes, \* proxy of each account; witness_vote_objects
  voted,        \* witnesses_voted_for
  canVote,      \* can_vote
  declines,     \* decline_voting_rights_request_objects
  now,          \* head block time
  halted,       \* history: a block could not be applied
  unburnt,      \*   the null account has kept shares that were taken off the total
  ops, mix      \*   operations so far, and their kinds

powerVars == <<down, routes>>
lentVars  == <<delegated, received, delegations, returning>>
voteVars  == <<proxy, votes, voted, canVote, declines>>
blockVars == <<now, halted, unburnt>>
vars == <<book, powerVars, lentVars, voteVars, blockVars, ops, mix>>

Idle == [rate |-> 0, to |-> 0, done |-> 0, next |-> Never]

Init ==
  /\ book = [balance |-> InitBalance, shares |-> InitShares,
             proxied |-> [a \in Accounts |-> [l \in Levels |-> 0]],
             wvotes |-> [w \in Witnesses |-> 0],
             fund |-> InitFund, total |-> Sum(LAMBDA a : InitShares[a], Accounts),
             supply |-> InitFund + Sum(LAMBDA a : InitBalance[a], Accounts), ok |-> TRUE]
  /\ down = [a \in Accounts |-> Idle] /\ routes = {}
  /\ delegated = [a \in Accounts |-> 0] /\ received = [a \in Accounts |-> 0]
  /\ delegations = {} /\ returning = <<>>
  /\ proxy = [a \in Accounts |-> Self] /\ votes = {} /\ voted = [a \in Accounts |-> 0]
  /\ canVote = [a \in Accounts |-> TRUE] /\ declines = {}
  /\ now = 0 /\ halted = FALSE /\ unburnt = FALSE /\ ops = 0 /\ mix \in Mixes

-----------------------------------------------------------------------------
(* Votes                                                                   *)

\* witness_vote_weight
Weight(b, a) == b.shares[a] + Sum(LAMBDA l : b.proxied[a][l], Levels)

\* the weights of an account as the array the proxy evaluator makes of them
Weights(b, a) == [i \in 0 .. Depth |-> IF i = 0 THEN b.shares[a] ELSE b.proxied[a][i - 1]]
Negated(d)    == [i \in DOMAIN d |-> -d[i]]
Scalar(x)     == [i \in 0 .. Depth |-> IF i = 0 THEN x ELSE 0]

\* the accounts reached from a, one proxy after the other
Hops(prx, a) ==
  LET hop[n \in 0 .. Depth] ==
        IF n = 0 THEN a ELSE IF hop[n - 1] = Self THEN Self ELSE prx[hop[n - 1]]
  IN  hop

\* adjust_witness_vote, for all witnesses the account votes for
AdjustWitnessVotes(b, vts, a, x) ==
  LET of == {w \in Witnesses : <<a, w>> \in vts}
      wv == [w \in Witnesses |-> b.wvotes[w] + IF w \in of THEN x ELSE 0]
  IN  [b EXCEPT !.wvotes = wv, !.ok = @ /\ \A w \in of : wv[w] <= b.total]

\* the weights shift one level too little on their way up
Adjust_NoShift(b, prx, vts, a, delta) ==
  LET hop == Hops(prx, a)
      end == Max({n \in 0 .. Depth : hop[n] # Self})
      up  == [b EXCEPT !.proxied = [c \in Accounts |-> [l \in Levels |->
                b.proxied[c][l] + Sum(LAMBDA n : IF hop[n + 1] = c THEN delta[l] ELSE 0, Levels)]]]
  IN  IF prx[hop[end]] # Self THEN up
      ELSE AdjustWitnessVotes(up, vts, hop[end], Sum(LAMBDA i : delta[i], 0 .. Depth - end))

\* adjust_proxied_witness_votes: up the proxies, at most Depth of them; what
\* comes from further below is lost to the witnesses
Adjust(b, prx, vts, a, delta) ==
  LET hop == Hops(prx, a)
      end == Max({n \in 0 .. Depth : hop[n] # Self})
      up  == [b EXCEPT !.proxied = [c \in Accounts |-> [l \in Levels |->
                b.proxied[c][l] + Sum(LAMBDA n : IF hop[n + 1] = c /\ n <= l THEN delta[l - n] ELSE 0, Levels)]]]
  IN  IF prx[hop[end]] # Self THEN up
      ELSE AdjustWitnessVotes(up, vts, hop[end], Sum(LAMBDA i : delta[i], 0 .. Depth - end))

AccountWitnessVote(a, w, approve) ==
  LET has == <<a, w>> \in votes
      b   == AdjustWitnessVotes(book, {<<a, w>>}, a, IF approve THEN Weight(book, a) ELSE -Weight(book, a))
  IN  /\ proxy[a] = Self /\ has # approve
      /\ approve => canVote[a] /\ voted[a] < MaxVoted
      /\ b.ok /\ book' = b
      /\ votes' = IF approve THEN votes \cup {<<a, w>>} ELSE votes \ {<<a, w>>}
      /\ voted' = [voted EXCEPT ![a] = @ + IF approve THEN 1 ELSE -1]
      /\ UNCHANGED <<powerVars, lentVars, proxy, canVote, declines, blockVars>>

\* no loop, and not too long a way up from the new proxy.  The code walks up
\* through a pointer to a copy whose scope has ended; its memory is not used
\* again before the pointer is read.
ProxyAllowed(a, p) ==
  LET above[n \in 0 .. Cardinality(Accounts)] ==
        IF n = 0 THEN p ELSE IF above[n - 1] = Self THEN Self ELSE proxy[above[n - 1]]
      chain == {above[n] : n \in DOMAIN above} \ {Self}
  IN  a \notin chain /\ (proxy[p] # Self => Cardinality(chain) + 1 <= Depth)

\* clear_witness_votes
WithoutVotes(a) == {v \in votes : v[1] # a}

AccountWitnessProxy(a, p) ==
  LET off == Adjust(book, proxy, votes, a, Negated(Weights(book, a)))
      on  == Adjust(off, [proxy EXCEPT ![a] = p], WithoutVotes(a), a, Weights(book, a))
  IN  /\ proxy[a] # p /\ a # p /\ canVote[a]
      /\ proxy' = [proxy EXCEPT ![a] = p]
      /\ IF p = Self THEN off.ok /\ book' = off /\ UNCHANGED <<votes, voted>>
         ELSE /\ ProxyAllowed(a, p)
              /\ on.ok /\ book' = on
              /\ votes' = WithoutVotes(a) /\ voted' = [voted EXCEPT ![a] = 0]
      /\ UNCHANGED <<powerVars, lentVars, canVote, declines, blockVars>>

DeclineVotingRights(a, decline) ==
  LET mine == {d \in declines : d.account = a}
  IN  /\ decline <=> mine = {}
      /\ declines' = IF decline THEN declines \cup {[account |-> a, date |-> now + Recovery]} ELSE declines \ mine
      /\ UNCHANGED <<book, powerVars, lentVars, proxy, votes, voted, canVote, blockVars>>

-----------------------------------------------------------------------------
(* The fund                                                                *)

\* get_vesting_share_price
NoPrice(b) == b.fund = 0 \/ b.total = 0

\* what asset * price asserts of the price
Priced(b) == NoPrice(b) \/ (b.fund > 0 /\ b.total > 0)

\* asset * price: shares in freezone, freezone in shares
Value(b, x)    == IF NoPrice(b) THEN x \div Unit ELSE (x * b.fund) \div b.total
SharesFor(b, x) == IF NoPrice(b) THEN x * Unit ELSE (x * b.total) \div b.fund

\* create_vesting2
CreateVesting(b, a, x) ==
  LET new == SharesFor(b, x)
  IN  Adjust([b EXCEPT !.shares[a] = @ + new, !.fund = @ + x, !.total = @ + new, !.ok = @ /\ Priced(b)],
             proxy, votes, a, Scalar(new))

TransferToVesting(from, to, x) ==
  LET b == CreateVesting([book EXCEPT !.balance[from] = @ - x], to, x)
  IN  /\ book.balance[from] >= x
      /\ b.ok /\ book' = b
      /\ UNCHANGED <<powerVars, lentVars, voteVars, blockVars>>

-----------------------------------------------------------------------------
(* Withdrawals                                                             *)

\* the weekly rate, rounded up so that Intervals payments are enough
NewRate(x) == LET r == Max({1, x \div Intervals}) IN IF r * Intervals < x THEN r + 1 ELSE r

Remaining(a) == down[a].to - down[a].done

WithdrawVesting(a, x) ==
  /\ book.shares[a] - delegated[a] >= x
  /\ IF x = 0 THEN /\ down[a].rate # 0
                   /\ down' = [down EXCEPT ![a] = Idle]
              ELSE /\ down[a].rate # NewRate(x)
                   /\ down' = [down EXCEPT ![a] = [rate |-> NewRate(x), to |-> x, done |-> 0, next |-> now + Week]]
  /\ UNCHANGED <<book, routes, lentVars, voteVars, blockVars>>

RoutesOf(rs, a) == {r \in rs : r.from = a}

SetWithdrawVestingRoute(from, to, pct, auto) ==
  LET old == {r \in routes : r.from = from /\ r.to = to}
      new == IF pct = 0 THEN {} ELSE {[from |-> from, to |-> to, pct |-> pct, auto |-> auto]}
  IN  /\ old = {} => pct # 0 /\ Cardinality(RoutesOf(routes, from)) < MaxRoutes
      /\ routes' = (routes \ old) \cup new
      /\ Sum(LAMBDA r : r.pct, RoutesOf(routes', from)) <= Whole
      /\ UNCHANGED <<book, down, lentVars, voteVars, blockVars>>

\* a last part is paid like the others
Payment_Even(b, a) == Min({b.shares[a], down[a].rate})

\* what is paid this week
Payment(b, a) ==
  Min({b.shares[a], IF Remaining(a) < down[a].rate THEN down[a].to % down[a].rate ELSE down[a].rate})

\* shares that stay shares are added to the total
DepositShares_Minted(b, r, part) ==
  IF part = 0 THEN b
  ELSE Adjust([b EXCEPT !.shares[r.to] = @ + part, !.total = @ + part], proxy, votes, r.to, Scalar(part))

\* shares that stay shares
DepositShares(b, r, part) ==
  IF part = 0 THEN b ELSE Adjust([b EXCEPT !.shares[r.to] = @ + part], proxy, votes, r.to, Scalar(part))

\* shares that become freezone; the price is used even for none
DepositValue(b, to, part) ==
  LET v == Value(b, part)
  IN  [b EXCEPT !.balance[to] = @ + v, !.fund = @ - v, !.total = @ - part, !.ok = @ /\ Priced(b)]

\* routes in the order of by_withdraw_route
InOrder(rs) == SetToSortSeq(rs, LAMBDA r, s : r.to < s.to)

\* process_vesting_withdrawals for one account: first the routes that keep
\* shares, then the others, then the rest; the votes of the account last
Withdraw(b, a) ==
  LET pay  == Payment(b, a)
      Part(r) == (pay * r.pct) \div Whole
      mine == RoutesOf(routes, a)
      b1   == FoldLeft(LAMBDA x, r : DepositShares(x, r, Part(r)), b, InOrder({r \in mine : r.auto}))
      b2   == FoldLeft(LAMBDA x, r : DepositValue(x, r.to, Part(r)), b1, InOrder({r \in mine : ~r.auto}))
      b3   == DepositValue(b2, a, pay - Sum(Part, mine))
      b4   == [b3 EXCEPT !.shares[a] = @ - pay]
  IN  IF pay = 0 THEN b4 ELSE Adjust(b4, proxy, votes, a, Scalar(-pay))

\* its schedule afterwards, b the book before and after
Rescheduled(before, after, a) ==
  LET done == down[a].done + Payment(before, a)
  IN  IF done >= down[a].to \/ after.shares[a] = 0
        THEN [down[a] EXCEPT !.done = done, !.rate = 0, !.next = Never]
        ELSE [down[a] EXCEPT !.done = done, !.next = @ + Week]

-----------------------------------------------------------------------------
(* Delegation                                                              *)

\* mana at its maximum, without the shares still to be withdrawn
Available_NoPowerDown(a) == book.shares[a] - delegated[a]

Available(a) == book.shares[a] - delegated[a] - IF down[a].next # Never THEN Remaining(a) ELSE 0

DelegateVestingShares(from, to, x) ==
  LET mine == {d \in delegations : d.from = from /\ d.to = to}
      had  == Sum(LAMBDA d : d.amt, mine)
      more == x - had
  IN  /\ from # to
      /\ delegations' = (delegations \ mine) \cup
           (IF x = 0 /\ more < 0 THEN {} ELSE {[from |-> from, to |-> to, amt |-> x]})
      /\ received' = [received EXCEPT ![to] = @ + more]
      /\ \/ /\ mine = {} \/ more >= 0
            /\ more >= (IF mine = {} THEN MinDelegation ELSE MinUpdate) /\ Available(from) >= more
            /\ delegated' = [delegated EXCEPT ![from] = @ + more]
            /\ UNCHANGED returning
         \/ /\ mine # {} /\ more < 0
            /\ x > 0 => -more >= MinUpdate /\ x >= MinDelegation
            /\ returning' = Append(returning, [from |-> from, amt |-> -more, exp |-> now + Period])
            /\ UNCHANGED delegated
      /\ UNCHANGED <<book, powerVars, voteVars, blockVars>>

-----------------------------------------------------------------------------
(* The end of a block                                                      *)

\* clear_null_account_balance: the shares leave the total, the account is
\* only cleared when there was freezone to burn
ClearNull(b) ==
  LET x     == b.shares[Null]
      worth == IF x > 0 THEN Value(b, x) ELSE 0
      burnt == b.balance[Null] + worth
      b1    == [b EXCEPT !.total = @ - x, !.fund = @ - worth, !.supply = @ - burnt, !.ok = @ /\ (x > 0 => Priced(b))]
  IN  IF burnt > 0 THEN [b1 EXCEPT !.balance[Null] = 0, !.shares[Null] = 0] ELSE b1



\* process_funds: inflation for the fund and for the producer
ProcessFunds(b, new) ==
  CreateVesting([b EXCEPT !.fund = @ + new, !.supply = @ + 2 * new], Producer, new)

\* process_vesting_withdrawals, in the order of by_next_vesting_withdrawal
Due(t) == SetToSortSeq({a \in Accounts : down[a].next <= t}, LAMBDA x, y : x < y)

\* each withdrawal with the book before and after it
Withdrawals(b, t) ==
  FoldLeft(LAMBDA s, a : LET b1 == Withdraw(s.b, a)
                         IN  [b |-> b1, down |-> [s.down EXCEPT ![a] = Rescheduled(s.b, b1, a)]],
           [b |-> b, down |-> down], Due(t))

\* process_decline_voting_rights for one account, s the book, proxies, votes
Decline(s, a) ==
  [b   |-> Adjust(s.b, s.prx, s.vts, a, Negated(Weights(s.b, a))),
   prx |-> [s.prx EXCEPT ![a] = Self],
   vts |-> {v \in s.vts : v[1] # a}]

EndBlock(new) ==
  LET t        == now + 1
      back     == SelectSeq(returning, LAMBDA d : d.exp < t)
      b2       == ProcessFunds(ClearNull(book), new)
      s        == Withdrawals(b2, t)
      declined == {d.account : d \in {e \in declines : e.date <= t}}
      v        == FoldLeft(Decline, [b |-> s.b, prx |-> proxy, vts |-> votes], SetToSortSeq(declined, <))
  IN  /\ now < MaxTime /\ ~halted
      /\ IF ~v.b.ok THEN halted' = TRUE /\ UNCHANGED <<book, powerVars, lentVars, voteVars, now, unburnt>>
         ELSE /\ now' = t /\ book' = v.b /\ down' = s.down
              /\ unburnt' = (unburnt \/ ClearNull(book).shares[Null] > 0)
              /\ returning' = SelectSeq(returning, LAMBDA d : d.exp >= t)
              /\ delegated' = [a \in Accounts |->
                   delegated[a] - FoldLeft(LAMBDA n, d : n + IF d.from = a THEN d.amt ELSE 0, 0, back)]
              /\ votes' = v.vts /\ proxy' = v.prx
              /\ voted' = [a \in Accounts |-> IF a \in declined THEN 0 ELSE voted[a]]
              /\ canVote' = [a \in Accounts |-> canVote[a] /\ a \notin declined]
              /\ declines' = {d \in declines : d.account \notin declined}
              /\ UNCHANGED <<routes, received, delegations, halted>>

-----------------------------------------------------------------------------
Operation(a) ==
  \/ "fund" \in mix.kinds /\ \E to \in Accounts, x \in Amounts : TransferToVesting(a, to, x)
  \/ "withdraw" \in mix.kinds /\ \E x \in Amounts \cup {0} : WithdrawVesting(a, x)
  \/ "route" \in mix.kinds /\ \E to \in Accounts, pct \in Percents, auto \in BOOLEAN : SetWithdrawVestingRoute(a, to, pct, auto)
  \/ "delegate" \in mix.kinds /\ \E to \in Users, x \in Amounts \cup {0} : DelegateVestingShares(a, to, x)
  \/ "vote" \in mix.kinds /\ \E w \in Witnesses, approve \in BOOLEAN : AccountWitnessVote(a, w, approve)
  \/ "proxy" \in mix.kinds /\ \E p \in Accounts \cup {Self} : AccountWitnessProxy(a, p)
  \/ "decline" \in mix.kinds /\ \E decline \in BOOLEAN : DeclineVotingRights(a, decline)

Next == \/ ops < mix.ops /\ ops' = ops + 1 /\ UNCHANGED mix /\ ~halted /\ \E a \in Users : Operation(a)
        \/ UNCHANGED <<ops, mix>> /\ \E new \in Inflation : EndBlock(new)

Spec == Init /\ [][Next]_vars

-----------------------------------------------------------------------------
(* Properties                                                              *)

AllShares == Sum(LAMBDA a : book.shares[a], Accounts)

\* validate_invariants: the supply is what the accounts and the fund hold,
\* and, as long as the null account was cleared whenever its shares were taken
\* off, the total of vesting shares is what the accounts have and there is a
\* fund as long as there are shares.  Nobody is in debt.  Once the null account
\* has kept such shares the assertion on the total fails, and the property does
\* not claim it.
SharesMatch ==
  /\ book.supply = book.fund + Sum(LAMBDA a : book.balance[a], Accounts)
  /\ ~ unburnt => /\ book.total = AllShares
                  /\ book.fund >= 0 /\ (book.fund = 0 => book.total = 0)
  /\ \A a \in Accounts : book.shares[a] >= 0 /\ book.balance[a] >= 0

\* The assertion of adjust_witness_vote never keeps a block from being applied.
BlocksApply == ~halted

\* validate_invariants: every share counts once among the accounts that vote
\* for themselves and what is lost at the end of too long a way up, and a
\* witness has the weight of exactly those who vote for it, through changes
\* of proxies above and below, of shares, and of voting rights.
VotesExact ==
  /\ AllShares = Sum(LAMBDA a : IF proxy[a] = Self THEN Weight(book, a) ELSE book.proxied[a][Depth - 1], Accounts)
  /\ \A w \in Witnesses : book.wvotes[w] = Sum(LAMBDA v : IF v[2] = w THEN Weight(book, v[1]) ELSE 0, votes)
  /\ \A a \in Accounts : /\ voted[a] = Cardinality({v \in votes : v[1] = a})
                         /\ voted[a] > 0 => proxy[a] = Self /\ canVote[a]

\* What an account has delegated, including what is on its way back, and what
\* it is withdrawing are different shares, and it has them all.
Backed ==
  \A a \in Accounts :
    /\ book.shares[a] - delegated[a] >= IF down[a].next # Never THEN Remaining(a) ELSE 0
    /\ delegated[a] = Sum(LAMBDA d : IF d.from = a THEN d.amt ELSE 0, delegations)
                      + FoldLeft(LAMBDA n, d : n + IF d.from = a THEN d.amt ELSE 0, 0, returning)
    /\ received[a] = Sum(LAMBDA d : IF d.to = a THEN d.amt ELSE 0, delegations)

\* A withdrawal that is not cancelled or replaced ends with exactly the amount
\* asked for, and the payments left are enough for what remains.
PaidInFull ==
  [][\A a \in Accounts : now' # now /\ down[a].next # Never =>
       /\ down'[a].next = Never => down'[a].done = down[a].to
       /\ down'[a].rate * Intervals >= down'[a].to \/ down'[a].next = Never]_vars
=============================================================================
