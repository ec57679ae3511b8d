-------------------------- MODULE WitnessSchedule ---------------------------
(***************************************************************************)
(* Who produces the blocks of the next round: the witnesses with the most  *)
(* votes, and the runners-up in turn by virtual time.  A witness runs a    *)
(* lap at the speed of its votes; the time it will need is kept up to date *)
(* when its votes change, and all arithmetic is that of an unsigned        *)
(* integer whose greatest value is the length of the lap.  Miners, which   *)
(* have no places since hardfork 17, and the shuffle of the round, whose   *)
(* order is not looked at here, are left out.                              *)
(***************************************************************************)
EXTENDS Integers, FiniteSets, FiniteSetsExt

CONSTANTS Witnesses,     \* numbered in the order of their ids and names
          MaxWitnesses,  \* MAX_WITNESSES
          MaxVoted,      \* max_voted_witnesses
          Lap,           \* VIRTUAL_SCHEDULE_LAP_LENGTH2, the greatest uint128
          InitVotes,     \* of the witnesses there are at the start
          MaxVotes, MaxChanges  \* bounds: votes of a witness, changes

ASSUME ScheduleAssumption ==
  /\ Witnesses \subseteq Nat /\ IsFiniteSet(Witnesses) /\ Lap \in Nat \ {0}
  /\ MaxWitnesses \in Nat /\ MaxVoted \in 0 .. MaxWitnesses
  /\ DOMAIN InitVotes \subseteq Witnesses /\ \A w \in DOMAIN InitVotes : InitVotes[w] \in Nat
  /\ MaxVotes \in Nat /\ MaxChanges \in Nat

VARIABLES
  there, votes, key,     \* the witnesses; their votes; whether they have a signing key
  last, position, sched, \* virtual_last_update, virtual_position, virtual_scheduled_time
  time,                  \* current_virtual_time
  active,                \* current_shuffled_witnesses
  round,                 \* history: parity of the rounds, changes so far,
  changes, halted        \*   and whether a block could not be applied

vars == <<there, votes, key, last, position, sched, time, active, round, changes, halted>>

U(n) == n % (Lap + 1)

Init ==
  /\ there = DOMAIN InitVotes
  /\ votes = [w \in Witnesses |-> IF w \in there THEN InitVotes[w] ELSE 0]
  /\ key = [w \in Witnesses |-> w \in there]
  /\ last = [w \in Witnesses |-> 0] /\ position = [w \in Witnesses |-> 0]
  /\ sched = [w \in Witnesses |-> IF w \in there THEN Lap \div (InitVotes[w] + 1) ELSE Lap]
  /\ time = 0 /\ active = {} /\ round = 0 /\ changes = 0 /\ halted = FALSE

-----------------------------------------------------------------------------
\* the time is not compared with the present one
Arrival_Wrapped(w, pos, x) == U(time + U(Lap - pos) \div (x + 1))

\* when w ends its lap with x votes; too late to be counted is the end of time
Arrival(w, pos, x) ==
  LET t == U(time + U(Lap - pos) \div (x + 1)) IN IF t < time THEN Lap ELSE t

\* adjust_witness_vote
AdjustWitnessVote(w, x) ==
  LET pos == U(position[w] + votes[w] * U(time - last[w]))
  IN  /\ w \in there /\ x # votes[w] /\ changes < MaxChanges
      /\ votes' = [votes EXCEPT ![w] = x]
      /\ position' = [position EXCEPT ![w] = pos]
      /\ last' = [last EXCEPT ![w] = time]
      /\ sched' = [sched EXCEPT ![w] = Arrival(w, pos, x)]
      /\ changes' = changes + 1
      /\ UNCHANGED <<there, key, time, active, round, halted>>

\* witness_update_evaluator: a new witness, or another signing key, or none
WitnessUpdate(w, k) ==
  /\ w \notin there \/ key[w] # k
  /\ changes < MaxChanges /\ changes' = changes + 1
  /\ there' = there \cup {w} /\ key' = [key EXCEPT ![w] = k]
  /\ UNCHANGED <<votes, last, position, sched, time, active, round, halted>>

-----------------------------------------------------------------------------
\* by_vote_name, by_schedule_time
AheadByVotes(v, w) == votes[v] > votes[w] \/ (votes[v] = votes[w] /\ v < w)
AheadByTime(v, w)  == sched[v] < sched[w] \/ (sched[v] = sched[w] /\ v < w)

\* selected_voted
Elected == {w \in there : key[w] /\ Cardinality({v \in there : key[v] /\ AheadByVotes(v, w)}) < MaxVoted}

\* the witnesses in the lead that are looked at, until the places are filled
Processed(elected) ==
  {w \in there : Cardinality({v \in there : key[v] /\ v \notin elected /\ AheadByTime(v, w)})
                   < MaxWitnesses - Cardinality(elected)}

\* everyone advances to the time of the last one looked at
NewTime(on) == IF on = {} THEN time ELSE Max({sched[w] : w \in on})

Overflows(on, t) == \E w \in on : U(t + Lap \div (votes[w] + 1)) < t

\* the witnesses keep the times they had
Reset_OnlyTime == time' = 0 /\ UNCHANGED <<position, last, sched>>

\* reset_virtual_schedule_time: everyone is at the start again
Reset == /\ time' = 0
         /\ position' = [w \in Witnesses |-> IF w \in there THEN 0 ELSE position[w]]
         /\ last' = [w \in Witnesses |-> IF w \in there THEN 0 ELSE last[w]]
         /\ sched' = [w \in Witnesses |-> IF w \in there THEN Lap \div (votes[w] + 1) ELSE sched[w]]

\* the witnesses looked at start a new lap, whether they got a place or not
NewLap(on, t) ==
  /\ time' = t
  /\ position' = [w \in Witnesses |-> IF w \in on THEN 0 ELSE position[w]]
  /\ last' = [w \in Witnesses |-> IF w \in on THEN t ELSE last[w]]
  /\ sched' = [w \in Witnesses |-> IF w \in on THEN U(t + Lap \div (votes[w] + 1)) ELSE sched[w]]

\* the assertion at the end of the selection
RightNumber(selected) == Cardinality(selected) = Min({MaxWitnesses, Cardinality(there)})

\* update_witness_schedule4; the block fails with the assertion, and so does
\* every other one that could follow
UpdateWitnessSchedule ==
  \E elected \in {Elected} : \E on \in {Processed(elected)} : \E t \in {NewTime(on)} :
    LET selected == elected \cup {w \in on : key[w]}
    IN  /\ ~halted
        /\ \/ /\ RightNumber(selected)
              /\ active' = selected /\ round' = 1 - round
              /\ IF Overflows(on, t) THEN Reset ELSE NewLap(on, t)
              /\ UNCHANGED halted
           \/ /\ ~RightNumber(selected)
              /\ halted' = TRUE
              /\ UNCHANGED <<last, position, sched, time, active, round>>
        /\ UNCHANGED <<there, votes, key, changes>>

Next == \/ \E w \in Witnesses, x \in 0 .. MaxVotes : ~halted /\ AdjustWitnessVote(w, x)
        \/ \E w \in Witnesses, k \in BOOLEAN : ~halted /\ WitnessUpdate(w, k)
        \/ UpdateWitnessSchedule

\* A round follows the other as long as blocks are produced.
Spec == Init /\ [][Next]_vars /\ WF_vars(UpdateWitnessSchedule)

-----------------------------------------------------------------------------
(* Properties                                                              *)

TypeOK ==
  /\ there \subseteq Witnesses /\ active \subseteq there
  /\ votes \in [Witnesses -> Nat] /\ key \in [Witnesses -> BOOLEAN]
  /\ last \in [Witnesses -> 0 .. Lap] /\ position \in [Witnesses -> 0 .. Lap]
  /\ sched \in [Witnesses -> 0 .. Lap] /\ time \in 0 .. Lap
  /\ round \in 0 .. 1 /\ changes \in Nat /\ halted \in BOOLEAN

\* Nobody's arrival is in the past, whatever happened to its votes: a wrapped
\* time would put a witness with few votes in the lead.  No position is beyond
\* the lap, so that what is left of it never wraps.
NobodyWraps ==
  \A w \in there : /\ time <= sched[w]
                   /\ last[w] <= time
                   /\ position[w] + votes[w] * (time - last[w]) <= Lap

\* Why nobody wraps.  A witness that keeps its votes until its arrival ends at
\* most one lap; those that are not there yet are at rest at the end of time.
OneLap == \A w \in there : /\ last[w] <= time /\ time <= sched[w]
                           /\ position[w] + votes[w] * (sched[w] - last[w]) <= Lap
AtRest == \A w \in Witnesses \ there : votes[w] = 0 /\ last[w] = 0 /\ position[w] = 0 /\ sched[w] = Lap

IInv == TypeOK /\ OneLap /\ AtRest

\* Every witness that has a vote and a signing key gets a place again and
\* again, also after resets of the virtual time and changes of votes.
EveryoneServed ==
  \A w \in Witnesses : []<>(halted \/ w \notin there \/ votes[w] = 0 \/ ~key[w] \/ w \in active)
=============================================================================
