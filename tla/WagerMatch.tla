------------------------------ MODULE WagerMatch ------------------------------
(***************************************************************************)
(* What a wagered match promises its players, without saying how: a stake  *)
(* from each, one outcome, and each stake paid out according to it, in the *)
(* same step.  There is no escrow account here, no clock and no board: a   *)
(* stake that has left a purse is owed to somebody until it is back in one.*)
(*                                                                         *)
(* A match takes place at a venue, one at a time.  Hosting one costs the   *)
(* host a deposit (Rent) that comes back, with whatever strangers left at  *)
(* the venue, when the match is cleared away.                              *)
(***************************************************************************)
EXTENDS Integers

CONSTANTS Wallets, Nobody, Venues, Stakes, Gifts, Rent

VARIABLES
  match,  \* the match at every venue
  purse,  \* lamports of every wallet
  gifts   \* lamports strangers left at every venue

vars == <<match, purse, gifts>>

NoMatch == [phase |-> "NoAccount", white |-> Nobody, black |-> Nobody, stake |-> 0,
            outcome |-> "Ongoing"]

\* What white or black gets of the two stakes.
Reward(M, outcome, wins) ==
  IF outcome = "Draw" THEN M.stake ELSE IF outcome = wins THEN 2 * M.stake ELSE 0

Offer(m, host, stake) ==
  /\ match[m].phase = "NoAccount"
  /\ purse[host] >= stake + Rent
  /\ match' = [match EXCEPT ![m] =
                 [phase |-> "WaitingForOpponent", white |-> host, black |-> Nobody,
                  stake |-> stake, outcome |-> "Ongoing"]]
  /\ purse' = [purse EXCEPT ![host] = @ - (stake + Rent)]
  /\ UNCHANGED gifts

Accept(m, guest) ==
  /\ match[m].phase = "WaitingForOpponent"
  /\ guest # match[m].white
  /\ purse[guest] >= match[m].stake
  /\ match' = [match EXCEPT ![m].phase = "Active", ![m].black = guest]
  /\ purse' = [purse EXCEPT ![guest] = @ - match[m].stake]
  /\ UNCHANGED gifts

\* The outcome and the payment are one step, and there is no other payment.
Conclude(m, outcome) ==
  LET M == match[m] IN
  /\ M.phase = "Active"
  /\ match' = [match EXCEPT ![m].phase = "Finished", ![m].outcome = outcome]
  /\ purse' = [purse EXCEPT ![M.white] = @ + Reward(M, outcome, "WhiteWins"),
                            ![M.black] = @ + Reward(M, outcome, "BlackWins")]
  /\ UNCHANGED gifts

\* An offer nobody accepted gives its stake back; a concluded match owes none.
Clear(m) ==
  LET M == match[m]
      owed == IF M.phase = "WaitingForOpponent" THEN M.stake ELSE 0 IN
  /\ M.phase \in {"WaitingForOpponent", "Finished"}
  /\ match' = [match EXCEPT ![m] = NoMatch]
  /\ purse' = [purse EXCEPT ![M.white] = @ + owed + Rent + gifts[m]]
  /\ gifts' = [gifts EXCEPT ![m] = 0]

Give(m, donor, amount) ==
  /\ purse[donor] >= amount
  /\ purse' = [purse EXCEPT ![donor] = @ - amount]
  /\ gifts' = [gifts EXCEPT ![m] = @ + amount]
  /\ UNCHANGED match

Init ==
  /\ match = [m \in Venues |-> NoMatch]
  /\ purse \in [Wallets -> Nat]
  /\ gifts = [m \in Venues |-> 0]

Next ==
  \E m \in Venues :
    \/ \E w \in Wallets : \/ \E stake \in Stakes : Offer(m, w, stake)
                          \/ Accept(m, w)
                          \/ \E amount \in Gifts : Give(m, w, amount)
    \/ \E outcome \in {"WhiteWins", "BlackWins", "Draw"} : Conclude(m, outcome)
    \/ Clear(m)

Spec == Init /\ [][Next]_vars

=============================================================================
