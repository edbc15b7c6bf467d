------------------------------- MODULE MateProbe -------------------------------
(***************************************************************************)
(* The search behind apply_move's mate and stalemate verdicts.  A position  *)
(* has a legal move if apply_move accepts some candidate; but apply_move,   *)
(* once a candidate has passed its checks, probes the position it leads to  *)
(* in the same way before it returns.  So a call descends along the first   *)
(* acceptable candidate of each position, one pair of call frames a ply,    *)
(* and returns only when it meets a position without any.                   *)
(***************************************************************************)
EXTENDS ChessEngine

CONSTANT Positions   \* positions the probe is called on

\* The fields of ChessState.
ASSUME PositionsAssumption ==
  Positions \subseteq [squares : [Square -> 0..12], side_to_move : {0, 1},
                       castling_rights : SUBSET Rights, en_passant : Square \cup {None},
                       halfmove_clock : 0..MAX_U8, fullmove_number : 0..MAX_U16]

VARIABLES
  start,   \* the position of the outermost call
  probe,   \* the position of the innermost call
  nested,  \* the innermost call is not the outermost one
  answer   \* what the outermost call returns

vars == <<start, probe, nested, answer>>

\* No check of the search reads the two counters.
Bare(s) == [s EXCEPT !.halfmove_clock = 0, !.fullmove_number = 1]

\* Seeded fault: the last square is left out.
FromsButLast == 0..62

\* The two loops of side_to_move_has_any_legal_move.
Froms == 0..63

\* Some candidate of the inner loops passes the checks of apply_move.
Accepts(s, from, to) == \E p \in Promos(s, from, to) : Legal(s, from, to, p)
Movable(s, from) == \E to \in Square : Accepts(s, from, to)
Stuck(s) == \A from \in Froms : ~Movable(s, from)

\* The first candidate that does: from and to squares upwards, promotions from
\* the queen down.
IsFirst(s, from, to, p) ==
  /\ \A f \in 0..(from - 1) : ~Movable(s, f)
  /\ \A t \in 0..(to - 1) : ~Accepts(s, from, t)
  /\ \A q \in Promos(s, from, to) : Legal(s, from, to, q) => q =< p

\* apply_move on that candidate plays it and probes the position it leads to.
Descend ==
  /\ answer = "pending"
  /\ \E from \in Froms, to \in Square : \E p \in Promos(probe, from, to) :
       /\ Legal(probe, from, to, p)
       /\ IsFirst(probe, from, to, p)
       /\ probe' = Bare(Apply(probe, from, to, p))
  /\ nested' = TRUE
  /\ UNCHANGED <<start, answer>>

\* The innermost call finds nothing; the move that led to its position was
\* accepted all the same, so every outer call returns true.
Return ==
  /\ answer = "pending"
  /\ Stuck(probe)
  /\ answer' = IF nested THEN "true" ELSE "false"
  /\ UNCHANGED <<start, probe, nested>>

Init ==
  /\ start \in Positions
  /\ probe = Bare(start)
  /\ nested = FALSE
  /\ answer = "pending"

Next == Descend \/ Return

\* The search is sequential code: it takes its next step.
Spec == Init /\ [][Next]_vars /\ WF_vars(Next)

\* When the search returns, it returns what AnyLegal says, although it never
\* looks past the first candidate of any position.
AnswerIsRight == answer # "pending" => (answer = "true" <=> AnyLegal(start))

\* movegen.rs, legality probe: "worst-case is bounded by board size".
ProbeReturns == <>(answer # "pending")

=============================================================================
