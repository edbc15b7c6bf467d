------------------------------ MODULE MCMateProbe ------------------------------
(***************************************************************************)
(* Positions for MateProbe.                                                 *)
(***************************************************************************)
EXTENDS MateProbe

\* The position after 1.e2-e4, where the first make_move of a game probes.
AfterE4 == {Apply(Initial, 12, 28, 0)}

\* Black's king on h8, white's on f6 and a white queen anywhere: black is mated,
\* stalemated or has one or two moves.
QueenMates ==
  {[squares |-> [i \in Square |-> IF i = 63 THEN Make(King, 1) ELSE IF i = 45 THEN King
                                  ELSE IF i = q THEN Queen ELSE EMPTY],
    side_to_move |-> 1, castling_rights |-> {}, en_passant |-> None,
    halfmove_clock |-> 1, fullmove_number |-> 60] : q \in Square \ {45, 63}}

=============================================================================
