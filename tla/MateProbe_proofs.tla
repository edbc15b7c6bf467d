--------------------------- MODULE MateProbe_proofs ---------------------------
(***************************************************************************)
(* The legality probe of apply_move looks at one line of play only, the     *)
(* first acceptable candidate of every position it meets, and ignores what  *)
(* it finds there.  What it returns is right all the same: an outermost     *)
(* call that has gone down a ply has found a legal move, whatever lies      *)
(* below, and one that has not has tried every candidate.                   *)
(***************************************************************************)
EXTENDS MateProbe, TLAPS

-----------------------------------------------------------------------------
(* The checks of apply_move read four fields of a position.                *)

Alike(s, t) ==
  /\ s.squares = t.squares /\ s.side_to_move = t.side_to_move
  /\ s.castling_rights = t.castling_rights /\ s.en_passant = t.en_passant

\* Positions that differ in their counters have the same legal moves.
LEMMA AlikeLegal ==
  ASSUME NEW s, NEW t, Alike(s, t), NEW from, NEW to, NEW promotion
  PROVE  Legal(s, from, to, promotion) <=> Legal(t, from, to, promotion)
<1>1. DoublePush(s, from, to) <=> DoublePush(t, from, to)
  BY DEF Alike, DoublePush
<1>2. PawnCaptures(s, from, to) <=> PawnCaptures(t, from, to)
  BY DEF Alike, PawnCaptures
<1>3. EnPassantVictim(s, to) = EnPassantVictim(t, to)
  BY DEF Alike, EnPassantVictim
<1>4. EnPassant(s, from, to) <=> EnPassant(t, from, to)
  BY <1>2, <1>3 DEF Alike, EnPassant
<1>5. Castles(s, from, to) <=> Castles(t, from, to)
  BY Zenon DEF Alike, Castles
<1>6. Promotes(s, from, to) <=> Promotes(t, from, to)
  BY DEF Alike, Promotes
<1>7. Shape(s, from, to) <=> Shape(t, from, to)
  <2>1. ValidatePawn(s, from, to) <=> ValidatePawn(t, from, to)
    BY <1>1, <1>2, <1>4 DEF Alike, ValidatePawn
  <2>2. ValidateKing(s, from, to) <=> ValidateKing(t, from, to)
    BY <1>5 DEF ValidateKing
  <2>3. \A dirs : ValidateSlider(s, from, to, dirs) <=> ValidateSlider(t, from, to, dirs)
    BY Zenon DEF Alike, ValidateSlider
  <2>. QED
    BY <2>1, <2>2, <2>3, Zenon DEF Alike, Shape
<1>8. Moved(s, from, to, promotion) = Moved(t, from, to, promotion)
  <2>1. IsEnPassant(s, from, to) <=> IsEnPassant(t, from, to)
    BY <1>4 DEF Alike, IsEnPassant
  <2>2. IsCastle(s, from, to) <=> IsCastle(t, from, to)
    BY <1>5 DEF Alike, IsCastle
  <2>. QED
    BY <1>3, <1>6, <2>1, <2>2, Zenon DEF Alike, Moved
<1>9. KingSafe(s, from, to, promotion) <=> KingSafe(t, from, to, promotion)
  BY <1>8, Zenon DEF Alike, KingSafe
<1>10. PromotionOk(s, from, to, promotion) <=> PromotionOk(t, from, to, promotion)
  BY <1>6 DEF PromotionOk
<1>. QED
  BY <1>7, <1>8, <1>9, <1>10, Zenon DEF Alike, Legal

\* The probe, which looks at the mover's own pieces only through the checks,
\* finds nothing exactly where no legal move exists.
LEMMA StuckExactly ==
  ASSUME NEW s \in Positions
  PROVE  Stuck(Bare(s)) <=> ~AnyLegal(s)
<1>1. Alike(Bare(s), s)
  BY PositionsAssumption DEF Alike, Bare
<1>2. \A from, to, p : Legal(Bare(s), from, to, p) <=> Legal(s, from, to, p)
  BY <1>1, AlikeLegal
<1>3. \A from, to : Promos(Bare(s), from, to) = Promos(s, from, to)
  BY <1>1 DEF Alike, Promos, Promotes
<1>4. \A from, to, p :
        Legal(s, from, to, p) => s.squares[from] # EMPTY
                                 /\ Color(s.squares[from]) = s.side_to_move
  BY DEF Legal
<1>. QED
  BY <1>2, <1>3, <1>4, Zenon DEF Stuck, Movable, Accepts, AnyLegal, Froms, Square

-----------------------------------------------------------------------------
(* The answer.                                                             *)

\* The outermost call has gone down exactly if its own position has a legal
\* move to go down along; it answers accordingly.
ProbeInv ==
  /\ start \in Positions
  /\ IF nested THEN ~Stuck(Bare(start)) ELSE probe = Bare(start)
  /\ answer = "true" => nested
  /\ answer = "false" => Stuck(Bare(start))
  /\ answer \in {"pending", "true", "false"}

\* When side_to_move_has_any_legal_move returns, it says whether the position it
\* was called on has a legal move, for every set of positions, although it
\* follows one line of play only and ignores what its nested calls find.
THEOREM ProbeSound == Spec => []AnswerIsRight
<1>1. Init => ProbeInv
  BY DEF Init, ProbeInv
<1>2. ProbeInv /\ [Next]_vars => ProbeInv'
  <2>1. ASSUME ProbeInv, Descend
        PROVE  ProbeInv'
    <3>1. ~Stuck(probe)
      BY <2>1, Zenon DEF Descend, Stuck, Movable, Accepts
    <3>2. ~Stuck(Bare(start))
      BY <2>1, <3>1 DEF ProbeInv
    <3>. QED
      BY <2>1, <3>2 DEF ProbeInv, Descend
  <2>2. ASSUME ProbeInv, Return
        PROVE  ProbeInv'
    BY <2>2 DEF ProbeInv, Return
  <2>3. ASSUME ProbeInv, UNCHANGED vars
        PROVE  ProbeInv'
    BY <2>3 DEF ProbeInv, vars
  <2>. QED
    BY <2>1, <2>2, <2>3 DEF Next
<1>3. ProbeInv => AnswerIsRight
  BY StuckExactly DEF ProbeInv, AnswerIsRight
<1>. QED
  BY <1>1, <1>2, <1>3, PTL DEF Spec

=============================================================================
