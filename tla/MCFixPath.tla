------------------------------ MODULE MCFixPath ------------------------------
EXTENDS FixPath
MCQuality == <<2, 1, 1>>
MCHeights == {<<2, 1>>, <<4, 2>>}
-----------------------------------------------------------------------------
(* Around the solver's iteration and in the debug log's records.             *)

Solver == INSTANCE PosSeed WITH MaxAnchors <- 4, MinSpread <- 1, MaxResidual <- 2
Records == INSTANCE DbgRecords

Corners == {<<0, 0>>, <<3, 0>>, <<0, 2>>, <<3, 2>>, <<1, 1>>}
Measured(at, dz, tag) ==
  [i \in DOMAIN at |-> [x |-> at[i][1], y |-> at[i][2], dz |-> dz,
     sq |-> (at[i][1] - tag[1])^2 + (at[i][2] - tag[2])^2 + dz^2]]

\* With exact ranges a cold solve starts at the tag itself, under anchors of any
\* height, unless the anchors are on one line: then, and only then, in their middle.
ASSUME SeedIsExact ==
  \A at \in [1..3 -> Corners], tag \in {<<0, 0>>, <<2, 1>>, <<-1, 3>>}, dz \in {0, 2} :
    LET ms == Measured(at, dz, tag)
        s == Solver!Seed(ms)
    IN /\ Solver!Det(Solver!Normal(ms)) = 0 <=> Solver!Spread(ms) = 0
       /\ Solver!Solvable(ms) <=> Solver!Spread(ms) > 0
       /\ Solver!Solvable(ms) => s.x = tag[1] * s.over /\ s.y = tag[2] * s.over
       /\ ~Solver!Solvable(ms) => s.over = 3

\* An anchor is left out only of a full set that does not agree, only when the
\* others then do, and it is one that leaves the best agreement.
ASSUME DropExplains ==
  \A worst \in 0..4, n \in 3..4 : \A without \in [1..n -> {-1, 1, 2, 3}] :
    LET d == Solver!Dropped(worst, without)
    IN /\ d # Solver!NoDrop =>
            /\ n = 4 /\ worst > 2 /\ without[d] \in 0..1
            /\ \A i \in 1..n : without[i] = Solver!Failed \/ without[i] >= without[d]
       /\ Solver!Used(worst, without) >= 3
       /\ n = 4 /\ worst > 2 /\ (\E i \in 1..n : without[i] = 1) => d # Solver!NoDrop

FromLe16(lo, hi) == LET n == lo + 256 * hi IN IF n >= 32768 THEN n - 65536 ELSE n

\* A SWEEP says of each slot whether it was heard, and how far it was; a slot that
\* was not shows none of what the caller left in it.  It fits one notification.
ASSUME SweepSaysWhatWasHeard ==
  \A heard \in SUBSET (1..4), cm \in {-1, 0, 300, 32767}, withQ, fix \in BOOLEAN :
    LET b == Records!Sweep([seq |-> 9, dt |-> 65535, epoch |-> 1, heard |-> heard,
                            tier |-> 2, moving |-> TRUE, solved |-> fix,
                            cm |-> [i \in 1..4 |-> cm], withQ |-> withQ,
                            q |-> [i \in 1..4 |-> 77], res |-> 12])
    IN /\ Len(b) = 20 /\ \A i \in 1..20 : b[i] \in 0..255
       /\ heard = {i \in 1..4 : (b[6] \div 2^(i - 1)) % 2 = 1}
       /\ (b[6] \div 16) % 4 = 2 /\ (b[6] \div 128 = 1 <=> fix)
       /\ \A i \in 1..4 : /\ FromLe16(b[5 + 2 * i], b[6 + 2 * i]) = (IF i \in heard THEN cm ELSE 0)
                           /\ b[14 + i] = (IF withQ /\ i \in heard THEN 77 ELSE 0)

\* Two SETs name four slots; both they and a MARK are shorter than a SWEEP, and
\* the three are told apart by their first byte.
ASSUME RecordsApart ==
  LET pair == <<[aid |-> 7, x |-> -5, y |-> 6], [aid |-> 8, x |-> 300, y |-> 0]>>
      set == Records!Set(1, 2, pair)
  IN /\ Len(set) = 13 /\ set[3] = 2 /\ set[4] = 7 /\ FromLe16(set[5], set[6]) = -5
     /\ Records!Set(1, 1, pair) = <<>>
     /\ Len(Records!Mark(4, 5)) = 4 /\ Records!Mark(4, 5)[1] # set[1]

\* Centimetres are the nearest, with the sign kept, and never leave 16 bits.
ASSUME CentimetresSaturate ==
  /\ \A mm \in -400..400 : LET d == 10 * Records!ToCm(TRUE, mm) - mm IN -5 <= d /\ d <= 5
  /\ \A mm \in {327664, 327675, 400000} : Records!ToCm(TRUE, mm) \in 32766..32767
  /\ Records!ToCm(TRUE, -400000) = -32768 /\ Records!ToCm(FALSE, 5) = 0

\* A new log starts without the names, the numbers and the marks of the one before,
\* and a wrong word changes nothing; the marks of one log differ for 255 of them.
ASSUME LogStartsAfresh ==
  \A on, q \in BOOLEAN, seq, mark \in {0, 7, 255} :
    LET old == [enabled |-> on, quality |-> q,
                session |-> [seq |-> seq, epoch |-> 1, named |-> TRUE, mark |-> mark]]
    IN /\ Records!Command(old, "on")
            = [enabled |-> TRUE, quality |-> q, session |-> Records!NewSession]
       /\ Records!Command(Records!Command(old, "off"), "on").session = Records!NewSession
       /\ Records!Command(old, "onn") = old
       /\ Records!Marked(old)[2] = seq
       /\ Records!Marked(Records!Command(old, "mark")) # Records!Marked(old)
=============================================================================
