---------------------------- MODULE MCForwarding ----------------------------
(***************************************************************************)
(* Four nodes in a line, and the tables they may have.                     *)
(***************************************************************************)
EXTENDS Forwarding

Line == <<"o", "a", "b", "c">>
LineNodes == {Line[i] : i \in 1 .. 4}
Place(n) == CHOOSE i \in 1 .. 4 : Line[i] = n

Toward(n, d) == Line[Place(n) + IF Place(d) > Place(n) THEN 1 ELSE -1]
Distance(n, d) == IF n = d THEN 0 ELSE IF Place(n) < Place(d) THEN Place(d) - Place(n)
                  ELSE Place(n) - Place(d)

\* RIP has settled; the line is cut after its first k nodes, and the routes over
\* the cut are forgotten, or still there with cost INFINITY
SettledTable(k, forgotten) ==
    [n \in LineNodes |->
        LET side == {d \in LineNodes : (Place(d) <= k) = (Place(n) <= k)}
        IN  [d \in IF forgotten THEN side ELSE LineNodes |->
                IF d = n THEN Entry(n, 0)
                ELSE Entry(Toward(n, d), IF d \in side THEN Distance(n, d) ELSE 4)]]
SettledTables == {SettledTable(k, forgotten) : k \in 1 .. 4, forgotten \in BOOLEAN}

\* the routes to the two ends as they may be for a while: none, dead, or to
\* either neighbour
Ways(n, d) ==
    IF n = d THEN {<<Entry(n, 0)>>}
    ELSE {<<>>} \cup {<<Entry(Line[i], 1)>> : i \in {Place(n) - 1, Place(n) + 1} \cap (1 .. 4)}
                \cup IF Distance(n, d) = 3 THEN {<<Entry(Toward(n, d), 4)>>} ELSE {}

Own(n) == [d \in {n} |-> Entry(n, 0)]
With(row, d, choice) ==
    [x \in DOMAIN row \cup IF choice = <<>> THEN {} ELSE {d} |->
        IF x \in DOMAIN row THEN row[x] ELSE choice[1]]

Rows(n) == {With(With(Own(n), "o", x), "c", y) : x \in Ways(n, "o"), y \in Ways(n, "c")}
PassingTables ==
    {[n \in LineNodes |-> IF n = "o" THEN r1 ELSE IF n = "a" THEN r2 ELSE IF n = "b" THEN r3 ELSE r4] :
        r1 \in Rows("o"), r2 \in Rows("a"), r3 \in Rows("b"), r4 \in Rows("c")}

LineTables == SettledTables \cup PassingTables
=============================================================================
