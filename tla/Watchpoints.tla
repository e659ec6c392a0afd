---------------------------- MODULE Watchpoints ----------------------------
(***************************************************************************)
(* Memory watchpoints: names for segments of the memory, each enabled or   *)
(* not.  An operation triggers an enabled watchpoint if it is possible     *)
(* that it touches the segment.                                            *)
(***************************************************************************)
EXTENDS SolverUtils, Memory, Maps

NoWatchpoints == <<>>

\* `Watchpoint::new`: both bounds are inclusive.
Watchpoint(addr, bytes) == [low |-> addr, high |-> addr + bytes - 1]

\* The operations return whether the name was there before.
Found(ws, name) == name \in DOMAIN ws
AddWatchpoint(ws, name, w) == Insert(ws, name, [segment |-> w, enabled |-> TRUE])
RemoveWatchpoint(ws, name) == [n \in DOMAIN ws \ {name} |-> ws[n]]

SetEnabled(ws, name, b) == IF Found(ws, name) THEN [ws EXCEPT ![name].enabled = b] ELSE ws

\* Mutant: only the ends of the operation are looked at.
IsTriggeredByEnds(w, lower, upper) ==
    \/ lower >= w.low /\ lower <= w.high
    \/ upper >= w.low /\ upper <= w.high

\* One end of the operation is in the segment, or the operation contains it.
IsTriggered(w, lower, upper) ==
    \/ lower >= w.low /\ lower <= w.high
    \/ upper >= w.low /\ upper <= w.high
    \/ lower <= w.low /\ upper >= w.high

\* The last byte of an operation of so many bits at addr.
OpUpper(addr, bits) ==
    AddrAdd(addr, (IF bits < BITS_IN_BYTE THEN 1 ELSE bits \div BITS_IN_BYTE) - 1)

\* `get_triggered_watchpoints`: one query for each enabled watchpoint.
GetTriggered(q, ws, addr, bits) ==
    LET Touching(n) ==
            {i \in DOMAIN addr.val : IsTriggered(ws[n].segment, addr.val[i], OpUpper(addr.val[i], bits))}
        Ask(n, r) ==
            LET sat == AskSatWith(r, Touching(n))
            IN  IF Failed(r) THEN r
                ELSE IF Failed(sat) THEN sat
                ELSE [sat EXCEPT !.ans = IF sat.ans THEN r.ans \cup {n} ELSE r.ans]
    IN  FoldSet(Ask, [q EXCEPT !.ans = {}], {n \in DOMAIN ws : ws[n].enabled})
=============================================================================
