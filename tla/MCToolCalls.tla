---------------------------- MODULE MCToolCalls ----------------------------
(***************************************************************************)
(* ToolCalls on two parallel calls whose interrupts share an id, the first *)
(* of which dispatches a subagent with a call of its own, whose interrupt  *)
(* no row can show.                                                        *)
(***************************************************************************)
EXTENDS ToolCalls

CONSTANTS c1, c2, n1, x, y

MCTop      == {c1, c2}
MCNested   == {n1}
MCDispatch == n1 :> c1
MCRawId    == c1 :> x @@ c2 :> x @@ n1 :> y
MCNamed    == {c1}
MCPlain    == {n1}
MCMayFail  == {c2}

=============================================================================
