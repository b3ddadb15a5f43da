------------------------------ MODULE MCKVCache ------------------------------
(***************************************************************************)
(* Instances of KVCache for TLC.                                           *)
(***************************************************************************)
EXTENDS KVCache

CONSTANTS x, y

C(unified, size, swa, ubatch, last, uses) ==
    [unified |-> unified, size |-> size, swa |-> swa, ubatch |-> ubatch,
     last |-> last, uses |-> uses]

Sequences2 == {0, 1}
Parts      == {<<0, -1>>, <<1, -1>>, <<0, 1>>}
T(s, t)    == [seq |-> s, tok |-> t]
Few        == {<<T(0, x)>>, <<T(1, y)>>, <<T(0, x), T(0, x)>>, <<T(0, x), T(1, y)>>,
               <<T(1, y), T(0, x)>>}
UpDown     == {-1, 1}
Back       == {-1}

Unified  == C(TRUE, 3, 0, 1, 2, {"share", "shift"})
Streamed == C(FALSE, 2, 0, 2, 1, {"shift"})
Window   == C(TRUE, 3, 2, 2, 3, {"share"})
Divided  == C(TRUE, 2, 0, 2, 2, {"share", "divide"})
States   == C(TRUE, 2, 0, 2, 1, {"share", "state"})
Images   == C(FALSE, 1, 0, 2, 0, {"state"})

\* Two ubatches with a window, where no cells are shared.
Narrow   == C(TRUE, 3, 2, 1, 3, {})
\* The same with shared cells.
Clash    == C(TRUE, 3, 2, 1, 3, {"share"})

AllConfs == {Unified, Streamed, Window, Narrow, Divided, States, Images}
Clashes  == {Clash}
Division == {Divided}
=============================================================================
