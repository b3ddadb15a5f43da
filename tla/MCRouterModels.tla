--------------------------- MODULE MCRouterModels ---------------------------
(***************************************************************************)
(* Instances of RouterModels for TLC: workloads of two HTTP threads, h1    *)
(* and h2, on the models m1 and m2.                                        *)
(***************************************************************************)
EXTENDS RouterModels, TLC

CONSTANTS m1, m2, h1, h2

Ops == {"proxy", "load", "unload"}

\* One thread does everything to two models.
OneThread == h1 :> (Ops \X {m1, m2}) @@ h2 :> {}
\* Two threads do everything to one model.
OneModel == h1 :> (Ops \X {m1}) @@ h2 :> (Ops \X {m1})
\* Two threads compete with a model each for the last place.
Race == h1 :> {<<"load", m1>>} @@ h2 :> {<<"load", m2>>}
\* Reloads against reloads and loads.
Reloads == h1 :> {<<"reload", NoModel>>} @@ h2 :> {<<"reload", NoModel>>, <<"load", m2>>}

AllWorkloads == {OneThread, OneModel, Race, Reloads}
\* Two threads do everything to one model, which one of them also reloads.
Contended == {h1 :> (Ops \X {m1}) \cup {<<"reload", NoModel>>} @@ h2 :> (Ops \X {m1})}
=============================================================================
