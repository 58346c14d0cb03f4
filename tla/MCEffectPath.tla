----------------------------- MODULE MCEffectPath -----------------------------
(* Two processes, one of them with two calls, on one file.                 *)
EXTENDS EffectPath

MCProcessOf == [k \in Calls |-> IF k = "k3" THEN "q" ELSE "p"]
=============================================================================
