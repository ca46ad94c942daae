----------------------------- MODULE MCAdrStore -----------------------------
(* Two sessions of one project; the first repeats in its metadata a        *)
(* decision it has recorded by tool call.                                  *)
EXTENDS AdrStore

MCProjectOf == [s \in Sessions |-> "p"]
MCToolCalls == [s \in Sessions |-> IF s = "a" THEN <<"x">> ELSE <<"z">>]
MCTexts == [s \in Sessions |-> IF s = "a" THEN {<<"x", "w">>, <<"v">>} ELSE {}]
=============================================================================
