---------------------------- MODULE MCLoadClient ----------------------------
(***************************************************************************)
(* LoadClient for TLC: lines with which every case of Read is reached, and *)
(* the words of them that can be parsed.                                   *)
(***************************************************************************)
EXTENDS LoadClient, TLC

AtoiWords == "-2" :> -2 @@ "0" :> 0 @@ "1" :> 1 @@ "2" :> 2 @@ "100" :> 100
BoolWords == "0" :> FALSE @@ "1" :> TRUE @@ "false" :> FALSE @@ "true" :> TRUE
DurationWords == "0" :> 0 @@ "5s" :> 5

L(name, args) == [name |-> name, args |-> args]

ConfLines ==
    {L("", <<>>), L("//", <<"reqs:", "2">>), L("syncs", <<"x">>),
     L("--", <<>>), L("--", <<"clients">>), L("--", <<"apply">>),
     L("--", <<"apply", "to", "c1">>), L("--", <<"apply", "to", "c2">>),
     L("reqs", <<"-2">>), L("reqs", <<"2">>), L("reqs", <<"//", "2">>), L("reqs", <<>>),
     L("writes", <<"100", "//all">>), L("conflicts", <<"2">>),
     L("pipeline", <<"1">>), L("pipeline", <<"2">>), L("runtime", <<"none">>),
     L("runtime", <<"5min">>)}
=============================================================================
