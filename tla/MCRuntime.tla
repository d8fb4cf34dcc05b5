----------------------------- MODULE MCRuntime -----------------------------
(***************************************************************************)
(* Names a, a:b, b:c and c, so that two tools can share the key a:b:c;     *)
(* lower-case letters are addresses as typed, capitals their checksummed   *)
(* form; numbers up to 3 fit into a word.                                  *)
(***************************************************************************)
EXTENDS IntentDesk, TLC

ThisName == {<<"a">>, <<"a", "b">>, <<"b", "c">>, <<"c">>}

ThisGetAddress ==
    [t \in {"x", "X"} |-> "X"] @@ [t \in {"w", "W"} |-> "W"] @@ [t \in {"t", "T"} |-> "T"]
    @@ [t \in {"u", "U"} |-> "U"] @@ [t \in {"g", "G"} |-> "G"]

ThisBigInt ==
    "" :> 0 @@ "0" :> 0 @@ " 1 " :> 1 @@ "1" :> 1 @@ "0x2" :> 2 @@ "2" :> 2
    @@ "-1" :> -1 @@ "4" :> 4

ThisToString == 0 :> "0" @@ 1 :> "1" @@ 2 :> "2" @@ -1 :> "-1" @@ 4 :> "4"

ThisGetBytes ==
    "0xaa" :> <<170>> @@ "0xbb" :> <<187>> @@ "0xAA" :> <<170>> @@ "hash" :> <<7>>

ThisText ==
    DOMAIN ThisGetAddress \cup DOMAIN ThisBigInt \cup DOMAIN ThisGetBytes \cup {"junk"}

ThisDefinition ==
    {defineContractTool(<<"a", "b">>, <<"c">>, "t", << >> :> "0xaa"),
     defineContractTool(<<"a">>, <<"b", "c">>, "u", << >> :> "0xbb"),
     defineContractTool(<<"a">>, <<"c">>, "u", <<"1">> :> "0xAA")}

\* Bodies with a value and without one.
ThisBody ==
    LET Plain == [agent : {"x", "X", "junk"}, wallet : {"w"}, tool : {<<"a">>, <<"a", "b">>},
                  action : {<<"c">>, <<"b", "c">>}, args : {<<>>, <<"1">>},
                  nonce : {" 1 ", "-1", "4"}, deadline : {"2"}, policyHash : {"hash", "junk"}]
    IN  Plain \cup {[value |-> v] @@ b : v \in {"", "0x2", "-1", "junk"}, b \in Plain}

ThisAnswer ==
    [status : RiskStatus, score : {-1, 101, NotFinite}, confidence : {-1, 100, NotFinite},
     degraded : BOOLEAN] \cup {Thrown}

ThisAnswers == {<<>>} \cup [{1, 2} -> ThisAnswer]
=============================================================================
