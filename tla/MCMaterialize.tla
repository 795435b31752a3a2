---------------------------- MODULE MCMaterialize ----------------------------
(***************************************************************************)
(* Two cases: a plain one, with typos in it, lookalikes and two rewrites   *)
(* of up to two attempts each; and one whose text holds a no-break space   *)
(* already, with two methods of unicode, one rewrite and a casing.  The    *)
(* model answers a rewrite well, with an omission or off the subject.      *)
(***************************************************************************)
EXTENDS Materializer

MCSpaceVariants == {"nbsp"}
MCZeroWidth == {"zwsp"}
MCHomoglyphs == [a |-> "cyr_a"]
MCLetters == {"a", "b", "A", "B", "cyr_a"}
MCChars == {"sp", "nbsp", "zwsp"} \cup MCLetters

Upper == [ c \in MCChars |-> CASE c = "a" -> <<"A">> [] c = "b" -> <<"B">> [] OTHER -> <<c>> ]
Lower == [ c \in MCChars |-> CASE c = "A" -> <<"a">> [] c = "B" -> <<"b">> [] OTHER -> <<c>> ]
MCCaseMap == [upper |-> Upper, lower |-> Lower, title |-> Upper]

MCCaseInput == << <<"a", "b">>, <<"nbsp", "a">> >>
MCPerturbations ==
  << << [type |-> "typo_noise", count |-> 1, rate |-> 50],
        [type |-> "unicode", methods |-> <<"zero_width", "homoglyph">>,
         count |-> 1, rate |-> 50],
        [type |-> "paraphrase", count |-> 2, max_attempts |-> 2] >>,
     << [type |-> "unicode", methods |-> <<"homoglyph", "invisible_space">>,
         count |-> 2, rate |-> 100],
        [type |-> "paraphrase", count |-> 1, max_attempts |-> 3],
        [type |-> "casing", variants |-> <<"upper", "title">>] >> >>

Good(c) == IF c = 1 THEN <<"b", "a">> ELSE <<"a">>
MCRewritings == [ c \in 1..2 |-> {Good(c), <<"b">>, <<"sp">>} ]
MCSimilar == { <<MCCaseInput[c], t>> : c \in 1..2, t \in {<<"b", "a">>, <<"a">>, <<"b">>} }

(* The omission is entailed by the original and does not entail it.        *)
MCEntails ==
  { <<MCCaseInput[c], t>> : c \in 1..2, t \in {<<"b", "a">>, <<"a">>, <<"b">>} }
    \cup { <<Good(c), MCCaseInput[c]>> : c \in 1..2 }

MCCaseId == <<1, 2>>

(* Injective on what is digested here. *)
MCDigest(a, b) == 10 * a + b
=============================================================================
