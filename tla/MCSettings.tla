----------------------------- MODULE MCSettings -----------------------------
(* Instances of Settings for TLC: words of six bits. *)
EXTENDS Settings

CONSTANT unset

(* Every numeral of up to two digits, some of three, and texts with a      *)
(* character that is not a digit: below, at and above half the range of a  *)
(* word and its largest value.                                             *)
Texts ==
  LET digits == 0..9
      some   == {0, 1, 6, 10}
  IN  {<<>>} \cup {<<a>> : a \in digits \cup {10}}
             \cup {<<a, b>> : a \in digits, b \in digits \cup {10}}
             \cup {<<a, b, c>> : a \in some, b \in some, c \in some}

Default == [k \in Keys |-> unset]

(* One variable is set. *)
OneSet(k, texts) == {[Default EXCEPT ![k] = x] : x \in texts}

SmallEnvs ==
  OneSet("max_live", Texts) \cup OneSet("quarantine", Texts)
    \cup OneSet("on_fault", [exit : {TRUE}, rest : Texts] \cup {[exit |-> FALSE, rest |-> <<>>]})
    \cup OneSet("protect", {"below", "BELOW", "above", "Below"})
    \cup OneSet("symbolize", {"1", "true", "0"})
    \cup OneSet("annotate", {"yes", "YES"})
=============================================================================
