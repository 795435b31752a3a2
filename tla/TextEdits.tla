------------------------------ MODULE TextEdits ------------------------------
(***************************************************************************)
(* The local perturbations: what typo_noise.py, casing_variant.py and      *)
(* unicode_chars.py may make of a text, and how they judge it.  A text is  *)
(* a sequence of characters.  The random generator is a choice: what a     *)
(* seed draws is one of the outcomes.  Rates are in percent.               *)
(***************************************************************************)
EXTENDS Integers, Sequences, FiniteSets

CONSTANTS
  Space,          \* the ASCII space
  InsertVocab,    \* _INSERT_VOCAB: what a typo inserts or substitutes
  SpaceVariants,  \* _SPACE_VARIANTS
  ZeroWidth,      \* _ZERO_WIDTH
  Homoglyphs,     \* _HOMOGLYPHS: a function from Latin letters to lookalikes
  Letters,        \* the cased characters, for str.title
  CaseMap         \* variant -> character -> the text str.<variant> makes of it

Glyphs == { Homoglyphs[c] : c \in DOMAIN Homoglyphs }

(* The characters the unicode family introduces: the keys of _REVERSE.     *)
Owned == SpaceVariants \cup ZeroWidth \cup Glyphs

ASSUME CharactersAssumption ==
  /\ Space \notin Owned \cup DOMAIN Homoglyphs
  /\ DOMAIN Homoglyphs \cap Owned = {}
  /\ SpaceVariants \cap (ZeroWidth \cup Glyphs) = {}
  /\ ZeroWidth \cap Glyphs = {}
  /\ \A c, d \in DOMAIN Homoglyphs : Homoglyphs[c] = Homoglyphs[d] => c = d

(* The outcomes of rng.random() < rate. *)
Drawn(rate) == { hit \in BOOLEAN : IF hit THEN rate > 0 ELSE rate < 100 }

(* One way to treat a position: what is written, how many characters of    *)
(* the text that uses up, and whether it counts as a mutation.             *)
Edit(put, uses, cost) == [put |-> put, uses |-> uses, cost |-> cost]
Plain(text, i) == Edit(<<text[i]>>, 1, 0)

(* A left-to-right pass over a text, each position treated in one of the   *)
(* ways edits gives: the texts it may end with, and their mutation counts. *)
Rewritten(edits) ==
  LET from[i \in 1..(Len(edits) + 1)] ==
        IF i > Len(edits)
        THEN {[text |-> <<>>, mutations |-> 0]}
        ELSE UNION { { [text |-> e.put \o r.text, mutations |-> e.cost + r.mutations] :
                         r \in from[i + e.uses] } : e \in edits[i] }
  IN from[1]

-----------------------------------------------------------------------------
(* typo_noise.py *)

(* Mutant of Mutations: a substitution is not counted.                     *)
Mutations_FreeSubstitution(text, i) ==
  {Edit(<<>>, 1, 1)}
    \cup { Edit(<<c, text[i]>>, 1, 1) : c \in InsertVocab }
    \cup { Edit(<<c>>, 1, 0) : c \in InsertVocab }
    \cup (IF i < Len(text)
          THEN {Edit(<<text[i + 1], text[i]>>, 2, 1)} ELSE {Plain(text, i)})

(* Drop, insert before, substitute, transpose with the next; there is no   *)
(* next at the end, where a transposition leaves the character.            *)
Mutations(text, i) ==
  {Edit(<<>>, 1, 1)}
    \cup { Edit(<<c, text[i]>>, 1, 1) : c \in InsertVocab }
    \cup { Edit(<<c>>, 1, 1) : c \in InsertVocab }
    \cup (IF i < Len(text)
          THEN {Edit(<<text[i + 1], text[i]>>, 2, 1)} ELSE {Plain(text, i)})

mutate_once(text, rate) ==
  Rewritten([ i \in DOMAIN text |->
                UNION { IF hit THEN Mutations(text, i) ELSE {Plain(text, i)} :
                        hit \in Drawn(rate) } ])

Least(a, b) == IF a <= b THEN a ELSE b

(* The distances of a prefix of a from each prefix of b, from those of the *)
(* prefix one shorter.                                                     *)
next_row(previous, i, ca, b) ==
  LET current[j \in 0..Len(b)] ==
        IF j = 0 THEN i
        ELSE LET insertions == previous[j] + 1
                 deletions == current[j - 1] + 1
                 substitutions == previous[j - 1] + (IF ca = b[j] THEN 0 ELSE 1)
             IN Least(Least(insertions, deletions), substitutions)
  IN current

rows(a, b) ==
  LET row[i \in 0..Len(a)] ==
        IF i = 0 THEN [j \in 0..Len(b) |-> j] ELSE next_row(row[i - 1], i, a[i], b)
  IN row

(* Levenshtein distance, row by row: the longer text gives the rows.       *)
levenshtein(a, b) ==
  IF Len(a) < Len(b) THEN rows(b, a)[Len(b)][Len(a)] ELSE rows(a, b)[Len(a)][Len(b)]

-----------------------------------------------------------------------------
(* casing_variant.py *)

Joined(parts) ==
  LET upto[i \in 0..Len(parts)] == IF i = 0 THEN <<>> ELSE upto[i - 1] \o parts[i]
  IN upto[Len(parts)]

(* str.title starts a word at each cased character that follows none.      *)
Cased(variant, text) ==
  Joined([ i \in DOMAIN text |->
             IF variant = "title" /\ i > 1 /\ text[i - 1] \in Letters
             THEN CaseMap["lower"][text[i]] ELSE CaseMap[variant][text[i]] ])

-----------------------------------------------------------------------------
(* unicode_chars.py *)

(* Each character that has equivalents may be replaced by one of them.     *)
Substituted(text, rate, equivalents) ==
  Rewritten([ i \in DOMAIN text |->
                IF text[i] \in DOMAIN equivalents
                THEN UNION { IF hit
                             THEN { Edit(<<v>>, 1, 1) : v \in equivalents[text[i]] }
                             ELSE {Plain(text, i)} :
                             hit \in Drawn(rate) }
                ELSE {Plain(text, i)} ])

substitute_spaces(text, rate) ==
  Substituted(text, rate, [c \in {Space} |-> SpaceVariants])

substitute_homoglyphs(text, rate) ==
  Substituted(text, rate, [c \in DOMAIN Homoglyphs |-> {Homoglyphs[c]}])

(* Between characters only: never after the last. *)
insert_zero_width(text, rate) ==
  Rewritten([ i \in DOMAIN text |->
                IF i < Len(text)
                THEN UNION { IF hit
                             THEN { Edit(<<text[i], z>>, 1, 1) : z \in ZeroWidth }
                             ELSE {Plain(text, i)} :
                             hit \in Drawn(rate) }
                ELSE {Plain(text, i)} ])

apply_method(method, text, rate) ==
  CASE method = "invisible_space" -> substitute_spaces(text, rate)
    [] method = "zero_width" -> insert_zero_width(text, rate)
    [] method = "homoglyph" -> substitute_homoglyphs(text, rate)

(* Mutant of Source: the zero-width characters are taken for spaces.       *)
Source_ZeroWidthIsSpace(c) ==
  IF c \in SpaceVariants \cup ZeroWidth THEN <<Space>>
  ELSE IF c \in Glyphs
  THEN <<CHOOSE l \in DOMAIN Homoglyphs : Homoglyphs[l] = c>>
  ELSE <<c>>

(* _REVERSE.get(ch, ch) *)
Source(c) ==
  IF c \in SpaceVariants THEN <<Space>>
  ELSE IF c \in ZeroWidth THEN <<>>
  ELSE IF c \in Glyphs
  THEN <<CHOOSE l \in DOMAIN Homoglyphs : Homoglyphs[l] = c>>
  ELSE <<c>>

deperturb(text) == Joined([i \in DOMAIN text |-> Source(text[i])])

(* UnicodePerturbation.validate *)
Reverses(original, perturbed) == deperturb(perturbed) = original
=============================================================================
