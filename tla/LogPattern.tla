------------------------------ MODULE LogPattern ------------------------------
(***************************************************************************)
(* LogFormatter::initPattern (ddg/log.cc): how a pattern such as           *)
(* "%d{%H:%M}%T[%p] %m%n" becomes a list of format items.  The loops over  *)
(* the pattern are a machine with one action per branch of their bodies.   *)
(*                                                                         *)
(* Characters matter only by what the branches tell apart: "%", the two    *)
(* braces, letters that name an item, other letters, anything else.        *)
(***************************************************************************)
EXTENDS Naturals, SequencesExt

CONSTANTS
  Known,   \* letters in s_format_items (all its keys are one letter long)
  Unknown, \* letters that are not
  Other,   \* characters that are neither letters nor "%", "{" or "}"
  MaxLen   \* bound: the length of the pattern

(* The characters the loops look for, and the text that marks an error.    *)
Percent == "%"
LeftBrace == "{"
RightBrace == "}"
PatternError == <<"<<pattern_error>>">>

ASSUME PatternAssumption ==
  /\ MaxLen \in Nat
  /\ {Percent, LeftBrace, RightBrace} \cap (Known \cup Unknown \cup Other) = {}

Alpha    == Known \cup Unknown
Patterns == SeqOf(Alpha \cup Other \cup {Percent, LeftBrace, RightBrace}, MaxLen)

VARIABLES
  pattern,
  i, n,                         \* the indices of the two loops, from 1
  nstr,                         \* plain text not yet put into vec
  str, fmt, fmt_status, fmt_begin,  \* the specifier being read
  vec,                          \* tuples (str, fmt, is it a specifier)
  error,
  m_items,                      \* the FormatItem objects
  phase

specVars == <<n, str, fmt, fmt_status, fmt_begin>>
outVars  == <<vec, error, m_items>>
patternVars == <<pattern, i, nstr, specVars, outVars, phase>>

PatternInit ==
  /\ pattern \in Patterns
  /\ i = 1 /\ n = 1 /\ nstr = <<>>
  /\ str = <<>> /\ fmt = <<>> /\ fmt_status = 0 /\ fmt_begin = 1
  /\ vec = <<>> /\ error = FALSE /\ m_items = <<>>
  /\ phase = "for"

InFor   == phase = "for" /\ i <= Len(pattern)
InWhile == phase = "while" /\ n <= Len(pattern)

Text(s)    == [str |-> s, fmt |-> <<>>, spec |-> FALSE]
Specifier(s, f) == [str |-> s, fmt |-> f, spec |-> TRUE]

(* Plain text goes into vec before what follows it.                        *)
Flushed == IF nstr = <<>> THEN vec ELSE Append(vec, Text(nstr))

-----------------------------------------------------------------------------
(* The for loop                                                            *)

Escape == pattern[i] = Percent /\ i < Len(pattern) /\ pattern[i + 1] = Percent

(* An ordinary character; or the first "%" of "%%", after which the loop   *)
(* goes on with the second one, as the start of a specifier.               *)
Literal ==
  /\ InFor /\ (pattern[i] # Percent \/ Escape)
  /\ nstr' = Append(nstr, pattern[i])
  /\ i' = i + 1
  /\ UNCHANGED <<pattern, specVars, outVars, phase>>

Begin ==
  /\ InFor /\ pattern[i] = Percent /\ ~Escape
  /\ n' = i + 1
  /\ str' = <<>> /\ fmt' = <<>> /\ fmt_status' = 0 /\ fmt_begin' = 1
  /\ phase' = "while"
  /\ UNCHANGED <<pattern, i, nstr, outVars>>

ForEnds ==
  /\ phase = "for" /\ i > Len(pattern)
  /\ vec' = Flushed
  /\ phase' = "items"
  /\ UNCHANGED <<pattern, i, nstr, specVars, error, m_items>>

-----------------------------------------------------------------------------
(* The while loop over one specifier                                       *)

Name(last) == SubSeq(pattern, i + 1, last)

NameEnds ==
  /\ InWhile /\ fmt_status = 0
  /\ pattern[n] \notin Alpha \cup {LeftBrace, RightBrace}
  /\ str' = Name(n - 1)
  /\ phase' = "token"
  /\ UNCHANGED <<pattern, i, nstr, n, fmt, fmt_status, fmt_begin, outVars>>

OpenBrace ==
  /\ InWhile /\ fmt_status = 0 /\ pattern[n] = LeftBrace
  /\ str' = Name(n - 1)
  /\ fmt_status' = 1 /\ fmt_begin' = n
  /\ n' = n + 1
  /\ UNCHANGED <<pattern, i, nstr, fmt, outVars, phase>>

(* Faulty variant: the loop goes on behind the brace.                      *)
CloseBrace_NoBreak ==
  /\ InWhile /\ fmt_status = 1 /\ pattern[n] = RightBrace
  /\ fmt' = SubSeq(pattern, fmt_begin + 1, n - 1)
  /\ fmt_status' = 0
  /\ n' = n + 1
  /\ UNCHANGED <<pattern, i, nstr, str, fmt_begin, outVars, phase>>

CloseBrace ==
  /\ InWhile /\ fmt_status = 1 /\ pattern[n] = RightBrace
  /\ fmt' = SubSeq(pattern, fmt_begin + 1, n - 1)
  /\ fmt_status' = 0
  /\ n' = n + 1
  /\ phase' = "token"
  /\ UNCHANGED <<pattern, i, nstr, str, fmt_begin, outVars>>

PassedOver ==
  IF fmt_status = 0 THEN pattern[n] \in Alpha \cup {RightBrace}
  ELSE pattern[n] # RightBrace

(* The name, or what is between the braces; at the end of the pattern the  *)
(* name is what there is.                                                  *)
Advance ==
  /\ InWhile /\ PassedOver
  /\ n' = n + 1
  /\ str' = IF n = Len(pattern) /\ str = <<>> THEN Name(n) ELSE str
  /\ UNCHANGED <<pattern, i, nstr, fmt, fmt_status, fmt_begin, outVars, phase>>

WhileEnds ==
  /\ phase = "while" /\ n > Len(pattern)
  /\ phase' = "token"
  /\ UNCHANGED <<pattern, i, nstr, specVars, outVars>>

-----------------------------------------------------------------------------
(* Faulty variant: the text before a specifier is put behind it.           *)
Token_Unflushed ==
  /\ phase = "token" /\ fmt_status = 0
  /\ vec' = Append(vec, Specifier(str, fmt))
  /\ i' = n
  /\ phase' = "for"
  /\ UNCHANGED <<pattern, nstr, specVars, error, m_items>>

(* A specifier that is complete.                                           *)
Token ==
  /\ phase = "token" /\ fmt_status = 0
  /\ vec' = Append(Flushed, Specifier(str, fmt))
  /\ nstr' = <<>>
  /\ i' = n
  /\ phase' = "for"
  /\ UNCHANGED <<pattern, specVars, error, m_items>>

(* Faulty variant: the loop goes on with the same "%".                     *)
Unterminated_Stuck ==
  /\ phase = "token" /\ fmt_status = 1
  /\ vec' = Append(vec, Text(PatternError))
  /\ error' = TRUE
  /\ phase' = "for"
  /\ UNCHANGED <<pattern, i, nstr, specVars, m_items>>

(* A brace that is not closed: "<<pattern_error>>", and on with the        *)
(* character behind the "%".                                               *)
Unterminated ==
  /\ phase = "token" /\ fmt_status = 1
  /\ vec' = Append(vec, Text(PatternError))
  /\ error' = TRUE
  /\ i' = i + 1
  /\ phase' = "for"
  /\ UNCHANGED <<pattern, nstr, specVars, m_items>>

(* The factories in s_format_items take the format and do not use it.      *)
Item(token) ==
  IF token.spec /\ token.str \in {<<k>> : k \in Known}
  THEN [item |-> token.str] ELSE [text |-> token.str]

BadName(token) == token.spec /\ token.str \notin {<<k>> : k \in Known}

(* One item per element of vec.  Any error is thrown as invalid_argument,  *)
(* so initPattern never returns false.                                     *)
Items ==
  /\ phase = "items"
  /\ m_items' = [k \in DOMAIN vec |-> Item(vec[k])]
  /\ error' = (error \/ \E k \in DOMAIN vec : BadName(vec[k]))
  /\ phase' = IF error' THEN "thrown" ELSE "valid"
  /\ UNCHANGED <<pattern, i, nstr, specVars, vec>>

PatternNext ==
  \/ Literal \/ Begin \/ ForEnds
  \/ NameEnds \/ OpenBrace \/ CloseBrace \/ Advance \/ WhileEnds
  \/ Token \/ Unterminated \/ Items
  \/ phase \in {"valid", "thrown"} /\ UNCHANGED patternVars

PatternSpec == PatternInit /\ [][PatternNext]_patternVars

-----------------------------------------------------------------------------
(* What a pattern means, on positions.                                     *)

(* From k up to j there is one piece of a pattern: a character (a "%" also *)
(* is one, before another "%"), or "%" and one known letter, with either a *)
(* format in braces or no letter and no brace behind it.                   *)
Piece(k, j) ==
  \/ /\ j = k + 1
     /\ pattern[k] # Percent \/ (k < Len(pattern) /\ pattern[k + 1] = Percent)
  \/ /\ pattern[k] = Percent /\ k < Len(pattern) /\ pattern[k + 1] \in Known
     /\ \/ /\ j = k + 2
           /\ j > Len(pattern) \/ pattern[j] \notin Alpha \cup {LeftBrace, RightBrace}
        \/ /\ j \in k + 4..Len(pattern) + 1
           /\ pattern[k + 2] = LeftBrace /\ pattern[j - 1] = RightBrace
           /\ \A l \in k + 3..j - 2 : pattern[l] # RightBrace

(* A pattern that can be cut into pieces, from its start to its end.       *)
Readable ==
  \E cuts \in SUBSET (1..Len(pattern) + 1) :
    1 \in cuts /\ \A k \in cuts \ {Len(pattern) + 1} : \E j \in cuts : Piece(k, j)

(* A token is what stands in the pattern from a up to b.                   *)
Spelled(a, b, token) ==
  LET text == SubSeq(pattern, a, b - 1)
      head == <<Percent>> \o token.str IN
  \/ ~token.spec /\ text = token.str
  \/ token.spec /\ text = head \o <<LeftBrace>> \o token.fmt \o <<RightBrace>>
  \/ /\ token.spec /\ text = head /\ token.fmt = <<>>
     /\ b > Len(pattern) \/ pattern[b] # LeftBrace

(* initPattern throws for exactly the patterns that have an unknown or an  *)
(* empty name, or a brace that is not closed.                              *)
ThrowsIfUnreadable == phase \in {"valid", "thrown"} => (phase = "valid" <=> Readable)

(* Every character of an accepted pattern is in one token, in the order of *)
(* the pattern, formats included, and texts are as long as they can be.    *)
NothingDropped ==
  phase = "valid" =>
    /\ \E at \in [1..Len(vec) + 1 -> 1..Len(pattern) + 1] :
         /\ at[1] = 1 /\ at[Len(vec) + 1] = Len(pattern) + 1
         /\ \A k \in 1..Len(vec) : Spelled(at[k], at[k + 1], vec[k])
    /\ \A k \in 1..Len(vec) - 1 : vec[k].spec \/ vec[k + 1].spec

Stage == CASE phase = "for" -> 0 [] phase = "while" -> 1 [] phase = "token" -> 2
           [] phase = "items" -> 3 [] OTHER -> 4

(* No loop turns on the spot, although the outer index is set from the     *)
(* inner one, which starts again from it after a brace that is not closed: *)
(* every step moves the outer index on, or else the stage, or the inner.   *)
LoopsAdvance ==
  [][i' > i \/ (i' = i /\ (Stage' > Stage \/ (Stage' = Stage /\ n' > n)))]_patternVars

=============================================================================
