------------------------- MODULE LogPattern_proofs --------------------------
(***************************************************************************)
(* Theorems about LogPattern, for patterns of any length over any letters. *)
(* Sets of cuts stand for the recursion over a pattern, so that no         *)
(* induction over it is needed.                                            *)
(***************************************************************************)
EXTENDS LogPattern, TLAPS, SequenceTheorems

(* The characters of a pattern.                                            *)
Char == Alpha \cup Other \cup {Percent, LeftBrace, RightBrace}

(* The tuples in vec; their strings come from the pattern, or are          *)
(* "<<pattern_error>>".                                                    *)
TokenSet == [str : Seq(Char \cup {PatternError[1]}), fmt : Seq(Char), spec : BOOLEAN]

(* Every variable keeps its type; the indices stay inside the pattern or   *)
(* one behind it.                                                          *)
Types ==
  /\ pattern \in Seq(Char) /\ nstr \in Seq(Char)
  /\ str \in Seq(Char) /\ fmt \in Seq(Char)
  /\ i \in 1 .. Len(pattern) + 1 /\ n \in 1 .. Len(pattern) + 1
  /\ fmt_status \in {0, 1} /\ fmt_begin \in 1 .. Len(pattern) + 1
  /\ vec \in Seq(TokenSet) /\ error \in BOOLEAN
  /\ phase \in {"for", "while", "token", "items", "valid", "thrown"}

(* From a to b the inner loop goes on: letters and closing braces.         *)
Letters(a, b) == \A k \in a .. b : pattern[k] \in Alpha \cup {RightBrace}

(* From a to b nothing closes a brace.                                     *)
Open(a, b) == \A k \in a .. b : pattern[k] # RightBrace

(* Where the outer loop is: at the "%" of a specifier while one is read,   *)
(* and behind the pattern once it has ended.                               *)
Reading ==
  /\ phase \in {"while", "token"} =>
       /\ i <= Len(pattern) /\ pattern[i] = Percent /\ ~Escape
       /\ n \in i + 1 .. Len(pattern) + 1
  /\ phase \in {"items", "valid", "thrown"} => i = Len(pattern) + 1

(* The name read ends before the brace at b.                               *)
NameBefore(b) == b \in i + 1 .. n - 1 /\ pattern[b] = LeftBrace /\ Letters(i + 1, b - 1)

(* What the inner loop has read when it turns.                             *)
Scanned ==
  phase = "while" =>
    /\ fmt = <<>>
    /\ fmt_status = 0 =>
         /\ Letters(i + 1, n - 1)
         /\ str = IF n > Len(pattern) THEN Name(n - 1) ELSE <<>>
    /\ fmt_status = 1 =>
         /\ NameBefore(fmt_begin) /\ Open(fmt_begin + 1, n - 1)
         /\ n <= Len(pattern) => str = Name(fmt_begin - 1)

(* A name without a format ends before n.                                  *)
Bare ==
  /\ fmt_status = 0 /\ fmt = <<>> /\ str = Name(n - 1) /\ Letters(i + 1, n - 1)
  /\ n > Len(pattern) \/ pattern[n] \notin Alpha \cup {LeftBrace, RightBrace}

(* A name and a format, whose brace opens at b, end before n.              *)
Braced(b) ==
  /\ fmt_status = 0 /\ NameBefore(b) /\ b < n - 1 /\ pattern[n - 1] = RightBrace
  /\ Open(b + 1, n - 2)
  /\ str = Name(b - 1) /\ fmt = SubSeq(pattern, b + 1, n - 2)

(* The brace at b is not closed.                                           *)
Unclosed(b) ==
  fmt_status = 1 /\ n = Len(pattern) + 1 /\ NameBefore(b) /\ Open(b + 1, Len(pattern))

(* What the inner loop has read when it ends.                              *)
Found ==
  phase = "token" =>
    Bare \/ \E b \in i + 1 .. n - 1 : Braced(b) \/ Unclosed(b)

(* A specifier among the tokens has an unknown or an empty name.           *)
BadIn(tokens) == \E k \in DOMAIN tokens : BadName(tokens[k])

(* What makes Items throw, as far as it is seen yet.                       *)
Bad == error \/ BadIn(vec)

(* A set of cuts that makes the pattern readable.                          *)
Cuts(cuts) ==
  1 \in cuts /\ \A k \in cuts \ {Len(pattern) + 1} : \E j \in cuts : Piece(k, j)

(* The pattern up to p is cut into pieces, and cannot be cut otherwise:    *)
(* every set of cuts of the whole pattern has p.                           *)
CutAt(p) ==
  /\ \E cuts \in SUBSET (1 .. p) :
       /\ 1 \in cuts /\ p \in cuts
       /\ \A k \in cuts \ {p} : \E j \in cuts : Piece(k, j)
  /\ \A cuts \in SUBSET (1 .. Len(pattern) + 1) : Cuts(cuts) => p \in cuts

(* As long as nothing was bad the outer index is a cut; after that the     *)
(* pattern cannot be cut. The verdict follows at the end.                  *)
Judged ==
  /\ phase \in {"for", "while", "token", "items"} =>
       (Bad => ~Readable) /\ (~Bad => CutAt(i))
  /\ ThrowsIfUnreadable

(* The tokens spell the pattern up to p.                                   *)
Place(tokens, p) ==
  \E at \in [1 .. Len(tokens) + 1 -> 1 .. Len(pattern) + 1] :
    /\ at[1] = 1 /\ at[Len(tokens) + 1] = p
    /\ \A k \in 1 .. Len(tokens) : Spelled(at[k], at[k + 1], tokens[k])

(* No two texts are next to each other.                                    *)
Merged(tokens) == \A k \in 1 .. Len(tokens) - 1 : tokens[k].spec \/ tokens[k + 1].spec

(* Unless a brace was not closed, vec spells the pattern up to where nstr  *)
(* begins, and nstr is the rest up to the outer index.                     *)
Collected ==
  /\ phase = "valid" => ~error
  /\ ~error =>
       /\ Merged(vec)
       /\ phase \in {"for", "while", "token"} =>
            /\ vec = <<>> \/ vec[Len(vec)].spec
            /\ \E p \in 1 .. i : Place(vec, p) /\ nstr = SubSeq(pattern, p, i - 1)
       /\ phase \in {"items", "valid", "thrown"} => Place(vec, Len(pattern) + 1)

(* The inductive invariant.                                                *)
Inv == Types /\ Reading /\ Scanned /\ Found /\ Judged /\ Collected

-----------------------------------------------------------------------------
(* Types.                                                                  *)

(* The three signs differ.                                                 *)
LEMMA Signs == Percent # LeftBrace /\ Percent # RightBrace /\ LeftBrace # RightBrace
  BY Zenon DEF Percent, LeftBrace, RightBrace

(* The types hold initially.                                               *)
LEMMA InitTypes == PatternInit => Types
<1> SUFFICES ASSUME PatternInit PROVE Types
  OBVIOUS
<1>1. pattern \in Seq(Char)
  <2>1. pattern \in UNION {[1 .. m -> Char] : m \in 0 .. MaxLen}
    BY DEF PatternInit, Patterns, SeqOf, Char
  <2>2. PICK m \in 0 .. MaxLen : pattern \in [1 .. m -> Char]
    BY <2>1
  <2>3. m \in Nat
    BY PatternAssumption
  <2> HIDE DEF Char
  <2> QED
    BY <2>2, <2>3
<1> HIDE DEF Char, TokenSet
<1>2. Len(pattern) \in Nat /\ <<>> \in Seq(Char) /\ <<>> \in Seq(TokenSet)
  BY <1>1, LenProperties, EmptySeq
<1>3. 1 \in 1 .. Len(pattern) + 1
  BY <1>2
<1> QED
  BY <1>1, <1>2, <1>3 DEF PatternInit, Types

(* What stands in the pattern.                                             *)
LEMMA Positions ==
  ASSUME Types
  PROVE  /\ Len(pattern) \in Nat
         /\ \A k \in 1 .. Len(pattern) : pattern[k] \in Char
  BY LenProperties, ElementOfSeq DEF Types

(* What substr returns, inside the pattern.                                *)
LEMMA Parts ==
  ASSUME Types, NEW a \in Nat \ {0}, NEW b \in Int, b <= Len(pattern)
  PROVE  /\ SubSeq(pattern, a, b) \in Seq(Char)
         /\ Len(SubSeq(pattern, a, b)) = IF a <= b THEN b - a + 1 ELSE 0
         /\ \A k \in 1 .. b - a + 1 : SubSeq(pattern, a, b)[k] = pattern[a + k - 1]
<1>1. \A k \in a .. b : pattern[k] \in Char
  BY Positions
<1> HIDE DEF Char
<1> QED
  BY <1>1, SubSeqProperties

(* The name read so far consists of characters.                            *)
LEMMA NameType ==
  ASSUME Types, NEW b \in Int, b <= Len(pattern)
  PROVE  Name(b) \in Seq(Char)
<1>1. i + 1 \in Nat \ {0}
  BY Positions DEF Types
<1> QED
  BY <1>1, Parts DEF Name

(* The tuples put into vec.                                                *)
LEMMA TextTypes ==
  ASSUME Types
  PROVE  /\ Text(nstr) \in TokenSet /\ Text(PatternError) \in TokenSet
         /\ \A s \in Seq(Char), f \in Seq(Char) : Specifier(s, f) \in TokenSet
<1>1. PatternError \in Seq(Char \cup {PatternError[1]})
  BY DEF PatternError
<1> HIDE DEF Char
<1>2. Seq(Char) \subseteq Seq(Char \cup {PatternError[1]}) /\ <<>> \in Seq(Char)
  BY SeqMonotonic, EmptySeq
<1> QED
  BY <1>1, <1>2 DEF Text, Specifier, TokenSet, Types

(* Putting the plain text into vec, and a specifier behind it, keeps the   *)
(* type of vec.                                                            *)
LEMMA FlushedType ==
  ASSUME Types
  PROVE  Flushed \in Seq(TokenSet) /\ \A s \in Seq(Char), f \in Seq(Char) :
           Append(Flushed, Specifier(s, f)) \in Seq(TokenSet)
<1> HIDE DEF Char
<1>1. \A s \in Seq(Char), f \in Seq(Char) : Specifier(s, f) \in TokenSet
  BY TextTypes
<1>2. Text(nstr) \in TokenSet
  BY TextTypes
<1> HIDE DEF TokenSet
<1>3. Flushed \in Seq(TokenSet)
  BY <1>2, AppendProperties DEF Flushed, Types
<1> QED
  BY <1>1, <1>3, AppendProperties

(* Every step keeps the types; at a brace that is not closed this needs    *)
(* the outer index to be inside the pattern.                               *)
LEMMA NextTypes ==
  ASSUME Types, Reading, Scanned, [PatternNext]_patternVars PROVE Types'
<1> USE DEF specVars, outVars, patternVars
<1>0. Len(pattern) \in Nat
  BY Positions
<1>1. ASSUME Literal PROVE Types'
  <2>1. pattern[i] \in Char
    BY <1>1, Positions DEF Literal, InFor, Types
  <2> HIDE DEF Char, TokenSet
  <2>2. nstr' \in Seq(Char)
    BY <1>1, <2>1, AppendProperties DEF Literal, Types
  <2> QED
    BY <1>1, <2>2, <1>0 DEF Literal, InFor, Types
<1>2. ASSUME Begin PROVE Types'
  <2> HIDE DEF Char, TokenSet
  <2> QED
    BY <1>2, <1>0, EmptySeq DEF Begin, InFor, Types
<1>3. ASSUME ForEnds PROVE Types'
  <2>1. vec' \in Seq(TokenSet)
    BY <1>3, FlushedType DEF ForEnds
  <2> HIDE DEF Char, TokenSet
  <2> QED
    BY <1>3, <2>1 DEF ForEnds, Types
<1>4. ASSUME NameEnds PROVE Types'
  <2>0. n - 1 \in Int /\ n - 1 <= Len(pattern) /\ str' = Name(n - 1)
    BY <1>4, <1>0 DEF NameEnds, InWhile, Types
  <2>1. str' \in Seq(Char)
    BY <2>0, NameType
  <2> HIDE DEF Char, TokenSet
  <2> QED
    BY <1>4, <2>1 DEF NameEnds, Types
<1>5. ASSUME OpenBrace PROVE Types'
  <2>0. n - 1 \in Int /\ n - 1 <= Len(pattern) /\ str' = Name(n - 1)
    BY <1>5, <1>0 DEF OpenBrace, InWhile, Types
  <2>1. str' \in Seq(Char)
    BY <2>0, NameType
  <2> HIDE DEF Char, TokenSet
  <2> QED
    BY <1>5, <2>0, <2>1, <1>0 DEF OpenBrace, InWhile, Types
<1>6. ASSUME CloseBrace PROVE Types'
  <2>0. /\ fmt_begin + 1 \in Nat \ {0} /\ n - 1 \in Int /\ n - 1 <= Len(pattern)
        /\ fmt' = SubSeq(pattern, fmt_begin + 1, n - 1)
    BY <1>6, <1>0 DEF CloseBrace, InWhile, Types
  <2>1. fmt' \in Seq(Char)
    BY <2>0, Parts
  <2> HIDE DEF Char, TokenSet
  <2> QED
    BY <1>6, <2>1, <1>0 DEF CloseBrace, InWhile, Types
<1>7. ASSUME Advance PROVE Types'
  <2>0. n \in Int /\ n <= Len(pattern) /\ str' \in {str, Name(n)}
    BY <1>7, <1>0 DEF Advance, InWhile, Types
  <2>1. str' \in Seq(Char)
    BY <2>0, NameType DEF Types
  <2> HIDE DEF Char, TokenSet
  <2> QED
    BY <1>7, <2>1, <1>0 DEF Advance, InWhile, Types
<1>8. ASSUME WhileEnds PROVE Types'
  <2> HIDE DEF Char, TokenSet
  <2> QED
    BY <1>8 DEF WhileEnds, Types
<1>9. ASSUME Token PROVE Types'
  <2>1. vec' \in Seq(TokenSet)
    BY <1>9, FlushedType DEF Token, Types
  <2>2. <<>> \in Seq(Char)
    BY EmptySeq
  <2> HIDE DEF Char, TokenSet
  <2> QED
    BY <1>9, <2>1, <2>2 DEF Token, Types
<1>10. ASSUME Unterminated PROVE Types'
  <2>1. Text(PatternError) \in TokenSet
    BY TextTypes
  <2>2. i + 1 \in 1 .. Len(pattern) + 1
    BY <1>10, <1>0 DEF Unterminated, Reading, Types
  <2> HIDE DEF Char, TokenSet
  <2>3. vec' \in Seq(TokenSet)
    BY <1>10, <2>1, AppendProperties DEF Unterminated, Types
  <2> QED
    BY <1>10, <2>2, <2>3 DEF Unterminated, Types
<1>11. ASSUME Items PROVE Types'
  <2>1. error' \in BOOLEAN
    BY <1>11 DEF Items, Types
  <2>2. phase' \in {"valid", "thrown"}
    BY <1>11 DEF Items
  <2> HIDE DEF Char, TokenSet
  <2> QED
    BY <1>11, <2>1, <2>2 DEF Items, Types
<1>12. CASE UNCHANGED patternVars
  <2> HIDE DEF Char, TokenSet
  <2> QED
    BY <1>12 DEF Types
<1> QED
  BY <1>1, <1>2, <1>3, <1>4, <1>5, <1>6, <1>7, <1>8, <1>9, <1>10, <1>11, <1>12
  DEF PatternNext

-----------------------------------------------------------------------------
(* What the inner loop has read.                                           *)

(* Nothing was read initially.                                             *)
LEMMA InitReading == PatternInit => Reading /\ Scanned /\ Found
  BY DEF PatternInit, Reading, Scanned, Found

(* Every step keeps the place of the outer loop.                           *)
LEMMA NextReading ==
  ASSUME Types, Reading, Scanned, Found, [PatternNext]_patternVars PROVE Reading'
<1> USE DEF specVars, outVars, patternVars, Reading, Escape
<1> HIDE DEF Char, TokenSet
<1>0. Len(pattern) \in Nat /\ i \in Nat /\ n \in Nat /\ i \in 1 .. Len(pattern) + 1
  BY Positions DEF Types
<1>1. ASSUME Literal \/ Begin \/ ForEnds PROVE Reading'
  BY <1>1, <1>0 DEF Literal, Begin, ForEnds, InFor
<1>2. ASSUME NameEnds \/ OpenBrace \/ CloseBrace \/ Advance \/ WhileEnds PROVE Reading'
  BY <1>2, <1>0 DEF NameEnds, OpenBrace, CloseBrace, Advance, WhileEnds, InWhile
<1>3. ASSUME Token \/ Unterminated \/ Items PROVE Reading'
  BY <1>3, <1>0 DEF Token, Unterminated, Items
<1>4. CASE UNCHANGED patternVars
  BY <1>4
<1> QED
  BY <1>1, <1>2, <1>3, <1>4 DEF PatternNext

(* Every turn of the inner loop keeps what it has read: str is only set at *)
(* the end of a name or of the pattern.                                    *)
LEMMA NextScanned ==
  ASSUME Types, Reading, Scanned, [PatternNext]_patternVars PROVE Scanned'
<1> USE DEF specVars, outVars, patternVars, Letters, Open, NameBefore, Name
<1> HIDE DEF Char, TokenSet
<1>0. Len(pattern) \in Nat /\ i \in Nat /\ n \in Nat /\ i \in 1 .. Len(pattern) + 1
  BY Positions DEF Types
<1>1. ASSUME Begin PROVE Scanned'
  <2>1. SubSeq(pattern, i + 1, i) = <<>>
    BY <1>0, SubSeqEmpty
  <2> QED
    BY <1>1, <1>0, <2>1 DEF Scanned, Begin, InFor
<1>2. ASSUME OpenBrace PROVE Scanned'
  BY <1>2, <1>0 DEF Scanned, OpenBrace, InWhile, Types, Reading
<1>3. ASSUME Advance, fmt_status = 0 PROVE Scanned'
  <2>1. /\ pattern[n] \in Alpha \cup {RightBrace} /\ phase' = "while" /\ fmt' = <<>>
        /\ fmt_status' = 0 /\ UNCHANGED <<pattern, i>> /\ n' - 1 = n
    BY <1>3, <1>0 DEF Scanned, Advance, InWhile, PassedOver
  <2>2. Letters(i + 1, n - 1)'
    BY <1>3, <1>0, <2>1 DEF Scanned, Advance, InWhile
  <2>3. str' = IF n' > Len(pattern) THEN SubSeq(pattern, i + 1, n) ELSE <<>>
    BY <1>3, <1>0 DEF Scanned, Advance, InWhile
  <2> QED
    BY <2>1, <2>2, <2>3 DEF Scanned
<1>4. ASSUME Advance, fmt_status = 1 PROVE Scanned'
  <2>1. /\ phase = "while" /\ n <= Len(pattern) /\ pattern[n] # RightBrace /\ n' = n + 1
        /\ UNCHANGED <<pattern, i, fmt, fmt_status, fmt_begin>>
        /\ n < Len(pattern) => str' = str
    BY <1>4, <1>0 DEF Advance, InWhile, PassedOver
  <2>2. NameBefore(fmt_begin) /\ Open(fmt_begin + 1, n - 1) /\ fmt = <<>>
    BY <1>4, <2>1 DEF Scanned
  <2>3. NameBefore(fmt_begin)' /\ Open(fmt_begin + 1, n - 1)'
    BY <1>0, <2>1, <2>2 DEF Types
  <2>4. n < Len(pattern) => str' = Name(fmt_begin - 1)
    BY <1>4, <1>0, <2>1 DEF Scanned
  <2> QED
    BY <1>4, <1>0, <2>1, <2>2, <2>3, <2>4 DEF Scanned
<1>5. ASSUME phase' # "while" PROVE Scanned'
  BY <1>5 DEF Scanned
<1>6. CASE UNCHANGED patternVars
  BY <1>6 DEF Scanned
<1> QED
  BY <1>1, <1>2, <1>3, <1>4, <1>5, <1>6
  DEF PatternNext, Literal, ForEnds, NameEnds, CloseBrace, WhileEnds, Token, Unterminated,
     Items,
      InFor, Types

(* The ways out of the inner loop.                                         *)
LEMMA NextFound ==
  ASSUME Types, Reading, Scanned, Found, [PatternNext]_patternVars PROVE Found'
<1> USE DEF specVars, outVars, patternVars, Letters, Open, NameBefore, Name
<1> HIDE DEF Char, TokenSet
<1>0. Len(pattern) \in Nat /\ i \in Nat /\ n \in Nat /\ i \in 1 .. Len(pattern) + 1
  BY Positions DEF Types
<1>1. ASSUME NameEnds PROVE Found'
  BY <1>1, <1>0 DEF Scanned, Found, NameEnds, InWhile, Bare
<1>2. ASSUME CloseBrace PROVE Found'
  <2>1. fmt_begin \in i + 1 .. n - 1 /\ str = SubSeq(pattern, i + 1, fmt_begin - 1)
    BY <1>2, <1>0 DEF Scanned, CloseBrace, InWhile
  <2>2. n' = n + 1 /\ n' - 2 = n - 1 /\ n' - 1 = n
    BY <1>2, <1>0 DEF CloseBrace
  <2>3. Braced(fmt_begin)'
    BY <1>2, <1>0, <2>1, <2>2 DEF Scanned, CloseBrace, InWhile, Braced
  <2> QED
    BY <2>1, <2>2, <2>3, <1>2, <1>0 DEF Found, CloseBrace
<1>3. ASSUME WhileEnds, fmt_status = 0 PROVE Found'
  BY <1>3, <1>0 DEF Scanned, Found, WhileEnds, Bare
<1>4. ASSUME WhileEnds, fmt_status = 1 PROVE Found'
  <2>1. n = Len(pattern) + 1 /\ fmt_begin \in i + 1 .. n - 1
    <3>1. phase = "while" /\ n > Len(pattern) /\ n <= Len(pattern) + 1
      BY <1>4, <1>0 DEF WhileEnds, Types
    <3> QED
      BY <1>4, <1>0, <3>1 DEF Scanned
  <2>2. Unclosed(fmt_begin)'
    BY <1>4, <1>0, <2>1 DEF Scanned, WhileEnds, Unclosed
  <2> QED
    BY <2>1, <2>2, <1>4, <1>0 DEF Found, WhileEnds
<1>5. ASSUME phase' # "token" PROVE Found'
  BY <1>5 DEF Found
<1>6. CASE UNCHANGED patternVars
  BY <1>6 DEF Found, Bare, Braced, Unclosed
<1> QED
  BY <1>1, <1>2, <1>3, <1>4, <1>5, <1>6
  DEF PatternNext, Literal, Begin, ForEnds, OpenBrace, Advance, Token, Unterminated, Items,
      InFor, InWhile, Types

-----------------------------------------------------------------------------
(* The verdict on a pattern.                                               *)

(* The signs are not letters.                                              *)
LEMMA Letterless ==
  \A x \in {Percent, LeftBrace, RightBrace} : x \notin Alpha /\ x \notin Known
  BY PatternAssumption DEF Alpha

(* A piece ends in one place.                                              *)
LEMMA PieceUnique ==
  ASSUME Types, NEW k \in 1 .. Len(pattern), NEW j \in Nat, NEW l \in Nat,
         Piece(k, j), Piece(k, l)
  PROVE  j = l /\ j \in k + 1 .. Len(pattern) + 1
<1>0. Len(pattern) \in Nat
  BY Positions
<1> DEFINE Character == \/ pattern[k] # Percent
                        \/ k < Len(pattern) /\ pattern[k + 1] = Percent
           Ends(m) == /\ m = k + 2
                      /\ \/ m > Len(pattern)
                         \/ pattern[m] \notin Alpha \cup {LeftBrace, RightBrace}
           Braces(m) == /\ m \in k + 4 .. Len(pattern) + 1
                        /\ pattern[k + 2] = LeftBrace /\ pattern[m - 1] = RightBrace
                        /\ \A r \in k + 3 .. m - 2 : pattern[r] # RightBrace
<1>1. \A m : Piece(k, m) <=>
        \/ m = k + 1 /\ Character
        \/ /\ ~Character /\ k < Len(pattern) /\ pattern[k + 1] \in Known
           /\ Ends(m) \/ Braces(m)
  BY Letterless DEF Piece
<1> HIDE DEF Character
<1>2. CASE Character
  BY <1>0, <1>1, <1>2
<1>3. CASE ~Character /\ Ends(j) /\ k < Len(pattern)
  <2>1. ~Braces(l)
    BY <1>3, <1>0
  <2> QED
    BY <1>0, <1>1, <1>3, <2>1
<1>4. CASE ~Character /\ Braces(j)
  <2>1. ~Ends(l)
    BY <1>4, <1>0
  <2>2. Braces(l)
    BY <1>1, <1>4, <2>1
  <2>3. ~(j < l)
    <3>1. j < l => j - 1 \in k + 3 .. l - 2
      BY <1>0, <1>4, <2>2
    <3> QED
      BY <3>1, <1>4, <2>2
  <2>4. ~(l < j)
    <3>1. l < j => l - 1 \in k + 3 .. j - 2
      BY <1>0, <1>4, <2>2
    <3> QED
      BY <3>1, <1>4, <2>2
  <2> QED
    BY <2>3, <2>4, <1>4, <1>0
<1>5. Character \/ (~Character /\ k < Len(pattern) /\ (Ends(j) \/ Braces(j)))
  BY <1>1
<1> QED
  BY <1>2, <1>3, <1>4, <1>5, Zenon

(* A name is a known letter if it is one letter long, and known.           *)
LEMMA OneLetter ==
  ASSUME Types, NEW b \in i + 1 .. Len(pattern) + 1
  PROVE  (\E x \in Known : Name(b - 1) = <<x>>)
           <=> b = i + 2 /\ pattern[i + 1] \in Known
<1>0. Len(pattern) \in Nat /\ i \in Nat \ {0} /\ b \in Nat /\ b - 1 <= Len(pattern)
      /\ i + 1 \in Nat \ {0} /\ b - 1 \in Int
  BY Positions DEF Types
<1>1. /\ Len(Name(b - 1)) = IF i + 1 <= b - 1 THEN b - 1 - (i + 1) + 1 ELSE 0
      /\ \A k \in 1 .. b - 1 - (i + 1) + 1 : Name(b - 1)[k] = pattern[i + 1 + k - 1]
      /\ Name(b - 1) \in Seq(Char)
  <2> HIDE DEF Char
  <2> QED
    BY <1>0, Parts DEF Name
<1>2. ASSUME NEW x \in Known, Name(b - 1) = <<x>>
      PROVE  b = i + 2 /\ pattern[i + 1] \in Known
  <2>1. Len(Name(b - 1)) = 1 /\ Name(b - 1)[1] = x
    BY <1>2
  <2>2. b = i + 2
    BY <2>1, <1>0, <1>1
  <2>3. Name(b - 1)[1] = pattern[i + 1]
    BY <1>1, <2>2, <1>0
  <2> QED
    BY <2>1, <2>2, <2>3
<1>3. ASSUME b = i + 2, pattern[i + 1] \in Known PROVE Name(b - 1) = <<pattern[i + 1]>>
  <2>1. Len(Name(b - 1)) = 1 /\ Name(b - 1)[1] = pattern[i + 1]
    BY <1>0, <1>1, <1>3
  <2>2. <<pattern[i + 1]>> \in Seq(Char)
    BY <1>3 DEF Char, Alpha
  <2> HIDE DEF Char
  <2> QED
    BY <2>1, <2>2, <1>1, SeqEqual
<1> QED
  BY <1>2, <1>3

(* A complete specifier is a piece if its name is known; if not, nothing   *)
(* that begins at its "%" is a piece.                                      *)
LEMMA TokenPiece ==
  ASSUME Types, Reading, Found, phase = "token", fmt_status = 0
  PROVE  IF \E x \in Known : str = <<x>> THEN Piece(i, n) ELSE \A j : ~Piece(i, j)
<1>0. Len(pattern) \in Nat /\ i \in Nat \ {0} /\ n \in i + 1 .. Len(pattern) + 1
  BY Positions DEF Types, Reading
<1>1. /\ pattern[i] = Percent /\ i <= Len(pattern)
      /\ ~(i < Len(pattern) /\ pattern[i + 1] = Percent)
  BY DEF Reading, Escape
<1> DEFINE Known1 == i < Len(pattern) /\ pattern[i + 1] \in Known
<1>2. CASE Bare
  <2>1. (\E x \in Known : str = <<x>>) <=> n = i + 2 /\ pattern[i + 1] \in Known
    BY <1>0, <1>2, OneLetter DEF Bare
  <2>2. ASSUME n = i + 2, pattern[i + 1] \in Known PROVE Piece(i, n)
    BY <1>0, <1>1, <1>2, <2>2 DEF Bare, Piece
  <2>3. ASSUME NEW j, Piece(i, j) PROVE n = i + 2 /\ pattern[i + 1] \in Known
    <3>1. i < Len(pattern) /\ pattern[i + 1] \in Known
      BY <2>3, <1>1 DEF Piece
    <3>2. i + 2 <= Len(pattern) => pattern[i + 2] \notin Alpha \cup {RightBrace}
      BY <2>3, <1>1, <1>0, Letterless, Signs DEF Piece
    <3>3. n # i + 1
      BY <3>1, <1>2, <1>0 DEF Bare, Alpha
    <3>4. ~(n > i + 2)
      <4>1. n > i + 2 => i + 2 \in i + 1 .. n - 1 /\ i + 2 <= Len(pattern)
        BY <1>0
      <4> QED
        BY <4>1, <3>2, <1>2 DEF Bare, Letters
    <3> QED
      BY <3>1, <3>3, <3>4, <1>0
  <2> QED
    BY <2>1, <2>2, <2>3
<1>3. CASE \E b \in i + 1 .. n - 1 : Braced(b)
  <2>0. PICK b \in i + 1 .. n - 1 : Braced(b)
    BY <1>3
  <2>1. (\E x \in Known : str = <<x>>) <=> b = i + 2 /\ pattern[i + 1] \in Known
    BY <1>0, <2>0, OneLetter DEF Braced
  <2>2. ASSUME b = i + 2, pattern[i + 1] \in Known PROVE Piece(i, n)
    <3>1. /\ n \in i + 4 .. Len(pattern) + 1 /\ i < Len(pattern)
          /\ pattern[i + 2] = LeftBrace /\ pattern[n - 1] = RightBrace
          /\ \A l \in i + 3 .. n - 2 : pattern[l] # RightBrace
      BY <1>0, <2>0, <2>2 DEF Braced, NameBefore, Open
    <3> QED
      BY <3>1, <1>1, <2>2 DEF Piece
  <2>3. ASSUME NEW j, Piece(i, j) PROVE b = i + 2 /\ pattern[i + 1] \in Known
    <3>1. i < Len(pattern) /\ pattern[i + 1] \in Known
      BY <2>3, <1>1 DEF Piece
    <3>2. i + 2 <= Len(pattern) => pattern[i + 2] \notin Alpha \cup {RightBrace}
      BY <2>3, <1>1, <1>0, Letterless, Signs DEF Piece
    <3>3. b # i + 1
      BY <3>1, <2>0, <1>0, Letterless DEF Braced, NameBefore
    <3>4. ~(b > i + 2)
      <4>1. b > i + 2 => i + 2 \in i + 1 .. b - 1 /\ i + 2 <= Len(pattern)
        BY <1>0, <2>0
      <4> QED
        BY <4>1, <3>2, <2>0 DEF Braced, NameBefore, Letters
    <3> QED
      BY <3>1, <3>3, <3>4, <1>0
  <2> QED
    BY <2>1, <2>2, <2>3
<1> QED
  BY <1>2, <1>3 DEF Found, Unclosed

(* At a brace that is not closed no piece begins.                          *)
LEMMA UnclosedPiece ==
  ASSUME Types, Reading, Found, phase = "token", fmt_status = 1
  PROVE  \A j : ~Piece(i, j)
<1>0. Len(pattern) \in Nat /\ i \in Nat \ {0} /\ n \in i + 1 .. Len(pattern) + 1
  BY Positions DEF Types, Reading
<1>1. /\ pattern[i] = Percent /\ i <= Len(pattern)
      /\ ~(i < Len(pattern) /\ pattern[i + 1] = Percent)
  BY DEF Reading, Escape
<1>2. PICK b \in i + 1 .. n - 1 : Unclosed(b)
  BY DEF Found, Bare, Braced
<1> SUFFICES ASSUME NEW j, Piece(i, j) PROVE FALSE
  OBVIOUS
<1>3. i < Len(pattern) /\ pattern[i + 1] \in Known
  BY <1>1 DEF Piece
<1>4. i + 2 <= Len(pattern) => pattern[i + 2] \notin Alpha \cup {RightBrace}
  BY <1>1, <1>0, Letterless, Signs DEF Piece
<1>5. b # i + 1
  BY <1>3, <1>2, <1>0, Letterless DEF Unclosed, NameBefore
<1>6. ~(b > i + 2)
  <2>1. b > i + 2 => i + 2 \in i + 1 .. b - 1 /\ i + 2 <= Len(pattern)
    BY <1>0, <1>2
  <2> QED
    BY <2>1, <1>4, <1>2 DEF Unclosed, NameBefore, Letters
<1>7. b = i + 2 /\ pattern[i + 2] = LeftBrace /\ i + 2 <= Len(pattern)
  BY <1>5, <1>6, <1>2, <1>0 DEF Unclosed, NameBefore
<1>8. j \in i + 4 .. Len(pattern) + 1 /\ pattern[j - 1] = RightBrace
  BY <1>7, <1>1, <1>0 DEF Piece
<1>9. j - 1 \in b + 1 .. Len(pattern)
  BY <1>7, <1>8, <1>0
<1> QED
  BY <1>8, <1>9, <1>2 DEF Unclosed, Open

(* A piece at a cut leads to the next cut.                                 *)
LEMMA CutStep ==
  ASSUME Types, NEW p \in 1 .. Len(pattern), NEW q \in Nat, CutAt(p), Piece(p, q)
  PROVE  CutAt(q)
<1>0. Len(pattern) \in Nat /\ q \in p + 1 .. Len(pattern) + 1
  BY Positions, PieceUnique
<1>1. PICK cuts \in SUBSET (1 .. p) :
        /\ 1 \in cuts /\ p \in cuts
        /\ \A k \in cuts \ {p} : \E j \in cuts : Piece(k, j)
  BY DEF CutAt
<1>2. cuts \cup {q} \in SUBSET (1 .. q)
  BY <1>0, <1>1
<1>3. \A k \in (cuts \cup {q}) \ {q} : \E j \in cuts \cup {q} : Piece(k, j)
  BY <1>1
<1>4. ASSUME NEW c \in SUBSET (1 .. Len(pattern) + 1), Cuts(c) PROVE q \in c
  <2>1. p \in c \ {Len(pattern) + 1}
    BY <1>4, <1>0 DEF CutAt
  <2>2. PICK j \in c : Piece(p, j)
    BY <1>4, <2>1 DEF Cuts
  <2>3. j \in Nat
    BY <1>0
  <2> QED
    BY <2>2, <2>3, PieceUnique
<1> QED
  BY <1>1, <1>2, <1>3, <1>4 DEF CutAt

(* A cut at which no piece begins: the pattern cannot be cut.              *)
LEMMA CutStuck ==
  ASSUME Types, NEW p \in 1 .. Len(pattern), CutAt(p), \A j : ~Piece(p, j)
  PROVE  ~Readable
<1>0. Len(pattern) \in Nat
  BY Positions
<1> SUFFICES ASSUME NEW c \in SUBSET (1 .. Len(pattern) + 1), Cuts(c) PROVE FALSE
  BY DEF Readable, Cuts
<1>1. p \in c \ {Len(pattern) + 1}
  BY <1>0 DEF CutAt
<1> QED
  BY <1>1 DEF Cuts

(* A cut at the end.                                                       *)
LEMMA CutEnd == CutAt(Len(pattern) + 1) => Readable
  BY DEF CutAt, Readable

(* What depends on the pattern alone.                                      *)
LEMMA SamePattern ==
  ASSUME UNCHANGED pattern
  PROVE  /\ Readable' <=> Readable
         /\ \A p : CutAt(p) /\ i' = p => CutAt(i)'
  BY DEF Readable, CutAt, Cuts, Piece

(* The verdict on one token more.                                          *)
LEMMA BadAppend ==
  ASSUME NEW tokens \in Seq(TokenSet), NEW token \in TokenSet
  PROVE  BadIn(Append(tokens, token)) <=> BadIn(tokens) \/ BadName(token)
<1> HIDE DEF TokenSet
<1>1. /\ Len(tokens) \in Nat
      /\ DOMAIN Append(tokens, token) = 1 .. Len(tokens) + 1
      /\ DOMAIN tokens = 1 .. Len(tokens)
      /\ \A k \in 1 .. Len(tokens) : Append(tokens, token)[k] = tokens[k]
      /\ Append(tokens, token)[Len(tokens) + 1] = token
  BY AppendProperties, LenProperties
<1> QED
  BY <1>1 DEF BadIn

(* Plain text is never bad.                                                *)
LEMMA BadFlushed ==
  ASSUME Types
  PROVE  BadIn(Flushed) <=> BadIn(vec)
<1>1. ~BadName(Text(nstr))
  BY DEF BadName, Text
<1> QED
  BY <1>1, BadAppend, TextTypes DEF Flushed, Types

(* The start of the pattern is a cut.                                      *)
LEMMA InitJudged == PatternInit => Judged
<1> SUFFICES ASSUME PatternInit PROVE Judged
  OBVIOUS
<1>1. ~Bad /\ i = 1 /\ phase = "for"
  BY DEF PatternInit, Bad, BadIn
<1>2. CutAt(1)
  <2>1. {1} \in SUBSET (1 .. 1)
    OBVIOUS
  <2> QED
    BY <2>1 DEF CutAt, Cuts
<1> QED
  BY <1>1, <1>2 DEF Judged, ThrowsIfUnreadable

(* Every step keeps the verdict.                                           *)
LEMMA NextJudged ==
  ASSUME Types, Reading, Found, Judged, [PatternNext]_patternVars PROVE Judged'
<1> USE DEF specVars, outVars, patternVars
<1> HIDE DEF Char, TokenSet
<1>0. Len(pattern) \in Nat /\ i \in Nat /\ i \in 1 .. Len(pattern) + 1
  BY Positions DEF Types
<1>p. UNCHANGED pattern
  BY DEF PatternNext, Literal, Begin, ForEnds, NameEnds, OpenBrace, CloseBrace, Advance,
     WhileEnds,
         Token, Unterminated, Items
<1> DEFINE Early == phase \in {"for", "while", "token", "items"}
<1>s. ASSUME Early, phase' \in {"for", "while", "token", "items"},
             Bad => Bad', Bad' => ~Readable, ~Bad' => CutAt(i')
      PROVE  Judged'
  <2>1. Bad' => ~Readable'
    BY <1>s, <1>p, SamePattern
  <2>2. ~Bad' => CutAt(i)'
    BY <1>s, <1>p, SamePattern
  <2> QED
    BY <2>1, <2>2, <1>s DEF Judged, ThrowsIfUnreadable
<1>1. ASSUME Literal PROVE Judged'
  <2>1. Piece(i, i + 1) /\ i \in 1 .. Len(pattern)
    BY <1>1, <1>0 DEF Literal, InFor, Escape, Piece
  <2>2. CutAt(i) => CutAt(i')
    BY <2>1, <1>1, <1>0, CutStep DEF Literal
  <2>3. Bad' <=> Bad
    BY <1>1 DEF Literal, Bad, BadIn
  <2>4. Early /\ phase' = "for"
    BY <1>1 DEF Literal, InFor
  <2> QED
    BY <2>2, <2>3, <2>4, <1>s DEF Judged
<1>2. ASSUME Begin \/ NameEnds \/ OpenBrace \/ CloseBrace \/ Advance \/ WhileEnds
      PROVE  Judged'
  <2>1. i' = i /\ Early /\ phase' \in {"while", "token"} /\ vec' = vec /\ error' = error
    BY <1>2 DEF Begin, NameEnds, OpenBrace, CloseBrace, Advance, WhileEnds, InFor,
       InWhile
  <2>2. Bad' <=> Bad
    BY <2>1 DEF Bad, BadIn
  <2> QED
    BY <2>1, <2>2, <1>s DEF Judged
<1>3. ASSUME ForEnds PROVE Judged'
  <2>1. i' = i /\ Early /\ phase' = "items" /\ vec' = Flushed /\ error' = error
    BY <1>3 DEF ForEnds
  <2>2. Bad' <=> Bad
    BY <2>1, BadFlushed DEF Bad, BadIn
  <2> QED
    BY <2>1, <2>2, <1>s DEF Judged
<1>4. ASSUME Token PROVE Judged'
  <2>1. /\ i' = n /\ Early /\ phase' = "for" /\ vec' = Append(Flushed, Specifier(str, fmt))
        /\ error' = error /\ fmt_status = 0 /\ phase = "token"
    BY <1>4 DEF Token
  <2>2. i \in 1 .. Len(pattern) /\ n \in Nat
    BY <2>1, <1>0 DEF Reading, Types
  <2>3. BadName(Specifier(str, fmt)) <=> ~\E x \in Known : str = <<x>>
    BY DEF BadName, Specifier
  <2>4. Bad' <=> Bad \/ ~\E x \in Known : str = <<x>>
    <3>1. BadIn(vec') <=> BadIn(vec) \/ BadName(Specifier(str, fmt))
      BY <2>1, BadFlushed, BadAppend, TextTypes, FlushedType DEF Types
    <3> QED
      BY <3>1, <2>1, <2>3 DEF Bad, BadIn
  <2>5. IF \E x \in Known : str = <<x>> THEN Piece(i, n) ELSE \A j : ~Piece(i, j)
    BY <2>1, TokenPiece
  <2>6. ~Bad' => CutAt(n)
    BY <2>1, <2>2, <2>4, <2>5, CutStep DEF Judged
  <2>7. Bad' => ~Readable
    BY <2>1, <2>2, <2>4, <2>5, CutStuck DEF Judged
  <2> QED
    BY <2>1, <2>4, <2>6, <2>7, <1>s
<1>5. ASSUME Unterminated PROVE Judged'
  <2>1. Early /\ phase' = "for" /\ error' = TRUE /\ fmt_status = 1 /\ phase = "token"
    BY <1>5 DEF Unterminated
  <2>2. i \in 1 .. Len(pattern)
    BY <2>1, <1>0 DEF Reading
  <2>3. ~Readable
    BY <2>1, <2>2, UnclosedPiece, CutStuck DEF Judged
  <2>4. Bad'
    BY <2>1 DEF Bad, BadIn
  <2> QED
    BY <2>1, <2>3, <2>4, <1>s
<1>6. ASSUME Items PROVE Judged'
  <2>1. error' = Bad /\ phase = "items" /\ phase' = IF error' THEN "thrown" ELSE "valid"
    BY <1>6 DEF Items, Bad, BadIn
  <2>2. i = Len(pattern) + 1
    BY <2>1 DEF Reading
  <2>3. Bad <=> ~Readable
    BY <2>1, <2>2, CutEnd DEF Judged
  <2>4. Bad <=> ~Readable'
    BY <2>3, <1>p, SamePattern
  <2> QED
    BY <2>1, <2>4 DEF Judged, ThrowsIfUnreadable
<1>7. CASE UNCHANGED patternVars
  <2>1. Bad' <=> Bad
    BY <1>7 DEF Bad, BadIn
  <2>2. CutAt(i) => CutAt(i)'
    BY <1>7, SamePattern
  <2> QED
    BY <1>7, <1>p, <2>1, <2>2, SamePattern DEF Judged, ThrowsIfUnreadable
<1> QED
  BY <1>1, <1>2, <1>3, <1>4, <1>5, <1>6, <1>7 DEF PatternNext

-----------------------------------------------------------------------------
(* What vec holds.                                                         *)

(* One token more.                                                         *)
LEMMA PlaceAppend ==
  ASSUME Types, NEW tokens \in Seq(TokenSet), NEW token \in TokenSet,
         NEW p \in 1 .. Len(pattern) + 1, NEW q \in 1 .. Len(pattern) + 1,
         Place(tokens, p), Spelled(p, q, token)
  PROVE  Place(Append(tokens, token), q)
<1> HIDE DEF TokenSet
<1> DEFINE N == Len(tokens)
<1>1. /\ N \in Nat /\ Len(Append(tokens, token)) = N + 1
      /\ \A k \in 1 .. N : Append(tokens, token)[k] = tokens[k]
      /\ Append(tokens, token)[N + 1] = token
  BY AppendProperties, LenProperties
<1> HIDE DEF N
<1>2. PICK at \in [1 .. N + 1 -> 1 .. Len(pattern) + 1] :
        /\ at[1] = 1 /\ at[N + 1] = p
        /\ \A k \in 1 .. N : Spelled(at[k], at[k + 1], tokens[k])
  BY DEF Place, N
<1> DEFINE at2 == [k \in 1 .. N + 2 |-> IF k = N + 2 THEN q ELSE at[k]]
<1>3. at2 \in [1 .. N + 2 -> 1 .. Len(pattern) + 1]
  BY <1>1, <1>2
<1>4. at2[1] = 1 /\ at2[N + 2] = q
  BY <1>1, <1>2
<1>5. ASSUME NEW k \in 1 .. N + 1
      PROVE  Spelled(at2[k], at2[k + 1], Append(tokens, token)[k])
  <2>1. CASE k = N + 1
    <3>1. at2[k] = p /\ at2[k + 1] = q
      BY <2>1, <1>1, <1>2
    <3> QED
      BY <3>1, <2>1, <1>1
  <2>2. CASE k \in 1 .. N
    <3>1. at2[k] = at[k] /\ at2[k + 1] = at[k + 1]
      BY <2>2, <1>1
    <3> QED
      BY <3>1, <2>2, <1>1, <1>2
  <2> QED
    BY <2>1, <2>2, <1>1
<1> HIDE DEF at2
<1>6. N + 1 + 1 = N + 2
  BY <1>1
<1> QED
  BY <1>1, <1>3, <1>4, <1>5, <1>6 DEF Place

(* With the plain text in vec, the tokens spell the pattern up to the      *)
(* outer index.                                                            *)
LEMMA FlushedPlace ==
  ASSUME Types, NEW p \in 1 .. i, Place(vec, p), nstr = SubSeq(pattern, p, i - 1)
  PROVE  Place(Flushed, i)
<1> HIDE DEF Char, TokenSet
<1>0. /\ Len(pattern) \in Nat /\ i \in 1 .. Len(pattern) + 1
      /\ p \in Nat \ {0} /\ i - 1 \in Int
  BY Positions DEF Types
<1>1. Len(nstr) = i - p
  BY <1>0, Parts
<1>2. CASE nstr = <<>>
  <2>1. p = i
    BY <1>0, <1>1, <1>2
  <2> QED
    BY <2>1, <1>2 DEF Flushed
<1>3. CASE nstr # <<>>
  <2>1. Spelled(p, i, Text(nstr))
    BY DEF Spelled, Text
  <2>2. p \in 1 .. Len(pattern) + 1
    BY <1>0
  <2> QED
    BY <2>1, <2>2, <1>0, <1>3, PlaceAppend, TextTypes DEF Flushed, Types
<1> QED
  BY <1>2, <1>3

(* Two texts are next to each other only if a text is put behind one.      *)
LEMMA MergedAppend ==
  ASSUME NEW tokens \in Seq(TokenSet), NEW token \in TokenSet, Merged(tokens),
         tokens = <<>> \/ tokens[Len(tokens)].spec \/ token.spec
  PROVE  /\ Merged(Append(tokens, token))
         /\ Append(tokens, token)[Len(Append(tokens, token))] = token
<1> HIDE DEF TokenSet
<1>1. /\ Len(tokens) \in Nat /\ Len(Append(tokens, token)) = Len(tokens) + 1
      /\ \A k \in 1 .. Len(tokens) : Append(tokens, token)[k] = tokens[k]
      /\ Append(tokens, token)[Len(tokens) + 1] = token
      /\ tokens = <<>> => Len(tokens) = 0
  BY AppendProperties, LenProperties
<1>2. ASSUME NEW k \in 1 .. Len(tokens)
      PROVE  Append(tokens, token)[k].spec \/ Append(tokens, token)[k + 1].spec
  <2>1. CASE k = Len(tokens)
    BY <2>1, <1>1
  <2>2. CASE k \in 1 .. Len(tokens) - 1
    BY <2>2, <1>1 DEF Merged
  <2> QED
    BY <2>1, <2>2, <1>1
<1> QED
  BY <1>1, <1>2 DEF Merged

(* The plain text is put behind a specifier or at the start.               *)
LEMMA MergedFlushed ==
  ASSUME Types, Merged(vec), vec = <<>> \/ vec[Len(vec)].spec
  PROVE  /\ Merged(Flushed)
         /\ \A s \in Seq(Char), f \in Seq(Char) :
              LET tokens == Append(Flushed, Specifier(s, f)) IN
              Merged(tokens) /\ tokens[Len(tokens)].spec
<1> HIDE DEF Char, TokenSet
<1>1. Merged(Flushed)
  BY MergedAppend, TextTypes DEF Flushed, Types
<1>2. \A s, f : Specifier(s, f).spec
  BY DEF Specifier
<1> QED
  BY <1>1, <1>2, MergedAppend, TextTypes, FlushedType

(* A complete specifier is what stands in the pattern from its "%" up to   *)
(* n: the sign, the name, and the format in its braces.                    *)
LEMMA TokenSpelled ==
  ASSUME Types, Reading, Found, phase = "token", fmt_status = 0
  PROVE  Spelled(i, n, Specifier(str, fmt))
<1> HIDE DEF Char, TokenSet
<1>0. /\ Len(pattern) \in Nat /\ i \in 1 .. Len(pattern)
      /\ n \in i + 1 .. Len(pattern) + 1
      /\ pattern[i] = Percent /\ pattern \in Seq(Char)
  BY Positions DEF Types, Reading
<1>1. \A b \in i .. Len(pattern) :
        SubSeq(pattern, i, b) = <<Percent>> \o SubSeq(pattern, i + 1, b)
  BY <1>0, SubSeqRecursiveFirst
<1>2. CASE Bare
  <2>1. SubSeq(pattern, i, n - 1) = <<Percent>> \o str
    <3>1. n - 1 \in i .. Len(pattern)
      BY <1>0
    <3> QED
      BY <3>1, <1>1, <1>2 DEF Bare, Name
  <2> QED
    BY <2>1, <1>2 DEF Spelled, Specifier, Bare
<1>3. CASE \E b \in i + 1 .. n - 1 : Braced(b)
  <2>0. PICK b \in i + 1 .. n - 1 : Braced(b)
    BY <1>3
  <2>1. /\ b \in i + 1 .. n - 2 /\ pattern[b] = LeftBrace /\ pattern[n - 1] = RightBrace
        /\ str = SubSeq(pattern, i + 1, b - 1) /\ fmt = SubSeq(pattern, b + 1, n - 2)
    BY <1>0, <2>0 DEF Braced, NameBefore, Name
  <2>2. SubSeq(pattern, i, b - 1) = <<Percent>> \o str
    <3>1. b - 1 \in i .. Len(pattern)
      BY <1>0, <2>1
    <3> QED
      BY <3>1, <1>1, <2>1
  <2>3. SubSeq(pattern, i, b) = SubSeq(pattern, i, b - 1) \o <<LeftBrace>>
    <3>1. b \in i .. Len(pattern)
      BY <1>0, <2>1
    <3> QED
      BY <3>1, <1>0, <2>1, SubSeqRecursiveSecond
  <2>4. SubSeq(pattern, i, n - 2) = SubSeq(pattern, i, b) \o fmt
    <3>1. /\ i \in 1 .. Len(pattern) + 1 /\ b \in i - 1 .. Len(pattern)
          /\ n - 2 \in b .. Len(pattern)
      BY <1>0, <2>1
    <3> QED
      BY <3>1, <1>0, <2>1, ConcatAdjacentSubSeq
  <2>5. SubSeq(pattern, i, n - 1) = SubSeq(pattern, i, n - 2) \o <<RightBrace>>
    <3>1. n - 1 \in i .. Len(pattern) /\ n - 1 - 1 = n - 2
      BY <1>0, <2>1
    <3>2. SubSeq(pattern, i, n - 1) =
            SubSeq(pattern, i, n - 1 - 1) \o <<pattern[n - 1]>>
      BY <3>1, <1>0, SubSeqRecursiveSecond
    <3> QED
      BY <3>1, <3>2, <2>1
  <2> QED
    BY <2>2, <2>3, <2>4, <2>5 DEF Spelled, Specifier
<1> QED
  BY <1>2, <1>3 DEF Found, Unclosed

(* A step that keeps the pattern.                                          *)
LEMMA SamePlace ==
  ASSUME UNCHANGED pattern
  PROVE  /\ \A p : Place(vec', p) => Place(vec, p)'
         /\ Place(vec', Len(pattern) + 1) => Place(vec, Len(pattern) + 1)'
         /\ Merged(vec') => Merged(vec)'
<1>1. Merged(vec') => Merged(vec)'
  BY Zenon DEF Merged
<1>2. ASSUME NEW p, Place(vec', p) PROVE Place(vec, p)'
  <2>1. PICK at \in [1 .. Len(vec') + 1 -> 1 .. Len(pattern) + 1] :
          /\ at[1] = 1 /\ at[Len(vec') + 1] = p
          /\ \A k \in 1 .. Len(vec') : Spelled(at[k], at[k + 1], vec'[k])
    BY <1>2 DEF Place
  <2>2. ASSUME NEW k \in 1 .. Len(vec') PROVE Spelled(at[k], at[k + 1], vec[k])'
    <3>1. Spelled(at[k], at[k + 1], vec'[k])
      BY <2>1
    <3> QED
      BY <3>1, Zenon DEF Spelled
  <2> QED
    BY <2>1, <2>2, Zenon DEF Place
<1>3. Place(vec', Len(pattern) + 1) => Place(vec, Len(pattern) + 1)'
  BY <1>2, Zenon DEF Place
<1> QED
  BY <1>1, <1>2, <1>3

(* No token spells the pattern up to its start.                            *)
LEMMA InitCollected == PatternInit => Collected
<1> SUFFICES ASSUME PatternInit PROVE Collected
  OBVIOUS
<1>0. vec = <<>> /\ nstr = <<>> /\ i = 1 /\ phase = "for" /\ Len(vec) = 0
  BY DEF PatternInit
<1>1. Len(pattern) \in Nat
  BY InitTypes, Positions
<1>2. Place(vec, 1)
  <2> DEFINE at == [k \in 1 .. 1 |-> 1]
  <2>1. /\ at \in [1 .. Len(vec) + 1 -> 1 .. Len(pattern) + 1]
        /\ at[1] = 1 /\ at[Len(vec) + 1] = 1
    BY <1>0, <1>1
  <2>2. 1 .. Len(vec) = {}
    BY <1>0
  <2> HIDE DEF at
  <2> QED
    BY <2>1, <2>2, Zenon DEF Place
<1>3. nstr = SubSeq(pattern, 1, i - 1)
  BY <1>0, SubSeqEmpty
<1> QED
  BY <1>0, <1>2, <1>3 DEF Collected, Merged

(* Every step keeps what vec and nstr hold.                                *)
LEMMA NextCollected ==
  ASSUME Types, Reading, Found, Collected, [PatternNext]_patternVars PROVE Collected'
<1> USE DEF specVars, outVars, patternVars
<1> HIDE DEF Char, TokenSet
<1>0. /\ Len(pattern) \in Nat /\ i \in Nat /\ i \in 1 .. Len(pattern) + 1
      /\ pattern \in Seq(Char)
  BY Positions DEF Types
<1>p. UNCHANGED pattern
  BY DEF PatternNext, Literal, Begin, ForEnds, NameEnds, OpenBrace, CloseBrace, Advance,
     WhileEnds,
         Token, Unterminated, Items
<1>s. ASSUME phase' \in {"for", "while", "token"}, ~error' => Merged(vec'),
             ~error' => vec' = <<>> \/ vec'[Len(vec')].spec,
             ~error' => \E p \in 1 .. i' :
                           Place(vec', p) /\ nstr' = SubSeq(pattern, p, i' - 1)
      PROVE  Collected'
  BY <1>s, <1>p, SamePlace DEF Collected
<1>1. ASSUME Literal PROVE Collected'
  <2>1. /\ phase = "for" /\ phase' = "for" /\ vec' = vec /\ error' = error /\ i' = i + 1
        /\ nstr' = Append(nstr, pattern[i]) /\ i \in 1 .. Len(pattern)
    BY <1>1, <1>0 DEF Literal, InFor
  <2>2. ASSUME NEW p \in 1 .. i, nstr = SubSeq(pattern, p, i - 1)
        PROVE  nstr' = SubSeq(pattern, p, i' - 1)
    <3>1. p \in 1 .. Len(pattern) /\ i \in p .. Len(pattern) /\ i' - 1 = i
      BY <2>1, <1>0
    <3>2. SubSeq(pattern, p, i) = SubSeq(pattern, p, i - 1) \o <<pattern[i]>>
      BY <3>1, <1>0, SubSeqRecursiveSecond
    <3>3. pattern[i] \in Char /\ nstr \in Seq(Char)
      BY <2>1, Positions DEF Types
    <3> QED
      BY <3>1, <3>2, <3>3, <2>1, <2>2, AppendIsConcat
  <2>3. \A p \in 1 .. i : p \in 1 .. i'
    BY <2>1
  <2> QED
    BY <2>1, <2>2, <2>3, <1>s DEF Collected
<1>2. ASSUME Begin \/ NameEnds \/ OpenBrace \/ CloseBrace \/ Advance \/ WhileEnds
      PROVE  Collected'
  <2>1. /\ i' = i /\ phase \in {"for", "while"} /\ phase' \in {"while", "token"}
        /\ vec' = vec /\ error' = error /\ nstr' = nstr
    BY <1>2 DEF Begin, NameEnds, OpenBrace, CloseBrace, Advance, WhileEnds, InFor,
       InWhile
  <2> QED
    BY <2>1, <1>s DEF Collected
<1>3. ASSUME ForEnds PROVE Collected'
  <2>1. /\ phase = "for" /\ phase' = "items" /\ vec' = Flushed /\ error' = error
        /\ i = Len(pattern) + 1
    BY <1>3, <1>0 DEF ForEnds
  <2>2. ~error => Merged(vec') /\ Place(vec', Len(pattern) + 1)
    BY <2>1, FlushedPlace, MergedFlushed DEF Collected
  <2> QED
    BY <2>1, <2>2, <1>p, SamePlace DEF Collected
<1>4. ASSUME Token PROVE Collected'
  <2>1. /\ i' = n /\ phase' = "for" /\ vec' = Append(Flushed, Specifier(str, fmt))
        /\ error' = error /\ fmt_status = 0 /\ phase = "token" /\ nstr' = <<>>
    BY <1>4 DEF Token
  <2>2. n \in 1 .. Len(pattern) + 1 /\ str \in Seq(Char) /\ fmt \in Seq(Char)
    BY DEF Types
  <2>3. nstr' = SubSeq(pattern, n, i' - 1) /\ n \in 1 .. i'
    BY <2>1, <2>2, SubSeqEmpty
  <2>4. ASSUME ~error PROVE Place(vec', n)
    <3>1. Place(Flushed, i)
      BY <2>1, <2>4, FlushedPlace DEF Collected
    <3> QED
      BY <3>1, <2>1, <2>2, <1>0, PlaceAppend, TokenSpelled, TextTypes, FlushedType
  <2>5. ~error => Merged(vec') /\ vec'[Len(vec')].spec
    BY <2>1, <2>2, MergedFlushed DEF Collected
  <2> QED
    BY <2>1, <2>3, <2>4, <2>5, <1>s
<1>5. ASSUME Unterminated PROVE Collected'
  BY <1>5 DEF Unterminated, Collected
<1>6. ASSUME Items PROVE Collected'
  <2>1. /\ phase = "items" /\ phase' \in {"valid", "thrown"} /\ vec' = vec
        /\ error => error'
        /\ phase' = "valid" => ~error'
    BY <1>6 DEF Items
  <2>2. ~error' => Merged(vec') /\ Place(vec', Len(pattern) + 1)
    BY <2>1 DEF Collected
  <2> QED
    BY <2>1, <2>2, <1>p, SamePlace DEF Collected
<1>7. CASE UNCHANGED patternVars
  BY <1>7, SamePlace DEF Collected
<1> QED
  BY <1>1, <1>2, <1>3, <1>4, <1>5, <1>6, <1>7 DEF PatternNext

-----------------------------------------------------------------------------
(* The theorems.                                                           *)

(* The invariant holds initially.                                          *)
LEMMA InitInv == PatternInit => Inv
  BY InitTypes, InitReading, InitJudged, InitCollected DEF Inv

(* The invariant is inductive.                                             *)
LEMMA NextInv == Inv /\ [PatternNext]_patternVars => Inv'
  BY NextTypes, NextReading, NextScanned, NextFound, NextJudged, NextCollected DEF Inv

(* The invariant holds in every reachable state.                           *)
LEMMA InvCorrect == PatternSpec => []Inv
  BY InitInv, NextInv, PTL DEF PatternSpec

(* Every variable keeps its type; the two indices and fmt_begin never      *)
(* leave the pattern by more than one.                                     *)
THEOREM TypeCorrect == PatternSpec => []Types
<1>1. Inv => Types
  BY DEF Inv
<1> QED
  BY <1>1, InvCorrect, PTL

(* initPattern throws for exactly the patterns that have an unknown or an  *)
(* empty name or an open brace, whatever the pattern.                      *)
THEOREM ThrowsIfUnreadableCorrect == PatternSpec => []ThrowsIfUnreadable
<1>1. Inv => ThrowsIfUnreadable
  BY DEF Inv, Judged
<1> QED
  BY <1>1, InvCorrect, PTL

(* Every character of an accepted pattern is in one token, in its order,   *)
(* and no two texts are next to each other.                                *)
THEOREM NothingDroppedCorrect == PatternSpec => []NothingDropped
<1>1. Inv => NothingDropped
  <2> SUFFICES ASSUME Inv, phase = "valid" PROVE NothingDropped
    BY DEF NothingDropped
  <2> QED
    BY DEF Inv, Collected, NothingDropped, Place, Merged
<1> QED
  BY <1>1, InvCorrect, PTL

(* No loop turns on the spot: every step moves the outer index on, or else *)
(* the stage, or else the inner index. As these are bounded, the loops end *)
(* after finitely many steps.                                              *)
THEOREM LoopsAdvanceCorrect == PatternSpec => LoopsAdvance
<1> DEFINE Forward ==
             i' > i \/ (i' = i /\ (Stage' > Stage \/ (Stage' = Stage /\ n' > n)))
<1>1. ASSUME Inv, [PatternNext]_patternVars PROVE [Forward]_patternVars
  <2>0. Len(pattern) \in Nat /\ i \in Nat /\ n \in Nat
    BY <1>1, Positions DEF Inv, Types
  <2>1. ASSUME Literal \/ Unterminated PROVE Forward
    BY <2>1, <2>0 DEF Literal, Unterminated
  <2>2. ASSUME Begin \/ ForEnds \/ NameEnds \/ CloseBrace \/ WhileEnds \/ Items
        PROVE  Forward
    BY <2>2 DEF Begin, ForEnds, NameEnds, CloseBrace, WhileEnds, Items, InFor,
       InWhile, Stage
  <2>3. ASSUME OpenBrace \/ Advance PROVE Forward
    BY <2>3, <2>0 DEF OpenBrace, Advance, InWhile, Stage
  <2>4. ASSUME Token PROVE Forward
    BY <1>1, <2>4, <2>0 DEF Token, Inv, Reading
  <2> QED
    BY <1>1, <2>1, <2>2, <2>3, <2>4 DEF PatternNext
<1> QED
  BY <1>1, InvCorrect, PTL DEF PatternSpec, LoopsAdvance

=============================================================================
