----------------------------- MODULE TextEdits -----------------------------
(***************************************************************************)
(* The text of one open document on its two sides: the editor, which keeps *)
(* its own copy and counts columns in UTF-16 units, and the server's rope, *)
(* which counts characters, and tells tree-sitter of every change in bytes *)
(* and in points (row and byte column).                                    *)
(*                                                                         *)
(* A text is a sequence of characters, and a character is what it          *)
(* measures. Offsets count from zero, as in the code: offset i lies before *)
(* character i + 1 of the sequence. The only line break is the newline.    *)
(***************************************************************************)
EXTENDS Integers, Sequences, SequencesExt, FiniteSetsExt

CONSTANTS
  Chars,      \* the characters
  Units,      \* [Chars -> 1..2]: UTF-16 units of each
  Bytes,      \* [Chars -> 1..4]: UTF-8 bytes of each
  Newline,    \* the character that ends a line
  Colon,      \* the character that marks a keyword
  Ident,      \* the characters of a symbol's name: is_clj_ident_char
  MaxLen,     \* bound: characters in a text
  MaxInsert   \* bound: characters in the text of a change

ASSUME EditAssumption ==
  /\ Units \in [Chars -> 1..2] /\ Bytes \in [Chars -> 1..4]
  /\ {Newline, Colon} \subseteq Chars /\ Ident \subseteq Chars \ {Newline, Colon}
  /\ \A c \in {Newline, Colon} : Units[c] = 1 /\ Bytes[c] = 1
  /\ MaxLen \in Nat /\ MaxInsert \in Nat

VARIABLES
  buffer,  \* the editor's copy
  text,    \* the server's: the rope
  edit     \* the InputEdit the tree was last told of, or NoEdit

textVars == <<buffer, text, edit>>

NoEdit == [start_byte |-> -1]

Before(t, i) == SubSeq(t, 1, i)
After(t, i)  == SubSeq(t, i + 1, Len(t))

\* What the characters before each offset of a text measure together, and what
\* all of them do. (A function, where a fold would do, for the proofs' sake.)
Sums(t, M) ==
  LET sum[i \in 0..Len(t)] == IF i = 0 THEN 0 ELSE sum[i - 1] + M[t[i]]
  IN  sum
Total(t, M) == Sums(t, M)[Len(t)]

Breaks      == [c \in Chars |-> IF c = Newline THEN 1 ELSE 0]
Newlines(t) == Total(t, Breaks)

\* rope.remove and rope.insert, and what the editor does to its copy.
Splice(t, s, e, new) == Before(t, s) \o new \o After(t, e)

-----------------------------------------------------------------------------
(* The rope. *)

\* line_to_char: where a line begins; the text's end for the line after the last.
LineToChar(t, line) ==
  Min({i \in 0..Len(t) : Newlines(Before(t, i)) = line} \cup {Len(t)})

\* rope.line: the characters of a line, the newline that ends it among them.
Line(t, line) == SubSeq(t, LineToChar(t, line) + 1, LineToChar(t, line + 1))

\* Variant: a column counts characters.
CountChars(line, col) == Min({col, Len(line)})

\* utf16_col_to_char: the first offset at or past the column, or the line's end.
Utf16ColToChar(line, col) ==
  Min({i \in 0..Len(line) : Total(Before(line, i), Units) >= col} \cup {Len(line)})

\* char_col_to_utf16.
CharColToUtf16(line, col) == Total(Before(line, Min({col, Len(line)})), Units)

\* position_to_char, of a line the text has.
PositionToChar(t, pos) ==
  LineToChar(t, pos.line) + Utf16ColToChar(Line(t, pos.line), pos.character)

CharToByte(t, i) == Total(Before(t, i), Bytes)

\* byte_to_point, of the byte a character begins.
Point(t, i) ==
  LET row == Newlines(Before(t, i))
  IN  [row |-> row, column |-> CharToByte(t, i) - CharToByte(t, LineToChar(t, row))]

\* Variant: the column of the new end starts over in every insertion.
NewEndFromZero(start, new) ==
  [row |-> start.row + Newlines(new), column |-> Total(new, Bytes)]

\* Where an insertion at a point ends, walking the inserted text alone.
NewEnd(start, new) ==
  LET ends == {i \in DOMAIN new : new[i] = Newline}
  IN  [row    |-> start.row + Newlines(new),
       column |-> IF ends = {} THEN start.column + Total(new, Bytes)
                               ELSE Total(After(new, Max(ends)), Bytes)]

\* input_edit: the replacement of s..e by new, against the text before it.
InputEdit(t, s, e, new) ==
  [start_byte       |-> CharToByte(t, s),
   old_end_byte     |-> CharToByte(t, e),
   new_end_byte     |-> CharToByte(t, s) + Total(new, Bytes),
   start_position   |-> Point(t, s),
   old_end_position |-> Point(t, e),
   new_end_position |-> NewEnd(Point(t, s), new)]

-----------------------------------------------------------------------------
(* The keyword under the cursor, and the range a completion replaces. *)

\* The run of name characters of a line around a column: first and last offset.
IdentStart(line, col) ==
  Min({i \in 0..col : \A k \in (i + 1)..col : line[k] \in Ident})
IdentEnd(line, col) ==
  Max({i \in col..Len(line) : \A k \in (col + 1)..i : line[k] \in Ident})

NoKeyword == [start |-> -1]

\* keyword_at: the token from its colons to its end, as the editor counts.
KeywordAt(t, pos) ==
  LET line   == Line(t, pos.line)
      col    == Utf16ColToChar(line, pos.character)
      start  == IdentStart(line, col)
      marker == IF start > 1 /\ line[start - 1] = Colon THEN start - 2 ELSE start - 1
      At(c)  == [line |-> pos.line, character |-> CharColToUtf16(line, c)]
  IN  IF start = 0 \/ line[start] # Colon THEN NoKeyword
      ELSE [start |-> At(marker), end |-> At(IdentEnd(line, col))]

-----------------------------------------------------------------------------
(* The editor: it names an offset of its copy by line and UTF-16 column. *)

EditorPosition(t, i) ==
  LET line == Newlines(Before(t, i))
      from == Max({k \in 0..i : k = 0 \/ t[k] = Newline})
  IN  [line |-> line, character |-> Total(SubSeq(t, from + 1, i), Units)]

Buffers == UNION {[1..n -> Chars] : n \in 0..MaxLen}

\* didOpen.
EditInit ==
  /\ buffer \in Buffers
  /\ text = buffer
  /\ edit = NoEdit

\* One change of a didChange: the editor replaces s..e of its copy and says
\* which range that was; the server finds the range in its rope.
Replace(s, e, new) ==
  /\ Len(buffer) - (e - s) + Len(new) <= MaxLen
  /\ LET start == PositionToChar(text, EditorPosition(buffer, s))
         end   == PositionToChar(text, EditorPosition(buffer, e))
     IN  /\ text' = Splice(text, start, end, new)
         /\ edit' = InputEdit(text, start, end, new)
  /\ buffer' = Splice(buffer, s, e, new)

\* A change without a range carries the whole text, and drops the tree.
ReplaceText(new) ==
  /\ buffer' = new
  /\ text' = new
  /\ edit' = NoEdit

Insertions == UNION {[1..n -> Chars] : n \in 0..MaxInsert}

EditNext ==
  \/ \E e \in 0..Len(buffer) : \E s \in 0..e, new \in Insertions : Replace(s, e, new)
  \/ \E new \in Insertions : ReplaceText(new)

EditSpec == EditInit /\ [][EditNext]_textVars

-----------------------------------------------------------------------------
(* Properties. *)

\* However columns are counted on either side, the rope is the editor's copy
\* after every change (position_to_char, utf16_col_to_char, apply_changes).
InStep == text = buffer

\* What the tree is told of a change is what the change did: read in the old
\* text and in the new one, its bytes and points delimit the replaced span,
\* and all around the span is as it was. A wrong point leaves the incremental
\* reparse with a tree that disagrees with the text (input_edit).
TreeEditIsExact ==
  [][edit' # NoEdit =>
       \E e \in 0..Len(text), n \in 0..Len(text') : \E s \in 0..Min({e, n}) :
         /\ Before(text, s) = Before(text', s) /\ After(text, e) = After(text', n)
         /\ edit' = [start_byte       |-> CharToByte(text, s),
                     old_end_byte     |-> CharToByte(text, e),
                     new_end_byte     |-> CharToByte(text', n),
                     start_position   |-> Point(text, s),
                     old_end_position |-> Point(text, e),
                     new_end_position |-> Point(text', n)]]_textVars

\* The range handed back for a keyword covers, in the editor's copy, the run of
\* colons and name characters around the cursor and nothing else (keyword_at,
\* char_col_to_utf16): an accepted completion replaces just the keyword.
KeywordRangeComesBack ==
  \A i \in 0..Len(buffer) :
    LET found == KeywordAt(text, EditorPosition(buffer, i))
    IN  found # NoKeyword =>
          \E s \in 0..i, e \in i..Len(buffer) :
            /\ EditorPosition(buffer, s) = found.start
            /\ EditorPosition(buffer, e) = found.end
            /\ buffer[s + 1] = Colon
            /\ \A k \in (s + 2)..e : buffer[k] \in Ident \/ (k = s + 2 /\ buffer[k] = Colon)
            /\ e < Len(buffer) => buffer[e + 1] \notin Ident

\* Positions mean the same on both sides, those that come in and those that go
\* out, whatever is typed where.
PositionsAgree == InStep /\ KeywordRangeComesBack
=============================================================================
