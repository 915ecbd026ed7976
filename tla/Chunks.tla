------------------------------- MODULE Chunks -------------------------------
(***************************************************************************)
(* How long texts are cut: chunk_message of routing/delivery.rs, before    *)
(* the pieces are queued, and chunk_text of frontend/utils.rs, before they *)
(* are posted to Discord.  A text is a sequence of bytes: "a" of a letter, *)
(* "n" of a newline, "h" and "t" the two bytes of a wide character.  Rust  *)
(* panics when a slice of a text ends inside a character.                  *)
(***************************************************************************)
EXTENDS Integers, SequencesExt

Panic == <<"panic">>

\* is_char_boundary, of the offset i.
Boundary(text, i) == i = Len(text) \/ text[i + 1] # "t"

\* The offsets in start..end after which the separator stands, end excluded.
Newlines(text, start, end, n) ==
  {i \in start..(end - n) : \A j \in 1..n : text[i + j] = "n"}

\* chunk_message cuts after the last blank line, or the last newline, or at the limit.
MessageCut(text, start, end) ==
  LET blank == Newlines(text, start, end, 2)
      line == Newlines(text, start, end, 1)
  IN IF blank # {} THEN Max(blank) + 2 ELSE IF line # {} THEN Max(line) + 1 ELSE end

\* chunk_text cuts after the last newline, or at the limit.  The smaller end it means to
\* take inside a character is looked for in a slice that ends there.
TextCut(text, start, end) ==
  LET line == Newlines(text, start, end, 1)
  IN IF line # {} THEN Max(line) + 1 ELSE end

\* The loop of both: pieces up to the cut, until the rest fits.
Cut(text, limit, CutAt(_, _, _)) ==
  LET From[start \in 0..Len(text)] ==
        LET end == start + limit
            cut == CutAt(text, start, end)
        IN IF end >= Len(text) THEN <<SubSeq(text, start + 1, Len(text))>>
           ELSE IF ~Boundary(text, end) THEN <<Panic>>
           ELSE <<SubSeq(text, start + 1, cut)>> \o From[cut]
  IN From[0]

ChunkMessage(text, limit) == Cut(text, limit, MessageCut)
ChunkText(text, limit) == Cut(text, limit, TextCut)

----------------------------------------------------------------------------
\* What both promise: the pieces are the text, none of them empty or too long, none
\* beginning inside a character.
Sound(pieces, text, limit) ==
  /\ FlattenSeq(pieces) = text
  /\ \A i \in DOMAIN pieces :
       /\ Len(pieces[i]) \in 1..limit
       /\ pieces[i][1] # "t"

Texts(n) ==
  {t \in UNION {[1..k -> {"a", "n", "h", "t"}] : k \in 1..n} :
     \A i \in DOMAIN t : /\ t[i] = "t" => i > 1 /\ t[i - 1] = "h"
                         /\ t[i] = "h" => i < Len(t) /\ t[i + 1] = "t"}

\* Over all short texts and small limits: a cut is sound or panics, and only the limit
\* falling inside a wide character makes it panic.
ASSUME CutsSound ==
  \A text \in Texts(6), limit \in 1..3 :
    \A pieces \in {ChunkMessage(text, limit), ChunkText(text, limit)} :
      IF Panic \in Range(pieces) THEN "h" \in Range(text) ELSE Sound(pieces, text, limit)

\* chunk_text is no safer than chunk_message: where it finds no newline, the two panic
\* on the same texts.
ASSUME CutsPanicAlike ==
  \A text \in Texts(6), limit \in 1..3 :
    "n" \notin Range(text) =>
      (Panic \in Range(ChunkText(text, limit)) <=> Panic \in Range(ChunkMessage(text, limit)))
=============================================================================
