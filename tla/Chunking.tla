------------------------------ MODULE Chunking ------------------------------
(***************************************************************************)
(* chunkText (chunking.ts): a document's text is cut into overlapping        *)
(* chunks, each end moved back to a paragraph break, a sentence end or a     *)
(* space near the target size.  One step is one turn of its loop.           *)
(*                                                                         *)
(* A text is a sequence over four characters that stand for all: a letter,   *)
(* a space, a sentence's end mark and a newline.  The sizes are a tuning,    *)
(* for the code claims to end however they are set.                        *)
(***************************************************************************)
EXTENDS Naturals, Sequences, FiniteSets, FiniteSetsExt

CONSTANTS Tunings,      \* the target size, overlap and search window
          MaxLength     \* bound: characters of a text

Tuning == [target : Nat \ {0}, overlap : Nat, window : Nat]

ASSUME ChunkingAssumption ==
  /\ Tunings \subseteq Tuning /\ MaxLength \in Nat
  \* As in the code: a cut found in the window is after the chunk's start.
  /\ \A t \in Tunings : t.window < t.target

VARIABLES text, tuning,   \* the inputs
          chunks, cursor, \* what the loop has so far; offsets count from 0, as in the code
          done

chunkVars == <<text, tuning, chunks, cursor, done>>

Chars == {"x", " ", ".", "n"}
Spaces == {" ", "n"}
Chunk == [charStart : 0..MaxLength, charEnd : 0..MaxLength]

\* Character at an offset.
At(i) == text[i + 1]
Offsets == 0..(Len(text) - 1)

\* Where the trimmed text starts and ends.
Letters == {i \in Offsets : At(i) \notin Spaces}
TextStart == Min(Letters)
TextEnd == Max(Letters) + 1

ChunkTypeOK ==
  /\ text \in Seq(Chars) /\ Len(text) <= MaxLength
  /\ tuning \in Tunings
  /\ chunks \in Seq(Chunk)
  /\ cursor \in 0..MaxLength
  /\ done \in BOOLEAN
  \* No chunk is empty.
  /\ \A i \in DOMAIN chunks : chunks[i].charStart < chunks[i].charEnd

ChunkInit ==
  /\ text \in UNION {[1..n -> Chars] : n \in 0..MaxLength}
  /\ tuning \in Tunings
  /\ chunks = <<>> /\ done = FALSE
  /\ cursor = IF Letters = {} THEN 0 ELSE TextStart

-----------------------------------------------------------------------------
\* snapToBoundary(rangeStart, tentativeEnd).  The window is the offsets from its
\* floor to the tentative end.

Latest(breaks) == Max(breaks)

SearchFloor(rangeStart, tentativeEnd) ==
  IF tentativeEnd >= tuning.window THEN Max({rangeStart, tentativeEnd - tuning.window})
  ELSE rangeStart

\* Two newlines.
ParagraphBreaks(lo, hi) == {i \in lo..(hi - 2) : At(i) = "n" /\ At(i + 1) = "n"}

\* An end mark with a space after it.
SentenceMarks(lo, hi) == {i \in lo..(hi - 2) : At(i) = "." /\ At(i + 1) \in Spaces}

\* The dot of the lookahead does not pass a newline: only a sentence end on the
\* rest of the line is seen from p.
SeesAnother(p, hi) ==
  \E j \in SentenceMarks(p, hi) : \A i \in p..(j - 1) : At(i) # "n"

\* The cuts the expression allows after a mark: behind some of its spaces, with no
\* other sentence end in sight.
SentenceCuts(m, hi) ==
  {c \in (m + 2)..hi : /\ \A i \in (m + 1)..(c - 1) : At(i) \in Spaces
                       /\ ~SeesAnother(c, hi)}

\* The first mark that matches, behind as many spaces as it can.
SentenceCut(lo, hi) ==
  Max(SentenceCuts(Min({m \in SentenceMarks(lo, hi) : SentenceCuts(m, hi) # {}}), hi))

BlanksIn(lo, hi) == {i \in lo..(hi - 1) : At(i) = " "}

SnapToBoundary(rangeStart, tentativeEnd) ==
  LET floor == SearchFloor(rangeStart, tentativeEnd)
  IN CASE ParagraphBreaks(floor, tentativeEnd) # {} ->
            Latest(ParagraphBreaks(floor, tentativeEnd))
       [] ParagraphBreaks(floor, tentativeEnd) = {} /\ SentenceMarks(floor, tentativeEnd) # {} ->
            SentenceCut(floor, tentativeEnd)
       [] OTHER -> IF BlanksIn(floor, tentativeEnd) # {}
                   THEN Latest(BlanksIn(floor, tentativeEnd)) + 1 ELSE tentativeEnd

ChunkEnd ==
  LET tentativeEnd == Min({cursor + tuning.target, TextEnd})
  IN IF tentativeEnd = TextEnd THEN TextEnd ELSE SnapToBoundary(cursor, tentativeEnd)

\* Mutant of NextCursor: it goes back by the overlap, whatever comes of it.
NextCursorBack(chunkEnd) == IF chunkEnd >= tuning.overlap THEN chunkEnd - tuning.overlap ELSE 0

\* Always at least one further.
NextCursor(chunkEnd) == Max({cursor + 1} \cup {c \in {chunkEnd - tuning.overlap} : chunkEnd >= tuning.overlap})

\* A text of blanks has no chunks.
NoChunks ==
  /\ ~done /\ Letters = {}
  /\ done' = TRUE /\ UNCHANGED <<text, tuning, chunks, cursor>>

OneChunk ==
  /\ ~done /\ Letters # {} /\ chunks = <<>> /\ TextEnd - TextStart <= tuning.target
  /\ chunks' = <<[charStart |-> TextStart, charEnd |-> TextEnd]>>
  /\ done' = TRUE /\ UNCHANGED <<text, tuning, cursor>>

PushChunk ==
  /\ ~done /\ Letters # {} /\ TextEnd - TextStart > tuning.target
  /\ LET chunkEnd == ChunkEnd
     IN /\ chunks' = Append(chunks, [charStart |-> cursor, charEnd |-> chunkEnd])
        /\ done' = (chunkEnd >= TextEnd)
        /\ cursor' = IF chunkEnd >= TextEnd THEN cursor ELSE NextCursor(chunkEnd)
  /\ UNCHANGED <<text, tuning>>

ChunkNext == NoChunks \/ OneChunk \/ PushChunk

ChunkSpec == ChunkInit /\ [][ChunkNext]_chunkVars

-----------------------------------------------------------------------------
\* Every character of the trimmed text is in a chunk, none outside it is, and
\* the chunks come in order, none starting behind the end of the one before.
ChunksCoverTheText ==
  done /\ Letters # {} =>
    /\ chunks # <<>>
    /\ chunks[1].charStart = TextStart /\ chunks[Len(chunks)].charEnd = TextEnd
    /\ \A i \in 1..(Len(chunks) - 1) :
         /\ chunks[i].charStart < chunks[i + 1].charStart
         /\ chunks[i + 1].charStart <= chunks[i].charEnd

\* A chunk is at most as long as the target; all but the last at least the target
\* less the window, and, with the sizes so tuned, the next repeats the overlap.
ChunksAreSized ==
  \A i \in DOMAIN chunks :
    LET size == chunks[i].charEnd - chunks[i].charStart
    IN /\ size <= tuning.target
       /\ i < Len(chunks) =>
            /\ size >= tuning.target - tuning.window
            /\ tuning.target - tuning.window > tuning.overlap =>
                 chunks[i].charEnd - chunks[i + 1].charStart = tuning.overlap

\* No word is cut if the window has a space or a paragraph break: a cut is behind
\* a space, or at the break.
WordsStayWhole ==
  \A i \in DOMAIN chunks :
    LET cut == chunks[i].charEnd
        hi == chunks[i].charStart + tuning.target
        lo == SearchFloor(chunks[i].charStart, hi)
    IN cut # TextEnd /\ (BlanksIn(lo, hi) # {} \/ ParagraphBreaks(lo, hi) # {}) =>
         At(cut - 1) \in Spaces \/ (At(cut) = "n" /\ At(cut + 1) = "n")

\* However the sizes are tuned the loop ends, with no more chunks than the text has
\* characters; tuned so that the overlap is less than any chunk, with no more than
\* the pieces that are new in each allow.
ChunksAreFew ==
  chunks # <<>> =>
    /\ Len(chunks) <= TextEnd - TextStart
    /\ tuning.target - tuning.window > tuning.overlap =>
         (Len(chunks) - 1) * (tuning.target - tuning.window - tuning.overlap) < TextEnd - TextStart

\* The chunks of a text cover it, in pieces of the promised size, cut between words,
\* and no more of them than the sizes call for.
ChunksAreSound ==
  ChunkTypeOK /\ ChunksCoverTheText /\ ChunksAreSized /\ WordsStayWhole /\ ChunksAreFew
=============================================================================
