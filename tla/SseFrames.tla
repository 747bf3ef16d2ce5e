------------------------------ MODULE SseFrames ------------------------------
(***************************************************************************)
(* api/sse.ts: the frames the page reads from the chunks of a stream.      *)
(*                                                                         *)
(* Text is a sequence of pieces: the field names "data:" and "event:", a   *)
(* colon, a line's other text, and the two characters that end lines.      *)
(* Where a chunk cuts a piece in two does not matter: the reader only      *)
(* concatenates.  The blank after a colon is left out.                     *)
(***************************************************************************)
EXTENDS Integers, Sequences, FiniteSets, SequencesExt

CR == "\r"
LF == "\n"

(* text.split(/\r\n|\r|\n/), the last line kept in rest. *)
NextPiece(acc, text, i) ==
  IF text[i] = LF /\ i > 1 /\ text[i - 1] = CR THEN acc
  ELSE IF text[i] \in {CR, LF}
       THEN [lines |-> Append(acc.lines, acc.rest), rest |-> <<>>]
       ELSE [acc EXCEPT !.rest = Append(@, text[i])]

SplitLines(text) ==
  FoldLeft(LAMBDA acc, i : NextPiece(acc, text, i), [lines |-> <<>>, rest |-> <<>>],
           [i \in DOMAIN text |-> i])

(* One line; what a frame gathers is its event's name and its data lines. *)
TakeLine(s, line) ==
  IF line = <<>>
  THEN [s EXCEPT !.frames = IF s.data = <<>> THEN @
                            ELSE Append(@, [event |-> s.event, data |-> s.data]),
                 !.event = <<>>, !.data = <<>>]
  ELSE CASE line[1] = "data:"  -> [s EXCEPT !.data = Append(@, Tail(line))]
         [] line[1] = "event:" -> [s EXCEPT !.event = Tail(line)]
         [] OTHER -> s

TakeLines(s, lines) == FoldLeft(TakeLine, s, lines)

(* A plausible mistake, for a mutant. *)
NeverHeld(text) == <<>>

(* A chunk: a "\r" at its end waits for the next one. *)
Held(text) == IF text # <<>> /\ Last(text) = CR THEN <<CR>> ELSE <<>>

ReadChunk(s, chunk) ==
  LET buffer == s.buffer \o chunk
      held == Held(buffer)
      split == SplitLines(SubSeq(buffer, 1, Len(buffer) - Len(held)))
  IN TakeLines([s EXCEPT !.buffer = split.rest \o held], split.lines)

ReadChunks(s, chunks) == FoldLeft(ReadChunk, s, chunks)

(* The frames of a whole stream; what is unfinished at its end is lost. *)
NothingRead == [buffer |-> <<>>, event |-> <<>>, data |-> <<>>, frames |-> <<>>]
ReadSse(chunks) == ReadChunks(NothingRead, chunks).frames
=============================================================================
