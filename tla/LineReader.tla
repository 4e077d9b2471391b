----------------------------- MODULE LineReader -----------------------------
(***************************************************************************)
(* io::LineReader and its detail::AsynchronousReader (Csv.hpp): the lines  *)
(* are cut out of a buffer of three blocks.  The caller's thread works in  *)
(* the first two; a reading thread of its own fills the third one ahead of *)
(* time.  AsynchronousReader's mutex is held for the whole of start_read,  *)
(* finish_read and the read itself, so each of these is one step.          *)
(*                                                                         *)
(* The file does not change while it is read, and a read that comes up     *)
(* short has met its end (external).                                       *)
(***************************************************************************)
EXTENDS Integers, SequencesExt

CONSTANTS block_len,
          Files           \* the contents of the files, as sequences of bytes

\* The bytes of a file; no file has a NUL in it.  What the buffer may hold.
Byte == STRING \ {"NUL", "uninitialized"}
Cell == Byte \cup {"NUL", "uninitialized"}

ASSUME LineReaderAssumption ==
  /\ block_len \in Nat /\ block_len > 1
  /\ Files \subseteq Seq(Byte)

VARIABLES
  file,                   \* the file
  pos,                    \* the number of bytes of it that have been read
  buffer, data_begin, data_end, file_line,
  line,                   \* what next_line has returned to its caller
  pc,                     \* where the caller's thread is in this class
  thread,                 \* where the reading thread is
  desired_byte_count, read_byte_count, termination_requested,
  base                    \* history: the place of buffer[0] in the file

bufferVars == <<buffer, data_begin, data_end, base>>
requestVars == <<desired_byte_count, read_byte_count, termination_requested>>
readerVars == <<file, pos, bufferVars, file_line, line, pc, thread, requestVars>>

-----------------------------------------------------------------------------
NoLine    == [kind |-> "none", text |-> <<>>]
EndOfFile == [kind |-> "eof", text |-> <<>>]
TooLong   == [kind |-> "long", text |-> <<>>]
Line(s)   == [kind |-> "line", text |-> s]

Address == 0..(3 * block_len - 1)

ByteOrderMark == <<"EF", "BB", "BF">>

\* read(buffer + at, n): the number of bytes, and what the buffer holds then.
ReadCount(n) == IF Len(file) - pos < n THEN Len(file) - pos ELSE n

ReadInto(at, n) ==
  [i \in Address |-> IF i \in at..(at + ReadCount(n) - 1)
                       THEN file[pos + 1 + i - at] ELSE buffer[i]]

\* memcpy of one block.
Memcpy(to, from) ==
  [i \in Address |-> IF i \in to..(to + block_len - 1)
                       THEN buffer[i - to + from] ELSE buffer[i]]

ReaderInit ==
  /\ file \in Files
  /\ pos = 0
  /\ buffer = [i \in Address |-> "uninitialized"]
  /\ data_begin = 0 /\ data_end = 0 /\ file_line = 0 /\ base = 0
  /\ line = NoLine
  /\ pc = "init"
  /\ thread = "none"
  /\ desired_byte_count = -1 /\ read_byte_count = -1
  /\ termination_requested = FALSE

-----------------------------------------------------------------------------
(* AsynchronousReader                                                      *)

start_read ==
  /\ desired_byte_count' = block_len
  /\ read_byte_count' = -1
  /\ UNCHANGED termination_requested

\* reader.is_valid()
is_valid == thread # "none"

\* The reading thread does what it is asked for; the end of the file ends it.
ThreadRead ==
  /\ thread = "waiting"
  /\ desired_byte_count # -1 /\ ~termination_requested
  /\ buffer' = ReadInto(2 * block_len, desired_byte_count)
  /\ read_byte_count' = ReadCount(desired_byte_count)
  /\ pos' = pos + ReadCount(desired_byte_count)
  /\ desired_byte_count' = -1
  /\ thread' = IF ReadCount(desired_byte_count) = 0 THEN "ended" ELSE "waiting"
  /\ UNCHANGED <<file, data_begin, data_end, base, file_line, line, pc, termination_requested>>

ThreadEnd ==
  /\ thread = "waiting"
  /\ termination_requested
  /\ thread' = "ended"
  /\ UNCHANGED <<file, pos, bufferVars, file_line, line, pc, requestVars>>

ReadingThread == ThreadRead \/ ThreadEnd

\* Mutant: the thread is not told to end.
JoinOnly ==
  /\ pc = "idle"
  /\ pc' = IF is_valid THEN "join" ELSE "gone"
  /\ UNCHANGED <<file, pos, bufferVars, file_line, line, thread, requestVars>>

\* The destructor.
Destroy ==
  /\ pc = "idle"
  /\ IF is_valid THEN pc' = "join" /\ termination_requested' = TRUE
                 ELSE pc' = "gone" /\ UNCHANGED termination_requested
  /\ UNCHANGED <<file, pos, bufferVars, file_line, line, thread,
                 desired_byte_count, read_byte_count>>

Join ==
  /\ pc = "join"
  /\ thread = "ended"
  /\ pc' = "gone"
  /\ UNCHANGED <<file, pos, bufferVars, file_line, line, thread, requestVars>>

-----------------------------------------------------------------------------
(* LineReader                                                              *)

\* init: two blocks at once; the thread is started if the file may have more.
Construct ==
  /\ pc = "init"
  /\ buffer' = ReadInto(0, 2 * block_len)
  /\ data_end' = ReadCount(2 * block_len)
  /\ pos' = ReadCount(2 * block_len)
  /\ data_begin' = IF data_end' >= 3 /\ \A i \in 1..3 : buffer'[i - 1] = ByteOrderMark[i]
                     THEN 3 ELSE 0
  /\ IF data_end' = 2 * block_len
       THEN start_read /\ thread' = "waiting"
       ELSE UNCHANGED <<requestVars, thread>>
  /\ pc' = "idle"
  /\ UNCHANGED <<file, file_line, line, base>>

\* Mutant: data_end stays where it was.
ShiftBeginOnly ==
  /\ buffer' = Memcpy(0, block_len)
  /\ data_begin' = data_begin - block_len
  /\ base' = base + block_len
  /\ UNCHANGED data_end

\* The first block is used up: the second one takes its place.
Shift ==
  /\ buffer' = Memcpy(0, block_len)
  /\ data_begin' = data_begin - block_len
  /\ data_end' = data_end - block_len
  /\ base' = base + block_len

\* next_line, as far as it needs no data.
NextLine ==
  /\ pc = "idle" /\ line = NoLine
  /\ \/ /\ data_begin = data_end
        /\ line' = EndOfFile
        /\ UNCHANGED <<file_line, bufferVars, pc>>
     \/ /\ data_begin # data_end
        /\ file_line' = file_line + 1
        /\ \/ data_begin < block_len /\ pc' = "scan" /\ UNCHANGED bufferVars
           \/ /\ data_begin >= block_len
              /\ Shift
              /\ pc' = IF is_valid THEN "finish" ELSE "scan"
        /\ UNCHANGED line
  /\ UNCHANGED <<file, pos, thread, requestVars>>

\* Mutant: the next block is asked for before this one is copied.
FinishAndStart ==
  /\ pc = "finish"
  /\ read_byte_count # -1
  /\ data_end' = data_end + read_byte_count
  /\ start_read
  /\ pc' = "copy"
  /\ UNCHANGED <<file, pos, buffer, data_begin, base, file_line, line, thread>>

\* finish_read waits until the thread has read a block.
FinishRead ==
  /\ pc = "finish"
  /\ read_byte_count # -1
  /\ data_end' = data_end + read_byte_count
  /\ pc' = "copy"
  /\ UNCHANGED <<file, pos, buffer, data_begin, base, file_line, line, thread, requestVars>>

\* The third block becomes the second, and the next one is asked for.
CopyBlock ==
  /\ pc = "copy"
  /\ buffer' = Memcpy(block_len, 2 * block_len)
  /\ start_read
  /\ pc' = "scan"
  /\ UNCHANGED <<file, pos, data_begin, data_end, base, file_line, line, thread>>

\* The LF of the line, or the end of the data.
line_end ==
  CHOOSE e \in data_begin..data_end :
    /\ e = data_end \/ buffer[e] = "LF"
    /\ \A i \in data_begin..(e - 1) : buffer[i] # "LF"

\* Mutant: a line may have any length.
AnyLength == FALSE

IsTooLong == line_end - data_begin + 1 > block_len

WithoutCR(s) == IF s # <<>> /\ Last(s) = "CR" THEN Front(s) ELSE s

\* What a C string at data_begin holds, up to the line break.
Text == WithoutCR([i \in 1..(line_end - data_begin) |-> buffer[data_begin + i - 1]])

\* Mutant: the end of the data is not moved for a missing LF.
TerminateInPlace ==
  /\ line' = Line(Text)
  /\ buffer' = [buffer EXCEPT ![line_end] = "NUL"]
  /\ data_begin' = line_end + 1
  /\ UNCHANGED data_end

\* The line break becomes a NUL.  A missing LF at the end of the file lies
\* behind the data.
Terminate ==
  /\ line' = Line(Text)
  /\ buffer' = [buffer EXCEPT ![line_end] = "NUL"]
  /\ data_begin' = line_end + 1
  /\ data_end' = IF line_end = data_end THEN data_end + 1 ELSE data_end

\* The rest of next_line; an over-long line is left where it is.
ScanLine ==
  /\ pc = "scan"
  /\ \/ IsTooLong /\ line' = TooLong /\ UNCHANGED <<buffer, data_begin, data_end>>
     \/ ~IsTooLong /\ Terminate
  /\ pc' = "idle"
  /\ UNCHANGED <<file, pos, base, file_line, thread, requestVars>>

next_line == NextLine \/ FinishRead \/ CopyBlock \/ ScanLine
-----------------------------------------------------------------------------
ReaderTypeOK ==
  /\ file \in Seq(Byte)
  /\ pos \in 0..Len(file)
  /\ buffer \in [Address -> Cell]
  /\ data_begin \in 0..(2 * block_len + 1)
  /\ data_end \in 0..(2 * block_len + 1)
  /\ file_line \in Nat
  /\ line \in [kind : {"none", "eof", "long", "line"}, text : Seq(Cell)]
  /\ pc \in {"init", "idle", "finish", "copy", "scan", "join", "gone"}
  /\ thread \in {"none", "waiting", "ended"}
  /\ desired_byte_count \in {-1, block_len}
  /\ read_byte_count \in -1..block_len
  /\ termination_requested \in BOOLEAN

\* The assertions at the start of next_line (Csv.hpp:453-454).
AssertsHold ==
  pc = "idle" /\ data_begin # data_end =>
    /\ data_begin < data_end
    /\ data_end <= 2 * block_len

\* The two threads share the buffer without a lock (Csv.hpp:456-487): the
\* caller's thread touches nothing of the third block, not even by the NUL
\* behind a line that lacks its LF, unless the reading thread has finished.
BlocksAreDisjoint ==
  /\ pc = "scan" /\ ~IsTooLong => line_end < 2 * block_len
  /\ pc = "copy" => desired_byte_count = -1

\* The lines come out each once and in order, whatever the timing of the
\* reading thread; the last one may lack its LF.
Source == INSTANCE LineSource WITH
            MaxLength <- block_len,
            next <- IF pc = "init"
                      THEN IF IsPrefix(ByteOrderMark, file) THEN 4 ELSE 1
                      ELSE base + data_begin + 1
ReadsLines == Source!Spec
=============================================================================
