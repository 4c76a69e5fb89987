----------------------------- MODULE CvfTalker -----------------------------
(***************************************************************************)
(* cvf-talker.c: standard input is collected in a buffer, cut into H.264   *)
(* NAL units where start codes are found, and sent one unit a PDU.         *)
(***************************************************************************)
EXTENDS StdinTalker

CONSTANTS
  DataLen,      \* DATA_LEN, the longest NAL unit a PDU carries
  BufferSize    \* sizeof(buffer), twice the longest PDU

ASSUME CvfAssumption ==
  /\ DataLen \in Nat \ {0}
  /\ BufferSize \in Nat
  /\ BufferSize > 2 * DataLen

VARIABLES
  buffer,       \* the first buffer_level bytes of it
  at_end        \* end: the last read() returned nothing

cvfVars == <<buffer, at_end>>

CvfInit ==
  /\ buffer = <<>>
  /\ at_end = FALSE

-----------------------------------------------------------------------------

NotFound == -1

\* A defect the model can be run with: a zero is skipped with the bytes before it.
HastyPosition(offset) ==
  LET search[o \in Nat] ==
        IF o >= Len(buffer) - 2 THEN NotFound
        ELSE IF SubSeq(buffer, o + 1, o + 3) = <<0, 0, 1>> THEN o
        ELSE search[o + 3]
  IN search[offset]

\* start_code_position(): the search, three bytes at a time where none of them
\* can begin a start code.  Offsets count from 0.
StartCodePosition(offset) ==
  LET search[o \in Nat] ==
        IF o >= Len(buffer) - 2 THEN NotFound
        ELSE CASE buffer[o + 3] = 0 -> search[o + 1]
               [] buffer[o + 3] = 1 /\ buffer[o + 1] = 0 /\ buffer[o + 2] = 0 -> o
               [] OTHER -> search[o + 3]
  IN search[offset]

\* The search counts to buffer_level - 2, which is unsigned: with a single byte
\* there is no end to it.
SearchHasNoEnd == Len(buffer) = 1

Start == StartCodePosition(0)

NextStart == StartCodePosition(Start + 1)

\* A defect the model can be run with: the last unit is never complete.
NextOnly == NextStart

\* Where process_nal() takes the unit at Start to end, if it knows.
End ==
  IF NextStart = NotFound /\ at_end THEN Len(buffer) ELSE NextStart

\* process_nal() returns PROCESS_NONE.
NoNal == Start = NotFound \/ End = NotFound

Nal == SubSeq(buffer, Start + 1, End)

\* A defect the model can be run with: one byte too many is taken off.
RestTooShort == SubSeq(buffer, End + 2, Len(buffer))

\* memmove() of the rest to the front: what lay before the unit goes with it.
Rest == SubSeq(buffer, End + 1, Len(buffer))

-----------------------------------------------------------------------------

\* A defect the model can be run with: the whole buffer is offered to read().
WholeRoom == BufferSize

\* The room fill_buffer() has for what it reads.
Room == BufferSize - Len(buffer)

\* A defect the model can be run with: a full buffer is not taken for the end.
EndOfInput(n) == n = 0 /\ Len(buffer) < BufferSize

\* main() tells the end of its input by a read() of nothing, which a full buffer
\* brings about as well.
SeesEnd(n) == n = 0

\* fill_buffer()
FillBuffer ==
  /\ stage = "fill"
  /\ \E n \in ReadLengths(Room) :
       /\ buffer' = buffer \o SubSeq(input, 1, n)
       /\ input' = SubSeq(input, n + 1, Len(input))
       /\ at_end' = SeesEnd(n)
  /\ stage' = "cut"
  /\ UNCHANGED <<stream, carried>>

\* fill_buffer() when read() fails: -1 is added to buffer_level all the same.
\* Of an empty buffer that makes one of SIZE_MAX bytes, past whose end the
\* search runs.
FillFails ==
  /\ stage = "fill"
  /\ IF buffer = <<>>
     THEN stage' = "dead" /\ UNCHANGED buffer
     ELSE stage' = "cut" /\ buffer' = Front(buffer)
  /\ at_end' = FALSE
  /\ UNCHANGED <<stream, input, carried>>

\* The inner loop of main() ends: there is nothing to send yet.
Break ==
  /\ stage = "cut"
  /\ ~SearchHasNoEnd
  /\ buffer = <<>> \/ NoNal
  /\ stage' = IF at_end THEN "exit 0" ELSE "fill"
  /\ UNCHANGED <<stream, input, carried, cvfVars>>

\* The search finds a start code that is not there, or nothing it may read: the
\* next call's assertion (cvf-talker.c:188) or the hardware ends the process.
Die ==
  /\ stage = "cut"
  /\ SearchHasNoEnd
  /\ stage' = "dead"
  /\ UNCHANGED <<stream, input, carried, cvfVars>>

CanCut ==
  /\ stage = "cut"
  /\ buffer # <<>>
  /\ ~SearchHasNoEnd
  /\ ~NoNal

\* process_nal() and sendto()
SendNal ==
  /\ CanCut
  /\ Len(Nal) <= DataLen
  /\ carried' = Append(carried, Nal)
  /\ buffer' = Rest
  /\ UNCHANGED <<stream, input, stage, at_end>>

\* process_nal() returns PROCESS_ERROR.
NalTooLong ==
  /\ CanCut
  /\ Len(Nal) > DataLen
  /\ stage' = "exit 1"
  /\ UNCHANGED <<stream, input, carried, cvfVars>>

\* sendto() fails
SendFails ==
  /\ CanCut
  /\ Len(Nal) <= DataLen
  /\ stage' = "exit 1"
  /\ UNCHANGED <<stream, input, carried, cvfVars>>

CvfTypeOK ==
  /\ buffer \in Seq(Byte)
  /\ Len(buffer) <= BufferSize
  /\ at_end \in BOOLEAN

-----------------------------------------------------------------------------
(***************************************************************************)
(* The reference: what the units of a stream are.                          *)
(***************************************************************************)

\* Where s has start codes.
StartCodes(s) ==
  {i \in 1 .. Len(s) - 2 : s[i] = 0 /\ s[i + 1] = 0 /\ s[i + 2] = 1}

\* The unit that begins at i: up to the next start code, or the end.
UnitAt(s, i) ==
  LET later == {j \in StartCodes(s) : j > i}
  IN SubSeq(s, i, IF later = {} THEN Len(s) ELSE Min(later) - 1)

\* The k-th of a set of places.
Nth(places, k) ==
  CHOOSE i \in places : Cardinality({j \in places : j <= i}) = k

\* The units of s, in their order.
UnitsOf(s) ==
  LET starts == StartCodes(s)
  IN [k \in 1 .. Cardinality(starts) |-> UnitAt(s, Nth(starts, k))]

\* The bytes before the first of them.
Preamble(s) ==
  IF StartCodes(s) = {} THEN Len(s) ELSE Min(StartCodes(s)) - 1
=============================================================================
