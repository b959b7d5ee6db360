------------------------------- MODULE Reader -------------------------------
(***************************************************************************)
(* What every Reader promises (src/Reader.h): read(buf, count, offset)     *)
(* either fails, or fills buf with the bytes of the reader's contents that *)
(* start at offset, clamped to length().  The contents never change: a     *)
(* disk image is only ever read.                                           *)
(*                                                                         *)
(* Calls nest: a reader may call the readers below it before it answers,   *)
(* and an error it does not catch fails its caller too.  The contents are  *)
(* symbolic: the byte at position p of reader t is <<t, p>>.               *)
(***************************************************************************)
EXTENDS Integers, Sequences

CONSTANTS
  Tags,       \* the readers
  Length,     \* what length() of each reader returns
  Offsets,    \* the offsets and
  Counts      \* the counts that are asked for

VARIABLE calls  \* the calls that have not returned, the innermost last

Byte(t, p) == <<t, p>>

\* How many bytes a read of n bytes at offset has to deliver.
Clamped(t, offset, n) ==
  IF offset >= Length[t] THEN 0
  ELSE IF offset + n > Length[t] THEN Length[t] - offset ELSE n

\* The bytes it has to deliver.
Slice(t, offset, n) ==
  [i \in 0 .. Clamped(t, offset, n) - 1 |-> Byte(t, offset + i)]

Nothing == [i \in {} |-> 0]

Innermost == calls[Len(calls)]

Running == calls # <<>> /\ Innermost.status = "running"

Init == calls = <<>>

\* A call: what it asks for, how far it is, and what it has delivered.
CallWith(t, offset, n, status, bytes) ==
  [tag |-> t, offset |-> offset, count |-> n, status |-> status, bytes |-> bytes]

Call(t, offset, n) ==
  /\ calls = <<>> \/ Running
  /\ calls' = Append(calls, CallWith(t, offset, n, "running", Nothing))

Answer ==
  /\ Running
  /\ LET c == Innermost IN
     calls' = [calls EXCEPT ![Len(calls)] =
                 CallWith(c.tag, c.offset, c.count, "answered", Slice(c.tag, c.offset, c.count))]

Fail ==
  /\ Running
  /\ calls' = [calls EXCEPT ![Len(calls)].status = "failed"]

Return ==
  /\ calls # <<>> /\ Innermost.status = "answered"
  /\ calls' = SubSeq(calls, 1, Len(calls) - 1)

\* The error goes to the caller, if that is a reader too.
Raise ==
  /\ calls # <<>> /\ Innermost.status = "failed"
  /\ calls' = LET outer == Len(calls) - 1
                  left  == SubSeq(calls, 1, outer)
              IN  IF outer = 0 THEN left ELSE [left EXCEPT ![outer].status = "failed"]

Progress == Answer \/ Fail \/ Return \/ Raise

Next ==
  \/ \E t \in Tags, offset \in Offsets, n \in Counts : Call(t, offset, n)
  \/ Progress

\* What the calls of a reader may do, and that every call ends.
SafeSpec == Init /\ [][Next]_calls

Spec == SafeSpec /\ WF_calls(Progress)
=============================================================================
