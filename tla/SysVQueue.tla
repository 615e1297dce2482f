------------------------------- MODULE SysVQueue ------------------------------
(***************************************************************************)
(* System V message queues, as far as flyGateway depends on them.  The     *)
(* queues live in the kernel and are external to the program; this module  *)
(* is written from the calls the program makes: msgsnd(id, m, n, 0), which *)
(* sleeps while the queue has no room for n more bytes, and msgrcv(id, m,  *)
(* n, 0, flag) without MSG_NOERROR, which takes the oldest message,        *)
(* whatever its type, but fails with E2BIG and leaves the message where it *)
(* is when it is longer than n bytes.                                      *)
(*                                                                         *)
(* A message is a record with at least a field "bytes": the size given to  *)
(* msgsnd, which counts the text of the message and not its mtype.         *)
(***************************************************************************)
EXTENDS Naturals, Sequences

\* The bytes of text a queue holds (msg_cbytes).
QueueBytes(q) ==
    LET bytes[i \in 0..Len(q)] == IF i = 0 THEN 0 ELSE bytes[i - 1] + q[i].bytes
    IN  bytes[Len(q)]

\* msgsnd with flag 0 appends m only when both limits of the queue allow it;
\* qbytes is msg_qbytes (MSGMNB), which bounds the bytes and the messages.
HasRoom(q, m, qbytes) ==
    /\ QueueBytes(q) + m.bytes <= qbytes
    /\ Len(q) < qbytes

\* msgrcv with type 0 and a buffer of n bytes of text can return a message.
Receivable(q, n) ==
    /\ q # << >>
    /\ Head(q).bytes <= n
==============================================================================
