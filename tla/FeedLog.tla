------------------------------ MODULE FeedLog ------------------------------
(***************************************************************************)
(* What the feed promises a reader, whatever the mechanism: an append-only *)
(* log of index updates.  Entry number e of the log, counted from 0, is    *)
(* epoch e; it is a well-formed update when it enters, no earlier than the *)
(* entry before it, and nothing in the log ever changes.                   *)
(***************************************************************************)
EXTENDS Integers, Sequences

CONSTANT Update         \* the well-formed updates

VARIABLE log            \* the updates published so far, oldest first

LogInit == log = <<>>

\* The only thing that can happen to the log.
Extend(u) ==
  /\ u.epoch = Len(log)
  /\ log # <<>> => log[Len(log)].published_at <= u.published_at
  /\ log' = Append(log, u)

LogNext == \E u \in Update : Extend(u)

LogSpec == LogInit /\ [][LogNext]_log
=============================================================================
