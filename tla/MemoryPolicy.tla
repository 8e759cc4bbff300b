----------------------------- MODULE MemoryPolicy -----------------------------
(***************************************************************************)
(* When a conversation is compacted and how much of it is kept             *)
(* (domain/memory_policy.py).                                              *)
(***************************************************************************)
EXTENDS Integers, FiniteSetsExt

ShouldSummarizeMessages(total, trigger, keep) ==
  /\ trigger > 0
  /\ keep >= 1
  /\ total > Max({trigger, keep + 1})

\* How many of the oldest messages the summary replaces.
SummaryCutIndex(total, keep) ==
  IF keep < 1 THEN 0 ELSE Max({0, total - keep})

=============================================================================
