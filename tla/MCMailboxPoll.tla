--------------------------- MODULE MCMailboxPoll ---------------------------
(* Small instances of MailboxPoll for TLC. *)
EXTENDS MailboxPollProperties, TLC

CONSTANTS a1, a2, x1, p1, p2, b1, b2

AnswerAndPoison == [m \in Mails |-> IF m = x1 THEN "broken" ELSE "reply"]
EveryKind == [m \in Mails |-> CASE m = a1 -> "reply" [] m = a2 -> "stranger" [] OTHER -> "oversized"]

Symmetry == Permutations(Polls)
=============================================================================
