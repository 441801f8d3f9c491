---------------------------- MODULE MCJbd2 ----------------------------
(* Jbd2 on a log of five blocks: disks a first mount may find.             *)
EXTENDS Jbd2

MCCredits == {[metadata |-> 2, data |-> 0, revokes |-> 0],
              [metadata |-> 1, data |-> 1, revokes |-> 1]}

MCFirst == SeqMod - 2      \* the sequence number wraps within the run

Old == [h \in Home |-> "old"]
Tag(b, v) == [block |-> b, image |-> Image(v)]

\* A fresh journal, and two that another ext4 implementation left, each with
\* two transactions: the second revokes the block that the first has logged,
\* which keeps its home contents, or logs the block that the first has revoked.
MCDisks ==
    {[sb |-> [seq |-> MCFirst, tail |-> 0, head |-> 0], home |-> Old, store |-> Old,
      log |-> [i \in Pos |-> Zero]],
     [sb |-> [seq |-> MCFirst, tail |-> 4, head |-> 0], home |-> Old, store |-> Old,
      log |-> <<Commit(MCFirst), Revoke(MCFirst + 1, {"a"}), Commit(MCFirst + 1),
                Desc(MCFirst, <<Tag("a", "magic")>>), Image("magic")>>],
     [sb |-> [seq |-> MCFirst, tail |-> 4, head |-> 0], home |-> Old,
      store |-> [Old EXCEPT !["a"] = "magic"],
      log |-> <<Desc(MCFirst + 1, <<Tag("a", "magic")>>), Image("magic"), Commit(MCFirst + 1),
                Revoke(MCFirst, {"a"}), Commit(MCFirst)>>]}
=============================================================================
