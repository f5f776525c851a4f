---------------------------- MODULE MCStreamTurn ----------------------------
(* Replies of each format, with two calls that share the one slot.          *)
EXTENDS StreamTurn

Reply(blocks, stop) == [blocks |-> blocks, stop |-> stop]
Bash(id) == Call(id, "bash", "some")
Write(id) == Call(id, "write", "some")
Grep(id) == Call(id, "grep", "none")
Gone(id) == Call(id, "gone", "some")

Replies ==
  {Reply(<<Text>>, "end"),
   Reply(<<Thinking, Text, Write("a")>>, "end"),
   Reply(<<Bash("a"), Grep("b")>>, "end"),
   Reply(<<Write("a"), Bash("b")>>, "end"),
   Reply(<<Bash("a"), Bash("b"), Bash("c")>>, "end"),
   Reply(<<Text, Gone("a"), Bash("b")>>, "length")}

MCSetups == [format : Formats, reply : Replies, streaming : BOOLEAN]

=============================================================================
