------------------------------ MODULE ByteFile ------------------------------
(***************************************************************************)
(* What an open file promises: a sequence of bytes and a position.  A call *)
(* moves its bytes in pieces.  After a disk error nothing is promised.     *)
(***************************************************************************)
EXTENDS Naturals, Sequences

CONSTANT Byte

VARIABLES
    content,   \* the bytes of the file
    pos,       \* the read/write pointer
    req,       \* the call under way: op, bytes left, byte to write, offset
    out,       \* the bytes the last piece of a read delivered
    writable,  \* opened for writing
    broken     \* a call ended with a disk error

vars == <<content, pos, req, out, writable, broken>>

Smaller(a, b) == IF a < b THEN a ELSE b
Larger(a, b) == IF a > b THEN a ELSE b
Idle == req.op = "none"

Call == /\ Idle /\ req'.op # "none"
        /\ \/ req'.op = "read" /\ req'.left <= Len(content) - pos
           \/ req'.op \in {"write", "seek"}
        /\ UNCHANGED <<content, pos, out, writable, broken>>

(* A piece of a read delivers the next bytes of the file. *)
ReadPiece ==
    /\ req.op = "read"
    /\ \E n \in 1 .. req.left :
          /\ out' = SubSeq(content, pos + 1, pos + n)
          /\ pos' = pos + n
          /\ req' = [req EXCEPT !.left = @ - n]
    /\ UNCHANGED <<content, writable, broken>>

(* A piece of a write replaces or appends bytes at the position. *)
WritePiece ==
    /\ req.op = "write"
    /\ \E n \in 1 .. req.left :
          /\ content' = [i \in 1 .. Larger(Len(content), pos + n) |->
                            IF i \in pos + 1 .. pos + n THEN req.val ELSE content[i]]
          /\ pos' = pos + n
          /\ req' = [req EXCEPT !.left = @ - n]
    /\ UNCHANGED <<out, writable, broken>>

(* A read returns when it has delivered all it was asked for, a write may  *)
(* stop early on a full disk.                                              *)
Return ==
    /\ req.op = "write" \/ (req.op = "read" /\ req.left = 0)
    /\ req'.op = "none"
    /\ UNCHANGED <<content, pos, out, writable, broken>>

(* A seek goes to the offset, at most to the end of a file that is only    *)
(* read.  It extends a file that is written, as far as the disk has room;  *)
(* the new bytes are undefined.                                            *)
Seek ==
    /\ req.op = "seek" /\ req'.op = "none"
    /\ \/ req.ofs <= Len(content) /\ pos' = req.ofs
       \/ req.ofs > Len(content) /\ ~writable /\ pos' = Len(content)
       \/ req.ofs > Len(content) /\ writable /\ pos' \in 0 .. req.ofs
    /\ Len(content') = Larger(Len(content), pos')
    /\ SubSeq(content', 1, Len(content)) = content
    /\ UNCHANGED <<out, writable, broken>>

Truncate ==
    /\ Idle /\ writable
    /\ content' = SubSeq(content, 1, pos)
    /\ UNCHANGED <<pos, req, out, writable, broken>>

(* f_close and f_open find the same bytes. *)
Reopen ==
    /\ Idle /\ pos' = 0 /\ writable' \in BOOLEAN
    /\ UNCHANGED <<content, req, out, broken>>

Next == \/ broken'
        \/ Call \/ ReadPiece \/ WritePiece \/ Return \/ Seek \/ Truncate \/ Reopen

Init == content \in Seq(Byte) /\ pos = 0 /\ Idle /\ out = <<>> /\ writable \in BOOLEAN /\ ~broken

Spec == Init /\ [][Next]_vars
=============================================================================
