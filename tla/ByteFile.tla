------------------------------ MODULE ByteFile ------------------------------
(***************************************************************************)
(* What save_bytes() promises of its in-memory output: it is a file.  The  *)
(* muxer writes bytes at a cursor and moves the cursor, also past the end  *)
(* (what it then skips reads as zero) and back (what it then writes        *)
(* replaces what was there); the bytes returned are the whole file.        *)
(***************************************************************************)
EXTENDS Integers

CONSTANTS Bytes, Zero

VARIABLES contents,    \* a function from the offsets of the file to bytes
          cursor,
          returned     \* what save_bytes returned, or the empty file

fileVars == <<contents, cursor, returned>>

Empty == [i \in {} |-> Zero]

Init == contents = Empty /\ cursor = 0 /\ returned = Empty

Put(b) ==
    /\ contents' = [i \in 0..cursor \cup DOMAIN contents |->
                       IF i = cursor THEN b
                       ELSE IF i \in DOMAIN contents THEN contents[i] ELSE Zero]
    /\ cursor' = cursor + 1
    /\ UNCHANGED returned

Move ==
    /\ cursor' \in Nat
    /\ UNCHANGED <<contents, returned>>

Return ==
    /\ returned' = contents
    /\ UNCHANGED <<contents, cursor>>

Next == (\E b \in Bytes : Put(b)) \/ Move \/ Return

Spec == Init /\ [][Next]_fileVars
=============================================================================
